# TLA+ models of the chisel server session

This directory holds TLA+ models of the server side of XevoInc/chisel,
a TCP-over-HTTP tunnel whose client and server talk SSH over a websocket.
It also holds the TLC configurations that check the models on small
instances and TLAPS proofs of the main safety properties. Everything is
translated from `src/`.

## The system

`src/` has three files. Line numbers are those of `cat -n` on the whole
file.

- **`src/server/server.go`** holds three Go files.
  - Lines 1-222 are the current `server.go`: `NewServer`, `Run`, the
    SSH password callback `authUser`, `AddUser` and `DeleteUser`.
  - Lines 223-463 are an older `server.go`.
  - Lines 464-691 are the legacy `handler.go`: `handleClientHandler`, a
    `handleWebsocket` that runs a whole session inline, and legacy
    `handleSSHRequests`, `handleSSHChannels` and `handleSocksStream`.
- **`src/share/server_session.go`** is `ProxySSHSession`, the current
  per-connection session.
  - `Run` performs the SSH handshake.
  - `runWithSSHConn` does these steps in order:
    1. pulls the authenticated user from the session map;
    2. waits up to 10 s for a `config` request;
    3. decodes the config and checks `--reverse` and the user's allowed
       remotes;
    4. starts one reverse stub listener per reverse route;
    5. replies to the config;
    6. starts the request and channel handlers, then waits for the
       transport to close.
  - `handleSSHNewChannel` validates a channel open, accepts it, and then
    dials the local target.
- **`src/unnamed/part_000`** holds three things:
  - the `ssh` ProxyCommand shim script, lines 1-19;
  - the protobuf messages, lines 20-47;
  - the client's generic `SSHSession`, lines 49-262.

### Shared state and concurrency

Concurrent parts share this state:

- the **user index** `s.users`, which `AddUser` and `DeleteUser` change
  while sessions run;
- the **session map** `s.sessions`, which hands the authenticated user
  from the password callback (handshake goroutine) to `runWithSSHConn`;
- the **ports** that reverse stubs bind, for which all sessions compete.

Each session runs several goroutines: the bring-up in `runWithSSHConn`,
the stubs' accept loops, `handleSSHChannels`, and one
`handleSSHNewChannel` per channel. They are stopped by the session's
`subCtx`. `subCtx` is a child of the ctx the caller gave `Server.Run`
(`server_session.go:140`, `server.go:143, 157`). So it is done in two
cases:

- the deferred `subCtxCancel` runs as `runWithSSHConn` returns;
- that parent ctx is cancelled.

In the second case every session's stubs and channel handlers stop, and
a config ack still in `sendSSHReply` fails with `ctx.Err()`, while
`runWithSSHConn` keeps waiting in `sshConn.Wait`. Nothing closes the
transport on that cancel.

### Hard behaviours

Each of these is listed in `PROJECT.json` under "hazards":

- the user index is read twice, in `authUser` and again in
  `runWithSSHConn`;
- a session-map entry is written before the handshake has succeeded;
- the request channel is closed before the config arrives;
- the 10 s timeout races the config;
- a port is still held by a torn-down session's stub;
- the server's ctx is cancelled while sessions run, which stops their
  stubs under a session that may be serving;
- channel opens are queued before the reply;
- a channel is accepted before its target is dialed;
- channel opens have no access control;
- the reply goroutine blocks forever when its context ends first;
- replies may reach the wire out of order once the parent context is
  cancelled.

## Modules

### `SessionCore.tla`: sessions, the user index, stubs and channels

It is parameterised by these constants:

- `Conn` (sessions), `ChanId` (channel opens), `UserName`, `Password`,
  `Port` and `Target`;
- `Profiles` (the user records), `InitUsers`, `Configs` and
  `Descriptors`;
- the server flags `ReverseOk` (`--reverse`) and `SocksOk` (`--socks5`);
- `UserEdits`, which says whether the administrator calls `AddUser` and
  `DeleteUser` at run time.

HasAccess regexps are abstracted to set membership, and a payload either
decodes to a config or is `Malformed`.

| variable | code |
|---|---|
| `users` | `s.users` |
| `sessions` | `s.sessions` (entry of the session ID of connection c) |
| `phase` | the point the session's Run/runWithSSHConn has reached |
| `srvDone` | the ctx given to `Server.Run`, parent of every `subCtx`, is done |
| `connUp` | the transport is open |
| `cancelled` | the session's own `subCtxCancel` has run; `SubCtxDone(c)` (`cancelled[c] \/ srvDone`) is `subCtx` done |
| `authRec` | history: the record the password callback accepted |
| `user` | the local `user` of runWithSSHConn |
| `cfg`, `idx` | the decoded `ChannelDescriptors` and the bring-up loop index |
| `listener` | which session's stub holds each port |
| `chans` | the state of each channel open, its session and its descriptor |

Actions, with the code each one models (also in `PROJECT.json` "map"):

- `AuthUser` models `authUser`.
- `HandshakeFail` models `NewServerConn` failing in `Run`.
- `StartSession` models the user pull from the session map, lines 147-153.
- `ReceiveConfig` models the whole config step, lines 155-209. On any
  failed check it replies with an error and tears the session down. It
  has no guard on the transport: a request the SSH library has already
  buffered is still received after the transport closes.
- `ConfigTimeout` models the expiry of `cfgCtx`.
- `ConfigStreamClosed` models `receiveSSHRequest` returning `(nil, nil)`
  and the nil dereference after it.
- `StartStub` is one iteration of the reverse-stub loop. A failed
  `proxy.Start` fails the config. The bind fails on a port another stub
  holds, and may fail on any port for reasons outside the model (another
  process holds it, no permission).
- `SendConfigReply` models the reply to the config. If the reply's
  result wins `sendSSHReply`'s select, the session serves. If the
  transport is gone or the server's ctx is done, the session is torn
  down, and the ack may already have gone out.
- `SessionEnd` models `sshConn.Wait` returning.
- `Teardown` models `sshConn.Close`, `close(s.done)` and the deferred
  `subCtxCancel`.
- `ServerCancel` models the caller of `Server.Run` cancelling its ctx.
  It gets no fairness.
- `StubStop` models a stub's listener closing once `subCtx` is done.
- `DispatchChannel` and `DropChannel` model `handleSSHChannels`. Once
  the server's ctx is done, the loop returns at its select.
  `DispatchChannel` then no longer fires. The model leaves out the one
  open that a racing select may still take.
- `HandleChannel` models decode, validation, reject and `Accept`.
- `DialTarget`, `ChannelEOF` and `ChannelCancel` model `DialAndServe`.
- `AddUser` and `DeleteUser` model the administrator.
- `Disconnect` and `OpenChannel` model the client.

Two parts are not under `src/`: `NewTCPProxy` and the skeleton endpoint.
`StubStop` and `ChannelCancel` are modelled from the spec. The
validation of a skeleton descriptor (`SkeletonAllowed`) is translated
from the legacy `handleSSHChannels`, because `NewLocalSkeletonChannelEndpoint`
is not under `src/`. The legacy check rejects the `loop` type, which
the newer endpoint might accept. No property here depends on which
types it rejects, so that difference is left as it is.

`MC_SessionCore.tla` fixes the small instance:

- one user `alice`, two passwords, one port and two targets;
- route records: forward to t1, forward to t2, and reverse from p1 to t1;
- two user profiles: one allowed only the t1 routes, one allowed all;
- config payloads that an allowed user and a denied user each send;
- for the stubs run, the single profile `MCStubProfiles` (allowed the
  t1 routes), so that deleting and re-adding `alice` stays cheap.

### `SSHReply.tla`: the request loop and `sendSSHReply`

Once a session serves, `handleSSHRequests` answers the client's global
requests. It answers a `ping` with `sendSSHReply(ctx, req, true, nil)`
and anything else with `sendSSHErrorReply`. `sendSSHReply` does three
things:

1. it starts a goroutine that calls `r.Reply` and then sends the result
   on an unbuffered channel;
2. it waits for that result, or for `ctx` to be done;
3. it returns.

The SSH library hands requests over in order, so the queue is two
counters, `sent` and `taken`. The other variables are:

| variable | code |
|---|---|
| `gs[i]` | the reply goroutine of request i: not started, in `r.Reply`, blocked on `result <- err`, exited |
| `loop` | handleSSHRequests: in its select, in sendSSHReply's select, returned |
| `cur` | the request sendSSHReply waits for |
| `wire` | the replies written to the transport, in order |
| `connUp` | the transport is open |
| `ctxDone` | the session's ctx is done |

The actions map to the code like this:

- `Receive` is the request case of the loop together with the start of
  the goroutine.
- `ReceiveNil` is `req == nil` on a closed stream.
- `LoopAbort` is the loop's `ctx.Done` case.
- `WriteReply` is `r.Reply`, which fails on a closed transport.
- `TakeResult` is the rendezvous on the result channel.
- `ReplyAbort` is sendSSHReply's `ctx.Done` case. The loop logs the
  error and continues.
- `WaitReturn` is `sshConn.Wait` returning followed by the deferred
  cancel.
- `ServerCancel` is the parent `ctx` of Run being cancelled. The
  constant `ParentCancel` says whether that can happen.
- `ClientSend` and `ConnClose` are the environment.

Go resolves a select with several ready cases by a random choice, so
both cases are enabled at once in the model.

The end of the module states what a client is promised (see
`ReplyChannel.tla` below) as `ReplyChannelSpec` and
`ReplyChannelSafety`. These are `RC!Spec` and `RC!SafetySpec` of
`RC == INSTANCE ReplyChannel`. The refinement mapping is the identity on
the shared variables `sent`, `reqType`, `wire` and `connUp`, and it hides
`taken`, `gs`, `loop`, `cur` and `ctxDone`.

### `ReplyChannel.tla`: what the request channel promises

This is the abstract specification of the global-request channel. The
client sends requests (`Send`). The server answers the oldest unanswered
request (`Answer`), with true for a ping and false otherwise. The
transport may close (`Close`). While the transport is open, every sent
request is eventually answered: `Spec` has weak fairness on `Answer`.
This is the order `golang.org/x/crypto/ssh` relies on when it pairs
replies with the client's outstanding requests.

### `LegacySession.tla`: the legacy `handleWebsocket`

This module models the legacy session of `server.go` lines 514-691. It
extends `SessionCore` and reuses these actions, whose code is the same
in both servers:

- the user index, `authUser` and the session-map pull;
- the channel-open checks;
- the stubs' accept loops.

It replaces the actions where the legacy code differs:

| action | code |
|---|---|
| `LegacyReceiveConfig` | a failed check calls `failed()` and returns; `sshConn` stays open and no ctx exists yet |
| `LegacyConfigTimeout` | the 10 s timer: `sshConn.Close()`, return |
| `LegacyConfigStreamClosed` | `r == nil` dereferenced; no defer is registered yet |
| `LegacyStartStub` | bring-up under the ctx made just before the loop; a failed bind returns, and the deferred `cancel()` stops the stubs already bound |
| `LegacySendConfigReply` | `r.Reply(true, nil)` with its error ignored |
| `LegacyDisconnect` | also closes the transport of a session that already returned |
| `LegacySessionEnd` | `sshConn.Wait()` returns, then the deferred `cancel()` |
| `LegacyStreamClosed` | a stream goroutine has no ctx; it ends when the transport closes |

`MC_LegacySession.tla` adds a second port and a user allowed two
reverse routes. With these, a bind can fail part-way through a bring-up
that has already bound a stub.

### `SessionContract.tla`: what a session promises

This is the abstract specification of a server session, with the
handshake, the goroutines, the channels and the user index hidden. It
states what the ports and the config of a session may do. A session
moves through four stages: `pending`, `binding`, `serving` and `done`.

| action | meaning |
|---|---|
| `Decide` | the session refuses the offered config and ends, or accepts it; a config with reverse routes is accepted only under `--reverse` |
| `Bind` | the session binds a free port of a reverse route of its config |
| `Serve` | the session acks its config once it holds every one of those ports, or at any point after `Shutdown` |
| `End` | the session ends, from any stage |
| `Release` | a port of an ended session is released, and after `Shutdown` any port may be; `Spec` requires the release of an ended session's ports eventually |
| `Shutdown` | the server is shut down (`down`); the promises on ports hold only until then |

`SessionCore.tla` instantiates the contract as
`SC == INSTANCE SessionContract WITH ...`. The mapping is:

- `stage` is `SessionStage`, which applies `StageOf` to each phase:
  - handshake, authenticated and config map to `pending`;
  - stubs maps to `binding`;
  - serving maps to `serving`;
  - closed and panicked map to `done`.
- `grant` is `cfg`;
- `owner` is `listener`;
- `down` is `srvDone`;
- the offers are `Configs` plus the empty route list (the decode of a
  malformed payload).

`SessionContractSpec` is `SC!Spec`, and `SessionContractSafety` is
`SC!SafetySpec`. `LegacySession` extends `SessionCore`, so the same
properties apply to the legacy server under the same mapping.

### TLAPS proofs

Five modules hold the proofs:

- `SessionCoreProofs.tla`;
- `SessionAuthProofs.tla`;
- `SessionContractProofs.tla`;
- `LegacySessionProofs.tla`;
- `SSHReplyProofs.tla`.

See "What is proved" below.

## Runs

| run | cfg | expect | checks |
|---|---|---|---|
| stubs | `SessionCore_stubs.cfg` | pass | `TypeOK`, `ServingHasAllStubs`, `SessionTeardown`, `SessionContractSafety` |
| auth | `SessionCore_auth.cfg` | pass | `ConfigAuthorized`, `StubsBackedByConfig` |
| channel_access | `SessionCore_channel_access.cfg` | violation | `ChannelWithinConfig` |
| config_race | `SessionCore_config_race.cfg` | violation | `ConfigAuthorized` |
| map_leak | `SessionCore_map_leak.cfg` | violation | `SessionMapHandoff` |
| nil_request | `SessionCore_nil_request.cfg` | violation | `NoNilConfigRequest` |
| legacy | `LegacySession.cfg` | pass | `ServingHasAllStubs`, `LegacyStubsReleased`, `SessionContractSpec` |
| legacy_reject | `LegacySession_reject.cfg` | violation | `SessionTeardown` |
| reply | `SSHReply.cfg` | pass | `RequestAnswered` |
| reply_fifo | `SSHReply_fifo.cfg` | pass | `RepliesInOrder`, `ReplyChannelSpec` |
| reply_leak | `SSHReply_leak.cfg` | violation | `ReplyGoroutinesEnd` |
| reply_order | `SSHReply_order.cfg` | violation | `RepliesInOrder` |

What each passing run shows:

- **stubs.** Two sessions compete for one port, with configs that hold a
  reverse route. Meanwhile the administrator deletes and re-adds the
  user, and the server's ctx may be cancelled. `ServingHasAllStubs`
  holds until that cancel. A session whose stub
  cannot bind must fail its config. The port may be held by the other
  session, or by a stale stub that has not stopped yet. After `Run`
  returns, the session's stubs stop and its channels finish. The
  instance has two sessions so that this contention happens. Every
  step is a step of `SessionContract`. That is the small instance of
  `SessionRefinement`. Only the safety half is checked here, because
  the liveness half costs a further minute. The instance has one
  channel and one user profile, which keeps the run at about two and a
  half minutes. With both profiles it takes ten.
- **auth.** Two sessions with allowed and denied configs and a fixed
  user index. Sessions pass the config step only with allowed routes.
  Stubs exist only for reverse routes under `--reverse`. This is the
  small instance of two theorems: `ConfigAuthorizedCorrect` and
  `StubsBackedByConfigCorrect`.
- **legacy.** Two legacy sessions, two ports, and a user allowed to
  bring up two reverse routes. A session that serves holds all its
  stubs. After `handleWebsocket` returns, every stub it bound stops
  listening. That includes a return on a failed bind part-way through
  the loop. The legacy sessions also implement `SessionContract`,
  including the eventual release of ports.
- **reply.** Three requests of both types. The transport may close and
  the parent ctx may be cancelled at any point. Every request the loop
  takes is answered on the wire unless the transport closes first. Three
  requests are enough for a reply to be in flight while a later request
  waits and a third is still unsent.
- **reply_fifo.** The same three requests, but the parent ctx is never
  cancelled. This run checks two things:
  - replies reach the wire in request order (the small instance of
    `RepliesInOrderCorrect`);
  - `SSHReply` implements `ReplyChannel`, both the safety part and the
    liveness of `Answer` under the model's own fairness.

What the violation runs find:

- **config_race.** Deleting the last user between authentication and
  the config step lets a restricted user bring up a denied route. The
  trace is `AuthUser`, `DeleteUser`, `StartSession`, `ReceiveConfig`.
- **map_leak.** A handshake that fails after the callback leaks its
  session-map entry.
- **nil_request.** A disconnect during the config wait panics.
- **channel_access.** A channel to a target never authorized is
  accepted.
- **legacy_reject.** A legacy session whose config is refused returns
  from `handleWebsocket` without `sshConn.Close()`. The transport stays
  open. A channel the client opened during the config step stays
  queued, because no `handleSSHChannels` ever runs. The spec says the
  session is torn down.
- **reply_leak.** The comment above `sendSSHReply` says an abandoned
  goroutine leaks "until the ssh.ServerConn is closed". In fact, when
  the transport closes during a reply, `Wait` returns and `ctx` is
  cancelled. sendSSHReply then takes `ctx.Done`, and the goroutine
  blocks on `result <- err` forever.
- **reply_order.** Once the parent ctx is cancelled while the transport
  is open, the loop abandons one reply and takes the next request. The
  two `r.Reply` calls race, and replies reach the client out of order.
  The client's SSH library pairs global replies with requests by order.

Deadlock checking is off. A finite model stops once every session has
ended, and the real server then only waits for new HTTP requests.

### Fairness

The only fairness is weak fairness, on the steps that goroutines of the
session take by themselves once they can:

- the bring-up (`StartSession`, `StartStub`, `SendConfigReply`,
  `SessionEnd`), per session;
- each stub's accept loop (`StubStop`);
- each channel's handler, together with the SSH library dropping queued
  opens of a closed transport.

`LegacySession` has the same fairness, on its own versions of the
bring-up steps and of the stream goroutines.

In `SSHReply`, weak fairness goes to the request loop, to each reply
goroutine, and to runWithSSHConn returning once `Wait` returns.

The Go scheduler runs every runnable goroutine eventually. The client,
the network and the administrator get no fairness, and neither does the
caller of `Server.Run` (`ServerCancel`).

## What is proved

### `SessionCoreProofs.tla`

Both results hold for every value of the constants, under the named
assumptions of `SessionCore` (`UsersAssumption`, `ConfigsAssumption`,
`DescriptorsAssumption`, `ConnAssumption`, `FlagsAssumption`).

- **`TypeCorrect`**: `Spec => []TypeOK`. There is one step per action.
  Lemmas cover the literals of the phase and channel-state sets and the
  update of one channel's state.
- **`ServingStubsCorrect`**: `Spec => []ServingHasAllStubs`.
  `ServingHasAllStubs` says that a session serving while the server's
  ctx is live holds every reverse port of its config. After
  `ServerCancel`, every stub may stop under a serving session, and the
  property makes no claim. It is not inductive: a `StubStop` could free
  a port that a serving session needs. The inductive strengthening
  `StubsInv` adds three facts:
  1. a session's own cancel runs only after `Run` has returned, so
     while the server's ctx is live, a stub that `StubStop` may release
     never belongs to a session in `stubs` or `serving`;
  2. `idx` stays at most `Len(cfg) + 1`;
  3. while the server's ctx is live, during the bring-up loop every
     reverse route before `idx` is held by this session.

  Facts 1 and 2 do not depend on the server's ctx. They form `LiveIdx`,
  and `NextLiveIdx` proves them on their own. `SrvDoneKept` says that
  the server's ctx, once done, stays done. When `srvDone'` holds, facts
  3 and `ServingHasAllStubs` are vacuous. Otherwise `srvDone` was false
  too, and `NextStubsInvLive` does the step-by-step proof.

  TLC checked `StubsInv` as an invariant of the stubs run before the
  proof. The proof shows `Init => StubsInv` and that each action
  preserves it. It rests on these lemmas:
  - a frame lemma for steps that do not touch the variables `StubsInv`
    reads;
  - a teardown lemma;
  - a lemma that elements of a config are routes.

### `SSHReplyProofs.tla`

- **`ReplyTypeCorrect`**: `Spec => []TypeOK`, for any `MaxReqs`.
- **`RepliesInOrderCorrect`**: under `~ParentCancel`,
  `Spec => []RepliesInOrder`. The inductive invariant `OrderInv` says:
  1. every reply on the wire is for a request already taken;
  2. a goroutine still in `r.Reply` is for a request later than every
     reply on the wire;
  3. goroutines exist exactly for the taken requests;
  4. while sendSSHReply waits, `cur` is a taken request;
  5. while the transport is open and `ctx` is live, the only goroutine
     in `r.Reply` is the one sendSSHReply waits for;
  6. without a parent cancel, `ctx` is done only after the transport
     has closed.

  Together, facts 5 and 6 say that an abandoned goroutine can never
  write to the wire. The `reply_order` run shows that this assumption
  is needed.

### `SessionAuthProofs.tla`

- **`ConfigAuthorizedCorrect`**: under `~UserEdits`,
  `Spec => []ConfigAuthorized`. The authenticated user crosses two
  goroutines: `authUser` stores it in the session map, and
  `runWithSSHConn` pulls it into `user`. The access check runs against
  `user`. So the invariant must follow the record along that path. The
  inductive `AuthInv` (in `SessionCore.tla`) says:
  1. the index is the initial one;
  2. in the handshake nothing is recorded;
  3. after the callback the map holds the checked record;
  4. from the config step on, `user` is that record;
  5. a record was checked only while the index was not empty, so the
     pull does take it.

  The `config_race` run shows that the assumption is needed.
- **`StubsBackedByConfigCorrect`**: `Spec => []StubsBackedByConfig`,
  with no assumption on user edits. The inductive `BackedInv` adds two
  facts:
  1. a session that holds a port is past its config step, so its config
     is never replaced afterwards;
  2. a config that got past the check has no reverse route unless
     `--reverse` is on.

TLC checked both strengthenings before the proofs, on the auth
instance. It also checked `BackedInv` with user edits and `--reverse`
on (1.6 million states).

### `SSHReplyProofs.tla`, refinement

- **`ReplyRefinement`**: under `~ParentCancel`,
  `Spec => ReplyChannelSafety`. Every step of the request/reply path is
  one of these steps of `ReplyChannel`:
  - a `Send`;
  - an `Answer` of the oldest unanswered request, with the right value;
  - a `Close`;
  - a stutter.

  The inductive `PrefixInv` says:
  1. the wire holds the replies to requests 1..Len(wire), in order;
  2. while the loop waits in its select with the transport open, every
     taken request has been answered;
  3. while it waits in sendSSHReply, either the reply to `cur` is still
     being written or it is already on the wire.

  Lemma `WriterIsNext` shows that the goroutine in `r.Reply` writes
  request `Len(wire) + 1`.

### `SessionContractProofs.tla`

- **`SessionRefinement`**: `Spec => SessionContractSafety`. The proof
  has two parts. `InitRefines` maps the initial state to the contract's
  initial state. `StepRefines` maps each step, with one case per action
  of `Next`:

  | step of `SessionCore` | step of the contract |
  |---|---|
  | handshake, session-map pull, administrator and channel steps | stutter |
  | `ReceiveConfig` | `Decide`, for the payload or its empty decode |
  | a bind of `StartStub` | `Bind` |
  | `SendConfigReply` when the reply wins | `Serve` |
  | every return of `Run` | `End` |
  | `StubStop` | `Release` |
  | `ServerCancel` | `Shutdown` |

  The steps need `StubsInv` from `SessionCoreProofs`:
  - `Serve`, while the server's ctx is live, needs every reverse port
    held and the loop index past the end of the config;
  - `Release` of a stub whose own session was cancelled needs that
    session to have returned. After `Shutdown`, the contract allows any
    release.

  An earlier version of this contract had no `Shutdown`. It claimed
  that ports were released only after `Run` returned, and the
  server-ctx cancel breaks that claim.

  The lemmas `StageOfPhase`, `StageUpdate` and `StageKept` say how a
  change of one session's phase moves the mapped stage.

### `LegacySessionProofs.tla`

- **`LegacyTypeCorrect`**: `LegacySpec => []TypeOK`.
- **`LegacyServingStubsCorrect`**:
  `LegacySpec => [](ServingHasAllStubs /\ ~srvDone)`.
  `handleWebsocket` runs under `context.Background()`, so no legacy
  step cancels the server ctx (lemma `LegacyNeverDone`). The guarantee
  therefore holds with no shutdown exception.
- **`LegacyRefinement`**: `LegacySpec => SessionContractSafety`.

Most legacy steps are steps of `SessionCore`'s `Next` (lemma
`LegacySharedNext`). That covers the shared handshake and channel code,
an accepted config, and the bind and skip branches of the bring-up. For
those steps the lemmas above apply unchanged.

The steps where the legacy code differs get lemmas of their own:

- `CloseStubsInv` covers a return that closes neither the transport nor
  the ctx: a refused config, the timeout, the nil request, a failed
  bind (`LegacyBindFail`, on any port), and `Wait`.
- `AckStubsInv` covers the ack.
- `CloseRefines` maps those returns to `End`.

So `StubsInv` is inductive for the legacy server too. TLC checked it on
the legacy instance before the proof. The legacy ack ignores a closed
transport, yet it is still the contract's `Serve`.

## What is only model-checked, and why

- **Liveness** needs fairness and ENABLED, which TLAPS does not handle
  here. This covers:
  - `SessionTeardown`, `LegacyStubsReleased` and `RequestAnswered`;
  - the fairness halves of `ReplyChannelSpec` and
    `SessionContractSpec`.

## Not modelled

| part | why |
|---|---|
| `NewServer`, `Server.Run`, `handleClientHandler` | start-up and HTTP routing, with no concurrent state; their results are constants (only the cancellation of `Server.Run`'s ctx is modelled, as `ServerCancel`) |
| legacy `handleSSHRequests` | its ping handling is that of the newer loop without the goroutine; not modelled separately |
| legacy `handleClientHandler` and the older `server.go` front | HTTP routing and start-up |
| client `SSHSession` | not modelled yet |
| protobuf encoding | data only |
| shell shim | no state |
| SOCKS5 server | third-party |

## Plan for later sittings

1. The client `SSHSession` channel handler.
2. A refinement of `SSHReply` with a cancelled parent ctx into a weaker
   channel contract, one that allows the reordering the `reply_order`
   run shows.
