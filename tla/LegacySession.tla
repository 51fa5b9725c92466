--------------------------- MODULE LegacySession ---------------------------
(***************************************************************************)
(* The older server of src/server/server.go (lines 223-691): one session  *)
(* is one call of handleWebsocket, which runs the handshake, the config   *)
(* step and the reverse-stub bring-up inline and then waits on            *)
(* sshConn.Wait() while handleSSHRequests and handleSSHChannels serve.    *)
(*                                                                         *)
(* It shares the server state, the password callback authUser, the        *)
(* session-map pull and the channel-open checks with the newer session    *)
(* (the code of those is the same), so the module extends SessionCore and *)
(* reuses those actions.  It differs where the code differs: a failed     *)
(* config returns without closing the transport, the config timeout       *)
(* closes it, the ctx that stops the stubs exists only from the bring-up  *)
(* on, the ack's error is ignored, and accepted streams are tied to the   *)
(* transport, not to a ctx.  handleWebsocket is given no ctx of the       *)
(* server: the stubs' ctx comes from context.Background(), so srvDone     *)
(* stays FALSE and no step here cancels it.                               *)
(***************************************************************************)
EXTENDS SessionCore

-----------------------------------------------------------------------------
(* The config step of handleWebsocket.                                     *)

\* The select receives the first request within 10 s.  A failed check
\* calls failed(), which replies false, and handleWebsocket returns: no
\* ctx exists yet and sshConn is not closed.  A request the SSH library
\* buffered is still received after the transport closed.
LegacyReceiveConfig(c, r) ==
  /\ phase[c] = "config"
  /\ cfg' = [cfg EXCEPT ![c] = IF r.payload = Malformed THEN << >> ELSE r.payload]
  /\ IF ConfigError(user[c], r)
       THEN /\ phase' = [phase EXCEPT ![c] = "closed"]
            /\ UNCHANGED idx
       ELSE /\ phase' = [phase EXCEPT ![c] = "stubs"]
            /\ idx' = [idx EXCEPT ![c] = 1]
  /\ UNCHANGED <<srvDone, users, sessions, connUp, cancelled, authRec, user, listener,
                 chans>>

\* time.After(10 * time.Second) fires first: sshConn.Close(), return.
LegacyConfigTimeout(c) ==
  /\ phase[c] = "config"
  /\ phase' = [phase EXCEPT ![c] = "closed"]
  /\ connUp' = [connUp EXCEPT ![c] = FALSE]
  /\ UNCHANGED <<srvDone, users, sessions, cancelled, authRec, user, cfg, idx, listener,
                 chans>>

\* reqs is closed: the select receives r == nil and r.Type dereferences
\* it.  net/http recovers the panic; no defer is registered yet.
LegacyConfigStreamClosed(c) ==
  /\ phase[c] = "config"
  /\ ~connUp[c]
  /\ phase' = [phase EXCEPT ![c] = "panicked"]
  /\ UNCHANGED <<srvDone, users, sessions, connUp, cancelled, authRec, user, cfg, idx,
                 listener, chans>>

\* Mutant of LegacyStartStub: the error of proxy.Start is ignored.
LegacyStartStubIgnoreBindError(c) ==
  /\ phase[c] = "stubs"
  /\ idx[c] <= Len(cfg[c])
  /\ LET rt == cfg[c][idx[c]] IN
       \/ /\ ~rt.reverse \/ listener[rt.port] # NoConn
          /\ UNCHANGED listener
       \/ /\ rt.reverse
          /\ listener[rt.port] = NoConn
          /\ listener' = [listener EXCEPT ![rt.port] = c]
  /\ idx' = [idx EXCEPT ![c] = @ + 1]
  /\ UNCHANGED <<srvDone, users, sessions, phase, connUp, cancelled, authRec, user, cfg,
                 chans>>

\* Mutant of LegacyStartStub: a failed bind returns without the deferred
\* cancel() of the ctx the stubs already started run under.
LegacyStartStubNoCancel(c) ==
  /\ phase[c] = "stubs"
  /\ idx[c] <= Len(cfg[c])
  /\ LET rt == cfg[c][idx[c]] IN
       \/ /\ ~rt.reverse
          /\ idx' = [idx EXCEPT ![c] = @ + 1]
          /\ UNCHANGED <<phase, listener>>
       \/ /\ rt.reverse
          /\ listener[rt.port] = NoConn
          /\ listener' = [listener EXCEPT ![rt.port] = c]
          /\ idx' = [idx EXCEPT ![c] = @ + 1]
          /\ UNCHANGED phase
       \/ /\ rt.reverse
          /\ listener[rt.port] # NoConn
          /\ phase' = [phase EXCEPT ![c] = "closed"]
          /\ UNCHANGED <<idx, listener>>
  /\ UNCHANGED <<srvDone, users, sessions, connUp, cancelled, authRec, user, cfg, chans>>

\* One iteration of "set up reverse port forwarding", under the ctx made
\* just before the loop with "defer cancel()": a failed bind calls
\* failed() and returns, and the deferred cancel() stops the stubs this
\* session already started; sshConn stays open.  As in StartStub, a bind
\* fails on a port another stub holds and may fail on any port.
LegacyStartStub(c) ==
  /\ phase[c] = "stubs"
  /\ idx[c] <= Len(cfg[c])
  /\ LET rt == cfg[c][idx[c]] IN
       \/ /\ ~rt.reverse
          /\ idx' = [idx EXCEPT ![c] = @ + 1]
          /\ UNCHANGED <<phase, cancelled, listener>>
       \/ /\ rt.reverse
          /\ listener[rt.port] = NoConn
          /\ listener' = [listener EXCEPT ![rt.port] = c]
          /\ idx' = [idx EXCEPT ![c] = @ + 1]
          /\ UNCHANGED <<phase, cancelled>>
       \/ /\ rt.reverse
          /\ phase' = [phase EXCEPT ![c] = "closed"]
          /\ cancelled' = [cancelled EXCEPT ![c] = TRUE]
          /\ UNCHANGED <<idx, listener>>
  /\ UNCHANGED <<srvDone, users, sessions, connUp, authRec, user, cfg, chans>>

\* Mutant of LegacySendConfigReply: the ack is sent before the bring-up
\* loop has run over the whole config.
LegacySendConfigReplyEarly(c) ==
  /\ phase[c] = "stubs"
  /\ phase' = [phase EXCEPT ![c] = "serving"]
  /\ UNCHANGED <<srvDone, users, sessions, connUp, cancelled, authRec, user, cfg, idx,
                 listener, chans>>

\* r.Reply(true, nil), whose error is not looked at; the request and
\* channel loops start and handleWebsocket blocks in sshConn.Wait().
LegacySendConfigReply(c) ==
  /\ phase[c] = "stubs"
  /\ idx[c] > Len(cfg[c])
  /\ phase' = [phase EXCEPT ![c] = "serving"]
  /\ UNCHANGED <<srvDone, users, sessions, connUp, cancelled, authRec, user, cfg, idx,
                 listener, chans>>

\* The client or the network closes the transport, also of a session
\* whose handleWebsocket already returned on a failed config.
LegacyDisconnect(c) ==
  /\ phase[c] \in {"config", "stubs", "serving", "closed"}
  /\ connUp[c]
  /\ connUp' = [connUp EXCEPT ![c] = FALSE]
  /\ UNCHANGED <<srvDone, users, sessions, phase, cancelled, authRec, user, cfg, idx,
                 listener, chans>>

\* sshConn.Wait() returns; handleWebsocket returns and the deferred
\* cancel() runs.
LegacySessionEnd(c) ==
  /\ phase[c] = "serving"
  /\ ~connUp[c]
  /\ phase' = [phase EXCEPT ![c] = "closed"]
  /\ cancelled' = [cancelled EXCEPT ![c] = TRUE]
  /\ UNCHANGED <<srvDone, users, sessions, connUp, authRec, user, cfg, idx, listener,
                 chans>>

-----------------------------------------------------------------------------
(* handleSSHChannels.                                                      *)

\* The body of the legacy "for ch := range chans" up to ch.Accept(): the
\* JSON, role, stdio/loop/unix and --socks5 checks reject, in the order
\* and with the outcome of the newer handleSSHNewChannel, so the step is
\* SessionCore's HandleChannel.
LegacyHandleChannel(h) == HandleChannel(h)

\* The stream goroutine (HandleTCPStream or handleSocksStream) is not
\* given the ctx: its channel ends when the transport under it closes.
LegacyStreamClosed(h) ==
  /\ chans[h].st = "serving"
  /\ ~connUp[chans[h].conn]
  /\ chans' = [chans EXCEPT ![h].st = "closed"]
  /\ UNCHANGED <<srvDone, users, sessions, phase, connUp, cancelled, authRec, user, cfg,
                 idx, listener>>

-----------------------------------------------------------------------------
LegacyNext ==
  \/ \E n \in UserName, u \in Profiles : AddUser(n, u)
  \/ \E n \in UserName : DeleteUser(n)
  \/ \E c \in Conn :
       \/ \E n \in UserName, pw \in Password : AuthUser(c, n, pw)
       \/ HandshakeFail(c)
       \/ StartSession(c)
       \/ \E r \in Requests : LegacyReceiveConfig(c, r)
       \/ LegacyConfigTimeout(c)
       \/ LegacyConfigStreamClosed(c)
       \/ LegacyStartStub(c)
       \/ LegacySendConfigReply(c)
       \/ LegacyDisconnect(c)
       \/ LegacySessionEnd(c)
  \/ \E p \in Port : StubStop(p)
  \/ \E h \in ChanId :
       \/ \E c \in Conn, d \in Descriptors \cup {BadJSON} : OpenChannel(h, c, d)
       \/ DispatchChannel(h)
       \/ DropChannel(h)
       \/ LegacyHandleChannel(h)
       \/ DialTarget(h)
       \/ ChannelEOF(h)
       \/ LegacyStreamClosed(h)

\* handleWebsocket and the goroutines it starts run to their next blocking
\* point; the client, the network and the administrator get no fairness.
LegacyFairness ==
  /\ \A c \in Conn : WF_vars(StartSession(c) \/ LegacyStartStub(c)
                              \/ LegacySendConfigReply(c) \/ LegacySessionEnd(c))
  /\ \A p \in Port : WF_vars(StubStop(p))
  /\ \A h \in ChanId : WF_vars(DispatchChannel(h) \/ DropChannel(h)
                               \/ LegacyHandleChannel(h) \/ DialTarget(h)
                               \/ LegacyStreamClosed(h))

LegacySpec == Init /\ [][LegacyNext]_vars /\ LegacyFairness

-----------------------------------------------------------------------------
(* Properties.                                                             *)

\* Once handleWebsocket has returned, whether on a failed bind part-way
\* through the bring-up or after Wait, every stub it started eventually
\* stops listening: the deferred cancel() reaches the stubs already bound.
LegacyStubsReleased ==
  \A c \in Conn : phase[c] = "closed" ~> \A p \in Port : listener[p] # c

=============================================================================
