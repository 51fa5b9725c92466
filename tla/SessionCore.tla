---------------------------- MODULE SessionCore ----------------------------
(***************************************************************************)
(* The server side of a chisel session (src/share/server_session.go,      *)
(* ProxySSHSession) together with the server state it shares with every   *)
(* other session (src/server/server.go): the user index, the session map  *)
(* that hands the authenticated user from the SSH password callback to    *)
(* the config step, and the table of bound reverse-stub ports.            *)
(*                                                                         *)
(* One element of Conn is one upgraded websocket connection, run by       *)
(* ProxySSHSession.Run from the handshake to teardown.  The client, the   *)
(* network and the administrator calling AddUser/DeleteUser are the       *)
(* environment: their steps are nondeterministic choices.                 *)
(***************************************************************************)
EXTENDS Naturals, Sequences, FiniteSets

CONSTANTS
  Conn,        \* upgraded websocket connections, one session each
  ChanId,      \* SSH channel-open requests the clients may send
  UserName,    \* user names a client may present in the handshake
  Password,    \* passwords a client may present
  Port,        \* addresses a reverse stub may bind
  Target,      \* dial targets of skeleton endpoints (host:port)
  Profiles,    \* the user records [pass, addrs] the user index may hold
  InitUsers,   \* the user index when the server starts
  Configs,     \* the config payloads a client may send
  Descriptors, \* the endpoint descriptors a channel open may carry
  ReverseOk,   \* server flag --reverse
  SocksOk,     \* server flag --socks5 (socksServer # nil)
  UserEdits,   \* whether AddUser/DeleteUser are called while sessions run
  NoUser,      \* a nil *User / an absent map entry
  NoConn,      \* an unbound port
  Malformed,   \* a config payload that does not decode
  BadJSON      \* channel extra data that does not decode

Roles   == {"stub", "skeleton"}
EpTypes == {"tcp", "unix", "socks", "stdio", "loop"}

\* ChannelEndpointDescriptor: role, type, path.
Descriptor == [role : Roles, type : EpTypes, path : Target]

\* ChannelDescriptor: a route of the session config.
Route == [reverse : BOOLEAN, port : Port, skel : Descriptor]

\* chshare.User: a password and the routes its address regexps match.
UserRec == [pass : Password, addrs : SUBSET Route]

\* The user index holds user records; nil is none of them.
ASSUME UsersAssumption ==
  /\ NoUser \notin UserRec
  /\ Profiles \subseteq UserRec
  /\ InitUsers \in [UserName -> Profiles \cup {NoUser}]

\* Config payloads decode to route lists, except the malformed one.
ASSUME ConfigsAssumption ==
  /\ Configs \subseteq Seq(Route)
  /\ Malformed \notin Seq(Route)

\* Channel extra data decodes to a descriptor, except the bad JSON.
ASSUME DescriptorsAssumption ==
  /\ Descriptors \subseteq Descriptor
  /\ BadJSON \notin Descriptor

ASSUME ConnAssumption == NoConn \notin Conn

ASSUME FlagsAssumption ==
  ReverseOk \in BOOLEAN /\ SocksOk \in BOOLEAN /\ UserEdits \in BOOLEAN

Phases == {"handshake",      \* ssh.NewServerConn running
           "authenticated",  \* password callback succeeded, handshake not returned
           "config",         \* runWithSSHConn waiting for the config request
           "stubs",          \* starting reverse stub listeners
           "serving",        \* config acked; request/channel handlers running
           "closed",         \* Run returned
           "panicked"}       \* Run aborted by a nil-pointer dereference

ChanStates == {"none", "queued", "handling", "rejected", "accepted",
               "serving", "dialfailed", "closed", "dropped"}

\* A channel state in which the channel holds no resource any more.
ChanFinished == {"none", "rejected", "dialfailed", "closed", "dropped"}

VARIABLES
  srvDone,    \* the ctx given to Server.Run (parent of every subCtx) is done
  users,      \* s.users: user name -> record
  sessions,   \* s.sessions: SSH session id (one per Conn) -> *User
  phase,      \* where Run / runWithSSHConn of each session is
  connUp,     \* the session's transport is open
  cancelled,  \* subCtx of the session is done
  authRec,    \* the user record the password callback checked (NoUser: no auth)
  user,       \* the local `user` of runWithSSHConn
  cfg,        \* the decoded SessionConfigRequest routes
  idx,        \* the loop index of the reverse-stub bring-up
  listener,   \* port -> session whose stub listener holds it
  chans       \* channel id -> [st, conn, epd]

vars == <<srvDone, users, sessions, phase, connUp, cancelled, authRec, user, cfg, idx,
          listener, chans>>

ChanRec == [st : ChanStates, conn : Conn \cup {NoConn},
            epd : Descriptors \cup {BadJSON}]

-----------------------------------------------------------------------------
(* Helpers translated from the code.                                       *)

\* s.users.Len() == 0
UsersEmpty == \A n \in UserName : users[n] = NoUser

\* Mutant of ReverseDenied: the --reverse check is left out.
ReverseDeniedNever(cf) == FALSE

\* The loop "confirm reverse tunnels are allowed".
ReverseDenied(cf) == \E i \in 1..Len(cf) : cf[i].reverse /\ ~ReverseOk

\* Mutant of AccessDenied: the per-user route check is left out.
AccessDeniedNever(u, cf) == FALSE

\* The loop "if user is provided, ensure they have access"; HasAccess
\* (a regexp match on chd.String()) is membership in the user's addrs.
AccessDenied(u, cf) == u # NoUser /\ \E i \in 1..Len(cf) : cf[i] \notin u.addrs

\* Whether the config request r makes runWithSSHConn call failed().
ConfigError(u, r) ==
  \/ r.type # "config"
  \/ r.payload = Malformed
  \/ ReverseDenied(r.payload)
  \/ AccessDenied(u, r.payload)

\* The checks a skeleton descriptor of a channel open must pass.
SkeletonAllowed(d) ==
  /\ d.role = "skeleton"
  /\ d.type \notin {"stdio", "loop", "unix"}
  /\ d.type = "socks" => SocksOk

\* The requests a client may send first on the session's request channel.
Requests ==
  {[type |-> "config", payload |-> p] : p \in Configs \cup {Malformed}}
    \cup {[type |-> "ping", payload |-> Malformed]}

\* subCtx of session c is done: its own cancel ran, or the server's ctx,
\* its parent (context.WithCancel(ctx) in runWithSSHConn), is done.
SubCtxDone(c) == cancelled[c] \/ srvDone

\* Mutant of Teardown: the deferred subCtxCancel() is missing.
TeardownNoCancel(c) ==
  /\ phase' = [phase EXCEPT ![c] = "closed"]
  /\ connUp' = [connUp EXCEPT ![c] = FALSE]
  /\ cancelled' = cancelled

\* The end of Run: sshConn.Close(), close(s.done), and the deferred
\* subCtxCancel() of runWithSSHConn.
Teardown(c) ==
  /\ phase' = [phase EXCEPT ![c] = "closed"]
  /\ connUp' = [connUp EXCEPT ![c] = FALSE]
  /\ cancelled' = [cancelled EXCEPT ![c] = TRUE]

-----------------------------------------------------------------------------
Init ==
  /\ srvDone = FALSE
  /\ users = InitUsers
  /\ sessions = [c \in Conn |-> NoUser]
  /\ phase = [c \in Conn |-> "handshake"]
  /\ connUp = [c \in Conn |-> TRUE]
  /\ cancelled = [c \in Conn |-> FALSE]
  /\ authRec = [c \in Conn |-> NoUser]
  /\ user = [c \in Conn |-> NoUser]
  /\ cfg = [c \in Conn |-> << >>]
  /\ idx = [c \in Conn |-> 1]
  /\ listener = [p \in Port |-> NoConn]
  /\ chans = [h \in ChanId |-> [st |-> "none", conn |-> NoConn, epd |-> BadJSON]]

-----------------------------------------------------------------------------
(* The administrator.                                                      *)

\* Server.AddUser: the user index maps name to a fresh record.
AddUser(n, u) ==
  /\ UserEdits
  /\ users' = [users EXCEPT ![n] = u]
  /\ UNCHANGED <<srvDone, sessions, phase, connUp, cancelled, authRec, user, cfg,
                 idx, listener, chans>>

\* Server.DeleteUser.
DeleteUser(n) ==
  /\ UserEdits
  /\ users[n] # NoUser
  /\ users' = [users EXCEPT ![n] = NoUser]
  /\ UNCHANGED <<srvDone, sessions, phase, connUp, cancelled, authRec, user, cfg,
                 idx, listener, chans>>

-----------------------------------------------------------------------------
(* The handshake.                                                          *)

\* Server.authUser, the password callback, when it accepts: any password
\* while the user index is empty, else a known name with its password,
\* whose record is stored in the session map.  A rejected attempt changes
\* nothing (the client may retry until HandshakeFail).
AuthUser(c, n, pw) ==
  /\ phase[c] = "handshake"
  /\ \/ /\ UsersEmpty
        /\ UNCHANGED <<sessions, authRec>>
     \/ /\ ~UsersEmpty
        /\ users[n] # NoUser
        /\ users[n].pass = pw
        /\ sessions' = [sessions EXCEPT ![c] = users[n]]
        /\ authRec' = [authRec EXCEPT ![c] = users[n]]
  /\ phase' = [phase EXCEPT ![c] = "authenticated"]
  /\ UNCHANGED <<srvDone, users, connUp, cancelled, user, cfg, idx, listener, chans>>

\* ssh.NewServerConn fails (transport error, authentication given up):
\* Run closes s.done and returns; no subCtx exists yet.
HandshakeFail(c) ==
  /\ phase[c] \in {"handshake", "authenticated"}
  /\ Teardown(c)
  /\ UNCHANGED <<srvDone, users, sessions, authRec, user, cfg, idx, listener, chans>>

\* ssh.NewServerConn returns and runWithSSHConn pulls the user from the
\* session map, if the user index is not empty at this moment.
StartSession(c) ==
  /\ phase[c] = "authenticated"
  /\ IF UsersEmpty
       THEN UNCHANGED <<user, sessions>>
       ELSE /\ user' = [user EXCEPT ![c] = sessions[c]]
            /\ sessions' = [sessions EXCEPT ![c] = NoUser]
  /\ phase' = [phase EXCEPT ![c] = "config"]
  /\ UNCHANGED <<srvDone, users, connUp, cancelled, authRec, cfg, idx, listener, chans>>

-----------------------------------------------------------------------------
(* The config step of runWithSSHConn.                                      *)

\* Mutant of ReceiveConfig: the payload is stored before its decode error
\* is looked at.
ReceiveConfigKeepsRaw(c, r) ==
  /\ phase[c] = "config"
  /\ cfg' = [cfg EXCEPT ![c] = r.payload]
  /\ IF ConfigError(user[c], r)
       THEN Teardown(c) /\ UNCHANGED idx
       ELSE /\ phase' = [phase EXCEPT ![c] = "stubs"]
            /\ idx' = [idx EXCEPT ![c] = 1]
            /\ UNCHANGED <<connUp, cancelled>>
  /\ UNCHANGED <<srvDone, users, sessions, authRec, user, listener, chans>>

\* The first request arrives within the 10 s timeout and is checked; a
\* failed check replies false and Run tears the session down.  A request
\* the SSH library buffered is still received after the transport closed.
ReceiveConfig(c, r) ==
  /\ phase[c] = "config"
  /\ cfg' = [cfg EXCEPT ![c] = IF r.payload = Malformed THEN << >> ELSE r.payload]
  /\ IF ConfigError(user[c], r)
       THEN Teardown(c) /\ UNCHANGED idx
       ELSE /\ phase' = [phase EXCEPT ![c] = "stubs"]
            /\ idx' = [idx EXCEPT ![c] = 1]
            /\ UNCHANGED <<connUp, cancelled>>
  /\ UNCHANGED <<srvDone, users, sessions, authRec, user, listener, chans>>

\* cfgCtx is done first, by its 10 s timeout or because subCtx, its
\* parent, is: receiveSSHRequest returns an error.
ConfigTimeout(c) ==
  /\ phase[c] = "config"
  /\ Teardown(c)
  /\ UNCHANGED <<srvDone, users, sessions, authRec, user, cfg, idx, listener, chans>>

\* The transport closed, so s.sshRequests is closed: receiveSSHRequest
\* returns (nil, nil) and r.Type dereferences nil.  The deferred
\* subCtxCancel runs while the panic unwinds; sshConn.Close and
\* close(s.done) do not.
ConfigStreamClosed(c) ==
  /\ phase[c] = "config"
  /\ ~connUp[c]
  /\ phase' = [phase EXCEPT ![c] = "panicked"]
  /\ cancelled' = [cancelled EXCEPT ![c] = TRUE]
  /\ UNCHANGED <<srvDone, users, sessions, connUp, authRec, user, cfg, idx, listener, chans>>

\* Mutant of StartStub: the error of proxy.Start is ignored.
StartStubIgnoreBindError(c) ==
  /\ phase[c] = "stubs"
  /\ idx[c] <= Len(cfg[c])
  /\ LET rt == cfg[c][idx[c]] IN
       \/ /\ ~rt.reverse \/ listener[rt.port] # NoConn
          /\ idx' = [idx EXCEPT ![c] = @ + 1]
          /\ UNCHANGED listener
       \/ /\ rt.reverse
          /\ listener[rt.port] = NoConn
          /\ listener' = [listener EXCEPT ![rt.port] = c]
          /\ idx' = [idx EXCEPT ![c] = @ + 1]
  /\ UNCHANGED <<srvDone, users, sessions, phase, connUp, cancelled, authRec, user, cfg, chans>>

\* One iteration of "set up reverse port forwarding": a forward route is
\* skipped, a reverse route binds its stub (NewTCPProxy(...).Start), and
\* a failed bind fails the whole config.  The bind fails on a port another
\* stub holds, and may fail on any port for reasons outside the model
\* (another process holds it, no permission).
StartStub(c) ==
  /\ phase[c] = "stubs"
  /\ idx[c] <= Len(cfg[c])
  /\ LET rt == cfg[c][idx[c]] IN
       \/ /\ ~rt.reverse
          /\ idx' = [idx EXCEPT ![c] = @ + 1]
          /\ UNCHANGED <<phase, connUp, cancelled, listener>>
       \/ /\ rt.reverse
          /\ listener[rt.port] = NoConn
          /\ listener' = [listener EXCEPT ![rt.port] = c]
          /\ idx' = [idx EXCEPT ![c] = @ + 1]
          /\ UNCHANGED <<phase, connUp, cancelled>>
       \/ /\ rt.reverse
          /\ Teardown(c)
          /\ UNCHANGED <<idx, listener>>
  /\ UNCHANGED <<srvDone, users, sessions, authRec, user, cfg, chans>>

\* sendSSHReply(subCtx, r, true, nil): when r.Reply's result wins the
\* select the request and channel handlers start; a failed send
\* (transport gone) ends the session, and so does subCtx done winning the
\* select, whether or not the ack already went out.
SendConfigReply(c) ==
  /\ phase[c] = "stubs"
  /\ idx[c] > Len(cfg[c])
  /\ \/ /\ connUp[c]
        /\ phase' = [phase EXCEPT ![c] = "serving"]
        /\ UNCHANGED <<connUp, cancelled>>
     \/ /\ ~connUp[c] \/ srvDone
        /\ Teardown(c)
  /\ UNCHANGED <<srvDone, users, sessions, authRec, user, cfg, idx, listener, chans>>

\* The client goes away or the network drops the transport.
Disconnect(c) ==
  /\ phase[c] \in {"config", "stubs", "serving"}
  /\ connUp[c]
  /\ connUp' = [connUp EXCEPT ![c] = FALSE]
  /\ UNCHANGED <<srvDone, users, sessions, phase, cancelled, authRec, user, cfg, idx,
                 listener, chans>>

\* The caller of Server.Run cancels its ctx.  Every subCtx is a child of
\* it; nothing closes the transports, so Run keeps waiting in
\* sshConn.Wait().
ServerCancel ==
  /\ ~srvDone
  /\ srvDone' = TRUE
  /\ UNCHANGED <<users, sessions, phase, connUp, cancelled, authRec, user, cfg,
                 idx, listener, chans>>

\* sshConn.Wait() returns once the transport is closed.
SessionEnd(c) ==
  /\ phase[c] = "serving"
  /\ ~connUp[c]
  /\ Teardown(c)
  /\ UNCHANGED <<srvDone, users, sessions, authRec, user, cfg, idx, listener, chans>>

\* Mutant of StubStop: the accept loop stops without its subCtx being done.
StubStopEarly(p) ==
  /\ listener[p] # NoConn
  /\ listener' = [listener EXCEPT ![p] = NoConn]
  /\ UNCHANGED <<srvDone, users, sessions, phase, connUp, cancelled, authRec, user, cfg,
                 idx, chans>>

\* A reverse stub's accept loop sees its subCtx done and closes the
\* listener, releasing the port; on a server ctx cancel this happens
\* while Run still waits in sshConn.Wait().
StubStop(p) ==
  /\ listener[p] # NoConn
  /\ SubCtxDone(listener[p])
  /\ listener' = [listener EXCEPT ![p] = NoConn]
  /\ UNCHANGED <<srvDone, users, sessions, phase, connUp, cancelled, authRec, user, cfg,
                 idx, chans>>

-----------------------------------------------------------------------------
(* Channel opens from the client.                                          *)

\* The client sends a channel open with descriptor d as extra data; the
\* SSH library queues it on newSSHChannels.
OpenChannel(h, c, d) ==
  /\ chans[h].st = "none"
  /\ phase[c] \in {"config", "stubs", "serving"}
  /\ connUp[c]
  /\ chans' = [chans EXCEPT ![h] = [st |-> "queued", conn |-> c, epd |-> d]]
  /\ UNCHANGED <<srvDone, users, sessions, phase, connUp, cancelled, authRec, user, cfg,
                 idx, listener>>

\* handleSSHChannels takes the open and starts handleSSHNewChannel.  Once
\* the server ctx is done the loop returns at its select (the one open a
\* racing select may still take is left out).
DispatchChannel(h) ==
  /\ chans[h].st = "queued"
  /\ phase[chans[h].conn] = "serving"
  /\ ~srvDone
  /\ chans' = [chans EXCEPT ![h].st = "handling"]
  /\ UNCHANGED <<srvDone, users, sessions, phase, connUp, cancelled, authRec, user, cfg,
                 idx, listener>>

\* The transport closed with the open still queued: it is never served.
DropChannel(h) ==
  /\ chans[h].st = "queued"
  /\ ~connUp[chans[h].conn]
  /\ chans' = [chans EXCEPT ![h].st = "dropped"]
  /\ UNCHANGED <<srvDone, users, sessions, phase, connUp, cancelled, authRec, user, cfg,
                 idx, listener>>

\* handleSSHNewChannel up to ch.Accept(): a descriptor that does not decode
\* or is not an allowed skeleton is rejected; otherwise the channel is
\* accepted before anything is dialed, and an accept on a closed transport
\* fails.
HandleChannel(h) ==
  /\ chans[h].st = "handling"
  /\ LET d == chans[h].epd IN
       chans' = [chans EXCEPT ![h].st =
                   IF d = BadJSON \/ ~SkeletonAllowed(d) THEN "rejected"
                   ELSE IF connUp[chans[h].conn] THEN "accepted"
                   ELSE "closed"]
  /\ UNCHANGED <<srvDone, users, sessions, phase, connUp, cancelled, authRec, user, cfg,
                 idx, listener>>

\* ep.DialAndServe dials the local target of the accepted channel; when
\* the dial fails (or subCtx aborts it) the accepted channel is closed.
DialTarget(h) ==
  /\ chans[h].st = "accepted"
  /\ \E ok \in BOOLEAN :
       chans' = [chans EXCEPT ![h].st = IF ok THEN "serving" ELSE "dialfailed"]
  /\ UNCHANGED <<srvDone, users, sessions, phase, connUp, cancelled, authRec, user, cfg,
                 idx, listener>>

\* One side of the copy ends: the channel closes.
ChannelEOF(h) ==
  /\ chans[h].st = "serving"
  /\ chans' = [chans EXCEPT ![h].st = "closed"]
  /\ UNCHANGED <<srvDone, users, sessions, phase, connUp, cancelled, authRec, user, cfg,
                 idx, listener>>

\* DialAndServe observes subCtx done and closes both ends.
ChannelCancel(h) ==
  /\ chans[h].st = "serving"
  /\ SubCtxDone(chans[h].conn)
  /\ chans' = [chans EXCEPT ![h].st = "closed"]
  /\ UNCHANGED <<srvDone, users, sessions, phase, connUp, cancelled, authRec, user, cfg,
                 idx, listener>>

-----------------------------------------------------------------------------
Next ==
  \/ \E n \in UserName, u \in Profiles : AddUser(n, u)
  \/ \E n \in UserName : DeleteUser(n)
  \/ \E c \in Conn :
       \/ \E n \in UserName, pw \in Password : AuthUser(c, n, pw)
       \/ HandshakeFail(c)
       \/ StartSession(c)
       \/ \E r \in Requests : ReceiveConfig(c, r)
       \/ ConfigTimeout(c)
       \/ ConfigStreamClosed(c)
       \/ StartStub(c)
       \/ SendConfigReply(c)
       \/ Disconnect(c)
       \/ SessionEnd(c)
  \/ ServerCancel
  \/ \E p \in Port : StubStop(p)
  \/ \E h \in ChanId :
       \/ \E c \in Conn, d \in Descriptors \cup {BadJSON} : OpenChannel(h, c, d)
       \/ DispatchChannel(h)
       \/ DropChannel(h)
       \/ HandleChannel(h)
       \/ DialTarget(h)
       \/ ChannelEOF(h)
       \/ ChannelCancel(h)

\* The goroutines of a session that the Go scheduler runs to their next
\* blocking point: the bring-up loop, the stubs' accept loops, the
\* channel handlers, and the SSH library dropping queued opens of a
\* closed transport.
Fairness ==
  /\ \A c \in Conn : WF_vars(StartSession(c) \/ StartStub(c) \/ SendConfigReply(c)
                              \/ SessionEnd(c))
  /\ \A p \in Port : WF_vars(StubStop(p))
  /\ \A h \in ChanId : WF_vars(DispatchChannel(h) \/ DropChannel(h)
                               \/ HandleChannel(h) \/ DialTarget(h)
                               \/ ChannelCancel(h))

Spec == Init /\ [][Next]_vars /\ Fairness

-----------------------------------------------------------------------------
TypeOK ==
  /\ srvDone \in BOOLEAN
  /\ users \in [UserName -> Profiles \cup {NoUser}]
  /\ sessions \in [Conn -> Profiles \cup {NoUser}]
  /\ phase \in [Conn -> Phases]
  /\ connUp \in [Conn -> BOOLEAN]
  /\ cancelled \in [Conn -> BOOLEAN]
  /\ authRec \in [Conn -> Profiles \cup {NoUser}]
  /\ user \in [Conn -> Profiles \cup {NoUser}]
  /\ cfg \in [Conn -> Seq(Route)]
  /\ idx \in [Conn -> Nat \ {0}]
  /\ listener \in [Port -> Conn \cup {NoConn}]
  /\ chans \in [ChanId -> ChanRec]

-----------------------------------------------------------------------------
(* Properties.                                                             *)

\* A session only acks its config (runWithSSHConn line "success!") once
\* every reverse route of the config has a stub listener that this very
\* session holds: a port still held by another session, or by a torn-down
\* session whose stub has not yet seen its cancellation, fails the config.
\* The session keeps them while it serves, until the server's ctx is
\* cancelled: that stops every stub while Run still waits in Wait().
ServingHasAllStubs ==
  \A c \in Conn : phase[c] = "serving" /\ ~srvDone =>
    \A i \in 1..Len(cfg[c]) : cfg[c][i].reverse => listener[cfg[c][i].port] = c

\* Every bound reverse-stub port belongs to a session whose config passed
\* the --reverse check and names that port in a reverse route.
StubsBackedByConfig ==
  \A p \in Port : listener[p] # NoConn =>
    /\ ReverseOk
    /\ \E i \in 1..Len(cfg[listener[p]]) :
         cfg[listener[p]][i].reverse /\ cfg[listener[p]][i].port = p

\* A session authenticated as a user only gets past the config step when
\* every route of its config is allowed by that user's address regexps.
ConfigAuthorized ==
  \A c \in Conn : phase[c] \in {"stubs", "serving"} /\ authRec[c] # NoUser =>
    \A i \in 1..Len(cfg[c]) : cfg[c][i] \in authRec[c].addrs

\* Every channel the server accepts on a session authenticated as a user
\* targets the skeleton of a forward route of the config that was
\* authorized for that user.
ChannelWithinConfig ==
  \A h \in ChanId :
    chans[h].st \in {"accepted", "serving"} /\ authRec[chans[h].conn] # NoUser =>
      \E i \in 1..Len(cfg[chans[h].conn]) :
        /\ ~cfg[chans[h].conn][i].reverse
        /\ cfg[chans[h].conn][i].skel = chans[h].epd

\* The session map is a handoff: an entry exists only between the password
\* callback that stores it and the config step that deletes it.
SessionMapHandoff ==
  \A c \in Conn : sessions[c] # NoUser => phase[c] = "authenticated"

\* Run never dereferences a nil config request.
NoNilConfigRequest == \A c \in Conn : phase[c] # "panicked"

\* The strengthening of ServingHasAllStubs that is inductive: a session's
\* own cancel runs only once Run has returned, and during the bring-up
\* loop, until the server's ctx is cancelled, every reverse route before
\* idx has this session's listener.
StubsInv ==
  /\ \A c \in Conn :
       phase[c] \in {"handshake", "authenticated", "config", "stubs", "serving"}
         => ~cancelled[c]
  /\ \A c \in Conn : phase[c] = "stubs" => idx[c] <= Len(cfg[c]) + 1
  /\ \A c \in Conn : phase[c] = "stubs" /\ ~srvDone =>
       \A i \in 1..(idx[c] - 1) :
         cfg[c][i].reverse => listener[cfg[c][i].port] = c
  /\ ServingHasAllStubs

\* The handoff of the authenticated user from authUser to runWithSSHConn,
\* when the user index does not change: the session map holds the record
\* the callback checked until StartSession takes it into `user`, and a
\* record was checked only while the index was not empty, so StartSession
\* does take it.
AuthInv ==
  /\ users = InitUsers
  /\ \A c \in Conn :
       /\ phase[c] = "handshake" =>
            authRec[c] = NoUser /\ sessions[c] = NoUser /\ user[c] = NoUser
       /\ phase[c] = "authenticated" => sessions[c] = authRec[c] /\ user[c] = NoUser
       /\ phase[c] \in {"config", "stubs", "serving"} => user[c] = authRec[c]
       /\ authRec[c] # NoUser => ~UsersEmpty
  /\ ConfigAuthorized

\* The strengthening of StubsBackedByConfig that is inductive: a session
\* that holds a port is past its config step, and a config that got past
\* the --reverse check has no reverse route on a server without --reverse.
BackedInv ==
  /\ \A c \in Conn : phase[c] \in {"stubs", "serving"} =>
       \A i \in 1..Len(cfg[c]) : cfg[c][i].reverse => ReverseOk
  /\ \A p \in Port : listener[p] # NoConn =>
       phase[listener[p]] \in {"stubs", "serving", "closed"}
  /\ StubsBackedByConfig

\* Once Run of a session has returned, every reverse stub of it stops
\* listening and every channel of it ends.
SessionTeardown ==
  \A c \in Conn :
    phase[c] = "closed" ~>
      /\ \A p \in Port : listener[p] # c
      /\ \A h \in ChanId : chans[h].conn = c => chans[h].st \in ChanFinished

-----------------------------------------------------------------------------
(* The session contract, under the refinement mapping that hides the      *)
(* handshake, the bring-up index, the user index and the channels.        *)

\* The stage of the contract a session in phase ph is in: before the
\* config decision, in the bring-up loop, acked, or returned (normally or
\* by a panic).
StageOf(ph) ==
  CASE ph \in {"handshake", "authenticated", "config"} -> "pending"
    [] ph = "stubs"                                   -> "binding"
    [] ph = "serving"                                 -> "serving"
    [] ph \in {"closed", "panicked"}                  -> "done"

SessionStage == [c \in Conn |-> StageOf(phase[c])]

SC == INSTANCE SessionContract
        WITH stage  <- SessionStage,
             down   <- srvDone,
             grant  <- cfg,
             owner  <- listener,
             Offers <- Configs \cup {<< >>}

\* The sessions implement the contract: a session binds only ports of the
\* reverse routes of the config it accepted, a port only while nobody
\* holds it, acks only once it holds them all unless the server's ctx is
\* done, and keeps them until it returns or the server's ctx is done;
\* then they are released, eventually.
SessionContractSpec == SC!Spec

\* The safety half of the contract: every step of the sessions is a step
\* of the contract or leaves the contract's state alone.
SessionContractSafety == SC!SafetySpec

=============================================================================
