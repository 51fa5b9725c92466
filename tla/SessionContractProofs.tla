------------------------ MODULE SessionContractProofs ------------------------
(***************************************************************************)
(* The sessions of SessionCore implement the safety part of              *)
(* SessionContract under the mapping SessionStage / cfg / listener: each  *)
(* step of the sessions is a step of the contract or leaves the           *)
(* contract's state alone.  The argument rests on StubsInv, the inductive *)
(* invariant of SessionCoreProofs: the ack needs every reverse port held, *)
(* and a stub stops only for a session that has returned.                 *)
(***************************************************************************)
EXTENDS SessionCoreProofs

-----------------------------------------------------------------------------
(* The stage mapping.                                                      *)

\* The stage of each phase.
LEMMA StageOfPhase ==
  /\ StageOf("handshake") = "pending"
  /\ StageOf("authenticated") = "pending"
  /\ StageOf("config") = "pending"
  /\ StageOf("stubs") = "binding"
  /\ StageOf("serving") = "serving"
  /\ StageOf("closed") = "done"
  /\ StageOf("panicked") = "done"
  BY DEF StageOf

\* A step that moves one session to phase q moves it to the stage of q.
LEMMA StageUpdate ==
  ASSUME TypeOK, NEW c \in Conn, NEW q, phase' = [phase EXCEPT ![c] = q]
  PROVE  SessionStage' = [SessionStage EXCEPT ![c] = StageOf(q)]
  BY DEF SessionStage, TypeOK

\* ... and leaves the mapped stage alone when q has the stage of its phase.
LEMMA StageKept ==
  ASSUME TypeOK, NEW c \in Conn, NEW q, phase' = [phase EXCEPT ![c] = q],
         StageOf(q) = StageOf(phase[c])
  PROVE  SessionStage' = SessionStage
  BY DEF SessionStage, TypeOK

LEMMA InitRefines == Init => SC!Init
  BY StageOfPhase DEF Init, SC!Init, SessionStage

-----------------------------------------------------------------------------
(* Each step maps to a step of the contract or a stutter.                 *)

\* Teardown of a session that has not returned is the contract's End.
LEMMA TeardownRefines ==
  ASSUME TypeOK, NEW c \in Conn, Teardown(c),
         UNCHANGED <<srvDone, cfg, listener>>,
         phase[c] \in {"handshake", "authenticated", "config", "stubs", "serving"}
  PROVE  SC!End(c)
  <1>1. SessionStage' = [SessionStage EXCEPT ![c] = "done"]
    BY StageUpdate, StageOfPhase DEF Teardown
  <1>2. SessionStage[c] # "done"
    BY StageOfPhase DEF SessionStage
  <1>3. QED
    BY <1>1, <1>2 DEF SC!End

LEMMA StepRefines ==
  TypeOK /\ StubsInv /\ [Next]_vars => [SC!Next]_SC!cvars
  <1> SUFFICES ASSUME TypeOK, StubsInv, [Next]_vars
               PROVE  [SC!Next]_SC!cvars
    OBVIOUS
  \* Steps of the administrator, the network and the channels.
  <1>1. CASE \/ \E n \in UserName, u \in Profiles : AddUser(n, u)
             \/ \E n \in UserName : DeleteUser(n)
             \/ \E c \in Conn : Disconnect(c)
             \/ \E h \in ChanId, c \in Conn, d \in Descriptors \cup {BadJSON} :
                  OpenChannel(h, c, d)
             \/ \E h \in ChanId :
                  \/ DispatchChannel(h) \/ DropChannel(h) \/ HandleChannel(h)
                  \/ DialTarget(h) \/ ChannelEOF(h) \/ ChannelCancel(h)
             \/ UNCHANGED vars
    <2>1. UNCHANGED <<srvDone, phase, cfg, listener>>
      BY <1>1 DEF AddUser, DeleteUser, Disconnect, OpenChannel,
                  DispatchChannel, DropChannel, HandleChannel, DialTarget,
                  ChannelEOF, ChannelCancel, vars
    <2>2. QED
      BY <2>1 DEF SC!cvars, SessionStage
  \* The handshake and the session-map pull stay in "pending".
  <1>2. ASSUME NEW c \in Conn, NEW n \in UserName, NEW pw \in Password,
               AuthUser(c, n, pw)
        PROVE  [SC!Next]_SC!cvars
    <2>1. /\ phase[c] = "handshake"
          /\ phase' = [phase EXCEPT ![c] = "authenticated"]
          /\ UNCHANGED <<srvDone, cfg, listener>>
      BY <1>2 DEF AuthUser
    <2>2. QED
      BY <2>1, StageKept, StageOfPhase DEF SC!cvars
  <1>3. ASSUME NEW c \in Conn, StartSession(c)
        PROVE  [SC!Next]_SC!cvars
    <2>1. /\ phase[c] = "authenticated"
          /\ phase' = [phase EXCEPT ![c] = "config"]
          /\ UNCHANGED <<srvDone, cfg, listener>>
      BY <1>3 DEF StartSession
    <2>2. QED
      BY <2>1, StageKept, StageOfPhase DEF SC!cvars
  \* The ends of Run before the ack or after it.
  <1>4. ASSUME NEW c \in Conn,
               HandshakeFail(c) \/ ConfigTimeout(c) \/ SessionEnd(c)
        PROVE  [SC!Next]_SC!cvars
    <2>1. SC!End(c)
      BY <1>4, TeardownRefines DEF HandshakeFail, ConfigTimeout, SessionEnd
    <2>2. QED
      BY <2>1 DEF SC!Next
  <1>5. ASSUME NEW c \in Conn, ConfigStreamClosed(c)
        PROVE  [SC!Next]_SC!cvars
    <2>1. /\ phase[c] = "config"
          /\ phase' = [phase EXCEPT ![c] = "panicked"]
          /\ UNCHANGED <<srvDone, cfg, listener>>
      BY <1>5 DEF ConfigStreamClosed
    <2>2. SessionStage' = [SessionStage EXCEPT ![c] = "done"]
      <3>1. SessionStage' = [SessionStage EXCEPT ![c] = StageOf("panicked")]
        BY <2>1, StageUpdate
      <3>2. QED
        BY <3>1, StageOfPhase
    <2>3. SessionStage[c] # "done"
      BY <2>1, StageOfPhase DEF SessionStage
    <2>4. QED
      BY <2>1, <2>2, <2>3 DEF SC!Next, SC!End
  \* The config decision: the decoded routes are an offer, and an accepted
  \* config passed the --reverse check.
  <1>6. ASSUME NEW c \in Conn, NEW r \in Requests, ReceiveConfig(c, r)
        PROVE  [SC!Next]_SC!cvars
    <2>1. /\ phase[c] = "config"
          /\ UNCHANGED <<srvDone, listener>>
          /\ cfg' = [cfg EXCEPT ![c] = IF r.payload = Malformed THEN << >>
                                       ELSE r.payload]
      BY <1>6 DEF ReceiveConfig
    <2>2. cfg'[c] \in Configs \cup {<< >>}
      BY <2>1 DEF Requests, TypeOK
    <2>3. SessionStage[c] = "pending"
      BY <2>1, StageOfPhase DEF SessionStage
    <2>4. CASE ConfigError(user[c], r)
      <3>1. SessionStage' = [SessionStage EXCEPT ![c] = "done"]
        BY <1>6, <2>4, StageUpdate, StageOfPhase DEF ReceiveConfig, Teardown
      <3>2. SC!Decide(c)
        BY <2>1, <2>2, <2>3, <3>1 DEF SC!Decide
      <3>3. QED
        BY <3>2 DEF SC!Next
    <2>5. CASE ~ConfigError(user[c], r)
      <3>1. phase' = [phase EXCEPT ![c] = "stubs"]
        BY <1>6, <2>5 DEF ReceiveConfig
      <3>2. SessionStage' = [SessionStage EXCEPT ![c] = "binding"]
        BY <3>1, StageUpdate, StageOfPhase
      <3>3. cfg'[c] = r.payload /\ ~ReverseDenied(r.payload)
        BY <2>1, <2>5 DEF ConfigError, TypeOK
      <3>4. SC!ReversePorts(cfg'[c]) # {} => ReverseOk
        BY <3>3 DEF SC!ReversePorts, ReverseDenied
      <3>5. SC!Decide(c)
        BY <2>1, <2>2, <2>3, <3>2, <3>4 DEF SC!Decide
      <3>6. QED
        BY <3>5 DEF SC!Next
    <2>6. QED
      BY <2>4, <2>5
  \* One iteration of the bring-up loop: a skip is a stutter, a bind is a
  \* Bind of the route's port, a failed bind ends the session.
  <1>7. ASSUME NEW c \in Conn, StartStub(c)
        PROVE  [SC!Next]_SC!cvars
    <2>1. /\ phase[c] = "stubs"
          /\ idx[c] \in 1..Len(cfg[c])
          /\ UNCHANGED <<srvDone, cfg>>
      BY <1>7 DEF StartStub, TypeOK
    <2> DEFINE rt == cfg[c][idx[c]]
    <2>2. rt \in Route /\ rt.port \in Port
      BY <2>1, RouteElem DEF TypeOK
    <2>3. CASE ~rt.reverse /\ UNCHANGED <<phase, listener>>
      BY <2>1, <2>3 DEF SC!cvars, SessionStage
    <2>4. CASE /\ rt.reverse
               /\ listener[rt.port] = NoConn
               /\ listener' = [listener EXCEPT ![rt.port] = c]
               /\ UNCHANGED phase
      <3>1. rt.port \in SC!ReversePorts(cfg[c])
        BY <2>1, <2>4 DEF SC!ReversePorts
      <3>2. SessionStage[c] = "binding" /\ SessionStage' = SessionStage
        BY <2>1, <2>4, StageOfPhase DEF SessionStage
      <3>3. SC!Bind(c, rt.port)
        BY <2>1, <2>4, <3>1, <3>2 DEF SC!Bind
      <3>4. QED
        BY <2>2, <3>3 DEF SC!Next
    <2>5. CASE Teardown(c) /\ UNCHANGED listener
      <3>1. SC!End(c)
        BY <2>1, <2>5, TeardownRefines
      <3>2. QED
        BY <3>1 DEF SC!Next
    <2>6. QED
      BY <1>7, <2>3, <2>4, <2>5 DEF StartStub
  \* The ack holds every reverse port of the config: StubsInv with the
  \* loop index past the end of the config.
  <1>8. ASSUME NEW c \in Conn, SendConfigReply(c)
        PROVE  [SC!Next]_SC!cvars
    <2>1. /\ phase[c] = "stubs"
          /\ idx[c] > Len(cfg[c])
          /\ UNCHANGED <<srvDone, cfg, listener>>
      BY <1>8 DEF SendConfigReply
    <2>2. CASE phase' = [phase EXCEPT ![c] = "serving"]
      <3>1. SessionStage' = [SessionStage EXCEPT ![c] = "serving"]
        BY <2>2, StageUpdate, StageOfPhase
      \* While the server's ctx is live, StubsInv gives every reverse port.
      <3>2. ~srvDone =>
              \A i \in 1..Len(cfg[c]) : cfg[c][i].reverse => listener[cfg[c][i].port] = c
        <4>1. idx[c] = Len(cfg[c]) + 1
          BY <2>1 DEF StubsInv, TypeOK
        <4>2. QED
          BY <2>1, <4>1 DEF StubsInv
      <3>3. srvDone \/ \A p \in SC!ReversePorts(cfg[c]) : listener[p] = c
        BY <3>2 DEF SC!ReversePorts
      <3>4. SessionStage[c] = "binding"
        BY <2>1, StageOfPhase DEF SessionStage
      <3>5. SC!Serve(c)
        BY <2>1, <3>1, <3>3, <3>4 DEF SC!Serve
      <3>6. QED
        BY <3>5 DEF SC!Next
    <2>3. CASE Teardown(c)
      <3>1. SC!End(c)
        BY <1>8, <2>1, <2>3, TeardownRefines DEF SendConfigReply
      <3>2. QED
        BY <3>1 DEF SC!Next
    <2>4. QED
      BY <1>8, <2>2, <2>3 DEF SendConfigReply
  \* A stub stops once its session's own cancel ran, which happens only
  \* when Run has returned, or once the server's ctx is done: the
  \* contract's Release.
  <1>9. ASSUME NEW p \in Port, StubStop(p)
        PROVE  [SC!Next]_SC!cvars
    <2>1. /\ listener[p] \in Conn
          /\ cancelled[listener[p]] \/ srvDone
          /\ listener' = [listener EXCEPT ![p] = NoConn]
          /\ UNCHANGED <<srvDone, phase, cfg>>
      BY <1>9 DEF StubStop, SubCtxDone, TypeOK
    <2>2. cancelled[listener[p]] => phase[listener[p]] \in {"closed", "panicked"}
      BY <2>1 DEF StubsInv, TypeOK, Phases
    <2>3. /\ cancelled[listener[p]] => SessionStage[listener[p]] = "done"
          /\ SessionStage' = SessionStage
      BY <2>1, <2>2, StageOfPhase DEF SessionStage
    <2>4. SC!Release(p)
      BY <2>1, <2>3, ConnAssumption DEF SC!Release
    <2>5. QED
      BY <2>4 DEF SC!Next
  \* The caller of Server.Run cancelling its ctx is the server shutting down.
  <1>10. CASE ServerCancel
    <2>1. /\ ~srvDone /\ srvDone' = TRUE
          /\ UNCHANGED <<phase, cfg, listener>>
      BY <1>10 DEF ServerCancel
    <2>2. SessionStage' = SessionStage
      BY <2>1 DEF SessionStage
    <2>3. SC!Shutdown
      BY <2>1, <2>2 DEF SC!Shutdown
    <2>4. QED
      BY <2>3 DEF SC!Next
  <1>11. QED
    BY <1>1, <1>2, <1>3, <1>4, <1>5, <1>6, <1>7, <1>8, <1>9, <1>10 DEF Next

-----------------------------------------------------------------------------

\* For any sessions, ports and configs, every behaviour of the server
\* sessions is a behaviour of the session contract: runWithSSHConn binds
\* only free ports of the reverse routes of the config it accepted under
\* the --reverse check, and, until the ctx given to Server.Run is cancelled
\* (the contract's Shutdown), acks the config only holding all of them and
\* releases a port only after its session's Run has returned; after that
\* cancel, stubs stop and acks go out whatever the sessions' stages.
THEOREM SessionRefinement == Spec => SessionContractSafety
  <1>1. Init => TypeOK /\ StubsInv
    BY InitTypeOK, InitStubsInv
  <1>2. TypeOK /\ StubsInv /\ [Next]_vars => (TypeOK /\ StubsInv)'
    BY NextTypeOK, NextStubsInv
  <1>3. Init => SC!Init
    BY InitRefines
  <1>4. TypeOK /\ StubsInv /\ [Next]_vars => [SC!Next]_SC!cvars
    BY StepRefines
  <1>5. QED
    BY <1>1, <1>2, <1>3, <1>4, PTL DEF Spec, SessionContractSafety, SC!SafetySpec

=============================================================================
