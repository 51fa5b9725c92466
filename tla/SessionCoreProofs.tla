------------------------- MODULE SessionCoreProofs -------------------------
(***************************************************************************)
(* Theorems about SessionCore, for every value of the constants that      *)
(* satisfies ConstantsAssumption.                                          *)
(***************************************************************************)
EXTENDS SessionCore, TLAPS

-----------------------------------------------------------------------------
(* Type correctness.                                                       *)

\* The phase and channel-state literals the actions write.
LEMMA PhaseLiterals ==
  {"handshake", "authenticated", "config", "stubs", "serving", "closed",
   "panicked"} \subseteq Phases
  BY DEF Phases

LEMMA ChanStateLiterals ==
  {"none", "queued", "handling", "rejected", "accepted", "serving",
   "dialfailed", "closed", "dropped"} \subseteq ChanStates
  BY DEF ChanStates

\* Setting the state of one channel keeps the channel table typed.
LEMMA ChanStUpdate ==
  ASSUME chans \in [ChanId -> ChanRec], NEW h \in ChanId, NEW v \in ChanStates
  PROVE  [chans EXCEPT ![h].st = v] \in [ChanId -> ChanRec]
  BY DEF ChanRec

LEMMA InitTypeOK == Init => TypeOK
  <1> SUFFICES ASSUME Init PROVE TypeOK
    OBVIOUS
  <1>1. chans \in [ChanId -> ChanRec]
    BY ChanStateLiterals DEF Init, ChanRec
  <1>2. phase \in [Conn -> Phases]
    BY PhaseLiterals DEF Init
  <1>3. srvDone \in BOOLEAN
    BY Zenon DEF Init
  <1>4. cfg \in [Conn -> Seq(Route)] /\ idx \in [Conn -> Nat \ {0}]
    BY DEF Init
  <1>5. listener \in [Port -> Conn \cup {NoConn}]
    BY DEF Init
  <1>6. QED
    BY <1>1, <1>2, <1>3, <1>4, <1>5, UsersAssumption DEF Init, TypeOK

\* Teardown keeps the three functions it writes typed.
LEMMA TeardownTypeOK ==
  ASSUME TypeOK, NEW c \in Conn, Teardown(c)
  PROVE  /\ phase' \in [Conn -> Phases]
         /\ connUp' \in [Conn -> BOOLEAN]
         /\ cancelled' \in [Conn -> BOOLEAN]
  BY PhaseLiterals DEF Teardown, TypeOK

LEMMA NextTypeOK == TypeOK /\ [Next]_vars => TypeOK'
  <1> SUFFICES ASSUME TypeOK, [Next]_vars PROVE TypeOK'
    OBVIOUS
  <1>1. ASSUME NEW n \in UserName, NEW u \in Profiles, AddUser(n, u)
        PROVE  TypeOK'
    BY <1>1 DEF AddUser, TypeOK
  <1>2. ASSUME NEW n \in UserName, DeleteUser(n)
        PROVE  TypeOK'
    BY <1>2 DEF DeleteUser, TypeOK
  <1>3. ASSUME NEW c \in Conn, NEW n \in UserName, NEW pw \in Password,
               AuthUser(c, n, pw)
        PROVE  TypeOK'
    BY <1>3, UsersAssumption, PhaseLiterals DEF AuthUser, TypeOK
  <1>4. ASSUME NEW c \in Conn, HandshakeFail(c)
        PROVE  TypeOK'
    BY <1>4, TeardownTypeOK DEF HandshakeFail, TypeOK
  <1>5. ASSUME NEW c \in Conn, StartSession(c)
        PROVE  TypeOK'
    BY <1>5, PhaseLiterals DEF StartSession, TypeOK
  <1>6. ASSUME NEW c \in Conn, NEW r \in Requests, ReceiveConfig(c, r)
        PROVE  TypeOK'
    <2>1. r.payload \in Configs \cup {Malformed}
      BY DEF Requests
    <2>2. (IF r.payload = Malformed THEN << >> ELSE r.payload) \in Seq(Route)
      BY <2>1, ConfigsAssumption
    <2>3. cfg' \in [Conn -> Seq(Route)]
      BY <1>6, <2>2 DEF ReceiveConfig, TypeOK
    <2>4. CASE ConfigError(user[c], r)
      BY <1>6, <2>3, <2>4, TeardownTypeOK DEF ReceiveConfig, TypeOK
    <2>5. CASE ~ConfigError(user[c], r)
      <3>1. /\ phase' = [phase EXCEPT ![c] = "stubs"]
            /\ idx' = [idx EXCEPT ![c] = 1]
            /\ UNCHANGED <<srvDone, connUp, cancelled, users, sessions, authRec,
                           user, listener, chans>>
        BY <1>6, <2>5 DEF ReceiveConfig
      <3>2. phase' \in [Conn -> Phases]
        BY <3>1, PhaseLiterals DEF TypeOK
      <3>3. idx' \in [Conn -> Nat \ {0}]
        BY <3>1 DEF TypeOK
      <3>4. QED
        BY <3>1, <3>2, <3>3, <2>3 DEF TypeOK
    <2>6. QED
      BY <2>4, <2>5
  <1>7. ASSUME NEW c \in Conn, ConfigTimeout(c)
        PROVE  TypeOK'
    BY <1>7, TeardownTypeOK DEF ConfigTimeout, TypeOK
  <1>8. ASSUME NEW c \in Conn, ConfigStreamClosed(c)
        PROVE  TypeOK'
    BY <1>8, PhaseLiterals DEF ConfigStreamClosed, TypeOK
  <1>9. ASSUME NEW c \in Conn, StartStub(c)
        PROVE  TypeOK'
    <2> DEFINE rt == cfg[c][idx[c]]
    <2>1. rt \in Route
      BY <1>9 DEF StartStub, TypeOK
    <2>2. rt.port \in Port
      BY <2>1 DEF Route
    <2>3. CASE ~rt.reverse
      <3>1. /\ idx' = [idx EXCEPT ![c] = @ + 1]
            /\ UNCHANGED <<srvDone, users, sessions, phase, connUp, cancelled,
                           authRec, user, cfg, listener, chans>>
        BY <1>9, <2>3 DEF StartStub
      <3>2. idx' \in [Conn -> Nat \ {0}]
        BY <3>1 DEF TypeOK
      <3>3. QED
        BY <3>1, <3>2 DEF TypeOK
    <2>4. CASE /\ rt.reverse
               /\ listener' = [listener EXCEPT ![rt.port] = c]
               /\ idx' = [idx EXCEPT ![c] = @ + 1]
               /\ UNCHANGED <<phase, connUp, cancelled>>
      <3>1. /\ idx' = [idx EXCEPT ![c] = @ + 1]
            /\ listener' = [listener EXCEPT ![rt.port] = c]
            /\ UNCHANGED <<srvDone, users, sessions, phase, connUp, cancelled,
                           authRec, user, cfg, chans>>
        BY <1>9, <2>4 DEF StartStub
      <3>2. idx' \in [Conn -> Nat \ {0}]
        BY <3>1 DEF TypeOK
      <3>3. listener' \in [Port -> Conn \cup {NoConn}]
        BY <3>1, <2>2 DEF TypeOK
      <3>4. QED
        BY <3>1, <3>2, <3>3 DEF TypeOK
    <2>5. CASE rt.reverse /\ Teardown(c) /\ UNCHANGED <<idx, listener>>
      BY <1>9, <2>5, TeardownTypeOK DEF StartStub, TypeOK
    <2>6. QED
      BY <1>9, <2>3, <2>4, <2>5 DEF StartStub
  <1>10. ASSUME NEW c \in Conn, SendConfigReply(c)
         PROVE  TypeOK'
    BY <1>10, TeardownTypeOK, PhaseLiterals DEF SendConfigReply, TypeOK
  <1>11. ASSUME NEW c \in Conn, Disconnect(c)
         PROVE  TypeOK'
    BY <1>11 DEF Disconnect, TypeOK
  <1>12. ASSUME NEW c \in Conn, SessionEnd(c)
         PROVE  TypeOK'
    BY <1>12, TeardownTypeOK DEF SessionEnd, TypeOK
  <1>13. ASSUME NEW p \in Port, StubStop(p)
         PROVE  TypeOK'
    BY <1>13 DEF StubStop, TypeOK
  <1>14. ASSUME NEW h \in ChanId, NEW c \in Conn,
                NEW d \in Descriptors \cup {BadJSON}, OpenChannel(h, c, d)
         PROVE  TypeOK'
    BY <1>14, ConnAssumption, ChanStateLiterals DEF OpenChannel, TypeOK, ChanRec
  <1>15. ASSUME NEW h \in ChanId,
                \/ DispatchChannel(h) \/ DropChannel(h) \/ HandleChannel(h)
                \/ DialTarget(h) \/ ChannelEOF(h) \/ ChannelCancel(h)
         PROVE  TypeOK'
    <2>1. PICK v \in ChanStates : chans' = [chans EXCEPT ![h].st = v]
      BY <1>15, ChanStateLiterals
      DEF DispatchChannel, DropChannel, HandleChannel, DialTarget, ChannelEOF,
          ChannelCancel
    <2>2. UNCHANGED <<srvDone, users, sessions, phase, connUp, cancelled,
                      authRec, user, cfg, idx, listener>>
      BY <1>15
      DEF DispatchChannel, DropChannel, HandleChannel, DialTarget, ChannelEOF,
          ChannelCancel
    <2>3. QED
      BY <2>1, <2>2, ChanStUpdate DEF TypeOK
  <1>16. CASE UNCHANGED vars
    BY <1>16 DEF vars, TypeOK
  <1>17. CASE ServerCancel
    BY <1>17 DEF ServerCancel, TypeOK
  <1>18. QED
    BY <1>1, <1>2, <1>3, <1>4, <1>5, <1>6, <1>7, <1>8, <1>9, <1>10, <1>11,
       <1>12, <1>13, <1>14, <1>15, <1>16, <1>17 DEF Next

\* The state of every session, the user index, the session map, the port
\* table and the channel table always have the shapes TypeOK gives them.
THEOREM TypeCorrect == Spec => []TypeOK
  BY InitTypeOK, NextTypeOK, PTL DEF Spec

-----------------------------------------------------------------------------
(* A config is acked only with all its reverse stubs bound.               *)

\* An element of a config is a route, and its port is one of Port.
LEMMA RouteElem ==
  ASSUME NEW s \in Seq(Route), NEW i \in 1..Len(s)
  PROVE  s[i] \in Route /\ s[i].port \in Port
  <1>1. s[i] \in Route
    OBVIOUS
  <1>2. QED
    BY <1>1 DEF Route

LEMMA InitStubsInv == Init => StubsInv
  BY DEF Init, StubsInv, ServingHasAllStubs

\* A step that touches none of the variables StubsInv reads keeps it.
LEMMA StubsInvFrame ==
  ASSUME StubsInv, UNCHANGED <<srvDone, phase, cancelled, idx, cfg, listener>>
  PROVE  StubsInv'
  BY DEF StubsInv, ServingHasAllStubs

\* Run returning (Teardown) keeps StubsInv: the session leaves the phases
\* StubsInv constrains, and nothing else changes.
LEMMA TeardownStubsInv ==
  ASSUME TypeOK, StubsInv, NEW c \in Conn, Teardown(c),
         UNCHANGED <<srvDone, idx, cfg, listener>>
  PROVE  StubsInv'
  <1>1. phase'[c] = "closed" /\ \A d \in Conn \ {c} : phase'[d] = phase[d]
                             /\ cancelled'[d] = cancelled[d]
    BY DEF Teardown, TypeOK
  <1>2. QED
    BY <1>1 DEF StubsInv, ServingHasAllStubs

\* A step that leaves the server's ctx live keeps StubsInv.
LEMMA NextStubsInvLive ==
  ASSUME TypeOK, StubsInv, [Next]_vars, ~srvDone, ~srvDone'
  PROVE  StubsInv'
  <1>1. CASE \/ \E n \in UserName, u \in Profiles : AddUser(n, u)
             \/ \E n \in UserName : DeleteUser(n)
             \/ \E c \in Conn : Disconnect(c)
             \/ \E h \in ChanId, c \in Conn, d \in Descriptors \cup {BadJSON} :
                  OpenChannel(h, c, d)
             \/ \E h \in ChanId :
                  \/ DispatchChannel(h) \/ DropChannel(h) \/ HandleChannel(h)
                  \/ DialTarget(h) \/ ChannelEOF(h) \/ ChannelCancel(h)
             \/ UNCHANGED vars
    BY <1>1, StubsInvFrame
    DEF AddUser, DeleteUser, Disconnect, OpenChannel, DispatchChannel,
        DropChannel, HandleChannel, DialTarget, ChannelEOF, ChannelCancel, vars
  <1>2. ASSUME NEW c \in Conn, NEW n \in UserName, NEW pw \in Password,
               AuthUser(c, n, pw)
        PROVE  StubsInv'
    BY <1>2 DEF AuthUser, StubsInv, ServingHasAllStubs, TypeOK
  <1>3. ASSUME NEW c \in Conn,
               HandshakeFail(c) \/ ConfigTimeout(c) \/ SessionEnd(c)
        PROVE  StubsInv'
    BY <1>3, TeardownStubsInv DEF HandshakeFail, ConfigTimeout, SessionEnd
  <1>4. ASSUME NEW c \in Conn, StartSession(c)
        PROVE  StubsInv'
    BY <1>4 DEF StartSession, StubsInv, ServingHasAllStubs, TypeOK
  <1>5. ASSUME NEW c \in Conn, NEW r \in Requests, ReceiveConfig(c, r)
        PROVE  StubsInv'
    <2>1. CASE ConfigError(user[c], r)
      <3>1. Teardown(c) /\ UNCHANGED <<srvDone, idx, listener>>
        BY <1>5, <2>1 DEF ReceiveConfig
      <3>2. phase'[c] = "closed" /\ \A d \in Conn \ {c} :
              phase'[d] = phase[d] /\ cancelled'[d] = cancelled[d] /\ cfg'[d] = cfg[d]
        BY <1>5, <3>1 DEF ReceiveConfig, Teardown, TypeOK
      <3>3. QED
        BY <3>1, <3>2 DEF StubsInv, ServingHasAllStubs
    <2>2. CASE ~ConfigError(user[c], r)
      <3>1. /\ phase' = [phase EXCEPT ![c] = "stubs"]
            /\ idx' = [idx EXCEPT ![c] = 1]
            /\ UNCHANGED <<cancelled, listener>>
        BY <1>5, <2>2 DEF ReceiveConfig
      <3>2. phase[c] = "config" /\ \A d \in Conn \ {c} : cfg'[d] = cfg[d]
        BY <1>5 DEF ReceiveConfig, TypeOK
      <3>3. cfg'[c] \in Seq(Route)
        BY <1>5, ConfigsAssumption DEF ReceiveConfig, Requests, TypeOK
      <3>4. QED
        BY <3>1, <3>2, <3>3 DEF StubsInv, ServingHasAllStubs, TypeOK
    <2>3. QED
      BY <2>1, <2>2
  <1>6. ASSUME NEW c \in Conn, ConfigStreamClosed(c)
        PROVE  StubsInv'
    BY <1>6 DEF ConfigStreamClosed, StubsInv, ServingHasAllStubs, TypeOK
  <1>7. ASSUME NEW c \in Conn, StartStub(c)
        PROVE  StubsInv'
    <2> DEFINE rt == cfg[c][idx[c]]
    <2>1. phase[c] = "stubs" /\ idx[c] <= Len(cfg[c]) /\ ~cancelled[c]
      BY <1>7 DEF StartStub, StubsInv
    <2>2. rt \in Route
      BY <2>1 DEF TypeOK
    <2>3. idx[c] \in Nat \ {0} /\ cfg[c] \in Seq(Route)
      BY DEF TypeOK
    \* The routes below idx'[c] are those below idx[c] and rt itself.
    <2>4. ASSUME NEW i \in 1..idx[c]
          PROVE  i \in 1..(idx[c] - 1) \/ cfg[c][i] = rt
      BY <2>3
    <2>5. CASE ~rt.reverse
      <3>1. /\ idx' = [idx EXCEPT ![c] = @ + 1]
            /\ UNCHANGED <<phase, cancelled, cfg, listener>>
        BY <1>7, <2>5 DEF StartStub
      <3>2. idx'[c] - 1 = idx[c] /\ \A d \in Conn \ {c} : idx'[d] = idx[d]
        BY <3>1, <2>3 DEF TypeOK
      <3>3. \A i \in 1..idx[c] :
              cfg[c][i].reverse => listener[cfg[c][i].port] = c
        BY <2>1, <2>4, <2>5 DEF StubsInv
      <3>4. idx[c] + 1 <= Len(cfg[c]) + 1
        BY <2>1, <2>3
      <3>5. QED
        BY <2>1, <3>1, <3>2, <3>3, <3>4 DEF StubsInv, ServingHasAllStubs
    <2>6. CASE /\ rt.reverse
               /\ listener[rt.port] = NoConn
               /\ listener' = [listener EXCEPT ![rt.port] = c]
               /\ idx' = [idx EXCEPT ![c] = @ + 1]
               /\ UNCHANGED <<phase, connUp, cancelled>>
      <3>1. /\ idx' = [idx EXCEPT ![c] = @ + 1]
            /\ listener' = [listener EXCEPT ![rt.port] = c]
            /\ UNCHANGED <<phase, cancelled, cfg>>
        BY <1>7, <2>6 DEF StartStub
      <3>2. rt.port \in Port
        BY <2>2 DEF Route
      <3>3. idx'[c] - 1 = idx[c] /\ \A d \in Conn \ {c} : idx'[d] = idx[d]
        BY <3>1, <2>3 DEF TypeOK
      \* A port held by some session keeps its holder; the free one is c's.
      <3>4. \A p \in Port : listener[p] # NoConn => listener'[p] = listener[p]
        BY <2>6, <3>1, <3>2 DEF TypeOK
      <3>5. listener'[rt.port] = c
        BY <3>1, <3>2 DEF TypeOK
      <3>6. \A i \in 1..idx[c] :
              cfg[c][i].reverse => listener'[cfg[c][i].port] = c
        <4> SUFFICES ASSUME NEW i \in 1..idx[c], cfg[c][i].reverse
                     PROVE  listener'[cfg[c][i].port] = c
          OBVIOUS
        <4>1. CASE i \in 1..(idx[c] - 1)
          <5>1. listener[cfg[c][i].port] = c
            BY <2>1, <4>1 DEF StubsInv
          <5>2. i \in 1..Len(cfg[c])
            BY <2>1, <2>3, <4>1
          <5>3. cfg[c][i].port \in Port
            BY <5>2, <2>3, RouteElem
          <5>4. QED
            BY <5>1, <5>3, <3>4, ConnAssumption
        <4>2. CASE cfg[c][i] = rt
          BY <4>2, <3>5
        <4>3. QED
          BY <2>4, <4>1, <4>2
      \* Every listener a session held before it still holds.
      <3>7. \A d \in Conn, q \in Port : listener[q] = d => listener'[q] = d
        BY <3>4, ConnAssumption
      <3>8. idx[c] + 1 <= Len(cfg[c]) + 1
        BY <2>1, <2>3
      <3>9. \A d \in Conn : phase'[d] \in {"handshake", "authenticated", "config",
                                         "stubs", "serving"} => ~cancelled'[d]
        BY <3>1 DEF StubsInv
      <3>10. \A d \in Conn : phase'[d] = "stubs" =>
               /\ idx'[d] <= Len(cfg'[d]) + 1
               /\ \A i \in 1..(idx'[d] - 1) :
                    cfg'[d][i].reverse => listener'[cfg'[d][i].port] = d
        <4> SUFFICES ASSUME NEW d \in Conn, phase'[d] = "stubs"
                     PROVE  /\ idx'[d] <= Len(cfg'[d]) + 1
                            /\ \A i \in 1..(idx'[d] - 1) :
                                 cfg'[d][i].reverse => listener'[cfg'[d][i].port] = d
          OBVIOUS
        <4>1. CASE d = c
          <5>1. idx'[c] = idx[c] + 1 /\ cfg'[c] = cfg[c]
            BY <3>1, <3>3, <2>3
          <5>2. QED
            BY <4>1, <5>1, <3>6, <3>8, <2>3
        <4>2. CASE d # c
          <5>1. idx'[d] = idx[d] /\ phase[d] = "stubs"
            BY <4>2, <3>1, <3>3
          <5>2. /\ idx[d] <= Len(cfg[d]) + 1
                /\ \A i \in 1..(idx[d] - 1) :
                     cfg[d][i].reverse => listener[cfg[d][i].port] = d
            BY <5>1 DEF StubsInv
          <5>3. \A i \in 1..(idx[d] - 1) : cfg[d][i].port \in Port
            <6>1. cfg[d] \in Seq(Route) /\ idx[d] \in Nat
              BY DEF TypeOK
            <6>2. \A i \in 1..(idx[d] - 1) : i \in 1..Len(cfg[d])
              BY <5>2, <6>1
            <6>3. QED
              BY <6>1, <6>2, RouteElem
          <5>4. QED
            BY <5>1, <5>2, <5>3, <3>1, <3>7
        <4>3. QED
          BY <4>1, <4>2
      <3>11. ServingHasAllStubs'
        <4> SUFFICES ASSUME NEW d \in Conn, phase'[d] = "serving",
                            NEW i \in 1..Len(cfg'[d]), cfg'[d][i].reverse
                     PROVE  listener'[cfg'[d][i].port] = d
          BY DEF ServingHasAllStubs
        <4>1. phase[d] = "serving" /\ cfg'[d] = cfg[d]
          BY <3>1
        <4>2. listener[cfg[d][i].port] = d
          BY <4>1 DEF StubsInv, ServingHasAllStubs
        <4>4. cfg[d][i].port \in Port
          <5>1. cfg[d] \in Seq(Route)
            BY DEF TypeOK
          <5>2. QED
            BY <4>1, <5>1, RouteElem
        <4>3. QED
          BY <4>1, <4>2, <4>4, <3>7
      <3>12. QED
        BY <3>9, <3>10, <3>11 DEF StubsInv
    <2>7. CASE rt.reverse /\ Teardown(c) /\ UNCHANGED <<idx, listener>>
      BY <1>7, <2>7, TeardownStubsInv DEF StartStub
    <2>8. QED
      BY <1>7, <2>5, <2>6, <2>7 DEF StartStub
  <1>8. ASSUME NEW c \in Conn, SendConfigReply(c)
        PROVE  StubsInv'
    <2>1. phase[c] = "stubs" /\ idx[c] > Len(cfg[c])
      BY <1>8 DEF SendConfigReply
    <2>2. CASE phase' = [phase EXCEPT ![c] = "serving"] /\ UNCHANGED cancelled
      <3>1. /\ phase' = [phase EXCEPT ![c] = "serving"]
            /\ UNCHANGED <<cancelled, idx, cfg, listener>>
        BY <1>8, <2>2 DEF SendConfigReply
      <3>2. \A i \in 1..Len(cfg[c]) :
              cfg[c][i].reverse => listener[cfg[c][i].port] = c
        BY <2>1 DEF StubsInv, TypeOK
      <3>3. QED
        BY <2>1, <3>1, <3>2 DEF StubsInv, ServingHasAllStubs, TypeOK
    <2>3. CASE Teardown(c)
      BY <1>8, <2>3, TeardownStubsInv DEF SendConfigReply
    <2>4. QED
      BY <1>8, <2>2, <2>3 DEF SendConfigReply
  <1>9. ASSUME NEW p \in Port, StubStop(p)
        PROVE  StubsInv'
    \* The holder of p is cancelled, so no session in "stubs" or "serving"
    \* holds it.
    <2>1. /\ listener' = [listener EXCEPT ![p] = NoConn]
          /\ UNCHANGED <<phase, cancelled, idx, cfg>>
          /\ listener[p] # NoConn /\ cancelled[listener[p]]
      BY <1>9 DEF StubStop, SubCtxDone
    <2>2. \A d \in Conn : phase[d] \in {"stubs", "serving"} => listener[p] # d
      BY <2>1 DEF StubsInv
    <2>3. \A q \in Port : listener[q] \in Conn /\ phase[listener[q]] \in {"stubs", "serving"}
            => listener'[q] = listener[q]
      BY <2>1, <2>2 DEF TypeOK
    <2>4. QED
      BY <2>1, <2>3 DEF StubsInv, ServingHasAllStubs, TypeOK, Route
  <1>10. CASE ServerCancel
    BY <1>10 DEF ServerCancel
  <1>11. QED
    BY <1>1, <1>2, <1>3, <1>4, <1>5, <1>6, <1>7, <1>8, <1>9, <1>10 DEF Next

\* The part of StubsInv that holds whether or not the server's ctx is done.
LiveIdx ==
  /\ \A c \in Conn :
       phase[c] \in {"handshake", "authenticated", "config", "stubs", "serving"}
         => ~cancelled[c]
  /\ \A c \in Conn : phase[c] = "stubs" => idx[c] <= Len(cfg[c]) + 1

\* Every step keeps LiveIdx: a session's own cancel comes with its return,
\* and the bring-up loop stops at the end of the config.
LEMMA NextLiveIdx ==
  ASSUME TypeOK, LiveIdx, [Next]_vars
  PROVE  LiveIdx'
  <1>1. CASE \/ \E n \in UserName, u \in Profiles : AddUser(n, u)
             \/ \E n \in UserName : DeleteUser(n)
             \/ \E c \in Conn : Disconnect(c)
             \/ \E h \in ChanId, c \in Conn, d \in Descriptors \cup {BadJSON} :
                  OpenChannel(h, c, d)
             \/ \E h \in ChanId :
                  \/ DispatchChannel(h) \/ DropChannel(h) \/ HandleChannel(h)
                  \/ DialTarget(h) \/ ChannelEOF(h) \/ ChannelCancel(h)
             \/ \E p \in Port : StubStop(p)
             \/ ServerCancel
             \/ UNCHANGED vars
    BY <1>1
    DEF AddUser, DeleteUser, Disconnect, OpenChannel, DispatchChannel,
        DropChannel, HandleChannel, DialTarget, ChannelEOF, ChannelCancel,
        StubStop, ServerCancel, vars, LiveIdx
  <1>2. ASSUME NEW c \in Conn,
               \/ \E n \in UserName, pw \in Password : AuthUser(c, n, pw)
               \/ StartSession(c)
        PROVE  LiveIdx'
    BY <1>2 DEF AuthUser, StartSession, LiveIdx, TypeOK
  <1>3. ASSUME NEW c \in Conn,
               \/ HandshakeFail(c) \/ ConfigTimeout(c) \/ SessionEnd(c)
               \/ ConfigStreamClosed(c)
               \/ Teardown(c) /\ UNCHANGED <<idx, cfg>>
        PROVE  LiveIdx'
    BY <1>3 DEF HandshakeFail, ConfigTimeout, SessionEnd, ConfigStreamClosed,
                Teardown, LiveIdx, TypeOK
  <1>4. ASSUME NEW c \in Conn, NEW r \in Requests, ReceiveConfig(c, r)
        PROVE  LiveIdx'
    <2>1. CASE ConfigError(user[c], r)
      <3>1. /\ phase' = [phase EXCEPT ![c] = "closed"]
            /\ UNCHANGED idx
            /\ \A d \in Conn \ {c} : cfg'[d] = cfg[d] /\ cancelled'[d] = cancelled[d]
        BY <1>4, <2>1 DEF ReceiveConfig, Teardown, TypeOK
      <3>2. QED
        BY <3>1 DEF LiveIdx, TypeOK
    <2>2. CASE ~ConfigError(user[c], r)
      <3>1. cfg'[c] \in Seq(Route)
        BY <1>4, ConfigsAssumption DEF ReceiveConfig, Requests, TypeOK
      <3>2. QED
        BY <1>4, <2>2, <3>1 DEF ReceiveConfig, LiveIdx, TypeOK
    <2>3. QED
      BY <2>1, <2>2
  <1>5. ASSUME NEW c \in Conn, StartStub(c)
        PROVE  LiveIdx'
    <2>1. CASE Teardown(c) /\ UNCHANGED <<idx, cfg>>
      BY <2>1, <1>3
    <2>2. CASE /\ idx' = [idx EXCEPT ![c] = @ + 1]
               /\ UNCHANGED <<phase, cancelled, cfg>>
      <3>1. phase[c] = "stubs" /\ idx[c] <= Len(cfg[c])
        BY <1>5 DEF StartStub
      <3>2. idx[c] \in Nat /\ cfg[c] \in Seq(Route)
        BY DEF TypeOK
      <3>3. QED
        BY <2>2, <3>1, <3>2 DEF LiveIdx, TypeOK
    <2>3. QED
      BY <1>5, <2>1, <2>2 DEF StartStub
  <1>6. ASSUME NEW c \in Conn, SendConfigReply(c)
        PROVE  LiveIdx'
    <2>1. CASE Teardown(c)
      BY <1>3, <1>6, <2>1 DEF SendConfigReply
    <2>2. CASE phase' = [phase EXCEPT ![c] = "serving"] /\ UNCHANGED cancelled
      BY <1>6, <2>2 DEF SendConfigReply, LiveIdx, TypeOK
    <2>3. QED
      BY <1>6, <2>1, <2>2 DEF SendConfigReply
  <1>7. QED
    BY <1>1, <1>2, <1>3, <1>4, <1>5, <1>6 DEF Next

\* The server's ctx, once done, stays done.
LEMMA SrvDoneKept ==
  ASSUME [Next]_vars, srvDone
  PROVE  srvDone'
  BY Zenon
  DEF Next, vars, AddUser, DeleteUser, AuthUser, HandshakeFail, StartSession,
      ReceiveConfig, ConfigTimeout, ConfigStreamClosed, StartStub,
      SendConfigReply, Disconnect, SessionEnd, ServerCancel, StubStop,
      OpenChannel, DispatchChannel, DropChannel, HandleChannel, DialTarget,
      ChannelEOF, ChannelCancel

\* Every step keeps StubsInv: while the server's ctx is live by
\* NextStubsInvLive; once it is done the stub conjuncts say nothing and
\* LiveIdx is the rest.
LEMMA NextStubsInv == TypeOK /\ StubsInv /\ [Next]_vars => StubsInv'
  <1> SUFFICES ASSUME TypeOK, StubsInv, [Next]_vars PROVE StubsInv'
    OBVIOUS
  <1>1. LiveIdx'
    BY NextLiveIdx DEF StubsInv, LiveIdx
  <1>2. CASE srvDone'
    BY <1>1, <1>2 DEF LiveIdx, StubsInv, ServingHasAllStubs
  <1>3. CASE ~srvDone'
    <2>1. ~srvDone
      BY <1>3, SrvDoneKept
    <2>2. QED
      BY <1>3, <2>1, NextStubsInvLive
  <1>4. QED
    BY <1>2, <1>3

\* Run acks a config only when every reverse route of it has a stub
\* listener held by this session, and the session keeps its listeners
\* while it serves, whatever other sessions and stale stubs do.
THEOREM ServingStubsCorrect == Spec => []ServingHasAllStubs
  <1>1. Init => StubsInv
    BY InitStubsInv
  <1>2. TypeOK /\ StubsInv /\ [Next]_vars => StubsInv'
    BY NextStubsInv
  <1>3. StubsInv => ServingHasAllStubs
    BY DEF StubsInv
  <1>4. QED
    BY <1>1, <1>2, <1>3, TypeCorrect, PTL DEF Spec

=============================================================================
