------------------------- MODULE SessionAuthProofs -------------------------
(***************************************************************************)
(* Theorems about what the config step of SessionCore lets through: with  *)
(* a user index nobody edits while sessions run, a session authenticated  *)
(* as a user passes the config step only with routes that user may use;  *)
(* and, whatever the administrator does, every bound reverse-stub port    *)
(* comes from a reverse route of its session's config, on a server run    *)
(* with --reverse.                                                         *)
(***************************************************************************)
EXTENDS SessionCoreProofs

-----------------------------------------------------------------------------
(* Authorization of the config.                                           *)

LEMMA InitAuthInv == Init => AuthInv
  BY DEF Init, AuthInv, ConfigAuthorized

\* Teardown moves a session to "closed", about which AuthInv says nothing.
LEMMA TeardownAuthInv ==
  ASSUME AuthInv, TypeOK, NEW c \in Conn, Teardown(c),
         UNCHANGED <<users, sessions, authRec, user, cfg>>
  PROVE  AuthInv'
  <1>1. phase'[c] = "closed" /\ \A d \in Conn \ {c} : phase'[d] = phase[d]
    BY DEF Teardown, TypeOK
  <1>2. QED
    BY <1>1 DEF AuthInv, ConfigAuthorized, UsersEmpty

LEMMA NextAuthInv ==
  ASSUME ~UserEdits
  PROVE  TypeOK /\ AuthInv /\ [Next]_vars => AuthInv'
  <1> SUFFICES ASSUME TypeOK, AuthInv, [Next]_vars PROVE AuthInv'
    OBVIOUS
  \* Steps that leave users, sessions, phase, authRec, user and cfg alone.
  <1>1. CASE \/ \E c \in Conn : Disconnect(c)
             \/ \E p \in Port : StubStop(p)
             \/ \E h \in ChanId, c \in Conn, d \in Descriptors \cup {BadJSON} :
                  OpenChannel(h, c, d)
             \/ \E h \in ChanId :
                  \/ DispatchChannel(h) \/ DropChannel(h) \/ HandleChannel(h)
                  \/ DialTarget(h) \/ ChannelEOF(h) \/ ChannelCancel(h)
             \/ UNCHANGED vars
    <2>1. UNCHANGED <<users, sessions, phase, authRec, user, cfg>>
      BY <1>1 DEF Disconnect, StubStop, OpenChannel, DispatchChannel,
                  DropChannel, HandleChannel, DialTarget, ChannelEOF,
                  ChannelCancel, vars
    <2>2. QED
      BY <2>1 DEF AuthInv, ConfigAuthorized, UsersEmpty
  \* The administrator does not edit the index.
  <1>2. CASE \/ \E n \in UserName, u \in Profiles : AddUser(n, u)
             \/ \E n \in UserName : DeleteUser(n)
    BY <1>2 DEF AddUser, DeleteUser
  \* The callback stores in the session map the record it checked, or,
  \* with an empty index, checks nothing.
  <1>3. ASSUME NEW c \in Conn, NEW n \in UserName, NEW pw \in Password,
               AuthUser(c, n, pw)
        PROVE  AuthInv'
    <2>1. /\ phase[c] = "handshake"
          /\ phase' = [phase EXCEPT ![c] = "authenticated"]
          /\ UNCHANGED <<users, user, cfg>>
      BY <1>3 DEF AuthUser
    <2>2. CASE UsersEmpty
      <3>1. UNCHANGED <<sessions, authRec>>
        BY <1>3, <2>2 DEF AuthUser, UsersEmpty
      <3>2. QED
        BY <2>1, <3>1 DEF AuthInv, ConfigAuthorized, UsersEmpty, TypeOK
    <2>3. CASE ~UsersEmpty
      <3>1. /\ sessions' = [sessions EXCEPT ![c] = users[n]]
            /\ authRec' = [authRec EXCEPT ![c] = users[n]]
        BY <1>3, <2>3 DEF AuthUser, UsersEmpty
      <3>2. QED
        BY <2>1, <2>3, <3>1 DEF AuthInv, ConfigAuthorized, UsersEmpty, TypeOK
    <2>4. QED
      BY <2>2, <2>3
  <1>4. ASSUME NEW c \in Conn,
               HandshakeFail(c) \/ ConfigTimeout(c) \/ SessionEnd(c)
        PROVE  AuthInv'
    BY <1>4, TeardownAuthInv DEF HandshakeFail, ConfigTimeout, SessionEnd
  \* runWithSSHConn takes the record out of the session map; the index is
  \* empty only if no record was checked.
  <1>5. ASSUME NEW c \in Conn, StartSession(c)
        PROVE  AuthInv'
    <2>1. /\ phase[c] = "authenticated"
          /\ phase' = [phase EXCEPT ![c] = "config"]
          /\ UNCHANGED <<users, authRec, cfg>>
      BY <1>5 DEF StartSession
    <2>2. CASE UsersEmpty
      <3>1. UNCHANGED <<user, sessions>>
        BY <1>5, <2>2 DEF StartSession, UsersEmpty
      <3>2. authRec[c] = NoUser /\ user[c] = NoUser
        BY <2>1, <2>2 DEF AuthInv
      <3>3. QED
        BY <2>1, <3>1, <3>2 DEF AuthInv, ConfigAuthorized, UsersEmpty, TypeOK
    <2>3. CASE ~UsersEmpty
      <3>1. /\ user' = [user EXCEPT ![c] = sessions[c]]
            /\ sessions' = [sessions EXCEPT ![c] = NoUser]
        BY <1>5, <2>3 DEF StartSession, UsersEmpty
      <3>2. sessions[c] = authRec[c]
        BY <2>1 DEF AuthInv
      <3>3. QED
        BY <2>1, <3>1, <3>2 DEF AuthInv, ConfigAuthorized, UsersEmpty, TypeOK
    <2>4. QED
      BY <2>2, <2>3
  \* A config that passes the access check of `user`, which is the record
  \* the callback checked, is allowed by that record.
  <1>6. ASSUME NEW c \in Conn, NEW r \in Requests, ReceiveConfig(c, r)
        PROVE  AuthInv'
    <2>1. CASE ConfigError(user[c], r)
      <3>1. Teardown(c) /\ UNCHANGED <<users, sessions, authRec, user>>
        BY <1>6, <2>1 DEF ReceiveConfig
      <3>2. phase'[c] = "closed" /\ \A d \in Conn \ {c} :
              phase'[d] = phase[d] /\ cfg'[d] = cfg[d]
        BY <1>6, <3>1 DEF ReceiveConfig, Teardown, TypeOK
      <3>3. QED
        BY <3>1, <3>2 DEF AuthInv, ConfigAuthorized, UsersEmpty
    <2>2. CASE ~ConfigError(user[c], r)
      <3>1. /\ phase[c] = "config"
            /\ phase' = [phase EXCEPT ![c] = "stubs"]
            /\ UNCHANGED <<users, sessions, authRec, user>>
            /\ cfg' = [cfg EXCEPT ![c] = IF r.payload = Malformed THEN << >>
                                         ELSE r.payload]
        BY <1>6, <2>2 DEF ReceiveConfig
      <3>2. r.payload # Malformed /\ ~AccessDenied(user[c], r.payload)
        BY <2>2 DEF ConfigError
      <3>3. cfg'[c] = r.payload
        BY <3>1, <3>2 DEF TypeOK
      <3>4. user[c] = authRec[c]
        BY <3>1 DEF AuthInv
      <3>5. authRec[c] # NoUser =>
              \A i \in 1..Len(cfg'[c]) : cfg'[c][i] \in authRec[c].addrs
        BY <3>2, <3>3, <3>4 DEF AccessDenied
      <3>6. \A d \in Conn \ {c} : phase'[d] = phase[d] /\ cfg'[d] = cfg[d]
        BY <3>1 DEF TypeOK
      <3>7. ConfigAuthorized'
        BY <3>1, <3>5, <3>6 DEF AuthInv, ConfigAuthorized, TypeOK
      <3>8. QED
        BY <3>1, <3>4, <3>6, <3>7 DEF AuthInv, UsersEmpty, TypeOK
    <2>3. QED
      BY <2>1, <2>2
  <1>7. ASSUME NEW c \in Conn, ConfigStreamClosed(c)
        PROVE  AuthInv'
    <2>1. /\ phase' = [phase EXCEPT ![c] = "panicked"]
          /\ UNCHANGED <<users, sessions, authRec, user, cfg>>
      BY <1>7 DEF ConfigStreamClosed
    <2>2. QED
      BY <2>1 DEF AuthInv, ConfigAuthorized, UsersEmpty, TypeOK
  \* The bring-up loop and the ack keep the session in "stubs" or move it
  \* on to "serving" or "closed", with its config as it is.
  <1>8. ASSUME NEW c \in Conn, StartStub(c)
        PROVE  AuthInv'
    <2>1. phase[c] = "stubs" /\ UNCHANGED <<users, sessions, authRec, user, cfg>>
      BY <1>8 DEF StartStub
    <2>2. CASE UNCHANGED phase
      BY <2>1, <2>2 DEF AuthInv, ConfigAuthorized, UsersEmpty
    <2>3. CASE Teardown(c)
      BY <2>1, <2>3, TeardownAuthInv
    <2>4. QED
      BY <1>8, <2>2, <2>3 DEF StartStub
  <1>9. ASSUME NEW c \in Conn, SendConfigReply(c)
        PROVE  AuthInv'
    <2>1. phase[c] = "stubs" /\ UNCHANGED <<users, sessions, authRec, user, cfg>>
      BY <1>9 DEF SendConfigReply
    <2>2. CASE phase' = [phase EXCEPT ![c] = "serving"]
      BY <2>1, <2>2 DEF AuthInv, ConfigAuthorized, UsersEmpty, TypeOK
    <2>3. CASE Teardown(c)
      BY <1>9, <2>1, <2>3, TeardownAuthInv DEF SendConfigReply
    <2>4. QED
      BY <1>9, <2>2, <2>3 DEF SendConfigReply
  <1>10. CASE ServerCancel
    BY <1>10 DEF ServerCancel, AuthInv, ConfigAuthorized, UsersEmpty
  <1>11. QED
    BY <1>1, <1>2, <1>3, <1>4, <1>5, <1>6, <1>7, <1>8, <1>9, <1>10 DEF Next

\* With a user index nobody edits while sessions run (the auth run), a
\* session authenticated as a user by authUser gets past the config step
\* of runWithSSHConn only with a config whose every route that user's
\* address regexps allow.  The config_race run shows that a DeleteUser
\* between the two steps breaks it.
THEOREM ConfigAuthorizedCorrect ==
  ASSUME ~UserEdits
  PROVE  Spec => []ConfigAuthorized
  <1>1. Init => TypeOK /\ AuthInv
    BY InitTypeOK, InitAuthInv
  <1>2. TypeOK /\ AuthInv /\ [Next]_vars => (TypeOK /\ AuthInv)'
    BY NextTypeOK, NextAuthInv
  <1>3. AuthInv => ConfigAuthorized
    BY DEF AuthInv
  <1>4. QED
    BY <1>1, <1>2, <1>3, PTL DEF Spec

-----------------------------------------------------------------------------
(* Reverse stubs are backed by an accepted config.                        *)

LEMMA InitBackedInv == Init => BackedInv
  BY DEF Init, BackedInv, StubsBackedByConfig

\* A step that moves session c from `from` to "closed" (or to a phase
\* outside "stubs" and "serving" no stub holder is in) and leaves cfg and
\* listener alone keeps BackedInv.
LEMMA PhaseStepBackedInv ==
  ASSUME BackedInv, TypeOK, NEW c \in Conn, NEW q \in Phases,
         phase' = [phase EXCEPT ![c] = q],
         q \notin {"stubs", "serving"},
         q # "closed" => \A p \in Port : listener[p] # c,
         UNCHANGED <<cfg, listener>>
  PROVE  BackedInv'
  <1>1. \A d \in Conn \ {c} : phase'[d] = phase[d]
    BY DEF TypeOK
  <1>2. phase'[c] = q
    BY DEF TypeOK
  <1>3. QED
    BY <1>1, <1>2 DEF BackedInv, StubsBackedByConfig, TypeOK

LEMMA NextBackedInv ==
  TypeOK /\ BackedInv /\ [Next]_vars => BackedInv'
  <1> SUFFICES ASSUME TypeOK, BackedInv, [Next]_vars PROVE BackedInv'
    OBVIOUS
  \* No port holder is in the handshake or the config step.
  <1>0. \A p \in Port : listener[p] # NoConn =>
          phase[listener[p]] \notin {"handshake", "authenticated", "config"}
    BY DEF BackedInv
  <1>1. CASE \/ \E n \in UserName, u \in Profiles : AddUser(n, u)
             \/ \E n \in UserName : DeleteUser(n)
             \/ \E c \in Conn : Disconnect(c)
             \/ \E h \in ChanId, c \in Conn, d \in Descriptors \cup {BadJSON} :
                  OpenChannel(h, c, d)
             \/ \E h \in ChanId :
                  \/ DispatchChannel(h) \/ DropChannel(h) \/ HandleChannel(h)
                  \/ DialTarget(h) \/ ChannelEOF(h) \/ ChannelCancel(h)
             \/ UNCHANGED vars
    <2>1. UNCHANGED <<phase, cfg, listener>>
      BY <1>1 DEF AddUser, DeleteUser, Disconnect, OpenChannel,
                  DispatchChannel, DropChannel, HandleChannel, DialTarget,
                  ChannelEOF, ChannelCancel, vars
    <2>2. QED
      BY <2>1 DEF BackedInv, StubsBackedByConfig
  <1>2. ASSUME NEW c \in Conn, NEW n \in UserName, NEW pw \in Password,
               AuthUser(c, n, pw)
        PROVE  BackedInv'
    <2>1. phase[c] = "handshake" /\ UNCHANGED <<cfg, listener>>
      BY <1>2 DEF AuthUser
    <2>2. \A p \in Port : listener[p] # c
      BY <1>0, <2>1, ConnAssumption
    <2>3. phase' = [phase EXCEPT ![c] = "authenticated"]
      BY <1>2 DEF AuthUser
    <2>4. QED
      BY <2>1, <2>2, <2>3, PhaseStepBackedInv DEF Phases
  <1>3. ASSUME NEW c \in Conn, StartSession(c)
        PROVE  BackedInv'
    <2>1. phase[c] = "authenticated" /\ UNCHANGED <<cfg, listener>>
      BY <1>3 DEF StartSession
    <2>2. \A p \in Port : listener[p] # c
      BY <1>0, <2>1, ConnAssumption
    <2>3. phase' = [phase EXCEPT ![c] = "config"]
      BY <1>3 DEF StartSession
    <2>4. QED
      BY <2>1, <2>2, <2>3, PhaseStepBackedInv DEF Phases
  <1>4. ASSUME NEW c \in Conn,
               HandshakeFail(c) \/ ConfigTimeout(c) \/ SessionEnd(c)
        PROVE  BackedInv'
    BY <1>4, PhaseStepBackedInv DEF HandshakeFail, ConfigTimeout, SessionEnd,
                                    Teardown, Phases
  <1>5. ASSUME NEW c \in Conn, ConfigStreamClosed(c)
        PROVE  BackedInv'
    <2>1. phase[c] = "config" /\ UNCHANGED <<cfg, listener>>
      BY <1>5 DEF ConfigStreamClosed
    <2>2. \A p \in Port : listener[p] # c
      BY <1>0, <2>1, ConnAssumption
    <2>3. phase' = [phase EXCEPT ![c] = "panicked"]
      BY <1>5 DEF ConfigStreamClosed
    <2>4. QED
      BY <2>1, <2>2, <2>3, PhaseStepBackedInv DEF Phases
  \* The config is replaced only in the config step, when the session holds
  \* no port; a config that passes has no reverse route unless --reverse.
  <1>6. ASSUME NEW c \in Conn, NEW r \in Requests, ReceiveConfig(c, r)
        PROVE  BackedInv'
    <2>1. /\ phase[c] = "config"
          /\ UNCHANGED listener
          /\ \A d \in Conn \ {c} : cfg'[d] = cfg[d]
      BY <1>6 DEF ReceiveConfig, TypeOK
    <2>2. \A p \in Port : listener[p] # NoConn => listener[p] # c
      BY <1>0, <2>1
    <2>3. \A p \in Port : listener[p] # NoConn =>
            cfg'[listener[p]] = cfg[listener[p]]
      BY <2>1, <2>2 DEF TypeOK
    <2>4. CASE ConfigError(user[c], r)
      <3>1. phase' = [phase EXCEPT ![c] = "closed"]
        BY <1>6, <2>4 DEF ReceiveConfig, Teardown
      <3>2. \A d \in Conn \ {c} : phase'[d] = phase[d]
        BY <3>1 DEF TypeOK
      <3>3. \A p \in Port : listener[p] # NoConn =>
              phase'[listener[p]] = phase[listener[p]]
        BY <2>2, <3>2 DEF TypeOK
      <3>4. \A d \in Conn : phase'[d] \in {"stubs", "serving"} =>
              d # c /\ phase[d] \in {"stubs", "serving"}
        BY <3>1, <3>2 DEF TypeOK
      <3>5. QED
        BY <2>1, <2>3, <3>3, <3>4 DEF BackedInv, StubsBackedByConfig
    <2>5. CASE ~ConfigError(user[c], r)
      <3>1. /\ phase' = [phase EXCEPT ![c] = "stubs"]
            /\ cfg'[c] = r.payload
        BY <1>6, <2>5 DEF ReceiveConfig, ConfigError, TypeOK
      <3>2. \A i \in 1..Len(cfg'[c]) : cfg'[c][i].reverse => ReverseOk
        BY <2>5, <3>1 DEF ConfigError, ReverseDenied
      <3>3. \A d \in Conn \ {c} : phase'[d] = phase[d]
        BY <3>1 DEF TypeOK
      <3>4. \A p \in Port : listener[p] # NoConn =>
              phase'[listener[p]] = phase[listener[p]]
        BY <2>2, <3>3 DEF TypeOK
      <3>5. \A d \in Conn : phase'[d] \in {"stubs", "serving"} =>
              \A i \in 1..Len(cfg'[d]) : cfg'[d][i].reverse => ReverseOk
        BY <2>1, <3>2, <3>3 DEF BackedInv
      <3>6. QED
        BY <2>1, <2>3, <3>4, <3>5 DEF BackedInv, StubsBackedByConfig
    <2>6. QED
      BY <2>4, <2>5
  \* The bind takes the port of the reverse route at idx, which the config
  \* names and which passed the --reverse check.
  <1>7. ASSUME NEW c \in Conn, StartStub(c)
        PROVE  BackedInv'
    <2>1. /\ phase[c] = "stubs"
          /\ idx[c] \in 1..Len(cfg[c])
          /\ UNCHANGED cfg
      BY <1>7 DEF StartStub, TypeOK
    <2> DEFINE rt == cfg[c][idx[c]]
    <2>2. CASE ~rt.reverse /\ UNCHANGED <<phase, listener>>
      BY <2>1, <2>2 DEF BackedInv, StubsBackedByConfig
    <2>3. CASE /\ rt.reverse
               /\ listener' = [listener EXCEPT ![rt.port] = c]
               /\ UNCHANGED phase
      <3>0. rt \in Route
        BY <2>1 DEF TypeOK
      <3>1. rt.port \in Port /\ ReverseOk
        BY <2>1, <2>3, <3>0 DEF BackedInv, Route
      <3>2. \A p \in Port : listener'[p] # NoConn =>
              IF p = rt.port THEN listener'[p] = c ELSE listener'[p] = listener[p]
        BY <2>3, <3>1 DEF TypeOK
      <3>3. QED
        BY <2>1, <2>3, <3>1, <3>2 DEF BackedInv, StubsBackedByConfig
    <2>4. CASE Teardown(c) /\ UNCHANGED listener
      BY <2>1, <2>4, PhaseStepBackedInv DEF Teardown, Phases
    <2>5. QED
      BY <1>7, <2>2, <2>3, <2>4 DEF StartStub
  <1>8. ASSUME NEW c \in Conn, SendConfigReply(c)
        PROVE  BackedInv'
    <2>1. phase[c] = "stubs" /\ UNCHANGED <<cfg, listener>>
      BY <1>8 DEF SendConfigReply
    <2>2. CASE phase' = [phase EXCEPT ![c] = "serving"]
      <3>2. \A d \in Conn \ {c} : phase'[d] = phase[d]
        BY <2>2 DEF TypeOK
      <3>3. QED
        BY <2>1, <2>2, <3>2 DEF BackedInv, StubsBackedByConfig, TypeOK
    <2>3. CASE Teardown(c)
      BY <1>8, <2>1, <2>3, PhaseStepBackedInv DEF SendConfigReply, Teardown, Phases
    <2>4. QED
      BY <1>8, <2>2, <2>3 DEF SendConfigReply
  <1>9. ASSUME NEW p \in Port, StubStop(p)
        PROVE  BackedInv'
    <2>1. listener' = [listener EXCEPT ![p] = NoConn] /\ UNCHANGED <<phase, cfg>>
      BY <1>9 DEF StubStop
    <2>2. QED
      BY <2>1 DEF BackedInv, StubsBackedByConfig, TypeOK
  <1>10. CASE ServerCancel
    BY <1>10 DEF ServerCancel, BackedInv, StubsBackedByConfig
  <1>11. QED
    BY <1>1, <1>2, <1>3, <1>4, <1>5, <1>6, <1>7, <1>8, <1>9, <1>10 DEF Next

\* Whatever the administrator does with the user index, every port a
\* reverse stub of the server holds belongs to a session whose config got
\* past runWithSSHConn's --reverse check and names that port in a reverse
\* route: the bring-up loop binds only ports of the accepted config.
THEOREM StubsBackedByConfigCorrect == Spec => []StubsBackedByConfig
  <1>1. Init => TypeOK /\ BackedInv
    BY InitTypeOK, InitBackedInv
  <1>2. TypeOK /\ BackedInv /\ [Next]_vars => (TypeOK /\ BackedInv)'
    BY NextTypeOK, NextBackedInv
  <1>3. BackedInv => StubsBackedByConfig
    BY DEF BackedInv
  <1>4. QED
    BY <1>1, <1>2, <1>3, PTL DEF Spec

=============================================================================
