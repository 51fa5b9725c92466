------------------------- MODULE LegacySessionProofs -------------------------
(***************************************************************************)
(* The legacy handleWebsocket keeps the guarantees of the newer session: *)
(* a session that acks its config holds every reverse port of it, and    *)
(* the legacy sessions implement the safety part of SessionContract.     *)
(* Most legacy steps are steps of SessionCore's Next (the shared          *)
(* handshake, user index and channel code, the accepted config, the      *)
(* binds of the bring-up loop), so the lemmas of SessionCoreProofs and   *)
(* SessionContractProofs cover them; the steps in which the legacy code  *)
(* differs (returns that do not close the transport or do not cancel,    *)
(* an ack whose error is ignored) get lemmas of their own.               *)
(***************************************************************************)
EXTENDS LegacySession, SessionContractProofs

-----------------------------------------------------------------------------
(* The legacy steps that are steps of SessionCore.                       *)

\* The failed bind of LegacyStartStub: the session returns, and its
\* deferred cancel() runs, with the transport left open.
LegacyBindFail(c) ==
  /\ cfg[c][idx[c]].reverse
  /\ phase' = [phase EXCEPT ![c] = "closed"]
  /\ cancelled' = [cancelled EXCEPT ![c] = TRUE]
  /\ UNCHANGED <<idx, listener>>

\* The bind and skip branches of LegacyStartStub are those of StartStub.
LEMMA LegacyStartStubShared ==
  ASSUME NEW c \in Conn, LegacyStartStub(c), ~LegacyBindFail(c)
  PROVE  StartStub(c)
  BY DEF LegacyStartStub, StartStub, LegacyBindFail

\* An accepted legacy config is an accepted config of ReceiveConfig.
LEMMA LegacyAcceptShared ==
  ASSUME NEW c \in Conn, NEW r \in Requests, LegacyReceiveConfig(c, r),
         ~ConfigError(user[c], r)
  PROVE  ReceiveConfig(c, r)
  BY DEF LegacyReceiveConfig, ReceiveConfig

\* The legacy steps that are steps of Next.
LEMMA LegacySharedNext ==
  ASSUME LegacyNext,
         ~\E c \in Conn :
            \/ \E r \in Requests : LegacyReceiveConfig(c, r) /\ ConfigError(user[c], r)
            \/ LegacyConfigTimeout(c) \/ LegacyConfigStreamClosed(c)
            \/ LegacyStartStub(c) /\ LegacyBindFail(c)
            \/ LegacySendConfigReply(c) \/ LegacyDisconnect(c)
            \/ LegacySessionEnd(c),
         ~\E h \in ChanId : LegacyStreamClosed(h)
  PROVE  Next
  BY LegacyStartStubShared, LegacyAcceptShared
  DEF LegacyNext, Next, LegacyHandleChannel

-----------------------------------------------------------------------------
(* The legacy-only steps.                                                  *)

\* The end of a session that does not touch idx or listener: the session
\* leaves the phases StubsInv constrains, with or without a cancel.
LEMMA CloseStubsInv ==
  ASSUME TypeOK, StubsInv, NEW c \in Conn, NEW q \in {"closed", "panicked"},
         NEW b \in BOOLEAN,
         phase' = [phase EXCEPT ![c] = q],
         cancelled' = [cancelled EXCEPT ![c] = b],
         \A d \in Conn \ {c} : cfg'[d] = cfg[d],
         UNCHANGED <<srvDone, idx, listener>>
  PROVE  StubsInv'
  <1>1. phase'[c] = q /\ \A d \in Conn \ {c} : phase'[d] = phase[d]
                      /\ cancelled'[d] = cancelled[d]
    BY DEF TypeOK
  <1>2. QED
    BY <1>1 DEF StubsInv, ServingHasAllStubs

\* The ack once the loop has run over the whole config.
LEMMA AckStubsInv ==
  ASSUME TypeOK, StubsInv, NEW c \in Conn, phase[c] = "stubs",
         idx[c] > Len(cfg[c]),
         phase' = [phase EXCEPT ![c] = "serving"],
         UNCHANGED <<srvDone, cancelled, idx, cfg, listener>>
  PROVE  StubsInv'
  <1>0. idx[c] = Len(cfg[c]) + 1
    BY DEF StubsInv, TypeOK
  <1>1. ~srvDone =>
          \A i \in 1..Len(cfg[c]) : cfg[c][i].reverse => listener[cfg[c][i].port] = c
    BY <1>0 DEF StubsInv
  <1>2. QED
    BY <1>1 DEF StubsInv, ServingHasAllStubs, TypeOK

\* A refused legacy config stores its decode in cfg.
LEMMA LegacyRefusedCfg ==
  ASSUME TypeOK, NEW c \in Conn, NEW r \in Requests, LegacyReceiveConfig(c, r)
  PROVE  /\ cfg'[c] \in Configs \cup {<< >>}
         /\ cfg' \in [Conn -> Seq(Route)]
         /\ \A d \in Conn \ {c} : cfg'[d] = cfg[d]
  BY ConfigsAssumption DEF LegacyReceiveConfig, Requests, TypeOK

LEMMA LegacyNextTypeOK == TypeOK /\ [LegacyNext]_vars => TypeOK'
  <1> SUFFICES ASSUME TypeOK, [LegacyNext]_vars PROVE TypeOK'
    OBVIOUS
  <1> USE PhaseLiterals DEF TypeOK
  <1>1. ASSUME NEW c \in Conn, NEW r \in Requests, LegacyReceiveConfig(c, r)
        PROVE  TypeOK'
    <2>1. cfg' \in [Conn -> Seq(Route)]
      BY <1>1, LegacyRefusedCfg
    <2>2. phase' \in [Conn -> Phases] /\ idx' \in [Conn -> Nat \ {0}]
      <3>1. CASE ConfigError(user[c], r)
        <4>1. phase' = [phase EXCEPT ![c] = "closed"] /\ UNCHANGED idx
          BY <1>1, <3>1 DEF LegacyReceiveConfig
        <4>2. QED
          BY <4>1
      <3>2. CASE ~ConfigError(user[c], r)
        <4>1. phase' = [phase EXCEPT ![c] = "stubs"] /\ idx' = [idx EXCEPT ![c] = 1]
          BY <1>1, <3>2 DEF LegacyReceiveConfig
        <4>2. QED
          BY <4>1
      <3>3. QED
        BY <3>1, <3>2
    <2>3. UNCHANGED <<srvDone, users, sessions, connUp, cancelled, authRec, user,
                     listener, chans>>
      BY <1>1 DEF LegacyReceiveConfig
    <2>4. QED
      BY <2>1, <2>2, <2>3
  <1>2. ASSUME NEW c \in Conn,
               \/ LegacyConfigTimeout(c) \/ LegacyConfigStreamClosed(c)
               \/ LegacyDisconnect(c) \/ LegacySessionEnd(c)
               \/ LegacySendConfigReply(c)
        PROVE  TypeOK'
    <2>1. srvDone' \in BOOLEAN
      BY <1>2, Zenon DEF LegacyConfigTimeout, LegacyConfigStreamClosed,
                         LegacyDisconnect, LegacySessionEnd, LegacySendConfigReply
    <2>2. CASE LegacyConfigTimeout(c)
      BY <2>1, <2>2 DEF LegacyConfigTimeout
    <2>3. CASE LegacyConfigStreamClosed(c)
      BY <2>1, <2>3 DEF LegacyConfigStreamClosed
    <2>4. CASE LegacyDisconnect(c)
      BY <2>1, <2>4 DEF LegacyDisconnect
    <2>5. CASE LegacySessionEnd(c)
      BY <2>1, <2>5 DEF LegacySessionEnd
    <2>6. CASE LegacySendConfigReply(c)
      BY <2>1, <2>6 DEF LegacySendConfigReply
    <2>7. QED
      BY <1>2, <2>2, <2>3, <2>4, <2>5, <2>6
  <1>3. ASSUME NEW c \in Conn, LegacyStartStub(c)
        PROVE  TypeOK'
    <2>1. CASE LegacyBindFail(c)
      <3>1. /\ phase' = [phase EXCEPT ![c] = "closed"]
            /\ cancelled' = [cancelled EXCEPT ![c] = TRUE]
            /\ UNCHANGED <<srvDone, users, sessions, connUp, authRec, user, cfg, idx,
                           listener, chans>>
        BY <1>3, <2>1 DEF LegacyStartStub, LegacyBindFail
      <3>2. QED
        BY <3>1
    <2>2. CASE ~LegacyBindFail(c)
      BY <1>3, <2>2, LegacyStartStubShared, NextTypeOK DEF Next
    <2>3. QED
      BY <2>1, <2>2
  <1>4. ASSUME NEW h \in ChanId, LegacyStreamClosed(h)
        PROVE  TypeOK'
    BY <1>4, ChanStUpdate, ChanStateLiterals DEF LegacyStreamClosed
  <1>5. CASE Next \/ UNCHANGED vars
    BY <1>5, NextTypeOK DEF vars
  <1>6. QED
    BY <1>1, <1>2, <1>3, <1>4, <1>5, LegacySharedNext

LEMMA LegacyNextStubsInv ==
  TypeOK /\ StubsInv /\ [LegacyNext]_vars => StubsInv'
  <1> SUFFICES ASSUME TypeOK, StubsInv, [LegacyNext]_vars PROVE StubsInv'
    OBVIOUS
  <1>1. ASSUME NEW c \in Conn, NEW r \in Requests, LegacyReceiveConfig(c, r),
               ConfigError(user[c], r)
        PROVE  StubsInv'
    BY <1>1, LegacyRefusedCfg, CloseStubsInv DEF LegacyReceiveConfig, TypeOK
  <1>2. ASSUME NEW c \in Conn, LegacyConfigTimeout(c) \/ LegacyConfigStreamClosed(c)
        PROVE  StubsInv'
    <2>1. \E q \in {"closed", "panicked"} :
            /\ phase' = [phase EXCEPT ![c] = q]
            /\ UNCHANGED <<srvDone, cancelled, cfg, idx, listener>>
      BY <1>2 DEF LegacyConfigTimeout, LegacyConfigStreamClosed
    <2>2. cancelled' = [cancelled EXCEPT ![c] = cancelled[c]]
      BY <2>1 DEF TypeOK
    <2>3. cancelled[c] \in BOOLEAN
      BY DEF TypeOK
    <2>4. QED
      BY <2>1, <2>2, <2>3, CloseStubsInv
  <1>3. ASSUME NEW c \in Conn, LegacySessionEnd(c)
        PROVE  StubsInv'
    BY <1>3, CloseStubsInv DEF LegacySessionEnd
  \* A failed bind returns, and the deferred cancel() runs.
  <1>4. ASSUME NEW c \in Conn, LegacyStartStub(c), LegacyBindFail(c)
        PROVE  StubsInv'
    <2>1. /\ phase' = [phase EXCEPT ![c] = "closed"]
          /\ cancelled' = [cancelled EXCEPT ![c] = TRUE]
          /\ UNCHANGED <<srvDone, idx, cfg, listener>>
      BY <1>4 DEF LegacyStartStub, LegacyBindFail
    <2>2. QED
      BY <2>1, CloseStubsInv
  <1>5. ASSUME NEW c \in Conn, LegacySendConfigReply(c)
        PROVE  StubsInv'
    BY <1>5, AckStubsInv DEF LegacySendConfigReply
  <1>6. ASSUME \/ \E c \in Conn : LegacyDisconnect(c)
               \/ \E h \in ChanId : LegacyStreamClosed(h)
        PROVE  StubsInv'
    BY <1>6, StubsInvFrame DEF LegacyDisconnect, LegacyStreamClosed
  <1>7. CASE Next \/ UNCHANGED vars
    BY <1>7, NextStubsInv DEF vars
  <1>8. QED
    BY <1>1, <1>2, <1>3, <1>4, <1>5, <1>6, <1>7, LegacySharedNext

-----------------------------------------------------------------------------
(* The legacy steps as steps of the contract.                             *)

\* A return of a session that has not returned yet, with its config and
\* the ports left alone, is the contract's End.
LEMMA CloseRefines ==
  ASSUME TypeOK, NEW c \in Conn, NEW q \in {"closed", "panicked"},
         phase' = [phase EXCEPT ![c] = q],
         phase[c] \in {"handshake", "authenticated", "config", "stubs", "serving"},
         UNCHANGED <<srvDone, cfg, listener>>
  PROVE  SC!Next
  <1>1. SessionStage' = [SessionStage EXCEPT ![c] = StageOf(q)]
    BY StageUpdate
  <1>2. SessionStage' = [SessionStage EXCEPT ![c] = "done"]
    BY <1>1, StageOfPhase
  <1>3. SessionStage[c] # "done"
    BY StageOfPhase DEF SessionStage
  <1>4. QED
    BY <1>2, <1>3 DEF SC!Next, SC!End

LEMMA LegacyStepRefines ==
  TypeOK /\ StubsInv /\ [LegacyNext]_vars => [SC!Next]_SC!cvars
  <1> SUFFICES ASSUME TypeOK, StubsInv, [LegacyNext]_vars
               PROVE  [SC!Next]_SC!cvars
    OBVIOUS
  \* A refused config: the contract's Decide that refuses.
  <1>1. ASSUME NEW c \in Conn, NEW r \in Requests, LegacyReceiveConfig(c, r),
               ConfigError(user[c], r)
        PROVE  [SC!Next]_SC!cvars
    <2>1. /\ phase[c] = "config"
          /\ phase' = [phase EXCEPT ![c] = "closed"]
          /\ UNCHANGED <<srvDone, listener>>
      BY <1>1 DEF LegacyReceiveConfig
    <2>2. SessionStage' = [SessionStage EXCEPT ![c] = "done"]
      <3>1. SessionStage' = [SessionStage EXCEPT ![c] = StageOf("closed")]
        BY <2>1, StageUpdate
      <3>2. QED
        BY <3>1, StageOfPhase
    <2>3. SessionStage[c] = "pending"
      BY <2>1, StageOfPhase DEF SessionStage
    <2>4. /\ cfg'[c] \in Configs \cup {<< >>}
          /\ cfg' = [cfg EXCEPT ![c] = cfg'[c]]
      BY <1>1, LegacyRefusedCfg DEF LegacyReceiveConfig, TypeOK
    <2>5. SC!Decide(c)
      BY <2>1, <2>2, <2>3, <2>4 DEF SC!Decide
    <2>6. QED
      BY <2>5 DEF SC!Next
  <1>2. ASSUME NEW c \in Conn, LegacyConfigTimeout(c)
        PROVE  [SC!Next]_SC!cvars
    BY <1>2, CloseRefines DEF LegacyConfigTimeout
  <1>3. ASSUME NEW c \in Conn, LegacyConfigStreamClosed(c)
        PROVE  [SC!Next]_SC!cvars
    BY <1>3, CloseRefines DEF LegacyConfigStreamClosed
  <1>4. ASSUME NEW c \in Conn, LegacySessionEnd(c)
        PROVE  [SC!Next]_SC!cvars
    BY <1>4, CloseRefines DEF LegacySessionEnd
  <1>5. ASSUME NEW c \in Conn, LegacyStartStub(c), LegacyBindFail(c)
        PROVE  [SC!Next]_SC!cvars
    <2>1. /\ phase[c] = "stubs"
          /\ phase' = [phase EXCEPT ![c] = "closed"]
          /\ UNCHANGED <<srvDone, cfg, listener>>
      BY <1>5 DEF LegacyStartStub, LegacyBindFail
    <2>2. QED
      BY <2>1, CloseRefines
  \* The ack, sent whether or not the transport is still open, holds every
  \* reverse port of the config.
  <1>6. ASSUME NEW c \in Conn, LegacySendConfigReply(c)
        PROVE  [SC!Next]_SC!cvars
    <2>1. /\ phase[c] = "stubs"
          /\ idx[c] > Len(cfg[c])
          /\ phase' = [phase EXCEPT ![c] = "serving"]
          /\ UNCHANGED <<srvDone, cfg, listener>>
      BY <1>6 DEF LegacySendConfigReply
    <2>2. SessionStage' = [SessionStage EXCEPT ![c] = "serving"]
      <3>1. SessionStage' = [SessionStage EXCEPT ![c] = StageOf("serving")]
        BY <2>1, StageUpdate
      <3>2. QED
        BY <3>1, StageOfPhase
    <2>3. ~srvDone =>
            \A i \in 1..Len(cfg[c]) : cfg[c][i].reverse => listener[cfg[c][i].port] = c
      <3>1. idx[c] = Len(cfg[c]) + 1
        BY <2>1 DEF StubsInv, TypeOK
      <3>2. QED
        BY <2>1, <3>1 DEF StubsInv
    <2>4. srvDone \/ \A p \in SC!ReversePorts(cfg[c]) : listener[p] = c
      BY <2>3 DEF SC!ReversePorts
    <2>5. SessionStage[c] = "binding"
      BY <2>1, StageOfPhase DEF SessionStage
    <2>6. SC!Serve(c)
      BY <2>1, <2>2, <2>4, <2>5 DEF SC!Serve
    <2>7. QED
      BY <2>6 DEF SC!Next
  <1>7. ASSUME \/ \E c \in Conn : LegacyDisconnect(c)
               \/ \E h \in ChanId : LegacyStreamClosed(h)
        PROVE  [SC!Next]_SC!cvars
    <2>1. UNCHANGED <<srvDone, phase, cfg, listener>>
      BY <1>7 DEF LegacyDisconnect, LegacyStreamClosed
    <2>2. QED
      BY <2>1 DEF SC!cvars, SessionStage
  <1>8. CASE Next \/ UNCHANGED vars
    <2>1. CASE Next
      BY <2>1, StepRefines
    <2>2. CASE UNCHANGED vars
      BY <2>2 DEF vars, SC!cvars, SessionStage
    <2>3. QED
      BY <1>8, <2>1, <2>2
  <1>9. QED
    BY <1>1, <1>2, <1>3, <1>4, <1>5, <1>6, <1>7, <1>8, LegacySharedNext

-----------------------------------------------------------------------------

\* No legacy step cancels the server's ctx: handleWebsocket runs its
\* sessions under context.Background().
LEMMA LegacyNeverDone ==
  ASSUME [LegacyNext]_vars, ~srvDone
  PROVE  ~srvDone'
  <1>1. ASSUME NEW c \in Conn,
               \/ \E n \in UserName, pw \in Password : AuthUser(c, n, pw)
               \/ HandshakeFail(c) \/ StartSession(c)
               \/ \E r \in Requests : LegacyReceiveConfig(c, r)
               \/ LegacyConfigTimeout(c) \/ LegacyConfigStreamClosed(c)
               \/ LegacyStartStub(c) \/ LegacySendConfigReply(c)
               \/ LegacyDisconnect(c) \/ LegacySessionEnd(c)
        PROVE  srvDone' = srvDone
    BY <1>1 DEF AuthUser, HandshakeFail, StartSession, LegacyReceiveConfig,
                LegacyConfigTimeout, LegacyConfigStreamClosed, LegacyStartStub,
                LegacySendConfigReply, LegacyDisconnect, LegacySessionEnd
  <1>2. ASSUME NEW h \in ChanId,
               \/ \E c \in Conn, d \in Descriptors \cup {BadJSON} : OpenChannel(h, c, d)
               \/ DispatchChannel(h) \/ DropChannel(h) \/ LegacyHandleChannel(h)
               \/ DialTarget(h) \/ ChannelEOF(h) \/ LegacyStreamClosed(h)
        PROVE  srvDone' = srvDone
    BY <1>2 DEF OpenChannel, DispatchChannel, DropChannel, LegacyHandleChannel,
                HandleChannel,
                DialTarget, ChannelEOF, LegacyStreamClosed
  <1>3. ASSUME \/ \E n \in UserName, u \in Profiles : AddUser(n, u)
               \/ \E n \in UserName : DeleteUser(n)
               \/ \E p \in Port : StubStop(p)
               \/ UNCHANGED vars
        PROVE  srvDone' = srvDone
    BY <1>3 DEF AddUser, DeleteUser, StubStop, vars
  <1>4. srvDone' = srvDone
    BY <1>1, <1>2, <1>3 DEF LegacyNext
  <1>5. QED
    BY <1>4, Zenon

\* Every reachable state of the legacy sessions is well typed.
THEOREM LegacyTypeCorrect == LegacySpec => []TypeOK
  BY InitTypeOK, LegacyNextTypeOK, PTL DEF LegacySpec

\* A legacy session acks its config (r.Reply(true, nil) in
\* handleWebsocket) only holding the stub listener of every reverse route
\* of it, and keeps them while it serves, for any number of sessions,
\* ports and configs: the failed bind returns before the ack, and its
\* deferred cancel() stops only stubs of a session that has returned.  The
\* legacy server's ctx is never cancelled, so ServingHasAllStubs holds
\* with its server-shutdown exception never taken.
THEOREM LegacyServingStubsCorrect == LegacySpec => [](ServingHasAllStubs /\ ~srvDone)
  <1>1. Init => TypeOK /\ StubsInv /\ ~srvDone
    BY InitTypeOK, InitStubsInv DEF Init
  <1>2. TypeOK /\ StubsInv /\ ~srvDone /\ [LegacyNext]_vars
          => (TypeOK /\ StubsInv /\ ~srvDone)'
    BY LegacyNextTypeOK, LegacyNextStubsInv, LegacyNeverDone
  <1>3. StubsInv => ServingHasAllStubs
    BY DEF StubsInv
  <1>4. QED
    BY <1>1, <1>2, <1>3, PTL DEF LegacySpec

\* The legacy handleWebsocket implements the same session contract as the
\* newer ProxySSHSession: every behaviour of the legacy sessions is one of
\* SessionContract's, under the same mapping.
THEOREM LegacyRefinement == LegacySpec => SessionContractSafety
  <1>1. Init => TypeOK /\ StubsInv
    BY InitTypeOK, InitStubsInv
  <1>2. TypeOK /\ StubsInv /\ [LegacyNext]_vars => (TypeOK /\ StubsInv)'
    BY LegacyNextTypeOK, LegacyNextStubsInv
  <1>3. TypeOK /\ StubsInv /\ [LegacyNext]_vars => [SC!Next]_SC!cvars
    BY LegacyStepRefines
  <1>4. QED
    BY <1>1, <1>2, <1>3, InitRefines, PTL
    DEF LegacySpec, SessionContractSafety, SC!SafetySpec

=============================================================================
