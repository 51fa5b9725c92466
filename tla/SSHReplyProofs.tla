--------------------------- MODULE SSHReplyProofs ---------------------------
(***************************************************************************)
(* Proofs about the request/reply path of SSHReply: type correctness, and *)
(* that replies reach the wire in request order as long as the ctx given  *)
(* to Run is never cancelled.                                             *)
(***************************************************************************)
EXTENDS SSHReply, TLAPS

LEMMA StateLiterals ==
  /\ {"none", "writing", "sending", "done"} \subseteq GoStates
  /\ {"select", "replying", "returned"} \subseteq LoopStates
  BY DEF GoStates, LoopStates

LEMMA InitTypeOK == Init => TypeOK
  <1> SUFFICES ASSUME Init PROVE TypeOK
    OBVIOUS
  <1>1. reqType \in [ReqId -> ReqTypes]
    BY DEF Init, ReqTypes
  <1>2. gs \in [ReqId -> GoStates] /\ loop \in LoopStates
    BY StateLiterals DEF Init
  <1>3. sent \in 0..MaxReqs /\ taken \in 0..sent /\ cur \in 0..taken
    BY ReplyAssumption DEF Init
  <1>4. wire \in Seq(Reply)
    BY DEF Init
  <1>5. QED
    BY <1>1, <1>2, <1>3, <1>4 DEF Init, TypeOK

\* The reply a goroutine writes is a Reply.
LEMMA ReplyRec ==
  ASSUME TypeOK, NEW i \in ReqId
  PROVE  [id |-> i, ok |-> reqType[i] = "ping"] \in Reply
  BY DEF Reply

LEMMA NextTypeOK == TypeOK /\ [Next]_vars => TypeOK'
  <1> SUFFICES ASSUME TypeOK, [Next]_vars PROVE TypeOK'
    OBVIOUS
  <1> USE ReplyAssumption
  <1>1. CASE ClientSend
    <2>1. sent' = sent + 1 /\ sent + 1 \in ReqId
      BY <1>1 DEF ClientSend, TypeOK, ReqId
    <2>2. reqType' \in [ReqId -> ReqTypes]
      BY <1>1, <2>1 DEF ClientSend, TypeOK, ReqTypes
    <2>3. QED
      BY <1>1, <2>1, <2>2 DEF ClientSend, TypeOK, ReqId
  <1>2. CASE ConnClose \/ WaitReturn \/ ServerCancel
    BY <1>2 DEF ConnClose, WaitReturn, ServerCancel, TypeOK
  <1>3. CASE Receive
    <2>1. taken + 1 \in ReqId /\ taken' = taken + 1 /\ cur' = taken + 1
      BY <1>3 DEF Receive, TypeOK, ReqId
    <2>2. gs' \in [ReqId -> GoStates] /\ loop' \in LoopStates
      BY <1>3, <2>1, StateLiterals DEF Receive, TypeOK
    <2>3. QED
      BY <1>3, <2>1, <2>2 DEF Receive, TypeOK
  <1>4. CASE ReceiveNil \/ LoopAbort
    BY <1>4, StateLiterals DEF ReceiveNil, LoopAbort, TypeOK
  <1>5. ASSUME NEW i \in ReqId, WriteReply(i)
        PROVE  TypeOK'
    <2>1. wire' \in Seq(Reply)
      BY <1>5, ReplyRec DEF WriteReply, TypeOK
    <2>2. gs' \in [ReqId -> GoStates]
      BY <1>5, StateLiterals DEF WriteReply, TypeOK
    <2>3. QED
      BY <1>5, <2>1, <2>2 DEF WriteReply, TypeOK
  <1>6. CASE TakeResult
    <2>1. gs' \in [ReqId -> GoStates] /\ loop' \in LoopStates
      BY <1>6, StateLiterals DEF TakeResult, TypeOK
    <2>2. QED
      BY <1>6, <2>1 DEF TakeResult, TypeOK
  <1>7. CASE ReplyAbort
    BY <1>7, StateLiterals DEF ReplyAbort, TypeOK
  <1>8. CASE UNCHANGED vars
    BY <1>8 DEF vars, TypeOK
  <1>9. QED
    BY <1>1, <1>2, <1>3, <1>4, <1>5, <1>6, <1>7, <1>8 DEF Next

\* Every reachable state of the request/reply path is well typed.
THEOREM ReplyTypeCorrect == Spec => []TypeOK
  BY InitTypeOK, NextTypeOK, PTL DEF Spec

-----------------------------------------------------------------------------
(* Replies in request order.                                               *)

LEMMA InitOrderInv == Init => OrderInv
  BY DEF Init, OrderInv, RepliesInOrder, ReqId

\* Every reply on the wire is for a request id, a positive number.
LEMMA WireIds ==
  ASSUME TypeOK
  PROVE  \A k \in 1..Len(wire) : wire[k].id \in ReqId /\ wire[k].id \in Nat
  <1>1. \A k \in 1..Len(wire) : wire[k] \in Reply
    BY DEF TypeOK
  <1>2. QED
    BY <1>1 DEF Reply, ReqId

LEMMA NextOrderInv ==
  ASSUME ~ParentCancel
  PROVE  TypeOK /\ OrderInv /\ [Next]_vars => OrderInv'
  <1> SUFFICES ASSUME TypeOK, OrderInv, [Next]_vars PROVE OrderInv'
    OBVIOUS
  <1> USE ReplyAssumption
  <1>1. CASE ClientSend
    BY <1>1 DEF ClientSend, OrderInv, RepliesInOrder
  <1>2. CASE ConnClose
    BY <1>2 DEF ConnClose, OrderInv, RepliesInOrder
  \* Only Wait returning ends ctx, and it returns after the transport closed.
  <1>3. CASE WaitReturn
    BY <1>3 DEF WaitReturn, OrderInv, RepliesInOrder
  <1>4. CASE ServerCancel
    BY <1>4 DEF ServerCancel
  \* The new goroutine is for taken + 1, later than every reply; while the
  \* session lives no other goroutine was in r.Reply, as the loop was in
  \* its own select.
  <1>5. CASE Receive
    <2>1. /\ taken' = taken + 1 /\ cur' = taken + 1 /\ loop' = "replying"
          /\ gs' = [gs EXCEPT ![taken + 1] = "writing"]
          /\ UNCHANGED <<wire, connUp, ctxDone>>
          /\ loop = "select" /\ taken < sent
      BY <1>5 DEF Receive
    <2>2. taken + 1 \in ReqId /\ taken \in Nat
      BY <2>1 DEF TypeOK, ReqId
    <2>3. \A k \in 1..Len(wire) : wire[k].id < taken + 1
      BY <2>2, WireIds DEF OrderInv
    <2>4. \A i \in ReqId : gs'[i] = "writing" =>
            \A k \in 1..Len(wire') : wire'[k].id < i
      BY <2>1, <2>2, <2>3 DEF OrderInv, TypeOK
    <2>5. \A i \in ReqId : gs'[i] # "none" <=> i <= taken'
      BY <2>1, <2>2 DEF OrderInv, TypeOK, ReqId
    <2>6. connUp' /\ ~ctxDone' =>
            \A i \in ReqId : gs'[i] = "writing" => loop' = "replying" /\ cur' = i
      BY <2>1, <2>2 DEF OrderInv, TypeOK
    <2>7. \A k \in 1..Len(wire') : wire'[k].id <= taken'
      BY <2>1, <2>2, <2>3, WireIds
    <2>8. loop' = "replying" => cur' \in 1..taken'
      BY <2>1, <2>2
    <2>9. QED
      BY <2>1, <2>4, <2>5, <2>6, <2>7, <2>8 DEF OrderInv, RepliesInOrder
  <1>6. CASE ReceiveNil \/ LoopAbort
    <2>1. /\ loop = "select" /\ loop' = "returned"
          /\ UNCHANGED <<sent, taken, reqType, gs, cur, wire, connUp, ctxDone>>
      BY <1>6 DEF ReceiveNil, LoopAbort
    <2>2. QED
      BY <2>1 DEF OrderInv, RepliesInOrder
  \* A reply reaches the wire only while the session lives, and then i is
  \* the one goroutine in r.Reply, later than every reply already written.
  <1>7. ASSUME NEW i \in ReqId, WriteReply(i)
        PROVE  OrderInv'
    <2>1. /\ gs[i] = "writing"
          /\ gs' = [gs EXCEPT ![i] = "sending"]
          /\ UNCHANGED <<sent, taken, reqType, loop, cur, connUp, ctxDone>>
      BY <1>7 DEF WriteReply
    <2>2. CASE ~connUp
      <3>1. wire' = wire
        BY <1>7, <2>2 DEF WriteReply
      <3>2. QED
        BY <2>1, <2>2, <3>1 DEF OrderInv, RepliesInOrder, TypeOK
    <2>3. CASE connUp
      <3>1. wire' = Append(wire, [id |-> i, ok |-> reqType[i] = "ping"])
        BY <1>7, <2>3 DEF WriteReply
      <3>2. ~ctxDone /\ loop = "replying" /\ cur = i
        BY <2>1, <2>3 DEF OrderInv
      <3>3. \A k \in 1..Len(wire) : wire[k].id < i
        BY <2>1 DEF OrderInv
      <3>4. \A j \in ReqId : gs[j] = "writing" => j = i
        BY <2>3, <3>2 DEF OrderInv
      <3>5. i <= taken
        BY <2>1 DEF OrderInv, TypeOK, GoStates
      <3>6. /\ Len(wire') = Len(wire) + 1
            /\ wire'[Len(wire) + 1].id = i
            /\ \A k \in 1..Len(wire) : wire'[k] = wire[k]
        BY <3>1 DEF TypeOK
      <3>7. RepliesInOrder'
        <4> SUFFICES ASSUME NEW k \in 1..Len(wire'), NEW l \in 1..Len(wire'), k < l
                     PROVE  wire'[k].id < wire'[l].id
          BY DEF RepliesInOrder
        <4>1. k \in 1..Len(wire)
          BY <3>6 DEF TypeOK
        <4>2. CASE l = Len(wire) + 1
          BY <4>1, <4>2, <3>3, <3>6
        <4>3. CASE l \in 1..Len(wire)
          BY <4>1, <4>3, <3>6 DEF OrderInv, RepliesInOrder
        <4>4. QED
          BY <3>6, <4>2, <4>3 DEF TypeOK
      <3>8. \A k \in 1..Len(wire') : wire'[k].id <= taken'
        BY <2>1, <3>5, <3>6 DEF OrderInv, TypeOK
      <3>9. \A j \in ReqId : gs'[j] = "writing" =>
              \A k \in 1..Len(wire') : wire'[k].id < j
        BY <2>1, <3>4 DEF TypeOK
      <3>10. \A j \in ReqId : gs'[j] # "none" <=> j <= taken'
        BY <2>1 DEF OrderInv, TypeOK
      <3>11. QED
        BY <2>1, <2>3, <3>7, <3>8, <3>9, <3>10 DEF OrderInv, TypeOK
    <2>4. QED
      BY <2>2, <2>3
  \* The goroutine waited for has left r.Reply, so none is left in it.
  <1>8. CASE TakeResult
    <2>1. /\ loop = "replying" /\ gs[cur] = "sending"
          /\ gs' = [gs EXCEPT ![cur] = "done"] /\ loop' = "select"
          /\ UNCHANGED <<sent, taken, reqType, cur, wire, connUp, ctxDone>>
      BY <1>8 DEF TakeResult
    <2>2. cur \in ReqId
      BY <2>1 DEF OrderInv, TypeOK, ReqId
    <2>5. loop' = "replying" => cur' \in 1..taken'
      BY <2>1
    <2>3. connUp /\ ~ctxDone => \A i \in ReqId : gs[i] # "writing"
      BY <2>1, <2>2 DEF OrderInv
    <2>4. QED
      BY <2>1, <2>2, <2>3, <2>5 DEF OrderInv, RepliesInOrder, TypeOK
  <1>9. CASE ReplyAbort
    BY <1>9 DEF ReplyAbort, OrderInv, RepliesInOrder
  <1>10. CASE UNCHANGED vars
    BY <1>10 DEF vars, OrderInv, RepliesInOrder
  <1>11. QED
    BY <1>1, <1>2, <1>3, <1>4, <1>5, <1>6, <1>7, <1>8, <1>9, <1>10 DEF Next

\* When the ctx given to Run is never cancelled, handleSSHRequests writes
\* the replies to the client's global requests in the order it received
\* them: sendSSHReply only gives up on its goroutine once ctx is done, and
\* then the transport is already closed and no reply reaches the wire.
THEOREM RepliesInOrderCorrect ==
  ASSUME ~ParentCancel
  PROVE  Spec => []RepliesInOrder
  <1>1. Init => TypeOK /\ OrderInv
    BY InitTypeOK, InitOrderInv
  <1>2. TypeOK /\ OrderInv /\ [Next]_vars => (TypeOK /\ OrderInv)'
    BY NextTypeOK, NextOrderInv
  <1>3. TypeOK /\ OrderInv => RepliesInOrder
    BY DEF OrderInv
  <1>4. QED
    BY <1>1, <1>2, <1>3, PTL DEF Spec


-----------------------------------------------------------------------------
(* The request/reply path implements ReplyChannel.                        *)

LEMMA InitPrefixInv == Init => PrefixInv
  BY DEF Init, PrefixInv

\* While the transport is open, the one goroutine in r.Reply is for the
\* last request taken, the one after the last reply on the wire.
LEMMA WriterIsNext ==
  ASSUME ~ParentCancel, TypeOK, OrderInv, PrefixInv, connUp,
         NEW i \in ReqId, gs[i] = "writing"
  PROVE  /\ loop = "replying" /\ cur = i /\ i = taken
         /\ Len(wire) = i - 1
  <1>1. ~ctxDone
    BY DEF OrderInv
  <1>2. loop = "replying" /\ cur = i
    BY <1>1 DEF OrderInv
  <1>3. cur = taken
    BY <1>2 DEF PrefixInv
  <1>4. QED
    BY <1>2, <1>3 DEF PrefixInv

LEMMA NextPrefixInv ==
  ASSUME ~ParentCancel
  PROVE  TypeOK /\ OrderInv /\ PrefixInv /\ [Next]_vars => PrefixInv'
  <1> SUFFICES ASSUME TypeOK, OrderInv, PrefixInv, [Next]_vars PROVE PrefixInv'
    OBVIOUS
  <1> USE ReplyAssumption
  \* The request type changed is for sent + 1, after every reply.
  <1>1. CASE ClientSend
    <2>1. /\ sent' = sent + 1
          /\ \E t \in ReqTypes : reqType' = [reqType EXCEPT ![sent + 1] = t]
          /\ UNCHANGED <<taken, gs, loop, cur, wire, connUp, ctxDone>>
      BY <1>1 DEF ClientSend
    <2>2. \A k \in 1..Len(wire) : reqType'[k] = reqType[k]
      BY <2>1 DEF TypeOK, PrefixInv
    <2>3. QED
      BY <2>1, <2>2 DEF PrefixInv
  <1>2. CASE ConnClose \/ WaitReturn \/ ServerCancel
    BY <1>2 DEF ConnClose, WaitReturn, ServerCancel, PrefixInv
  \* The loop was in its select, so every taken request is answered.
  <1>3. CASE Receive
    <2>1. /\ taken' = taken + 1 /\ cur' = taken + 1 /\ loop' = "replying"
          /\ gs' = [gs EXCEPT ![taken + 1] = "writing"]
          /\ UNCHANGED <<sent, reqType, wire, connUp, ctxDone>>
          /\ loop = "select"
      BY <1>3 DEF Receive
    <2>2. taken + 1 \in ReqId
      BY <1>3 DEF Receive, TypeOK, ReqId
    <2>3. gs'[cur'] = "writing"
      BY <2>1, <2>2 DEF TypeOK
    <2>4. QED
      BY <2>1, <2>3 DEF PrefixInv, TypeOK
  <1>4. CASE ReceiveNil \/ LoopAbort
    BY <1>4 DEF ReceiveNil, LoopAbort, PrefixInv
  \* A reply written on the open transport is the reply to Len(wire) + 1.
  <1>5. ASSUME NEW i \in ReqId, WriteReply(i)
        PROVE  PrefixInv'
    <2>1. /\ gs[i] = "writing"
          /\ gs' = [gs EXCEPT ![i] = "sending"]
          /\ UNCHANGED <<sent, taken, reqType, loop, cur, connUp, ctxDone>>
      BY <1>5 DEF WriteReply
    <2>2. CASE ~connUp
      <3>1. wire' = wire
        BY <1>5, <2>2 DEF WriteReply
      <3>2. QED
        BY <2>1, <2>2, <3>1 DEF PrefixInv
    <2>3. CASE connUp
      <3>1. wire' = Append(wire, [id |-> i, ok |-> reqType[i] = "ping"])
        BY <1>5, <2>3 DEF WriteReply
      <3>2. loop = "replying" /\ cur = i /\ i = taken /\ Len(wire) = i - 1
        BY <2>1, <2>3, WriterIsNext
      <3>3. /\ Len(wire') = i
            /\ wire'[i] = [id |-> i, ok |-> reqType[i] = "ping"]
            /\ \A k \in 1..Len(wire) : wire'[k] = wire[k]
        BY <3>1, <3>2 DEF TypeOK, ReqId
      <3>4. \A k \in 1..Len(wire') : wire'[k] = [id |-> k, ok |-> reqType'[k] = "ping"]
        <4> SUFFICES ASSUME NEW k \in 1..Len(wire')
                     PROVE  wire'[k] = [id |-> k, ok |-> reqType[k] = "ping"]
          BY <2>1
        <4>1. CASE k = i
          BY <3>3, <4>1
        <4>2. CASE k \in 1..Len(wire)
          BY <3>3, <4>2 DEF PrefixInv
        <4>3. QED
          BY <3>2, <3>3, <4>1, <4>2 DEF ReqId
      <3>5. gs'[cur'] = "sending"
        BY <2>1, <3>2 DEF TypeOK
      <3>6. QED
        BY <2>1, <3>2, <3>3, <3>4, <3>5 DEF PrefixInv
    <2>4. QED
      BY <2>2, <2>3
  \* The goroutine waited for has written its reply.
  <1>6. CASE TakeResult
    BY <1>6 DEF TakeResult, PrefixInv
  \* ctx is done, so the transport is closed.
  <1>7. CASE ReplyAbort
    <2>1. ~connUp
      BY <1>7 DEF ReplyAbort, OrderInv
    <2>2. QED
      BY <1>7, <2>1 DEF ReplyAbort, PrefixInv
  <1>8. CASE UNCHANGED vars
    BY <1>8 DEF vars, PrefixInv
  <1>9. QED
    BY <1>1, <1>2, <1>3, <1>4, <1>5, <1>6, <1>7, <1>8 DEF Next

\* Every step of the request/reply path is a step of ReplyChannel or
\* leaves its variables alone.
LEMMA StepRefines ==
  ASSUME ~ParentCancel
  PROVE  TypeOK /\ OrderInv /\ PrefixInv /\ [Next]_vars => [RC!Next]_RC!rvars
  <1> SUFFICES ASSUME TypeOK, OrderInv, PrefixInv, [Next]_vars
               PROVE  [RC!Next]_RC!rvars
    OBVIOUS
  <1>1. CASE ClientSend
    BY <1>1 DEF ClientSend, RC!Next, RC!Send, ReqTypes, RC!ReqTypes, RC!rvars
  <1>2. CASE ConnClose
    BY <1>2 DEF ConnClose, RC!Next, RC!Close, RC!rvars
  <1>3. ASSUME NEW i \in ReqId, WriteReply(i)
        PROVE  [RC!Next]_RC!rvars
    <2>1. CASE ~connUp
      BY <1>3, <2>1 DEF WriteReply, RC!rvars
    <2>2. CASE connUp
      <3>1. gs[i] = "writing"
        BY <1>3 DEF WriteReply
      <3>2. i = taken /\ Len(wire) = i - 1
        BY <2>2, <3>1, WriterIsNext
      <3>3. Len(wire) < sent
        BY <3>2 DEF TypeOK, ReqId
      <3>4. wire' = Append(wire, RC!ReplyTo(Len(wire) + 1))
        BY <1>3, <2>2, <3>2 DEF WriteReply, RC!ReplyTo, TypeOK, ReqId
      <3>5. QED
        BY <1>3, <2>2, <3>3, <3>4 DEF WriteReply, RC!Next, RC!Answer
    <2>3. QED
      BY <2>1, <2>2
  <1>4. CASE WaitReturn \/ ServerCancel \/ Receive \/ ReceiveNil \/ LoopAbort
             \/ TakeResult \/ ReplyAbort \/ UNCHANGED vars
    BY <1>4 DEF WaitReturn, ServerCancel, Receive, ReceiveNil, LoopAbort,
                TakeResult, ReplyAbort, vars, RC!rvars
  <1>5. QED
    BY <1>1, <1>2, <1>3, <1>4 DEF Next

\* When the ctx given to Run is never cancelled, handleSSHRequests keeps
\* the promise of ReplyChannel: its replies are the replies to requests
\* 1, 2, ... in order, each with the ok of its request's type, and none is
\* written after the transport closed.
THEOREM ReplyRefinement ==
  ASSUME ~ParentCancel
  PROVE  Spec => ReplyChannelSafety
  <1>1. Init => TypeOK /\ OrderInv /\ PrefixInv
    BY InitTypeOK, InitOrderInv, InitPrefixInv
  <1>2. TypeOK /\ OrderInv /\ PrefixInv /\ [Next]_vars
          => (TypeOK /\ OrderInv /\ PrefixInv)'
    BY NextTypeOK, NextOrderInv, NextPrefixInv
  <1>3. Init => RC!Init
    BY DEF Init, RC!Init, ReqId, RC!ReqId
  <1>4. QED
    BY <1>1, <1>2, <1>3, StepRefines, PTL
       DEF Spec, ReplyChannelSafety, RC!SafetySpec

=============================================================================
