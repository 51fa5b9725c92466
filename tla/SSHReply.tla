------------------------------ MODULE SSHReply ------------------------------
(***************************************************************************)
(* The request/reply path of a serving session                            *)
(* (src/share/server_session.go): the handleSSHRequests loop, and         *)
(* sendSSHReply, which runs r.Reply in a goroutine that hands its result   *)
(* back over an unbuffered channel while the caller waits for the result   *)
(* or for ctx to be done.                                                 *)
(*                                                                         *)
(* The client sends global requests 1, 2, ... in order, and the SSH        *)
(* library delivers them in that order on sshRequests, so the queue is     *)
(* the two counters sent and taken.  The transport closing also closes     *)
(* sshRequests.  The session's ctx is done once runWithSSHConn returns    *)
(* (its Wait ends when the transport closes) or, if ParentCancel, when    *)
(* the server's own ctx is cancelled.                                     *)
(***************************************************************************)
EXTENDS Naturals, Sequences

CONSTANTS
  MaxReqs,      \* the number of global requests the client sends
  ParentCancel  \* whether the ctx given to Run may be cancelled

ASSUME ReplyAssumption ==
  /\ MaxReqs \in Nat
  /\ ParentCancel \in BOOLEAN

ReqId    == 1..MaxReqs
ReqTypes == {"ping", "other"}

\* The life of the goroutine that sendSSHReply starts for one request:
\* not started, in r.Reply, blocked on "result <- err", exited.
GoStates == {"none", "writing", "sending", "done"}

\* The handleSSHRequests goroutine: in its select, in sendSSHReply's
\* select, returned.
LoopStates == {"select", "replying", "returned"}

VARIABLES
  sent,      \* requests the client has sent
  taken,     \* requests handleSSHRequests has received
  reqType,   \* the type of each sent request
  gs,        \* the reply goroutine of each request
  loop,      \* where handleSSHRequests is
  cur,       \* the request whose reply sendSSHReply waits for
  wire,      \* the replies written to the transport, in order
  connUp,    \* the transport is open
  ctxDone    \* the session's ctx is done

vars == <<sent, taken, reqType, gs, loop, cur, wire, connUp, ctxDone>>

Reply == [id: ReqId, ok: BOOLEAN]

-----------------------------------------------------------------------------
Init ==
  /\ sent = 0
  /\ taken = 0
  /\ reqType = [i \in ReqId |-> "ping"]
  /\ gs = [i \in ReqId |-> "none"]
  /\ loop = "select"
  /\ cur = 0
  /\ wire = << >>
  /\ connUp = TRUE
  /\ ctxDone = FALSE

\* The client sends a global request with want-reply set.
ClientSend ==
  /\ connUp
  /\ sent < MaxReqs
  /\ \E t \in ReqTypes : reqType' = [reqType EXCEPT ![sent + 1] = t]
  /\ sent' = sent + 1
  /\ UNCHANGED <<taken, gs, loop, cur, wire, connUp, ctxDone>>

\* The transport fails or the client goes away; the SSH library closes
\* sshRequests.
ConnClose ==
  /\ connUp
  /\ connUp' = FALSE
  /\ UNCHANGED <<sent, taken, reqType, gs, loop, cur, wire, ctxDone>>

\* sshConn.Wait() returns and the deferred subCtxCancel() runs.
WaitReturn ==
  /\ ~connUp
  /\ ~ctxDone
  /\ ctxDone' = TRUE
  /\ UNCHANGED <<sent, taken, reqType, gs, loop, cur, wire, connUp>>

\* The server's ctx, the parent of subCtx, is cancelled.
ServerCancel ==
  /\ ParentCancel
  /\ ~ctxDone
  /\ ctxDone' = TRUE
  /\ UNCHANGED <<sent, taken, reqType, gs, loop, cur, wire, connUp>>

\* Mutant of Receive: sendSSHReply does not wait for the result of its
\* goroutine before the loop takes the next request.
ReceiveNoWait ==
  /\ loop = "select"
  /\ taken < sent
  /\ taken' = taken + 1
  /\ gs' = [gs EXCEPT ![taken + 1] = "writing"]
  /\ cur' = taken + 1
  /\ UNCHANGED <<sent, reqType, loop, wire, connUp, ctxDone>>

\* Mutant of Receive: the default case of the switch sends no reply.
ReceivePingOnly ==
  /\ loop = "select"
  /\ taken < sent
  /\ taken' = taken + 1
  /\ IF reqType[taken + 1] = "ping"
       THEN /\ gs' = [gs EXCEPT ![taken + 1] = "writing"]
            /\ loop' = "replying"
            /\ cur' = taken + 1
       ELSE UNCHANGED <<gs, loop, cur>>
  /\ UNCHANGED <<sent, reqType, wire, connUp, ctxDone>>

\* The select of handleSSHRequests receives a request: a ping is answered
\* with sendSSHReply(ctx, req, true, nil), anything else with
\* sendSSHErrorReply, which calls sendSSHReply(ctx, req, false, ...).
\* Either starts the reply goroutine and waits in sendSSHReply's select.
Receive ==
  /\ loop = "select"
  /\ taken < sent
  /\ taken' = taken + 1
  /\ gs' = [gs EXCEPT ![taken + 1] = "writing"]
  /\ loop' = "replying"
  /\ cur' = taken + 1
  /\ UNCHANGED <<sent, reqType, wire, connUp, ctxDone>>

\* sshRequests is closed and drained: req == nil, the loop returns.
ReceiveNil ==
  /\ loop = "select"
  /\ taken = sent
  /\ ~connUp
  /\ loop' = "returned"
  /\ UNCHANGED <<sent, taken, reqType, gs, cur, wire, connUp, ctxDone>>

\* The ctx.Done() case of the loop's select.
LoopAbort ==
  /\ loop = "select"
  /\ ctxDone
  /\ loop' = "returned"
  /\ UNCHANGED <<sent, taken, reqType, gs, cur, wire, connUp, ctxDone>>

\* The reply goroutine's r.Reply(ok, payload): the reply reaches the wire
\* while the transport is open and fails once it is closed; either way
\* the goroutine goes on to "result <- err".
WriteReply(i) ==
  /\ gs[i] = "writing"
  /\ wire' = IF connUp THEN Append(wire, [id |-> i, ok |-> reqType[i] = "ping"])
                       ELSE wire
  /\ gs' = [gs EXCEPT ![i] = "sending"]
  /\ UNCHANGED <<sent, taken, reqType, loop, cur, connUp, ctxDone>>

\* The rendezvous on the unbuffered result channel: sendSSHReply's select
\* takes "err = <-result", the goroutine closes result and exits.
TakeResult ==
  /\ loop = "replying"
  /\ gs[cur] = "sending"
  /\ gs' = [gs EXCEPT ![cur] = "done"]
  /\ loop' = "select"
  /\ UNCHANGED <<sent, taken, reqType, cur, wire, connUp, ctxDone>>

\* sendSSHReply's select takes "<-ctx.Done()" and returns ctx.Err();
\* handleSSHRequests logs it and loops.  The goroutine is left behind.
ReplyAbort ==
  /\ loop = "replying"
  /\ ctxDone
  /\ loop' = "select"
  /\ UNCHANGED <<sent, taken, reqType, gs, cur, wire, connUp, ctxDone>>

-----------------------------------------------------------------------------
Next ==
  \/ ClientSend
  \/ ConnClose
  \/ WaitReturn
  \/ ServerCancel
  \/ Receive
  \/ ReceiveNil
  \/ LoopAbort
  \/ \E i \in ReqId : WriteReply(i)
  \/ TakeResult
  \/ ReplyAbort

\* Every goroutine the Go scheduler can run eventually runs: the loop
\* (whose selects Go resolves among the ready cases), each reply goroutine,
\* and runWithSSHConn returning once Wait does.  The client, the network
\* and the server's ctx are the environment and get no fairness.
Fairness ==
  /\ WF_vars(Receive \/ ReceiveNil \/ LoopAbort \/ TakeResult \/ ReplyAbort)
  /\ \A i \in ReqId : WF_vars(WriteReply(i))
  /\ WF_vars(WaitReturn)

Spec == Init /\ [][Next]_vars /\ Fairness

-----------------------------------------------------------------------------
TypeOK ==
  /\ sent \in 0..MaxReqs
  /\ taken \in 0..sent
  /\ reqType \in [ReqId -> ReqTypes]
  /\ gs \in [ReqId -> GoStates]
  /\ loop \in LoopStates
  /\ cur \in 0..taken
  /\ wire \in Seq(Reply)
  /\ connUp \in BOOLEAN
  /\ ctxDone \in BOOLEAN

\* The client's SSH library pairs global replies with its requests in
\* order, so the server must write the replies in the order it received
\* the requests: a reply written later is for a later request.
RepliesInOrder ==
  \A k, l \in 1..Len(wire) : k < l => wire[k].id < wire[l].id

\* Every request handleSSHRequests takes, ping or not, gets its reply
\* written, unless the transport closes first.
RequestAnswered ==
  \A i \in ReqId :
    i <= taken ~> (\E k \in 1..Len(wire) : wire[k].id = i) \/ ~connUp

\* The strengthening of RepliesInOrder that is inductive when the parent
\* ctx is never cancelled: every reply on the wire is for a request
\* already taken, a goroutine still in r.Reply is for a request later than
\* every reply on the wire, a goroutine exists exactly for the taken
\* requests, sendSSHReply waits for a taken request, and while the session lives the only goroutine in r.Reply is
\* the one sendSSHReply waits for, because ctx is done only once the
\* transport is closed.
OrderInv ==
  /\ RepliesInOrder
  /\ \A k \in 1..Len(wire) : wire[k].id <= taken
  /\ \A i \in ReqId : gs[i] = "writing" => \A k \in 1..Len(wire) : wire[k].id < i
  /\ \A i \in ReqId : gs[i] # "none" <=> i <= taken
  /\ loop = "replying" => cur \in 1..taken
  /\ connUp /\ ~ctxDone =>
       \A i \in ReqId : gs[i] = "writing" => loop = "replying" /\ cur = i
  /\ ~ParentCancel => (ctxDone => ~connUp)

\* What makes the refinement of ReplyChannel inductive, with OrderInv:
\* the wire holds the replies to 1..Len(wire), sendSSHReply waits for the
\* last request taken, and while the transport is open every taken
\* request but the one whose goroutine is still in r.Reply is answered.
PrefixInv ==
  /\ \A k \in 1..Len(wire) : wire[k] = [id |-> k, ok |-> reqType[k] = "ping"]
  /\ Len(wire) <= taken
  /\ loop = "replying" => cur = taken
  /\ connUp /\ loop = "select" => Len(wire) = taken
  /\ connUp /\ loop = "replying" =>
       Len(wire) = IF gs[cur] = "writing" THEN taken - 1 ELSE taken

\* The comment of sendSSHReply: a goroutine left behind by a cancelled
\* ctx leaks only "until the ssh.ServerConn is closed".
ReplyGoroutinesEnd ==
  ~connUp ~> \A i \in ReqId : gs[i] \in {"none", "done"}

-----------------------------------------------------------------------------
(* The request/reply path implements the promise of module ReplyChannel;  *)
(* the goroutines, the loop and the ctx are hidden.                       *)

RC == INSTANCE ReplyChannel

\* When the ctx given to Run is never cancelled, the replies written are
\* exactly the replies to requests 1, 2, ... in order, each true for a
\* ping and false otherwise, none after the transport closed, and while it
\* is open every request the client sent is answered.
ReplyChannelSpec == RC!Spec

\* The safety part of ReplyChannelSpec.
ReplyChannelSafety == RC!SafetySpec

=============================================================================
