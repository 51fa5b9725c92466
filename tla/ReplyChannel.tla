---------------------------- MODULE ReplyChannel ----------------------------
(***************************************************************************)
(* What the server promises a client on the global-request channel of an  *)
(* SSH connection (the contract golang.org/x/crypto/ssh relies on when it *)
(* pairs the replies with the client's outstanding want-reply requests):  *)
(* the replies written are for requests 1, 2, ... in order, one each, a   *)
(* ping answered true and anything else false, and nothing is written     *)
(* once the transport is closed.  While the transport is open every sent  *)
(* request is eventually answered.                                        *)
(***************************************************************************)
EXTENDS Naturals, Sequences

CONSTANTS MaxReqs

VARIABLES
  sent,     \* requests the client has sent
  reqType,  \* the type of each sent request
  wire,     \* the replies written to the transport, in order
  connUp    \* the transport is open

ReqId    == 1..MaxReqs
ReqTypes == {"ping", "other"}

\* The reply to request i.
ReplyTo(i) == [id |-> i, ok |-> reqType[i] = "ping"]

Init ==
  /\ sent = 0
  /\ reqType = [i \in ReqId |-> "ping"]
  /\ wire = << >>
  /\ connUp = TRUE

Send ==
  /\ connUp
  /\ sent < MaxReqs
  /\ \E t \in ReqTypes : reqType' = [reqType EXCEPT ![sent + 1] = t]
  /\ sent' = sent + 1
  /\ UNCHANGED <<wire, connUp>>

\* The server answers the oldest request it has not answered.
Answer ==
  /\ connUp
  /\ Len(wire) < sent
  /\ wire' = Append(wire, ReplyTo(Len(wire) + 1))
  /\ UNCHANGED <<sent, reqType, connUp>>

Close ==
  /\ connUp
  /\ connUp' = FALSE
  /\ UNCHANGED <<sent, reqType, wire>>

Next == Send \/ Answer \/ Close

rvars == <<sent, reqType, wire, connUp>>

SafetySpec == Init /\ [][Next]_rvars

Spec == SafetySpec /\ WF_rvars(Answer)

=============================================================================
