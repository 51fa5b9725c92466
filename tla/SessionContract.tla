--------------------------- MODULE SessionContract ---------------------------
(***************************************************************************)
(* What a chisel server session promises about its config and the ports   *)
(* its reverse stubs hold, with the handshake, the goroutines, the         *)
(* channels and the user index hidden.  A session is pending until it     *)
(* decides on the config the client offered: it either refuses it and     *)
(* ends, or accepts it, which it may only do for a config without reverse *)
(* routes on a server without --reverse.  An accepted session binds the   *)
(* ports of its reverse routes, one at a time, each only while no session *)
(* holds it, and acks the config only once it holds all of them.  A       *)
(* session may end at any point; the ports of an ended session are        *)
(* released, and eventually so.  The server may shut down (its ctx is     *)
(* cancelled) at any point: from then on the ports of every session may   *)
(* be released, ended or not, and a session may ack without them.         *)
(***************************************************************************)
EXTENDS Naturals, Sequences

CONSTANTS
  Conn,       \* sessions
  Port,       \* ports a reverse stub may bind
  Offers,     \* the route lists a client's config may decode to
  ReverseOk,  \* server flag --reverse
  NoConn      \* an unbound port

VARIABLES
  stage,  \* session -> "pending", "binding", "serving" or "done"
  grant,  \* session -> the route list it decided on
  owner,  \* port -> the session whose stub holds it, or NoConn
  down    \* the server has shut down

cvars == <<stage, grant, owner, down>>

\* The reverse ports of a route list.
ReversePorts(g) == {g[i].port : i \in {j \in 1..Len(g) : g[j].reverse}}

Init ==
  /\ stage = [c \in Conn |-> "pending"]
  /\ grant = [c \in Conn |-> << >>]
  /\ owner = [p \in Port |-> NoConn]
  /\ down = FALSE

\* The session decides on the offered config g: accepted, it binds next;
\* refused, it ends.
Decide(c) ==
  /\ stage[c] = "pending"
  /\ \E g \in Offers :
       /\ grant' = [grant EXCEPT ![c] = g]
       /\ \/ /\ ReversePorts(g) # {} => ReverseOk
             /\ stage' = [stage EXCEPT ![c] = "binding"]
          \/ stage' = [stage EXCEPT ![c] = "done"]
  /\ UNCHANGED <<owner, down>>

\* The session binds a free port of one of its reverse routes.
Bind(c, p) ==
  /\ stage[c] = "binding"
  /\ p \in ReversePorts(grant[c])
  /\ owner[p] = NoConn
  /\ owner' = [owner EXCEPT ![p] = c]
  /\ UNCHANGED <<stage, grant, down>>

\* The session acks its config, holding every port of its reverse routes
\* unless the server has shut down.
Serve(c) ==
  /\ stage[c] = "binding"
  /\ down \/ \A p \in ReversePorts(grant[c]) : owner[p] = c
  /\ stage' = [stage EXCEPT ![c] = "serving"]
  /\ UNCHANGED <<grant, owner, down>>

\* The session ends, whatever stage it is in.
End(c) ==
  /\ stage[c] # "done"
  /\ stage' = [stage EXCEPT ![c] = "done"]
  /\ UNCHANGED <<grant, owner, down>>

\* A port held by an ended session, or by any session once the server has
\* shut down, is released.
Release(p) ==
  /\ owner[p] # NoConn
  /\ stage[owner[p]] = "done" \/ down
  /\ owner' = [owner EXCEPT ![p] = NoConn]
  /\ UNCHANGED <<stage, grant, down>>

\* The server shuts down.
Shutdown ==
  /\ ~down
  /\ down' = TRUE
  /\ UNCHANGED <<stage, grant, owner>>

Next ==
  \/ \E c \in Conn : Decide(c) \/ Serve(c) \/ End(c)
  \/ \E c \in Conn, p \in Port : Bind(c, p)
  \/ \E p \in Port : Release(p)
  \/ Shutdown

SafetySpec == Init /\ [][Next]_cvars

Spec == SafetySpec /\ \A p \in Port : WF_cvars(Release(p))

=============================================================================
