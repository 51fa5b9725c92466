-------------------------- MODULE MC_LegacySession --------------------------
(***************************************************************************)
(* Small instances of LegacySession for TLC.  Besides the values of       *)
(* MC_SessionCore, a second port p2, so that a config can bind one         *)
(* reverse stub and then fail on a port another session holds.            *)
(***************************************************************************)
EXTENDS LegacySession, MC_SessionCore

CONSTANTS p2

\* A reverse route from p2 to t1.
RevP2 == [reverse |-> TRUE, port |-> p2, skel |-> SkT1]

\* alice may use the routes to t1 from either port.
AliceRev == [pass |-> pw1, addrs |-> {FwdT1, RevT1, RevP2}]

MCLegacyProfiles == {AliceRev}
MCLegacyUsers    == [n \in {alice} |-> AliceRev]

\* Two reverse routes, the second one alone, and a denied forward route.
MCLegacyConfigs == {<<RevT1, RevP2>>, <<RevP2>>, <<FwdT2>>}

=============================================================================
