--------------------------- MODULE MC_SessionCore ---------------------------
(***************************************************************************)
(* Small instances of SessionCore for TLC: one user "alice", one port and *)
(* two dial targets, so that a config can name an allowed and a denied    *)
(* route, and two sessions can contend for the same reverse port.         *)
(***************************************************************************)
EXTENDS SessionCore

CONSTANTS alice, pw1, pw2, p1, t1, t2

\* Skeleton descriptors: TCP to t1, TCP to t2, SOCKS, and a stub-role one
\* that a channel open must never be accepted with.
SkT1   == [role |-> "skeleton", type |-> "tcp",   path |-> t1]
SkT2   == [role |-> "skeleton", type |-> "tcp",   path |-> t2]
SkSock == [role |-> "skeleton", type |-> "socks", path |-> t1]
StubT1 == [role |-> "stub",     type |-> "tcp",   path |-> t1]

\* Routes: forward to t1, forward to t2, reverse from p1 to t1.
FwdT1 == [reverse |-> FALSE, port |-> p1, skel |-> SkT1]
FwdT2 == [reverse |-> FALSE, port |-> p1, skel |-> SkT2]
RevT1 == [reverse |-> TRUE,  port |-> p1, skel |-> SkT1]

\* alice may use the routes to t1 only; a replacement record allows all.
AliceT1  == [pass |-> pw1, addrs |-> {FwdT1, RevT1}]
AliceAll == [pass |-> pw1, addrs |-> {FwdT1, FwdT2, RevT1}]

MCProfiles == {AliceT1, AliceAll}
MCUsers    == [n \in {alice} |-> AliceT1]
MCNoUsers  == [n \in {alice} |-> NoUser]

\* Config payloads: one allowed forward route, one denied forward route,
\* and a reverse route behind a forward one.
MCConfigs == {<<FwdT1>>, <<FwdT2>>, <<FwdT1, RevT1>>}

MCDescriptors == {SkT1, SkT2, SkSock, StubT1}

\* For the stub runs: configs with a reverse route, and two descriptors.
MCStubConfigs     == {<<RevT1>>, <<FwdT1, RevT1>>}
MCStubDescriptors == {SkT1, StubT1}

\* For the stubs run: the administrator deletes alice and adds her back.
MCStubProfiles == {AliceT1}

=============================================================================
