-------------------------- MODULE MCVolumeSessions --------------------------
EXTENDS VolumeSessions, TLC

CONSTANTS u1, u2, d1, d2, n1, n2, p1, p2

\* every device has its own name: what the programs choose without -m
OwnName == [d \in Devices |-> IF d = d1 THEN {n1} ELSE {n2}]
\* every name can be given to every device with -m
AnyName == [d \in Devices |-> Names]
UsersAlike == Permutations(Users)
ProcsAlike == Permutations(Procs)
DevicesAlike == ProcsAlike \cup Permutations(Devices)
SameUid == {<<u, u>> : u \in Users}
=============================================================================
