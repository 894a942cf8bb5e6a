--------------------------- MODULE MCRegistration ---------------------------
(* Instances of Registration for TLC: the permits of one node. *)
EXTENDS Registration, TLC

CONSTANTS d1, d2, a1, a6, n1, t1, t2

\* One node with every permit.
OneNode == [t \in Tasks |-> n1]

OneNodeSymmetry == Permutations(Devices) \cup Permutations(Tasks)
=============================================================================
