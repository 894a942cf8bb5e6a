------------------------------ MODULE MCWakeUp ------------------------------
(* Instances of WakeUp for TLC. *)
EXTENDS WakeUp, TLC

CONSTANTS d1, d2, j1, j2, j3, j4, h1, h2, listener

Symmetry == Permutations(Devices) \cup Permutations(Jobs) \cup Permutations(Handlers)
=============================================================================
