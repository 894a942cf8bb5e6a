---- MODULE MCOwnership ----
(* Instances of Ownership for TLC. *)
EXTENDS Ownership, TLC

\* Devices are interchangeable.
Symmetry == Permutations(Devices)
====
