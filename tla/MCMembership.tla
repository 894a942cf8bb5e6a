---------------------------- MODULE MCMembership ----------------------------
(* Instances of Membership for TLC. *)
EXTENDS Membership, TLC

CONSTANTS a, b, c

\* b joined through a, then c through a.
Seeds == (a :> {b, c}) @@ (b :> {a, c}) @@ (c :> {a})

\* Up to four lost heartbeats, which make a live node dead, or a stop.
LostOrStopped == ((0..4) \X {0}) \cup {<<0, 1>>}
=============================================================================
