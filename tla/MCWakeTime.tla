----------------------------- MODULE MCWakeTime -----------------------------
(* Instances of WakeTime for TLC: clock readings around every hour change. *)
EXTENDS WakeTime

\* The first, a middle and the last second of every hour of the first day.
HourEdges == {h * 3600 + s : h \in 0 .. 23, s \in {0, 1800, 3599}}

\* Midnight, the last minute before it, and noon.
Midnight == {0, 12 * 3600, 86399}
=============================================================================
