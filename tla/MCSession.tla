------------------------------ MODULE MCSession -----------------------------
(* Session with the timeouts of the code, in ticks of two seconds. *)
EXTENDS Session

AnId == [i \in 1..16 |-> i]
NoAddrs == {}
NoTexts == <<>>
SomeTime == <<0, 0, 0, 0, 104, 200, 0, 128>>
=============================================================================
