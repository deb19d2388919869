----------------------------- MODULE MCRequester -----------------------------
(* Instances of Requester for TLC. *)
EXTENDS Requester

CONSTANTS c1, c2, c3, r1, r2

OneCall == {c1}
Second == {c2}
Third == {c3}
ThreeCalls == {c1, c2, c3}
TwoRunners == {r1, r2}
===============================================================================
