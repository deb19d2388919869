---------------------------- MODULE MCApplication ----------------------------
(* Instances of Application for TLC. *)
EXTENDS Application

CONSTANTS q1, q2, q3, c1, c2, r1, r2

None == {}
TwoReqs == {q1, q2}
ThreeReqs == {q1, q2, q3}
ThirdReq == {q3}
OneCaller == {c1}
TwoCallers == {c1, c2}
TwoRunners == {r1, r2}
===============================================================================
