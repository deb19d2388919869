------------------------------- MODULE MCWorker -------------------------------
(* Instances of Worker for TLC. *)
EXTENDS Worker

CONSTANTS p1, p2, r1, r2, s1, s2, t1, t2, t3

OnePoster == {p1}
TwoPosters == {p1, p2}
TwoRunners == {r1, r2}
OneStopper == {s1}
TwoStoppers == {s1, s2}
ThreeTasks == {t1, t2, t3}
OnePanics == {t2}
TwoPanic == {t1, t2}
TwoRepost == {t1, t3}
None == {}
===============================================================================
