-------------------------------- MODULE MCAgent --------------------------------
(* The instance of Agent for TLC. *)
EXTENDS Agent

CONSTANTS m1, m2, m3, r1, r2

ThreeMsgs == {m1, m2, m3}
TwoRunners == {r1, r2}
===============================================================================
