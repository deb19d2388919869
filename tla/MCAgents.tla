------------------------------- MODULE MCAgents -------------------------------
(* Instances of Agents for TLC. *)
EXTENDS Agents, TLC

CONSTANTS sa, sb, sc, sd, ua, ub, uc

FourSids == {sa, sb, sc, sd}
ThreeUids == {ua, ub, uc}
TwoSids == {sa, sb}
OneUid == {ua}

Sym == Permutations({sa, sb, sc, sd}) \cup Permutations({ua, ub, uc})
===============================================================================
