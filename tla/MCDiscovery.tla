----------------------------- MODULE MCDiscovery -----------------------------
(* Instances of Discovery for TLC. *)
EXTENDS Discovery

CONSTANTS n1, n2, gate, auth

TwoNodes == {n1, n2}
FirstNode == {n1}
TwoTypes == {gate, auth}
===============================================================================
