------------------------------ MODULE MCForward ------------------------------
(* Instances of Forward for TLC. *)
EXTENDS Forward, TLC

CONSTANTS p1, p2, n1, n2, n3, s1, s2, login, play, gate, game

TwoProcesses == {p1, p2}
ThreeNodes == {n1, n2, n3}
\* A gate and a second node in one process, as in cmd/all-in-one, and a third
\* in another; the second and third are gates or game servers.
Together == (n1 :> p1) @@ (n2 :> p1) @@ (n3 :> p2)
Roles == (n1 :> {gate}) @@ (n2 :> {gate, game}) @@ (n3 :> {gate, game})
TwoTypes == {gate, game}
TwoKinds == {login, play}
Routes == (login :> gate) @@ (play :> game)
TwoSessions == {s1, s2}
FirstGate == [s \in TwoSessions |-> n1]
===============================================================================
