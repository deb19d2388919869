------------------------------- MODULE MCPacket -------------------------------
(* Instances of Packet for TLC. *)
EXTENDS Packet

\* An empty message, one that fits and one that is too long for base 3.
SomeSizes == {0, 2, 4}
===============================================================================
