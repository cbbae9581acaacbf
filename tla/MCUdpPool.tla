----------------------------- MODULE MCUdpPool -----------------------------
(* UdpPool for TLC: symmetric callers. *)
EXTENDS UdpPool, TLC

Symmetry == Permutations(Query)
=============================================================================
