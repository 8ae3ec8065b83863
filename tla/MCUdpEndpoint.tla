--------------------------- MODULE MCUdpEndpoint ----------------------------
(* UdpEndpoint for TLC: a server with two threads, two clients, and too few *)
(* descriptor numbers for a number to be used only once. *)
EXTENDS UdpEndpoint, TLC

CONSTANTS c1, c2, x1, x2

MCFd == 0..4
MCStd == 0..0
Symmetry == Permutations({c1, c2}) \cup Permutations({x1, x2})
=============================================================================
