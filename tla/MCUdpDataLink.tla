---------------------------- MODULE MCUdpDataLink ---------------------------
(***************************************************************************)
(* Instances of UdpDataLink: the constants are given in the configurations;*)
(* peers are interchangeable, and so are the links of one server.          *)
(***************************************************************************)
EXTENDS UdpDataLink, TLC

Symmetry == Permutations(Peer) \cup Permutations(Link)
=============================================================================
