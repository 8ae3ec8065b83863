--------------------------- MODULE MCTcpConnection --------------------------
(***************************************************************************)
(* An instance of TcpConnection: a server, clients and places for accepted *)
(* links that are interchangeable, and a small descriptor table.           *)
(***************************************************************************)
EXTENDS TcpConnection, TLC

MCFd  == 0..6
MCStd == 0..2

Symmetry == Permutations(Client) \cup Permutations(Place)
=============================================================================
