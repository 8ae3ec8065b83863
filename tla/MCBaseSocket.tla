---------------------------- MODULE MCBaseSocket ----------------------------
(***************************************************************************)
(* Objects, a few descriptor numbers above the standard ones, in one       *)
(* configuration down to 0, and files enough to reuse the numbers.  The    *)
(* objects are interchangeable.                                            *)
(***************************************************************************)
EXTENDS BaseSocket, TLC

ObjectSymmetry == Permutations(Socket)
=============================================================================
