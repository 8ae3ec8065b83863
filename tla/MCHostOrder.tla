---------------------------- MODULE MCHostOrder -----------------------------
(***************************************************************************)
(* An instance of HostOrder: a class with a number of four bytes, an array *)
(* of two numbers of two bytes, and a member it does not register.         *)
(***************************************************************************)
EXTENDS HostOrder, TLC

MCByte  == {1, 2}
MCValue == {<< <<<<a, b, 3, 4>>>>, <<<<1, 2>>, <<c, 3>>>>, <<<<2>>>> >> : a, b, c \in MCByte}
MCRegistered == {1, 2}
Symmetry == Permutations(Object)
=============================================================================
