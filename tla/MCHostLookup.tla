---------------------------- MODULE MCHostLookup ----------------------------
(***************************************************************************)
(* Two names and three addresses, of which two are of one family and the   *)
(* third is an IPv6 address that is written with three dots.               *)
(***************************************************************************)
EXTENDS HostLookup, TLC

Four1 == V4(<<192, 168, 1, 255>>)
Four2 == V4(<<192, 168, 1, 7>>)
Six   == V6(<<0, 0, 0, 0, 0, 65535, 49320, 263>>)
MCKnown  == {Four1, Four2, Six}
MCAnswer == {<<>>, <<Four1>>, <<Six>>, <<Four2, Four1>>, <<Six, Four1>>}
Symmetry == Permutations(Name)
=============================================================================
