---------------------------- MODULE MCTcpDataLink ---------------------------
(***************************************************************************)
(* Instances of TcpDataLink.  Thread "a" sends messages of two bytes of    *)
(* which the second is an end byte, thread "b" sends messages of three     *)
(* bytes of which the last is one; no byte occurs twice in a message and   *)
(* the threads' bytes differ, so that any reordering shows.                *)
(***************************************************************************)
EXTENDS TcpDataLink

MCByte == {"a1", "a2", "b1", "b2", "b3"}
MCEndByte == {"a2", "b3"}

TwoSenders == [a |-> {<<"a1", "a2">>}, b |-> {<<"b1", "b2", "b3">>}]
OneSender  == [a |-> {<<"a1", "a2">>, <<"b1", "b2", "b3">>}]
OneObject  == [a |-> {<<"a1", "a2">>}]
=============================================================================
