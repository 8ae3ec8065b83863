--------------------------- MODULE MCEchoSession ----------------------------
(* EchoSession for TLC: the sessions of all three examples. *)
EXTENDS EchoSession

CONSTANTS c1, c2

ClientValue == {c1, c2}
TransportValue == {"stream", "datagram"}
StreamOnly == {"stream"}

\* The TCP client's goodbye is an object too.
RequestsValue == [t \in TransportValue |-> IF t = "stream" THEN 1 ELSE 2]
RequestsStream == [t \in StreamOnly |-> 1]
=============================================================================
