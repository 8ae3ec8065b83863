----------------------------- MODULE IpAddress ------------------------------
(***************************************************************************)
(* CIpAddress (src/IpAddress.cpp): a variant that is empty or holds an     *)
(* in_addr or an in6_addr.  The words of an address are its four octets or *)
(* its eight groups of two octets, most significant first.  A text is      *)
(* abstracted to what the constructor looks at: the number of its dots and *)
(* colons, and the address, if any, that inet_pton reads from it.          *)
(***************************************************************************)
EXTENDS Integers, Sequences, FiniteSetsExt

CONSTANT LittleEndian  \* the byte order of the machine

Family == {"INV", "INET", "INET6"}
Word == 0..65535
Address == [family : Family, words : Seq(Word)]
Empty == [family |-> "INV", words |-> <<>>]
V4(words) == [family |-> "INET", words |-> words]
V6(words) == [family |-> "INET6", words |-> words]

is_v4(a) == a.family = "INET"
is_v6(a) == a.family = "INET6"
empty(a) == a.family = "INV"

is_loopback(a) ==
    \/ is_v4(a) /\ a.words[1] = 127
    \/ is_v6(a) /\ a.words = <<0, 0, 0, 0, 0, 0, 0, 1>>

\* The first 32 bits of an in6_addr are compared with 0xffff as the machine
\* reads them.
is_submask(a) ==
    \/ is_v4(a) /\ a.words[1] = 255
    \/ is_v6(a) /\ SubSeq(a.words, 1, 2) = IF LittleEndian THEN <<65535, 0>> ELSE <<0, 65535>>

is_broadcast(a) == is_v4(a) /\ a.words[4] = 255

\* operator==: nothing equals an empty address, not even another one.
Equal(a, b) == a.family = b.family /\ ~empty(a) /\ a.words = b.words

\* An octet as the set of its bits' values, and back.
Place == {1, 2, 4, 8, 16, 32, 64, 128}
Bits(octet) == {p \in Place : (octet \div p) % 2 = 1}
Octet(bits) ==
    LET digit(p) == IF p \in bits THEN p ELSE 0
    IN  digit(1) + digit(2) + digit(4) + digit(8)
          + digit(16) + digit(32) + digit(64) + digit(128)

\* Variant: the host's bits are kept as they are.
broadcastXor(a, mask) ==
    IF is_v4(a) /\ is_v4(mask)
    THEN V4([i \in 1..4 |-> Octet(SymDiff(Bits(a.words[i]), Place \ Bits(mask.words[i])))])
    ELSE Empty

\* The address or'ed with the complement of the mask, for IPv4 only.
broadcast(a, mask) ==
    IF is_v4(a) /\ is_v4(mask)
    THEN V4([i \in 1..4 |-> Octet(Bits(a.words[i]) \cup (Place \ Bits(mask.words[i])))])
    ELSE Empty

-----------------------------------------------------------------------------
NoText == [dots |-> 0, colons |-> 0, means |-> Empty]

\* inet_ntop writes the last two groups of these IPv6 addresses like an IPv4
\* address.
EmbedsV4(w) ==
    /\ \A i \in 1..5 : w[i] = 0
    /\ w[6] = 65535 \/ (w[6] = 0 /\ w[7] # 0)

toString(a) ==
    IF empty(a) THEN NoText
    ELSE [dots |-> IF is_v4(a) \/ EmbedsV4(a.words) THEN 3 ELSE 0,
          colons |-> IF is_v4(a) THEN 0 ELSE 2,
          means |-> a]

\* Variant: three dots decide for IPv4.
ParsedByDots(text) ==
    IF text.dots = 3 /\ is_v6(text.means) THEN Empty ELSE text.means

\* CIpAddress(const std::string&), Empty for an exception: IPv4 if there are
\* three dots and inet_pton agrees, else IPv6 if there is a colon and it agrees.
Parsed(text) ==
    IF \/ text.dots = 3 /\ is_v4(text.means)
       \/ text.colons > 0 /\ is_v6(text.means)
    THEN text.means
    ELSE Empty
=============================================================================
