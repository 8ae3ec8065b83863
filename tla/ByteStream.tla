----------------------------- MODULE ByteStream -----------------------------
(***************************************************************************)
(* What one direction of a CTcpDataLink promises: the bytes written at one *)
(* end come out at the other end in order, each at most once.  A receive   *)
(* call that reports an error may have taken bytes that no caller sees;    *)
(* from then on the reader's stream has a gap, and "gap" says so.          *)
(***************************************************************************)
EXTENDS Integers, Sequences

CONSTANT Byte

VARIABLES written,    \* all bytes the sending end has accepted
          taken,      \* how many of them the receiving end has used up
          delivered,  \* the bytes handed to the callers of recive
          gap         \* bytes were taken that were never handed over

vars == <<written, taken, delivered, gap>>

TypeOK ==
    /\ written \in Seq(Byte)
    /\ taken \in 0..Len(written)
    /\ delivered \in Seq(Byte)
    /\ gap \in BOOLEAN

Init ==
    /\ written = <<>>
    /\ taken = 0
    /\ delivered = <<>>
    /\ gap = FALSE

Write ==
    /\ written' \in Seq(Byte)
    /\ Len(written') >= Len(written)
    /\ SubSeq(written', 1, Len(written)) = written
    /\ UNCHANGED <<taken, delivered, gap>>

\* What a receive call returns is the next part of what was written.
Deliver ==
    /\ \E n \in taken..Len(written) :
        /\ taken' = n
        /\ delivered' = delivered \o SubSeq(written, taken + 1, n)
    /\ UNCHANGED <<written, gap>>

\* A receive call that throws: the bytes it had taken are gone.
Lose ==
    /\ \E n \in (taken + 1)..Len(written) : taken' = n
    /\ gap' = TRUE
    /\ UNCHANGED <<written, delivered>>

Next == Write \/ Deliver \/ Lose

Spec == Init /\ [][Next]_vars

-----------------------------------------------------------------------------
\* As long as no receive call has failed half way, the reader has seen exactly
\* the bytes taken so far, in the order they were written.
InOrder == ~gap => delivered = SubSeq(written, 1, taken)
=============================================================================
