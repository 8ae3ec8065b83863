-------------------------- MODULE TcpDataLinkProofs -------------------------
(***************************************************************************)
(* The theorems about CTcpDataLink, for any set of sending threads and of  *)
(* messages, any buffer and span sizes and any callback.                   *)
(*                                                                         *)
(* The invariant that carries them locates every byte: those in the buffer *)
(* directly follow the ones ::recv has returned (Conservation), and those  *)
(* the present call of recive has read are the last of them (CallHolds).   *)
(* StreamOrder alone says nothing of the buffer, and so is not inductive.  *)
(* For the order of each sender a second one locates its bytes in what was *)
(* sent (PartsKept).  ReceivedInOrder goes through the abstract stream:    *)
(* that it is in order (StreamInOrder) is a lemma about ByteStream.        *)
(***************************************************************************)
EXTENDS TcpDataLink, SequenceTheorems, FiniteSetTheorems, TLAPS

\* What the present call of recive has read are the last bytes taken.
CallHolds ==
    /\ rpc = "select" => rx = <<>>
    /\ rpc = "recv" => /\ Len(rx) <= taken
                       /\ rx = SubSeq(sent, taken - Len(rx) + 1, taken)

Located == TypeOK /\ Conservation /\ CallHolds

-----------------------------------------------------------------------------
\* A part of a sequence over S, with its length.
LEMMA PartOfSeq ==
  ASSUME NEW S, NEW q \in Seq(S), NEW m \in 1..(Len(q) + 1), NEW n \in 0..Len(q),
         m <= n + 1
  PROVE  /\ SubSeq(q, m, n) \in Seq(S)
         /\ Len(SubSeq(q, m, n)) = n + 1 - m
<1>1. Len(q) \in Nat
  OBVIOUS
<1>2. \A i \in m..n : q[i] \in S
  BY <1>1, ElementOfSeq
<1>3. m \in Int /\ n \in Int
  BY <1>1
<1> QED
  BY <1>1, <1>2, <1>3, SubSeqProperties

\* The sequences over a set contain the empty one.
LEMMA EmptyIsSeq == \A S : <<>> \in Seq(S) /\ Len(<<>>) = 0
  BY EmptySeq

\* Appending a sequence over S to another.
LEMMA ConcatType ==
  ASSUME NEW S, NEW p \in Seq(S), NEW q \in Seq(S)
  PROVE  /\ p \o q \in Seq(S)
         /\ Len(p \o q) = Len(p) + Len(q)
  BY ConcatProperties

\* The length of a sequence.
LEMMA LenIsNat == \A S : \A q \in Seq(S) : Len(q) \in Nat
  OBVIOUS

\* The initial state has the types.
LEMMA InitType == Init => TypeOK
<1> SUFFICES ASSUME Init PROVE TypeOK
  OBVIOUS
<1>1. <<>> \in Seq(Byte) /\ Len(<<>>) = 0
  BY EmptyIsSeq
<1>2. SenderTypeOK
  BY <1>1 DEF Init, Raised, SenderTypeOK
<1>3. KernelTypeOK
  BY <1>1, BoundAssumption DEF Init, KernelTypeOK
<1>4. gap \in BOOLEAN
  BY DEF Init
<1>5. ReceiverTypeOK
  BY <1>1, <1>4, BoundAssumption DEF Init, Raised, ReceiverTypeOK
<1> QED
  BY <1>2, <1>3, <1>5 DEF TypeOK

-----------------------------------------------------------------------------
(* What the steps do to the types *)

\* What one ::send adds is a part of the span.
LEMMA PutFacts ==
  ASSUME TypeOK, NEW s \in Sender, Put(s)
  PROVE  \E chunk \in Seq(Byte) :
            /\ Len(chunk) \in Nat \ {0}
            /\ Len(wire) + Len(chunk) <= BufferSize
            /\ wire' = wire \o chunk
            /\ sent' = sent \o chunk
<1>1. PICK n \in 1..(Len(tx[s]) - dataWritten[s]) :
         LET chunk == SubSeq(tx[s], dataWritten[s] + 1, dataWritten[s] + n)
         IN  /\ Len(wire) + n <= BufferSize
             /\ wire' = wire \o chunk
             /\ sent' = sent \o chunk
  BY DEF Put
<1>2. tx[s] \in Seq(Byte) /\ Len(tx[s]) \in Nat /\ dataWritten[s] \in Nat
  BY LenIsNat DEF TypeOK, SenderTypeOK
<1>3. n \in Nat \ {0} /\ dataWritten[s] + n <= Len(tx[s])
  BY <1>2
<1> DEFINE chunk == SubSeq(tx[s], dataWritten[s] + 1, dataWritten[s] + n)
<1>4. chunk \in Seq(Byte) /\ Len(chunk) = n
  <2>1. /\ dataWritten[s] + 1 \in 1..(Len(tx[s]) + 1)
        /\ dataWritten[s] + n \in 0..Len(tx[s])
        /\ dataWritten[s] + 1 <= dataWritten[s] + n + 1
        /\ (dataWritten[s] + n) + 1 - (dataWritten[s] + 1) = n
    BY <1>2, <1>3
  <2> QED
    BY <1>2, <2>1, PartOfSeq
<1>5. Len(wire) + n <= BufferSize /\ wire' = wire \o chunk /\ sent' = sent \o chunk
  BY <1>1
<1> HIDE DEF chunk
<1> QED
  BY <1>3, <1>4, <1>5

\* What a thread has written is a sequence of bytes.
LEMMA WrittenType == ASSUME SenderTypeOK, NEW s \in Sender PROVE Written(s) \in Seq(Byte)
<1>1. /\ tx[s] \in Seq(Byte) /\ Len(tx[s]) \in Nat
      /\ dataWritten[s] \in 0..Len(tx[s]) /\ done[s] \in Seq(Byte)
  BY LenIsNat DEF SenderTypeOK
<1>2. SubSeq(tx[s], 1, dataWritten[s]) \in Seq(Byte)
  <2>1. 1 \in 1..(Len(tx[s]) + 1) /\ 1 <= dataWritten[s] + 1
    BY <1>1
  <2> QED
    BY <1>1, <2>1, PartOfSeq
<1>3. <<>> \in Seq(Byte)
  BY EmptyIsSeq
<1> QED
  BY <1>1, <1>2, <1>3, ConcatType DEF Written

\* The sending threads keep their types.
LEMMA SenderType == TypeOK /\ [Next]_vars => SenderTypeOK'
<1> SUFFICES ASSUME TypeOK, [Next]_vars PROVE SenderTypeOK'
  OBVIOUS
<1> USE DEF Raised
<1>1. ASSUME NEW s \in Sender, Send(s) PROVE SenderTypeOK'
  <2>1. PICK m \in Message[s] : tx' = [tx EXCEPT ![s] = m]
    BY <1>1 DEF Send
  <2>2. m \in Seq(Byte) /\ Len(m) \in Nat
    BY <2>1, MessageAssumption, LenIsNat
  <2>3. tx' \in [Sender -> Seq(Byte)]
    BY <2>1, <2>2 DEF TypeOK, SenderTypeOK
  <2>4. \A t \in Sender : dataWritten'[t] <= Len(tx'[t])
    BY <1>1, <2>1, <2>2 DEF Send, TypeOK, SenderTypeOK
  <2> QED
    BY <1>1, <2>3, <2>4 DEF Send, TypeOK, SenderTypeOK
<1>2. ASSUME NEW s \in Sender, NEW n \in Nat, TypeOK,
             dataWritten[s] + n <= Len(tx[s]),
             tx' = tx,
             dataWritten' = [dataWritten EXCEPT ![s] = @ + n],
             SendReturns(s, "OK") \/ UNCHANGED <<spc, sret>>,
             done' = [done EXCEPT ![s] = @ \o tx[s]] \/ done' = done
      PROVE  SenderTypeOK'
  <2>1. done' \in [Sender -> Seq(Byte)]
    <3>1. done[s] \o tx[s] \in Seq(Byte)
      BY ConcatType DEF TypeOK, SenderTypeOK
    <3> QED
      BY <1>2, <3>1 DEF TypeOK, SenderTypeOK
  <2>2. \A t \in Sender : dataWritten'[t] <= Len(tx'[t])
    BY <1>2 DEF TypeOK, SenderTypeOK
  <2>3. /\ spc' \in [Sender -> {"idle", "sending", "killed"}]
        /\ sret' \in [Sender -> {"none", "OK"} \cup Raised]
    BY <1>2 DEF TypeOK, SenderTypeOK, SendReturns
  <2>4. dataWritten' \in [Sender -> Nat] /\ tx' \in [Sender -> Seq(Byte)]
    BY <1>2 DEF TypeOK, SenderTypeOK
  <2> QED
    BY <2>1, <2>2, <2>3, <2>4 DEF SenderTypeOK
<1>3. ASSUME NEW s \in Sender, Put(s) PROVE SenderTypeOK'
  <2>1. PICK n \in 1..(Len(tx[s]) - dataWritten[s]) :
          /\ dataWritten' = [dataWritten EXCEPT ![s] = @ + n]
          /\ SendReturns(s, "OK") \/ UNCHANGED <<spc, sret>>
          /\ done' = [done EXCEPT ![s] = @ \o tx[s]] \/ done' = done
    BY <1>3 DEF Put
  <2>2. dataWritten[s] \in Nat /\ Len(tx[s]) \in Nat
    BY LenIsNat DEF TypeOK, SenderTypeOK
  <2>3. n \in Nat /\ dataWritten[s] + n <= Len(tx[s])
    BY <2>2
  <2>4. tx' = tx
    BY <1>3 DEF Put
  <2> QED
    BY <1>2, <2>1, <2>3, <2>4
<1>4. ASSUME NEW s \in Sender, NEW error, SendThrows(s, error),
             UNCHANGED <<tx, dataWritten>>
      PROVE  SenderTypeOK'
  <2>2. Written(s) \in Seq(Byte)
    BY WrittenType DEF TypeOK
  <2>3. done' \in [Sender -> Seq(Byte)]
    BY <1>4, <2>2 DEF SendThrows, TypeOK, SenderTypeOK
  <2>4. SendRaises(error) \in Raised
    BY DEF SendRaises
  <2> QED
    BY <1>4, <2>3, <2>4 DEF SendThrows, SendReturns, TypeOK, SenderTypeOK
<1>5. ASSUME NEW s \in Sender, SendBroken(s) PROVE SenderTypeOK'
  <2>1. PICK error \in {"ECONNRESET", "EPIPE"} :
          \/ /\ spc' = [t \in Sender |-> "killed"]
             /\ done' = [t \in Sender |-> Written(t)] /\ sret' = sret
          \/ SendThrows(s, error)
    BY <1>5 DEF SendBroken
  <2>2. CASE SendThrows(s, error)
    BY <1>4, <1>5, <2>2 DEF SendBroken
  <2>3. CASE /\ spc' = [t \in Sender |-> "killed"]
             /\ done' = [t \in Sender |-> Written(t)] /\ sret' = sret
    <3>1. done' \in [Sender -> Seq(Byte)]
      BY <2>3, WrittenType DEF TypeOK
    <3> QED
      BY <1>5, <2>3, <3>1 DEF SendBroken, TypeOK, SenderTypeOK
  <2> QED
    BY <2>1, <2>2, <2>3
<1>6. ASSUME NEW s \in Sender, SendFails(s) PROVE SenderTypeOK'
  BY <1>4, <1>6 DEF SendFails
<1>7. CASE UNCHANGED senderVars
  BY <1>7 DEF senderVars, TypeOK, SenderTypeOK
<1>8. \/ UNCHANGED senderVars
      \/ \E s \in Sender : Send(s) \/ Put(s) \/ SendBroken(s) \/ SendFails(s)
  BY DEF vars, Next, SendStep, ReciveStep, SendInterrupted, SenderDestroyed, Reset,
         Recive, SelectUnblock, SelectReady, Recv, RecvInterrupted, RecvEnd,
         RecvFails, unblockRecive, ReceiverDestroyed
<1> QED
  BY <1>1, <1>3, <1>5, <1>6, <1>7, <1>8

\* The buffer, the connection and the history of what was sent keep theirs.
LEMMA KernelType == TypeOK /\ [Next]_vars => KernelTypeOK'
<1> SUFFICES ASSUME TypeOK, [Next]_vars PROVE KernelTypeOK'
  OBVIOUS
<1> USE BoundAssumption
<1>1. ASSUME NEW s \in Sender, Put(s) PROVE KernelTypeOK'
  <2>1. PICK chunk \in Seq(Byte) :
          /\ Len(wire) + Len(chunk) <= BufferSize
          /\ wire' = wire \o chunk
          /\ sent' = sent \o chunk
    BY <1>1, PutFacts
  <2>2. wire' \in Seq(Byte) /\ Len(wire') <= BufferSize /\ sent' \in Seq(Byte)
    BY <2>1, ConcatType DEF TypeOK, KernelTypeOK
  <2> QED
    BY <1>1, <2>2 DEF Put, TypeOK, KernelTypeOK
<1>2. ASSUME NEW i \in 1..(Len(wire) + 1), NEW j \in 0..Len(wire), i <= j + 1,
             wire' = SubSeq(wire, i, j)
      PROVE  wire' \in Seq(Byte) /\ Len(wire') <= BufferSize
  <2>1. wire \in Seq(Byte) /\ Len(wire) \in Nat /\ Len(wire) <= BufferSize
    BY LenIsNat DEF TypeOK, KernelTypeOK
  <2>2. wire' \in Seq(Byte) /\ Len(wire') = j + 1 - i
    BY <1>2, <2>1, PartOfSeq
  <2> QED
    BY <1>2, <2>1, <2>2
<1>3. Len(wire) \in Nat
  BY LenIsNat DEF TypeOK, KernelTypeOK
<1>4. CASE Reset
  <2>1. PICK n \in 0..Len(wire) : wire' = SubSeq(wire, 1, n)
    BY <1>4 DEF Reset
  <2>2. 1 \in 1..(Len(wire) + 1) /\ 1 <= n + 1
    BY <1>3
  <2>3. wire' \in Seq(Byte) /\ Len(wire') <= BufferSize
    BY <1>2, <2>1, <2>2
  <2> QED
    BY <1>4, <2>3 DEF Reset, TypeOK, KernelTypeOK
<1>5. CASE Recv
  <2>1. PICK n \in 1..(size - Len(rx)) :
          n <= Len(wire) /\ wire' = SubSeq(wire, n + 1, Len(wire))
    BY <1>5 DEF Recv
  <2>2. n \in Nat /\ 1 <= n
    BY LenIsNat DEF TypeOK, ReceiverTypeOK
  <2>3. n + 1 \in 1..(Len(wire) + 1) /\ Len(wire) \in 0..Len(wire) /\ n + 1 <= Len(wire) + 1
    BY <1>3, <2>1, <2>2
  <2>4. wire' \in Seq(Byte) /\ Len(wire') <= BufferSize
    BY <1>2, <2>1, <2>3
  <2> QED
    BY <1>5, <2>4 DEF Recv, TypeOK, KernelTypeOK
<1>6. CASE ReceiverDestroyed
  <2>1. wire' \in Seq(Byte) /\ Len(wire') <= BufferSize
    BY <1>6, EmptyIsSeq DEF ReceiverDestroyed
  <2> QED
    BY <1>6, <2>1 DEF ReceiverDestroyed, TypeOK, KernelTypeOK
<1>7. CASE /\ UNCHANGED <<wire, sent>>
           /\ conn' \in {conn, "fin"}
           /\ (faults' = faults \/ (faults < MaxFault /\ faults' = faults + 1))
  BY <1>7 DEF TypeOK, KernelTypeOK
<1>8. \/ Reset \/ Recv \/ ReceiverDestroyed
      \/ \E s \in Sender : Put(s)
      \/ /\ UNCHANGED <<wire, sent>>
         /\ conn' \in {conn, "fin"}
         /\ (faults' = faults \/ (faults < MaxFault /\ faults' = faults + 1))
  BY DEF vars, Next, SendStep, ReciveStep, Send, SendBroken, SendFails,
         SendInterrupted, SenderDestroyed, Recive, SelectUnblock, SelectReady,
         RecvInterrupted, RecvEnd, RecvFails, unblockRecive
<1> QED
  BY <1>1, <1>4, <1>5, <1>6, <1>7, <1>8

\* What one ::recv does to the receiving end, without the cases it splits into.
LEMMA RecvFacts ==
  ASSUME TypeOK, Recv
  PROVE  \E data \in Seq(Byte) :
            /\ 0 < Len(data)
            /\ Len(rx) + Len(data) <= size
            /\ Len(data) <= Len(wire)
            /\ data = SubSeq(wire, 1, Len(data))
            /\ wire' = SubSeq(wire, Len(data) + 1, Len(wire))
            /\ rx' = rx \o data
            /\ taken' = taken + Len(data)
            /\ \/ ReciveReturns(rx \o data)
               \/ UNCHANGED <<rpc, ret, delivered>>
<1>1. PICK n \in 1..(size - Len(rx)) :
        /\ n <= Len(wire)
        /\ rx' = rx \o SubSeq(wire, 1, n)
        /\ \/ ReciveReturns(rx \o SubSeq(wire, 1, n))
           \/ UNCHANGED <<rpc, ret, delivered>>
        /\ wire' = SubSeq(wire, n + 1, Len(wire))
        /\ taken' = taken + n
  BY DEF Recv
<1>2. Len(rx) \in Nat /\ Len(wire) \in Nat /\ size \in Nat /\ wire \in Seq(Byte)
  BY LenIsNat DEF TypeOK, ReceiverTypeOK, KernelTypeOK
<1>3. n \in Nat /\ 0 < n /\ Len(rx) + n <= size
  BY <1>2
<1>4. SubSeq(wire, 1, n) \in Seq(Byte) /\ Len(SubSeq(wire, 1, n)) = n
  <2>1. 1 \in 1..(Len(wire) + 1) /\ n \in 0..Len(wire) /\ 1 <= n + 1 /\ n + 1 - 1 = n
    BY <1>1, <1>2, <1>3
  <2> QED
    BY <1>2, <2>1, PartOfSeq
<1> DEFINE data == SubSeq(wire, 1, n)
<1>5. /\ data \in Seq(Byte) /\ Len(data) = n
      /\ data = SubSeq(wire, 1, n) /\ rx' = rx \o data
      /\ ReciveReturns(rx \o data) \/ UNCHANGED <<rpc, ret, delivered>>
  BY <1>1, <1>4
<1> HIDE DEF data
<1> QED
  BY <1>1, <1>3, <1>5

\* The receiving end keeps its types; in particular what was read always fits
\* into the caller's span.
LEMMA ReceiverType == TypeOK /\ [Next]_vars => ReceiverTypeOK'
<1> SUFFICES ASSUME TypeOK, [Next]_vars PROVE ReceiverTypeOK'
  OBVIOUS
<1> USE DEF Raised
<1>1. <<>> \in Seq(Byte) /\ Len(<<>>) = 0
  BY EmptyIsSeq
<1>2. Len(rx) \in Nat /\ size \in Nat /\ cancel \in Nat
  BY LenIsNat DEF TypeOK, ReceiverTypeOK
<1>3. ASSUME NEW data \in Seq(Byte), ReciveReturns(data)
      PROVE  /\ rpc' \in {"idle", "select", "recv", "destroyed"}
             /\ ret' \in {"none", "OK", "UNBLOCK"} \cup Raised
             /\ delivered' \in Seq(Byte)
  <2>1. delivered \o data \in Seq(Byte)
    BY ConcatType DEF TypeOK, ReceiverTypeOK
  <2> QED
    BY <1>3, <2>1 DEF ReciveReturns
<1>4. CASE Recive
  BY <1>1, <1>2, <1>4, SizeAssumption DEF Recive, TypeOK, ReceiverTypeOK
<1>5. CASE SelectUnblock
  <2>1. cancel' \in 0..unblocks
    BY <1>2, <1>5, BoundAssumption DEF SelectUnblock, TypeOK, ReceiverTypeOK
  <2> QED
    BY <1>5, <2>1 DEF SelectUnblock, TypeOK, ReceiverTypeOK
<1>6. CASE SelectReady
  <2>1. \/ rpc' = "idle" /\ ret' = "logic_error" /\ delivered' = delivered
        \/ ReciveReturns(<<>>)
        \/ rpc' = "recv" /\ ret' = ret /\ delivered' = delivered
    BY <1>6 DEF SelectReady
  <2>2. /\ rpc' \in {"idle", "select", "recv", "destroyed"}
        /\ ret' \in {"none", "OK", "UNBLOCK"} \cup Raised
        /\ delivered' \in Seq(Byte)
    BY <1>1, <1>3, <2>1 DEF TypeOK, ReceiverTypeOK
  <2> QED
    BY <1>6, <2>2 DEF SelectReady, TypeOK, ReceiverTypeOK
<1>7. CASE Recv
  <2>1. PICK data \in Seq(Byte) :
          /\ Len(rx) + Len(data) <= size
          /\ rx' = rx \o data
          /\ taken' = taken + Len(data)
          /\ ReciveReturns(rx \o data) \/ UNCHANGED <<rpc, ret, delivered>>
    BY <1>7, RecvFacts
  <2>2. rx \o data \in Seq(Byte) /\ Len(rx \o data) = Len(rx) + Len(data)
    BY ConcatType DEF TypeOK, ReceiverTypeOK
  <2>3. /\ rpc' \in {"idle", "select", "recv", "destroyed"}
        /\ ret' \in {"none", "OK", "UNBLOCK"} \cup Raised
        /\ delivered' \in Seq(Byte)
    BY <1>3, <2>1, <2>2 DEF TypeOK, ReceiverTypeOK
  <2>4. taken' \in Nat
    BY <2>1, LenIsNat DEF TypeOK, ReceiverTypeOK
  <2>5. rx' \in Seq(Byte) /\ Len(rx') <= size
    BY <2>1, <2>2
  <2> QED
    BY <1>7, <2>3, <2>4, <2>5 DEF Recv, TypeOK, ReceiverTypeOK
<1>8. CASE RecvEnd
  <2>1. /\ rpc' \in {"idle", "select", "recv", "destroyed"}
        /\ ret' \in {"none", "OK", "UNBLOCK"} \cup Raised
        /\ delivered' \in Seq(Byte)
    BY <1>3, <1>8 DEF RecvEnd, TypeOK, ReceiverTypeOK
  <2> QED
    BY <1>8, <2>1 DEF RecvEnd, TypeOK, ReceiverTypeOK
<1>9. CASE RecvFails
  <2>1. ret' \in {"none", "OK", "UNBLOCK"} \cup Raised
    BY <1>9 DEF RecvFails, RecvRaises
  <2>2. gap' \in BOOLEAN
    BY <1>9 DEF RecvFails
  <2> QED
    BY <1>1, <1>2, <1>9, <2>1, <2>2 DEF RecvFails, TypeOK, ReceiverTypeOK
<1>10. CASE unblockRecive
  BY <1>2, <1>10, BoundAssumption DEF unblockRecive, TypeOK, ReceiverTypeOK
<1>11. CASE ReceiverDestroyed
  BY <1>11 DEF ReceiverDestroyed, TypeOK, ReceiverTypeOK
<1>12. CASE UNCHANGED receiverVars
  BY <1>12 DEF receiverVars, TypeOK, ReceiverTypeOK
<1>13. \/ UNCHANGED receiverVars
       \/ Recive \/ SelectUnblock \/ SelectReady \/ Recv \/ RecvEnd \/ RecvFails
       \/ unblockRecive \/ ReceiverDestroyed
  BY DEF vars, Next, SendStep, ReciveStep, Send, Put, SendBroken, SendFails,
         SendInterrupted, SenderDestroyed, Reset, RecvInterrupted
<1> QED
  BY <1>4, <1>5, <1>6, <1>7, <1>8, <1>9, <1>10, <1>11, <1>12, <1>13

\* The whole state keeps its types.
LEMMA StepType == TypeOK /\ [Next]_vars => TypeOK'
  BY SenderType, KernelType, ReceiverType DEF TypeOK

\* Type correctness: no local of send or recive ever leaves its span, and the
\* kernel's buffer never holds more than it can.
THEOREM TypeCorrect == Spec => []TypeOK
  BY InitType, StepType, PTL DEF Spec

-----------------------------------------------------------------------------
(* Parts of sequences *)

\* A part of a part is a part.
LEMMA PartOfPart ==
  ASSUME NEW S, NEW q \in Seq(S), NEW i \in 1..(Len(q) + 1), NEW j \in 0..Len(q), i <= j + 1,
         NEW m \in 1..(j + 2 - i), NEW n \in 0..(j + 1 - i), m <= n + 1
  PROVE  SubSeq(SubSeq(q, i, j), m, n) = SubSeq(q, i + m - 1, i + n - 1)
<1> DEFINE p == SubSeq(q, i, j)
<1>1. /\ Len(q) \in Nat /\ i \in Nat /\ j \in Nat /\ m \in Nat /\ n \in Nat
      /\ 1 <= i /\ 1 <= m /\ n <= j + 1 - i
  BY LenIsNat
<1>2. p \in Seq(S) /\ Len(p) = j + 1 - i
  BY PartOfSeq
<1>3. \A k \in 1..(j - i + 1) : p[k] = q[i + k - 1]
  BY <1>1, SubSeqProperties, ElementOfSeq
<1>4. SubSeq(p, m, n) \in Seq(S) /\ Len(SubSeq(p, m, n)) = n + 1 - m
  <2>1. m \in 1..(Len(p) + 1) /\ n \in 0..Len(p)
    BY <1>1, <1>2
  <2> HIDE DEF p
  <2> QED
    BY <1>2, <2>1, PartOfSeq
<1>5. /\ SubSeq(q, i + m - 1, i + n - 1) \in Seq(S)
      /\ Len(SubSeq(q, i + m - 1, i + n - 1)) = n + 1 - m
  <2>1. /\ i + m - 1 \in 1..(Len(q) + 1) /\ i + n - 1 \in 0..Len(q)
        /\ i + m - 1 <= (i + n - 1) + 1
        /\ (i + n - 1) + 1 - (i + m - 1) = n + 1 - m
    BY <1>1
  <2> QED
    BY <2>1, PartOfSeq
<1>6. \A k \in 1..(n + 1 - m) :
         SubSeq(p, m, n)[k] = SubSeq(q, i + m - 1, i + n - 1)[k]
  <2> TAKE k \in 1..(n + 1 - m)
  <2>1. SubSeq(p, m, n)[k] = p[m + k - 1]
    <3> HIDE DEF p
    <3>1. \A l \in m..n : p[l] \in S
      BY <1>1, <1>2, ElementOfSeq
    <3> QED
      BY <1>1, <3>1, SubSeqProperties
  <2>2. p[m + k - 1] = q[i + (m + k - 1) - 1]
    <3>1. m + k - 1 \in 1..(j - i + 1)
      BY <1>1
    <3> QED
      BY <1>3, <3>1
  <2>3. SubSeq(q, i + m - 1, i + n - 1)[k] = q[(i + m - 1) + k - 1]
    <3>1. /\ i + m - 1 \in Int /\ i + n - 1 \in Int
          /\ k \in 1..((i + n - 1) - (i + m - 1) + 1)
          /\ \A l \in (i + m - 1)..(i + n - 1) : l \in 1..Len(q)
      BY <1>1
    <3>2. \A l \in (i + m - 1)..(i + n - 1) : q[l] \in S
      BY <3>1, ElementOfSeq
    <3> QED
      BY <3>1, <3>2, SubSeqProperties
  <2> QED
    BY <1>1, <2>1, <2>2, <2>3
<1> HIDE DEF p
<1>7. SubSeq(p, m, n) = SubSeq(q, i + m - 1, i + n - 1)
  BY <1>4, <1>5, <1>6, SeqEqual
<1> QED
  BY <1>7 DEF p

\* A part of a sequence stays what it is when the sequence grows.
LEMMA PartStays ==
  ASSUME NEW S, NEW p \in Seq(S), NEW q \in Seq(S),
         NEW i \in 1..(Len(p) + 1), NEW j \in 0..Len(p), i <= j + 1
  PROVE  SubSeq(p \o q, i, j) = SubSeq(p, i, j)
<1>1. /\ p \o q \in Seq(S) /\ Len(p \o q) = Len(p) + Len(q)
      /\ \A k \in 1..Len(p) : (p \o q)[k] = p[k]
      /\ Len(p) \in Nat /\ Len(q) \in Nat /\ i \in Nat /\ j \in Nat
  BY ConcatProperties, LenIsNat
<1>2. /\ SubSeq(p, i, j) \in Seq(S) /\ Len(SubSeq(p, i, j)) = j + 1 - i
      /\ SubSeq(p \o q, i, j) \in Seq(S) /\ Len(SubSeq(p \o q, i, j)) = j + 1 - i
  <2>1. i \in 1..(Len(p \o q) + 1) /\ j \in 0..Len(p \o q)
    BY <1>1
  <2> QED
    BY <1>1, <2>1, PartOfSeq
<1>3. \A k \in 1..(j + 1 - i) : SubSeq(p \o q, i, j)[k] = SubSeq(p, i, j)[k]
  <2> TAKE k \in 1..(j + 1 - i)
  <2>1. \A l \in i..j : l \in 1..Len(p) /\ p[l] \in S /\ (p \o q)[l] \in S
    BY <1>1, ElementOfSeq
  <2>2. SubSeq(p \o q, i, j)[k] = (p \o q)[i + k - 1] /\ SubSeq(p, i, j)[k] = p[i + k - 1]
    BY <1>1, <2>1, SubSeqProperties
  <2> QED
    BY <1>1, <2>2
<1> QED
  BY <1>2, <1>3, SeqEqual

\* A tail of a sequence grows with it.
LEMMA TailGrows ==
  ASSUME NEW S, NEW p \in Seq(S), NEW q \in Seq(S), NEW k \in 0..Len(p)
  PROVE  SubSeq(p \o q, k + 1, Len(p) + Len(q)) = SubSeq(p, k + 1, Len(p)) \o q
<1> DEFINE pq == p \o q
<1>1. /\ pq \in Seq(S) /\ Len(pq) = Len(p) + Len(q)
      /\ Len(p) \in Nat /\ Len(q) \in Nat /\ k \in Nat
  BY ConcatProperties, LenIsNat
<1>2. SubSeq(pq, k + 1, Len(p)) = SubSeq(p, k + 1, Len(p))
  <2>1. k + 1 \in 1..(Len(p) + 1) /\ Len(p) \in 0..Len(p) /\ k + 1 <= Len(p) + 1
    BY <1>1
  <2> QED
    BY <2>1, PartStays
<1>3. SubSeq(pq, Len(p) + 1, Len(p) + Len(q)) = q
  BY <1>1, ConcatProperties
<1>4. SubSeq(pq, k + 1, Len(p)) \o SubSeq(pq, Len(p) + 1, Len(pq)) = SubSeq(pq, k + 1, Len(pq))
  <2>1. /\ k + 1 \in 1..(Len(pq) + 1) /\ Len(p) \in (k + 1) - 1..Len(pq)
        /\ Len(pq) \in Len(p)..Len(pq)
    BY <1>1
  <2> HIDE DEF pq
  <2> QED
    BY <1>1, <2>1, ConcatAdjacentSubSeq
<1> HIDE DEF pq
<1>5. SubSeq(pq, k + 1, Len(p) + Len(q)) = SubSeq(p, k + 1, Len(p)) \o q
  BY <1>1, <1>2, <1>3, <1>4
<1> QED
  BY <1>5 DEF pq

-----------------------------------------------------------------------------
(* Where the bytes are *)

\* At the start there are none.
LEMMA InitLocated == Init => Located
<1> SUFFICES ASSUME Init PROVE Located
  OBVIOUS
<1>1. TypeOK
  BY InitType
<1>2. Conservation
  <2>1. SubSeq(sent, taken + 1, taken + Len(wire)) = <<>> /\ Len(wire) = 0 /\ Len(sent) = 0
    BY EmptyIsSeq, SubSeqEmpty DEF Init
  <2> QED
    BY <2>1 DEF Init, Conservation
<1>3. CallHolds
  BY DEF Init, CallHolds
<1> QED
  BY <1>1, <1>2, <1>3 DEF Located

\* The numbers the steps below calculate with.
LEMMA Numbers ==
  ASSUME TypeOK
  PROVE  /\ Len(sent) \in Nat /\ Len(wire) \in Nat /\ Len(rx) \in Nat
         /\ taken \in Nat /\ size \in Nat
         /\ sent \in Seq(Byte) /\ wire \in Seq(Byte) /\ rx \in Seq(Byte)
         /\ delivered \in Seq(Byte)
  BY LenIsNat DEF TypeOK, KernelTypeOK, ReceiverTypeOK

\* A ::send adds the same bytes to the history and to the end of the buffer.
LEMMA PutLocated ==
  ASSUME Located, NEW s \in Sender, Put(s)
  PROVE  Conservation' /\ CallHolds'
<1>0. /\ Len(sent) \in Nat /\ Len(wire) \in Nat /\ Len(rx) \in Nat
      /\ taken \in Nat /\ size \in Nat
      /\ sent \in Seq(Byte) /\ wire \in Seq(Byte) /\ rx \in Seq(Byte)
  BY Numbers DEF Located
<1>1. PICK chunk \in Seq(Byte) : wire' = wire \o chunk /\ sent' = sent \o chunk
  BY PutFacts DEF Located
<1>2. /\ Len(chunk) \in Nat
      /\ Len(wire') = Len(wire) + Len(chunk) /\ Len(sent') = Len(sent) + Len(chunk)
  BY <1>0, <1>1, LenIsNat, ConcatType
<1>3. UNCHANGED <<taken, conn, rpc, rx>> /\ conn = "open"
  BY DEF Put, receiverVars
<1>4. taken + Len(wire) = Len(sent) /\ wire = SubSeq(sent, taken + 1, Len(sent))
  BY <1>3 DEF Located, Conservation
<1>5. Conservation'
  <2>1. taken \in 0..Len(sent)
    BY <1>4, <1>0
  <2>2. wire' = SubSeq(sent', taken + 1, Len(sent) + Len(chunk))
    BY <1>1, <1>4, <2>1, TailGrows, <1>0
  <2>3. taken' = taken /\ conn' = conn
    BY <1>3
  <2>4. taken + Len(wire') = Len(sent')
    BY <1>0, <1>2, <1>4
  <2>5. Len(sent') \in Nat
    BY <1>0, <1>2
  <2>6. wire' = SubSeq(sent', taken' + 1, taken' + Len(wire'))
    <3>1. taken' + Len(wire') = Len(sent) + Len(chunk)
      BY <1>2, <2>3, <2>4
    <3> QED
      BY <2>2, <2>3, <3>1
  <2>7. taken' + Len(wire') <= Len(sent') /\ taken' + Len(wire') = Len(sent')
    BY <2>3, <2>4, <2>5
  <2> QED
    BY <2>6, <2>7 DEF Conservation
<1>6. CallHolds'
  <2>1. CASE rpc = "recv"
    <3>1. Len(rx) <= taken /\ rx = SubSeq(sent, taken - Len(rx) + 1, taken)
      BY <2>1 DEF Located, CallHolds
    <3>2. /\ taken - Len(rx) + 1 \in 1..(Len(sent) + 1) /\ taken \in 0..Len(sent)
          /\ taken - Len(rx) + 1 <= taken + 1
      BY <1>4, <3>1, <1>0
    <3>3. SubSeq(sent', taken - Len(rx) + 1, taken) = rx
      BY <1>1, <3>1, <3>2, PartStays, <1>0
    <3> QED
      BY <1>3, <2>1, <3>1, <3>3 DEF CallHolds
  <2>2. CASE rpc # "recv"
    BY <1>3, <2>2 DEF Located, CallHolds
  <2> QED
    BY <2>1, <2>2
<1> QED
  BY <1>5, <1>6

\* A ::recv moves the first bytes of the buffer behind those already read.
LEMMA RecvLocated ==
  ASSUME Located, Recv
  PROVE  /\ Conservation' /\ CallHolds'
         /\ taken' \in taken..Len(sent)
         /\ taken' - Len(rx') = taken - Len(rx)
         /\ rx' = SubSeq(sent, taken - Len(rx) + 1, taken')
<1>0. /\ Len(sent) \in Nat /\ Len(wire) \in Nat /\ Len(rx) \in Nat
      /\ taken \in Nat /\ size \in Nat
      /\ sent \in Seq(Byte) /\ wire \in Seq(Byte) /\ rx \in Seq(Byte)
  BY Numbers DEF Located
<1>1. PICK data \in Seq(Byte) :
        /\ 0 < Len(data)
        /\ Len(data) <= Len(wire)
        /\ data = SubSeq(wire, 1, Len(data))
        /\ wire' = SubSeq(wire, Len(data) + 1, Len(wire))
        /\ rx' = rx \o data
        /\ taken' = taken + Len(data)
        /\ rpc' \in {"idle", rpc}
  BY RecvFacts DEF Located, ReciveReturns
<1>2. UNCHANGED <<sent, conn>> /\ rpc = "recv"
  BY DEF Recv
<1>3. Len(data) \in Nat
  BY LenIsNat
<1>4. /\ taken + Len(wire) <= Len(sent)
      /\ wire = SubSeq(sent, taken + 1, taken + Len(wire))
      /\ conn # "reset" => taken + Len(wire) = Len(sent)
  BY DEF Located, Conservation
<1>5. /\ taken + 1 \in 1..(Len(sent) + 1) /\ taken + Len(wire) \in 0..Len(sent)
      /\ taken + 1 <= taken + Len(wire) + 1
      /\ 1 \in 1..((taken + Len(wire)) + 2 - (taken + 1))
      /\ Len(data) \in 0..((taken + Len(wire)) + 1 - (taken + 1))
      /\ 1 <= Len(data) + 1
      /\ Len(data) + 1 \in 1..((taken + Len(wire)) + 2 - (taken + 1))
      /\ Len(wire) \in 0..((taken + Len(wire)) + 1 - (taken + 1))
      /\ Len(data) + 1 <= Len(wire) + 1
  BY <1>1, <1>3, <1>4, <1>0
<1>6. data = SubSeq(sent, taken + 1, taken + Len(data))
  <2>1. SubSeq(SubSeq(sent, taken + 1, taken + Len(wire)), 1, Len(data))
          = SubSeq(sent, (taken + 1) + 1 - 1, (taken + 1) + Len(data) - 1)
    BY <1>5, PartOfPart, <1>0
  <2>2. (taken + 1) + 1 - 1 = taken + 1 /\ (taken + 1) + Len(data) - 1 = taken + Len(data)
    BY <1>3, <1>0
  <2> QED
    BY <1>1, <1>4, <2>1, <2>2
<1>7. wire' = SubSeq(sent, taken + Len(data) + 1, taken + Len(wire))
  <2>1. SubSeq(SubSeq(sent, taken + 1, taken + Len(wire)), Len(data) + 1, Len(wire))
          = SubSeq(sent, (taken + 1) + (Len(data) + 1) - 1, (taken + 1) + Len(wire) - 1)
    BY <1>5, PartOfPart, <1>0
  <2>2. /\ (taken + 1) + (Len(data) + 1) - 1 = taken + Len(data) + 1
        /\ (taken + 1) + Len(wire) - 1 = taken + Len(wire)
    BY <1>3, <1>0
  <2> QED
    BY <1>1, <1>4, <2>1, <2>2
<1>8. Len(wire') = Len(wire) - Len(data)
  <2>1. /\ Len(data) + 1 \in 1..(Len(wire) + 1) /\ Len(wire) \in 0..Len(wire)
        /\ Len(wire) + 1 - (Len(data) + 1) = Len(wire) - Len(data)
    BY <1>1, <1>3, <1>5, <1>0
  <2> QED
    BY <1>1, <1>5, <2>1, PartOfSeq, <1>0
<1>9. Conservation'
  <2>0. taken' = taken + Len(data)
    BY <1>1
  <2>1. taken' + Len(wire') = taken + Len(wire)
    BY <1>0, <1>3, <1>8, <2>0
  <2> QED
    BY <1>1, <1>2, <1>4, <1>7, <2>1 DEF Conservation
<1>10. Len(rx) <= taken /\ rx = SubSeq(sent, taken - Len(rx) + 1, taken)
  BY <1>2 DEF Located, CallHolds
<1>11. Len(rx') = Len(rx) + Len(data)
  BY <1>0, <1>1, ConcatType
<1>12. rx' = SubSeq(sent, taken - Len(rx) + 1, taken')
  <2>1. /\ taken - Len(rx) + 1 \in 1..(Len(sent) + 1)
        /\ taken \in (taken - Len(rx) + 1) - 1..Len(sent)
        /\ taken + Len(data) \in taken..Len(sent)
    BY <1>0, <1>1, <1>3, <1>4, <1>10
  <2> QED
    BY <1>0, <1>1, <1>6, <1>10, <2>1, ConcatAdjacentSubSeq
<1>13. /\ taken' - Len(rx') = taken - Len(rx) /\ Len(rx') <= taken'
       /\ taken' - Len(rx') + 1 = taken - Len(rx) + 1
  BY <1>0, <1>1, <1>3, <1>10, <1>11
<1>14. taken' \in taken..Len(sent)
  BY <1>0, <1>1, <1>3, <1>4
<1>15. CallHolds'
  BY <1>1, <1>2, <1>12, <1>13 DEF CallHolds
<1> QED
  BY <1>9, <1>12, <1>13, <1>14, <1>15

\* Every step leaves every byte where it belongs.
LEMMA StepLocated == Located /\ [Next]_vars => Located'
<1> SUFFICES ASSUME Located, [Next]_vars PROVE Conservation' /\ CallHolds'
  BY StepType DEF Located
<1>0. /\ Len(sent) \in Nat /\ Len(wire) \in Nat /\ Len(rx) \in Nat
      /\ taken \in Nat /\ size \in Nat
      /\ sent \in Seq(Byte) /\ wire \in Seq(Byte) /\ rx \in Seq(Byte)
  BY Numbers DEF Located
<1>1. ASSUME NEW s \in Sender, Put(s) PROVE Conservation' /\ CallHolds'
  BY <1>1, PutLocated
<1>2. CASE Recv
  BY <1>2, RecvLocated
<1>3. ASSUME NEW n \in 0..Len(wire), wire' = SubSeq(wire, 1, n), conn' = "reset",
             UNCHANGED <<sent, taken>>
      PROVE  Conservation'
  <2>1. /\ taken + Len(wire) <= Len(sent)
        /\ wire = SubSeq(sent, taken + 1, taken + Len(wire))
    BY DEF Located, Conservation
  <2>2. /\ taken + 1 \in 1..(Len(sent) + 1) /\ taken + Len(wire) \in 0..Len(sent)
        /\ taken + 1 <= taken + Len(wire) + 1
        /\ 1 \in 1..((taken + Len(wire)) + 2 - (taken + 1))
        /\ n \in 0..((taken + Len(wire)) + 1 - (taken + 1))
        /\ 1 <= n + 1
        /\ 1 \in 1..(Len(wire) + 1) /\ n \in 0..Len(wire) /\ n + 1 - 1 = n
        /\ (taken + 1) + 1 - 1 = taken + 1 /\ (taken + 1) + n - 1 = taken + n
    BY <2>1, <1>0
  <2>3. SubSeq(SubSeq(sent, taken + 1, taken + Len(wire)), 1, n)
          = SubSeq(sent, (taken + 1) + 1 - 1, (taken + 1) + n - 1)
    BY <2>2, PartOfPart, <1>0
  <2>4. wire' = SubSeq(sent, taken + 1, taken + n)
    BY <1>3, <2>1, <2>2, <2>3
  <2>5. Len(wire') = n
    BY <1>3, <2>2, PartOfSeq, <1>0
  <2>6. taken + n <= Len(sent)
    BY <2>1, <1>0
  <2> QED
    BY <1>3, <2>4, <2>5, <2>6 DEF Conservation
<1>4. CASE Reset
  <2>1. CallHolds'
    BY <1>4 DEF Reset, receiverVars, Located, CallHolds
  <2> QED
    BY <1>3, <1>4, <2>1 DEF Reset, receiverVars
<1>6. ASSUME UNCHANGED <<sent, wire, taken>>, conn' = conn \/ (conn = "open" /\ conn' = "fin")
      PROVE  Conservation'
  BY <1>6 DEF Located, Conservation
<1>5. CASE ReceiverDestroyed
  <2>1. CallHolds'
    BY <1>5 DEF ReceiverDestroyed, CallHolds
  <2>2. 0 \in 0..Len(wire) /\ SubSeq(wire, 1, 0) = <<>>
    BY SubSeqEmpty, <1>0
  <2>3. CASE wire = <<>>
    BY <1>5, <1>6, <2>1, <2>3 DEF ReceiverDestroyed
  <2>4. CASE wire # <<>>
    BY <1>3, <1>5, <2>1, <2>2, <2>4 DEF ReceiverDestroyed
  <2> QED
    BY <2>3, <2>4
<1>7. ASSUME UNCHANGED <<sent, taken>>, rx' = <<>>
      PROVE  rpc' = "recv" => /\ Len(rx') <= taken'
                              /\ rx' = SubSeq(sent', taken' - Len(rx') + 1, taken')
  <2>1. Len(rx') = 0
    BY <1>7, EmptyIsSeq
  <2>2. SubSeq(sent, taken + 1, taken) = <<>> /\ taken - 0 + 1 = taken + 1
    BY SubSeqEmpty, <1>0
  <2> QED
    BY <1>7, <2>1, <2>2, <1>0
<1>8. CASE SelectReady
  <2>1. rx = <<>> /\ UNCHANGED <<sent, wire, taken, conn, rx>> /\ rpc' # "select"
    BY <1>8 DEF SelectReady, ReciveReturns, Located, CallHolds
  <2> QED
    BY <1>6, <1>7, <2>1 DEF CallHolds
<1>9. CASE Recive
  BY <1>6, <1>9 DEF Recive, CallHolds
<1>10. CASE RecvFails
  BY <1>6, <1>10 DEF RecvFails, CallHolds
<1>11. CASE RecvEnd \/ SelectUnblock
  BY <1>6, <1>11 DEF RecvEnd, SelectUnblock, ReciveReturns, CallHolds
<1>12. CASE /\ UNCHANGED <<sent, wire, taken, rpc, rx>>
            /\ conn' = conn \/ (conn = "open" /\ conn' = "fin")
  BY <1>6, <1>12 DEF Located, CallHolds
<1>13. \/ \E s \in Sender : Put(s)
       \/ Recv \/ Reset \/ ReceiverDestroyed \/ SelectReady \/ Recive \/ RecvFails
       \/ RecvEnd \/ SelectUnblock
       \/ /\ UNCHANGED <<sent, wire, taken, rpc, rx>>
          /\ conn' = conn \/ (conn = "open" /\ conn' = "fin")
  BY DEF vars, receiverVars, Next, SendStep, ReciveStep, Send, SendBroken, SendFails,
         SendInterrupted, SenderDestroyed, RecvInterrupted, unblockRecive
<1> QED
  BY <1>1, <1>2, <1>4, <1>5, <1>8, <1>9, <1>10, <1>11, <1>12, <1>13

\* Every byte the kernel accepted is used up, in the buffer, or lost with the
\* connection; and a call of recive holds exactly the bytes taken last.
THEOREM BytesLocated == Spec => []Located
  BY InitLocated, StepLocated, PTL DEF Spec

-----------------------------------------------------------------------------
(* The link implements the abstract stream *)

\* The number of bytes whose fate is decided: the "taken" of the stream.
Settled == IF rpc = "recv" THEN taken - Len(rx) ELSE taken

\* A step that touches neither what was sent, nor what was delivered, nor the
\* number of settled bytes, is none of the stream's.
LEMMA Stutter ==
  UNCHANGED <<sent, Settled, delivered, gap>> => UNCHANGED Stream!vars
  BY DEF Settled, Stream!vars

\* One ::send is a Write of the stream.
LEMMA PutIsWrite ==
  ASSUME Located, NEW s \in Sender, Put(s) PROVE Stream!Next
<1>1. PICK chunk \in Seq(Byte) : sent' = sent \o chunk
  BY PutFacts DEF Located
<1>2. sent \in Seq(Byte) /\ Len(sent) \in Nat
  BY Numbers DEF Located
<1>3. sent' \in Seq(Byte) /\ Len(sent') = Len(sent) + Len(chunk) /\ Len(chunk) \in Nat
  BY <1>1, <1>2, ConcatType, LenIsNat
<1>4. Len(sent') >= Len(sent)
  BY <1>2, <1>3
<1>5. SubSeq(sent', 1, Len(sent)) = sent
  <2>1. 1 \in 1..(Len(sent) + 1) /\ Len(sent) \in 0..Len(sent) /\ 1 <= Len(sent) + 1
    BY <1>2
  <2>2. SubSeq(sent \o chunk, 1, Len(sent)) = SubSeq(sent, 1, Len(sent))
    BY <1>2, <2>1, PartStays
  <2> QED
    BY <1>1, <1>2, <2>2, SubSeqFull
<1>6. UNCHANGED <<rpc, rx, taken, delivered, gap>>
  BY DEF Put, receiverVars
<1>7. Stream!Write
  BY <1>3, <1>4, <1>5, <1>6 DEF Stream!Write
<1> QED
  BY <1>7 DEF Stream!Next

\* A call of recive that returns n bytes in all is a Deliver of the stream.
LEMMA ReturnIsDeliver ==
  ASSUME Located, rpc = "recv", rpc' = "idle", sent' = sent, gap' = gap,
         taken' \in taken..Len(sent),
         delivered' = delivered \o SubSeq(sent, taken - Len(rx) + 1, taken')
  PROVE  Stream!Next
<1>1. taken \in Nat /\ Len(rx) \in Nat /\ Len(sent) \in Nat
  BY Numbers DEF Located
<1>2. taken' \in (taken - Len(rx))..Len(sent)
  BY <1>1
<1>3. Stream!Deliver
  BY <1>2 DEF Stream!Deliver
<1> QED
  BY <1>3 DEF Stream!Next

\* Every step of the link is a step of the stream or leaves it alone.
LEMMA StepRefines ==
  ASSUME Located, [Next]_vars PROVE [Stream!Next]_(Stream!vars)
<1>0. /\ taken \in Nat /\ Len(rx) \in Nat /\ Len(sent) \in Nat /\ Len(wire) \in Nat
      /\ delivered \in Seq(Byte) /\ rx \in Seq(Byte)
  BY Numbers DEF Located
<1>1. ASSUME NEW s \in Sender, Put(s) PROVE Stream!Next
  BY <1>1, PutIsWrite
<1>2. CASE Recv
  <2>1. /\ taken' \in taken..Len(sent)
        /\ taken' - Len(rx') = taken - Len(rx)
        /\ rx' = SubSeq(sent, taken - Len(rx) + 1, taken')
    BY <1>2, RecvLocated
  <2>2. rpc = "recv" /\ sent' = sent /\ gap' = gap
    BY <1>2 DEF Recv
  <2>3. CASE ReciveReturns(rx')
    BY <2>1, <2>2, <2>3, ReturnIsDeliver DEF ReciveReturns
  <2>4. CASE UNCHANGED <<rpc, ret, delivered>>
    BY <2>1, <2>2, <2>4, Stutter DEF Settled
  <2>5. ReciveReturns(rx') \/ UNCHANGED <<rpc, ret, delivered>>
    BY <1>2, RecvFacts DEF Located
  <2> QED
    BY <2>3, <2>4, <2>5
<1>3. CASE RecvEnd
  <2>1. rx = SubSeq(sent, taken - Len(rx) + 1, taken)
    BY <1>3 DEF RecvEnd, Located, CallHolds
  <2>2. taken \in taken..Len(sent)
    BY <1>0 DEF Located, Conservation
  <2> QED
    BY <1>3, <2>1, <2>2, ReturnIsDeliver DEF RecvEnd, ReciveReturns
<1>4. CASE RecvFails
  <2>1. Len(rx) <= taken /\ taken <= Len(sent)
    BY <1>0, <1>4 DEF RecvFails, Located, CallHolds, Conservation
  <2>2. CASE rx = <<>>
    <3>1. Len(rx) = 0 /\ gap' = gap
      BY <1>4, <2>2, EmptyIsSeq DEF RecvFails, Located, TypeOK, ReceiverTypeOK
    <3>2. Settled' = Settled
      BY <1>0, <1>4, <3>1 DEF RecvFails, Settled
    <3> QED
      BY <1>4, <3>1, <3>2, Stutter DEF RecvFails
  <2>3. CASE rx # <<>>
    <3>1. taken \in (taken - Len(rx) + 1)..Len(sent)
      BY <1>0, <2>1, <2>3, EmptySeq
    <3>2. Stream!Lose
      BY <1>4, <2>3, <3>1 DEF RecvFails, Stream!Lose
    <3> QED
      BY <3>2 DEF Stream!Next
  <2> QED
    BY <2>2, <2>3
<1>5. CASE SelectReady
  <2>1. rx = <<>> /\ Len(rx) = 0
    BY <1>5, EmptyIsSeq DEF SelectReady, Located, CallHolds
  <2>2. delivered \o <<>> = delivered
    BY <1>0, ConcatEmptySeq
  <2>3. Settled' = Settled /\ delivered' = delivered
    BY <1>0, <1>5, <2>1, <2>2 DEF SelectReady, ReciveReturns, Settled
  <2> QED
    BY <1>5, <2>3, Stutter DEF SelectReady
<1>6. CASE UNCHANGED <<sent, taken, delivered, gap>> /\ rpc # "recv" /\ rpc' # "recv"
  BY <1>6, Stutter DEF Settled
<1>7. CASE UNCHANGED <<sent, taken, delivered, gap, rpc, rx>>
  BY <1>7, Stutter DEF Settled
<1>8. \/ \E s \in Sender : Put(s)
      \/ Recv \/ RecvEnd \/ RecvFails \/ SelectReady
      \/ UNCHANGED <<sent, taken, delivered, gap>> /\ rpc # "recv" /\ rpc' # "recv"
      \/ UNCHANGED <<sent, taken, delivered, gap, rpc, rx>>
  BY DEF vars, receiverVars, Next, SendStep, ReciveStep, Send, SendBroken, SendFails,
         SendInterrupted, SenderDestroyed, Reset, Recive, SelectUnblock,
         RecvInterrupted, unblockRecive, ReceiverDestroyed
<1> QED
  BY <1>1, <1>2, <1>3, <1>4, <1>5, <1>6, <1>7, <1>8

\* CTcpDataLink keeps the promise of a byte stream: whatever the partial
\* writes and reads, errors and breaks of the connection, what recive hands out
\* is the next part of what was sent.
THEOREM LinkIsStream == Spec => StreamSpec
<1>1. Init => Stream!Init
  BY DEF Init, Stream!Init
<1>2. Located /\ [Next]_vars => [Stream!Next]_(Stream!vars)
  BY StepRefines
<1> QED
  BY <1>1, <1>2, BytesLocated, PTL DEF Spec, StreamSpec, Stream!Spec

-----------------------------------------------------------------------------
(* What follows from the stream *)

Kept == INSTANCE ByteStream WITH taken <- Settled, written <- sent

\* A step of the stream keeps the types.
LEMMA StreamStepType == Kept!TypeOK /\ [Kept!Next]_(Kept!vars) => Kept!TypeOK'
<1> SUFFICES ASSUME Kept!TypeOK, [Kept!Next]_(Kept!vars) PROVE Kept!TypeOK'
  OBVIOUS
<1>1. CASE Kept!Write
  BY <1>1 DEF Kept!Write, Kept!TypeOK
<1>2. CASE Kept!Deliver
  <2>1. PICK n \in Settled..Len(sent) :
          Settled' = n /\ delivered' = delivered \o SubSeq(sent, Settled + 1, n)
    BY <1>2 DEF Kept!Deliver
  <2>2. SubSeq(sent, Settled + 1, n) \in Seq(Byte)
    BY SubSeqProperties DEF Kept!TypeOK
  <2> QED
    BY <1>2, <2>1, <2>2, ConcatProperties DEF Kept!Deliver, Kept!TypeOK
<1>3. CASE Kept!Lose
  BY <1>3 DEF Kept!Lose, Kept!TypeOK
<1>4. CASE UNCHANGED Kept!vars
  BY <1>4 DEF Kept!vars, Kept!TypeOK
<1> QED
  BY <1>1, <1>2, <1>3, <1>4 DEF Kept!Next

\* A step of the stream keeps the order.
LEMMA StreamStepInOrder == Kept!TypeOK /\ Kept!InOrder /\ [Kept!Next]_(Kept!vars) => Kept!InOrder'
<1> SUFFICES ASSUME Kept!TypeOK, Kept!InOrder, [Kept!Next]_(Kept!vars), ~gap'
             PROVE  delivered' = SubSeq(sent', 1, Settled')
  BY DEF Kept!InOrder
<1>1. CASE Kept!Write
  <2>1. SubSeq(sent', 1, Settled) = SubSeq(sent, 1, Settled)
    <3>1. sent \in Seq(Byte) /\ sent' \in Seq(Byte)
      BY <1>1 DEF Kept!Write, Kept!TypeOK
    <3>2. Len(sent) \in Nat /\ Len(sent') \in Nat /\ Settled \in 0..Len(sent)
      BY <3>1 DEF Kept!TypeOK
    <3>3. Len(sent') >= Len(sent)
          /\ SubSeq(sent', 1, Len(sent)) = sent
      BY <1>1 DEF Kept!Write
    <3>4. \A i \in 1..Len(sent) : sent'[i] = sent[i]
      BY <3>1, <3>2, <3>3, SubSeqProperties
    <3> QED
      BY <3>1, <3>2, <3>3, <3>4
  <2> QED
    BY <1>1, <2>1 DEF Kept!Write, Kept!InOrder
<1>2. CASE Kept!Deliver
  <2>1. PICK n \in Settled..Len(sent) :
          Settled' = n /\ delivered' = delivered \o SubSeq(sent, Settled + 1, n)
    BY <1>2 DEF Kept!Deliver
  <2>2. sent' = sent /\ delivered = SubSeq(sent, 1, Settled)
    BY <1>2 DEF Kept!Deliver, Kept!InOrder
  <2>3. SubSeq(sent, 1, Settled) \o SubSeq(sent, Settled + 1, n) = SubSeq(sent, 1, n)
    BY <2>1, ConcatAdjacentSubSeq DEF Kept!TypeOK
  <2> QED
    BY <2>1, <2>2, <2>3
<1>3. CASE Kept!Lose
  BY <1>3 DEF Kept!Lose
<1>4. CASE UNCHANGED Kept!vars
  BY <1>4 DEF Kept!vars, Kept!InOrder
<1> QED
  BY <1>1, <1>2, <1>3, <1>4 DEF Kept!Next

\* Bytes come out of the stream in the order they went in, each once, up to
\* the first receive call that failed half way.
LEMMA StreamInOrder == Kept!Spec => [](Kept!TypeOK /\ Kept!InOrder)
<1>1. Kept!Init => Kept!TypeOK /\ Kept!InOrder
  <2> SUFFICES ASSUME Kept!Init PROVE Kept!TypeOK /\ Kept!InOrder
    OBVIOUS
  <2>1. Kept!TypeOK
    <3>1. <<>> \in Seq(Byte) /\ Len(<<>>) = 0
      BY EmptySeq
    <3>2. gap \in BOOLEAN
      BY DEF Kept!Init
    <3>3. sent \in Seq(Byte) /\ delivered \in Seq(Byte)
      BY <3>1 DEF Kept!Init
    <3>4. Settled \in 0..Len(sent)
      BY <3>1 DEF Kept!Init
    <3> QED
      BY <3>2, <3>3, <3>4 DEF Kept!TypeOK
  <2>2. SubSeq(sent, 1, Settled) = <<>>
    BY SubSeqEmpty DEF Kept!Init
  <2> QED
    BY <2>1, <2>2 DEF Kept!Init, Kept!InOrder
<1> QED
  BY <1>1, StreamStepType, StreamStepInOrder, PTL DEF Kept!Spec

\* What was delivered is what was settled, in order.
LEMMA DeliveredInOrder == Spec => []Kept!InOrder
<1>1. Init => Kept!Init
  BY DEF Init, Settled, Kept!Init
<1>2. Stream!Next => Kept!Next
  BY DEF Stream!Next, Stream!Write, Stream!Deliver, Stream!Lose, Settled,
         Kept!Next, Kept!Write, Kept!Deliver, Kept!Lose
<1>3. UNCHANGED Stream!vars => UNCHANGED Kept!vars
  BY DEF Stream!vars, Settled, Kept!vars
<1>4. Located /\ [Next]_vars => [Kept!Next]_(Kept!vars)
  BY <1>2, <1>3, StepRefines
<1> QED
  BY <1>1, <1>4, BytesLocated, StreamInOrder, PTL DEF Spec, Kept!Spec

\* With what the present call has read, that is all that ::recv returned.
LEMMA OrderOfCall == Located /\ Kept!InOrder => StreamOrder
<1> SUFFICES ASSUME Located, Kept!InOrder, ~gap
             PROVE  (IF rpc = "recv" THEN delivered \o rx ELSE delivered) = SubSeq(sent, 1, taken)
  BY DEF StreamOrder
<1>0. /\ taken \in Nat /\ Len(rx) \in Nat /\ Len(sent) \in Nat /\ Len(wire) \in Nat
      /\ sent \in Seq(Byte)
  BY Numbers DEF Located
<1>1. delivered = SubSeq(sent, 1, Settled)
  BY DEF Kept!InOrder
<1>2. CASE rpc = "recv"
  <2>1. Len(rx) <= taken /\ rx = SubSeq(sent, taken - Len(rx) + 1, taken)
    BY <1>2 DEF Located, CallHolds
  <2>2. taken <= Len(sent)
    BY <1>0 DEF Located, Conservation
  <2>3. /\ 1 \in 1..(Len(sent) + 1) /\ taken - Len(rx) \in 1 - 1..Len(sent)
        /\ taken \in (taken - Len(rx))..Len(sent)
    BY <1>0, <2>1, <2>2
  <2>4. SubSeq(sent, 1, taken - Len(rx)) \o SubSeq(sent, (taken - Len(rx)) + 1, taken)
          = SubSeq(sent, 1, taken)
    BY <1>0, <2>3, ConcatAdjacentSubSeq
  <2> QED
    BY <1>1, <1>2, <2>1, <2>4 DEF Settled
<1>3. CASE rpc # "recv"
  BY <1>1, <1>3 DEF Settled
<1> QED
  BY <1>2, <1>3

\* The callers of recive see the sent bytes in order, none twice and none left
\* out, up to the first call that threw after it had read something.
THEOREM ReceivedInOrder == Spec => []StreamOrder
  BY BytesLocated, DeliveredInOrder, OrderOfCall, PTL

-----------------------------------------------------------------------------
(* When recive returns less than was asked for *)

\* Every step keeps it: a connection that has ended stays ended.
LEMMA StepShortRead ==
  ASSUME Located, ShortReadMeansEnd, [Next]_vars PROVE ShortReadMeansEnd'
<1>1. Len(rx) \in Nat /\ size \in Nat /\ Len(wire) \in Nat /\ wire \in Seq(Byte)
      /\ rx \in Seq(Byte)
  BY Numbers DEF Located
<1>2. CASE Recv
  <2>1. PICK n \in 1..(size - Len(rx)) :
          LET data == rx \o SubSeq(wire, 1, n)
          IN  /\ n <= Len(wire)
              /\ rx' = data
              /\ IF Scanned(scan, data) \/ Len(data) = size
                 THEN ReciveReturns(data)
                 ELSE UNCHANGED <<rpc, ret, delivered>>
    BY <1>2 DEF Recv
  <2>2. rpc = "recv" /\ UNCHANGED <<size, scan>>
    BY <1>2 DEF Recv
  <2>3. CASE Len(rx') = size
    BY <1>1, <2>2, <2>3 DEF ShortReadMeansEnd
  <2>4. CASE Scanned(scan, rx')
    <3>1. 0 < Len(rx')
      BY <1>1, <1>2, RecvFacts, ConcatType DEF Located
    <3>2. rx' # <<>>
      BY <3>1, EmptyIsSeq
    <3>3. Scanned(scan', rx')
      BY <2>2, <2>4
    <3> QED
      BY <3>2, <3>3 DEF ShortReadMeansEnd
  <2>5. CASE rpc' = rpc
    BY <2>2, <2>5 DEF ShortReadMeansEnd
  <2> QED
    BY <2>1, <2>3, <2>4, <2>5
<1>3. CASE SelectReady
  <2>1. rpc' = "idle" /\ ret' = "OK" => size = 0
    BY <1>3 DEF SelectReady, ReciveReturns
  <2> QED
    BY <1>1, <1>3, <2>1 DEF SelectReady, ShortReadMeansEnd
<1>4. CASE RecvEnd
  BY <1>4 DEF RecvEnd, ShortReadMeansEnd
<1>5. CASE RecvFails
  BY <1>5 DEF RecvFails, RecvRaises, ShortReadMeansEnd
<1>6. CASE Recive \/ SelectUnblock \/ ReceiverDestroyed
  BY <1>6 DEF Recive, SelectUnblock, ReceiverDestroyed, ShortReadMeansEnd
<1>7. CASE /\ UNCHANGED <<rpc, ret, rx, size, scan>>
           /\ conn # "open" => conn' # "open"
  BY <1>7 DEF ShortReadMeansEnd, Scanned
<1>8. \/ Recv \/ SelectReady \/ RecvEnd \/ RecvFails
      \/ Recive \/ SelectUnblock \/ ReceiverDestroyed
      \/ /\ UNCHANGED <<rpc, ret, rx, size, scan>>
         /\ conn # "open" => conn' # "open"
  BY DEF vars, receiverVars, Next, SendStep, ReciveStep, Send, Put, SendBroken,
         SendFails, SendInterrupted, SenderDestroyed, Reset, RecvInterrupted,
         unblockRecive
<1> QED
  BY <1>2, <1>3, <1>4, <1>5, <1>6, <1>7, <1>8

\* A call of recive that returns with less than the span has room for, not
\* because its callback was satisfied, tells its caller that the stream ended.
THEOREM ShortReadOnlyAtEnd == Spec => []ShortReadMeansEnd
<1>1. Init => ShortReadMeansEnd
  BY DEF Init, ShortReadMeansEnd
<1> QED
  BY <1>1, StepShortRead, BytesLocated, PTL DEF Spec

-----------------------------------------------------------------------------
(* The order of one sender's bytes among those of the others *)

\* The positions of the elements of q that are in S.
Own(q, S) == {i \in 1..Len(q) : q[i] \in S}

\* How many numbers follow n up to n + k.
LEMMA IntervalSize ==
  ASSUME NEW n \in Nat, NEW k \in Nat
  PROVE  IsFiniteSet((n + 1)..(n + k)) /\ Cardinality((n + 1)..(n + k)) = k
<1> DEFINE a == n + 1
           b == n + k
<1>1. a \in Int /\ b \in Int /\ (a > b <=> k = 0) /\ b - a + 1 = k
  OBVIOUS
<1> HIDE DEF a, b
<1>2. IsFiniteSet(a..b) /\ Cardinality(a..b) = IF a > b THEN 0 ELSE b - a + 1
  BY <1>1, FS_Interval
<1>3. Cardinality(a..b) = k
  BY <1>1, <1>2
<1> QED
  BY <1>2, <1>3 DEF a, b

\* Elements of others behind q leave the part as it is.
LEMMA OthersAppend ==
  ASSUME NEW T, NEW S, NEW q \in Seq(T), NEW part \in Seq(T), NEW c \in Seq(T),
         IsPart(part, q, S), \A k \in 1..Len(c) : c[k] \notin S
  PROVE  IsPart(part, q \o c, S)
<1>1. /\ Len(q) \in Nat /\ Len(c) \in Nat /\ Len(q \o c) = Len(q) + Len(c)
      /\ \A i \in 1..Len(q) : (q \o c)[i] = q[i]
      /\ \A i \in (Len(q) + 1)..Len(q \o c) : (q \o c)[i] = c[i - Len(q)] /\ i - Len(q) \in 1..Len(c)
  BY ConcatProperties
<1>2. Own(q \o c, S) = Own(q, S)
  BY <1>1 DEF Own
<1>3. \A i \in Own(q, S) : (q \o c)[i] = q[i]
  BY <1>1 DEF Own
<1> QED
  BY <1>2, <1>3 DEF IsPart, Own

\* Elements of its own behind q are the next of the part.
LEMMA OwnAppend ==
  ASSUME NEW T, NEW S, NEW q \in Seq(T), NEW part \in Seq(T), NEW c \in Seq(T),
         IsPart(part, q, S), \A k \in 1..Len(c) : c[k] \in S
  PROVE  IsPart(part \o c, q \o c, S)
<1> DEFINE own == Own(q, S)
           new == (Len(q) + 1)..(Len(q) + Len(c))
<1>1. /\ Len(q) \in Nat /\ Len(c) \in Nat /\ Len(part) \in Nat
      /\ Len(q \o c) = Len(q) + Len(c) /\ Len(part \o c) = Len(part) + Len(c)
      /\ \A i \in 1..Len(q) : (q \o c)[i] = q[i]
      /\ \A k \in 1..Len(c) : (q \o c)[Len(q) + k] = c[k]
      /\ \A i \in 1..Len(part) : (part \o c)[i] = part[i]
      /\ \A k \in 1..Len(c) : (part \o c)[Len(part) + k] = c[k]
  BY ConcatProperties
<1>2. Own(q \o c, S) = own \cup new
  <2>1. ASSUME NEW i \in new PROVE i \in Own(q \o c, S)
    <3>1. i - Len(q) \in 1..Len(c) /\ i = Len(q) + (i - Len(q))
      BY <1>1
    <3> QED
      BY <1>1, <3>1 DEF Own
  <2>2. ASSUME NEW i \in own PROVE i \in Own(q \o c, S)
    BY <1>1 DEF Own
  <2>3. ASSUME NEW i \in Own(q \o c, S), i \notin new PROVE i \in own
    BY <1>1, <2>3 DEF Own
  <2> QED
    BY <2>1, <2>2, <2>3
<1>3. /\ IsFiniteSet(own) /\ own \subseteq 1..Len(q)
      /\ Len(part) = Cardinality(own)
      /\ \A i \in own : part[Cardinality({j \in own : j <= i})] = q[i]
  <2>1. IsFiniteSet(1..Len(q)) /\ own \subseteq 1..Len(q)
    BY <1>1, FS_Interval DEF Own
  <2> QED
    BY <2>1, FS_Subset DEF IsPart, Own
<1>4. ASSUME NEW k \in 0..Len(c)
      PROVE  Cardinality(own \cup (Len(q) + 1)..(Len(q) + k)) = Len(part) + k
  <2> DEFINE first == (Len(q) + 1)..(Len(q) + k)
  <2>1. IsFiniteSet(first) /\ Cardinality(first) = k
    BY <1>1, IntervalSize
  <2>2. own \cap first = {}
    BY <1>1, <1>3
  <2>3. Cardinality(own \cap first) = 0
    BY <2>2, FS_EmptySet
  <2> HIDE DEF own, first
  <2>4. Cardinality(own \cup first) = Cardinality(own) + Cardinality(first) - Cardinality(own \cap first)
    BY <1>3, <2>1, FS_Union
  <2> QED
    BY <1>1, <1>3, <2>1, <2>3, <2>4 DEF first
<1>5. Len(part \o c) = Cardinality(own \cup new)
  BY <1>1, <1>4
<1>6. ASSUME NEW i \in own
      PROVE  (part \o c)[Cardinality({j \in own \cup new : j <= i})] = (q \o c)[i]
  <2> DEFINE upto == {j \in own : j <= i}
  <2>1. {j \in own \cup new : j <= i} = upto
    BY <1>1, <1>3
  <2>2. /\ IsFiniteSet(upto) /\ Cardinality(upto) <= Len(part)
        /\ Cardinality(upto) \in Nat
    BY <1>3, FS_Subset, FS_CardinalityType
  <2>3. i \in upto
    BY <1>1, <1>3
  <2>4. Cardinality(upto) # 0
    BY <2>2, <2>3, FS_EmptySet
  <2> HIDE DEF upto
  <2>5. Cardinality(upto) \in 1..Len(part)
    BY <1>1, <2>2, <2>4
  <2>6. (part \o c)[Cardinality(upto)] = part[Cardinality(upto)]
    BY <1>1, <2>5
  <2>7. part[Cardinality(upto)] = q[i]
    BY <1>3 DEF upto
  <2> QED
    BY <1>1, <1>3, <2>1, <2>6, <2>7
<1>7. ASSUME NEW i \in new
      PROVE  (part \o c)[Cardinality({j \in own \cup new : j <= i})] = (q \o c)[i]
  <2>1. PICK k \in 1..Len(c) : i = Len(q) + k
    <3>1. i - Len(q) \in 1..Len(c) /\ i = Len(q) + (i - Len(q))
      BY <1>1
    <3> QED
      BY <3>1
  <2>2. {j \in own \cup new : j <= i} = own \cup (Len(q) + 1)..(Len(q) + k)
    BY <1>1, <1>3, <2>1
  <2>3. Cardinality({j \in own \cup new : j <= i}) = Len(part) + k
    BY <1>1, <1>4, <2>2
  <2> QED
    BY <1>1, <2>1, <2>3
<1> HIDE DEF own, new
<1>8. \A i \in own \cup new :
        (part \o c)[Cardinality({j \in own \cup new : j <= i})] = (q \o c)[i]
  BY <1>6, <1>7
<1> QED
  BY <1>2, <1>5, <1>8 DEF IsPart, Own
-----------------------------------------------------------------------------
(* The steps of the sending threads *)

\* The span of a call is one of the thread's messages, and the bytes a thread
\* has written are its part of the stream.
PartsKept ==
    /\ \A s \in Sender : spc[s] = "sending" => tx[s] \in Message[s]
    /\ PerSenderOrder

\* What a thread has written between two calls of send.
LEMMA WrittenBetween ==
  ASSUME SenderTypeOK, NEW s \in Sender, spc[s] # "sending"
  PROVE  Written(s) = done[s]
<1>1. done[s] \in Seq(Byte)
  BY DEF SenderTypeOK
<1> QED
  BY <1>1, ConcatEmptySeq DEF Written

\* What it has written during a call.
LEMMA WrittenDuring ==
  ASSUME SenderTypeOK, NEW s \in Sender, spc[s] = "sending"
  PROVE  Written(s) = done[s] \o SubSeq(tx[s], 1, dataWritten[s])
  BY DEF Written

\* The beginning of a call writes nothing.
LEMMA SendWritten ==
  ASSUME TypeOK, SenderTypeOK', NEW s \in Sender, Send(s), NEW t \in Sender
  PROVE  Written(t)' = Written(t)
<1>1. spc[s] = "idle" /\ spc'[s] = "sending" /\ dataWritten'[s] = 0 /\ done' = done
  BY DEF Send, TypeOK, SenderTypeOK
<1>2. CASE t = s
  <2>1. SubSeq(tx'[s], 1, dataWritten'[s]) = <<>>
    BY <1>1, SubSeqEmpty
  <2>2. Written(s)' = done'[s] \o <<>>
    BY <1>1, <2>1 DEF Written
  <2>3. Written(s) = done[s] \o <<>>
    BY <1>1 DEF Written
  <2> QED
    BY <1>1, <1>2, <2>2, <2>3
<1>3. CASE t # s
  <2>1. spc'[t] = spc[t] /\ tx'[t] = tx[t] /\ dataWritten'[t] = dataWritten[t]
    BY <1>3 DEF Send, TypeOK, SenderTypeOK
  <2> QED
    BY <1>1, <2>1 DEF Written
<1> QED
  BY <1>2, <1>3

\* Nor does a call that throws, or the end of the process.
LEMMA EndWritten ==
  ASSUME TypeOK, SenderTypeOK', NEW s \in Sender, NEW t \in Sender,
         UNCHANGED <<tx, dataWritten>>,
         \/ \E error : SendThrows(s, error)
         \/ /\ spc' = [u \in Sender |-> "killed"]
            /\ done' = [u \in Sender |-> Written(u)]
  PROVE  Written(t)' = Written(t)
<1>1. CASE spc'[t] # "sending" /\ done'[t] = Written(t)
  <2>1. Written(t)' = done'[t] \o <<>>
    BY <1>1 DEF Written
  <2>2. Written(t) \o <<>> = Written(t)
    BY WrittenType, ConcatEmptySeq DEF TypeOK
  <2> QED
    BY <1>1, <2>1, <2>2
<1>2. CASE spc'[t] = spc[t] /\ done'[t] = done[t]
  BY <1>2 DEF Written
<1>3. CASE \E error : SendThrows(s, error)
  <2>1. /\ spc' = [spc EXCEPT ![s] = "idle"]
        /\ done' = [done EXCEPT ![s] = Written(s)]
    BY <1>3 DEF SendThrows, SendReturns
  <2> QED
    BY <1>1, <1>2, <2>1 DEF TypeOK, SenderTypeOK
<1> QED
  BY <1>1, <1>3

\* A ::send adds the next bytes of the thread's message to what it has written,
\* and to the stream.
LEMMA PutWrites ==
  ASSUME TypeOK, SenderTypeOK', NEW s \in Sender, Put(s), tx[s] \in Message[s]
  PROVE  \E chunk \in Seq(Byte) :
            /\ \A k \in 1..Len(chunk) : chunk[k] \in BytesOf(s)
            /\ sent' = sent \o chunk
            /\ Written(s)' = Written(s) \o chunk
            /\ \A t \in Sender \ {s} : Written(t)' = Written(t)
<1> DEFINE w == dataWritten[s]
           message == tx[s]
<1>1. /\ message \in Seq(Byte) /\ Len(message) \in Nat /\ w \in 0..Len(message)
      /\ done[s] \in Seq(Byte) /\ message \in Message[s]
  BY LenIsNat DEF TypeOK, SenderTypeOK
<1>2. PICK n \in 1..(Len(message) - w) :
         /\ sent' = sent \o SubSeq(message, w + 1, w + n)
         /\ dataWritten' = [dataWritten EXCEPT ![s] = @ + n]
         /\ IF w + n = Len(message)
            THEN /\ SendReturns(s, "OK")
                 /\ done' = [done EXCEPT ![s] = @ \o message]
            ELSE UNCHANGED <<spc, sret, done>>
  BY DEF Put
<1>3. spc[s] = "sending" /\ tx' = tx
  BY DEF Put
<1> DEFINE chunk == SubSeq(message, w + 1, w + n)
<1>4. /\ n \in Nat /\ w \in Nat /\ w + n <= Len(message) /\ w + n \in w..Len(message)
      /\ w + 1 \in 1..(Len(message) + 1) /\ w + n \in 0..Len(message)
      /\ w + 1 <= (w + n) + 1 /\ (w + n) + 1 - (w + 1) = n
  BY <1>1
<1> HIDE DEF w, message
<1>5. chunk \in Seq(Byte) /\ Len(chunk) = n
  BY <1>1, <1>4, PartOfSeq
<1>6. \A k \in 1..Len(chunk) : chunk[k] \in BytesOf(s)
  <2>1. ASSUME NEW k \in 1..n PROVE chunk[k] = message[w + k] /\ w + k \in 1..Len(message)
    <3>1. \A i \in (w + 1)..(w + n) : message[i] \in Byte
      BY <1>1, <1>4
    <3>2. w + 1 \in Int /\ w + n \in Int /\ k \in 1..((w + n) - (w + 1) + 1) /\ w + 1 + k - 1 = w + k
      BY <1>4
    <3>3. chunk[k] = message[w + 1 + k - 1]
      BY <3>1, <3>2, SubSeqProperties
    <3> QED
      BY <1>4, <3>2, <3>3
  <2> QED
    BY <1>1, <1>5, <2>1 DEF BytesOf
<1>7. SubSeq(message, 1, w) \o chunk = SubSeq(message, 1, w + n)
  <2>1. 1 \in 1..Len(message)+1 /\ w \in 1-1..Len(message)
    BY <1>1
  <2> QED
    BY <1>1, <1>4, <2>1, ConcatAdjacentSubSeq
<1>8. Written(s) \o chunk = done[s] \o SubSeq(message, 1, w + n)
  <2>1. SubSeq(message, 1, w) \in Seq(Byte)
    <3>1. 1 \in 1..(Len(message) + 1) /\ 1 <= w + 1
      BY <1>1
    <3> QED
      BY <1>1, <3>1, PartOfSeq
  <2>2. Written(s) = done[s] \o SubSeq(message, 1, w)
    BY <1>3 DEF Written, w, message
  <2> HIDE DEF chunk
  <2>3. chunk \in Seq(Byte)
    BY <1>5
  <2>4. (done[s] \o SubSeq(message, 1, w)) \o chunk = done[s] \o (SubSeq(message, 1, w) \o chunk)
    <3>1. \A a, b, c \in Seq(Byte) : (a \o b) \o c = a \o (b \o c)
      BY ConcatAssociative
    <3>2. done[s] \in Seq(Byte)
      BY <1>1
    <3> QED
      BY <2>1, <2>3, <3>1, <3>2
  <2> QED
    BY <1>7, <2>2, <2>4
<1>9. Written(s)' = done[s] \o SubSeq(message, 1, w + n)
  <2>1. dataWritten'[s] = w + n
    BY <1>2 DEF w, TypeOK, SenderTypeOK
  <2>2. CASE w + n = Len(message)
    <3>1. spc'[s] = "idle" /\ done'[s] = done[s] \o message
      BY <1>2, <2>2 DEF SendReturns, TypeOK, SenderTypeOK
    <3>2. SubSeq(message, 1, w + n) = message
      BY <1>1, <2>2, SubSeqFull
    <3>3. done'[s] \in Seq(Byte)
      BY DEF SenderTypeOK
    <3>4. Written(s)' = done'[s] \o <<>>
      BY <3>1 DEF Written
    <3>5. done'[s] \o <<>> = done'[s]
      BY <3>3, ConcatEmptySeq
    <3> QED
      BY <3>1, <3>2, <3>4, <3>5
  <2>3. CASE w + n # Len(message)
    <3>1. spc'[s] = "sending" /\ done'[s] = done[s]
      BY <1>2, <1>3, <2>3
    <3> QED
      BY <1>3, <2>1, <3>1 DEF Written, message
  <2> QED
    BY <2>2, <2>3
<1>10. ASSUME NEW t \in Sender \ {s} PROVE Written(t)' = Written(t)
  <2>1. spc'[t] = spc[t] /\ done'[t] = done[t] /\ dataWritten'[t] = dataWritten[t]
    BY <1>2 DEF SendReturns, TypeOK, SenderTypeOK
  <2> QED
    BY <1>3, <2>1 DEF Written
<1>11. sent' = sent \o chunk
  BY <1>2
<1> HIDE DEF chunk
<1> QED
  BY <1>5, <1>6, <1>8, <1>9, <1>10, <1>11
\* At the start nothing is written and nothing sent.
LEMMA InitParts == Init => PartsKept
<1> SUFFICES ASSUME Init, NEW s \in Sender PROVE IsPart(Written(s), sent, BytesOf(s))
  BY DEF Init, PartsKept, PerSenderOrder
<1>1. spc[s] # "sending" /\ done[s] = <<>> /\ sent = <<>>
  BY DEF Init
<1>2. <<>> \in Seq(Byte) /\ Len(<<>>) = 0
  BY EmptyIsSeq
<1>3. Written(s) = <<>>
  BY <1>1, <1>2, InitType, WrittenBetween DEF TypeOK
<1>4. {i \in 1..Len(<<>>) : (<<>>)[i] \in BytesOf(s)} = {}
  BY <1>2
<1> QED
  BY <1>1, <1>2, <1>3, <1>4, FS_EmptySet DEF IsPart

\* Every step keeps the parts apart.
LEMMA StepParts ==
  ASSUME TypeOK, TypeOK', PartsKept, [Next]_vars PROVE PartsKept'
<1>0. /\ SenderTypeOK /\ SenderTypeOK' /\ sent \in Seq(Byte)
      /\ \A s \in Sender : Written(s) \in Seq(Byte)
  BY WrittenType DEF TypeOK, KernelTypeOK
<1>1. ASSUME NEW s \in Sender, Put(s) PROVE PartsKept'
  <2>1. spc[s] = "sending" /\ tx[s] \in Message[s]
    BY <1>1 DEF Put, PartsKept
  <2>2. PICK chunk \in Seq(Byte) :
            /\ \A k \in 1..Len(chunk) : chunk[k] \in BytesOf(s)
            /\ sent' = sent \o chunk
            /\ Written(s)' = Written(s) \o chunk
            /\ \A t \in Sender \ {s} : Written(t)' = Written(t)
    BY <1>0, <1>1, <2>1, PutWrites
  <2>3. IsPart(Written(s), sent, BytesOf(s)) =>
          IsPart(Written(s) \o chunk, sent \o chunk, BytesOf(s))
    BY <1>0, <2>2, OwnAppend
  <2>4. ASSUME NEW t \in Sender \ {s}
        PROVE  IsPart(Written(t), sent, BytesOf(t)) =>
                 IsPart(Written(t), sent \o chunk, BytesOf(t))
    <3>1. \A k \in 1..Len(chunk) : chunk[k] \notin BytesOf(t)
      BY <2>2, SenderAssumption
    <3> QED
      BY <1>0, <3>1, OthersAppend
  <2>5. ASSUME NEW t \in Sender PROVE IsPart(Written(t)', sent', BytesOf(t))
    <3>1. IsPart(Written(t), sent, BytesOf(t))
      BY DEF PartsKept, PerSenderOrder
    <3>2. CASE t = s
      BY <2>2, <2>3, <3>1, <3>2
    <3>3. CASE t # s
      BY <2>2, <2>4, <3>1, <3>3
    <3> QED
      BY <3>2, <3>3
  <2>6. ASSUME NEW t \in Sender, spc'[t] = "sending" PROVE tx'[t] \in Message[t]
    <3>1. tx' = tx /\ (spc' = spc \/ spc' = [spc EXCEPT ![s] = "idle"])
      BY <1>1 DEF Put, SendReturns
    <3> QED
      BY <2>6, <3>1 DEF PartsKept, TypeOK, SenderTypeOK
  <2> QED
    BY <2>5, <2>6 DEF PartsKept, PerSenderOrder
<1>2. ASSUME sent' = sent, \A t \in Sender : Written(t)' = Written(t)
      PROVE  PerSenderOrder'
  BY <1>2 DEF PartsKept, PerSenderOrder
<1>3. ASSUME NEW s \in Sender, Send(s) PROVE PartsKept'
  <2>1. PerSenderOrder'
    BY <1>0, <1>2, <1>3, SendWritten DEF Send
  <2>2. \A t \in Sender : spc'[t] = "sending" => tx'[t] \in Message[t]
    BY <1>3 DEF Send, PartsKept, TypeOK, SenderTypeOK
  <2> QED
    BY <2>1, <2>2 DEF PartsKept
<1>4. ASSUME NEW s \in Sender, UNCHANGED <<tx, dataWritten, sent>>,
             \/ \E error : SendThrows(s, error)
             \/ /\ spc' = [u \in Sender |-> "killed"]
                /\ done' = [u \in Sender |-> Written(u)]
      PROVE  PartsKept'
  <2>1. \A t \in Sender : Written(t)' = Written(t)
    BY <1>0, <1>4, EndWritten
  <2>2. \A t \in Sender : spc'[t] = "sending" => spc[t] = "sending"
    BY <1>4 DEF SendThrows, SendReturns, TypeOK, SenderTypeOK
  <2> QED
    BY <1>2, <1>4, <2>1, <2>2 DEF PartsKept
<1>5. ASSUME NEW s \in Sender, SendBroken(s) PROVE PartsKept'
  BY <1>4, <1>5 DEF SendBroken
<1>6. ASSUME NEW s \in Sender, SendFails(s) PROVE PartsKept'
  BY <1>4, <1>6 DEF SendFails
<1>7. CASE UNCHANGED <<senderVars, sent>>
  BY <1>7 DEF senderVars, PartsKept, PerSenderOrder, Written
<1>8. \/ UNCHANGED <<senderVars, sent>>
      \/ \E s \in Sender : Send(s) \/ Put(s) \/ SendBroken(s) \/ SendFails(s)
  BY DEF vars, Next, SendStep, ReciveStep, SendInterrupted, SenderDestroyed, Reset,
         Recive, SelectUnblock, SelectReady, Recv, RecvInterrupted, RecvEnd,
         RecvFails, unblockRecive, ReceiverDestroyed
<1> QED
  BY <1>1, <1>3, <1>5, <1>6, <1>7, <1>8

\* The bytes of one thread are in the stream in the order of its calls, whole
\* or cut off where send threw, however many threads send at the same time on
\* one link and wherever the kernel cuts their messages.
THEOREM SendersKeepOrder == Spec => []PerSenderOrder
<1>1. TypeOK /\ TypeOK' /\ PartsKept /\ [Next]_vars => PartsKept'
  BY StepParts
<1>2. PartsKept => PerSenderOrder
  BY DEF PartsKept
<1>3. Located => TypeOK
  BY DEF Located
<1> QED
  BY <1>1, <1>2, <1>3, InitParts, BytesLocated, PTL DEF Spec
=============================================================================
