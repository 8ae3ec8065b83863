------------------------- MODULE UdpDataLinkProofs --------------------------
(***************************************************************************)
(* The theorems about CUdpDataLink, for any number of peers, links and     *)
(* datagrams, and any lengths and spans.                                   *)
(*                                                                         *)
(* What a call returns depends on what it had when it went round its loop: *)
(* Running says that this is less than the span and nothing but whole      *)
(* datagrams, and nothing at all if the callback wants only one.           *)
(***************************************************************************)
EXTENDS UdpDataLink, SequenceTheorems, TLAPS

\* A call that still reads has room left and has cut nothing off.
Running ==
    \A l \in Link :
        /\ pc[l] \in {"select", "recv"} => scan[l] \in {"first", "never"}
        /\ pc[l] = "select" => rx[l] = <<>> /\ dataRead[l] = 0
        /\ pc[l] = "recv" =>
             /\ dataRead[l] < size[l]
             /\ \A i \in 1..Len(rx[l]) : rx[l][i].whole
             /\ scan[l] = "first" => rx[l] = <<>>

Calls == Running /\ CutOnlyWhenFull /\ AuthorKnown /\ NoEarlyReturn

-----------------------------------------------------------------------------
\* Sequences of any kind start with the empty one, and grow at the end.
LEMMA SeqFacts ==
    /\ \A S : <<>> \in Seq(S) /\ Len(<<>>) = 0
    /\ \A S : \A q \in Seq(S) : Len(q) \in Nat
    /\ \A S : \A q \in Seq(S), x \in S :
         /\ Append(q, x) \in Seq(S) /\ Len(Append(q, x)) = Len(q) + 1
         /\ \A i \in 1..Len(q) : Append(q, x)[i] = q[i]
         /\ Append(q, x)[Len(q) + 1] = x
    /\ \A S : \A q \in Seq(S) : q # <<>> =>
         Head(q) \in S /\ Tail(q) \in Seq(S) /\ Len(Tail(q)) = Len(q) - 1
<1>1. \A S : <<>> \in Seq(S) /\ Len(<<>>) = 0
  BY EmptySeq
<1>2. \A S : \A q \in Seq(S) : Len(q) \in Nat
  OBVIOUS
<1>3. ASSUME NEW S, NEW q \in Seq(S), NEW x \in S
      PROVE  /\ Append(q, x) \in Seq(S) /\ Len(Append(q, x)) = Len(q) + 1
             /\ \A i \in 1..Len(q) : Append(q, x)[i] = q[i]
             /\ Append(q, x)[Len(q) + 1] = x
  BY <1>3, AppendProperties
<1>4. ASSUME NEW S, NEW q \in Seq(S), q # <<>>
      PROVE  Head(q) \in S /\ Tail(q) \in Seq(S) /\ Len(Tail(q)) = Len(q) - 1
  BY <1>4, HeadTailProperties
<1> QED
  BY <1>1, <1>2, <1>3, <1>4

\* Initially there are no calls and no datagrams.
LEMMA InitCalls == Init => TypeOK /\ Calls
<1> SUFFICES ASSUME Init PROVE TypeOK /\ Calls
  OBVIOUS
<1>1. TypeOK
  BY SeqFacts, UdpAssumption DEF Init, TypeOK, Raised
<1>2. Running /\ CutOnlyWhenFull /\ AuthorKnown /\ NoEarlyReturn
  BY SeqFacts DEF Init, Running, CutOnlyWhenFull, AuthorKnown, NoEarlyReturn
<1> QED
  BY <1>1, <1>2 DEF Calls

\* What one ::recvfrom does: of datagram d so much is kept as there is room for,
\* and the call goes on only if it has taken something, wants more and has room.
Taken(l, d, kept) ==
    /\ kept <= size[l] - dataRead[l]
    /\ kept = d.len \/ kept = size[l] - dataRead[l]
    /\ kept = 0 => d.len = 0
    /\ queue' \in Seq(Datagram) /\ Len(queue') <= QueueSize
    /\ UNCHANGED <<flight, nsent, faults, unblocks, size, scan, cancel>>
    /\ IF kept = 0
       THEN /\ pc' = [pc EXCEPT ![l] = "idle"] /\ ret' = [ret EXCEPT ![l] = "OK"]
            /\ last' = [last EXCEPT ![l] = "empty"]
            /\ UNCHANGED <<rx, dataRead, peer>>
       ELSE /\ rx' = [rx EXCEPT ![l] = Append(rx[l],
                   [id |-> d.id, from |-> d.from, len |-> kept, whole |-> kept = d.len])]
            /\ dataRead' = [dataRead EXCEPT ![l] = dataRead[l] + kept]
            /\ peer' = [peer EXCEPT ![l] = d.from]
            /\ last' = [last EXCEPT ![l] = "data"]
            /\ IF scan[l] = "never" /\ kept < size[l] - dataRead[l]
               THEN UNCHANGED <<pc, ret>>
               ELSE /\ pc' = [pc EXCEPT ![l] = "idle"]
                    /\ ret' = [ret EXCEPT ![l] = "OK"]

\* A datagram of the queue is taken that way.
LEMMA TakenDatagram ==
  ASSUME TypeOK, Running, NEW l \in Link, recvfrom(l)
  PROVE  \E d \in Datagram, kept \in Nat : Taken(l, d, kept)
<1> DEFINE d == Head(queue)
           room == size[l] - dataRead[l]
           kept == IF d.len <= room THEN d.len ELSE room
<1>1. d \in Datagram /\ Tail(queue) \in Seq(Datagram) /\ Len(Tail(queue)) <= QueueSize
  BY SeqFacts, UdpAssumption DEF recvfrom, TypeOK
<1>2. room \in Nat \ {0} /\ d.len \in Nat
  <2>1. size[l] \in Nat /\ dataRead[l] \in Nat /\ dataRead[l] < size[l]
    BY DEF recvfrom, TypeOK, Running
  <2>2. d.len \in Nat
    BY <1>1, UdpAssumption DEF Datagram
  <2> QED
    BY <2>1, <2>2
<1>3. /\ kept \in Nat /\ kept <= room /\ (kept = d.len \/ kept = room)
      /\ kept = 0 => d.len = 0
  BY <1>2
<1>4. Taken(l, d, kept)
  BY <1>1, <1>2, <1>3 DEF recvfrom, Take, Returns, Taken
<1> QED
  BY <1>1, <1>3, <1>4

-----------------------------------------------------------------------------
\* The types of what the peers and the network change.
LEMMA NetworkTypes ==
  ASSUME TypeOK, UNCHANGED linkVars,
         (\E p \in Peer : PeerSends(p)) \/ (\E d \in flight : Deliver(d) \/ Lose(d))
  PROVE  TypeOK'
<1> USE UdpAssumption DEF TypeOK, linkVars, callVars
<1>1. ASSUME NEW p \in Peer, PeerSends(p) PROVE TypeOK'
  <2>1. PICK n \in Length : flight' = flight \cup {[id |-> nsent + 1, from |-> p, len |-> n]}
    BY <1>1 DEF PeerSends
  <2>2. [id |-> nsent + 1, from |-> p, len |-> n] \in Datagram /\ nsent' \in 0..MaxDatagram
    BY <1>1 DEF PeerSends, Datagram
  <2>3. flight' \subseteq Datagram
    BY <2>1, <2>2
  <2> QED
    BY <1>1, <2>2, <2>3 DEF PeerSends
<1>2. ASSUME NEW d \in flight, Deliver(d) PROVE TypeOK'
  <2>1. queue' \in Seq(Datagram) /\ Len(queue') <= QueueSize
    BY <1>2, SeqFacts DEF Deliver
  <2>2. flight' \subseteq Datagram
    BY <1>2 DEF Deliver
  <2> QED
    BY <1>2, <2>1, <2>2 DEF Deliver
<1>3. ASSUME NEW d \in flight, Lose(d) PROVE TypeOK'
  BY <1>3 DEF Lose
<1> QED
  BY <1>1, <1>2, <1>3

\* The types of what the calls on a link change.
LEMMA CallTypes ==
  ASSUME TypeOK, Running, NEW l \in Link,
         \/ Waits(l) \/ waitForConnection(l) \/ getLink(l) \/ Destroy(l)
         \/ reciveFrom(l) \/ SelectUnblock(l) \/ SelectReady(l)
         \/ recvfrom(l) \/ RecvInterrupted(l) \/ RecvFails(l)
         \/ unblockRecive(l) \/ sendTo(l)
  PROVE  TypeOK'
<1> USE UdpAssumption DEF TypeOK, callVars, Raised
<1>1. CASE Waits(l) \/ Destroy(l)
  BY <1>1 DEF Waits, Destroy
<1>2. CASE waitForConnection(l) \/ getLink(l)
  <2>1. NewLink(l)
    BY <1>2 DEF waitForConnection, getLink
  <2>2. rx' \in [Link -> Seq(Piece)]
    BY <2>1, SeqFacts DEF NewLink
  <2>3. dataRead' \in [Link -> Nat] /\ \A k \in Link : dataRead'[k] <= size'[k]
    BY <2>1 DEF NewLink
  <2> QED
    BY <2>1, <2>2, <2>3 DEF NewLink
<1>3. CASE reciveFrom(l)
  <2>1. PICK n \in Size, mode \in ScanMode :
          size' = [size EXCEPT ![l] = n] /\ scan' = [scan EXCEPT ![l] = mode]
    BY <1>3 DEF reciveFrom
  <2>2. size' \in [Link -> Nat] /\ scan' \in [Link -> ScanMode \cup {"none"}]
    BY <2>1
  <2>3. /\ dataRead' \in [Link -> Nat] /\ rx' \in [Link -> Seq(Piece)]
        /\ \A k \in Link : dataRead'[k] <= size'[k]
    BY <1>3, <2>1, SeqFacts DEF reciveFrom
  <2> QED
    BY <1>3, <2>2, <2>3 DEF reciveFrom
<1>4. CASE SelectUnblock(l) \/ SelectReady(l)
  BY <1>4 DEF SelectUnblock, SelectReady, Returns
<1>5. CASE recvfrom(l)
  <2>1. PICK d \in Datagram, kept \in Nat : Taken(l, d, kept)
    BY <1>5, TakenDatagram
  <2>5. /\ queue' \in Seq(Datagram) /\ Len(queue') <= QueueSize
        /\ UNCHANGED <<flight, nsent, faults, unblocks, size, scan, cancel>>
    BY <2>1 DEF Taken
  <2>6. /\ pc' \in [Link -> {"none", "wait", "idle", "select", "recv"}]
        /\ ret' \in [Link -> {"none", "OK", "UNBLOCK"} \cup Raised]
    <3>1. UNCHANGED pc \/ pc' = [pc EXCEPT ![l] = "idle"]
      BY <2>1 DEF Taken
    <3>2. UNCHANGED ret \/ ret' = [ret EXCEPT ![l] = "OK"]
      BY <2>1 DEF Taken
    <3> QED
      BY <3>1, <3>2
  <2>7. last' \in [Link -> {"none", "data", "empty", "error"}]
    <3>1. \/ last' = [last EXCEPT ![l] = "empty"]
          \/ last' = [last EXCEPT ![l] = "data"]
      BY <2>1 DEF Taken
    <3> QED
      BY <3>1
  <2>3. CASE kept = 0
    BY <2>1, <2>3, <2>5, <2>6, <2>7 DEF Taken
  <2>4. CASE kept # 0
    <3>1. [id |-> d.id, from |-> d.from, len |-> kept, whole |-> kept = d.len] \in Piece
      BY DEF Piece, Datagram
    <3>2. rx' \in [Link -> Seq(Piece)]
      <4>1. \A p \in Piece : Append(rx[l], p) \in Seq(Piece)
        BY SeqFacts
      <4>2. rx' = [rx EXCEPT ![l] = Append(rx[l],
                  [id |-> d.id, from |-> d.from, len |-> kept, whole |-> kept = d.len])]
        BY <2>1, <2>4 DEF Taken
      <4> QED
        BY <3>1, <4>1, <4>2
    <3>3. dataRead' \in [Link -> Nat] /\ \A k \in Link : dataRead'[k] <= size'[k]
      <4>1. /\ dataRead' = [dataRead EXCEPT ![l] = dataRead[l] + kept]
            /\ kept <= size[l] - dataRead[l] /\ size' = size
        BY <2>1, <2>4 DEF Taken
      <4>2. /\ dataRead[l] \in Nat /\ size[l] \in Nat
            /\ dataRead[l] + kept \in Nat /\ dataRead[l] + kept <= size[l]
        BY <4>1
      <4> QED
        BY <4>1, <4>2
    <3>4. peer' \in [Link -> Peer \cup {NoPeer}]
      BY <2>1, <2>4 DEF Taken, Datagram
    <3> QED
      BY <2>5, <2>6, <2>7, <3>2, <3>3, <3>4
  <2> QED
    BY <2>3, <2>4
<1>6. CASE RecvInterrupted(l)
  BY <1>6 DEF RecvInterrupted, vars, linkVars
<1>7. CASE RecvFails(l)
  BY <1>7 DEF RecvFails, Returns, RecvRaises
<1>8. CASE unblockRecive(l)
  BY <1>8 DEF unblockRecive
<1>9. CASE sendTo(l)
  <2>1. /\ \E r \in {"none", "OK", "UNBLOCK"} \cup Raised : ret' = ret \/ ret' = [ret EXCEPT ![l] = r]
        /\ faults' \in 0..MaxFault
    BY <1>9 DEF sendTo
  <2>2. ret' \in [Link -> {"none", "OK", "UNBLOCK"} \cup Raised]
    BY <2>1
  <2> QED
    BY <1>9, <2>1, <2>2 DEF sendTo
<1> QED
  BY <1>1, <1>2, <1>3, <1>4, <1>5, <1>6, <1>7, <1>8, <1>9

\* Every step keeps the types.
LEMMA StepTypes == TypeOK /\ Running /\ [Next]_vars => TypeOK'
<1> SUFFICES ASSUME TypeOK, Running, [Next]_vars PROVE TypeOK'
  OBVIOUS
<1>1. CASE (\E p \in Peer : PeerSends(p)) \/ (\E d \in flight : Deliver(d) \/ Lose(d))
  <2>1. UNCHANGED linkVars
    BY <1>1 DEF PeerSends, Deliver, Lose
  <2> QED
    BY <1>1, <2>1, NetworkTypes
<1>2. CASE UNCHANGED vars
  BY <1>2 DEF vars, linkVars, callVars, TypeOK
<1> QED
  BY <1>1, <1>2, CallTypes DEF Next

-----------------------------------------------------------------------------
(* What a call has read *)

\* A datagram that is taken: the call goes on with whole ones only, returns
\* with its last piece cut only if that fills the span, and with the author.
LEMMA TakenCalls ==
  ASSUME TypeOK, Calls, NEW l \in Link, recvfrom(l)
  PROVE  Calls'
<1>1. PICK d \in Datagram, kept \in Nat : Taken(l, d, kept)
  BY TakenDatagram DEF Calls
<1>2. /\ pc[l] = "recv" /\ scan[l] \in {"first", "never"}
      /\ rx[l] \in Seq(Piece) /\ Len(rx[l]) \in Nat
      /\ size[l] \in Nat /\ dataRead[l] \in Nat /\ dataRead[l] < size[l]
      /\ \A i \in 1..Len(rx[l]) : rx[l][i].whole
      /\ scan[l] = "first" => rx[l] = <<>>
  BY SeqFacts, UdpAssumption DEF recvfrom, TypeOK, Calls, Running
<1>3. UNCHANGED <<size, scan, faults>>
  BY <1>1 DEF Taken
<1>4. \A k \in Link \ {l} : /\ rx'[k] = rx[k] /\ dataRead'[k] = dataRead[k]
                           /\ peer'[k] = peer[k] /\ pc'[k] = pc[k] /\ ret'[k] = ret[k]
                           /\ last'[k] = last[k]
  BY <1>1 DEF Taken, TypeOK
<1>5. CASE kept = 0
  <2>1. /\ pc' = [pc EXCEPT ![l] = "idle"] /\ ret' = [ret EXCEPT ![l] = "OK"]
        /\ last'[l] = "empty" /\ UNCHANGED <<rx, dataRead, peer>>
    BY <1>1, <1>5 DEF Taken, TypeOK
  <2> QED
    BY <1>2, <1>3, <1>4, <2>1
    DEF Calls, Running, CutOnlyWhenFull, AuthorKnown, NoEarlyReturn, TypeOK
<1>6. CASE kept # 0
  <2> DEFINE p == [id |-> d.id, from |-> d.from, len |-> kept, whole |-> kept = d.len]
  <2>1. p \in Piece /\ p.from = d.from /\ (p.whole <=> kept = d.len)
    BY DEF Piece, Datagram
  <2>2. /\ rx'[l] = Append(rx[l], p) /\ dataRead'[l] = dataRead[l] + kept
        /\ peer'[l] = d.from /\ last'[l] = "data"
        /\ kept = d.len \/ kept = size[l] - dataRead[l]
    BY <1>1, <1>6 DEF Taken, TypeOK
  <2> HIDE DEF p
  <2>3. /\ Len(rx'[l]) = Len(rx[l]) + 1 /\ rx'[l] # <<>>
        /\ \A i \in 1..Len(rx[l]) : rx'[l][i] = rx[l][i]
        /\ rx'[l][Len(rx[l]) + 1] = p
    <3>1. /\ Len(Append(rx[l], p)) = Len(rx[l]) + 1
          /\ \A i \in 1..Len(rx[l]) : Append(rx[l], p)[i] = rx[l][i]
          /\ Append(rx[l], p)[Len(rx[l]) + 1] = p
      BY <1>2, <2>1, SeqFacts
    <3>2. Append(rx[l], p) # <<>>
      BY <1>2, <3>1, SeqFacts
    <3> QED
      BY <2>2, <3>1, <3>2
  <2>4. \A i \in 1..Len(rx'[l]) : ~rx'[l][i].whole
            => i = Len(rx'[l]) /\ dataRead'[l] = size[l]
    BY <1>2, <2>1, <2>2, <2>3
  <2>5. CutOnlyWhenFull'
    BY <1>3, <1>4, <2>4 DEF CutOnlyWhenFull, Calls
  <2>6. AuthorKnown'
    <3>1. /\ peer'[l] = rx'[l][Len(rx'[l])].from
          /\ scan'[l] = "first" => Len(rx'[l]) = 1
      BY <1>2, <1>3, <2>1, <2>2, <2>3, SeqFacts
    <3> QED
      BY <1>3, <1>4, <3>1 DEF AuthorKnown, Calls
  <2>7. \/ scan[l] = "never" /\ kept < size[l] - dataRead[l] /\ pc'[l] = "recv"
        \/ /\ scan[l] = "first" \/ dataRead'[l] = size[l]
           /\ pc'[l] = "idle" /\ ret'[l] = "OK"
    <3>1. CASE scan[l] = "never" /\ kept < size[l] - dataRead[l]
      BY <1>1, <1>2, <1>6, <3>1 DEF Taken
    <3>2. CASE ~(scan[l] = "never" /\ kept < size[l] - dataRead[l])
      <4>1. pc'[l] = "idle" /\ ret'[l] = "OK"
        BY <1>1, <1>6, <3>2 DEF Taken, TypeOK
      <4>2. kept <= size[l] - dataRead[l]
        BY <1>1 DEF Taken
      <4>3. scan[l] = "first" \/ dataRead'[l] = size[l]
        BY <1>2, <2>2, <3>2, <4>2
      <4> QED
        BY <4>1, <4>3
    <3> QED
      BY <3>1, <3>2
  <2>8. Running'
    <3>1. ASSUME pc'[l] = "recv"
          PROVE  /\ dataRead'[l] < size[l] /\ scan[l] = "never"
                 /\ \A i \in 1..Len(rx'[l]) : rx'[l][i].whole
      BY <1>2, <2>1, <2>2, <2>3, <2>7, <3>1
    <3>2. pc'[l] # "select"
      BY <2>7
    <3> QED
      BY <1>3, <1>4, <3>1, <3>2 DEF Running, Calls
  <2>9. NoEarlyReturn'
    BY <1>2, <1>3, <1>4, <2>2, <2>7 DEF NoEarlyReturn, Calls
  <2> QED
    BY <2>5, <2>6, <2>8, <2>9 DEF Calls
<1> QED
  BY <1>5, <1>6

\* Every step keeps what is known of the calls.
LEMMA StepCalls == TypeOK /\ Calls /\ [Next]_vars => Calls'
<1> SUFFICES ASSUME TypeOK, Calls, [Next]_vars PROVE Calls'
  OBVIOUS
<1> USE DEF Calls, Running, CutOnlyWhenFull, AuthorKnown, NoEarlyReturn
<1>1. CASE UNCHANGED linkVars /\ UNCHANGED faults
  BY <1>1 DEF linkVars, callVars
<1>2. CASE (\E p \in Peer : PeerSends(p)) \/ (\E d \in flight : Deliver(d) \/ Lose(d))
  BY <1>1, <1>2 DEF PeerSends, Deliver, Lose, TypeOK
<1>3. ASSUME NEW l \in Link, Waits(l) \/ Destroy(l) PROVE Calls'
  BY <1>3 DEF Waits, Destroy, callVars, TypeOK
<1>4. ASSUME NEW l \in Link, waitForConnection(l) \/ getLink(l) PROVE Calls'
  <2>1. NewLink(l)
    BY <1>4 DEF waitForConnection, getLink
  <2>2. /\ rx'[l] = <<>> /\ Len(rx'[l]) = 0 /\ pc'[l] = "idle" /\ ret'[l] = "none"
        /\ UNCHANGED <<size, scan, faults>>
    BY <2>1, SeqFacts DEF NewLink, TypeOK
  <2>3. \A k \in Link \ {l} : /\ rx'[k] = rx[k] /\ dataRead'[k] = dataRead[k]
                             /\ peer'[k] = peer[k] /\ pc'[k] = pc[k] /\ ret'[k] = ret[k]
                             /\ last'[k] = last[k]
    BY <2>1 DEF NewLink, TypeOK
  <2> QED
    BY <2>2, <2>3
<1>5. ASSUME NEW l \in Link, reciveFrom(l) PROVE Calls'
  BY <1>5, SeqFacts, UdpAssumption DEF reciveFrom, TypeOK
<1>6. ASSUME NEW l \in Link, SelectUnblock(l) \/ SelectReady(l) PROVE Calls'
  <2>1. /\ pc[l] = "select" /\ UNCHANGED <<size, scan, rx, dataRead, peer, last, faults>>
        /\ \/ pc'[l] = "idle" /\ (ret'[l] = "UNBLOCK" \/ size[l] = 0)
           \/ pc'[l] = "recv" /\ size[l] # 0
        /\ \A k \in Link \ {l} : pc'[k] = pc[k] /\ ret'[k] = ret[k]
    BY <1>6 DEF SelectUnblock, SelectReady, Returns, callVars, TypeOK
  <2>2. rx[l] = <<>> /\ dataRead[l] = 0 /\ Len(rx[l]) = 0 /\ size[l] \in Nat
    BY <2>1, SeqFacts DEF TypeOK
  <2>3. Running' /\ CutOnlyWhenFull' /\ AuthorKnown'
    BY <2>1, <2>2
  <2>4. NoEarlyReturn'
    BY <2>1, <2>2
  <2> QED
    BY <2>3, <2>4
<1>7. ASSUME NEW l \in Link, RecvFails(l) PROVE Calls'
  BY <1>7 DEF RecvFails, Returns, callVars, TypeOK
<1>8. ASSUME NEW l \in Link, unblockRecive(l) PROVE Calls'
  BY <1>8 DEF unblockRecive, callVars, TypeOK
<1>9. ASSUME NEW l \in Link, sendTo(l) PROVE Calls'
  BY <1>9 DEF sendTo, callVars, TypeOK
<1>10. CASE UNCHANGED vars \/ \E l \in Link : RecvInterrupted(l)
  BY <1>1, <1>10 DEF RecvInterrupted, vars, TypeOK
<1> QED
  BY <1>2, <1>3, <1>4, <1>5, <1>6, <1>7, <1>8, <1>9, <1>10, TakenCalls DEF Next

\* The types of peers, network and calls.
THEOREM TypeCorrect == Spec => []TypeOK
<1>1. (TypeOK /\ Calls) /\ [Next]_vars => (TypeOK /\ Calls)'
  BY StepTypes, StepCalls DEF Calls
<1>2. Init => TypeOK /\ Calls
  BY InitCalls
<1> QED
  BY <1>1, <1>2, PTL DEF Spec

\* What is known of the calls, for the three theorems below.
LEMMA CallsHold == Spec => []Calls
<1>1. (TypeOK /\ Calls) /\ [Next]_vars => (TypeOK /\ Calls)'
  BY StepTypes, StepCalls DEF Calls
<1>2. Init => TypeOK /\ Calls
  BY InitCalls
<1> QED
  BY <1>1, <1>2, PTL DEF Spec

\* A datagram is cut off only where the span ends.
THEOREM CutOnlyAtTheEnd == Spec => []CutOnlyWhenFull
  BY CallsHold, PTL DEF Calls

\* The reported address is that of the newest bytes, and of all of them if the
\* callback wants one datagram.
THEOREM AuthorIsReported == Spec => []AuthorKnown
  BY CallsHold, PTL DEF Calls

\* A call that returns before its span is full was told to, or met an empty
\* datagram or an error.
THEOREM ReturnsForAReason == Spec => []NoEarlyReturn
  BY CallsHold, PTL DEF Calls

-----------------------------------------------------------------------------
(* Messages of one size *)

\* The pieces r are one whole message of n bytes, from a.
Message(r, n, a) ==
    \E d \in Datagram :
        /\ r = <<[id |-> d.id, from |-> d.from, len |-> n, whole |-> TRUE]>>
        /\ a = d.from

\* With messages and spans of n bytes, a call that still reads has room for a
\* message and nothing yet, and one that succeeded has a message.
OneMessage(n) ==
    \A l \in Link :
        /\ pc[l] \in {"select", "recv"} => rx[l] = <<>> /\ dataRead[l] = 0 /\ size[l] = n
        /\ pc[l] = "idle" /\ ret[l] = "OK" /\ faults = 0 => Message(rx[l], size[l], peer[l])

\* The datagram that comes first fills the span, so that no call ever takes a
\* second one.
LEMMA TakenMessage ==
  ASSUME NEW n \in Nat \ {0}, Length = {n}, TypeOK, Calls, OneMessage(n),
         NEW l \in Link, recvfrom(l)
  PROVE  OneMessage(n)'
<1>1. PICK d \in Datagram, kept \in Nat : Taken(l, d, kept)
  BY TakenDatagram DEF Calls
<1>2. pc[l] = "recv" /\ rx[l] = <<>> /\ dataRead[l] = 0 /\ size[l] = n
  BY DEF recvfrom, OneMessage
<1>3. d.len = n /\ kept = n
  <2>1. d.len = n
    BY DEF Datagram
  <2> QED
    BY <1>1, <1>2, <2>1 DEF Taken
<1>4. /\ rx' = [rx EXCEPT ![l] = Append(rx[l],
             [id |-> d.id, from |-> d.from, len |-> kept, whole |-> kept = d.len])]
      /\ peer' = [peer EXCEPT ![l] = d.from]
      /\ pc' = [pc EXCEPT ![l] = "idle"] /\ ret' = [ret EXCEPT ![l] = "OK"]
      /\ dataRead' = [dataRead EXCEPT ![l] = n]
      /\ UNCHANGED <<size, faults>>
  BY <1>1, <1>2, <1>3 DEF Taken
<1>5. \A k \in Link \ {l} : /\ rx'[k] = rx[k] /\ dataRead'[k] = dataRead[k]
                           /\ peer'[k] = peer[k] /\ pc'[k] = pc[k] /\ ret'[k] = ret[k]
  BY <1>4 DEF TypeOK
<1>6. pc'[l] = "idle" /\ peer'[l] = d.from /\ size'[l] = n
  BY <1>2, <1>4 DEF TypeOK
<1>7. rx'[l] = <<[id |-> d.id, from |-> d.from, len |-> n, whole |-> TRUE]>>
  <2> DEFINE p == [id |-> d.id, from |-> d.from, len |-> n, whole |-> TRUE]
  <2>1. [id |-> d.id, from |-> d.from, len |-> kept, whole |-> kept = d.len] = p
    BY <1>3
  <2>2. rx' = [rx EXCEPT ![l] = Append(rx[l], p)]
    BY <1>4, <2>1
  <2> HIDE DEF p
  <2>3. rx'[l] = Append(<<>>, p)
    BY <1>2, <2>2 DEF TypeOK
  <2> QED
    BY <2>3 DEF p
<1> DEFINE Held(r, m, a) == Message(r, m, a)
<1>8. /\ Held(rx'[l], size'[l], peer'[l])
      /\ \A k \in Link \ {l} :
           /\ pc[k] \in {"select", "recv"} => rx[k] = <<>> /\ dataRead[k] = 0 /\ size[k] = n
           /\ pc[k] = "idle" /\ ret[k] = "OK" /\ faults = 0 => Held(rx[k], size[k], peer[k])
  BY <1>6, <1>7 DEF Message, OneMessage
<1>9. SUFFICES
        \A k \in Link :
          /\ pc'[k] \in {"select", "recv"} => rx'[k] = <<>> /\ dataRead'[k] = 0 /\ size'[k] = n
          /\ pc'[k] = "idle" /\ ret'[k] = "OK" /\ faults' = 0 => Held(rx'[k], size'[k], peer'[k])
  BY DEF OneMessage, Message, Datagram
<1> HIDE DEF Held
<1> QED
  BY <1>4, <1>5, <1>6, <1>8

\* Every step keeps messages whole.
LEMMA StepOneMessage ==
  ASSUME NEW n \in Nat \ {0}, Length = {n}, Size = {n},
         TypeOK, Calls, OneMessage(n), [Next]_vars
  PROVE  OneMessage(n)'
<1> DEFINE Held(r, m, a) == Message(r, m, a)
<1>1. \A l \in Link :
        /\ pc[l] \in {"select", "recv"} => rx[l] = <<>> /\ dataRead[l] = 0 /\ size[l] = n
        /\ pc[l] = "idle" /\ ret[l] = "OK" /\ faults = 0 => Held(rx[l], size[l], peer[l])
  BY DEF OneMessage
<1>2. SUFFICES
        \A l \in Link :
          /\ pc'[l] \in {"select", "recv"} => rx'[l] = <<>> /\ dataRead'[l] = 0 /\ size'[l] = n
          /\ pc'[l] = "idle" /\ ret'[l] = "OK" /\ faults' = 0 => Held(rx'[l], size'[l], peer'[l])
  BY DEF OneMessage, Message, Datagram
<1> DEFINE Kept ==
        \A l \in Link :
          /\ pc'[l] \in {"select", "recv"} => rx'[l] = <<>> /\ dataRead'[l] = 0 /\ size'[l] = n
          /\ pc'[l] = "idle" /\ ret'[l] = "OK" /\ faults' = 0 => Held(rx'[l], size'[l], peer'[l])
<1> HIDE DEF Held
<1>3. CASE UNCHANGED linkVars /\ UNCHANGED faults
  BY <1>1, <1>3 DEF linkVars, callVars
<1>4. CASE (\E p \in Peer : PeerSends(p)) \/ (\E d \in flight : Deliver(d) \/ Lose(d))
  BY <1>3, <1>4 DEF PeerSends, Deliver, Lose
<1>5. ASSUME NEW l \in Link, Waits(l) \/ Destroy(l) PROVE Kept
  BY <1>1, <1>5 DEF Waits, Destroy, callVars, TypeOK
<1>6. ASSUME NEW l \in Link, waitForConnection(l) \/ getLink(l) PROVE Kept
  BY <1>1, <1>6 DEF waitForConnection, getLink, NewLink, TypeOK
<1>7. ASSUME NEW l \in Link, reciveFrom(l) PROVE Kept
  BY <1>1, <1>7 DEF reciveFrom, TypeOK
<1>8. ASSUME NEW l \in Link, SelectUnblock(l) \/ SelectReady(l) PROVE Kept
  BY <1>1, <1>8 DEF SelectUnblock, SelectReady, Returns, callVars, TypeOK
<1>9. ASSUME NEW l \in Link, RecvFails(l) PROVE Kept
  BY <1>1, <1>9, UdpAssumption DEF RecvFails, Returns, callVars, TypeOK
<1>10. ASSUME NEW l \in Link, unblockRecive(l) PROVE Kept
  BY <1>1, <1>10 DEF unblockRecive, callVars, TypeOK
<1>11. ASSUME NEW l \in Link, sendTo(l) PROVE Kept
  BY <1>1, <1>11, UdpAssumption DEF sendTo, callVars, TypeOK
<1>12. ASSUME NEW l \in Link, recvfrom(l) PROVE Kept
  BY <1>12, TakenMessage DEF OneMessage, Message, Datagram, Held
<1>13. CASE UNCHANGED vars \/ \E l \in Link : RecvInterrupted(l)
  BY <1>3, <1>13 DEF RecvInterrupted, vars
<1> QED
  BY <1>4, <1>5, <1>6, <1>7, <1>8, <1>9, <1>10, <1>11, <1>12, <1>13 DEF Next

\* Peers that send messages of one size, received with spans of that size:
\* every call that succeeds returns one whole message and its author.
THEOREM OneSizeWhole ==
  ASSUME NEW n \in Nat \ {0}, Length = {n}, Size = {n}
  PROVE  Spec => []FixedSizeWhole
<1> DEFINE Inv == TypeOK /\ Calls /\ OneMessage(n)
<1>1. Init => Inv
  BY InitCalls DEF Init, OneMessage
<1>2. Inv /\ [Next]_vars => Inv'
  BY StepTypes, StepCalls, StepOneMessage DEF Calls
<1>3. Inv => FixedSizeWhole
  BY DEF OneMessage, FixedSizeWhole, Message
<1> QED
  BY <1>1, <1>2, <1>3, PTL DEF Spec
=============================================================================
