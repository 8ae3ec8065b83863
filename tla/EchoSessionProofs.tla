------------------------- MODULE EchoSessionProofs --------------------------
(***************************************************************************)
(* The examples' sessions, for any number of clients and objects, objects  *)
(* of any number of pieces, buffers of any size, crashes and kernel errors.*)
(*                                                                         *)
(* The invariants place every piece: what is under way to or from a client *)
(* is its own (Contents), over TCP the pieces of a client are one ascending*)
(* row through both buffers and the server (Ordered), with none missing for*)
(* a client whose objects were received as a whole (Complete), and the     *)
(* server leaves such a client only after its goodbye (Finished).          *)
(***************************************************************************)
EXTENDS EchoSession, SequenceTheorems, TLAPS

\* The counters, threads and connections that the contents of buffers rest on.
Counters ==
    /\ transport \in Transport
    /\ cpc \in [Client -> {"start", "connected", "send", "sleep", "join",
                           "done", "failed", "gone"}]
    /\ nsent \in [Client -> 0..AllPieces]
    /\ rxpc \in [Client -> {"none", "select", "finished"}]
    /\ cancel \in [Client -> BOOLEAN]
    /\ spc \in {"accept", "recive", "echo", "dead"}
    /\ peer \in Client \cup {NoClient}
    /\ active \in BOOLEAN
    /\ conn \in [Client -> {"none", "open", "closed", "fin", "reset"}]
    /\ backlog \in Seq(Client)
    /\ faults \in 0..MaxFault
    /\ cut \subseteq Client
    /\ \A c \in Client :
        /\ cpc[c] \in {"start", "connected", "send"} => nsent[c] < AllPieces
        /\ cpc[c] \in {"sleep", "join", "done"} => nsent[c] = AllPieces
        /\ rxpc[c] = "select" => cpc[c] \in {"send", "sleep", "join"}
        /\ conn[c] \in {"open", "closed"} => Living(c)
        /\ conn[c] \in {"fin", "reset"} => cpc[c] \in {"done", "gone"}
    /\ spc = "echo" => peer \in Client
    /\ spc = "recive" /\ IsStream => peer \in Client

\* What c has sent, and what it may find in the bytes that come back.
Genuine(c) == {x \in Sendable : x.by = c /\ x.at <= nsent[c]}
Mine(c)    == Genuine(c) \cup (IF c \in cut THEN {Blank} ELSE {})

\* Whatever is under way to or from a client is its own.
OwnBuffers(c) ==
    /\ up[c] \in Seq(Genuine(c)) /\ Len(up[c]) <= Capacity
    /\ down[c] \in Seq(Mine(c)) /\ Len(down[c]) <= Capacity
    /\ got[c] \in Seq(Mine(c))

\* So is what the server answers, unless nobody will get it.
OwnAnswer ==
    /\ tx \in Seq(Sendable \cup {Blank})
    /\ spc = "echo" <=> tx # <<>>
    /\ spc = "echo" => \/ tx \in Seq(Mine(peer))
                       \/ IsStream /\ conn[peer] \in {"fin", "reset"}

Contents ==
    /\ up = [c \in Client |-> up[c]] /\ down = [c \in Client |-> down[c]]
    /\ got = [c \in Client |-> got[c]]
    /\ \A c \in Client : OwnBuffers(c)
    /\ OwnAnswer

Kinds == Counters /\ Contents

-----------------------------------------------------------------------------
(* Sequences and numbers *)

\* A sequence is its first elements and the rest.
LEMMA Split ==
  ASSUME NEW S, NEW w \in Seq(S), NEW k \in 0..Len(w)
  PROVE  /\ SubSeq(w, 1, k) \in Seq(S) /\ Len(SubSeq(w, 1, k)) = k
         /\ \A i \in 1..k : SubSeq(w, 1, k)[i] = w[i]
         /\ SubSeq(w, k + 1, Len(w)) \in Seq(S) /\ Len(SubSeq(w, k + 1, Len(w))) = Len(w) - k
         /\ \A i \in 1..(Len(w) - k) : SubSeq(w, k + 1, Len(w))[i] = w[k + i]
         /\ SubSeq(w, 1, k) \o SubSeq(w, k + 1, Len(w)) = w
<1>1. Len(w) \in Nat /\ w \in [1..Len(w) -> S] /\ k \in Nat /\ k <= Len(w)
  BY LenProperties
<1>2. /\ SubSeq(w, 1, k) \in Seq(S)
      /\ Len(SubSeq(w, 1, k)) = (IF 1 <= k THEN k - 1 + 1 ELSE 0)
      /\ \A i \in 1..(k - 1 + 1) : SubSeq(w, 1, k)[i] = w[1 + i - 1]
  <2>1. \A i \in 1..k : w[i] \in S
    BY <1>1
  <2> QED
    BY <1>1, <2>1, SubSeqProperties
<1>3. /\ SubSeq(w, k + 1, Len(w)) \in Seq(S)
      /\ Len(SubSeq(w, k + 1, Len(w))) = (IF k + 1 <= Len(w) THEN Len(w) - (k + 1) + 1 ELSE 0)
      /\ \A i \in 1..(Len(w) - (k + 1) + 1) :
           SubSeq(w, k + 1, Len(w))[i] = w[(k + 1) + i - 1]
  <2>1. \A i \in (k + 1)..Len(w) : w[i] \in S
    BY <1>1
  <2>2. k + 1 \in Int /\ Len(w) \in Int
    BY <1>1
  <2> QED
    BY <2>1, <2>2, SubSeqProperties
<1>4. k - 1 + 1 = k /\ Len(w) - (k + 1) + 1 = Len(w) - k
      /\ \A i \in Int : 1 + i - 1 = i /\ (k + 1) + i - 1 = k + i
  BY <1>1
<1>5. SubSeq(w, 1, k) \o SubSeq(w, k + 1, Len(w)) = SubSeq(w, 1, Len(w))
  <2>1. 1 \in 1..(Len(w) + 1) /\ k \in (1 - 1)..Len(w) /\ Len(w) \in k..Len(w)
    BY <1>1
  <2> QED
    BY <2>1, ConcatAdjacentSubSeq
<1>6. Len(SubSeq(w, 1, k)) = k /\ Len(SubSeq(w, k + 1, Len(w))) = Len(w) - k
  <2>1. (IF 1 <= k THEN k - 1 + 1 ELSE 0) = k
    BY <1>1
  <2>2. (IF k + 1 <= Len(w) THEN Len(w) - (k + 1) + 1 ELSE 0) = Len(w) - k
    <3>1. \A m, n \in Nat : m <= n =>
            (IF m + 1 <= n THEN n - (m + 1) + 1 ELSE 0) = n - m
      OBVIOUS
    <3> QED
      BY <1>1, <3>1
  <2> QED
    BY <1>2, <1>3, <2>1, <2>2
<1>7. \A i \in 1..k : SubSeq(w, 1, k)[i] = w[i]
  BY <1>1, <1>2, <1>4
<1>8. \A i \in 1..(Len(w) - k) : SubSeq(w, k + 1, Len(w))[i] = w[k + i]
  BY <1>1, <1>3, <1>4
<1> QED
  BY <1>2, <1>3, <1>5, <1>6, <1>7, <1>8, SubSeqFull

\* The remainder of a number fills it up to no more than a greater multiple.
LEMMA FilledUp ==
  ASSUME NEW n \in Nat, NEW t \in Nat, NEW p \in Nat \ {0}, n < t * p
  PROVE  n + (p - (n % p)) <= t * p /\ p - (n % p) \in 1..p
<1> DEFINE q == n \div p
<1>1. n % p \in 0..(p - 1) /\ n = p * q + (n % p) /\ q \in Nat
  OBVIOUS
<1> HIDE DEF q
<1>2. q + 1 <= t
  <2>1. SUFFICES ASSUME t <= q PROVE FALSE
    BY <1>1
  <2>2. PICK d \in Nat : q = t + d
    BY <1>1, <2>1
  <2>3. p * q = t * p + p * d /\ p * d >= 0
    BY <2>2
  <2> QED
    BY <1>1, <2>3
<1>3. PICK d \in Nat : t = q + 1 + d
  BY <1>1, <1>2
<1>4. t * p = p * q + p + p * d /\ p * d >= 0
  BY <1>1, <1>3
<1> QED
  BY <1>1, <1>4

\* How many objects and pieces there are.
LEMMA NumberFacts ==
  ASSUME transport \in Transport
  PROVE  /\ Parts \in Nat \ {0} /\ AllPieces \in Nat \ {0}
         /\ IsStream => Goodbye * Parts = AllPieces
         /\ ~IsStream => Parts = 1
         /\ \A n \in 0..AllPieces : n < AllPieces =>
              Parts - (n % Parts) \in 1..Parts /\ n + (Parts - (n % Parts)) <= AllPieces
<1>1. Requests[transport] \in Nat \ {0} /\ Pieces \in Nat \ {0}
  BY EchoAssumption
<1>2. Total \in Nat \ {0} /\ Parts \in Nat \ {0}
  BY <1>1 DEF Total, Goodbye, Parts
<1>3. AllPieces \in Nat \ {0}
  <2>1. \A m, n \in Nat \ {0} : m * n \in Nat \ {0}
    OBVIOUS
  <2> QED
    BY <1>2, <2>1 DEF AllPieces
<1>4. \A n \in 0..AllPieces : n < AllPieces =>
        Parts - (n % Parts) \in 1..Parts /\ n + (Parts - (n % Parts)) <= AllPieces
  <2> SUFFICES ASSUME NEW n \in 0..AllPieces, n < AllPieces
               PROVE  Parts - (n % Parts) \in 1..Parts /\ n + (Parts - (n % Parts)) <= AllPieces
    OBVIOUS
  <2>1. n \in Nat /\ Total \in Nat /\ n < Total * Parts
    BY <1>2, <1>3 DEF AllPieces
  <2>2. n + (Parts - (n % Parts)) <= Total * Parts /\ Parts - (n % Parts) \in 1..Parts
    BY <1>2, <2>1, FilledUp
  <2> QED
    BY <2>2 DEF AllPieces
<1> QED
  BY <1>2, <1>3, <1>4 DEF AllPieces, Total, Parts

\* The example that runs stays the same, and with it the numbers.
LEMMA SameTransport ==
  ASSUME [Next]_vars
  PROVE  /\ transport' = transport /\ (IsStream' <=> IsStream)
         /\ Parts' = Parts /\ AllPieces' = AllPieces /\ Goodbye' = Goodbye
         /\ Sendable' = Sendable
<1>1. transport' = transport
  BY DEF Next, vars, MainStep, RxStep, ServerStep, Connect, ConnectFails, StartRx, Send,
         SendBroken, Unblock, Exit, RxShows, RxEnd, RxUnblocked, Crash, Lose, Duplicate,
         waitForConnection, Recive, ReciveEnd, Echo, EchoBroken, ServerFails, ServerDies
<1> QED
  BY <1>1 DEF IsStream, Parts, AllPieces, Total, Goodbye, Sendable

\* Without leaves out one element.
LEMMA WithoutFacts ==
  ASSUME NEW S, NEW w \in Seq(S), NEW i \in 1..Len(w)
  PROVE  /\ w[i] \in S
         /\ Without(w, i) \in Seq(S) /\ Len(Without(w, i)) = Len(w) - 1
<1>1. Len(w) \in Nat /\ w[i] \in S
  BY LenProperties, ElementOfSeq
<1>2. SubSeq(w, 1, i - 1) \in Seq(S) /\ Len(SubSeq(w, 1, i - 1)) = i - 1
  <2>1. i - 1 \in 0..Len(w)
    BY <1>1
  <2> QED
    BY <2>1, Split
<1>3. SubSeq(w, i + 1, Len(w)) \in Seq(S) /\ Len(SubSeq(w, i + 1, Len(w))) = Len(w) - i
  <2>1. i \in 0..Len(w)
    BY <1>1
  <2> QED
    BY <2>1, Split
<1>4. /\ Without(w, i) \in Seq(S)
      /\ Len(Without(w, i)) = Len(SubSeq(w, 1, i - 1)) + Len(SubSeq(w, i + 1, Len(w)))
  BY <1>2, <1>3, ConcatProperties DEF Without
<1>5. (i - 1) + (Len(w) - i) = Len(w) - 1
  BY <1>1
<1> QED
  BY <1>1, <1>2, <1>3, <1>4, <1>5

\* A full buffer takes no more.
LEMMA QueuedFacts ==
  ASSUME NEW S, NEW w \in Seq(S), NEW x \in S, Len(w) <= Capacity
  PROVE  Queued(w, x) \in Seq(S) /\ Len(Queued(w, x)) <= Capacity
<1>1. /\ Append(w, x) \in Seq(S) /\ Len(Append(w, x)) = Len(w) + 1
      /\ Len(w) \in Nat /\ Capacity \in Nat
  BY AppendProperties, LenProperties, EchoAssumption
<1> QED
  BY <1>1 DEF Queued

\* One receive takes a datagram, or the beginning of a stream, up to an object.
LEMMA TakesFacts ==
  ASSUME transport \in Transport, NEW S, NEW w \in Seq(S), NEW t \in Takes(w)
  PROVE  /\ t.now \in Seq(S) /\ t.left \in Seq(S)
         /\ Len(t.now) \in 1..Parts /\ Len(t.left) \in Nat /\ Len(t.left) < Len(w)
         /\ IsStream => w = t.now \o t.left
<1>0. Parts \in Nat \ {0} /\ Len(w) \in Nat
  BY NumberFacts, LenProperties
<1>1. CASE IsStream
  <2>1. PICK k \in 1..Parts \cap 1..Len(w) :
          t = [now |-> SubSeq(w, 1, k), left |-> SubSeq(w, k + 1, Len(w))]
    BY <1>1 DEF Takes
  <2>2. k \in 0..Len(w) /\ k \in 1..Parts
    BY <1>0
  <2>3. /\ SubSeq(w, 1, k) \in Seq(S) /\ Len(SubSeq(w, 1, k)) = k
        /\ SubSeq(w, k + 1, Len(w)) \in Seq(S) /\ Len(SubSeq(w, k + 1, Len(w))) = Len(w) - k
        /\ SubSeq(w, 1, k) \o SubSeq(w, k + 1, Len(w)) = w
    BY <2>2, Split
  <2>4. Len(w) - k \in Nat /\ Len(w) - k < Len(w)
    BY <1>0, <2>2
  <2>5. t.now = SubSeq(w, 1, k) /\ t.left = SubSeq(w, k + 1, Len(w))
    BY <2>1
  <2> QED
    BY <2>2, <2>3, <2>4, <2>5
<1>2. CASE ~IsStream
  <2>1. PICK i \in 1..Len(w) : t = [now |-> <<w[i]>>, left |-> Without(w, i)]
    BY <1>2 DEF Takes
  <2>2. w[i] \in S /\ Without(w, i) \in Seq(S) /\ Len(Without(w, i)) = Len(w) - 1
    BY WithoutFacts
  <2>3. t.now = <<w[i]>> /\ t.left = Without(w, i)
    BY <2>1
  <2>4. <<w[i]>> \in Seq(S) /\ Len(<<w[i]>>) = 1
    BY <2>2
  <2>5. Len(w) - 1 \in Nat /\ Len(w) - 1 < Len(w)
    BY <1>0
  <2>6. 1 \in 1..Parts
    BY <1>0
  <2> QED
    BY <1>2, <2>2, <2>3, <2>4, <2>5, <2>6
<1> QED
  BY <1>1, <1>2

\* An answer has a whole object's pieces, each as it came or blank.
LEMMA AnswerFacts ==
  ASSUME transport \in Transport, NEW S, NEW s \in Seq(S)
  PROVE  /\ Answer(s) \in Seq(S \cup {Blank}) /\ Len(Answer(s)) = Parts
         /\ \A p \in 1..Parts : \/ Answer(s)[p] = Blank
                                \/ p \in 1..Len(s) /\ Answer(s)[p] = s[p]
<1> DEFINE E(p) == IF p <= Len(s) /\ s[p] # Blank /\ Place(s[p].at) = p THEN s[p] ELSE Blank
<1>1. Parts \in Nat \ {0} /\ Len(s) \in Nat
  BY NumberFacts, LenProperties
<1>2. Answer(s) = [p \in 1..Parts |-> E(p)]
  BY DEF Answer
<1>3. \A p \in 1..Parts : E(p) = Blank \/ (p \in 1..Len(s) /\ E(p) = s[p])
  <2> TAKE p \in 1..Parts
  <2>1. E(p) = Blank \/ (p <= Len(s) /\ E(p) = s[p])
    OBVIOUS
  <2> HIDE DEF E
  <2>2. p <= Len(s) => p \in 1..Len(s)
    BY <1>1
  <2> QED
    BY <2>1, <2>2
<1> HIDE DEF E
<1>4. \A p \in 1..Parts : E(p) \in S \cup {Blank}
  BY <1>3, ElementOfSeq
<1>5. Answer(s) \in [1..Parts -> S \cup {Blank}]
  BY <1>2, <1>4
<1>6. Answer(s) \in Seq(S \cup {Blank}) /\ Len(Answer(s)) = Parts
  <2>1. Answer(s) \in Seq(S \cup {Blank})
    BY <1>1, <1>5, SeqDef
  <2>2. DOMAIN Answer(s) = 1..Parts
    BY <1>5
  <2> QED
    BY <1>1, <2>1, <2>2, LenProperties
<1>7. \A p \in 1..Parts : Answer(s)[p] = E(p)
  BY <1>2
<1> QED
  BY <1>3, <1>6, <1>7

\* The pieces of one ::send.
LEMMA PutFacts ==
  ASSUME NEW c \in Client, NEW n \in Nat, NEW k \in Nat, n + k <= AllPieces, AllPieces \in Nat
  PROVE  /\ [i \in 1..k |-> Piece(c, n + i)] \in Seq({x \in Sendable : x.by = c /\ x.at <= n + k})
         /\ Len([i \in 1..k |-> Piece(c, n + i)]) = k
<1> DEFINE S == {x \in Sendable : x.by = c /\ x.at <= n + k}
           w == [i \in 1..k |-> Piece(c, n + i)]
<1>1. ASSUME NEW i \in 1..k PROVE Piece(c, n + i) \in S
  BY DEF Piece, Sendable
<1>2. w \in [1..k -> S] /\ DOMAIN w = 1..k
  BY <1>1
<1>3. w \in Seq(S)
  BY <1>2, SeqDef
<1> QED
  BY <1>2, <1>3, LenProperties

-----------------------------------------------------------------------------
(* Type correctness *)

\* Initially no client has done anything.
LEMMA InitKinds == Init => Kinds
<1> SUFFICES ASSUME Init PROVE Kinds
  OBVIOUS
<1>1. \A S : <<>> \in Seq(S) /\ Len(<<>>) = 0
  BY EmptySeq
<1>2. AllPieces \in Nat \ {0} /\ Capacity \in Nat /\ MaxFault \in Nat
  BY NumberFacts, EchoAssumption DEF Init
<1>3. Counters
  <2>1. nsent \in [Client -> 0..AllPieces] /\ faults \in 0..MaxFault /\ backlog \in Seq(Client)
    BY <1>1, <1>2 DEF Init
  <2>2. \A c \in Client : nsent[c] < AllPieces
    <3>1. 0 < AllPieces
      BY <1>2
    <3> QED
      BY <3>1 DEF Init
  <2> QED
    BY <2>1, <2>2 DEF Init, Counters, Living
<1>4. Contents
  BY <1>1, <1>2 DEF Init, Contents, OwnBuffers, OwnAnswer
<1> QED
  BY <1>3, <1>4 DEF Kinds

\* What the steps of one client leave alone, and what they do to its own entries.
LEMMA ClosesFacts ==
  ASSUME Counters, NEW c \in Client, Closes(c)
  PROVE  /\ rxpc' = [rxpc EXCEPT ![c] = IF rxpc[c] = "select" THEN "none" ELSE rxpc[c]]
         /\ down' = [down EXCEPT ![c] = <<>>]
         /\ \/ /\ conn[c] = "open" /\ down[c] # <<>>
               /\ conn' = [conn EXCEPT ![c] = "reset"]
               /\ up' = [up EXCEPT ![c] = <<>>]
            \/ /\ conn[c] = "open" /\ conn' = [conn EXCEPT ![c] = "fin"] /\ up' = up
            \/ /\ conn[c] # "open" /\ conn' = [conn EXCEPT ![c] = "none"] /\ up' = up
         /\ UNCHANGED backlog
<1>1. CASE conn[c] = "open" /\ down[c] # <<>>
  BY <1>1 DEF Closes
<1>2. CASE conn[c] = "open" /\ down[c] = <<>>
  BY <1>2 DEF Closes
<1>3. CASE conn[c] # "open"
  BY <1>3 DEF Closes
<1> QED
  BY <1>1, <1>2, <1>3

\* The end of a process keeps the counters right.
LEMMA ClosesCounters ==
  ASSUME Counters, [Next]_vars, NEW c \in Client, Closes(c),
         NEW here \in {"gone", "done"}, Goes(c, here), here = "done" => nsent[c] = AllPieces,
         cancel' \in [Client -> BOOLEAN],
         UNCHANGED <<nsent, spc, active, peer, cut>>, faults' \in 0..MaxFault
  PROVE  Counters'
<1>1. transport' = transport /\ (IsStream' <=> IsStream) /\ AllPieces' = AllPieces
  BY SameTransport
<1>2. /\ rxpc' = [rxpc EXCEPT ![c] = IF rxpc[c] = "select" THEN "none" ELSE rxpc[c]]
      /\ \/ conn' = [conn EXCEPT ![c] = "reset"]
         \/ conn' = [conn EXCEPT ![c] = "fin"]
         \/ conn' = [conn EXCEPT ![c] = "none"]
      /\ UNCHANGED backlog
  BY ClosesFacts
<1>3. cpc' = [cpc EXCEPT ![c] = here]
  BY DEF Goes
<1>4. /\ conn' \in [Client -> {"none", "open", "closed", "fin", "reset"}]
      /\ conn'[c] \notin {"open", "closed"} /\ \A d \in Client : d # c => conn'[d] = conn[d]
  BY <1>2 DEF Counters
<1>5. /\ rxpc' \in [Client -> {"none", "select", "finished"}]
      /\ rxpc'[c] # "select" /\ \A d \in Client : d # c => rxpc'[d] = rxpc[d]
  BY <1>2 DEF Counters
<1>6. /\ cpc' \in [Client -> {"start", "connected", "send", "sleep", "join",
                              "done", "failed", "gone"}]
      /\ cpc'[c] = here /\ \A d \in Client : d # c => cpc'[d] = cpc[d]
  BY <1>3 DEF Counters
<1>7. \A d \in Client :
        /\ cpc'[d] \in {"start", "connected", "send"} => nsent'[d] < AllPieces
        /\ cpc'[d] \in {"sleep", "join", "done"} => nsent'[d] = AllPieces
        /\ rxpc'[d] = "select" => cpc'[d] \in {"send", "sleep", "join"}
        /\ conn'[d] \in {"open", "closed"} => cpc'[d] \in {"connected", "send", "sleep", "join"}
        /\ conn'[d] \in {"fin", "reset"} => cpc'[d] \in {"done", "gone"}
  <2> TAKE d \in Client
  <2>1. CASE d = c
    BY <1>4, <1>5, <1>6, <2>1
  <2>2. CASE d # c
    BY <1>4, <1>5, <1>6, <2>2 DEF Counters, Living
  <2> QED
    BY <2>1, <2>2
<1> QED
  BY <1>1, <1>2, <1>4, <1>5, <1>6, <1>7 DEF Counters, Living

\* The pieces of one ::send are counted, and main goes on or sleeps.
LEMMA SentCounters ==
  ASSUME Counters, NEW c \in Client, cpc[c] = "send", NEW k \in 1..Unsent(c), Sent(c, k)
  PROVE  /\ nsent' \in [Client -> 0..AllPieces]
         /\ nsent' = [nsent EXCEPT ![c] = nsent[c] + k] /\ k \in Nat /\ nsent[c] \in Nat
         /\ nsent[c] + k <= AllPieces
         /\ cpc' \in [Client -> {"start", "connected", "send", "sleep", "join",
                                 "done", "failed", "gone"}]
         /\ \A d \in Client : d # c => cpc'[d] = cpc[d] /\ nsent'[d] = nsent[d]
         /\ \/ cpc'[c] = "send" /\ nsent'[c] < AllPieces
            \/ cpc'[c] = "sleep" /\ nsent'[c] = AllPieces
<1>1. nsent[c] \in 0..AllPieces /\ nsent[c] < AllPieces /\ AllPieces \in Nat
  BY NumberFacts DEF Counters
<1>2. Unsent(c) \in 1..Parts /\ nsent[c] + Unsent(c) <= AllPieces /\ Parts \in Nat
  BY <1>1, NumberFacts DEF Counters, Unsent
<1>3. k \in Nat /\ nsent[c] + k \in 0..AllPieces /\ nsent[c] + k <= AllPieces
  <2> HIDE DEF Unsent
  <2> QED
    BY <1>1, <1>2
<1>4. /\ nsent' = [nsent EXCEPT ![c] = nsent[c] + k]
      /\ cpc' = [cpc EXCEPT ![c] = IF nsent[c] + k = AllPieces THEN "sleep" ELSE "send"]
  BY DEF Sent, Goes
<1>5. nsent' \in [Client -> 0..AllPieces] /\ nsent'[c] = nsent[c] + k
      /\ \A d \in Client : d # c => nsent'[d] = nsent[d]
  BY <1>3, <1>4 DEF Counters
<1>6. /\ cpc' \in [Client -> {"start", "connected", "send", "sleep", "join",
                              "done", "failed", "gone"}]
      /\ cpc'[c] = (IF nsent[c] + k = AllPieces THEN "sleep" ELSE "send")
      /\ \A d \in Client : d # c => cpc'[d] = cpc[d]
  BY <1>4 DEF Counters
<1>7. \/ cpc'[c] = "send" /\ nsent'[c] < AllPieces
      \/ cpc'[c] = "sleep" /\ nsent'[c] = AllPieces
  BY <1>1, <1>3, <1>5, <1>6
<1> QED
  BY <1>1, <1>3, <1>4, <1>5, <1>6, <1>7

\* Every step keeps the counters right.
LEMMA CountersStep ==
  ASSUME Kinds, [Next]_vars
  PROVE  Counters'
<1>1. transport' = transport /\ (IsStream' <=> IsStream) /\ AllPieces' = AllPieces
  BY SameTransport
<1>2. Counters
  BY DEF Kinds
<1>3. \A S : <<>> \in Seq(S)
  BY EmptySeq
<1> USE EchoAssumption DEF Goes, clientVars, serverVars, netVars
<1>4. CASE UNCHANGED vars
  BY <1>1, <1>2, <1>4 DEF Counters, Living, vars
<1>5. ASSUME NEW c \in Client, Connect(c) PROVE Counters'
  <2>1. /\ cpc' = [cpc EXCEPT ![c] = "connected"] /\ cpc[c] = "start"
        /\ UNCHANGED <<nsent, rxpc, cancel, spc, active, peer, faults, cut>>
        /\ conn' = conn \/ conn' = [conn EXCEPT ![c] = "open"]
        /\ backlog' \in {backlog, Append(backlog, c)}
    BY <1>5 DEF Connect
  <2>2. backlog' \in Seq(Client)
    <3>1. Append(backlog, c) \in Seq(Client)
      BY <1>2, AppendProperties DEF Counters
    <3> QED
      BY <1>2, <2>1, <3>1 DEF Counters
  <2>3. /\ cpc' \in [Client -> {"start", "connected", "send", "sleep", "join",
                                "done", "failed", "gone"}]
        /\ cpc'[c] = "connected" /\ \A d \in Client : d # c => cpc'[d] = cpc[d]
    BY <1>2, <2>1 DEF Counters
  <2>4. /\ conn' \in [Client -> {"none", "open", "closed", "fin", "reset"}]
        /\ conn'[c] \in {conn[c], "open"} /\ \A d \in Client : d # c => conn'[d] = conn[d]
    BY <1>2, <2>1 DEF Counters
  <2> QED
    BY <1>1, <1>2, <2>1, <2>2, <2>3, <2>4 DEF Counters, Living
<1>6. ASSUME NEW c \in Client, ConnectFails(c) PROVE Counters'
  BY <1>1, <1>2, <1>6 DEF ConnectFails, Counters, Living
<1>7. ASSUME NEW c \in Client, StartRx(c) PROVE Counters'
  BY <1>1, <1>2, <1>7 DEF StartRx, Counters, Living
<1>8. ASSUME NEW c \in Client, cpc[c] = "send", NEW k \in 1..Unsent(c), Sent(c, k),
             UNCHANGED <<rxpc, cancel, serverVars, conn, backlog, faults, cut>>
      PROVE  Counters'
  <2>1. /\ nsent' \in [Client -> 0..AllPieces]
        /\ cpc' \in [Client -> {"start", "connected", "send", "sleep", "join",
                                "done", "failed", "gone"}]
        /\ \A d \in Client : d # c => cpc'[d] = cpc[d] /\ nsent'[d] = nsent[d]
        /\ \/ cpc'[c] = "send" /\ nsent'[c] < AllPieces
           \/ cpc'[c] = "sleep" /\ nsent'[c] = AllPieces
    BY <1>2, <1>8, SentCounters
  <2>2. nsent'[c] < AllPieces => nsent'[c] # AllPieces
    BY <1>2, <2>1, NumberFacts DEF Counters
  <2>3. conn[c] \notin {"fin", "reset"}
    BY <1>2, <1>8 DEF Counters
  <2> QED
    BY <1>1, <1>2, <1>8, <2>1, <2>2, <2>3 DEF Counters, Living
<1>9. ASSUME NEW c \in Client, Send(c) PROVE Counters'
  <2>1. /\ cpc[c] = "send" /\ \E k \in 1..Unsent(c) : Sent(c, k)
        /\ UNCHANGED <<rxpc, cancel, serverVars, conn, backlog, faults, cut>>
    BY <1>9 DEF Send
  <2> QED
    BY <1>8, <2>1
<1>10. ASSUME NEW c \in Client, SendBroken(c) PROVE Counters'
  <2>1. CASE \E k \in 1..Unsent(c) : Sent(c, k) /\ UNCHANGED <<rxpc, cancel, got, netVars>>
    <3>1. cpc[c] = "send" /\ UNCHANGED <<serverVars, faults, cut>>
      BY <1>10 DEF SendBroken
    <3> QED
      BY <1>8, <2>1, <3>1
  <2>2. CASE Dies(c) /\ UNCHANGED nsent
    <3>1. UNCHANGED <<serverVars, faults, cut>> /\ faults' \in 0..MaxFault
      BY <1>2, <1>10 DEF SendBroken, Counters
    <3>2. Closes(c) /\ Goes(c, "gone") /\ cancel' \in [Client -> BOOLEAN]
      BY <1>2, <2>2 DEF Dies, Counters
    <3> QED
      BY <1>2, <2>2, <3>1, <3>2, ClosesCounters
  <2> QED
    BY <1>10, <2>1, <2>2 DEF SendBroken
<1>11. ASSUME NEW c \in Client, Unblock(c) PROVE Counters'
  <2>1. /\ cpc' = [cpc EXCEPT ![c] = "join"] /\ cpc[c] = "sleep"
        /\ cancel' = [cancel EXCEPT ![c] = TRUE]
        /\ UNCHANGED <<transport, nsent, rxpc, serverVars, netVars, faults, cut>>
    BY <1>11 DEF Unblock
  <2> QED
    BY <1>1, <1>2, <2>1 DEF Counters, Living
<1>12. ASSUME NEW c \in Client, Exit(c) PROVE Counters'
  <2>1. /\ Closes(c) /\ Goes(c, "done") /\ nsent[c] = AllPieces /\ faults' \in 0..MaxFault
        /\ UNCHANGED <<nsent, spc, active, peer, cut>> /\ cancel' \in [Client -> BOOLEAN]
    BY <1>2, <1>12 DEF Exit, Counters
  <2> QED
    BY <1>2, <2>1, ClosesCounters
<1>13. ASSUME NEW c \in Client, Crash(c) PROVE Counters'
  <2>1. /\ Closes(c) /\ Goes(c, "gone") /\ faults' \in 0..MaxFault
        /\ UNCHANGED <<nsent, spc, active, peer, cut>> /\ cancel' \in [Client -> BOOLEAN]
    BY <1>2, <1>13 DEF Crash, Dies, Counters
  <2> QED
    BY <1>2, <2>1, ClosesCounters
<1>14. ASSUME NEW c \in Client, RxShows(c) \/ RxEnd(c) \/ RxUnblocked(c) PROVE Counters'
  <2>1. /\ UNCHANGED <<transport, cpc, nsent, serverVars, conn, backlog, faults, cut>>
        /\ \/ UNCHANGED <<cancel, rxpc>>
           \/ /\ cancel' = [cancel EXCEPT ![c] = FALSE]
              /\ rxpc' = [rxpc EXCEPT ![c] = "finished"]
    BY <1>14 DEF RxShows, RxEnd, RxUnblocked, vars
  <2> QED
    BY <1>1, <1>2, <2>1 DEF Counters, Living
<1>15. CASE waitForConnection
  <2>1. /\ UNCHANGED <<transport, clientVars, faults, cut>> /\ spc = "accept" /\ spc' = "recive"
        /\ active' = IsStream
    BY <1>15 DEF waitForConnection
  <2>2. CASE IsStream
    <3>1. /\ backlog # <<>> /\ peer' = Head(backlog) /\ backlog' = Tail(backlog)
          /\ \/ conn' = conn
             \/ peer \in Client /\ conn' = [conn EXCEPT ![peer] =
                                             IF conn[peer] = "open" THEN "closed" ELSE "none"]
      BY <1>2, <1>15, <2>2 DEF waitForConnection, AcceptStream, Counters
    <3>2. peer' \in Client /\ backlog' \in Seq(Client)
      BY <1>2, <3>1, HeadTailProperties DEF Counters
    <3>3. /\ conn' \in [Client -> {"none", "open", "closed", "fin", "reset"}]
          /\ \A d \in Client : \/ conn'[d] = conn[d]
                               \/ conn[d] = "open" /\ conn'[d] = "closed"
                               \/ conn'[d] = "none"
      BY <1>2, <3>1 DEF Counters
    <3>4. active' \in BOOLEAN
      BY <2>1, <2>2
    <3> QED
      BY <1>1, <1>2, <2>1, <3>2, <3>3, <3>4 DEF Counters, Living
  <2>3. CASE ~IsStream
    <3>1. UNCHANGED <<peer, netVars>> /\ active' = FALSE
      BY <1>15, <2>1, <2>3 DEF waitForConnection
    <3> QED
      BY <1>1, <1>2, <2>1, <2>3, <3>1 DEF Counters, Living
  <2> QED
    BY <2>2, <2>3
<1>16. ASSUME NEW s, Answers(s) PROVE spc' = "echo" /\ active' \in BOOLEAN
  BY <1>16 DEF Answers
<1>17. CASE Recive
  <2>1. PICK c \in (IF IsStream THEN {peer} ELSE Client) :
          /\ peer' = c /\ (cut' = cut \/ cut' = cut \cup {c}) /\ \E s : Answers(s)
    BY <1>17 DEF Recive
  <2>2. c \in Client
    BY <1>2, <1>17 DEF Recive, Counters
  <2>3. UNCHANGED <<clientVars, conn, backlog, faults>>
    BY <1>17 DEF Recive
  <2> QED
    BY <1>1, <1>2, <1>16, <2>1, <2>2, <2>3 DEF Counters, Living
<1>18. CASE ReciveEnd
  <2>1. /\ UNCHANGED <<clientVars, peer, netVars, faults, cut>> /\ Answers(<<>>)
        /\ peer \in Client
    BY <1>2, <1>18 DEF ReciveEnd, Counters
  <2> QED
    BY <1>1, <1>2, <1>16, <2>1 DEF Counters, Living
<1>19. CASE Echo
  <2>1. /\ UNCHANGED <<clientVars, active, peer, backlog, faults, cut>> /\ spc = "echo"
        /\ conn' = conn \/ (conn[peer] = "fin" /\ conn' = [conn EXCEPT ![peer] = "reset"])
        /\ spc' \in {"echo", "recive", "accept"}
    BY <1>19 DEF Echo, Answered
  <2>2. /\ conn' \in [Client -> {"none", "open", "closed", "fin", "reset"}]
        /\ \A d \in Client : \/ conn'[d] = conn[d]
                             \/ conn[d] = "fin" /\ conn'[d] = "reset"
    BY <1>2, <2>1 DEF Counters
  <2> QED
    BY <1>1, <1>2, <2>1, <2>2 DEF Counters, Living
<1>20. CASE EchoBroken \/ ServerFails
  <2>1. /\ ServerDies /\ faults' \in 0..MaxFault
    BY <1>2, <1>20 DEF EchoBroken, ServerFails, Counters
  <2>2. /\ UNCHANGED <<clientVars, cut>> /\ spc' = "dead" /\ active' = FALSE /\ peer' = NoClient
        /\ \/ UNCHANGED <<conn, backlog>>
           \/ /\ backlog' = <<>>
              /\ conn' = [c \in Client |-> IF conn[c] \in {"open", "closed"}
                                           THEN "closed" ELSE "none"]
    BY <2>1 DEF ServerDies
  <2>3. backlog' \in Seq(Client)
    <3>1. backlog \in Seq(Client) /\ backlog' \in {backlog, <<>>}
      BY <1>2, <2>2 DEF Counters
    <3> QED
      BY <1>3, <3>1
  <2>4. /\ conn' \in [Client -> {"none", "open", "closed", "fin", "reset"}]
        /\ \A d \in Client : \/ conn'[d] = conn[d]
                             \/ conn[d] \in {"open", "closed"} /\ conn'[d] = "closed"
                             \/ conn'[d] = "none"
    BY <1>2, <2>2 DEF Counters
  <2> QED
    BY <1>1, <1>2, <2>1, <2>2, <2>3, <2>4 DEF Counters, Living
<1>21. ASSUME NEW c \in Client, Lose(c) \/ Duplicate(c) PROVE Counters'
  <2>1. UNCHANGED <<clientVars, serverVars, conn, backlog, cut>> /\ faults' \in 0..MaxFault
    BY <1>2, <1>21 DEF Lose, Duplicate, Counters
  <2> QED
    BY <1>1, <1>2, <2>1 DEF Counters, Living
<1> QED
  BY <1>4, <1>5, <1>6, <1>7, <1>9, <1>10, <1>11, <1>12, <1>13, <1>14, <1>15, <1>17, <1>18,
     <1>19, <1>20, <1>21 DEF Next, MainStep, RxStep, ServerStep

\* What was a client's own stays so.
LEMMA OwnGrows ==
  ASSUME Kinds, [Next]_vars
  PROVE  /\ cut \subseteq cut' /\ \A c \in Client : nsent[c] <= nsent'[c]
         /\ \A c \in Client : Genuine(c) \subseteq Genuine(c)' /\ Mine(c) \subseteq Mine(c)'
<1>1. Sendable' = Sendable
  BY SameTransport
<1>2. \A c \in Client : nsent[c] \in 0..AllPieces /\ nsent = [d \in Client |-> nsent[d]]
  BY DEF Kinds, Counters
<1>3. AllPieces \in Nat
  BY NumberFacts DEF Kinds, Counters
<1>4. \A c \in Client : nsent[c] <= nsent'[c]
  <2>1. \A c \in Client : nsent[c] <= nsent[c]
    BY <1>2, <1>3
  <2>2. CASE UNCHANGED nsent
    BY <2>1, <2>2
  <2>3. ASSUME NEW c \in Client, Send(c) \/ SendBroken(c)
        PROVE  \A d \in Client : nsent[d] <= nsent'[d]
    <3>1. CASE UNCHANGED nsent
      BY <2>1, <3>1
    <3>2. CASE \E k \in 1..Unsent(c) : Sent(c, k)
      <4>1. PICK k \in 1..Unsent(c) : Sent(c, k)
        BY <3>2
      <4>2. cpc[c] = "send"
        BY <2>3 DEF Send, SendBroken
      <4>3. nsent' = [nsent EXCEPT ![c] = nsent[c] + k] /\ k \in Nat /\ nsent[c] \in Nat
        BY <4>1, <4>2, SentCounters DEF Kinds
      <4> QED
        BY <1>2, <2>1, <4>3
    <3> QED
      BY <2>3, <3>1, <3>2 DEF Send, SendBroken
  <2> QED
    BY <2>2, <2>3 DEF Next, vars, clientVars, MainStep, RxStep, ServerStep, Connect,
       ConnectFails, StartRx, Unblock, Exit, RxShows, RxEnd, RxUnblocked, Crash, Lose,
       Duplicate, waitForConnection, Recive, ReciveEnd, Echo, EchoBroken, ServerFails, ServerDies
<1>5. cut \subseteq cut'
  BY DEF Next, vars, clientVars, MainStep, RxStep, ServerStep, Connect, ConnectFails,
     StartRx, Send, SendBroken, Unblock, Exit, RxShows, RxEnd, RxUnblocked, Crash, Lose,
     Duplicate, waitForConnection, Recive, ReciveEnd, Echo, EchoBroken, ServerFails, ServerDies
<1>6. ASSUME NEW c \in Client PROVE Genuine(c) \subseteq Genuine(c)'
  <2> SUFFICES ASSUME NEW x \in Genuine(c) PROVE x \in Genuine(c)'
    OBVIOUS
  <2>1. x \in Sendable /\ x.by = c /\ x.at <= nsent[c]
    BY DEF Genuine
  <2>2. x.at \in Nat
    BY <1>3, <2>1 DEF Sendable
  <2>3. nsent[c] \in Nat /\ nsent'[c] \in Nat /\ nsent[c] <= nsent'[c]
    <3>1. nsent'[c] \in 0..AllPieces
      BY CountersStep, SameTransport DEF Counters
    <3> QED
      BY <1>2, <1>3, <1>4, <3>1
  <2>4. x.at <= nsent'[c]
    BY <2>1, <2>2, <2>3
  <2> QED
    BY <1>1, <2>1, <2>4 DEF Genuine
<1>7. ASSUME NEW c \in Client PROVE Mine(c) \subseteq Mine(c)'
  BY <1>5, <1>6 DEF Mine
<1> QED
  BY <1>4, <1>5, <1>6, <1>7

\* A prefix of what came back is still the client's own.
LEMMA ArrivingFacts ==
  ASSUME NEW c \in Client, NEW S, down[c] \in Seq(S), NEW w \in Arriving(c)
  PROVE  /\ w \in Seq(S) /\ Len(w) <= Len(down[c])
         /\ \E v \in Seq(S) : down[c] = w \o v
         /\ up[c] = <<>> => w = down[c]
<1>1. Len(down[c]) \in Nat
  BY LenProperties
<1>2. PICK k \in (IF up[c] = <<>> THEN {Len(down[c])} ELSE 0..Len(down[c])) :
        w = SubSeq(down[c], 1, k)
  BY DEF Arriving
<1>3. k \in 0..Len(down[c]) /\ k <= Len(down[c])
  BY <1>1
<1>4. /\ SubSeq(down[c], 1, k) \in Seq(S) /\ Len(SubSeq(down[c], 1, k)) = k
      /\ SubSeq(down[c], k + 1, Len(down[c])) \in Seq(S)
      /\ SubSeq(down[c], 1, k) \o SubSeq(down[c], k + 1, Len(down[c])) = down[c]
  BY <1>3, Split
<1>5. up[c] = <<>> => w = down[c]
  BY <1>2, SubSeqFull
<1> QED
  BY <1>2, <1>3, <1>4, <1>5

\* Every step leaves to each client only what is its own.
LEMMA ContentsStep ==
  ASSUME Kinds, [Next]_vars
  PROVE  Contents'
<1>1. /\ transport' = transport /\ (IsStream' <=> IsStream) /\ Parts' = Parts
      /\ AllPieces' = AllPieces /\ Sendable' = Sendable
      /\ transport \in Transport /\ Parts \in Nat \ {0} /\ AllPieces \in Nat
      /\ Capacity \in Nat /\ \A c \in Client : c # NoClient
  BY SameTransport, NumberFacts, EchoAssumption DEF Kinds, Counters
<1>2. Counters /\ Counters'
  BY CountersStep DEF Kinds
<1>3. \A c \in Client : Genuine(c) \subseteq Genuine(c)' /\ Mine(c) \subseteq Mine(c)'
  BY OwnGrows
<1>4. \A S : <<>> \in Seq(S) /\ Len(<<>>) = 0
  BY EmptySeq
<1>5. /\ \A c \in Client : OwnBuffers(c)
      /\ \A c \in Client :
           /\ up[c] \in Seq(Genuine(c)') /\ Len(up[c]) <= Capacity
           /\ down[c] \in Seq(Mine(c)') /\ Len(down[c]) <= Capacity
           /\ got[c] \in Seq(Mine(c)')
  <2>1. \A c \in Client : OwnBuffers(c)
    BY DEF Kinds, Contents
  <2> QED
    BY <1>3, <2>1, SeqMonotonic DEF OwnBuffers
<1>6. /\ up = [c \in Client |-> up[c]] /\ down = [c \in Client |-> down[c]]
      /\ got = [c \in Client |-> got[c]] /\ conn = [c \in Client |-> conn[c]]
      /\ cpc = [c \in Client |-> cpc[c]]
  BY <1>2 DEF Kinds, Contents, Counters
<1>7. /\ OwnAnswer /\ (spc = "echo" => peer \in Client)
      /\ \A c \in Client : spc = "echo" /\ peer = c =>
           \/ tx \in Seq(Mine(c)) /\ tx \in Seq(Mine(c)')
           \/ IsStream /\ conn[c] \in {"fin", "reset"}
  <2>1. OwnAnswer /\ (spc = "echo" => peer \in Client)
    BY <1>2 DEF Kinds, Contents, Counters
  <2>2. ASSUME NEW c \in Client, spc = "echo", peer = c
        PROVE  \/ tx \in Seq(Mine(c)) /\ tx \in Seq(Mine(c)')
               \/ IsStream /\ conn[c] \in {"fin", "reset"}
    <3>1. tx \in Seq(Mine(c)) \/ (IsStream /\ conn[c] \in {"fin", "reset"})
      BY <2>1, <2>2 DEF OwnAnswer
    <3>2. tx \in Seq(Mine(c)) => tx \in Seq(Mine(c)')
      BY <1>3, SeqMonotonic
    <3> QED
      BY <3>1, <3>2
  <2> QED
    BY <2>1, <2>2
<1>8. ASSUME UNCHANGED <<spc, tx, peer>>,
             \A d \in Client : conn[d] \in {"fin", "reset"} => conn'[d] \in {"fin", "reset"}
      PROVE  OwnAnswer'
  BY <1>1, <1>7, <1>8 DEF OwnAnswer
<1>9. ASSUME UNCHANGED <<up, down, got>>, OwnAnswer' PROVE Contents'
  BY <1>5, <1>6, <1>9 DEF Contents, OwnBuffers
<1>10. ASSUME NEW c \in Client, OwnAnswer',
              \/ up' = up
              \/ \E w : up' = [up EXCEPT ![c] = w] /\ w \in Seq(Genuine(c)') /\ Len(w) <= Capacity,
              \/ down' = down
              \/ \E w : down' = [down EXCEPT ![c] = w] /\ w \in Seq(Mine(c)') /\ Len(w) <= Capacity,
              \/ got' = got
              \/ \E w : got' = [got EXCEPT ![c] = w] /\ w \in Seq(Mine(c)')
       PROVE  Contents'
  <2>1. /\ up' = [d \in Client |-> up'[d]]
        /\ \A d \in Client : up'[d] \in Seq(Genuine(d)') /\ Len(up'[d]) <= Capacity
    BY <1>5, <1>6, <1>10
  <2>2. /\ down' = [d \in Client |-> down'[d]]
        /\ \A d \in Client : down'[d] \in Seq(Mine(d)') /\ Len(down'[d]) <= Capacity
    BY <1>5, <1>6, <1>10
  <2>3. got' = [d \in Client |-> got'[d]] /\ \A d \in Client : got'[d] \in Seq(Mine(d)')
    BY <1>5, <1>6, <1>10
  <2> QED
    BY <1>10, <2>1, <2>2, <2>3 DEF Contents, OwnBuffers
<1>11. ASSUME NEW c \in Client, Living(c), Closes(c), UNCHANGED <<spc, tx, peer>>,
              got' = got \/ got' = [got EXCEPT ![c] = <<>>]
       PROVE  Contents'
  <2>1. /\ down' = [down EXCEPT ![c] = <<>>]
        /\ up' = up \/ up' = [up EXCEPT ![c] = <<>>]
        /\ \A d \in Client : d # c => conn'[d] = conn[d]
    BY <1>2, <1>6, <1>11, ClosesFacts
  <2>2. conn[c] \notin {"fin", "reset"}
    BY <1>2, <1>11 DEF Counters, Living
  <2>3. OwnAnswer'
    BY <1>8, <1>11, <2>1, <2>2
  <2>4. <<>> \in Seq(Genuine(c)') /\ <<>> \in Seq(Mine(c)') /\ Len(<<>>) <= Capacity
    BY <1>1, <1>4
  <2> QED
    BY <1>10, <1>11, <2>1, <2>3, <2>4
<1> USE DEF clientVars, serverVars, netVars
<1>12. CASE UNCHANGED vars
  BY <1>8, <1>9, <1>12 DEF vars
<1>13. ASSUME NEW c \in Client, Connect(c) PROVE Contents'
  <2>1. /\ UNCHANGED <<spc, tx, peer, up, down, got>>
        /\ conn' = conn \/ (cpc[c] = "start" /\ conn' = [conn EXCEPT ![c] = "open"])
    BY <1>13 DEF Connect
  <2>2. \A d \in Client : conn[d] \in {"fin", "reset"} => conn'[d] \in {"fin", "reset"}
    BY <1>2, <1>6, <2>1 DEF Counters
  <2> QED
    BY <1>8, <1>9, <2>1, <2>2
<1>14. ASSUME NEW c \in Client,
              ConnectFails(c) \/ StartRx(c) \/ Unblock(c) \/ RxEnd(c) \/ RxUnblocked(c)
       PROVE  Contents'
  <2>1. UNCHANGED <<spc, tx, peer, conn, up, down, got>>
    BY <1>14 DEF ConnectFails, StartRx, Unblock, RxEnd, RxUnblocked, vars
  <2> QED
    BY <1>8, <1>9, <2>1
<1>15. ASSUME NEW c \in Client, Send(c) PROVE Contents'
  <2>1. PICK k \in 1..Unsent(c) :
          /\ Sent(c, k) /\ cpc[c] = "send"
          /\ IF IsStream
             THEN /\ Len(up[c]) + k <= Capacity
                  /\ up' = [up EXCEPT ![c] = up[c] \o [i \in 1..k |-> Piece(c, nsent[c] + i)]]
             ELSE up' = [up EXCEPT ![c] = Queued(up[c], Piece(c, nsent[c] + 1))]
    BY <1>15 DEF Send
  <2>2. UNCHANGED <<spc, tx, peer, conn, down, got>>
    BY <1>15 DEF Send
  <2>3. /\ nsent' = [nsent EXCEPT ![c] = nsent[c] + k] /\ k \in Nat /\ nsent[c] \in Nat
        /\ nsent[c] + k <= AllPieces
    BY <1>2, <2>1, SentCounters
  <2>4. Genuine(c)' = {x \in Sendable : x.by = c /\ x.at <= nsent[c] + k}
    BY <1>1, <1>2, <2>3 DEF Genuine, Counters
  <2>5. OwnAnswer'
    BY <1>8, <2>2
  <2>6. CASE IsStream
    <3>1. /\ [i \in 1..k |-> Piece(c, nsent[c] + i)] \in Seq(Genuine(c)')
          /\ Len([i \in 1..k |-> Piece(c, nsent[c] + i)]) = k
      BY <1>1, <2>3, <2>4, PutFacts
    <3>2. /\ up[c] \o [i \in 1..k |-> Piece(c, nsent[c] + i)] \in Seq(Genuine(c)')
          /\ Len(up[c] \o [i \in 1..k |-> Piece(c, nsent[c] + i)]) = Len(up[c]) + k
      BY <1>5, <3>1, ConcatProperties
    <3> QED
      BY <1>10, <2>1, <2>2, <2>5, <2>6, <3>2
  <2>7. CASE ~IsStream
    <3>1. Piece(c, nsent[c] + 1) \in Genuine(c)'
      <4>1. 1 <= k
        BY <2>1
      <4>2. nsent[c] + 1 \in 1..AllPieces /\ nsent[c] + 1 <= nsent[c] + k
        BY <1>1, <2>3, <4>1
      <4> QED
        BY <2>4, <4>2 DEF Piece, Sendable
    <3>2. /\ Queued(up[c], Piece(c, nsent[c] + 1)) \in Seq(Genuine(c)')
          /\ Len(Queued(up[c], Piece(c, nsent[c] + 1))) <= Capacity
      BY <1>5, <3>1, QueuedFacts
    <3> QED
      BY <1>10, <2>1, <2>2, <2>5, <2>7, <3>2
  <2> QED
    BY <2>6, <2>7
<1>16. ASSUME NEW c \in Client, SendBroken(c) PROVE Contents'
  <2>1. CASE UNCHANGED <<got, netVars>>
    <3>1. UNCHANGED <<spc, tx, peer>>
      BY <1>16 DEF SendBroken
    <3> QED
      BY <1>8, <1>9, <2>1, <3>1
  <2>2. CASE Dies(c)
    <3>1. UNCHANGED <<spc, tx, peer>> /\ Living(c)
      BY <1>16 DEF SendBroken, Living
    <3>2. Closes(c) /\ got' = [got EXCEPT ![c] = <<>>]
      BY <2>2 DEF Dies
    <3> QED
      BY <1>11, <3>1, <3>2
  <2> QED
    BY <1>16, <2>1, <2>2 DEF SendBroken
<1>17. ASSUME NEW c \in Client, Exit(c) PROVE Contents'
  BY <1>11, <1>17 DEF Exit, Living
<1>18. ASSUME NEW c \in Client, Crash(c) PROVE Contents'
  <2>1. UNCHANGED <<spc, tx, peer>> /\ Living(c)
    BY <1>18 DEF Crash, Living
  <2>2. Closes(c) /\ got' = [got EXCEPT ![c] = <<>>]
    BY <1>18 DEF Crash, Dies
  <2> QED
    BY <1>11, <2>1, <2>2
<1>19. ASSUME NEW c \in Client, RxShows(c) PROVE Contents'
  <2>1. PICK t \in Takes(down[c]) : got' = [got EXCEPT ![c] = got[c] \o t.now]
                                    /\ down' = [down EXCEPT ![c] = t.left]
    BY <1>19 DEF RxShows
  <2>2. UNCHANGED <<spc, tx, peer, conn, up>>
    BY <1>19 DEF RxShows
  <2>3. /\ t.now \in Seq(Mine(c)') /\ t.left \in Seq(Mine(c)') /\ Len(t.left) < Len(down[c])
        /\ Len(t.left) \in Nat /\ Len(down[c]) \in Nat
    BY <1>1, <1>5, TakesFacts, LenProperties
  <2>4. got[c] \o t.now \in Seq(Mine(c)')
    BY <1>5, <2>3, ConcatProperties
  <2>5. Len(t.left) <= Capacity
    BY <1>1, <1>5, <2>3
  <2>6. OwnAnswer'
    BY <1>8, <2>2
  <2> QED
    BY <1>10, <2>1, <2>2, <2>3, <2>4, <2>5, <2>6
<1>20. CASE waitForConnection
  <2>1. /\ spc = "accept" /\ spc' = "recive" /\ UNCHANGED <<tx, got>>
        /\ \/ UNCHANGED <<up, down>>
           \/ /\ peer # NoClient /\ up' = [up EXCEPT ![peer] = <<>>]
              /\ \E w \in Arriving(peer) : down' = [down EXCEPT ![peer] = w]
    BY <1>20 DEF waitForConnection, AcceptStream
  <2>2. OwnAnswer'
    BY <1>1, <1>7, <2>1 DEF OwnAnswer
  <2>3. CASE UNCHANGED <<up, down>>
    BY <1>9, <2>1, <2>2, <2>3
  <2>4. CASE peer # NoClient /\ ~UNCHANGED <<up, down>>
    <3>0. PICK c \in Client : c = peer
      BY <1>2, <2>4 DEF Counters
    <3>1. PICK w \in Arriving(c) : down' = [down EXCEPT ![c] = w]
      BY <2>1, <2>4, <3>0
    <3>2. up' = [up EXCEPT ![c] = <<>>]
      BY <2>1, <2>4, <3>0
    <3>3. w \in Seq(Mine(c)') /\ Len(w) <= Len(down[c])
      BY <1>5, ArrivingFacts
    <3>4. Len(w) <= Capacity
      BY <1>1, <1>5, <3>3, LenProperties
    <3>5. <<>> \in Seq(Genuine(c)') /\ Len(<<>>) <= Capacity
      BY <1>1, <1>4
    <3> QED
      BY <1>10, <2>1, <2>2, <3>1, <3>2, <3>3, <3>4, <3>5
  <2> QED
    BY <2>1, <2>3, <2>4
<1>21. CASE Recive
  <2>1. PICK c \in (IF IsStream THEN {peer} ELSE Client) : \E t \in Takes(up[c]) :
          /\ up' = [up EXCEPT ![c] = t.left] /\ peer' = c /\ Answers(t.now)
          /\ cut' = IF Answer(t.now) = t.now THEN cut ELSE cut \cup {c}
    BY <1>21 DEF Recive
  <2>2. PICK t \in Takes(up[c]) :
          /\ up' = [up EXCEPT ![c] = t.left] /\ peer' = c /\ Answers(t.now)
          /\ cut' = IF Answer(t.now) = t.now THEN cut ELSE cut \cup {c}
    BY <2>1
  <2>3. c \in Client /\ UNCHANGED <<down, got>>
    BY <1>2, <1>21 DEF Recive, Counters
  <2>4. /\ t.now \in Seq(Genuine(c)') /\ t.left \in Seq(Genuine(c)')
        /\ Len(t.left) < Len(up[c]) /\ Len(t.left) \in Nat /\ Len(up[c]) \in Nat
    BY <1>1, <1>5, <2>3, TakesFacts, LenProperties
  <2>5. Answer(t.now) \in Seq(Genuine(c)' \cup {Blank}) /\ Len(Answer(t.now)) = Parts
    BY <1>1, <2>4, AnswerFacts
  <2>6. Answer(t.now) \in Seq(Mine(c)')
    <3>1. CASE Answer(t.now) = t.now
      <4>1. Genuine(c)' \subseteq Mine(c)'
        BY DEF Mine
      <4> QED
        BY <2>4, <3>1, <4>1, SeqMonotonic
    <3>2. CASE Answer(t.now) # t.now
      <4>1. c \in cut'
        BY <2>2, <3>2
      <4>2. Mine(c)' = Genuine(c)' \cup {Blank}
        BY <4>1 DEF Mine, Blank
      <4> QED
        BY <2>5, <4>2
    <3> QED
      BY <3>1, <3>2
  <2>7. tx' = Answer(t.now) /\ spc' = "echo"
    BY <2>2 DEF Answers
  <2>8. tx' # <<>>
    <3>1. Len(tx') # 0
      BY <1>1, <2>5, <2>7
    <3> QED
      BY <1>4, <3>1
  <2>9. OwnAnswer'
    <3>1. Genuine(c)' \cup {Blank} \subseteq Sendable \cup {Blank}
      BY <1>1 DEF Genuine
    <3>2. tx' \in Seq(Sendable \cup {Blank})
      BY <2>5, <2>7, <3>1, SeqMonotonic
    <3>3. tx' \in Seq(Mine(peer)')
      BY <2>2, <2>6, <2>7
    <3> QED
      BY <1>1, <2>2, <2>6, <2>7, <2>8, <3>2 DEF OwnAnswer, Blank, Mine, Genuine
  <2>10. Len(t.left) <= Capacity
    BY <1>1, <1>5, <2>3, <2>4
  <2> QED
    BY <1>10, <2>2, <2>3, <2>4, <2>9, <2>10
<1>22. CASE ReciveEnd
  <2>1. /\ IsStream /\ conn[peer] \in {"fin", "reset"} /\ Answers(<<>>)
        /\ UNCHANGED <<peer, netVars, got>>
    BY <1>22 DEF ReciveEnd
  <2>2. tx' = Answer(<<>>) /\ spc' = "echo"
    BY <2>1 DEF Answers
  <2>3. Answer(<<>>) \in Seq(Sendable \cup {Blank}) /\ Len(Answer(<<>>)) = Parts
    BY <1>1, <1>4, AnswerFacts
  <2>4. tx' # <<>>
    <3>1. Len(tx') # 0
      BY <1>1, <2>2, <2>3
    <3> QED
      BY <1>4, <3>1
  <2>5. OwnAnswer'
    BY <1>1, <2>1, <2>2, <2>3, <2>4 DEF OwnAnswer, Blank
  <2> QED
    BY <1>9, <2>1, <2>5
<1>23. CASE Echo
  <2>1. spc = "echo" /\ peer \in Client /\ UNCHANGED <<up, got, peer>>
    BY <1>7, <1>23 DEF Echo
  <2>2. CASE IsStream /\ conn[peer] = "fin"
    <3>1. UNCHANGED down /\ tx' = <<>> /\ spc' # "echo"
      BY <1>23, <2>2 DEF Echo, Answered
    <3>2. OwnAnswer'
      BY <1>4, <3>1 DEF OwnAnswer
    <3> QED
      BY <1>9, <2>1, <3>1, <3>2
  <2>3. CASE ~(IsStream /\ conn[peer] = "fin")
    <3>1. PICK k \in 1..Len(tx) :
            /\ IsStream => conn[peer] = "open" /\ Len(down[peer]) + k <= Capacity
            /\ down' = [down EXCEPT ![peer] = IF IsStream THEN down[peer] \o SubSeq(tx, 1, k)
                                              ELSE Queued(down[peer], tx[1])]
            /\ Answered(SubSeq(tx, k + 1, Len(tx)))
      BY <1>23, <2>3 DEF Echo
    <3>2. tx \in Seq(Mine(peer)') /\ conn' = conn
      BY <1>7, <1>23, <2>1, <2>3, <3>1 DEF Echo
    <3>3. Len(tx) \in Nat /\ k \in 0..Len(tx) /\ 1 \in 1..Len(tx)
      BY <3>2, LenProperties
    <3>4. /\ SubSeq(tx, 1, k) \in Seq(Mine(peer)') /\ Len(SubSeq(tx, 1, k)) = k
          /\ SubSeq(tx, k + 1, Len(tx)) \in Seq(Mine(peer)') /\ tx[1] \in Mine(peer)'
      BY <3>2, <3>3, Split, ElementOfSeq
    <3>5. \E w : /\ down' = [down EXCEPT ![peer] = w]
                 /\ w \in Seq(Mine(peer)') /\ Len(w) <= Capacity
      <4>1. CASE IsStream
        <5>1. /\ down[peer] \o SubSeq(tx, 1, k) \in Seq(Mine(peer)')
              /\ Len(down[peer] \o SubSeq(tx, 1, k)) = Len(down[peer]) + k
          BY <1>5, <2>1, <3>4, ConcatProperties
        <5> QED
          BY <3>1, <4>1, <5>1
      <4>2. CASE ~IsStream
        <5>1. /\ Queued(down[peer], tx[1]) \in Seq(Mine(peer)')
              /\ Len(Queued(down[peer], tx[1])) <= Capacity
          BY <1>5, <2>1, <3>4, QueuedFacts
        <5> QED
          BY <3>1, <4>2, <5>1
      <4> QED
        BY <4>1, <4>2
    <3>6. /\ tx' = SubSeq(tx, k + 1, Len(tx))
          /\ spc' = IF tx' # <<>> THEN "echo" ELSE IF active THEN "recive" ELSE "accept"
      BY <3>1 DEF Answered
    <3>7. tx' \in Seq(Sendable \cup {Blank})
      <4>1. tx \in Seq(Sendable \cup {Blank})
        BY <1>7 DEF OwnAnswer
      <4> QED
        BY <3>3, <3>6, <4>1, Split
    <3>8. OwnAnswer'
      <4>1. tx' \in Seq(Mine(peer)) ' /\ (spc' = "echo" <=> tx' # <<>>)
        BY <2>1, <3>4, <3>6
      <4> QED
        BY <1>1, <3>7, <4>1 DEF OwnAnswer, Blank
    <3> QED
      BY <1>10, <2>1, <3>5, <3>8
  <2> QED
    BY <2>2, <2>3
<1>24. CASE EchoBroken \/ ServerFails
  <2>1. ServerDies
    BY <1>24 DEF EchoBroken, ServerFails
  <2>2. spc' = "dead" /\ tx' = <<>> /\ UNCHANGED got
    BY <2>1 DEF ServerDies
  <2>3. OwnAnswer'
    BY <1>4, <2>2 DEF OwnAnswer
  <2>4. up' = up \/ up' = [c \in Client |-> <<>>]
    BY <2>1 DEF ServerDies
  <2>5. /\ up' = [d \in Client |-> up'[d]]
        /\ \A d \in Client : up'[d] \in Seq(Genuine(d)') /\ Len(up'[d]) <= Capacity
    <3>1. \A d \in Client : <<>> \in Seq(Genuine(d)') /\ Len(<<>>) <= Capacity
      BY <1>1, <1>4
    <3> QED
      BY <1>5, <1>6, <2>4, <3>1
  <2>6. down' = down \/ (peer \in Client /\ \E w \in Arriving(peer) : down' = [down EXCEPT ![peer] = w])
    BY <1>2, <2>1 DEF ServerDies, Counters
  <2>7. /\ down' = [d \in Client |-> down'[d]]
        /\ \A d \in Client : down'[d] \in Seq(Mine(d)') /\ Len(down'[d]) <= Capacity
    <3>1. CASE down' = down
      BY <1>5, <1>6, <3>1
    <3>2. CASE peer \in Client /\ \E w \in Arriving(peer) : down' = [down EXCEPT ![peer] = w]
      <4>0. PICK c \in Client : c = peer
        BY <3>2
      <4>1. PICK w \in Arriving(c) : down' = [down EXCEPT ![c] = w]
        BY <3>2, <4>0
      <4>2. w \in Seq(Mine(c)') /\ Len(w) <= Len(down[c])
        BY <1>5, ArrivingFacts
      <4>3. Len(w) <= Capacity
        BY <1>1, <1>5, <4>2, LenProperties
      <4> QED
        BY <1>5, <1>6, <4>1, <4>2, <4>3
    <3> QED
      BY <2>6, <3>1, <3>2
  <2> QED
    BY <1>5, <1>6, <2>2, <2>3, <2>5, <2>7 DEF Contents, OwnBuffers
<1>25. ASSUME NEW c \in Client, Lose(c) \/ Duplicate(c) PROVE Contents'
  <2>1. UNCHANGED <<spc, tx, peer, conn, got>>
    BY <1>25 DEF Lose, Duplicate
  <2>2. OwnAnswer'
    BY <1>8, <2>1
  <2>3. ASSUME NEW S, NEW w \in Seq(S), Len(w) <= Capacity, NEW i \in 1..Len(w)
        PROVE  /\ Without(w, i) \in Seq(S) /\ Len(Without(w, i)) <= Capacity
               /\ Queued(w, w[i]) \in Seq(S) /\ Len(Queued(w, w[i])) <= Capacity
    <3>1. /\ w[i] \in S /\ Without(w, i) \in Seq(S) /\ Len(Without(w, i)) = Len(w) - 1
          /\ Len(w) \in Nat
      BY WithoutFacts, LenProperties
    <3>2. Len(w) - 1 <= Capacity
      BY <1>1, <2>3, <3>1
    <3> QED
      BY <2>3, <3>1, <3>2, QueuedFacts
  <2>4. CASE /\ \E i \in 1..Len(up[c]) : \/ up' = [up EXCEPT ![c] = Without(up[c], i)]
                                         \/ up' = [up EXCEPT ![c] = Queued(up[c], up[c][i])]
             /\ UNCHANGED down
    <3>1. PICK i \in 1..Len(up[c]) : \/ up' = [up EXCEPT ![c] = Without(up[c], i)]
                                     \/ up' = [up EXCEPT ![c] = Queued(up[c], up[c][i])]
      BY <2>4
    <3>2. /\ Without(up[c], i) \in Seq(Genuine(c)') /\ Len(Without(up[c], i)) <= Capacity
          /\ Queued(up[c], up[c][i]) \in Seq(Genuine(c)')
          /\ Len(Queued(up[c], up[c][i])) <= Capacity
      BY <1>5, <2>3
    <3> QED
      BY <1>10, <2>1, <2>2, <2>4, <3>1, <3>2
  <2>5. CASE /\ \E i \in 1..Len(down[c]) : \/ down' = [down EXCEPT ![c] = Without(down[c], i)]
                                           \/ down' = [down EXCEPT ![c] = Queued(down[c], down[c][i])]
             /\ UNCHANGED up
    <3>1. PICK i \in 1..Len(down[c]) : \/ down' = [down EXCEPT ![c] = Without(down[c], i)]
                                       \/ down' = [down EXCEPT ![c] = Queued(down[c], down[c][i])]
      BY <2>5
    <3>2. /\ Without(down[c], i) \in Seq(Mine(c)') /\ Len(Without(down[c], i)) <= Capacity
          /\ Queued(down[c], down[c][i]) \in Seq(Mine(c)')
          /\ Len(Queued(down[c], down[c][i])) <= Capacity
      BY <1>5, <2>3
    <3> QED
      BY <1>10, <2>1, <2>2, <2>5, <3>1, <3>2
  <2> QED
    BY <1>25, <2>4, <2>5 DEF Lose, Duplicate
<1> QED
  BY <1>12, <1>13, <1>14, <1>15, <1>16, <1>17, <1>18, <1>19, <1>20, <1>21, <1>22, <1>23,
     <1>24, <1>25 DEF Next, MainStep, RxStep, ServerStep

\* The counters and the contents have the types TypeOK names.
LEMMA KindsTyped == Kinds => TypeOK
<1> SUFFICES ASSUME Kinds PROVE TypeOK
  OBVIOUS
<1>1. \A c \in Client : OwnBuffers(c)
  BY DEF Kinds, Contents
<1>2. \A c \in Client : Genuine(c) \subseteq Sendable /\ Mine(c) \subseteq Sendable \cup {Blank}
  BY DEF Genuine, Mine
<1>3. \A c \in Client :
        /\ up[c] \in Seq(Sendable) /\ down[c] \in Seq(Sendable \cup {Blank})
        /\ got[c] \in Seq(Sendable \cup {Blank})
  BY <1>1, <1>2, SeqMonotonic DEF OwnBuffers
<1>4. /\ up = [c \in Client |-> up[c]] /\ down = [c \in Client |-> down[c]]
      /\ got = [c \in Client |-> got[c]] /\ tx \in Seq(Sendable \cup {Blank})
  BY DEF Kinds, Contents, OwnAnswer
<1>5. /\ up \in [Client -> Seq(Sendable)] /\ down \in [Client -> Seq(Sendable \cup {Blank})]
      /\ got \in [Client -> Seq(Sendable \cup {Blank})]
  BY <1>3, <1>4
<1>6. \A c \in Client : Len(up[c]) <= Capacity /\ Len(down[c]) <= Capacity
  BY <1>1 DEF OwnBuffers
<1> QED
  BY <1>4, <1>5, <1>6 DEF Kinds, Counters, TypeOK

\* Counters and threads stay in their ranges, no buffer holds more than it has room
\* for, and only pieces of clients or blanks are under way.
THEOREM TypeCorrect == Spec => []TypeOK
<1>1. Init => Kinds
  BY InitKinds
<1>2. Kinds /\ [Next]_vars => Kinds'
  BY CountersStep, ContentsStep DEF Kinds
<1>3. Kinds => TypeOK
  BY KindsTyped
<1> QED
  BY <1>1, <1>2, <1>3, PTL DEF Spec

-----------------------------------------------------------------------------
(* The pieces of one client over TCP *)

Stuff == Sendable \cup {Blank}

Live(c) == cpc[c] \in {"start", "connected", "send", "sleep", "join"}

\* The server is done with c.
Left(c) == \/ conn[c] = "closed"
           \/ peer = c /\ (spc = "accept" \/ (spc = "echo" /\ ~active))

\* The pieces of w that are no blanks ascend, up to n, or from n on.
Rising(w)   == \A i, j \in 1..Len(w) :
                 i < j /\ w[i] # Blank /\ w[j] # Blank => w[i].at < w[j].at
Upto(w, n)  == \A i \in 1..Len(w) : w[i] # Blank => w[i].at <= n
After(w, n) == \A i \in 1..Len(w) : w[i] # Blank => n < w[i].at

\* What c has sent and the server has not read are c's last pieces.
LastSent(c) ==
    /\ Len(up[c]) <= nsent[c]
    /\ \A i \in 1..Len(up[c]) : up[c][i] = Piece(c, nsent[c] - Len(up[c]) + i)
    /\ conn[c] = "closed" => up[c] = <<>>

\* Nothing happens for a client that has not connected.
Untouched(c) ==
    cpc[c] \in {"start", "failed"} =>
        /\ nsent[c] = 0 /\ got[c] = <<>> /\ down[c] = <<>> /\ up[c] = <<>>
        /\ conn[c] = "none" /\ peer # c
        /\ \A i \in 1..Len(backlog) : backlog[i] # c

\* What comes back ascends and is older than what the server has not read.
Ordered(c) ==
    /\ Live(c) => Rising(Back(c)) /\ Upto(Back(c), nsent[c] - Len(up[c]))
    /\ ~Live(c) => Rising(got[c]) /\ down[c] = <<>>

\* Of a client whose objects were received as a whole no piece is missing, and
\* the server leaves it after its last piece.
Complete(c) == Live(c) /\ c \notin cut /\ spc # "dead" => Row(c) = Requested(c)
Finished(c) == Live(c) /\ c \notin cut /\ spc # "dead" /\ Left(c) =>
                  nsent[c] = AllPieces /\ up[c] = <<>>

StreamOf(c) == LastSent(c) /\ Ordered(c) /\ Complete(c) /\ Finished(c)

StreamInv == IsStream => /\ \A c \in Client : Untouched(c) /\ StreamOf(c)
                         /\ spc = "recive" => active

\* The places of c's pieces are sequences.
LEMMA Places ==
  ASSUME Kinds, NEW c \in Client
  PROVE  /\ got[c] \in Seq(Stuff) /\ down[c] \in Seq(Stuff) /\ up[c] \in Seq(Stuff)
         /\ Held(c) \in Seq(Stuff) /\ up[c] \in Seq(Sendable)
         /\ Back(c) \in Seq(Stuff) /\ Row(c) \in Seq(Stuff)
         /\ Len(up[c]) \in Nat /\ nsent[c] \in Nat /\ nsent[c] <= AllPieces /\ AllPieces \in Nat
<1>1. OwnBuffers(c) /\ Genuine(c) \subseteq Sendable /\ Mine(c) \subseteq Stuff
      /\ tx \in Seq(Stuff) /\ nsent[c] \in 0..AllPieces /\ AllPieces \in Nat
  BY NumberFacts DEF Kinds, Contents, OwnAnswer, Genuine, Mine, Stuff, Counters
<1>2. /\ up[c] \in Seq(Sendable) /\ down[c] \in Seq(Stuff) /\ got[c] \in Seq(Stuff)
  BY <1>1, SeqMonotonic DEF OwnBuffers
<1>3. up[c] \in Seq(Stuff)
  BY <1>2, SeqMonotonic DEF Stuff
<1>4. Held(c) \in Seq(Stuff)
  <2>1. <<>> \in Seq(Stuff)
    BY EmptySeq
  <2> QED
    BY <1>1, <2>1 DEF Held
<1>5. Back(c) \in Seq(Stuff) /\ Row(c) \in Seq(Stuff)
  <2>1. got[c] \o down[c] \in Seq(Stuff)
    BY <1>2, ConcatProperties
  <2>2. Back(c) \in Seq(Stuff)
    BY <1>4, <2>1, ConcatProperties DEF Back
  <2> QED
    BY <1>3, <2>2, ConcatProperties DEF Row
<1> QED
  BY <1>1, <1>2, <1>3, <1>4, <1>5, LenProperties

BackTyped == \A c \in Client : Back(c) \in Seq(Stuff)

LEMMA BackAfter == Kinds' => BackTyped'
<1>1. Kinds => BackTyped
  BY Places DEF BackTyped
<1> QED
  BY <1>1, PTL

\* A prefix ascends as the whole does.
LEMMA RisingPrefix ==
  ASSUME NEW u \in Seq(Stuff), NEW v \in Seq(Stuff), NEW n, Rising(u \o v)
  PROVE  Rising(u) /\ (Upto(u \o v, n) => Upto(u, n))
<1>1. /\ Len(u) \in Nat /\ Len(v) \in Nat /\ Len(u \o v) = Len(u) + Len(v)
      /\ \A i \in 1..(Len(u) + Len(v)) :
           (u \o v)[i] = IF i <= Len(u) THEN u[i] ELSE v[i - Len(u)]
  BY ConcatProperties, LenProperties
<1>2. \A i \in 1..Len(u) : i \in 1..Len(u \o v) /\ (u \o v)[i] = u[i]
  BY <1>1
<1>3. Rising(u)
  BY <1>2 DEF Rising
<1>4. Upto(u \o v, n) => Upto(u, n)
  BY <1>2 DEF Upto
<1> QED
  BY <1>3, <1>4

\* What ascends goes on with greater pieces.
LEMMA RisingGrows ==
  ASSUME NEW u \in Seq(Stuff), NEW v \in Seq(Stuff), NEW n \in Int, NEW m \in Int, n <= m,
         Rising(u), Upto(u, n), Rising(v), After(v, n), Upto(v, m)
  PROVE  Rising(u \o v) /\ Upto(u \o v, m)
<1>1. /\ Len(u) \in Nat /\ Len(v) \in Nat /\ Len(u \o v) = Len(u) + Len(v)
      /\ \A i \in 1..(Len(u) + Len(v)) :
           (u \o v)[i] = IF i <= Len(u) THEN u[i] ELSE v[i - Len(u)]
  BY ConcatProperties, LenProperties
<1>2. \A x \in Stuff : x # Blank => x.at \in Int
  BY DEF Stuff, Sendable
<1>3. (\A i \in 1..Len(u) : u[i] \in Stuff) /\ (\A i \in 1..Len(v) : v[i] \in Stuff)
  BY ElementOfSeq
<1>4. \A i \in 1..Len(u \o v) : \/ i \in 1..Len(u) /\ (u \o v)[i] = u[i]
                                \/ /\ ~(i <= Len(u)) /\ i - Len(u) \in 1..Len(v)
                                   /\ (u \o v)[i] = v[i - Len(u)]
  BY <1>1
<1>5. Upto(u \o v, m)
  <2> SUFFICES ASSUME NEW i \in 1..Len(u \o v), (u \o v)[i] # Blank
               PROVE  (u \o v)[i].at <= m
    BY DEF Upto
  <2>1. CASE i \in 1..Len(u) /\ (u \o v)[i] = u[i]
    <3>1. u[i].at \in Int /\ u[i].at <= n
      BY <1>2, <1>3, <2>1 DEF Upto
    <3> QED
      BY <2>1, <3>1
  <2>2. CASE i - Len(u) \in 1..Len(v) /\ (u \o v)[i] = v[i - Len(u)]
    BY <2>2 DEF Upto
  <2> QED
    BY <1>4, <2>1, <2>2
<1>6. Rising(u \o v)
  <2> SUFFICES ASSUME NEW i \in 1..Len(u \o v), NEW j \in 1..Len(u \o v), i < j,
                      (u \o v)[i] # Blank, (u \o v)[j] # Blank
               PROVE  (u \o v)[i].at < (u \o v)[j].at
    BY DEF Rising
  <2>1. CASE i \in 1..Len(u) /\ j \in 1..Len(u)
    <3>1. (u \o v)[i] = u[i] /\ (u \o v)[j] = u[j]
      BY <1>1, <1>4, <2>1
    <3> QED
      BY <2>1, <3>1 DEF Rising
  <2>2. CASE i \in 1..Len(u) /\ j \notin 1..Len(u)
    <3>1. /\ (u \o v)[i] = u[i] /\ (u \o v)[j] = v[j - Len(u)] /\ j - Len(u) \in 1..Len(v)
      BY <1>1, <1>4, <2>2
    <3>2. u[i].at \in Int /\ v[j - Len(u)].at \in Int
      BY <1>2, <1>3, <2>2, <3>1
    <3>3. u[i].at <= n /\ n < v[j - Len(u)].at
      BY <2>2, <3>1 DEF Upto, After
    <3> QED
      BY <3>1, <3>2, <3>3
  <2>3. CASE i \notin 1..Len(u)
    <3>1. ~(i <= Len(u)) /\ ~(j <= Len(u))
      BY <1>1, <1>4, <2>3
    <3>2. /\ (u \o v)[i] = v[i - Len(u)] /\ i - Len(u) \in 1..Len(v)
          /\ (u \o v)[j] = v[j - Len(u)] /\ j - Len(u) \in 1..Len(v)
      BY <1>1, <1>4, <2>3, <3>1
    <3>3. i - Len(u) < j - Len(u)
      BY <1>1
    <3> QED
      BY <3>2, <3>3 DEF Rising
  <2> QED
    BY <2>1, <2>2, <2>3
<1> QED
  BY <1>5, <1>6

\* An answer to the pieces from n on ascends from n on.
LEMMA AnswerRises ==
  ASSUME transport \in Transport, NEW c \in Client, NEW n \in Nat, NEW s \in Seq(Sendable),
         \A p \in 1..Len(s) : s[p] = Piece(c, n + p)
  PROVE  /\ Answer(s) \in Seq(Stuff)
         /\ Rising(Answer(s)) /\ After(Answer(s), n) /\ Upto(Answer(s), n + Len(s))
<1>1. /\ Answer(s) \in Seq(Stuff) /\ Len(Answer(s)) = Parts /\ Len(s) \in Nat
      /\ \A p \in 1..Parts : \/ Answer(s)[p] = Blank
                             \/ p \in 1..Len(s) /\ Answer(s)[p] = s[p]
  BY AnswerFacts, LenProperties DEF Stuff
<1>2. \A p \in 1..Parts : Answer(s)[p] # Blank => p \in 1..Len(s) /\ Answer(s)[p].at = n + p
  <2> TAKE p \in 1..Parts
  <2> HAVE Answer(s)[p] # Blank
  <2>1. p \in 1..Len(s) /\ Answer(s)[p] = s[p]
    BY <1>1
  <2>2. s[p] = Piece(c, n + p)
    BY <2>1
  <2>3. Piece(c, n + p).at = n + p
    BY DEF Piece
  <2> QED
    BY <2>1, <2>2, <2>3
<1>3. Parts \in Nat
  BY NumberFacts
<1>4. Rising(Answer(s))
  BY <1>1, <1>2, <1>3 DEF Rising
<1>5. After(Answer(s), n)
  BY <1>1, <1>2, <1>3 DEF After
<1>6. Upto(Answer(s), n + Len(s))
  BY <1>1, <1>2, <1>3 DEF Upto
<1> QED
  BY <1>1, <1>4, <1>5, <1>6

LEMMA UptoMore ==
  ASSUME NEW w \in Seq(Stuff), NEW n \in Int, NEW m \in Int, n <= m, Upto(w, n)
  PROVE  Upto(w, m)
<1> SUFFICES ASSUME NEW i \in 1..Len(w), w[i] # Blank PROVE w[i].at <= m
  BY DEF Upto
<1>1. w[i] \in Stuff
  BY ElementOfSeq
<1>2. w[i].at \in Int
  BY <1>1 DEF Stuff, Sendable
<1>3. w[i].at <= n
  BY DEF Upto
<1> QED
  BY <1>2, <1>3

\* A step that leaves the pieces of d where they are, or moves them along.
LEMMA StreamKept ==
  ASSUME Kinds, [Next]_vars, NEW d \in Client, StreamOf(d),
         nsent'[d] = nsent[d], up'[d] = up[d],
         Live(d)' => Live(d) /\ Back(d)' = Back(d),
         ~Live(d)' => ~Live(d) /\ got'[d] = got[d] /\ down'[d] = down[d],
         d \in cut => d \in cut', spc = "dead" => spc' = "dead",
         Live(d)' /\ spc' # "dead" /\ Left(d)' => Left(d),
         conn'[d] = "closed" => up[d] = <<>>
  PROVE  StreamOf(d)'
<1>0. AllPieces' = AllPieces
  BY SameTransport DEF Kinds
<1>1. LastSent(d)'
  BY DEF StreamOf, LastSent, Piece
<1>2. Ordered(d)'
  BY DEF StreamOf, Ordered, Rising, Upto
<1>3. Complete(d)'
  <2>1. SUFFICES ASSUME Live(d)', d \notin cut', spc' # "dead" PROVE Row(d)' = Requested(d)'
    BY DEF Complete
  <2>2. Row(d) = Requested(d) /\ Back(d)' = Back(d)
    BY <2>1 DEF StreamOf, Complete
  <2>3. Row(d)' = Row(d)
    BY <2>2 DEF Row
  <2>4. Requested(d)' = Requested(d)
    BY DEF Requested, Piece
  <2> QED
    BY <2>2, <2>3, <2>4
<1>4. Finished(d)'
  BY <1>0 DEF StreamOf, Finished
<1> QED
  BY <1>1, <1>2, <1>3, <1>4 DEF StreamOf

\* A step that loses pieces of d: d or the server ends, or d was out of step before.
LEMMA StreamLost ==
  ASSUME Kinds, [Next]_vars, Kinds', NEW d \in Client, StreamOf(d),
         nsent'[d] = nsent[d], up'[d] \in {up[d], <<>>},
         Live(d)' => /\ Live(d) /\ (d \in cut' \/ spc' = "dead")
                     /\ \E v \in Seq(Stuff) : Back(d) = Back(d)' \o v,
         ~Live(d)' => Rising(got'[d]) /\ down'[d] = <<>>,
         conn'[d] = "closed" => up'[d] = <<>>
  PROVE  StreamOf(d)'
<1>0. AllPieces' = AllPieces /\ Stuff' = Stuff
  BY SameTransport DEF Kinds, Stuff, Blank
<1>1. /\ Len(up[d]) \in Nat /\ nsent[d] \in Nat /\ Len(up[d]) <= nsent[d]
      /\ Len(<<>>) = 0
  BY Places, EmptySeq DEF StreamOf, LastSent
<1>2. LastSent(d)'
  <2>1. CASE up'[d] = up[d]
    BY <2>1 DEF StreamOf, LastSent, Piece
  <2>2. CASE up'[d] = <<>>
    BY <1>1, <2>2 DEF LastSent
  <2> QED
    BY <2>1, <2>2
<1>3. Ordered(d)'
  <2>1. ASSUME Live(d)'
        PROVE  Rising(Back(d)') /\ Upto(Back(d)', nsent'[d] - Len(up'[d]))
    <3>1. PICK v \in Seq(Stuff) : Back(d) = Back(d)' \o v
      BY <2>1
    <3>2. Back(d)' \in Seq(Stuff)
      <4>1. Back(d)' \in Seq(Stuff')
        BY BackAfter DEF BackTyped
      <4> QED
        BY <1>0, <4>1
    <3>3. Rising(Back(d)) /\ Upto(Back(d), nsent[d] - Len(up[d]))
      BY <2>1 DEF StreamOf, Ordered
    <3>4. Rising(Back(d)') /\ Upto(Back(d)', nsent[d] - Len(up[d]))
      BY <3>1, <3>2, <3>3, RisingPrefix
    <3>5. /\ nsent[d] - Len(up[d]) \in Int /\ nsent'[d] - Len(up'[d]) \in Int
          /\ nsent[d] - Len(up[d]) <= nsent'[d] - Len(up'[d])
      BY <1>1
    <3> QED
      BY <3>2, <3>4, <3>5, UptoMore
  <2> QED
    BY <2>1 DEF Ordered
<1>4. Complete(d)' /\ Finished(d)'
  BY DEF Complete, Finished
<1> QED
  BY <1>2, <1>3, <1>4 DEF StreamOf

\* Joining sequences.
LEMMA Joined ==
  ASSUME NEW S, NEW x \in Seq(S), NEW y \in Seq(S), NEW z \in Seq(S)
  PROVE  /\ (x \o y) \o z = x \o (y \o z)
         /\ x \o y \in Seq(S) /\ y \o z \in Seq(S) /\ x \o <<>> = x
         /\ x \o y = <<>> => x = <<>>
<1>1. (x \o y) \o z = x \o (y \o z)
  BY ConcatAssociative
<1>2. x \o y \in Seq(S)
  BY ConcatProperties
<1>3. y \o z \in Seq(S)
  BY ConcatProperties
<1>4. x \o <<>> = x
  BY ConcatEmptySeq
<1>5. x \o y = <<>> => x = <<>>
  BY ConcatEqualIffEmpty
<1> QED
  BY <1>1, <1>2, <1>3, <1>4, <1>5

\* What the kernel still delivers when the server closes d's connection.
LEMMA ArrivesWhole ==
  ASSUME Kinds, NEW d \in Client, NEW w \in Arriving(d)
  PROVE  /\ w \in Seq(Stuff) /\ \E v \in Seq(Stuff) : down[d] = w \o v
         /\ up[d] = <<>> => w = down[d]
<1>1. down[d] \in Seq(Stuff)
  BY Places
<1> QED
  BY <1>1, ArrivingFacts

\* Nothing happens for a client before it connects.
LEMMA UntouchedStep ==
  ASSUME Kinds, [Next]_vars, IsStream, \A c \in Client : Untouched(c), NEW d \in Client
  PROVE  Untouched(d)'
<1>1. Counters /\ \A S : <<>> \in Seq(S) /\ Len(<<>>) = 0
  BY EmptySeq DEF Kinds
<1>2. down = [c \in Client |-> down[c]] /\ up = [c \in Client |-> up[c]]
      /\ got = [c \in Client |-> got[c]]
  BY DEF Kinds, Contents
<1> DEFINE Early == cpc[d] \in {"start", "failed"}
<1>3. ASSUME cpc'[d] = cpc[d], nsent'[d] = nsent[d],
             Early => got'[d] = got[d] /\ down'[d] = down[d] /\ up'[d] = up[d]
                      /\ conn'[d] = conn[d] /\ peer' # d
                      /\ \A i \in 1..Len(backlog') : backlog'[i] # d
      PROVE  Untouched(d)'
  BY <1>3 DEF Untouched
<1>4. Early => /\ nsent[d] = 0 /\ got[d] = <<>> /\ down[d] = <<>> /\ up[d] = <<>>
               /\ conn[d] = "none" /\ peer # d /\ \A i \in 1..Len(backlog) : backlog[i] # d
  BY DEF Untouched
<1> USE DEF Goes, clientVars, serverVars, netVars
<1>5. CASE UNCHANGED vars
  BY <1>5 DEF vars, Untouched
<1>6. ASSUME NEW c \in Client, Connect(c) PROVE Untouched(d)'
  <2>1. /\ cpc' = [cpc EXCEPT ![c] = "connected"] /\ cpc[c] = "start"
        /\ UNCHANGED <<nsent, got, down, up, peer>>
        /\ conn' = [conn EXCEPT ![c] = "open"] /\ backlog' = Append(backlog, c)
    BY <1>6 DEF Connect
  <2>2. CASE c = d
    BY <1>1, <2>1, <2>2 DEF Untouched, Counters
  <2>3. CASE c # d
    <3>1. cpc'[d] = cpc[d] /\ conn'[d] = conn[d]
      BY <1>1, <2>1, <2>3 DEF Counters
    <3>2. /\ Len(backlog') = Len(backlog) + 1 /\ Len(backlog) \in Nat
          /\ \A i \in 1..Len(backlog) : backlog'[i] = backlog[i]
          /\ backlog'[Len(backlog) + 1] = c
      BY <1>1, <2>1, AppendProperties, LenProperties DEF Counters
    <3>3. \A i \in 1..Len(backlog') : i \in 1..Len(backlog) \/ i = Len(backlog) + 1
      BY <3>2
    <3>4. Early => \A i \in 1..Len(backlog') : backlog'[i] # d
      BY <1>4, <2>3, <3>2, <3>3
    <3> QED
      BY <1>3, <1>4, <2>1, <3>1, <3>4
  <2> QED
    BY <2>2, <2>3
<1>7. ASSUME NEW c \in Client, ConnectFails(c) PROVE Untouched(d)'
  <2>1. /\ cpc' = [cpc EXCEPT ![c] = "failed"] /\ cpc[c] = "start"
        /\ UNCHANGED <<nsent, got, down, up, conn, peer, backlog>>
    BY <1>7 DEF ConnectFails
  <2>2. cpc'[d] \in {"start", "failed"} => Early
    BY <1>1, <2>1 DEF Counters
  <2> QED
    BY <1>4, <2>1, <2>2 DEF Untouched
<1>8. ASSUME NEW c \in Client, cpc[c] \in {"connected", "send", "sleep", "join"},
             cpc'[c] \notin {"start", "failed"},
             \A e \in Client : e # c => cpc'[e] = cpc[e] /\ nsent'[e] = nsent[e]
               /\ got'[e] = got[e] /\ down'[e] = down[e] /\ up'[e] = up[e] /\ conn'[e] = conn[e],
             UNCHANGED <<peer, backlog>>
      PROVE  Untouched(d)'
  BY <1>3, <1>4, <1>8 DEF Untouched
<1>9. ASSUME NEW c \in Client, Closes(c), Goes(c, "gone") \/ Goes(c, "done"),
             cpc[c] \in {"connected", "send", "sleep", "join"}, UNCHANGED <<nsent, peer>>,
             got' = got \/ got' = [got EXCEPT ![c] = <<>>]
      PROVE  Untouched(d)'
  <2>1. /\ down' = [down EXCEPT ![c] = <<>>] /\ UNCHANGED backlog
        /\ \/ conn' = [conn EXCEPT ![c] = "reset"] /\ up' = [up EXCEPT ![c] = <<>>]
           \/ conn' = [conn EXCEPT ![c] = "fin"] /\ up' = up
           \/ conn' = [conn EXCEPT ![c] = "none"] /\ up' = up
    BY <1>1, <1>9, ClosesFacts
  <2>2. cpc'[c] \notin {"start", "failed"} /\ \A e \in Client : e # c => cpc'[e] = cpc[e]
    BY <1>1, <1>9 DEF Counters
  <2>3. \A e \in Client : e # c => /\ nsent'[e] = nsent[e] /\ got'[e] = got[e]
                                   /\ down'[e] = down[e] /\ up'[e] = up[e] /\ conn'[e] = conn[e]
    BY <1>1, <1>2, <1>9, <2>1 DEF Counters
  <2> QED
    BY <1>8, <1>9, <2>1, <2>2, <2>3
<1>10. ASSUME NEW c \in Client, cpc[c] = "send", NEW k \in 1..Unsent(c), Sent(c, k),
              up' = up \/ \E w : up' = [up EXCEPT ![c] = w],
              UNCHANGED <<got, down, conn, peer, backlog>>
       PROVE  Untouched(d)'
  <2>1. /\ \A e \in Client : e # c => cpc'[e] = cpc[e] /\ nsent'[e] = nsent[e]
        /\ cpc'[c] \in {"send", "sleep"}
    BY <1>1, <1>10, SentCounters
  <2>2. \A e \in Client : e # c => up'[e] = up[e]
    BY <1>2, <1>10
  <2> QED
    BY <1>8, <1>10, <2>1, <2>2
<1>11. ASSUME NEW c \in Client, MainStep(c) PROVE Untouched(d)'
  <2>1. CASE StartRx(c) \/ Unblock(c)
    <3>1. /\ cpc' = [cpc EXCEPT ![c] = "send"] \/ cpc' = [cpc EXCEPT ![c] = "join"]
          /\ cpc[c] \in {"connected", "sleep"}
          /\ UNCHANGED <<nsent, got, down, up, conn, peer, backlog>>
      BY <2>1 DEF StartRx, Unblock
    <3>2. cpc'[c] \notin {"start", "failed"} /\ \A e \in Client : e # c => cpc'[e] = cpc[e]
      BY <1>1, <3>1 DEF Counters
    <3> QED
      BY <1>8, <3>1, <3>2
  <2>2. CASE Send(c)
    <3>1. /\ cpc[c] = "send" /\ UNCHANGED <<got, down, conn, peer, backlog>>
          /\ \E k \in 1..Unsent(c) : Sent(c, k) /\ \E w : up' = [up EXCEPT ![c] = w]
      BY <2>2 DEF Send
    <3> QED
      BY <1>10, <3>1
  <2>3. CASE SendBroken(c)
    <3>1. cpc[c] = "send" /\ UNCHANGED peer
      BY <2>3 DEF SendBroken
    <3>2. CASE (\E k \in 1..Unsent(c) : Sent(c, k)) /\ UNCHANGED <<rxpc, cancel, got, netVars>>
      BY <1>10, <3>1, <3>2
    <3>3. CASE Dies(c) /\ UNCHANGED nsent
      BY <1>9, <3>1, <3>3 DEF Dies
    <3> QED
      BY <2>3, <3>2, <3>3 DEF SendBroken
  <2>4. CASE Exit(c)
    BY <1>9, <2>4 DEF Exit
  <2> QED
    BY <1>11, <2>1, <2>2, <2>3, <2>4 DEF MainStep
<1>12. ASSUME NEW c \in Client, Crash(c) PROVE Untouched(d)'
  BY <1>9, <1>12 DEF Crash, Dies
<1>13. ASSUME NEW c \in Client, RxStep(c) PROVE Untouched(d)'
  <2>1. /\ rxpc[c] = "select" /\ UNCHANGED <<cpc, nsent, up, conn, peer, backlog>>
        /\ \/ UNCHANGED <<got, down>>
           \/ \E v, w : got' = [got EXCEPT ![c] = v] /\ down' = [down EXCEPT ![c] = w]
    BY <1>13 DEF RxStep, RxShows, RxEnd, RxUnblocked, vars
  <2>2. cpc[c] \in {"send", "sleep", "join"}
    BY <1>1, <2>1 DEF Counters
  <2>3. \A e \in Client : e # c => got'[e] = got[e] /\ down'[e] = down[e]
    BY <1>2, <2>1
  <2> QED
    BY <1>8, <2>1, <2>2, <2>3
<1>14. CASE waitForConnection
  <2>1. /\ backlog # <<>> /\ peer' = Head(backlog) /\ backlog' = Tail(backlog)
        /\ UNCHANGED <<cpc, nsent, got>>
        /\ \/ UNCHANGED <<conn, up, down>>
           \/ \E x, v, w : /\ conn' = [conn EXCEPT ![peer] = x]
                           /\ up' = [up EXCEPT ![peer] = v] /\ down' = [down EXCEPT ![peer] = w]
    BY <1>14 DEF waitForConnection, AcceptStream
  <2>2. Early => conn'[d] = conn[d] /\ up'[d] = up[d] /\ down'[d] = down[d]
    BY <1>1, <1>2, <1>4, <2>1 DEF Counters
  <2>3. /\ Len(backlog) \in Nat /\ Len(Tail(backlog)) = Len(backlog) - 1
        /\ \A i \in 1..Len(Tail(backlog)) : Tail(backlog)[i] = backlog[i + 1]
    BY <1>1, <2>1, HeadTailProperties, LenProperties DEF Counters
  <2>4. Head(backlog) = backlog[1] /\ 1 \in 1..Len(backlog)
    <3>1. Len(backlog) # 0
      BY <1>1, <2>1, EmptySeq DEF Counters
    <3> QED
      BY <1>1, <2>3, <3>1 DEF Counters
  <2>5. \A i \in 1..Len(Tail(backlog)) : i + 1 \in 1..Len(backlog)
    BY <2>3
  <2>6. Early => peer' # d /\ \A i \in 1..Len(backlog') : backlog'[i] # d
    BY <1>4, <2>1, <2>3, <2>4, <2>5
  <2> QED
    BY <1>3, <2>1, <2>2, <2>6
<1>15. CASE Recive \/ ReciveEnd
  <2>1. /\ UNCHANGED <<cpc, nsent, got, down, conn, backlog, peer>>
        /\ up' = up \/ \E w : up' = [up EXCEPT ![peer] = w]
    BY <1>15 DEF Recive, ReciveEnd
  <2>2. Early => up'[d] = up[d]
    BY <1>2, <1>4, <2>1
  <2> QED
    BY <1>3, <1>4, <2>1, <2>2
<1>16. CASE Echo
  <2>1. /\ UNCHANGED <<cpc, nsent, got, up, backlog, peer>>
        /\ conn' = conn \/ conn' = [conn EXCEPT ![peer] = "reset"]
        /\ down' = down \/ \E w : down' = [down EXCEPT ![peer] = w]
    BY <1>16 DEF Echo
  <2>2. Early => conn'[d] = conn[d] /\ down'[d] = down[d]
    BY <1>1, <1>2, <1>4, <2>1 DEF Counters
  <2> QED
    BY <1>3, <1>4, <2>1, <2>2
<1>17. CASE EchoBroken \/ ServerFails
  <2>1. /\ UNCHANGED <<cpc, nsent, got>> /\ peer' = NoClient /\ backlog' = <<>>
        /\ conn' = [c \in Client |-> IF conn[c] \in {"open", "closed"} THEN "closed" ELSE "none"]
        /\ up' = [c \in Client |-> <<>>]
        /\ down' = down \/ \E w : down' = [down EXCEPT ![peer] = w]
    BY <1>17 DEF EchoBroken, ServerFails, ServerDies
  <2>2. Early => conn'[d] = conn[d] /\ down'[d] = down[d] /\ up'[d] = up[d]
    BY <1>1, <1>2, <1>4, <2>1 DEF Counters
  <2>3. peer' # d /\ \A i \in 1..Len(backlog') : backlog'[i] # d
    BY <1>1, <2>1, EchoAssumption
  <2> QED
    BY <1>3, <2>1, <2>2, <2>3
<1>18. ASSUME NEW c \in Client PROVE ~Lose(c) /\ ~Duplicate(c)
  BY DEF Lose, Duplicate
<1> QED
  BY <1>5, <1>6, <1>7, <1>11, <1>12, <1>13, <1>14, <1>15, <1>16, <1>17, <1>18
     DEF Next, ServerStep

\* A step of another client leaves the pieces of d where they are.
LEMMA StreamOfOthers ==
  ASSUME Kinds, [Next]_vars, NEW d \in Client, StreamOf(d),
         cpc'[d] = cpc[d], nsent'[d] = nsent[d], got'[d] = got[d], down'[d] = down[d],
         up'[d] = up[d], conn'[d] = conn[d], UNCHANGED <<spc, active, peer, tx, cut>>
  PROVE  StreamOf(d)'
<1>1. (Live(d)' <=> Live(d)) /\ (Left(d)' <=> Left(d)) /\ Back(d)' = Back(d)
  BY DEF Live, Left, Back, Held
<1>2. ~Live(d) => got'[d] = got[d] /\ down'[d] = down[d]
  OBVIOUS
<1>3. conn'[d] = "closed" => up[d] = <<>>
  BY DEF StreamOf, LastSent
<1> HIDE DEF Live, Left
<1> QED
  BY <1>1, <1>2, <1>3, StreamKept

\* Nor does a client's own step that neither sends nor receives nor ends.
LEMMA StreamOfQuiet ==
  ASSUME Kinds, [Next]_vars, NEW d \in Client, StreamOf(d),
         nsent'[d] = nsent[d], got'[d] = got[d], down'[d] = down[d],
         up'[d] = up[d], conn'[d] \in {conn[d], "open"}, UNCHANGED <<spc, active, peer, tx, cut>>,
         Live(d)' <=> Live(d)
  PROVE  StreamOf(d)'
<1>1. (Left(d)' => Left(d)) /\ Back(d)' = Back(d)
  BY DEF Left, Back, Held
<1>3. conn'[d] = "closed" => up[d] = <<>>
  BY DEF StreamOf, LastSent
<1> QED
  BY <1>1, <1>3, StreamKept

\* The row goes on with the pieces of a ::send.
LEMMA RequestedGrows ==
  ASSUME NEW c \in Client, NEW n \in Nat, NEW k \in Nat, AllPieces \in Nat, n + k <= AllPieces
  PROVE  [i \in 1..(n + k) |-> Piece(c, i)]
           = [i \in 1..n |-> Piece(c, i)] \o [i \in 1..k |-> Piece(c, n + i)]
<1> DEFINE u == [i \in 1..n |-> Piece(c, i)]
           v == [i \in 1..k |-> Piece(c, n + i)]
           w == [i \in 1..(n + k) |-> Piece(c, i)]
           put(m, l) == [i \in 1..l |-> Piece(c, m + i)]
<1>1. ASSUME NEW m \in Nat, NEW l \in Nat, m + l <= AllPieces
      PROVE  put(m, l) \in Seq(Sendable) /\ Len(put(m, l)) = l
  <2>1. /\ put(m, l) \in Seq({x \in Sendable : x.by = c /\ x.at <= m + l})
        /\ Len(put(m, l)) = l
    BY <1>1, PutFacts
  <2>2. {x \in Sendable : x.by = c /\ x.at <= m + l} \subseteq Sendable
    OBVIOUS
  <2> QED
    BY <2>1, <2>2, SeqMonotonic
<1>2. u = put(0, n) /\ v = put(n, k) /\ w = put(0, n + k)
  OBVIOUS
<1>3. u \in Seq(Sendable) /\ Len(u) = n /\ v \in Seq(Sendable) /\ Len(v) = k
      /\ w \in Seq(Sendable) /\ Len(w) = n + k
  <2> HIDE DEF put, u, v, w
  <2>1. 0 \in Nat /\ n + k \in Nat /\ 0 + n <= AllPieces /\ 0 + (n + k) <= AllPieces
    OBVIOUS
  <2>2. put(0, n) \in Seq(Sendable) /\ Len(put(0, n)) = n
    BY <1>1, <2>1
  <2>3. put(n, k) \in Seq(Sendable) /\ Len(put(n, k)) = k
    BY <1>1
  <2>4. put(0, n + k) \in Seq(Sendable) /\ Len(put(0, n + k)) = n + k
    BY <1>1, <2>1
  <2> QED
    BY <1>2, <2>2, <2>3, <2>4
<1>4. /\ u \o v \in Seq(Sendable) /\ Len(u \o v) = n + k
      /\ \A i \in 1..(n + k) : (u \o v)[i] = IF i <= n THEN u[i] ELSE v[i - n]
  BY <1>3, ConcatProperties
<1>5. ASSUME NEW i \in 1..(n + k) PROVE (u \o v)[i] = w[i]
  <2>1. CASE i <= n
    BY <1>4, <2>1
  <2>2. CASE ~(i <= n)
    <3>1. i - n \in 1..k /\ n + (i - n) = i
      BY <2>2
    <3>2. v[i - n] = Piece(c, n + (i - n))
      BY <3>1
    <3> QED
      BY <1>4, <2>2, <3>1, <3>2
  <2> QED
    BY <2>1, <2>2
<1> HIDE DEF u, v, w
<1>6. u \o v = w
  BY <1>3, <1>4, <1>5, SeqEqual
<1> QED
  BY <1>6 DEF u, v, w

\* A ::send puts c's next pieces behind those the server has not read.
LEMMA StreamSends ==
  ASSUME Kinds, [Next]_vars, IsStream, NEW c \in Client, StreamOf(c), Send(c)
  PROVE  StreamOf(c)'
<1>1. PICK k \in 1..Unsent(c) :
        /\ conn[c] = "open" /\ up' = [up EXCEPT ![c] = up[c] \o [i \in 1..k |-> Piece(c, nsent[c] + i)]]
        /\ Sent(c, k)
  BY DEF Send
<1>2. /\ nsent' = [nsent EXCEPT ![c] = nsent[c] + k] /\ k \in Nat /\ nsent[c] \in Nat
      /\ nsent[c] + k <= AllPieces /\ cpc'[c] \in {"send", "sleep"} /\ cpc[c] = "send"
  BY <1>1, SentCounters DEF Send, Kinds
<1>3. /\ UNCHANGED <<got, down, conn, spc, peer, tx, active, cut>>
      /\ nsent'[c] = nsent[c] + k /\ nsent[c] < AllPieces
  BY <1>2 DEF Send, serverVars, Kinds, Counters
<1> DEFINE put == [i \in 1..k |-> Piece(c, nsent[c] + i)]
<1>4. put \in Seq(Stuff) /\ Len(put) = k /\ AllPieces \in Nat
  <2>0. AllPieces \in Nat
    BY Places
  <2>1. put \in Seq({x \in Sendable : x.by = c /\ x.at <= nsent[c] + k}) /\ Len(put) = k
    BY <1>2, <2>0, PutFacts
  <2>2. {x \in Sendable : x.by = c /\ x.at <= nsent[c] + k} \subseteq Stuff
    BY DEF Stuff
  <2> QED
    BY <2>0, <2>1, <2>2, SeqMonotonic
<1>5. /\ up[c] \in Seq(Stuff) /\ Len(up[c]) \in Nat /\ Back(c) \in Seq(Stuff)
      /\ up'[c] = up[c] \o put
  BY <1>1, Places DEF Kinds, Contents
<1>6. /\ Len(up'[c]) = Len(up[c]) + k
      /\ \A i \in 1..(Len(up[c]) + k) :
           up'[c][i] = IF i <= Len(up[c]) THEN up[c][i] ELSE put[i - Len(up[c])]
  BY <1>4, <1>5, ConcatProperties
<1>7. nsent'[c] - Len(up'[c]) = nsent[c] - Len(up[c])
  BY <1>2, <1>3, <1>5, <1>6
<1>8. LastSent(c)'
  <2>1. Len(up'[c]) <= nsent'[c]
    BY <1>2, <1>3, <1>5, <1>6 DEF StreamOf, LastSent
  <2>2. ASSUME NEW i \in 1..Len(up'[c])
        PROVE  up'[c][i] = Piece(c, nsent'[c] - Len(up'[c]) + i)
    <3>1. CASE i <= Len(up[c])
      <4>1. i \in 1..Len(up[c])
        BY <1>5, <3>1
      <4> QED
        BY <1>6, <1>7, <3>1, <4>1 DEF StreamOf, LastSent
    <3>2. CASE ~(i <= Len(up[c]))
      <4>1. /\ i - Len(up[c]) \in 1..k
            /\ nsent[c] + (i - Len(up[c])) = nsent'[c] - Len(up'[c]) + i
        BY <1>2, <1>3, <1>5, <1>6, <1>7, <3>2
      <4>2. put[i - Len(up[c])] = Piece(c, nsent[c] + (i - Len(up[c])))
        BY <4>1
      <4> QED
        BY <1>2, <1>5, <1>6, <3>2, <4>1, <4>2
    <3> QED
      BY <3>1, <3>2
  <2>3. \A i \in 1..Len(up'[c]) : up'[c][i] = Piece(c, nsent'[c] - Len(up'[c]) + i)
    BY <2>2
  <2>4. conn'[c] # "closed"
    BY <1>1, <1>3
  <2> QED
    BY <2>1, <2>3, <2>4 DEF LastSent, Piece
<1>9. Live(c) /\ Live(c)' /\ Back(c)' = Back(c) /\ (Left(c)' <=> Left(c))
  BY <1>2, <1>3 DEF Live, Back, Held, Left
<1>10. Ordered(c)'
  BY <1>7, <1>9 DEF StreamOf, Ordered, Rising, Upto
<1>11. Complete(c)'
  <2>1. SUFFICES ASSUME c \notin cut, spc # "dead" PROVE Row(c)' = Requested(c)'
    BY <1>3 DEF Complete
  <2>2. Row(c) = Requested(c)
    BY <1>9, <2>1 DEF StreamOf, Complete
  <2>3. Row(c)' = Back(c) \o (up[c] \o put)
    BY <1>5, <1>9 DEF Row
  <2>4. Row(c)' = Row(c) \o put
    <3> HIDE DEF put
    <3>1. ASSUME NEW u \in Seq(Stuff), NEW v \in Seq(Stuff), NEW w \in Seq(Stuff)
          PROVE  (u \o v) \o w = u \o (v \o w)
      BY ConcatAssociative
    <3>2. (Back(c) \o up[c]) \o put = Back(c) \o (up[c] \o put)
      BY <1>4, <1>5, <3>1
    <3> QED
      BY <2>3, <3>2 DEF Row
  <2>5. Requested(c)' = [i \in 1..(nsent[c] + k) |-> Piece(c, i)]
    BY <1>3 DEF Requested, Piece
  <2> QED
    BY <1>2, <1>4, <2>2, <2>4, <2>5, RequestedGrows DEF Requested
<1>12. Finished(c)'
  BY <1>2, <1>3, <1>9 DEF StreamOf, Finished
<1> QED
  BY <1>8, <1>10, <1>11, <1>12 DEF StreamOf

\* What a client puts on a connection the server has closed gets lost.
LEMMA StreamSendsBroken ==
  ASSUME Kinds, [Next]_vars, Kinds', IsStream, NEW c \in Client, StreamOf(c), SendBroken(c)
  PROVE  StreamOf(c)'
<1>1. /\ cpc[c] = "send" /\ conn[c] = "closed" /\ up[c] = <<>> /\ nsent[c] < AllPieces
      /\ UNCHANGED <<spc, active, peer, tx, cut>> /\ Live(c)
  BY DEF SendBroken, StreamOf, LastSent, Kinds, Counters, serverVars, Live
<1>2. c \in cut \/ spc = "dead"
  <2>1. nsent[c] # AllPieces
    BY <1>1, Places
  <2> QED
    BY <1>1, <2>1 DEF StreamOf, Finished, Left
<1>3. got[c] \in Seq(Stuff) /\ down[c] \in Seq(Stuff) /\ Held(c) \in Seq(Stuff)
      /\ Back(c) \in Seq(Stuff) /\ Len(<<>>) = 0 /\ <<>> \in Seq(Stuff)
  BY Places, EmptySeq
<1>4. Rising(Back(c)) /\ Upto(Back(c), nsent[c] - Len(up[c]))
  BY <1>1 DEF StreamOf, Ordered
<1>5. CASE (\E k \in 1..Unsent(c) : Sent(c, k)) /\ UNCHANGED <<rxpc, cancel, got, netVars>>
  <2>1. PICK k \in 1..Unsent(c) : Sent(c, k)
    BY <1>5
  <2>2. nsent' = [nsent EXCEPT ![c] = nsent[c] + k] /\ k \in Nat /\ nsent[c] \in Nat
        /\ cpc'[c] \in {"send", "sleep"}
    BY <1>1, <2>1, SentCounters DEF Kinds
  <2>3. nsent'[c] = nsent[c] + k /\ up'[c] = <<>> /\ Live(c)' /\ Back(c)' = Back(c)
    BY <1>1, <1>5, <2>2 DEF Kinds, Counters, Live, Back, Held, netVars
  <2>4. LastSent(c)'
    BY <1>3, <2>2, <2>3 DEF LastSent
  <2>5. Upto(Back(c), nsent[c] + k)
    <3>1. nsent[c] - Len(up[c]) \in Int /\ nsent[c] + k \in Int
          /\ nsent[c] - Len(up[c]) <= nsent[c] + k
      BY <1>1, <1>3, <2>2
    <3> QED
      BY <1>3, <1>4, <3>1, UptoMore
  <2>6. nsent'[c] - Len(up'[c]) = nsent[c] + k
    BY <1>3, <2>2, <2>3
  <2>7. Ordered(c)'
    BY <1>4, <2>3, <2>5, <2>6 DEF Ordered
  <2>8. Complete(c)' /\ Finished(c)'
    BY <1>1, <1>2 DEF Complete, Finished
  <2> QED
    BY <2>4, <2>7, <2>8 DEF StreamOf
<1>6. CASE Dies(c) /\ UNCHANGED nsent
  <2>1. /\ ~Live(c)' /\ down'[c] = <<>> /\ got'[c] = <<>> /\ up'[c] \in {up[c], <<>>}
        /\ conn'[c] # "closed"
    BY <1>6, ClosesFacts DEF Dies, Goes, Live, Kinds, Contents, Counters
  <2>2. Rising(got'[c])
    BY <1>3, <2>1 DEF Rising
  <2> QED
    BY <1>6, <2>1, <2>2, StreamLost
<1> QED
  BY <1>5, <1>6 DEF SendBroken

\* When a process ends, its own buffers are gone.
LEMMA StreamEnds ==
  ASSUME Kinds, [Next]_vars, Kinds', IsStream, NEW c \in Client, StreamOf(c),
         Closes(c), Goes(c, "gone") \/ Goes(c, "done"), Live(c), UNCHANGED nsent,
         got'[c] \in {got[c], <<>>}
  PROVE  StreamOf(c)'
<1>1. /\ ~Live(c)' /\ down'[c] = <<>> /\ up'[c] \in {up[c], <<>>} /\ conn'[c] # "closed"
  BY ClosesFacts DEF Goes, Live, Kinds, Contents, Counters
<1>2. got[c] \in Seq(Stuff) /\ down[c] \in Seq(Stuff) /\ Held(c) \in Seq(Stuff)
      /\ Len(<<>>) = 0
  BY Places, EmptySeq
<1>3. Rising(got[c])
  <2>1. ASSUME NEW u \in Seq(Stuff), NEW v \in Seq(Stuff), NEW w \in Seq(Stuff),
               Rising((u \o v) \o w)
        PROVE  Rising(u)
    <3>1. u \o v \in Seq(Stuff)
      BY ConcatProperties
    <3>2. Rising(u \o v)
      BY <2>1, <3>1, RisingPrefix
    <3> QED
      BY <3>2, RisingPrefix
  <2>2. Rising((got[c] \o down[c]) \o Held(c))
    BY DEF StreamOf, Ordered, Back
  <2> QED
    BY <1>2, <2>1, <2>2
<1>4. Rising(got'[c])
  <2>1. got'[c] = <<>> => Rising(got'[c])
    BY <1>2 DEF Rising
  <2> QED
    BY <1>3, <2>1
<1> QED
  BY <1>1, <1>4, StreamLost

\* RX_Worker moves pieces from the buffer to its output.
LEMMA StreamShows ==
  ASSUME Kinds, [Next]_vars, IsStream, NEW c \in Client, StreamOf(c), RxShows(c)
  PROVE  StreamOf(c)'
<1>1. PICK t \in Takes(down[c]) : /\ got' = [got EXCEPT ![c] = got[c] \o t.now]
                                  /\ down' = [down EXCEPT ![c] = t.left]
  BY DEF RxShows
<1>2. UNCHANGED <<cpc, nsent, spc, active, peer, tx, up, conn, cut>> /\ Live(c)
  BY DEF RxShows, serverVars, Live, Kinds, Counters
<1>3. /\ got[c] \in Seq(Stuff) /\ down[c] \in Seq(Stuff) /\ transport \in Transport
      /\ got'[c] = got[c] \o t.now /\ down'[c] = t.left
  BY <1>1, Places DEF Kinds, Contents, Counters
<1>4. t.now \in Seq(Stuff) /\ t.left \in Seq(Stuff) /\ down[c] = t.now \o t.left
  BY <1>3, TakesFacts
<1>5. got'[c] \o down'[c] = got[c] \o down[c]
  <2>1. ASSUME NEW u \in Seq(Stuff), NEW v \in Seq(Stuff), NEW w \in Seq(Stuff)
        PROVE  (u \o v) \o w = u \o (v \o w)
    BY ConcatAssociative
  <2>2. (got[c] \o t.now) \o t.left = got[c] \o (t.now \o t.left)
    BY <1>3, <1>4, <2>1
  <2>3. got'[c] \o down'[c] = (got[c] \o t.now) \o t.left
    BY <1>3
  <2>4. got[c] \o down[c] = got[c] \o (t.now \o t.left)
    BY <1>4
  <2> QED
    BY <2>2, <2>3, <2>4
<1>6. Live(c)' /\ Back(c)' = Back(c) /\ (Left(c)' => Left(c))
  BY <1>2, <1>5 DEF Live, Back, Held, Left
<1>7. conn'[c] = "closed" => up[c] = <<>>
  BY <1>2 DEF StreamOf, LastSent
<1> QED
  BY <1>2, <1>6, <1>7, StreamKept

\* When the server closes a connection, a client whose objects it received as a
\* whole has sent all it had to.
LEMMA StreamAccepts ==
  ASSUME Kinds, [Next]_vars, Kinds', IsStream, NEW d \in Client, StreamOf(d),
         waitForConnection
  PROVE  StreamOf(d)'
<1>1. /\ UNCHANGED <<cpc, nsent, got, tx, cut>> /\ spc = "accept" /\ spc' = "recive" /\ active'
      /\ AcceptStream
  BY DEF waitForConnection, clientVars
<1>2. Live(d)' <=> Live(d)
  BY <1>1 DEF Live
<1>3. got[d] \in Seq(Stuff) /\ down[d] \in Seq(Stuff) /\ Held(d) = <<>> /\ Held(d)' = <<>>
      /\ <<>> \in Seq(Stuff)
  BY <1>1, Places, EmptySeq DEF Held
<1>4. /\ up = [c \in Client |-> up[c]] /\ down = [c \in Client |-> down[c]]
      /\ conn \in [Client -> {"none", "open", "closed", "fin", "reset"}]
  BY DEF Kinds, Contents, Counters
<1>5. CASE peer # d
  <2>1. up'[d] = up[d] /\ down'[d] = down[d] /\ conn'[d] = conn[d]
    BY <1>1, <1>4, <1>5 DEF AcceptStream
  <2>2. Back(d)' = Back(d) /\ (Left(d)' => Left(d))
    BY <1>1, <1>3, <2>1 DEF Back, Left
  <2>3. conn'[d] = "closed" => up[d] = <<>>
    BY <2>1 DEF StreamOf, LastSent
  <2> QED
    BY <1>1, <1>2, <2>1, <2>2, <2>3, StreamKept
<1>6. CASE peer = d
  <2>1. d # NoClient
    BY EchoAssumption
  <2>2. /\ up'[d] = <<>> /\ \E w \in Arriving(d) : down'[d] = w
        /\ Left(d)
    BY <1>1, <1>4, <1>6, <2>1 DEF AcceptStream, Left
  <2>3. PICK w \in Arriving(d) : down'[d] = w
    BY <2>2
  <2>4. PICK v \in Seq(Stuff) : down[d] = w \o v
    BY ArrivesWhole
  <2>5. w \in Seq(Stuff) /\ (up[d] = <<>> => w = down[d])
    BY ArrivesWhole
  <2>6. CASE Live(d) /\ (d \in cut \/ up[d] # <<>>)
    <3>1. d \in cut'
      BY <1>1, <2>2, <2>6 DEF StreamOf, Finished
    <3>2. Back(d) = Back(d)' \o v
      <4>2. Back(d) = (got[d] \o (w \o v)) \o <<>>
        BY <1>3, <2>4 DEF Back
      <4>3. Back(d)' = (got[d] \o w) \o <<>>
        BY <1>1, <1>3, <2>3 DEF Back
      <4>4. (got[d] \o (w \o v)) \o <<>> = ((got[d] \o w) \o <<>>) \o v
        <5>1. PICK g \in Seq(Stuff) : g = got[d]
          BY <1>3
        <5>2. v \o <<>> = v
          BY ConcatEmptySeq
        <5>3. PICK x \in Seq(Stuff) : x = w
          BY <2>5
        <5>4. g \o (x \o v) = (g \o x) \o v
          BY Joined
        <5>5. PICK u \in Seq(Stuff) : u = g \o x
          BY Joined
        <5>6. (u \o v) \o <<>> = u \o (v \o <<>>) /\ u \o <<>> = u
          BY <1>3, Joined
        <5> QED
          BY <5>1, <5>2, <5>3, <5>4, <5>5, <5>6
      <4> QED
        BY <4>2, <4>3, <4>4
    <3> QED
      BY <1>1, <1>2, <2>2, <2>6, <3>1, <3>2, StreamLost
  <2>7. CASE Live(d) /\ up[d] = <<>>
    <3>1. up'[d] = up[d] /\ down'[d] = down[d]
      BY <2>2, <2>3, <2>5, <2>7
    <3>2. Back(d)' = Back(d)
      BY <1>1, <1>3, <3>1 DEF Back
    <3> QED
      BY <1>1, <1>2, <2>2, <2>7, <3>1, <3>2, StreamKept
  <2>8. CASE ~Live(d)
    <3>1. Rising(got'[d]) /\ down[d] = <<>>
      BY <1>1, <2>8 DEF StreamOf, Ordered
    <3>2. down'[d] = <<>>
      <4>1. w = <<>>
        <5>1. PICK x \in Seq(Stuff) : x = w
          BY <2>5
        <5>2. x \o v = <<>> => x = <<>>
          BY ConcatEqualIffEmpty
        <5> QED
          BY <2>4, <3>1, <5>1, <5>2
      <4> QED
        BY <2>3, <4>1
    <3> QED
      BY <1>1, <1>2, <2>2, <2>8, <3>1, <3>2, StreamLost
  <2> QED
    BY <2>6, <2>7, <2>8
<1> QED
  BY <1>5, <1>6

\* When the server ends, what it had not sent is lost.
LEMMA StreamDies ==
  ASSUME Kinds, [Next]_vars, Kinds', IsStream, NEW d \in Client, StreamOf(d),
         ServerDies
  PROVE  StreamOf(d)'
<1>1. /\ UNCHANGED <<cpc, nsent, got, cut>> /\ spc' = "dead" /\ up' = [c \in Client |-> <<>>]
      /\ IF peer = NoClient THEN UNCHANGED down
         ELSE \E w \in Arriving(peer) : down' = [down EXCEPT ![peer] = w]
  BY DEF ServerDies, clientVars
<1>2. Live(d)' <=> Live(d)
  BY <1>1 DEF Live
<1>3. got[d] \in Seq(Stuff) /\ down[d] \in Seq(Stuff) /\ Held(d) \in Seq(Stuff)
      /\ Held(d)' = <<>> /\ <<>> \in Seq(Stuff) /\ up'[d] = <<>>
  BY <1>1, Places, EmptySeq DEF Held
<1>4. \E w, v \in Seq(Stuff) : down'[d] = w /\ down[d] = w \o v
  <2>1. CASE down'[d] = down[d]
    <3>1. down[d] = down[d] \o <<>>
      BY <1>3, ConcatEmptySeq
    <3> QED
      BY <1>3, <2>1, <3>1
  <2>2. CASE down'[d] # down[d]
    <3>1. peer = d /\ \E w \in Arriving(d) : down' = [down EXCEPT ![d] = w]
      BY <1>1, <2>2 DEF Kinds, Contents
    <3>2. PICK w \in Arriving(d) : down' = [down EXCEPT ![d] = w]
      BY <3>1
    <3>3. down'[d] = w
      BY <3>2 DEF Kinds, Contents
    <3> QED
      BY <3>3, ArrivesWhole
  <2> QED
    BY <2>1, <2>2
<1>5. PICK w \in Seq(Stuff) : \E v \in Seq(Stuff) : down'[d] = w /\ down[d] = w \o v
  BY <1>4
<1>6. PICK v \in Seq(Stuff) : down'[d] = w /\ down[d] = w \o v
  BY <1>5
<1>7. CASE Live(d)
  <2>2. Back(d) = (got[d] \o (w \o v)) \o Held(d)
    BY <1>6 DEF Back
  <2>3. Back(d)' = (got[d] \o w) \o <<>>
    BY <1>1, <1>3, <1>6 DEF Back
  <2>4. /\ v \o Held(d) \in Seq(Stuff)
        /\ (got[d] \o (w \o v)) \o Held(d) = ((got[d] \o w) \o <<>>) \o (v \o Held(d))
    <3>1. PICK g \in Seq(Stuff) : g = got[d]
      BY <1>3
    <3>2. PICK h \in Seq(Stuff) : h = Held(d)
      BY <1>3
    <3>3. v \o h \in Seq(Stuff) /\ (g \o w) \o <<>> = g \o w
      BY Joined
    <3>4. g \o (w \o v) = (g \o w) \o v
      BY Joined
    <3>5. PICK u \in Seq(Stuff) : u = g \o w
      BY Joined
    <3>6. (u \o v) \o h = u \o (v \o h)
      BY Joined
    <3> QED
      BY <3>1, <3>2, <3>3, <3>4, <3>5, <3>6
  <2> QED
    BY <1>1, <1>2, <1>3, <1>7, <2>2, <2>3, <2>4, StreamLost
<1>8. CASE ~Live(d)
  <2>1. Rising(got'[d]) /\ down[d] = <<>>
    BY <1>1, <1>8 DEF StreamOf, Ordered
  <2>2. down'[d] = <<>>
    BY <1>6, <2>1, Joined
  <2> QED
    BY <1>1, <1>2, <1>3, <1>8, <2>1, <2>2, StreamLost
<1> QED
  BY <1>7, <1>8

\* One receive takes the first of the pieces c has sent and the server not read,
\* and the answer to them goes on where the answers before ended.
LEMMA StreamReceives ==
  ASSUME Kinds, [Next]_vars, IsStream, spc = "recive" => active, NEW c \in Client, c = peer,
         StreamOf(c), Recive
  PROVE  /\ StreamOf(c)'
         /\ c \notin cut' => (active' <=> nsent'[c] - Len(up'[c]) # AllPieces)
<1>1. /\ spc = "recive" /\ active /\ spc' = "echo" /\ peer' = c
      /\ UNCHANGED <<cpc, nsent, got, down, conn>>
  BY DEF Recive, clientVars, Answers
<1>2. PICK t \in Takes(up[c]) :
        /\ up' = [up EXCEPT ![c] = t.left] /\ Answers(t.now)
        /\ cut' = IF Answer(t.now) = t.now THEN cut ELSE cut \cup {c}
  BY DEF Recive
<1>3. /\ got[c] \in Seq(Stuff) /\ down[c] \in Seq(Stuff) /\ up[c] \in Seq(Sendable)
      /\ Len(up[c]) \in Nat /\ nsent[c] \in Nat /\ nsent[c] <= AllPieces /\ AllPieces \in Nat
      /\ transport \in Transport /\ up'[c] = t.left
  BY <1>2, Places DEF Kinds, Contents, Counters
<1>4. PICK now \in Seq(Sendable) : now = t.now
  BY <1>3, TakesFacts
<1>5. PICK left \in Seq(Sendable) : left = t.left
  BY <1>3, TakesFacts
<1>6. /\ up[c] = now \o left /\ Len(now) \in 1..Parts /\ Len(left) \in Nat
      /\ Parts \in Nat \ {0}
  BY <1>3, <1>4, <1>5, TakesFacts, NumberFacts
<1>7. /\ Len(now) \in Nat /\ Len(up[c]) = Len(now) + Len(left)
      /\ \A i \in 1..(Len(now) + Len(left)) :
           up[c][i] = IF i <= Len(now) THEN now[i] ELSE left[i - Len(now)]
  BY <1>6, ConcatProperties, LenProperties
<1> DEFINE n == nsent[c] - Len(up[c])
<1>8. /\ n \in Nat /\ nsent[c] - Len(left) = n + Len(now) /\ Len(left) <= nsent[c]
      /\ \A i \in 1..Len(up[c]) : up[c][i] = Piece(c, n + i)
      /\ conn[c] # "closed"
  <2>1. Len(up[c]) <= nsent[c] /\ (conn[c] = "closed" => up[c] = <<>>)
    BY DEF StreamOf, LastSent
  <2>2. up[c] # <<>>
    BY <1>6, <1>7, EmptySeq
  <2> QED
    BY <1>3, <1>6, <1>7, <2>1, <2>2 DEF StreamOf, LastSent
<1>9. \A p \in 1..Len(now) : now[p] = Piece(c, n + p)
  <2> TAKE p \in 1..Len(now)
  <2>1. p \in 1..Len(up[c]) /\ p \in 1..(Len(now) + Len(left)) /\ p <= Len(now)
    BY <1>6, <1>7
  <2>2. up[c][p] = now[p]
    BY <1>7, <2>1
  <2>3. up[c][p] = Piece(c, n + p)
    BY <1>8, <2>1
  <2> QED
    BY <2>2, <2>3
<1>10. \A i \in 1..Len(left) : left[i] = Piece(c, nsent[c] - Len(left) + i)
  <2> TAKE i \in 1..Len(left)
  <2>1. /\ Len(now) + i \in 1..Len(up[c]) /\ Len(now) + i \in 1..(Len(now) + Len(left))
        /\ ~(Len(now) + i <= Len(now)) /\ (Len(now) + i) - Len(now) = i
        /\ n + (Len(now) + i) = nsent[c] - Len(left) + i
    BY <1>3, <1>6, <1>7
  <2>2. up[c][Len(now) + i] = left[i]
    BY <1>7, <2>1
  <2>3. up[c][Len(now) + i] = Piece(c, n + (Len(now) + i))
    BY <1>8, <2>1
  <2> QED
    BY <2>1, <2>2, <2>3
<1>11. LastSent(c)'
  <2>1. up'[c] = left /\ nsent'[c] = nsent[c] /\ conn'[c] # "closed"
    BY <1>1, <1>3, <1>5, <1>8
  <2> QED
    BY <1>8, <1>10, <2>1 DEF LastSent, Piece
<1>12. /\ Answer(now) \in Seq(Stuff)
       /\ Rising(Answer(now)) /\ After(Answer(now), n) /\ Upto(Answer(now), n + Len(now))
  <2> HIDE DEF n
  <2> QED
    BY <1>3, <1>8, <1>9, AnswerRises
<1>13. Back(c) = got[c] \o down[c] /\ Back(c)' = (got[c] \o down[c]) \o Answer(now)
       /\ got[c] \o down[c] \in Seq(Stuff)
  <2>1. Held(c) = <<>> /\ Held(c)' = Answer(now)
    BY <1>1, <1>2, <1>4 DEF Held, Answers
  <2>2. PICK g \in Seq(Stuff) : g = got[c]
    BY <1>3
  <2>3. PICK d \in Seq(Stuff) : d = down[c]
    BY <1>3
  <2>4. PICK u \in Seq(Stuff) : u = g \o d
    BY Joined
  <2>5. u \o <<>> = u
    BY ConcatEmptySeq
  <2> QED
    BY <1>1, <2>1, <2>2, <2>3, <2>4, <2>5 DEF Back
<1>14. (Live(c)' <=> Live(c)) /\ nsent'[c] - Len(up'[c]) = n + Len(now)
  BY <1>1, <1>3, <1>5, <1>8 DEF Live
<1>15. Ordered(c)'
  <2>1. CASE Live(c)
    <3>1. Rising(got[c] \o down[c]) /\ Upto(got[c] \o down[c], n)
      BY <1>13, <2>1 DEF StreamOf, Ordered
    <3>2. n \in Int /\ n + Len(now) \in Int /\ n <= n + Len(now)
      BY <1>7, <1>8
    <3>3. PICK u \in Seq(Stuff) : u = got[c] \o down[c]
      BY <1>13
    <3> HIDE DEF n
    <3>4. Rising(u \o Answer(now)) /\ Upto(u \o Answer(now), n + Len(now))
      BY <1>12, <3>1, <3>2, <3>3, RisingGrows
    <3> QED
      BY <1>13, <1>14, <2>1, <3>3, <3>4 DEF Ordered
  <2>2. CASE ~Live(c)
    BY <1>1, <1>14, <2>2 DEF StreamOf, Ordered, Rising
  <2> QED
    BY <2>1, <2>2
<1>16. Complete(c)'
  <2>1. SUFFICES ASSUME Live(c), c \notin cut' PROVE Row(c)' = Requested(c)'
    BY <1>14 DEF Complete
  <2>2. c \notin cut /\ Answer(now) = now
    BY <1>2, <1>4, <2>1
  <2>3. Row(c) = Requested(c)
    BY <1>1, <2>1, <2>2 DEF StreamOf, Complete
  <2>4. PICK u \in Seq(Stuff) : u = got[c] \o down[c]
    BY <1>13
  <2>5. now \in Seq(Stuff) /\ left \in Seq(Stuff)
    <3>1. Sendable \subseteq Stuff
      BY DEF Stuff
    <3> QED
      BY <3>1, SeqMonotonic
  <2>6. (u \o now) \o left = u \o (now \o left)
    BY <2>5, Joined
  <2>7. Row(c)' = (u \o now) \o left
    BY <1>3, <1>5, <1>13, <2>2, <2>4 DEF Row
  <2>8. Row(c) = u \o (now \o left)
    BY <1>6, <1>13, <2>4 DEF Row
  <2>9. Requested(c)' = Requested(c)
    BY <1>1 DEF Requested, Piece
  <2> QED
    BY <2>3, <2>6, <2>7, <2>8, <2>9
<1>17. ASSUME c \notin cut' PROVE Len(now) = Parts /\ (active' <=> n + Parts # AllPieces)
  <2>1. Answer(now) = now /\ Len(now) = Parts
    <3>1. Answer(now) = now
      BY <1>2, <1>4, <1>17
    <3> QED
      BY <1>3, <3>1, AnswerFacts
  <2>2. Parts \in 1..Len(now) /\ now[Parts] \in Sendable
    BY <1>6, <2>1, ElementOfSeq
  <2>3. now[Parts] # Blank /\ now[Parts] = Piece(c, n + Parts)
    BY <1>9, <2>2, EchoAssumption DEF Blank, Sendable
  <2>4. active' = (active /\ ~(now[Parts].at = Goodbye * Parts))
    <3>1. \E d \in disconnect(now) : active' = (active /\ ~d)
      BY <1>2, <1>4 DEF Answers
    <3>2. disconnect(now) = {now[Parts].at = Goodbye * Parts}
      BY <2>1, <2>3 DEF disconnect
    <3> QED
      BY <3>1, <3>2
  <2>5. now[Parts].at = n + Parts /\ Goodbye * Parts = AllPieces
    BY <1>3, <2>3, NumberFacts DEF Piece
  <2> QED
    BY <1>1, <2>1, <2>4, <2>5
<1>18. Finished(c)'
  <2>1. SUFFICES ASSUME Live(c), c \notin cut', Left(c)'
                 PROVE  nsent'[c] = AllPieces' /\ up'[c] = <<>>
    BY <1>14 DEF Finished
  <2>2. ~active'
    BY <1>1, <1>8, <2>1 DEF Left
  <2>3. n + Parts = AllPieces /\ Len(now) = Parts
    BY <1>17, <2>1, <2>2
  <2>4. nsent[c] = AllPieces /\ Len(left) = 0
    BY <1>3, <1>6, <1>7, <1>8, <2>3
  <2>5. AllPieces' = AllPieces /\ left = <<>>
    BY <1>3, <2>4, SameTransport, EmptySeq
  <2> QED
    BY <1>1, <1>3, <1>5, <2>4, <2>5
<1>19. c \notin cut' => (active' <=> nsent'[c] - Len(up'[c]) # AllPieces)
  BY <1>14, <1>17
<1> QED
  BY <1>11, <1>15, <1>16, <1>18, <1>19 DEF StreamOf

\* Four parts in a row, however they are put together.
LEMMA FourParts ==
    \A g, d, a, b \in Seq(Stuff) : (g \o (d \o a)) \o b = (g \o d) \o (a \o b)
<1>1. SUFFICES ASSUME NEW g \in Seq(Stuff), NEW d \in Seq(Stuff),
                      NEW a \in Seq(Stuff), NEW b \in Seq(Stuff)
               PROVE  (g \o (d \o a)) \o b = (g \o d) \o (a \o b)
  OBVIOUS
<1>2. PICK u \in Seq(Stuff) : u = g \o d
  BY Joined
<1>3. (g \o d) \o a = g \o (d \o a)
  BY ConcatAssociative
<1>4. (u \o a) \o b = u \o (a \o b)
  BY ConcatAssociative
<1> QED
  BY <1>2, <1>3, <1>4

\* send moves pieces of the answer into the buffer.
LEMMA StreamEchoes ==
  ASSUME Kinds, [Next]_vars, IsStream, NEW c \in Client, c = peer, StreamOf(c), Echo
  PROVE  StreamOf(c)'
<1>1. /\ spc = "echo" /\ UNCHANGED <<cpc, nsent, got, up, active, peer, cut>>
      /\ (Live(c)' <=> Live(c))
  BY DEF Echo, clientVars, Live
<1>2. got[c] \in Seq(Stuff) /\ down[c] \in Seq(Stuff) /\ tx \in Seq(Stuff)
      /\ Held(c) = tx
  BY <1>1, Places DEF Held
<1>5. \A a, b \in Seq(Stuff) :
        (got[c] \o (down[c] \o a)) \o b = (got[c] \o down[c]) \o (a \o b)
  BY <1>2, FourParts
<1>3. CASE conn[c] = "fin"
  <2>1. conn' = [conn EXCEPT ![c] = "reset"] /\ down' = down
    BY <1>3 DEF Echo
  <2>2. ~Live(c) /\ conn'[c] # "closed"
    BY <1>3, <2>1 DEF Kinds, Counters, Live
  <2> QED
    BY <1>1, <2>1, <2>2, StreamKept
<1>4. CASE conn[c] # "fin"
  <2>1. PICK k \in 1..Len(tx) :
          /\ conn[c] = "open"
          /\ down' = [down EXCEPT ![c] = down[c] \o SubSeq(tx, 1, k)]
          /\ Answered(SubSeq(tx, k + 1, Len(tx)))
    BY <1>4 DEF Echo
  <2>2. /\ conn' = conn /\ tx' = SubSeq(tx, k + 1, Len(tx))
        /\ spc' = IF tx' # <<>> THEN "echo" ELSE IF active THEN "recive" ELSE "accept"
    BY <1>4, <2>1 DEF Echo, Answered
  <2>3. k \in 0..Len(tx)
    BY <1>2, LenProperties
  <2>4. PICK a \in Seq(Stuff) : a = SubSeq(tx, 1, k)
    BY <1>2, <2>3, Split
  <2>5. PICK b \in Seq(Stuff) : b = SubSeq(tx, k + 1, Len(tx))
    BY <1>2, <2>3, Split
  <2>6. a \o b = tx
    BY <1>2, <2>3, <2>4, <2>5, Split
  <2>7. Held(c)' = b
    BY <1>1, <2>2, <2>5 DEF Held
  <2>8. down'[c] = down[c] \o a
    BY <2>1, <2>4 DEF Kinds, Contents
  <2>9. (got[c] \o (down[c] \o a)) \o b = (got[c] \o down[c]) \o tx
    BY <1>5, <2>6
  <2>14. Back(c)' = Back(c)
    <3>1. Back(c)' = (got[c] \o (down[c] \o a)) \o b
      BY <1>1, <2>7, <2>8 DEF Back
    <3>2. Back(c) = (got[c] \o down[c]) \o tx
      BY <1>2 DEF Back
    <3> QED
      BY <2>9, <3>1, <3>2
  <2>15. (Left(c)' => Left(c)) /\ conn'[c] # "closed"
    BY <1>1, <2>1, <2>2 DEF Left
  <2>16. Live(c)
    BY <2>1 DEF Kinds, Counters, Live, Living
  <2>17. spc # "dead"
    BY <1>1
  <2> QED
    BY <1>1, <2>14, <2>15, <2>16, <2>17, StreamKept
<1> QED
  BY <1>3, <1>4

\* Every step keeps the streams in order.
LEMMA StreamStep ==
  ASSUME Kinds, [Next]_vars, Kinds', IsStream, spc = "recive" => active,
         NEW d \in Client, Untouched(d), StreamOf(d)
  PROVE  StreamOf(d)'
<1>1. Counters
  BY DEF Kinds
<1>2. down = [c \in Client |-> down[c]] /\ up = [c \in Client |-> up[c]]
      /\ got = [c \in Client |-> got[c]]
  BY DEF Kinds, Contents
<1> USE DEF Goes, clientVars, serverVars, netVars
<1>3. CASE UNCHANGED vars
  BY <1>3, StreamOfOthers DEF vars
<1>4. ASSUME NEW c \in Client, Connect(c) \/ StartRx(c) \/ Unblock(c) \/ RxUnblocked(c)
      PROVE  StreamOf(d)'
  <2>1. /\ UNCHANGED <<nsent, got, down, up, spc, active, peer, tx, cut>>
        /\ conn' = conn \/ conn' = [conn EXCEPT ![c] = "open"]
    BY <1>4 DEF Connect, StartRx, Unblock, RxUnblocked
  <2>2. conn'[d] \in {conn[d], "open"}
    BY <1>1, <2>1 DEF Counters
  <2>3. Live(d)' <=> Live(d)
    BY <1>1, <1>4 DEF Connect, StartRx, Unblock, RxUnblocked, Live, Counters
  <2> QED
    BY <2>1, <2>2, <2>3, StreamOfQuiet
<1>5. ASSUME NEW c \in Client, ConnectFails(c) PROVE StreamOf(d)'
  <2>1. /\ UNCHANGED <<nsent, got, down, up, spc, active, peer, tx, cut, conn>>
        /\ cpc' = [cpc EXCEPT ![c] = "failed"] /\ cpc[c] = "start"
    BY <1>5 DEF ConnectFails
  <2>2. CASE c # d
    <3>1. Live(d)' <=> Live(d)
      BY <1>1, <2>1, <2>2 DEF Live, Counters
    <3> QED
      BY <2>1, <3>1, StreamOfQuiet
  <2>3. CASE c = d
    <3>1. ~Live(d)' /\ got[d] = <<>> /\ down[d] = <<>>
      BY <1>1, <2>1, <2>3 DEF Live, Counters, Untouched
    <3>2. Rising(got'[d])
      BY <2>1, <3>1, EmptySeq DEF Rising
    <3>3. conn'[d] = "closed" => up'[d] = <<>>
      BY <2>1 DEF StreamOf, LastSent
    <3> QED
      BY <2>1, <3>1, <3>2, <3>3, StreamLost
  <2> QED
    BY <2>2, <2>3
<1>6. ASSUME NEW c \in Client, c # d, cpc'[d] = cpc[d], nsent'[d] = nsent[d],
             got'[d] = got[d], down'[d] = down[d], up'[d] = up[d], conn'[d] = conn[d],
             UNCHANGED <<spc, active, peer, tx, cut>>
      PROVE  StreamOf(d)'
  BY <1>6, StreamOfOthers
<1>7. ASSUME NEW c \in Client, Closes(c), Goes(c, "gone") \/ Goes(c, "done"), Live(c),
             UNCHANGED <<nsent, spc, active, peer, tx, cut>>,
             got' = got \/ got' = [got EXCEPT ![c] = <<>>]
      PROVE  StreamOf(d)'
  <2>1. CASE c = d
    <3>1. got'[d] \in {got[d], <<>>}
      BY <1>2, <1>7, <2>1
    <3> QED
      BY <1>7, <2>1, <3>1, StreamEnds
  <2>2. CASE c # d
    <3>1. cpc'[d] = cpc[d] /\ got'[d] = got[d]
      BY <1>1, <1>2, <1>7, <2>2 DEF Counters
    <3>2. down'[d] = down[d] /\ up'[d] = up[d] /\ conn'[d] = conn[d]
      BY <1>1, <1>2, <1>7, <2>2, ClosesFacts DEF Counters
    <3> QED
      BY <1>6, <1>7, <2>2, <3>1, <3>2
  <2> QED
    BY <2>1, <2>2
<1>8. ASSUME NEW c \in Client, c # d, cpc[c] = "send", NEW k \in 1..Unsent(c), Sent(c, k),
             up' = up \/ \E w : up' = [up EXCEPT ![c] = w],
             UNCHANGED <<got, down, conn, spc, active, peer, tx, cut>>
      PROVE  StreamOf(d)'
  <2>1. cpc'[d] = cpc[d] /\ nsent'[d] = nsent[d]
    BY <1>1, <1>8, SentCounters
  <2>2. up'[d] = up[d]
    BY <1>2, <1>8
  <2> QED
    BY <1>6, <1>8, <2>1, <2>2
<1>9. ASSUME NEW c \in Client, Send(c) PROVE StreamOf(d)'
  <2>1. CASE c = d
    BY <1>9, <2>1, StreamSends
  <2>2. CASE c # d
    <3>1. /\ cpc[c] = "send" /\ UNCHANGED <<got, down, conn, spc, active, peer, tx, cut>>
          /\ \E k \in 1..Unsent(c) : Sent(c, k) /\ \E w : up' = [up EXCEPT ![c] = w]
      BY <1>9 DEF Send
    <3> QED
      BY <1>8, <2>2, <3>1
  <2> QED
    BY <2>1, <2>2
<1>10. ASSUME NEW c \in Client, SendBroken(c) PROVE StreamOf(d)'
  <2>1. CASE c = d
    BY <1>10, <2>1, StreamSendsBroken
  <2>2. CASE c # d
    <3>1. cpc[c] = "send" /\ UNCHANGED <<spc, active, peer, tx, cut>> /\ Live(c)
      BY <1>10 DEF SendBroken, Live
    <3>2. CASE (\E k \in 1..Unsent(c) : Sent(c, k)) /\ UNCHANGED <<rxpc, cancel, got, netVars>>
      BY <1>8, <2>2, <3>1, <3>2
    <3>3. CASE Dies(c) /\ UNCHANGED nsent
      BY <1>7, <3>1, <3>3 DEF Dies
    <3> QED
      BY <1>10, <3>2, <3>3 DEF SendBroken
  <2> QED
    BY <2>1, <2>2
<1>11. ASSUME NEW c \in Client, Exit(c) \/ Crash(c) PROVE StreamOf(d)'
  <2>1. /\ Closes(c) /\ (Goes(c, "gone") \/ Goes(c, "done")) /\ Live(c)
        /\ UNCHANGED <<nsent, spc, active, peer, tx, cut>>
        /\ got' = got \/ got' = [got EXCEPT ![c] = <<>>]
    BY <1>11 DEF Exit, Crash, Dies, Live
  <2> QED
    BY <1>7, <2>1
<1>12. ASSUME NEW c \in Client, RxShows(c) PROVE StreamOf(d)'
  <2>1. CASE c = d
    BY <1>12, <2>1, StreamShows
  <2>2. CASE c # d
    <3>1. /\ UNCHANGED <<cpc, nsent, up, conn, spc, active, peer, tx, cut>>
          /\ \E v, w : got' = [got EXCEPT ![c] = v] /\ down' = [down EXCEPT ![c] = w]
      BY <1>12 DEF RxShows
    <3>2. got'[d] = got[d] /\ down'[d] = down[d]
      BY <1>2, <2>2, <3>1
    <3> QED
      BY <1>6, <2>2, <3>1, <3>2
  <2> QED
    BY <2>1, <2>2
<1>13. ASSUME NEW c \in Client, RxEnd(c) PROVE StreamOf(d)'
  BY <1>3, <1>13 DEF RxEnd
<1>14. CASE waitForConnection
  BY <1>14, StreamAccepts
<1>15. CASE EchoBroken \/ ServerFails
  BY <1>15, StreamDies DEF EchoBroken, ServerFails
<1>16. ASSUME UNCHANGED <<cpc, nsent, got, peer, cut>> \/ Recive, peer' = peer,
              down'[d] = down[d], up'[d] = up[d], conn'[d] = conn[d], peer # d \/ ~Live(d),
              UNCHANGED <<cpc, nsent, got>>, d \in cut => d \in cut',
              spc # "dead"
       PROVE  StreamOf(d)'
  <2>1. Live(d)' <=> Live(d)
    BY <1>16 DEF Live
  <2>2. Live(d) => Back(d)' = Back(d) /\ (Left(d)' => Left(d))
    BY <1>16 DEF Back, Held, Left
  <2>3. conn'[d] = "closed" => up[d] = <<>>
    BY <1>16 DEF StreamOf, LastSent
  <2> QED
    BY <1>16, <2>1, <2>2, <2>3, StreamKept
<1>17. CASE Recive
  <2>1. CASE peer = d
    BY <1>17, <2>1, StreamReceives
  <2>2. CASE peer # d
    <3>1. /\ UNCHANGED <<cpc, nsent, got, down, conn, peer>> /\ spc = "recive"
          /\ \E w : up' = [up EXCEPT ![peer] = w]
          /\ cut \subseteq cut'
      BY <1>17 DEF Recive
    <3>2. up'[d] = up[d]
      BY <1>2, <2>2, <3>1
    <3> QED
      BY <1>16, <1>17, <2>2, <3>1, <3>2
  <2> QED
    BY <2>1, <2>2
<1>18. CASE ReciveEnd
  <2>1. UNCHANGED <<cpc, nsent, got, down, up, conn, peer, cut>> /\ spc = "recive"
    BY <1>18 DEF ReciveEnd
  <2>2. peer # d \/ ~Live(d)
    BY <1>1, <1>18 DEF ReciveEnd, Counters, Live
  <2> QED
    BY <1>16, <2>1, <2>2
<1>19. CASE Echo
  <2>1. CASE peer = d
    BY <1>19, <2>1, StreamEchoes
  <2>2. CASE peer # d
    <3>1. /\ UNCHANGED <<cpc, nsent, got, up, peer, cut>> /\ spc = "echo"
          /\ down' = down \/ \E w : down' = [down EXCEPT ![peer] = w]
          /\ conn' = conn \/ conn' = [conn EXCEPT ![peer] = "reset"]
      BY <1>19 DEF Echo
    <3>2. down'[d] = down[d] /\ conn'[d] = conn[d]
      BY <1>1, <1>2, <2>2, <3>1 DEF Counters
    <3> QED
      BY <1>16, <2>2, <3>1, <3>2
  <2> QED
    BY <2>1, <2>2
<1>20. ASSUME NEW c \in Client PROVE ~Lose(c) /\ ~Duplicate(c)
  BY DEF Lose, Duplicate
<1> QED
  BY <1>3, <1>4, <1>5, <1>9, <1>10, <1>11, <1>12, <1>13, <1>14, <1>15, <1>17, <1>18, <1>19,
     <1>20 DEF Next, MainStep, RxStep, ServerStep

\* The server receives only while it is active.
LEMMA ActiveStep ==
  ASSUME [Next]_vars, IsStream, spc = "recive" => active
  PROVE  (spc = "recive" => active)'
<1>1. CASE UNCHANGED <<spc, active>>
  BY <1>1
<1>2. CASE waitForConnection
  BY <1>2 DEF waitForConnection
<1>3. CASE spc' # "recive"
  BY <1>3
<1>4. CASE Recive \/ ReciveEnd
  <2>1. spc' = "echo"
    BY <1>4 DEF Recive, ReciveEnd, Answers
  <2> QED
    BY <1>3, <2>1
<1>5. CASE EchoBroken \/ ServerFails
  <2>1. spc' = "dead"
    BY <1>5 DEF EchoBroken, ServerFails, ServerDies
  <2> QED
    BY <1>3, <2>1
<1>6. CASE Echo
  <2>1. active' = active /\ (spc' = "recive" => active)
    BY <1>6 DEF Echo, Answered
  <2> QED
    BY <2>1
<1>7. ASSUME UNCHANGED vars
             \/ \E c \in Client : Connect(c) \/ ConnectFails(c) \/ MainStep(c) \/ RxStep(c)
                                  \/ Crash(c) \/ Lose(c) \/ Duplicate(c)
      PROVE  UNCHANGED <<spc, active>>
  BY <1>7 DEF vars, MainStep, RxStep, Connect, ConnectFails, StartRx, Send, SendBroken,
     Unblock, Exit, RxShows, RxEnd, RxUnblocked, Crash, Lose, Duplicate, serverVars
<1> QED
  BY <1>1, <1>2, <1>4, <1>5, <1>6, <1>7 DEF Next, ServerStep

EchoInv == Kinds /\ StreamInv

LEMMA InitEcho == Init => EchoInv
<1> SUFFICES ASSUME Init PROVE EchoInv
  OBVIOUS
<1>1. Kinds
  BY InitKinds
<1>2. Len(<<>>) = 0 /\ spc # "recive"
  BY EmptySeq DEF Init
<1>3. ASSUME NEW c \in Client PROVE Untouched(c) /\ StreamOf(c)
  <2>1. /\ nsent[c] = 0 /\ got[c] = <<>> /\ down[c] = <<>> /\ up[c] = <<>> /\ conn[c] = "none"
        /\ Held(c) = <<>> /\ cpc[c] = "start" /\ peer # c /\ backlog = <<>>
    BY EchoAssumption DEF Init, Held
  <2>2. Back(c) = <<>> /\ Row(c) = <<>>
    <3>1. \A S : <<>> \in Seq(S)
      BY EmptySeq
    <3>2. <<>> \o <<>> = <<>>
      BY <3>1, ConcatEmptySeq
    <3> QED
      BY <2>1, <3>2 DEF Back, Row
  <2>3. Requested(c) = <<>>
    BY <2>1 DEF Requested
  <2>4. Untouched(c) /\ LastSent(c)
    BY <1>2, <2>1 DEF Untouched, LastSent
  <2>5. Ordered(c) /\ Complete(c)
    BY <1>2, <2>1, <2>2, <2>3 DEF Ordered, Complete, Rising, Upto
  <2>6. Finished(c)
    BY <2>1 DEF Finished, Left
  <2> QED
    BY <2>4, <2>5, <2>6 DEF StreamOf
<1> QED
  BY <1>1, <1>2, <1>3 DEF EchoInv, StreamInv

LEMMA EchoStep == EchoInv /\ [Next]_vars => EchoInv'
<1> SUFFICES ASSUME EchoInv, [Next]_vars PROVE EchoInv'
  OBVIOUS
<1>1. Kinds /\ StreamInv /\ Kinds'
  BY CountersStep, ContentsStep DEF EchoInv, Kinds
<1>2. IsStream' <=> IsStream
  BY <1>1, SameTransport
<1>3. ASSUME IsStream
      PROVE  (\A c \in Client : Untouched(c) /\ StreamOf(c))' /\ (spc = "recive" => active)'
  <2>1. \A c \in Client : Untouched(c)'
    BY <1>1, <1>3, UntouchedStep DEF StreamInv
  <2>2. \A c \in Client : StreamOf(c)'
    BY <1>1, <1>3, StreamStep DEF StreamInv
  <2>3. (spc = "recive" => active)'
    BY <1>1, <1>3, ActiveStep DEF StreamInv
  <2> QED
    BY <2>1, <2>2, <2>3
<1> QED
  BY <1>1, <1>2, <1>3 DEF EchoInv, StreamInv

\* For any number of clients and objects, and buffers of any size: what comes back
\* to a client is its own, over TCP once and in order, and a client whose objects
\* were received as a whole misses nothing.
THEOREM AnswersAreOwn == Spec => []Echoes
<1>1. ASSUME EchoInv PROVE Echoes
  <2> SUFFICES ASSUME NEW c \in Client
               PROVE  LET s == got[c] \o down[c] IN
                      /\ \A i \in 1..Len(s) :
                           \/ s[i] = Blank /\ c \in cut
                           \/ s[i].by = c /\ s[i].at \in 1..nsent[c]
                      /\ IsStream => \A i, j \in 1..Len(s) :
                           i < j /\ s[i] # Blank /\ s[j] # Blank => s[i].at < s[j].at
                      /\ IsStream /\ c \notin cut /\ Living(c) /\ spc # "dead"
                           => Row(c) = Requested(c)
    BY DEF Echoes
  <2> DEFINE s == got[c] \o down[c]
  <2>1. Kinds /\ (IsStream => StreamOf(c))
    BY <1>1 DEF EchoInv, StreamInv
  <2>2. s \in Seq(Mine(c))
    BY <2>1, ConcatProperties DEF Kinds, Contents, OwnBuffers
  <2>3. got[c] \in Seq(Stuff) /\ down[c] \in Seq(Stuff) /\ Held(c) \in Seq(Stuff)
        /\ nsent[c] \in Nat
    BY <2>1, Places
  <2>4. ASSUME NEW i \in 1..Len(s)
        PROVE  (s[i] = Blank /\ c \in cut) \/ (s[i].by = c /\ s[i].at \in 1..nsent[c])
    <3>1. s[i] \in Mine(c)
      BY <2>2, ElementOfSeq
    <3>2. \A x \in Mine(c) : (x = Blank /\ c \in cut) \/ (x.by = c /\ x.at \in 1..nsent[c])
      <4>1. \A x \in Genuine(c) : x.by = c /\ x.at \in 1..nsent[c]
        BY <2>3, NumberFacts DEF Genuine, Sendable
      <4>2. \A x \in Mine(c) : x \in Genuine(c) \/ (x = Blank /\ c \in cut)
        BY DEF Mine
      <4> QED
        BY <4>1, <4>2
    <3> QED
      BY <3>1, <3>2
  <2>5. ASSUME IsStream PROVE Rising(s)
    <3>1. CASE Live(c)
      <4>1. PICK u \in Seq(Stuff) : u = s
        BY <2>3, ConcatProperties
      <4>2. PICK v \in Seq(Stuff) : v = Held(c)
        BY <2>3
      <4>3. Rising(u \o v)
        BY <2>1, <2>5, <3>1, <4>1, <4>2 DEF StreamOf, Ordered, Back
      <4> QED
        BY <4>1, <4>3, RisingPrefix
    <3>2. CASE ~Live(c)
      <4>1. Rising(got[c]) /\ down[c] = <<>>
        BY <2>1, <2>5, <3>2 DEF StreamOf, Ordered
      <4>2. s = got[c]
        BY <2>3, <4>1, ConcatEmptySeq
      <4> QED
        BY <4>1, <4>2
    <3> QED
      BY <3>1, <3>2
  <2>6. IsStream /\ c \notin cut /\ Living(c) /\ spc # "dead" => Row(c) = Requested(c)
    BY <2>1 DEF StreamOf, Complete, Live, Living
  <2> QED
    BY <2>4, <2>5, <2>6 DEF Rising
<1> QED
  BY <1>1, InitEcho, EchoStep, PTL DEF Spec

-----------------------------------------------------------------------------
(* The end of a client *)

\* Cases the sleep is long enough for.
InTime(c) == IsStream /\ SleepSuffices /\ spc # "dead" /\ c \notin cut

\* After the sleep everything has come back, and it stays so.
Settled(c) ==
    /\ cpc[c] = "join" /\ InTime(c) => up[c] = <<>> /\ down[c] = <<>> /\ Held(c) = <<>>
    /\ cpc[c] = "done" => /\ rxpc[c] = "finished"
                          /\ InTime(c) => got[c] = Requested(c)

\* A thread that is done stays as it is, and so does what it received.
LEMMA SettledKept ==
  ASSUME EchoInv, [Next]_vars, NEW d \in Client, Settled(d),
         cpc'[d] = cpc[d], nsent'[d] = nsent[d],
         cpc[d] = "done" => rxpc'[d] = rxpc[d] /\ got'[d] = got[d],
         spc = "dead" => spc' = "dead", cut \subseteq cut',
         cpc[d] = "join" /\ InTime(d) => up'[d] = up[d] /\ down'[d] = down[d] /\ Held(d)' = Held(d)
  PROVE  Settled(d)'
<1>1. InTime(d)' => InTime(d)
  BY SameTransport DEF InTime, EchoInv, Kinds, Counters
<1>2. Requested(d)' = Requested(d)
  BY DEF Requested, Piece
<1> HIDE DEF InTime
<1> QED
  BY <1>1, <1>2 DEF Settled

LEMMA SettledStep ==
  ASSUME EchoInv, [Next]_vars, NEW d \in Client, Settled(d)
  PROVE  Settled(d)'
<1>1. Counters /\ Kinds /\ transport \in Transport
  BY DEF Kinds, EchoInv, Counters
<1>2. down = [c \in Client |-> down[c]] /\ up = [c \in Client |-> up[c]]
      /\ got = [c \in Client |-> got[c]]
  BY <1>1 DEF Kinds, Contents
<1>3. ASSUME IsStream PROVE Untouched(d) /\ StreamOf(d)
  BY <1>3 DEF EchoInv, StreamInv
<1> USE DEF Goes, clientVars, serverVars, netVars
<1>4. ASSUME cpc'[d] \notin {"join", "done"} PROVE Settled(d)'
  BY <1>4 DEF Settled
<1>5. CASE UNCHANGED vars
  BY <1>5, SettledKept DEF vars, Held
<1>6. ASSUME NEW c \in Client, c # d, cpc'[d] = cpc[d], nsent'[d] = nsent[d],
             rxpc'[d] = rxpc[d], got'[d] = got[d], down'[d] = down[d], up'[d] = up[d],
             UNCHANGED <<spc, peer, tx, cut>>
      PROVE  Settled(d)'
  <2>1. Held(d)' = Held(d)
    BY <1>6 DEF Held
  <2> QED
    BY <1>6, <2>1, SettledKept
<1>7. ASSUME NEW c \in Client, Closes(c), Goes(c, "gone") \/ Goes(c, "done"), c # d,
             UNCHANGED <<nsent, spc, peer, tx, cut>>,
             got' = got \/ got' = [got EXCEPT ![c] = <<>>]
      PROVE  Settled(d)'
  <2>1. cpc'[d] = cpc[d] /\ got'[d] = got[d]
    BY <1>1, <1>2, <1>7 DEF Counters
  <2>2. down'[d] = down[d] /\ up'[d] = up[d]
    BY <1>1, <1>2, <1>7, ClosesFacts
  <2>3. rxpc'[d] = rxpc[d]
    <3>1. rxpc' = [rxpc EXCEPT ![c] = IF rxpc[c] = "select" THEN "none" ELSE rxpc[c]]
      BY <1>1, <1>7, ClosesFacts
    <3> QED
      BY <1>1, <1>7, <3>1 DEF Counters
  <2> QED
    BY <1>6, <1>7, <2>1, <2>2, <2>3
<1>8. ASSUME NEW c \in Client, cpc[c] = "send", NEW k \in 1..Unsent(c), Sent(c, k),
             up' = up \/ \E w : up' = [up EXCEPT ![c] = w],
             UNCHANGED <<rxpc, got, down, spc, peer, tx, cut>>
      PROVE  Settled(d)'
  <2>1. CASE c # d
    <3>1. cpc'[d] = cpc[d] /\ nsent'[d] = nsent[d]
      BY <1>1, <1>8, <2>1, SentCounters
    <3>2. up'[d] = up[d]
      BY <1>2, <1>8, <2>1
    <3> QED
      BY <1>6, <1>8, <2>1, <3>1, <3>2
  <2>2. CASE c = d
    <3>1. cpc'[d] \in {"send", "sleep"}
      BY <1>1, <1>8, <2>2, SentCounters
    <3> QED
      BY <1>4, <3>1
  <2> QED
    BY <2>1, <2>2
<1>9. ASSUME NEW c \in Client, Connect(c) \/ ConnectFails(c) \/ StartRx(c) PROVE Settled(d)'
  <2>1. /\ UNCHANGED <<nsent, got, down, up, spc, peer, tx, cut>>
        /\ \E here \in {"connected", "failed", "send"} : cpc' = [cpc EXCEPT ![c] = here]
        /\ rxpc' = rxpc \/ rxpc' = [rxpc EXCEPT ![c] = "select"]
    BY <1>9 DEF Connect, ConnectFails, StartRx
  <2>2. CASE c = d
    BY <1>1, <1>4, <2>1, <2>2 DEF Counters
  <2>3. CASE c # d
    <3>1. cpc'[d] = cpc[d] /\ rxpc'[d] = rxpc[d]
      BY <1>1, <2>1, <2>3 DEF Counters
    <3> QED
      BY <1>6, <2>1, <2>3, <3>1
  <2> QED
    BY <2>2, <2>3
<1>10. ASSUME NEW c \in Client, Send(c) PROVE Settled(d)'
  <2>1. /\ cpc[c] = "send" /\ UNCHANGED <<rxpc, got, down, spc, peer, tx, cut>>
        /\ \E k \in 1..Unsent(c) : Sent(c, k) /\ \E w : up' = [up EXCEPT ![c] = w]
    BY <1>10 DEF Send
  <2> QED
    BY <1>8, <2>1
<1>11. ASSUME NEW c \in Client, SendBroken(c) PROVE Settled(d)'
  <2>1. cpc[c] = "send" /\ UNCHANGED <<spc, peer, tx, cut>>
    BY <1>11 DEF SendBroken
  <2>2. CASE (\E k \in 1..Unsent(c) : Sent(c, k)) /\ UNCHANGED <<rxpc, cancel, got, netVars>>
    BY <1>8, <2>1, <2>2
  <2>3. CASE Dies(c) /\ UNCHANGED nsent
    <3>1. CASE c # d
      BY <1>7, <2>1, <2>3, <3>1 DEF Dies
    <3>2. CASE c = d
      <4>1. cpc'[d] = "gone"
        BY <1>1, <2>3, <3>2 DEF Dies, Counters
      <4> QED
        BY <1>4, <4>1
    <3> QED
      BY <3>1, <3>2
  <2> QED
    BY <1>11, <2>2, <2>3 DEF SendBroken
<1>12. ASSUME NEW c \in Client, Crash(c) PROVE Settled(d)'
  <2>1. CASE c # d
    BY <1>7, <1>12, <2>1 DEF Crash, Dies
  <2>2. CASE c = d
    <3>1. cpc'[d] = "gone"
      BY <1>1, <1>12, <2>2 DEF Crash, Dies, Counters
    <3> QED
      BY <1>4, <3>1
  <2> QED
    BY <2>1, <2>2
<1>13. ASSUME NEW c \in Client, Unblock(c) PROVE Settled(d)'
  <2>1. /\ UNCHANGED <<nsent, rxpc, got, down, up, spc, peer, tx, cut>>
        /\ cpc' = [cpc EXCEPT ![c] = "join"]
        /\ SleepSuffices /\ c \notin cut => Quiet(c)
    BY <1>13 DEF Unblock
  <2>2. CASE c # d
    <3>1. cpc'[d] = cpc[d]
      BY <1>1, <2>1, <2>2 DEF Counters
    <3> QED
      BY <1>6, <2>1, <2>2, <3>1
  <2>3. CASE c = d
    <3>1. cpc'[d] = "join"
      BY <1>1, <2>1, <2>3 DEF Counters
    <3>2. InTime(d)' => up'[d] = <<>> /\ down'[d] = <<>> /\ Held(d)' = <<>>
      BY <2>1, <2>3 DEF InTime, Quiet, Held
    <3> QED
      BY <3>1, <3>2 DEF Settled
  <2> QED
    BY <2>2, <2>3
<1>14. ASSUME NEW c \in Client, Exit(c) PROVE Settled(d)'
  <2>1. /\ UNCHANGED <<nsent, got, spc, peer, tx, cut>> /\ Closes(c) /\ Goes(c, "done")
        /\ cpc[c] = "join" /\ rxpc[c] = "finished"
    BY <1>14 DEF Exit
  <2>2. CASE c # d
    BY <1>7, <2>1, <2>2
  <2>3. CASE c = d
    <3>1. cpc'[d] = "done" /\ rxpc'[d] = "finished"
      BY <1>1, <2>1, <2>3, ClosesFacts DEF Counters
    <3>2. ASSUME InTime(d)' PROVE got'[d] = Requested(d)'
      <4>1. InTime(d) /\ IsStream
        BY <1>1, <2>1, <3>2, SameTransport DEF InTime
      <4>2. up[d] = <<>> /\ down[d] = <<>> /\ Held(d) = <<>>
        BY <2>1, <2>3, <4>1 DEF Settled
      <4>3. Row(d) = Requested(d)
        BY <1>3, <2>1, <2>3, <4>1 DEF StreamOf, Complete, Live, InTime
      <4>4. PICK g \in Seq(Stuff) : g = got[d]
        BY <1>1, Places
      <4>5. g \o <<>> = g
        BY ConcatEmptySeq
      <4>6. Row(d) = got[d]
        BY <4>2, <4>4, <4>5 DEF Row, Back
      <4>7. Requested(d)' = Requested(d)
        BY <2>1 DEF Requested, Piece
      <4> QED
        BY <2>1, <4>3, <4>6, <4>7
    <3> QED
      BY <3>1, <3>2 DEF Settled
  <2> QED
    BY <2>2, <2>3
<1>15. ASSUME NEW c \in Client, RxStep(c) PROVE Settled(d)'
  <2>1. /\ rxpc[c] = "select" /\ UNCHANGED <<cpc, nsent, up, spc, peer, tx, cut>>
        /\ rxpc' = rxpc \/ rxpc' = [rxpc EXCEPT ![c] = "finished"]
    BY <1>15 DEF RxStep, RxShows, RxEnd, RxUnblocked, vars
  <2>2. \/ UNCHANGED <<got, down>>
        \/ \E t \in Takes(down[c]) : /\ got' = [got EXCEPT ![c] = got[c] \o t.now]
                                     /\ down' = [down EXCEPT ![c] = t.left]
    BY <1>15 DEF RxStep, RxShows, RxEnd, RxUnblocked, vars
  <2>3. CASE c # d
    <3>1. rxpc'[d] = rxpc[d] /\ got'[d] = got[d] /\ down'[d] = down[d]
      BY <1>1, <1>2, <2>1, <2>2, <2>3 DEF Counters
    <3> QED
      BY <1>6, <2>1, <2>3, <3>1
  <2>4. CASE c = d
    <3>1. cpc[d] # "done"
      BY <1>1, <2>1, <2>4 DEF Counters
    <3>2. Held(d)' = Held(d)
      BY <2>1 DEF Held
    <3>3. down[d] = <<>> => UNCHANGED <<got, down>>
      <4>1. down[d] \in Seq(Stuff)
        BY <1>1, Places
      <4>2. ASSUME NEW t \in Takes(down[d]) PROVE down[d] # <<>>
        <5>1. Len(t.left) \in Nat /\ Len(t.left) < Len(down[d])
          BY <1>1, <4>1, <4>2, TakesFacts
        <5> QED
          BY <5>1, EmptySeq
      <4> QED
        BY <2>2, <2>4, <4>2
    <3>4. cpc[d] = "join" /\ InTime(d) => down'[d] = down[d]
      BY <3>3 DEF Settled
    <3> QED
      BY <2>1, <3>1, <3>2, <3>4, SettledKept
  <2> QED
    BY <2>3, <2>4
<1>16. CASE waitForConnection
  <2>1. UNCHANGED <<cpc, nsent, rxpc, got, cut>> /\ spc = "accept" /\ spc' = "recive"
    BY <1>16 DEF waitForConnection
  <2>2. Held(d)' = Held(d)
    BY <2>1 DEF Held
  <2>3. ASSUME cpc[d] = "join", InTime(d) PROVE up'[d] = up[d] /\ down'[d] = down[d]
    <3>1. up[d] = <<>> /\ down[d] = <<>> /\ IsStream
      BY <2>3 DEF Settled, InTime
    <3>2. \/ UNCHANGED <<up, down>>
          \/ /\ up' = [up EXCEPT ![peer] = <<>>]
             /\ \E w \in Arriving(peer) : down' = [down EXCEPT ![peer] = w]
      BY <1>16, <3>1 DEF waitForConnection, AcceptStream
    <3>3. CASE peer # d
      BY <1>2, <3>2, <3>3
    <3>4. CASE peer = d /\ ~UNCHANGED <<up, down>>
      <4>1. PICK w \in Arriving(d) : down' = [down EXCEPT ![d] = w]
        BY <3>2, <3>4
      <4>2. w = down[d]
        BY <1>1, <3>1, ArrivesWhole
      <4> QED
        BY <1>2, <3>1, <3>2, <3>4, <4>1, <4>2
    <3> QED
      BY <3>3, <3>4
  <2>4. spc = "dead" => spc' = "dead"
    BY <2>1
  <2> QED
    BY <2>1, <2>2, <2>3, <2>4, SettledKept
<1>17. CASE Recive
  <2>1. /\ UNCHANGED <<cpc, nsent, rxpc, got, down>> /\ spc = "recive" /\ cut \subseteq cut'
    BY <1>17 DEF Recive
  <2>2. ASSUME IsStream, up[d] = <<>>
        PROVE  up'[d] = up[d] /\ Held(d)' = Held(d)
    <3>1. PICK t \in Takes(up[peer]) : up' = [up EXCEPT ![peer] = t.left] /\ peer' = peer
      BY <1>17, <2>2 DEF Recive
    <3>2. peer # d
      <4>1. ASSUME peer = d PROVE FALSE
        <5>1. up[d] \in Seq(Stuff)
          BY <1>1, Places
        <5>2. Len(t.left) \in Nat /\ Len(t.left) < Len(up[d])
          BY <1>1, <3>1, <4>1, <5>1, TakesFacts
        <5> QED
          BY <2>2, <5>2, EmptySeq
      <4> QED
        BY <4>1
    <3> QED
      BY <1>2, <2>1, <3>1, <3>2 DEF Held
  <2>3. cpc[d] = "join" /\ InTime(d) => up'[d] = up[d] /\ Held(d)' = Held(d)
    BY <2>2 DEF Settled, InTime
  <2>4. spc = "dead" => spc' = "dead"
    BY <2>1
  <2> QED
    BY <2>1, <2>3, <2>4, SettledKept
<1>18. CASE ReciveEnd
  <2>1. /\ UNCHANGED <<cpc, nsent, rxpc, got, up, down, peer, cut>> /\ spc = "recive"
        /\ conn[peer] \in {"fin", "reset"} /\ IsStream
    BY <1>18 DEF ReciveEnd
  <2>2. cpc[d] = "join" => peer # d
    BY <1>1, <2>1 DEF Counters
  <2>3. cpc[d] = "join" => Held(d)' = Held(d)
    BY <2>1, <2>2 DEF Held
  <2>4. spc = "dead" => spc' = "dead"
    BY <2>1
  <2> QED
    BY <2>1, <2>3, <2>4, SettledKept
<1>19. CASE Echo
  <2>1. /\ UNCHANGED <<cpc, nsent, rxpc, got, up, peer, cut>> /\ spc = "echo"
        /\ down' = down \/ \E w : down' = [down EXCEPT ![peer] = w]
    BY <1>19 DEF Echo
  <2>2. cpc[d] = "join" /\ InTime(d) => peer # d
    BY <1>1, <2>1 DEF Settled, Held, Kinds, Contents, OwnAnswer
  <2>3. cpc[d] = "join" /\ InTime(d) => down'[d] = down[d] /\ Held(d)' = Held(d)
    BY <1>2, <2>1, <2>2 DEF Held
  <2>4. spc = "dead" => spc' = "dead"
    BY <2>1
  <2> QED
    BY <2>1, <2>3, <2>4, SettledKept
<1>20. CASE EchoBroken \/ ServerFails
  <2>1. /\ UNCHANGED <<cpc, nsent, rxpc, got>> /\ spc' = "dead"
    BY <1>20 DEF EchoBroken, ServerFails, ServerDies
  <2> QED
    BY <2>1 DEF Settled, InTime
<1>21. ASSUME NEW c \in Client, Lose(c) \/ Duplicate(c) PROVE Settled(d)'
  <2>1. UNCHANGED <<cpc, nsent, rxpc, got, spc, peer, tx, cut>> /\ ~IsStream
    BY <1>21 DEF Lose, Duplicate
  <2>2. ~InTime(d) /\ (spc = "dead" => spc' = "dead") /\ cut \subseteq cut'
    BY <2>1 DEF InTime
  <2> QED
    BY <2>1, <2>2, SettledKept
<1> QED
  BY <1>5, <1>9, <1>10, <1>11, <1>12, <1>13, <1>14, <1>15, <1>16, <1>17, <1>18, <1>19,
     <1>20, <1>21 DEF Next, MainStep, ServerStep

AllSettled == \A c \in Client : Settled(c)

\* For any number of clients and objects, and buffers of any size: a client that
\* ends has joined its thread, and over TCP, received as a whole, it has all its
\* answers.
THEOREM ClientsEndComplete == Spec => []EndsComplete
<1>1. Init => EchoInv /\ AllSettled
  <2>1. Init => AllSettled
    BY DEF Init, AllSettled, Settled
  <2> QED
    BY <2>1, InitEcho
<1>2. EchoInv /\ AllSettled /\ [Next]_vars => EchoInv' /\ AllSettled'
  <2>1. ASSUME EchoInv, AllSettled, [Next]_vars PROVE AllSettled'
    BY <2>1, SettledStep DEF AllSettled
  <2> QED
    BY <2>1, EchoStep
<1>3. AllSettled => EndsComplete
  BY DEF AllSettled, Settled, EndsComplete, InTime
<1> QED
  BY <1>1, <1>2, <1>3, PTL DEF Spec

-----------------------------------------------------------------------------
(* The server *)

Ongoing(c) == cpc[c] \in {"connected", "send", "sleep"}

\* While nothing fails and every object is received as a whole, the server works
\* for a client that is there to get the answers, and with the next one it has not
\* begun.
Calm ==
    /\ spc # "dead"
    /\ \A c \in Client : cpc[c] # "gone" /\ conn[c] # "reset"
    /\ spc \in {"recive", "echo"} => Ongoing(peer)
    /\ spc = "recive" \/ (spc = "echo" /\ active) => nsent[peer] - Len(up[peer]) < AllPieces
    /\ \A i \in 1..Len(backlog) :
         Ongoing(backlog[i]) /\ peer # backlog[i] /\ Len(up[backlog[i]]) = nsent[backlog[i]]
    /\ \A i, j \in 1..Len(backlog) : i # j => backlog[i] # backlog[j]

CalmInv == IF IsStream THEN faults = 0 /\ cut = {} => Calm
           ELSE spc = "dead" => faults > 0

\* A step of client c, with which c stays in its session or the server is done
\* with it.
LEMMA CalmClient ==
  ASSUME EchoInv, Calm, [Next]_vars, IsStream, NEW c \in Client,
         cpc'[c] # "gone", conn'[c] # "reset",
         \A d \in Client : d # c => /\ cpc'[d] = cpc[d] /\ conn'[d] = conn[d]
                                    /\ up'[d] = up[d] /\ nsent'[d] = nsent[d],
         UNCHANGED <<spc, active, peer, backlog>>,
         spc \in {"recive", "echo"} /\ peer = c => Ongoing(c)',
         \A i \in 1..Len(backlog) : backlog[i] = c => Ongoing(c)',
         nsent'[c] - Len(up'[c]) = nsent[c] - Len(up[c]),
         Len(up[c]) = nsent[c] => Len(up'[c]) = nsent'[c]
  PROVE  Calm'
<1>1. AllPieces' = AllPieces
  BY SameTransport DEF EchoInv, Kinds, Counters
<1>2. backlog \in Seq(Client) /\ (spc \in {"recive", "echo"} => peer \in Client)
  BY DEF EchoInv, Kinds, Counters
<1>3. \A i \in 1..Len(backlog) : backlog[i] \in Client
  BY <1>2, ElementOfSeq
<1>4. spc' # "dead" /\ \A d \in Client : cpc'[d] # "gone" /\ conn'[d] # "reset"
  BY DEF Calm
<1>5. (spc \in {"recive", "echo"} => Ongoing(peer))'
  <2>1. ASSUME spc \in {"recive", "echo"} PROVE cpc'[peer] \in {"connected", "send", "sleep"}
    <3>1. CASE peer = c
      BY <2>1, <3>1 DEF Ongoing
    <3>2. CASE peer # c
      BY <1>2, <2>1, <3>2 DEF Calm, Ongoing
    <3> QED
      BY <3>1, <3>2
  <2> QED
    BY <2>1 DEF Ongoing
<1>6. (spc = "recive" \/ (spc = "echo" /\ active) => nsent[peer] - Len(up[peer]) < AllPieces)'
  <2>1. ASSUME spc = "recive" \/ (spc = "echo" /\ active)
        PROVE  nsent'[peer] - Len(up'[peer]) < AllPieces
    <3>1. CASE peer = c
      BY <2>1, <3>1 DEF Calm
    <3>2. CASE peer # c
      BY <1>2, <2>1, <3>2 DEF Calm
    <3> QED
      BY <3>1, <3>2
  <2> QED
    BY <1>1, <2>1
<1>7. ASSUME NEW i \in 1..Len(backlog)
      PROVE  /\ cpc'[backlog[i]] \in {"connected", "send", "sleep"} /\ peer # backlog[i]
             /\ Len(up'[backlog[i]]) = nsent'[backlog[i]]
  <2>1. CASE backlog[i] = c
    BY <2>1 DEF Calm, Ongoing
  <2>2. CASE backlog[i] # c
    BY <1>3, <2>2 DEF Calm, Ongoing
  <2> QED
    BY <2>1, <2>2
<1>8. \A i, j \in 1..Len(backlog) : i # j => backlog[i] # backlog[j]
  BY DEF Calm
<1> QED
  BY <1>4, <1>5, <1>6, <1>7, <1>8 DEF Calm, Ongoing

\* Every step of a calm session leads to a calm session.
LEMMA CalmStep ==
  ASSUME SleepSuffices, EchoInv, EchoInv', AllSettled, Calm, [Next]_vars, IsStream,
         faults' = 0, faults = 0, cut' = {}, cut = {}
  PROVE  Calm'
<1>1. Counters /\ Kinds /\ transport \in Transport
  BY DEF Kinds, EchoInv, Counters
<1>2. down = [c \in Client |-> down[c]] /\ up = [c \in Client |-> up[c]]
      /\ got = [c \in Client |-> got[c]]
  BY <1>1 DEF Kinds, Contents
<1>3. \A c \in Client : Untouched(c) /\ StreamOf(c) /\ Settled(c)
  BY DEF EchoInv, StreamInv, AllSettled
<1>4. spc # "dead"
  BY DEF Calm
<1>5. AllPieces \in Nat \ {0} /\ AllPieces' = AllPieces
      /\ \A c \in Client : nsent[c] \in 0..AllPieces /\ Len(up[c]) \in Nat
  <2>1. \A c \in Client : Len(up[c]) \in Nat
    BY <1>1, Places
  <2> QED
    BY <1>1, <2>1, NumberFacts, SameTransport DEF Counters
<1>6. backlog \in Seq(Client) /\ Len(backlog) \in Nat
      /\ \A i \in 1..Len(backlog) : backlog[i] \in Client
  BY <1>1, ElementOfSeq, LenProperties DEF Counters
<1> USE DEF Goes, clientVars, serverVars, netVars
<1>7. CASE UNCHANGED vars
  <2>1. UNCHANGED <<spc, active, peer, backlog, cpc, conn, nsent, up>>
    BY <1>7 DEF vars
  <2> QED
    BY <1>5, <2>1 DEF Calm, Ongoing
<1>8. ASSUME NEW c \in Client, ConnectFails(c) \/ StartRx(c) \/ RxStep(c) PROVE Calm'
  <2>1. /\ UNCHANGED <<spc, active, peer, backlog, conn, nsent, up>>
        /\ \/ cpc' = cpc
           \/ cpc[c] = "start" /\ cpc' = [cpc EXCEPT ![c] = "failed"]
           \/ cpc[c] = "connected" /\ cpc' = [cpc EXCEPT ![c] = "send"]
    BY <1>8 DEF ConnectFails, StartRx, RxStep, RxShows, RxEnd, RxUnblocked, vars
  <2>2. /\ cpc'[c] # "gone" /\ conn'[c] # "reset" /\ (Ongoing(c) => Ongoing(c)')
        /\ \A d \in Client : d # c => cpc'[d] = cpc[d]
    BY <1>1, <2>1 DEF Counters, Ongoing, Calm
  <2>3. spc \in {"recive", "echo"} /\ peer = c => Ongoing(c)'
    BY <2>2 DEF Calm
  <2>4. \A i \in 1..Len(backlog) : backlog[i] = c => Ongoing(c)'
    BY <2>2 DEF Calm
  <2> HIDE DEF Ongoing
  <2> QED
    BY <2>1, <2>2, <2>3, <2>4, CalmClient
<1>9. ASSUME NEW c \in Client, Connect(c) PROVE Calm'
  <2>1. /\ UNCHANGED <<spc, active, peer, nsent, up>> /\ cpc[c] = "start"
        /\ cpc' = [cpc EXCEPT ![c] = "connected"]
        /\ conn' = [conn EXCEPT ![c] = "open"] /\ backlog' = Append(backlog, c)
    BY <1>9 DEF Connect
  <2>2. /\ nsent[c] = 0 /\ up[c] = <<>> /\ peer # c /\ Len(up[c]) = 0
        /\ \A i \in 1..Len(backlog) : backlog[i] # c
    BY <1>3, <2>1, EmptySeq DEF Untouched
  <2>3. /\ cpc'[c] = "connected" /\ \A d \in Client : d # c => cpc'[d] = cpc[d]
        /\ conn'[c] = "open" /\ \A d \in Client : d # c => conn'[d] = conn[d]
    BY <1>1, <2>1 DEF Counters
  <2>4. /\ Len(backlog') = Len(backlog) + 1 /\ backlog'[Len(backlog) + 1] = c
        /\ \A i \in 1..Len(backlog) : backlog'[i] = backlog[i]
    BY <1>6, <2>1, AppendProperties
  <2>5. \A i \in 1..Len(backlog') : i \in 1..Len(backlog) \/ i = Len(backlog) + 1
    BY <1>6, <2>4
  <2>6. \A d \in Client : Ongoing(d) => Ongoing(d)'
    BY <2>1, <2>3 DEF Ongoing
  <2>7. ASSUME NEW i \in 1..Len(backlog')
        PROVE  Ongoing(backlog[i])' /\ peer # backlog'[i] /\ Len(up[backlog'[i]]) = nsent[backlog'[i]]
    <3>1. CASE i \in 1..Len(backlog)
      BY <1>6, <2>3, <2>4, <3>1 DEF Calm, Ongoing
    <3>2. CASE i = Len(backlog) + 1
      BY <2>2, <2>3, <2>4, <3>2 DEF Ongoing
    <3> QED
      BY <2>5, <3>1, <3>2
  <2>8. \A i, j \in 1..Len(backlog') : i # j => backlog'[i] # backlog'[j]
    BY <2>2, <2>4, <2>5 DEF Calm
  <2>9. spc \in {"recive", "echo"} => peer \in Client
    BY <1>1 DEF Counters
  <2>10. (spc \in {"recive", "echo"} => Ongoing(peer))'
    BY <2>1, <2>3, <2>9 DEF Calm, Ongoing
  <2>11. spc' # "dead" /\ \A d \in Client : cpc'[d] # "gone" /\ conn'[d] # "reset"
    BY <2>1, <2>3 DEF Calm
  <2>12. (spc = "recive" \/ (spc = "echo" /\ active) => nsent[peer] - Len(up[peer]) < AllPieces)'
    BY <1>5, <2>1 DEF Calm
  <2> QED
    BY <2>1, <2>7, <2>8, <2>10, <2>11, <2>12 DEF Calm
<1>10. ASSUME NEW c \in Client, Send(c) PROVE Calm'
  <2>1. PICK k \in 1..Unsent(c) :
          /\ up' = [up EXCEPT ![c] = up[c] \o [i \in 1..k |-> Piece(c, nsent[c] + i)]]
          /\ Sent(c, k) /\ cpc[c] = "send"
    BY <1>10 DEF Send
  <2>2. /\ nsent' = [nsent EXCEPT ![c] = nsent[c] + k] /\ k \in Nat
        /\ nsent[c] + k <= AllPieces
        /\ \A d \in Client : d # c => cpc'[d] = cpc[d] /\ nsent'[d] = nsent[d]
        /\ cpc'[c] \in {"send", "sleep"}
    BY <1>1, <2>1, SentCounters
  <2>3. UNCHANGED <<spc, active, peer, backlog, conn>>
    BY <1>10 DEF Send
  <2>4. nsent'[c] = nsent[c] + k /\ \A d \in Client : d # c => up'[d] = up[d]
    BY <1>1, <1>2, <2>1, <2>2 DEF Counters
  <2>5. Len(up'[c]) = Len(up[c]) + k
    <3> DEFINE put == [i \in 1..k |-> Piece(c, nsent[c] + i)]
    <3>1. put \in Seq({x \in Sendable : x.by = c /\ x.at <= nsent[c] + k}) /\ Len(put) = k
      BY <1>5, <2>2, PutFacts
    <3>2. {x \in Sendable : x.by = c /\ x.at <= nsent[c] + k} \subseteq Stuff
      BY DEF Stuff
    <3>3. put \in Seq(Stuff) /\ up[c] \in Seq(Stuff) /\ up'[c] = up[c] \o put
      BY <1>1, <1>2, <2>1, <3>1, <3>2, SeqMonotonic, Places
    <3> HIDE DEF put
    <3> QED
      BY <3>1, <3>3, ConcatProperties
  <2>6. nsent'[c] - Len(up'[c]) = nsent[c] - Len(up[c])
        /\ (Len(up[c]) = nsent[c] => Len(up'[c]) = nsent'[c])
    BY <1>5, <2>2, <2>4, <2>5
  <2>7. Ongoing(c)' /\ cpc'[c] # "gone" /\ conn'[c] # "reset"
    BY <2>2, <2>3 DEF Ongoing, Calm
  <2> QED
    BY <2>2, <2>3, <2>4, <2>6, <2>7, CalmClient
<1>11. ASSUME NEW c \in Client PROVE ~SendBroken(c)
  <2>1. SUFFICES ASSUME SendBroken(c) PROVE FALSE
    OBVIOUS
  <2>2. cpc[c] = "send" /\ conn[c] = "closed"
    BY <2>1 DEF SendBroken
  <2>3. nsent[c] = AllPieces
    BY <1>3, <1>4, <2>2 DEF StreamOf, Finished, Live, Left
  <2>4. nsent[c] < AllPieces
    BY <1>1, <2>2 DEF Counters
  <2> QED
    BY <1>5, <2>3, <2>4
<1>12. ASSUME NEW c \in Client, Unblock(c) PROVE Calm'
  <2>1. /\ UNCHANGED <<spc, active, peer, backlog, conn, nsent, up>>
        /\ cpc[c] = "sleep" /\ cpc' = [cpc EXCEPT ![c] = "join"]
        /\ up[c] = <<>> /\ ~(spc = "echo" /\ peer = c)
    BY <1>4, <1>12 DEF Unblock, Quiet
  <2>2. nsent[c] = AllPieces /\ Len(up[c]) = 0
    BY <1>1, <2>1, EmptySeq DEF Counters
  <2>3. \A i \in 1..Len(backlog) : backlog[i] # c
    <3>1. AllPieces # 0
      BY <1>5
    <3> QED
      BY <2>2, <3>1 DEF Calm
  <2>4. ~(spc \in {"recive", "echo"} /\ peer = c)
    <3>1. ~(AllPieces - 0 < AllPieces)
      BY <1>5
    <3> QED
      BY <2>1, <2>2, <3>1 DEF Calm
  <2>5. /\ cpc'[c] # "gone" /\ conn'[c] # "reset"
        /\ \A d \in Client : d # c => cpc'[d] = cpc[d]
    BY <1>1, <2>1 DEF Counters, Calm
  <2> QED
    BY <2>1, <2>3, <2>4, <2>5, CalmClient
<1>13. ASSUME NEW c \in Client, Exit(c) PROVE Calm'
  <2>1. /\ UNCHANGED <<spc, active, peer, nsent>> /\ Closes(c) /\ Goes(c, "done")
        /\ cpc[c] = "join" /\ down[c] = <<>> /\ up[c] = <<>>
    BY <1>3, <1>4, <1>13 DEF Exit, Settled, InTime
  <2>2. /\ UNCHANGED <<backlog, up>>
        /\ conn' = [conn EXCEPT ![c] = "fin"] \/ conn' = [conn EXCEPT ![c] = "none"]
    BY <1>1, <2>1, ClosesFacts
  <2>3. /\ cpc'[c] # "gone" /\ conn'[c] # "reset"
        /\ \A d \in Client : d # c => cpc'[d] = cpc[d] /\ conn'[d] = conn[d]
    BY <1>1, <2>1, <2>2 DEF Counters
  <2>4. ~(spc \in {"recive", "echo"} /\ peer = c) /\ \A i \in 1..Len(backlog) : backlog[i] # c
    BY <2>1 DEF Calm, Ongoing
  <2> QED
    BY <2>1, <2>2, <2>3, <2>4, CalmClient
<1>14. ASSUME NEW c \in Client PROVE ~Crash(c) /\ ~Lose(c) /\ ~Duplicate(c)
  BY <1>1 DEF Crash, Lose, Duplicate, Counters
<1>15. CASE waitForConnection
  <2>1. /\ UNCHANGED <<cpc, nsent>> /\ spc' = "recive" /\ spc = "accept" /\ AcceptStream
    BY <1>15 DEF waitForConnection
  <2>2. /\ backlog # <<>> /\ peer' = Head(backlog) /\ backlog' = Tail(backlog)
        /\ \/ UNCHANGED <<conn, up>>
           \/ /\ conn' = [conn EXCEPT ![peer] = IF conn[peer] = "open" THEN "closed" ELSE "none"]
              /\ up' = [up EXCEPT ![peer] = <<>>]
    BY <2>1 DEF AcceptStream
  <2>3. /\ Len(Tail(backlog)) = Len(backlog) - 1
        /\ \A i \in 1..Len(Tail(backlog)) : Tail(backlog)[i] = backlog[i + 1]
    BY <1>6, <2>2, HeadTailProperties
  <2>4. Head(backlog) = backlog[1] /\ 1 \in 1..Len(backlog)
        /\ \A i \in 1..Len(Tail(backlog)) : i + 1 \in 1..Len(backlog) /\ i + 1 # 1
    <3>1. Len(backlog) # 0
      BY <1>6, <2>2, EmptySeq
    <3> QED
      BY <1>6, <2>3, <3>1
  <2>5. \A d \in Client : conn'[d] # "reset" /\ (d # peer => up'[d] = up[d])
    BY <1>1, <1>2, <2>2 DEF Calm, Counters
  <2>6. \A i \in 1..Len(backlog) : up'[backlog[i]] = up[backlog[i]]
    BY <1>6, <2>5 DEF Calm
  <2>7. ASSUME NEW i \in 1..Len(Tail(backlog))
        PROVE  /\ Ongoing(Tail(backlog)[i]) /\ peer' # Tail(backlog)[i]
               /\ Len(up'[Tail(backlog)[i]]) = nsent[Tail(backlog)[i]]
    BY <2>2, <2>3, <2>4, <2>6 DEF Calm
  <2>8. \A i, j \in 1..Len(Tail(backlog)) : i # j => Tail(backlog)[i] # Tail(backlog)[j]
    <3>1. \A i, j \in 1..Len(Tail(backlog)) : i # j => i + 1 # j + 1
      BY <2>3
    <3> QED
      BY <2>3, <2>4, <3>1 DEF Calm
  <2>9. nsent'[peer'] - Len(up'[peer']) < AllPieces /\ Ongoing(peer')
    <3>1. Ongoing(backlog[1]) /\ Len(up[backlog[1]]) = nsent[backlog[1]] /\ backlog[1] \in Client
      BY <1>6, <2>4 DEF Calm
    <3>2. nsent[backlog[1]] - Len(up'[backlog[1]]) = 0
      BY <1>5, <2>4, <2>6, <3>1
    <3> QED
      BY <1>5, <2>1, <2>2, <2>4, <3>1, <3>2
  <2>10. \A d : Ongoing(d)' <=> Ongoing(d)
    BY <2>1 DEF Ongoing
  <2>11. \A d \in Client : cpc'[d] # "gone"
    BY <2>1 DEF Calm
  <2>12. (spc \in {"recive", "echo"} => Ongoing(peer))'
    BY <2>1, <2>9 DEF Ongoing
  <2>13. \A i \in 1..Len(backlog') :
           /\ Ongoing(backlog[i])' /\ peer' # backlog'[i]
           /\ Len(up'[backlog'[i]]) = nsent'[backlog'[i]]
    BY <2>1, <2>2, <2>7 DEF Ongoing
  <2>14. (spc = "recive" \/ (spc = "echo" /\ active) => nsent[peer] - Len(up[peer]) < AllPieces)'
    BY <1>5, <2>9
  <2>15. spc' # "dead"
    BY <2>1
  <2>16. \A i, j \in 1..Len(backlog') : i # j => backlog'[i] # backlog'[j]
    BY <2>2, <2>8
  <2> QED
    BY <2>5, <2>11, <2>12, <2>13, <2>14, <2>15, <2>16 DEF Calm
<1>16. CASE Recive
  <2>1. PICK c \in Client : c = peer
    BY <1>1, <1>16 DEF Recive, Counters
  <2>2. /\ UNCHANGED <<cpc, nsent, conn, backlog>> /\ spc = "recive" /\ spc' = "echo" /\ peer' = c
    BY <1>16, <2>1 DEF Recive, Answers
  <2>3. PICK w : up' = [up EXCEPT ![c] = w]
    BY <1>16, <2>1 DEF Recive
  <2>4. \A d \in Client : d # c => up'[d] = up[d]
    BY <1>2, <2>3
  <2>5. StreamOf(c)' /\ Live(c)' /\ nsent'[c] \in 0..AllPieces /\ Len(up'[c]) \in Nat
    <3>1. StreamOf(c)'
      <4>1. StreamInv' /\ IsStream'
        BY <1>1, SameTransport DEF EchoInv
      <4> QED
        BY <4>1 DEF StreamInv
    <3>2. Live(c)'
      BY <2>1, <2>2 DEF Calm, Ongoing, Live
    <3>3. Len(up'[c]) \in Nat
      <4>1. OwnBuffers(c)'
        BY DEF EchoInv, Kinds, Contents
      <4> QED
        BY <4>1, LenProperties DEF OwnBuffers
    <3> QED
      BY <1>5, <2>2, <3>1, <3>2, <3>3
  <2>6. active' => nsent'[c] - Len(up'[c]) < AllPieces
    <3>1. active' => nsent'[c] - Len(up'[c]) # AllPieces
      <4>1. StreamOf(c) /\ (spc = "recive" => active)
        BY DEF EchoInv, StreamInv
      <4> QED
        BY <1>1, <1>16, <2>1, <4>1, StreamReceives
    <3> QED
      BY <1>5, <2>5, <3>1
  <2>7. (spc = "recive" \/ (spc = "echo" /\ active) => nsent[peer] - Len(up[peer]) < AllPieces)'
    BY <1>5, <2>2, <2>6
  <2>8. /\ spc' # "dead" /\ \A d \in Client : cpc'[d] # "gone" /\ conn'[d] # "reset"
        /\ (spc \in {"recive", "echo"} => Ongoing(peer))'
    BY <2>1, <2>2 DEF Calm, Ongoing
  <2>9. ASSUME NEW i \in 1..Len(backlog)
        PROVE  /\ Ongoing(backlog[i])' /\ peer' # backlog[i]
               /\ Len(up'[backlog[i]]) = nsent'[backlog[i]]
    BY <1>6, <2>1, <2>2, <2>4 DEF Calm, Ongoing
  <2>10. \A i, j \in 1..Len(backlog) : i # j => backlog[i] # backlog[j]
    BY DEF Calm
  <2> QED
    BY <2>2, <2>7, <2>8, <2>9, <2>10 DEF Calm
<1>17. ~ReciveEnd
  <2>1. SUFFICES ASSUME ReciveEnd PROVE FALSE
    OBVIOUS
  <2>2. spc = "recive" /\ conn[peer] \in {"fin", "reset"} /\ peer \in Client
    BY <1>1, <2>1 DEF ReciveEnd, Counters
  <2> QED
    BY <1>1, <2>2 DEF Calm, Ongoing, Counters
<1>18. CASE Echo
  <2>1. /\ UNCHANGED <<cpc, nsent, up, active, peer, backlog>> /\ spc = "echo" /\ peer \in Client
    BY <1>1, <1>18 DEF Echo, Counters
  <2>2. conn[peer] # "fin"
    BY <1>1, <2>1 DEF Calm, Ongoing, Counters
  <2>3. conn' = conn /\ \E w : Answered(w)
    BY <1>18, <2>2 DEF Echo
  <2>4. spc' = "echo" \/ (spc' = "recive" /\ active) \/ spc' = "accept"
    BY <2>3 DEF Answered
  <2>5. (spc = "recive" \/ (spc = "echo" /\ active) => nsent[peer] - Len(up[peer]) < AllPieces)'
    BY <1>5, <2>1, <2>4 DEF Calm
  <2>6. (spc \in {"recive", "echo"} => Ongoing(peer))'
    BY <2>1 DEF Calm, Ongoing
  <2>7. spc' # "dead"
    BY <2>4
  <2> QED
    BY <2>1, <2>3, <2>5, <2>6, <2>7 DEF Calm, Ongoing
<1>19. ~EchoBroken /\ ~ServerFails
  <2>1. ~EchoBroken
    BY <1>1 DEF EchoBroken, Calm, Counters
  <2>2. ~ServerFails
    BY DEF ServerFails
  <2> QED
    BY <2>1, <2>2
<1> QED
  BY <1>7, <1>8, <1>9, <1>10, <1>11, <1>12, <1>13, <1>14, <1>15, <1>16, <1>17, <1>18, <1>19
     DEF Next, MainStep, ServerStep

\* Failures and cut objects are never taken back.
LEMMA HistoryGrows ==
  ASSUME Kinds, [Next]_vars
  PROVE  cut \subseteq cut' /\ (faults' = 0 => faults = 0)
<1>1. cut \subseteq cut'
  BY DEF Next, vars, MainStep, RxStep, ServerStep, Connect, ConnectFails, StartRx, Send,
         SendBroken, Unblock, Exit, RxShows, RxEnd, RxUnblocked, Crash, Lose, Duplicate,
         waitForConnection, Recive, ReciveEnd, Echo, EchoBroken, ServerFails, ServerDies
<1>2. faults \in Nat
  BY EchoAssumption DEF Kinds, Counters
<1>3. faults' \in {faults, faults + 1}
  BY DEF Next, vars, MainStep, RxStep, ServerStep, Connect, ConnectFails, StartRx, Send,
         SendBroken, Unblock, Exit, RxShows, RxEnd, RxUnblocked, Crash, Lose, Duplicate,
         waitForConnection, Recive, ReciveEnd, Echo, EchoBroken, ServerFails, ServerDies
<1> QED
  BY <1>1, <1>2, <1>3

\* Over UDP the server ends with a kernel error only.
LEMMA DatagramDeath ==
  ASSUME [Next]_vars, ~IsStream
  PROVE  spc' = "dead" => \/ spc = "dead" /\ faults' \in {faults, faults + 1}
                          \/ faults' = faults + 1
<1>1. CASE spc' = spc /\ faults' \in {faults, faults + 1}
  BY <1>1
<1>2. CASE waitForConnection \/ Recive \/ ReciveEnd \/ Echo
  BY <1>2 DEF waitForConnection, Recive, ReciveEnd, Echo, Answers, Answered
<1>3. CASE ServerFails
  BY <1>3 DEF ServerFails
<1>4. ASSUME UNCHANGED vars
             \/ \E c \in Client : Connect(c) \/ ConnectFails(c) \/ MainStep(c) \/ RxStep(c)
                                  \/ Crash(c) \/ Lose(c) \/ Duplicate(c)
      PROVE  spc' = spc /\ faults' \in {faults, faults + 1}
  BY <1>4 DEF vars, MainStep, RxStep, Connect, ConnectFails, StartRx, Send, SendBroken,
     Unblock, Exit, RxShows, RxEnd, RxUnblocked, Crash, Lose, Duplicate, serverVars
<1>5. ~EchoBroken
  BY DEF EchoBroken
<1> QED
  BY <1>1, <1>2, <1>3, <1>4, <1>5 DEF Next, ServerStep

\* For any number of clients and objects, and buffers of any size: if the answers
\* come within the sleep, the server outlives every session in which nothing fails
\* and every object is received as a whole.
THEOREM ServerOutlives == ASSUME SleepSuffices PROVE Spec => []ServerSurvives
<1> DEFINE Inv == EchoInv /\ AllSettled /\ CalmInv
<1>1. Init => Inv
  <2>1. Init => AllSettled
    BY DEF Init, AllSettled, Settled
  <2>2. Init => CalmInv
    <3>1. Len(<<>>) = 0
      BY EmptySeq
    <3> QED
      BY <3>1 DEF Init, CalmInv, Calm
  <2> QED
    BY <2>1, <2>2, InitEcho
<1>2. ASSUME Inv, [Next]_vars PROVE Inv'
  <2>1. EchoInv' /\ AllSettled' /\ (IsStream' <=> IsStream)
    <3>1. AllSettled'
      BY <1>2, SettledStep DEF AllSettled
    <3>2. IsStream' <=> IsStream
      BY <1>2, SameTransport DEF EchoInv, Kinds, Counters
    <3> QED
      BY <1>2, <3>1, <3>2, EchoStep
  <2>2. cut \subseteq cut' /\ (faults' = 0 => faults = 0)
    BY <1>2, HistoryGrows DEF EchoInv
  <2>3. CASE IsStream
    <3>1. ASSUME faults' = 0, cut' = {} PROVE Calm'
      <4>1. faults = 0 /\ cut = {}
        BY <2>2, <3>1
      <4>2. Calm
        BY <1>2, <2>3, <4>1 DEF CalmInv
      <4> QED
        BY <1>2, <2>1, <2>3, <3>1, <4>1, <4>2, CalmStep
    <3> QED
      BY <2>1, <2>3, <3>1 DEF CalmInv
  <2>4. CASE ~IsStream
    <3>1. faults \in Nat
      BY <1>2, EchoAssumption DEF EchoInv, Kinds, Counters
    <3>2. spc' = "dead" => (spc = "dead" /\ faults' \in {faults, faults + 1})
                          \/ faults' = faults + 1
      BY <1>2, <2>4, DatagramDeath
    <3>3. spc = "dead" => faults > 0
      BY <1>2, <2>4 DEF CalmInv
    <3>4. spc' = "dead" => faults' > 0
      BY <3>1, <3>2, <3>3
    <3> QED
      BY <2>1, <2>4, <3>4 DEF CalmInv
  <2> QED
    BY <2>1, <2>3, <2>4
<1>3. Inv => ServerSurvives
  <2>1. Inv => faults \in Nat
    BY EchoAssumption DEF EchoInv, Kinds, Counters
  <2> QED
    BY <2>1 DEF CalmInv, Calm, ServerSurvives
<1> QED
  BY <1>1, <1>2, <1>3, PTL DEF Spec
=============================================================================
