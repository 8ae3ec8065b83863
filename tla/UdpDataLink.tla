---------------------------- MODULE UdpDataLink -----------------------------
(***************************************************************************)
(* CUdpDataLink (include/Udp/UdpDataLink.hpp, src/Udp/UdpDataLink.cpp) on  *)
(* the socket of a CUdpServer or a CUdpClient (src/Udp/UdpServer.cpp,      *)
(* src/Udp/UdpClient.cpp).                                                 *)
(*                                                                         *)
(* A link does not own a socket: it holds the number of its server's or    *)
(* client's descriptor, so all links of one server share one queue of      *)
(* datagrams.  Each link has a cancel request of its own and is used by    *)
(* one receiving thread.  Peers send datagrams over a network that loses,  *)
(* duplicates and reorders them.                                           *)
(*                                                                         *)
(* The contents of a receive buffer is abstracted to the pieces it was     *)
(* filled with: which datagram, from whom, and how many of its bytes fit.  *)
(***************************************************************************)
EXTENDS Integers, Sequences

CONSTANTS
    Peer,         \* the addresses datagrams come from
    NoPeer,       \* an empty address: an SPeerAddr nobody has set
    Link,         \* the links, each with its receiving thread
    Length,       \* the lengths of the datagrams peers send
    Size,         \* the sizes of the spans passed to reciveFrom
    ScanMode,     \* callbacks: "first" returns true, "never" false
    QueueSize,    \* datagrams the socket can hold; more are dropped
    MaxDatagram,  \* bound: number of datagrams sent by peers
    MaxUnblock,   \* bound: number of calls of unblockRecive
    MaxFault      \* bound: number of kernel errors

ASSUME UdpAssumption ==
    /\ Length \subseteq Nat /\ Size \subseteq Nat
    /\ ScanMode \subseteq {"first", "never"}
    /\ QueueSize \in Nat \ {0}
    /\ NoPeer \notin Peer
    /\ MaxDatagram \in Nat /\ MaxUnblock \in Nat /\ MaxFault \in Nat

VARIABLES
    flight,    \* datagrams the network may still deliver
    queue,     \* the socket's receive queue
    nsent,     \* number of datagrams sent by peers
    faults,    \* number of kernel errors so far
    unblocks,  \* number of calls of unblockRecive so far
    pc,        \* per link: "none", "wait", "idle", "select", "recv"
    size,      \* per link: size of the span passed to reciveFrom
    scan,      \* per link: the callback passed to reciveFrom
    rx,        \* per link: the pieces read by the present or last call
    dataRead,  \* per link: local of reciveFromImpl
    peer,      \* per link: the address last passed to the callback
    ret,       \* per link: how the last reciveFrom or sendTo ended
    cancel,    \* per link: a cancel request Select has not consumed
    \* history
    last       \* per link: what the last ::recvfrom of the call gave

callVars == <<size, scan, rx, dataRead, peer, last>>
linkVars == <<pc, callVars, ret, cancel>>
vars == <<flight, queue, nsent, faults, unblocks, linkVars>>

Datagram == [id : 1..MaxDatagram, from : Peer, len : Length]
Piece    == [id : 1..MaxDatagram, from : Peer, len : Nat, whole : BOOLEAN]
Raised   == {"domain_error", "runtime_error", "logic_error"}

TypeOK ==
    /\ flight \subseteq Datagram
    /\ queue \in Seq(Datagram) /\ Len(queue) <= QueueSize
    /\ nsent \in 0..MaxDatagram
    /\ faults \in 0..MaxFault
    /\ unblocks \in 0..MaxUnblock
    /\ pc \in [Link -> {"none", "wait", "idle", "select", "recv"}]
    /\ size \in [Link -> Nat]
    /\ scan \in [Link -> ScanMode \cup {"none"}]
    /\ rx \in [Link -> Seq(Piece)]
    /\ dataRead \in [Link -> Nat]
    /\ \A l \in Link : dataRead[l] <= size[l]
    /\ peer \in [Link -> Peer \cup {NoPeer}]
    /\ ret \in [Link -> {"none", "OK", "UNBLOCK"} \cup Raised]
    /\ cancel \in [Link -> BOOLEAN]
    /\ last \in [Link -> {"none", "data", "empty", "error"}]

Init ==
    /\ flight = {} /\ queue = <<>> /\ nsent = 0 /\ faults = 0 /\ unblocks = 0
    /\ pc = [l \in Link |-> "none"]
    /\ size = [l \in Link |-> 0]
    /\ scan = [l \in Link |-> "none"]
    /\ rx = [l \in Link |-> <<>>]
    /\ dataRead = [l \in Link |-> 0]
    /\ peer = [l \in Link |-> NoPeer]
    /\ ret = [l \in Link |-> "none"]
    /\ cancel = [l \in Link |-> FALSE]
    /\ last = [l \in Link |-> "none"]

-----------------------------------------------------------------------------
(* The peers and the network *)

PeerSends(p) ==
    /\ nsent < MaxDatagram
    /\ nsent' = nsent + 1
    /\ \E n \in Length : flight' = flight \cup {[id |-> nsent + 1, from |-> p, len |-> n]}
    /\ UNCHANGED <<queue, faults, unblocks, linkVars>>

\* A datagram arrives, and may arrive again; a full socket drops it.
Deliver(d) ==
    /\ queue' = IF Len(queue) < QueueSize THEN Append(queue, d) ELSE queue
    /\ flight' \in {flight, flight \ {d}}
    /\ UNCHANGED <<nsent, faults, unblocks, linkVars>>

Lose(d) ==
    /\ flight' = flight \ {d}
    /\ UNCHANGED <<queue, nsent, faults, unblocks, linkVars>>

-----------------------------------------------------------------------------
(* Getting and destroying a link *)

Waits(l) ==
    /\ pc[l] = "none"
    /\ pc' = [pc EXCEPT ![l] = "wait"]
    /\ UNCHANGED <<flight, queue, nsent, faults, unblocks, callVars, ret, cancel>>

\* A new link has a fresh CFdSet; what is queued stays queued for it.
NewLink(l) ==
    /\ pc' = [pc EXCEPT ![l] = "idle"]
    /\ cancel' = [cancel EXCEPT ![l] = FALSE]
    /\ ret' = [ret EXCEPT ![l] = "none"]
    /\ rx' = [rx EXCEPT ![l] = <<>>]
    /\ dataRead' = [dataRead EXCEPT ![l] = 0]
    /\ peer' = [peer EXCEPT ![l] = NoPeer]
    /\ last' = [last EXCEPT ![l] = "none"]
    /\ UNCHANGED <<flight, queue, nsent, faults, unblocks, size, scan>>

\* CUdpServer::waitForConnection returns a link once the socket is readable.
waitForConnection(l) ==
    /\ pc[l] = "wait"
    /\ queue # <<>>
    /\ NewLink(l)

\* CUdpClient::getLink, when the host's address was found.
getLink(l) ==
    /\ pc[l] = "none"
    /\ NewLink(l)

\* ~CUdpDataLink unblocks nobody but itself and leaves the socket open.
Destroy(l) ==
    /\ pc[l] = "idle"
    /\ pc' = [pc EXCEPT ![l] = "none"]
    /\ cancel' = [cancel EXCEPT ![l] = FALSE]
    /\ UNCHANGED <<flight, queue, nsent, faults, unblocks, callVars, ret>>

-----------------------------------------------------------------------------
(* Receiving *)

reciveFrom(l) ==
    /\ pc[l] = "idle"
    /\ pc' = [pc EXCEPT ![l] = "select"]
    /\ \E n \in Size : size' = [size EXCEPT ![l] = n]
    /\ \E mode \in ScanMode : scan' = [scan EXCEPT ![l] = mode]
    /\ rx' = [rx EXCEPT ![l] = <<>>]
    /\ dataRead' = [dataRead EXCEPT ![l] = 0]
    /\ peer' = [peer EXCEPT ![l] = NoPeer]
    /\ last' = [last EXCEPT ![l] = "none"]
    /\ ret' = [ret EXCEPT ![l] = "none"]
    /\ UNCHANGED <<flight, queue, nsent, faults, unblocks, cancel>>

Returns(l, r) ==
    /\ pc' = [pc EXCEPT ![l] = "idle"]
    /\ ret' = [ret EXCEPT ![l] = r]

\* Variant: a cancelled wait is started again.
SelectUnblockRestarts(l) ==
    /\ pc[l] = "select"
    /\ cancel[l]
    /\ cancel' = [cancel EXCEPT ![l] = FALSE]
    /\ UNCHANGED <<flight, queue, nsent, faults, unblocks, pc, callVars, ret>>

\* Select was cancelled: it leaves its callback uncalled and the span as it was.
SelectUnblock(l) ==
    /\ pc[l] = "select"
    /\ cancel[l]
    /\ cancel' = [cancel EXCEPT ![l] = FALSE]
    /\ Returns(l, "UNBLOCK")
    /\ UNCHANGED <<flight, queue, nsent, faults, unblocks, callVars>>

\* The socket is readable: the callback of Select starts its loop, which for
\* an empty span ends before it began.
SelectReady(l) ==
    /\ pc[l] = "select"
    /\ queue # <<>>
    /\ IF size[l] = 0 THEN Returns(l, "OK")
       ELSE /\ pc' = [pc EXCEPT ![l] = "recv"]
            /\ UNCHANGED ret
    /\ UNCHANGED <<flight, queue, nsent, faults, unblocks, callVars, cancel>>

\* Take the next datagram into `room' bytes of l's buffer, reported as coming
\* from `author'; an empty datagram looks like the end of a stream: the loop
\* ends without a call of the callback.
Take(l, room, author, more) ==
    LET d    == Head(queue)
        kept == IF d.len <= room THEN d.len ELSE room
    IN  /\ queue' = Tail(queue)
        /\ IF kept = 0
           THEN /\ Returns(l, "OK")
                /\ last' = [last EXCEPT ![l] = "empty"]
                /\ UNCHANGED <<rx, dataRead, peer>>
           ELSE /\ rx' = [rx EXCEPT ![l] = Append(@,
                       [id |-> d.id, from |-> d.from, len |-> kept, whole |-> kept = d.len])]
                /\ dataRead' = [dataRead EXCEPT ![l] = @ + kept]
                /\ peer' = [peer EXCEPT ![l] = author]
                /\ last' = [last EXCEPT ![l] = "data"]
                /\ IF more /\ kept < room
                   THEN UNCHANGED <<pc, ret>>
                   ELSE Returns(l, "OK")
        /\ UNCHANGED <<flight, nsent, faults, unblocks, size, scan, cancel>>

\* Variant: the space left is not reduced by what was read before.
recvfromWholeSpan(l) ==
    /\ pc[l] = "recv" /\ queue # <<>>
    /\ Take(l, size[l], Head(queue).from, scan[l] = "never")

\* Variant: a byte is kept free for a terminator.
recvfromTerminated(l) ==
    /\ pc[l] = "recv" /\ queue # <<>>
    /\ Take(l, size[l] - dataRead[l] - 1, Head(queue).from, scan[l] = "never")

\* Variant: what the callback returns is ignored.
recvfromGreedy(l) ==
    /\ pc[l] = "recv" /\ queue # <<>>
    /\ Take(l, size[l] - dataRead[l], Head(queue).from, TRUE)

\* Variant: the address family of the peer is not one toCIpAddress converts.
recvfromNoAddress(l) ==
    /\ pc[l] = "recv" /\ queue # <<>>
    /\ Take(l, size[l] - dataRead[l], NoPeer, scan[l] = "never")

(***************************************************************************)
(* One ::recvfrom takes one datagram, of which as much is kept as still    *)
(* fits; it blocks while the queue is empty, also when another link has    *)
(* emptied it since Select.  The callback gets the datagram's address.     *)
(***************************************************************************)
recvfrom(l) ==
    /\ pc[l] = "recv"
    /\ queue # <<>>
    /\ Take(l, size[l] - dataRead[l], Head(queue).from, scan[l] = "never")

\* Variant: an interrupted call ends the loop.
RecvInterruptedReturns(l) ==
    /\ pc[l] = "recv"
    /\ Returns(l, "OK")
    /\ UNCHANGED <<flight, queue, nsent, faults, unblocks, callVars, cancel>>

\* EINTR, EAGAIN or ETIMEDOUT: the loop goes round.
RecvInterrupted(l) ==
    /\ pc[l] = "recv"
    /\ UNCHANGED vars

RecvRaises(error) ==
    IF error \in {"EBADF", "EFAULT", "EINVAL", "ENXIO"}
    THEN "domain_error" ELSE "runtime_error"

\* ::recvfrom fails: ECONNRESET and ENOTCONN return what there is, the other
\* errors throw.
RecvFails(l) ==
    /\ pc[l] = "recv"
    /\ faults < MaxFault
    /\ faults' = faults + 1
    /\ \E error \in {"ENOTCONN", "ENOMEM", "EINVAL"} :
         Returns(l, IF error = "ENOTCONN" THEN "OK" ELSE RecvRaises(error))
    /\ last' = [last EXCEPT ![l] = "error"]
    /\ UNCHANGED <<flight, queue, nsent, unblocks,
                   size, scan, rx, dataRead, peer, cancel>>

\* Any thread may call it; it never waits.
unblockRecive(l) ==
    /\ pc[l] \in {"idle", "select", "recv"}
    /\ unblocks < MaxUnblock
    /\ unblocks' = unblocks + 1
    /\ cancel' = [cancel EXCEPT ![l] = TRUE]
    /\ UNCHANGED <<flight, queue, nsent, faults, pc, callVars, ret>>

(***************************************************************************)
(* sendTo(peer, ...), the answer to whoever reciveFrom has reported: a     *)
(* datagram goes out in one ::sendto or not at all; an address nobody has  *)
(* set is rejected before.                                                 *)
(***************************************************************************)
sendTo(l) ==
    /\ pc[l] = "idle"
    /\ ret[l] = "OK"
    /\ \/ /\ peer[l] = NoPeer
          /\ ret' = [ret EXCEPT ![l] = "logic_error"]
          /\ UNCHANGED faults
       \/ /\ peer[l] # NoPeer
          /\ UNCHANGED <<ret, faults>>
       \/ /\ peer[l] # NoPeer
          /\ faults < MaxFault
          /\ faults' = faults + 1
          /\ \E r \in {"domain_error", "runtime_error"} : ret' = [ret EXCEPT ![l] = r]
    /\ UNCHANGED <<flight, queue, nsent, unblocks, pc, callVars, cancel>>

-----------------------------------------------------------------------------
Next ==
    \/ \E p \in Peer : PeerSends(p)
    \/ \E d \in flight : Deliver(d) \/ Lose(d)
    \/ \E l \in Link :
        \/ Waits(l) \/ waitForConnection(l) \/ getLink(l) \/ Destroy(l)
        \/ reciveFrom(l) \/ SelectUnblock(l) \/ SelectReady(l)
        \/ recvfrom(l) \/ RecvInterrupted(l) \/ RecvFails(l)
        \/ unblockRecive(l) \/ sendTo(l)

Spec == Init /\ [][Next]_vars

\* A thread inside reciveFrom goes on if the kernel lets it; datagrams need
\* not be sent, and need not arrive.
Progress == \A l \in Link : WF_vars(SelectUnblock(l) \/ SelectReady(l) \/ recvfrom(l))

FairSpec == Spec /\ Progress

-----------------------------------------------------------------------------
(* Properties *)

\* A datagram is cut off only where the buffer ends: a piece that is not whole
\* is the last one, and the buffer is full.
CutOnlyWhenFull ==
    \A l \in Link : \A i \in 1..Len(rx[l]) :
        ~rx[l][i].whole => i = Len(rx[l]) /\ dataRead[l] = size[l]

\* The address given to the callback is the one of the newest bytes, and with a
\* callback that is content with one datagram it is that of all of them: no
\* call glues the datagrams of two peers together.
AuthorKnown ==
    \A l \in Link : rx[l] # <<>> =>
        /\ peer[l] = rx[l][Len(rx[l])].from
        /\ scan[l] = "first" => Len(rx[l]) = 1

\* Less than the span has room for is returned only if the callback got data and
\* wanted no more, or if the last thing this very call met was an empty datagram
\* or a kernel error.
NoEarlyReturn ==
    \A l \in Link : pc[l] = "idle" /\ ret[l] = "OK" /\ dataRead[l] < size[l]
        => \/ scan[l] = "first" /\ last[l] = "data"
           \/ last[l] \in {"empty", "error"}

\* Peers that send messages of one size, received with spans of that size as in
\* the examples: each successful call returns exactly one message, whole, with
\* the address it came from, whichever callback is used.
FixedSizeWhole ==
    \A l \in Link : pc[l] = "idle" /\ ret[l] = "OK" /\ faults = 0
        => \E d \in Datagram :
             /\ rx[l] = <<[id |-> d.id, from |-> d.from, len |-> size[l], whole |-> TRUE]>>
             /\ peer[l] = d.from

\* UdpDataLink.hpp:164 "is blocking if no data is available and can be
\* unblocked": a call that is waiting returns after unblockRecive was called.
UnblockFrees ==
    \A l \in Link : cancel[l] /\ pc[l] \in {"select", "recv"}
                      ~> pc[l] \notin {"select", "recv"}
=============================================================================
