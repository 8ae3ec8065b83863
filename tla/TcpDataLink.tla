---------------------------- MODULE TcpDataLink -----------------------------
(***************************************************************************)
(* CTcpDataLink (include/Tcp/TcpDataLink.hpp, src/Tcp/TcpDataLink.cpp).    *)
(*                                                                         *)
(* One direction of an established connection: threads at one end that     *)
(* call send on their link, the kernel's bounded buffer between the ends,  *)
(* and the thread at the other end that calls recive on its own link,      *)
(* while a further thread may call unblockRecive on that link.  The other  *)
(* direction is the same module again with the ends exchanged; what the    *)
(* two share, the state of the connection, may change at any time here.    *)
(*                                                                         *)
(* Each ::send and each ::recv is a step, so that partial writes, partial  *)
(* reads, errors and other threads come in between.  utils::CFdSet and the *)
(* kernel are modelled from how the code uses them: UnBlock sets a cancel  *)
(* request that stays until a Select consumes it; Select returns UNBLOCK   *)
(* for it or runs the callback when the descriptor is readable, whichever  *)
(* it finds first; readable means data, end of stream or a pending error.  *)
(***************************************************************************)
EXTENDS Integers, Sequences, FiniteSets

CONSTANTS
    Byte,          \* the values of a byte
    Sender,        \* the threads that call send on the sending end's link
    Message,       \* Message[s]: the spans thread s may send
    Size,          \* the sizes of the spans passed to recive
    ScanMode,      \* the callbacks passed to recive, see Scanned
    EndByte,       \* the bytes that end a message for the "mark" callback
    SocketFd,      \* number of the receiving link's descriptor
    SigpipeIgnored,\* whether the sending process ignores SIGPIPE
    BufferSize,    \* how many bytes the kernel buffers
    MaxSent,       \* bound: no send begins once so many bytes were sent
    MaxUnblock,    \* bound: number of calls of unblockRecive
    MaxFault       \* bound: number of transient kernel errors

ASSUME MessageAssumption == Message \in [Sender -> SUBSET (Seq(Byte) \ {<<>>})]

\* A byte stands for its value and for the thread that sends it, so that the
\* bytes of two threads can be told apart in the stream.
BytesOf(s) == UNION {{m[i] : i \in 1..Len(m)} : m \in Message[s]}
ASSUME SenderAssumption ==
    \A s, t \in Sender : s # t => BytesOf(s) \cap BytesOf(t) = {}
ASSUME SizeAssumption == Size \subseteq Nat
ASSUME BoundAssumption ==
    /\ BufferSize \in Nat \ {0}
    /\ MaxSent \in Nat
    /\ MaxUnblock \in Nat
    /\ MaxFault \in Nat

VARIABLES
    \* the sending end
    spc,         \* per thread: "idle", "sending", or "killed" by a signal
    tx,          \* per thread: the span passed to send
    dataWritten, \* per thread: local of send
    sret,        \* per thread: how its last send ended
    \* the kernel
    wire,        \* bytes accepted by ::send, not yet returned by ::recv
    conn,        \* "open", "fin" (sender closed) or "reset"
    faults,      \* number of transient errors so far
    \* the receiving end
    rpc,         \* "idle", "select", "recv" (in the callback), "destroyed"
    size,        \* size of the span passed to recive
    scan,        \* the callback passed to recive
    rx,          \* the bytes read by the present or else the last call
    ret,         \* how the last recive ended
    cancel,      \* cancel requests Select has not consumed
    unblocks,    \* number of calls of unblockRecive
    \* history
    sent,        \* all bytes the kernel ever accepted
    done,        \* per thread: the bytes its finished calls of send have written
    taken,       \* number of bytes ::recv ever returned
    delivered,   \* all bytes recive ever returned to its callers
    gap          \* a recive threw after it had read some bytes

senderVars   == <<spc, tx, dataWritten, sret, done>>
receiverVars == <<rpc, size, scan, rx, ret, cancel, unblocks, taken, delivered, gap>>
vars == <<senderVars, wire, conn, faults, sent, receiverVars>>

Raised == {"domain_error", "runtime_error", "logic_error"}

SenderTypeOK ==
    /\ spc \in [Sender -> {"idle", "sending", "killed"}]
    /\ tx \in [Sender -> Seq(Byte)]
    /\ dataWritten \in [Sender -> Nat]
    /\ \A s \in Sender : dataWritten[s] <= Len(tx[s])
    /\ sret \in [Sender -> {"none", "OK"} \cup Raised]
    /\ done \in [Sender -> Seq(Byte)]

KernelTypeOK ==
    /\ wire \in Seq(Byte) /\ Len(wire) <= BufferSize
    /\ conn \in {"open", "fin", "reset"}
    /\ faults \in 0..MaxFault
    /\ sent \in Seq(Byte)

ReceiverTypeOK ==
    /\ rpc \in {"idle", "select", "recv", "destroyed"}
    /\ size \in Nat
    /\ scan \in ScanMode \cup {"none"}
    /\ rx \in Seq(Byte) /\ Len(rx) <= size
    /\ ret \in {"none", "OK", "UNBLOCK"} \cup Raised
    /\ unblocks \in 0..MaxUnblock /\ cancel \in 0..unblocks
    /\ taken \in Nat
    /\ delivered \in Seq(Byte)
    /\ gap \in BOOLEAN

TypeOK == SenderTypeOK /\ KernelTypeOK /\ ReceiverTypeOK

Init ==
    /\ spc = [s \in Sender |-> "idle"]
    /\ tx = [s \in Sender |-> <<>>]
    /\ dataWritten = [s \in Sender |-> 0]
    /\ sret = [s \in Sender |-> "none"]
    /\ done = [s \in Sender |-> <<>>]
    /\ wire = <<>> /\ conn = "open" /\ faults = 0
    /\ rpc = "idle" /\ size = 0 /\ scan = "none" /\ rx = <<>> /\ ret = "none"
    /\ cancel = 0 /\ unblocks = 0
    /\ sent = <<>> /\ taken = 0 /\ delivered = <<>> /\ gap = FALSE

-----------------------------------------------------------------------------
(* The sending end *)

\* Calling send; an empty span returns at once and changes nothing.
Send(s) ==
    /\ spc[s] = "idle"
    /\ conn # "fin"
    /\ Len(sent) < MaxSent
    /\ \E m \in Message[s] : tx' = [tx EXCEPT ![s] = m]
    /\ spc' = [spc EXCEPT ![s] = "sending"]
    /\ dataWritten' = [dataWritten EXCEPT ![s] = 0]
    /\ sret' = [sret EXCEPT ![s] = "none"]
    /\ UNCHANGED <<done, wire, conn, faults, sent, receiverVars>>

\* send returns or throws; its caller can tell which from r.
SendReturns(s, r) ==
    /\ spc' = [spc EXCEPT ![s] = "idle"]
    /\ sret' = [sret EXCEPT ![s] = r]

\* Variant: every ::send starts from the beginning of the span.
PutFromStart(s) ==
    /\ spc[s] = "sending"
    /\ conn = "open"
    /\ \E n \in 1..(Len(tx[s]) - dataWritten[s]) :
        LET chunk == SubSeq(tx[s], 1, n)
        IN  /\ Len(wire) + n <= BufferSize
            /\ wire' = wire \o chunk
            /\ sent' = sent \o chunk
            /\ dataWritten' = [dataWritten EXCEPT ![s] = @ + n]
            /\ IF dataWritten[s] + n = Len(tx[s])
               THEN /\ SendReturns(s, "OK")
                    /\ done' = [done EXCEPT ![s] = @ \o tx[s]]
               ELSE UNCHANGED <<spc, sret, done>>
    /\ UNCHANGED <<tx, conn, faults, receiverVars>>

(***************************************************************************)
(* One ::send accepts as many of the remaining bytes as the buffer has     *)
(* room for, at least one: without room the call blocks.                   *)
(***************************************************************************)
Put(s) ==
    /\ spc[s] = "sending"
    /\ conn = "open"
    /\ \E n \in 1..(Len(tx[s]) - dataWritten[s]) :
        LET chunk == SubSeq(tx[s], dataWritten[s] + 1, dataWritten[s] + n)
        IN  /\ Len(wire) + n <= BufferSize
            /\ wire' = wire \o chunk
            /\ sent' = sent \o chunk
            /\ dataWritten' = [dataWritten EXCEPT ![s] = @ + n]
            /\ IF dataWritten[s] + n = Len(tx[s])
               THEN /\ SendReturns(s, "OK")
                    /\ done' = [done EXCEPT ![s] = @ \o tx[s]]
               ELSE UNCHANGED <<spc, sret, done>>
    /\ UNCHANGED <<tx, conn, faults, receiverVars>>

\* EINTR or EAGAIN: the loop goes round with its locals as they are.
SendInterrupted(s) ==
    /\ spc[s] = "sending"
    /\ UNCHANGED vars

SendRaises(error) ==
    IF error \in {"EINVAL", "EBADF", "ECONNRESET", "ENXIO", "EPIPE"}
    THEN "domain_error" ELSE "runtime_error"

\* The bytes of a thread the kernel has accepted, with those of its present call.
Written(s) ==
    done[s] \o (IF spc[s] = "sending" THEN SubSeq(tx[s], 1, dataWritten[s]) ELSE <<>>)

\* What was written of an unfinished message stays written.
SendThrows(s, error) ==
    /\ SendReturns(s, SendRaises(error))
    /\ done' = [done EXCEPT ![s] = Written(s)]

\* Variant: the errors of a broken connection are retried like EAGAIN.
SendBrokenRetried(s) ==
    /\ spc[s] = "sending"
    /\ conn = "reset"
    /\ UNCHANGED vars

(***************************************************************************)
(* ::send on a broken connection.  It is called with flags 0, so EPIPE     *)
(* comes with SIGPIPE, whose default action ends the process.              *)
(***************************************************************************)
SendBroken(s) ==
    /\ spc[s] = "sending"
    /\ conn = "reset"
    /\ \E error \in {"ECONNRESET", "EPIPE"} :
        IF error = "EPIPE" /\ ~SigpipeIgnored
        THEN /\ spc' = [t \in Sender |-> "killed"]
             /\ done' = [t \in Sender |-> Written(t)]
             /\ UNCHANGED sret
        ELSE SendThrows(s, error)
    /\ UNCHANGED <<tx, dataWritten, wire, conn, faults, sent, receiverVars>>

\* A failure that leaves the connection as it is, e.g. ENETDOWN.
SendFails(s) ==
    /\ spc[s] = "sending"
    /\ faults < MaxFault
    /\ faults' = faults + 1
    /\ \E error \in {"ENETDOWN", "ENOBUFS"} : SendThrows(s, error)
    /\ UNCHANGED <<tx, dataWritten, wire, conn, sent, receiverVars>>

\* The sending end's link is destroyed: its socket is closed and what is in
\* the buffer is still delivered.
SenderDestroyed ==
    /\ conn = "open"
    /\ \A s \in Sender : spc[s] = "idle"
    /\ conn' = "fin"
    /\ UNCHANGED <<senderVars, wire, faults, sent, receiverVars>>

-----------------------------------------------------------------------------
(* The kernel *)

\* The connection breaks (the peer host fails, or closes with data unread):
\* whatever had not arrived yet is lost.
Reset ==
    /\ conn # "reset"
    /\ conn' = "reset"
    /\ \E n \in 0..Len(wire) : wire' = SubSeq(wire, 1, n)
    /\ UNCHANGED <<senderVars, faults, sent, receiverVars>>

-----------------------------------------------------------------------------
(* The receiving end *)

\* The data the callback scanForEnd accepts as the end of what it waits for:
\* "first" is defaultOneRead, "full" wants the span filled, "mark" wants an
\* end byte somewhere in what was read.
Scanned(mode, data) ==
    CASE mode = "first" -> TRUE
      [] mode = "mark"  -> \E i \in 1..Len(data) : data[i] \in EndByte
      [] OTHER          -> FALSE

Recive ==
    /\ rpc = "idle"
    /\ rpc' = "select"
    /\ size' \in Size
    /\ scan' \in ScanMode
    /\ rx' = <<>>
    /\ ret' = "none"
    /\ UNCHANGED <<senderVars, wire, conn, faults, sent,
                   cancel, unblocks, taken, delivered, gap>>

\* recive returns what was read so far.
ReciveReturns(data) ==
    /\ rpc' = "idle"
    /\ ret' = "OK"
    /\ delivered' = delivered \o data

\* Variant: returns to Select after the cancel request without reporting it.
SelectUnblockIgnored ==
    /\ rpc = "select"
    /\ cancel > 0
    /\ \E n \in 0..(cancel - 1) : cancel' = n
    /\ UNCHANGED <<rpc, ret, senderVars, wire, conn, faults, sent,
                   size, scan, rx, unblocks, taken, delivered, gap>>

\* Select finds the cancel request.  Several requests may have merged.
SelectUnblock ==
    /\ rpc = "select"
    /\ cancel > 0
    /\ \E n \in 0..(cancel - 1) : cancel' = n
    /\ rpc' = "idle"
    /\ ret' = "UNBLOCK"
    /\ UNCHANGED <<senderVars, wire, conn, faults, sent,
                   size, scan, rx, unblocks, taken, delivered, gap>>

\* Variant: the check for a moved object is the wrong way round.
SelectReadyInverted ==
    /\ rpc = "select"
    /\ wire # <<>> \/ conn # "open"
    /\ IF SocketFd # 0 THEN rpc' = "idle" /\ ret' = "logic_error"
       ELSE rpc' = "recv" /\ ret' = ret
    /\ UNCHANGED <<senderVars, wire, conn, faults, sent,
                   size, scan, rx, cancel, unblocks, taken, delivered, gap>>

(***************************************************************************)
(* Select finds the descriptor readable and calls reciveImpl.  The check   *)
(* for a moved object compares with 0, and the loop does not run for an    *)
(* empty span.                                                             *)
(***************************************************************************)
SelectReady ==
    /\ rpc = "select"
    /\ wire # <<>> \/ conn # "open"
    /\ CASE SocketFd = 0 -> /\ rpc' = "idle"
                            /\ ret' = "logic_error"
                            /\ UNCHANGED delivered
         [] SocketFd # 0 /\ size = 0 -> ReciveReturns(<<>>)
         [] OTHER -> /\ rpc' = "recv"
                     /\ UNCHANGED <<ret, delivered>>
    /\ UNCHANGED <<senderVars, wire, conn, faults, sent,
                   size, scan, rx, cancel, unblocks, taken, gap>>

\* Variant: ::recv is called with the size of the whole span every time.
RecvWholeSpan ==
    /\ rpc = "recv"
    /\ \E n \in 1..size :
        /\ n <= Len(wire)
        /\ LET data == rx \o SubSeq(wire, 1, n)
           IN  /\ rx' = data
               /\ IF Scanned(scan, data) \/ Len(data) = size
                  THEN ReciveReturns(data)
                  ELSE UNCHANGED <<rpc, ret, delivered>>
        /\ wire' = SubSeq(wire, n + 1, Len(wire))
        /\ taken' = taken + n
    /\ UNCHANGED <<senderVars, conn, faults, sent, size, scan, cancel, unblocks, gap>>

\* Variant: later bytes are put in front of those already read.
RecvPrepends ==
    /\ rpc = "recv"
    /\ \E n \in 1..(size - Len(rx)) :
        /\ n <= Len(wire)
        /\ LET data == SubSeq(wire, 1, n) \o rx
           IN  /\ rx' = data
               /\ IF Scanned(scan, data) \/ Len(data) = size
                  THEN ReciveReturns(data)
                  ELSE UNCHANGED <<rpc, ret, delivered>>
        /\ wire' = SubSeq(wire, n + 1, Len(wire))
        /\ taken' = taken + n
    /\ UNCHANGED <<senderVars, conn, faults, sent, size, scan, cancel, unblocks, gap>>

(***************************************************************************)
(* One ::recv takes some of the bytes there are, at least one and at most  *)
(* what the span has room for.  Without data it blocks, on an open         *)
(* connection, and nobody looks at the cancel request meanwhile.           *)
(***************************************************************************)
Recv ==
    /\ rpc = "recv"
    /\ \E n \in 1..(size - Len(rx)) :
        /\ n <= Len(wire)
        /\ LET data == rx \o SubSeq(wire, 1, n)
           IN  /\ rx' = data
               /\ IF Scanned(scan, data) \/ Len(data) = size
                  THEN ReciveReturns(data)
                  ELSE UNCHANGED <<rpc, ret, delivered>>
        /\ wire' = SubSeq(wire, n + 1, Len(wire))
        /\ taken' = taken + n
    /\ UNCHANGED <<senderVars, conn, faults, sent, size, scan, cancel, unblocks, gap>>

\* Variant: EAGAIN ends the call like the end of the stream.
RecvInterruptedReturns ==
    /\ rpc = "recv"
    /\ ReciveReturns(rx)
    /\ UNCHANGED <<senderVars, wire, conn, faults, sent,
                   size, scan, rx, cancel, unblocks, taken, gap>>

\* EINTR, EAGAIN or ETIMEDOUT: the loop goes round.
RecvInterrupted ==
    /\ rpc = "recv"
    /\ UNCHANGED vars

\* Variant: a broken connection makes the call forget what it had read.
RecvEndDiscards ==
    /\ rpc = "recv"
    /\ wire = <<>>
    /\ conn # "open"
    /\ ReciveReturns(<<>>)
    /\ UNCHANGED <<senderVars, wire, conn, faults, sent,
                   size, scan, rx, cancel, unblocks, taken, gap>>

\* ::recv returns 0, or ECONNRESET or ENOTCONN, which the code makes a 0.
RecvEnd ==
    /\ rpc = "recv"
    /\ wire = <<>>
    /\ conn # "open"
    /\ ReciveReturns(rx)
    /\ UNCHANGED <<senderVars, wire, conn, faults, sent,
                   size, scan, rx, cancel, unblocks, taken, gap>>

RecvRaises(error) ==
    IF error \in {"EBADF", "EFAULT", "EINVAL", "ENXIO"}
    THEN "domain_error" ELSE "runtime_error"

\* ::recv fails: the caller's span keeps its size, so the caller does not
\* learn that the call had read anything.
RecvFails ==
    /\ rpc = "recv"
    /\ faults < MaxFault
    /\ faults' = faults + 1
    /\ rpc' = "idle"
    /\ \E error \in {"ENOMEM", "EINVAL"} : ret' = RecvRaises(error)
    /\ gap' = (gap \/ rx # <<>>)
    /\ rx' = <<>>
    /\ UNCHANGED <<senderVars, wire, conn, sent, size, scan,
                   cancel, unblocks, taken, delivered>>

\* Any thread may call it at any time; it never waits.
unblockRecive ==
    /\ rpc # "destroyed"
    /\ unblocks < MaxUnblock
    /\ unblocks' = unblocks + 1
    /\ cancel' = cancel + 1
    /\ UNCHANGED <<senderVars, wire, conn, faults, sent, rpc, size, scan, rx, ret,
                   taken, delivered, gap>>

(***************************************************************************)
(* The receiving end's link is destroyed, with nobody in recive: the       *)
(* socket is closed.  With data unread that breaks the connection at once; *)
(* without, the sender does not notice yet: what it sends next is accepted *)
(* and answered with a Reset.                                              *)
(***************************************************************************)
ReceiverDestroyed ==
    /\ rpc = "idle"
    /\ rpc' = "destroyed"
    /\ wire' = <<>>
    /\ conn' = IF wire = <<>> THEN conn ELSE "reset"
    /\ UNCHANGED <<senderVars, faults, sent, size, scan, rx, ret,
                   cancel, unblocks, taken, delivered, gap>>

-----------------------------------------------------------------------------
SendStep(s) == Put(s) \/ SendInterrupted(s) \/ SendBroken(s) \/ SendFails(s)

ReciveStep == \/ SelectUnblock \/ SelectReady
              \/ Recv \/ RecvInterrupted \/ RecvEnd \/ RecvFails

Next ==
    \/ \E s \in Sender : Send(s) \/ SendStep(s)
    \/ SenderDestroyed \/ Reset
    \/ Recive \/ ReciveStep
    \/ unblockRecive \/ ReceiverDestroyed

Spec == Init /\ [][Next]_vars

(***************************************************************************)
(* A thread inside send or recive goes on if the kernel lets it.  Nobody   *)
(* is obliged to call either.  The kernel of an end that is closed answers *)
(* data with a reset.                                                      *)
(***************************************************************************)
Progress ==
    /\ \A s \in Sender : WF_vars(Put(s)) /\ WF_vars(SendBroken(s))
    /\ WF_vars(SelectUnblock \/ SelectReady \/ Recv \/ RecvEnd)
    /\ WF_vars(rpc = "destroyed" /\ wire # <<>> /\ Reset)

FairSpec == Spec /\ Progress

\* An application that calls recive in a loop, as the examples' CThreadLoop.
LoopSpec == FairSpec /\ WF_vars(Recive)

-----------------------------------------------------------------------------
(* Properties *)

\* Every byte the kernel accepted is in one place: used up by ::recv, or in
\* the buffer, or lost from its far end when the connection broke.
Conservation ==
    /\ taken + Len(wire) <= Len(sent)
    /\ wire = SubSeq(sent, taken + 1, taken + Len(wire))
    /\ conn # "reset" => taken + Len(wire) = Len(sent)

\* What the callers of recive got, and what the present call has read so far,
\* is the beginning of what was sent: in order, nothing twice, and nothing
\* left out unless a call threw half way.
StreamOrder ==
    LET read == IF rpc = "recv" THEN delivered \o rx ELSE delivered
    IN  ~gap => read = SubSeq(sent, 1, taken)

\* part is what is left of q without the elements that are not in S: the k-th
\* element of q that is in S is the k-th of part.
IsPart(part, q, S) ==
    LET own == {i \in 1..Len(q) : q[i] \in S}
    IN  /\ Len(part) = Cardinality(own)
        /\ \A i \in own : part[Cardinality({j \in own : j <= i})] = q[i]

\* The bytes of one thread's calls of send arrive in the order of its calls,
\* whole or cut off where send threw, whatever other threads send meanwhile.
\* (The messages of two threads may interleave: send takes no lock.)
PerSenderOrder == \A s \in Sender : IsPart(Written(s), sent, BytesOf(s))

\* recive may return less than the span has room for, although the callback
\* did not accept it, only because the connection has ended.
ShortReadMeansEnd ==
    rpc = "idle" /\ ret = "OK" /\ Len(rx) < size
        => conn # "open" \/ (rx # <<>> /\ Scanned(scan, rx))

\* TST_TcpConnection/main.cpp:167-170 and README.md:341-348: after one recive
\* of an object with the default callback the object is there as it was sent.
ObjectWhole ==
    rpc = "idle" /\ ret = "OK" /\ scan = "first" /\ conn = "open"
        => Len(rx) = size

\* TcpDataLink.cpp:114-117: a write to a broken connection, EPIPE included,
\* ends in a domain_error for the caller, not in the end of the process.
BrokenPipeThrows == \A s \in Sender : spc[s] # "killed"

\* TcpDataLink.cpp:179 "this object was moved": the logic_error is for moved
\* objects only, and the link of this model is never moved.
OnlyMovedIsRejected == ret # "logic_error"

\* A receive call that is waiting returns after unblockRecive was called.
UnblockFrees == rpc \in {"select", "recv"} /\ cancel > 0 ~> rpc \notin {"select", "recv"}

\* A send call ends: back-pressure is released as the peer keeps receiving.
SendEnds == \A s \in Sender : spc[s] = "sending" ~> spc[s] # "sending"

\* All that was sent is received, if the connection lasts.
AllTaken == \A n \in 1..(MaxSent + BufferSize) :
    Len(sent) >= n ~> (taken >= n \/ conn = "reset")

\* The link as an abstract stream: bytes of an unfinished call do not count.
Stream == INSTANCE ByteStream WITH
              written <- sent,
              taken   <- IF rpc = "recv" THEN taken - Len(rx) ELSE taken
StreamSpec == Stream!Spec
=============================================================================
