---------------------------- MODULE EchoSession -----------------------------
(***************************************************************************)
(* The programs of EXA_Tcp, EXA_Udp and EXA_UdpBroadcast: clients that send*)
(* a fixed number of ComProto objects while a second thread receives, and  *)
(* the server that sends each object back to where it came from.           *)
(*                                                                         *)
(* The clients of the three examples have the same main but for the        *)
(* goodbye, which only the TCP client sends.  Over TCP ("stream") a client *)
(* has a connection, which the server accepts when it is done with the     *)
(* client before; over UDP ("datagram") objects of all clients arrive at   *)
(* one socket, or get lost, duplicated and reordered.                      *)
(*                                                                         *)
(* Over TCP an object is Pieces pieces of a stream.  send puts a few of    *)
(* them at a time; a recive with the default callback ends with the first  *)
(* ::recv, so it returns from one piece up to an object's worth, wherever  *)
(* objects begin.  Nobody looks at how much it was: server and client go   *)
(* on with a buffer whose rest nobody has written.  A datagram is an object*)
(* in one piece.  What links, Select and the cancel request do is taken    *)
(* from TcpDataLink and UdpDataLink.                                       *)
(***************************************************************************)
EXTENDS Integers, Sequences

CONSTANTS
    Client,
    NoClient,      \* nobody
    Transport,     \* the examples to look at, a subset of {"stream", "datagram"}
    Requests,      \* for each example: objects a client sends, 10 in the code
    Pieces,        \* pieces of an object in a stream
    Capacity,      \* pieces the kernel buffers for each direction
    SleepSuffices, \* whether the answers come within the client's sleep
    MaxFault       \* bound: number of clients killed, kernel errors and duplicates

ASSUME EchoAssumption ==
    /\ NoClient \notin Client
    /\ Transport \subseteq {"stream", "datagram"}
    /\ Requests \in [Transport -> Nat \ {0}]
    /\ Pieces \in Nat \ {0} /\ Capacity \in Nat \ {0}
    /\ SleepSuffices \in BOOLEAN
    /\ MaxFault \in Nat

VARIABLES
    transport, \* the example that runs
    \* the clients
    cpc,       \* main: "start", "connected", "send", "sleep", "join", "done",
               \* "failed" (EXIT_FAILURE), "gone" (killed, or an exception in main)
    nsent,     \* number of pieces main has sent
    rxpc,      \* RX_Worker: "none", "select" (inside recive), "finished"
    cancel,    \* whether Select has a cancel request to consume
    got,       \* the pieces RX_Worker received, of whatever it showed
    \* the server
    spc,       \* "accept" (waitForConnection), "recive", "echo", "dead"
    active,    \* serverActive
    peer,      \* the client DataLink leads to, or activePeerAddr
    tx,        \* the pieces of the answer not yet sent
    \* the network
    up, down,  \* per client: pieces on their way to the server, and back
    conn,      \* per client: "none", "open", "closed" (by the server),
               \* "fin" or "reset" (by the client)
    backlog,   \* connections nobody has accepted yet
    faults,
    cut        \* history: clients of which the server took part of an object

clientVars == <<cpc, nsent, rxpc, cancel, got>>
serverVars == <<spc, active, peer, tx>>
netVars    == <<up, down, conn, backlog>>
vars == <<transport, clientVars, serverVars, netVars, faults, cut>>

IsStream == transport = "stream"

\* Variant: the goodbye is prepared but not sent, as in the UDP clients.
TotalWithoutGoodbye == Requests[transport]

\* The object with member disconnect set.
Goodbye == Requests[transport] + 1

\* How many objects a client sends, and of how many pieces.
Total     == IF IsStream THEN Goodbye ELSE Requests[transport]
Parts     == IF IsStream THEN Pieces ELSE 1
AllPieces == Total * Parts

\* Piece i of all that client c sends, and its place in its object.
Piece(c, i) == [by |-> c, at |-> i]
Place(i)    == ((i - 1) % Parts) + 1
Sendable    == [by : Client, at : 1..AllPieces]

\* Bytes that are nobody's piece: never written, or not at their place.
Blank == [by |-> NoClient, at |-> 0]

TypeOK ==
    /\ transport \in Transport
    /\ cpc \in [Client -> {"start", "connected", "send", "sleep", "join",
                           "done", "failed", "gone"}]
    /\ nsent \in [Client -> 0..AllPieces]
    /\ rxpc \in [Client -> {"none", "select", "finished"}]
    /\ cancel \in [Client -> BOOLEAN]
    /\ got \in [Client -> Seq(Sendable \cup {Blank})]
    /\ spc \in {"accept", "recive", "echo", "dead"}
    /\ peer \in Client \cup {NoClient}
    /\ active \in BOOLEAN
    /\ tx \in Seq(Sendable \cup {Blank})
    /\ up \in [Client -> Seq(Sendable)]
    /\ down \in [Client -> Seq(Sendable \cup {Blank})]
    /\ \A c \in Client : Len(up[c]) <= Capacity /\ Len(down[c]) <= Capacity
    /\ conn \in [Client -> {"none", "open", "closed", "fin", "reset"}]
    /\ backlog \in Seq(Client)
    /\ faults \in 0..MaxFault
    /\ cut \subseteq Client

Init ==
    /\ transport \in Transport
    /\ cpc = [c \in Client |-> "start"]
    /\ nsent = [c \in Client |-> 0]
    /\ rxpc = [c \in Client |-> "none"]
    /\ cancel = [c \in Client |-> FALSE]
    /\ got = [c \in Client |-> <<>>]
    /\ spc = "accept" /\ active = FALSE /\ peer = NoClient /\ tx = <<>>
    /\ up = [c \in Client |-> <<>>]
    /\ down = [c \in Client |-> <<>>]
    /\ conn = [c \in Client |-> "none"]
    /\ backlog = <<>>
    /\ faults = 0 /\ cut = {}

Goes(c, here) == cpc' = [cpc EXCEPT ![c] = here]
Without(w, i) == SubSeq(w, 1, i - 1) \o SubSeq(w, i + 1, Len(w))

\* What a buffer holds after a datagram came that it may have no room for.
Queued(w, o) == IF Len(w) < Capacity THEN Append(w, o) ELSE w

(***************************************************************************)
(* What one receive can take from w, and what it leaves there: one of the  *)
(* datagrams, which overtake each other, or the first pieces of a stream.  *)
(***************************************************************************)
Takes(w) ==
    IF IsStream
    THEN {[now |-> SubSeq(w, 1, k), left |-> SubSeq(w, k + 1, Len(w))] :
             k \in 1..Parts \cap 1..Len(w)}
    ELSE {[now |-> <<w[i]>>, left |-> Without(w, i)] : i \in 1..Len(w)}

-----------------------------------------------------------------------------
(* The clients' main *)

\* connect, or getLink, which does not need a server to be there.
Connect(c) ==
    /\ cpc[c] = "start"
    /\ Goes(c, "connected")
    /\ IF IsStream
       THEN /\ spc # "dead"
            /\ conn' = [conn EXCEPT ![c] = "open"]
            /\ backlog' = Append(backlog, c)
       ELSE UNCHANGED <<conn, backlog>>
    /\ UNCHANGED <<transport, nsent, rxpc, cancel, got, serverVars,
                   up, down, faults, cut>>

ConnectFails(c) ==
    /\ cpc[c] = "start"
    /\ Goes(c, "failed")
    /\ UNCHANGED <<transport, nsent, rxpc, cancel, got, serverVars,
                   netVars, faults, cut>>

\* Variant: the thread is started when everything is sent.
StartRxLate(c) ==
    /\ \/ cpc[c] = "connected" /\ Goes(c, "send") /\ UNCHANGED rxpc
       \/ /\ cpc[c] = "sleep" /\ rxpc[c] = "none"
          /\ rxpc' = [rxpc EXCEPT ![c] = "select"] /\ UNCHANGED cpc
    /\ UNCHANGED <<transport, nsent, cancel, got, serverVars,
                   netVars, faults, cut>>

\* rcvLoop.start: from now on RX_Worker calls recive again and again.
StartRx(c) ==
    /\ cpc[c] = "connected"
    /\ Goes(c, "send")
    /\ rxpc' = [rxpc EXCEPT ![c] = "select"]
    /\ UNCHANGED <<transport, nsent, cancel, got, serverVars,
                   netVars, faults, cut>>

Sent(c, k) ==
    /\ nsent' = [nsent EXCEPT ![c] = @ + k]
    /\ Goes(c, IF nsent[c] + k = AllPieces THEN "sleep" ELSE "send")

\* How many pieces of the object main is sending it has not sent yet.
Unsent(c) == Parts - (nsent[c] % Parts)

\* Variant: one turn of the loop too many.
SendOneMore(c) ==
    /\ cpc[c] \in {"send", "sleep"} /\ nsent[c] <= AllPieces
    /\ Len(up[c]) < Capacity
    /\ up' = [up EXCEPT ![c] = Append(@, Piece(c, nsent[c] + 1))]
    /\ Sent(c, 1)
    /\ UNCHANGED <<transport, rxpc, cancel, got, serverVars,
                   down, conn, backlog, faults, cut>>

\* One ::send for an object of the loop, or for the goodbye: TCP takes as many
\* pieces as there is room for and waits for room for one, UDP does not wait.
Send(c) ==
    /\ cpc[c] = "send"
    /\ \E k \in 1..Unsent(c) :
         /\ IF IsStream
            THEN /\ conn[c] = "open" /\ Len(up[c]) + k <= Capacity
                 /\ up' = [up EXCEPT ![c] = @ \o [i \in 1..k |-> Piece(c, nsent[c] + i)]]
            ELSE up' = [up EXCEPT ![c] = Queued(@, Piece(c, nsent[c] + 1))]
         /\ Sent(c, k)
    /\ UNCHANGED <<transport, rxpc, cancel, got, serverVars,
                   down, conn, backlog, faults, cut>>

(***************************************************************************)
(* The process ends and the kernel closes its socket.  With answers unread *)
(* that resets the connection, and what the server has not read is lost.   *)
(***************************************************************************)
Closes(c) ==
    /\ down' = [down EXCEPT ![c] = <<>>]
    /\ IF conn[c] = "open" /\ down[c] # <<>>
       THEN /\ conn' = [conn EXCEPT ![c] = "reset"]
            /\ up' = [up EXCEPT ![c] = <<>>]
       ELSE /\ conn' = [conn EXCEPT ![c] = IF @ = "open" THEN "fin" ELSE "none"]
            /\ UNCHANGED up
    /\ rxpc' = [rxpc EXCEPT ![c] = IF @ = "select" THEN "none" ELSE @]
    /\ UNCHANGED backlog

\* The process is killed; what it knew is lost.
Dies(c) ==
    /\ Goes(c, "gone")
    /\ Closes(c)
    /\ cancel' = [cancel EXCEPT ![c] = FALSE]
    /\ got' = [got EXCEPT ![c] = <<>>]

\* send after the server has closed: what it takes gets lost, or the process
\* ends with a SIGPIPE or an exception nobody catches.
SendBroken(c) ==
    /\ cpc[c] = "send"
    /\ IsStream /\ conn[c] = "closed"
    /\ \/ /\ \E k \in 1..Unsent(c) : Sent(c, k)
          /\ UNCHANGED <<rxpc, cancel, got, netVars>>
       \/ Dies(c) /\ UNCHANGED nsent
    /\ UNCHANGED <<transport, serverVars, faults, cut>>

\* Nothing of c's is under way any more.
Quiet(c) ==
    \/ spc = "dead"
    \/ /\ up[c] = <<>> /\ down[c] = <<>>
       /\ ~(spc = "echo" /\ peer = c)

\* The sleep is over: unblockRecive.  How long the answers take is assumed only
\* of clients whose objects the server got as a whole.
Unblock(c) ==
    /\ cpc[c] = "sleep"
    /\ SleepSuffices /\ c \notin cut => Quiet(c)
    /\ Goes(c, "join")
    /\ cancel' = [cancel EXCEPT ![c] = TRUE]
    /\ UNCHANGED <<transport, nsent, rxpc, got, serverVars,
                   netVars, faults, cut>>

\* Variant: main returns without waiting for RX_Worker.
ExitUnjoined(c) ==
    /\ cpc[c] = "join"
    /\ Goes(c, "done")
    /\ down' = [down EXCEPT ![c] = <<>>]
    /\ conn' = [conn EXCEPT ![c] = IF @ = "open" THEN "fin" ELSE "none"]
    /\ UNCHANGED <<transport, nsent, rxpc, cancel, got, serverVars,
                   up, backlog, faults, cut>>

\* waitUntilFinished returns, and the end of main destroys link and client.
Exit(c) ==
    /\ cpc[c] = "join"
    /\ rxpc[c] = "finished"
    /\ Goes(c, "done")
    /\ Closes(c)
    /\ UNCHANGED <<transport, nsent, cancel, got, serverVars, faults, cut>>

Crash(c) ==
    /\ cpc[c] \in {"connected", "send", "sleep", "join"}
    /\ faults < MaxFault
    /\ faults' = faults + 1
    /\ Dies(c)
    /\ UNCHANGED <<transport, nsent, serverVars, cut>>

-----------------------------------------------------------------------------
(* The clients' RX_Worker *)

\* The thread shows an object, which begins with what it received.
RxShows(c) ==
    /\ rxpc[c] = "select"
    /\ \E t \in Takes(down[c]) :
         /\ got' = [got EXCEPT ![c] = @ \o t.now]
         /\ down' = [down EXCEPT ![c] = t.left]
    /\ UNCHANGED <<transport, cpc, nsent, rxpc, cancel, serverVars,
                   up, conn, backlog, faults, cut>>

\* The server has closed the connection: recive returns OK with nothing read,
\* the loop shows what its new buffer happens to hold, and calls recive again.
RxEnd(c) ==
    /\ rxpc[c] = "select"
    /\ conn[c] = "closed" /\ down[c] = <<>>
    /\ UNCHANGED vars

RxUnblocked(c) ==
    /\ rxpc[c] = "select"
    /\ cancel[c]
    /\ cancel' = [cancel EXCEPT ![c] = FALSE]
    /\ rxpc' = [rxpc EXCEPT ![c] = "finished"]
    /\ UNCHANGED <<transport, cpc, nsent, got, serverVars,
                   netVars, faults, cut>>

-----------------------------------------------------------------------------
(* The server's main *)

\* What of its answers c still gets when the server closes c's connection: with
\* something unread that is a reset, and what had not arrived is lost.
Arriving(c) ==
    {SubSeq(down[c], 1, k) : k \in IF up[c] = <<>> THEN {Len(down[c])} ELSE 0..Len(down[c])}

\* DataLink is assigned the new link, which closes the one before.
AcceptStream ==
    /\ backlog # <<>>
    /\ peer' = Head(backlog)
    /\ backlog' = Tail(backlog)
    /\ IF peer = NoClient THEN UNCHANGED <<conn, up, down>>
       ELSE /\ conn' = [conn EXCEPT ![peer] = IF @ = "open" THEN "closed" ELSE "none"]
            /\ up' = [up EXCEPT ![peer] = <<>>]
            /\ \E w \in Arriving(peer) : down' = [down EXCEPT ![peer] = w]

waitForConnection ==
    /\ spc = "accept"
    /\ IF IsStream THEN AcceptStream
       ELSE /\ \E c \in Client : up[c] # <<>>
            /\ UNCHANGED <<peer, netVars>>
    /\ spc' = "recive"
    /\ active' = IsStream
    /\ UNCHANGED <<transport, clientVars, tx, faults, cut>>

(***************************************************************************)
(* The answer to a buffer that begins with s: a piece at its place in the  *)
(* object is answered; at any other place its bytes are taken for another  *)
(* member, and what comes back is no answer to it.                         *)
(***************************************************************************)
Answer(s) ==
    [p \in 1..Parts |-> IF p <= Len(s) /\ s[p] # Blank /\ Place(s[p].at) = p
                        THEN s[p] ELSE Blank]

\* What member disconnect of that buffer may be.
disconnect(s) ==
    LET last == Answer(s)[Parts]
    IN  IF last = Blank THEN BOOLEAN ELSE {last.at = Goodbye * Parts}

\* The server shows the object and makes the answer.
Answers(s) ==
    /\ tx' = Answer(s)
    /\ \E d \in disconnect(s) : active' = (active /\ ~d)
    /\ spc' = "echo"

\* Variant: the address stored by an earlier call is kept.
ReciveKeepsPeer ==
    /\ spc = "recive"
    /\ \E c \in (IF IsStream THEN {peer} ELSE Client) : \E t \in Takes(up[c]) :
         /\ up' = [up EXCEPT ![c] = t.left]
         /\ peer' = IF peer = NoClient THEN c ELSE peer
         /\ Answers(t.now)
         /\ cut' = IF Answer(t.now) = t.now THEN cut ELSE cut \cup {c}
    /\ UNCHANGED <<transport, clientVars, down, conn, backlog, faults>>

\* recive on DataLink, or reciveFrom, whose callback stores the address.
Recive ==
    /\ spc = "recive"
    /\ \E c \in (IF IsStream THEN {peer} ELSE Client) : \E t \in Takes(up[c]) :
         /\ up' = [up EXCEPT ![c] = t.left]
         /\ peer' = c
         /\ Answers(t.now)
         /\ cut' = IF Answer(t.now) = t.now THEN cut ELSE cut \cup {c}
    /\ UNCHANGED <<transport, clientVars, down, conn, backlog, faults>>

\* Variant: a recive that read nothing is called again.
ReciveEndRetried ==
    /\ spc = "recive"
    /\ IsStream /\ conn[peer] \in {"fin", "reset"} /\ up[peer] = <<>>
    /\ UNCHANGED vars

\* The client is gone: recive returns with nothing read, which nobody notices.
ReciveEnd ==
    /\ spc = "recive"
    /\ IsStream /\ conn[peer] \in {"fin", "reset"} /\ up[peer] = <<>>
    /\ Answers(<<>>)
    /\ UNCHANGED <<transport, clientVars, peer, netVars, faults, cut>>

\* The rest of the answer is w; after it the loop goes on or ends.
Answered(w) ==
    /\ tx' = w
    /\ spc' = IF w # <<>> THEN "echo" ELSE IF active THEN "recive" ELSE "accept"

(***************************************************************************)
(* send, or sendTo(activePeerAddr): TCP takes what there is room for.  The *)
(* host of a client that is gone takes the answer and replies with a reset.*)
(***************************************************************************)
Echo ==
    /\ spc = "echo"
    /\ IF IsStream /\ conn[peer] = "fin"
       THEN /\ conn' = [conn EXCEPT ![peer] = "reset"]
            /\ Answered(<<>>)
            /\ UNCHANGED down
       ELSE /\ \E k \in 1..Len(tx) :
                 /\ IsStream => conn[peer] = "open" /\ Len(down[peer]) + k <= Capacity
                 /\ down' = [down EXCEPT ![peer] = IF IsStream THEN @ \o SubSeq(tx, 1, k)
                                                   ELSE Queued(@, tx[1])]
                 /\ Answered(SubSeq(tx, k + 1, Len(tx)))
            /\ UNCHANGED conn
    /\ UNCHANGED <<transport, clientVars, active, peer, up, backlog, faults, cut>>

\* The kernel closes all connections of the server's process.
ServerDies ==
    /\ spc' = "dead" /\ active' = FALSE /\ peer' = NoClient /\ tx' = <<>>
    /\ IF IsStream
       THEN /\ conn' = [c \in Client |-> IF conn[c] \in {"open", "closed"}
                                         THEN "closed" ELSE "none"]
            /\ up' = [c \in Client |-> <<>>]
            /\ IF peer = NoClient THEN UNCHANGED down
               ELSE \E w \in Arriving(peer) : down' = [down EXCEPT ![peer] = w]
            /\ backlog' = <<>>
       ELSE UNCHANGED netVars
    /\ UNCHANGED <<transport, clientVars, cut>>

\* send on a connection the client has reset: SIGPIPE, or an exception main
\* does not catch.
EchoBroken ==
    /\ spc = "echo"
    /\ IsStream /\ conn[peer] = "reset"
    /\ ServerDies
    /\ UNCHANGED faults

\* A call of the library throws because the kernel reports an error.
ServerFails ==
    /\ spc # "dead"
    /\ faults < MaxFault
    /\ faults' = faults + 1
    /\ ServerDies

-----------------------------------------------------------------------------
(* The network, for datagrams *)

Lose(c) ==
    /\ ~IsStream
    /\ \/ /\ \E i \in 1..Len(up[c]) : up' = [up EXCEPT ![c] = Without(@, i)]
          /\ UNCHANGED down
       \/ /\ \E i \in 1..Len(down[c]) : down' = [down EXCEPT ![c] = Without(@, i)]
          /\ UNCHANGED up
    /\ UNCHANGED <<transport, clientVars, serverVars, conn, backlog, faults, cut>>

Duplicate(c) ==
    /\ ~IsStream
    /\ faults < MaxFault
    /\ faults' = faults + 1
    /\ \/ /\ \E i \in 1..Len(up[c]) : up' = [up EXCEPT ![c] = Queued(@, @[i])]
          /\ UNCHANGED down
       \/ /\ \E i \in 1..Len(down[c]) : down' = [down EXCEPT ![c] = Queued(@, @[i])]
          /\ UNCHANGED up
    /\ UNCHANGED <<transport, clientVars, serverVars, conn, backlog, cut>>

-----------------------------------------------------------------------------
ServerStep == waitForConnection \/ Recive \/ ReciveEnd \/ Echo \/ EchoBroken

MainStep(c) == StartRx(c) \/ Send(c) \/ SendBroken(c) \/ Unblock(c) \/ Exit(c)

RxStep(c) == RxShows(c) \/ RxEnd(c) \/ RxUnblocked(c)

Next ==
    \/ \E c \in Client :
        \/ Connect(c) \/ ConnectFails(c) \/ MainStep(c) \/ RxStep(c)
        \/ Crash(c) \/ Lose(c) \/ Duplicate(c)
    \/ ServerStep \/ ServerFails

Spec == Init /\ [][Next]_vars

\* Threads that can go on do so; of a cancel request and a readable descriptor
\* Select does not prefer the descriptor for ever.
FairSpec ==
    /\ Spec
    /\ WF_vars(ServerStep)
    /\ \A c \in Client : WF_vars(MainStep(c)) /\ WF_vars(RxStep(c)) /\ SF_vars(RxUnblocked(c))

-----------------------------------------------------------------------------
(* Properties *)

Living(c) == cpc[c] \in {"connected", "send", "sleep", "join"}

Requested(c) == [i \in 1..nsent[c] |-> Piece(c, i)]

\* Over TCP: what the server holds of c's, what came back, and all of it.
Held(c) == IF spc = "echo" /\ peer = c THEN tx ELSE <<>>
Back(c) == got[c] \o down[c] \o Held(c)
Row(c)  == Back(c) \o up[c]

(***************************************************************************)
(* The server answers to the origin, and over TCP once and in order:       *)
(* however the stream is cut, a client gets no answer to a piece it has not*)
(* sent or that was answered before, and one that is out of step gets bytes*)
(* that are no answer.  A client whose objects were all received as a whole*)
(* misses nothing: every piece is somewhere on its round trip, while client*)
(* and server live.                                                        *)
(***************************************************************************)
Echoes ==
    \A c \in Client : LET s == got[c] \o down[c] IN
        /\ \A i \in 1..Len(s) :
             \/ s[i] = Blank /\ c \in cut
             \/ s[i].by = c /\ s[i].at \in 1..nsent[c]
        /\ IsStream => \A i, j \in 1..Len(s) :
             i < j /\ s[i] # Blank /\ s[j] # Blank => s[i].at < s[j].at
        /\ IsStream /\ c \notin cut /\ Living(c) /\ spc # "dead" => Row(c) = Requested(c)

(***************************************************************************)
(* A client that ends normally has joined its thread, so the members of the*)
(* link are not destroyed under a running recive.  Over TCP it has received*)
(* the answers to all it sent, in order, provided the sleep is long enough,*)
(* the server lives and has received its objects as a whole.               *)
(***************************************************************************)
EndsComplete ==
    \A c \in Client : cpc[c] = "done" =>
        /\ rxpc[c] = "finished"
        /\ IsStream /\ SleepSuffices /\ spc # "dead" /\ c \notin cut => got[c] = Requested(c)

\* The server, which a send to a closed client would kill, outlives all clients
\* that end normally, unless it has once received a part of an object.
ServerSurvives == spc = "dead" => faults > 0 \/ cut # {}

\* TcpServer.cpp: each turn of the loop works on an object as it was sent.
ObjectsWhole == cut = {}

\* A client that got its link ends, however small the buffers are, with both
\* ends sending into them, unless the server received a part of its object.
ClientsEnd ==
    \A c \in Client : cpc[c] = "connected" ~> cpc[c] \in {"done", "gone"} \/ c \in cut

\* The same without the exception.
AllClientsEnd ==
    \A c \in Client : cpc[c] = "connected" ~> cpc[c] \in {"done", "gone"}

\* No client is left waiting in the backlog, whatever parts of objects the server
\* makes of the clients before: it comes back to accept, or ends.
Served == \A c \in Client :
    conn[c] = "open" /\ peer # c ~> peer = c \/ conn[c] # "open"
=============================================================================
