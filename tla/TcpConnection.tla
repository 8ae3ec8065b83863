--------------------------- MODULE TcpConnection ----------------------------
(***************************************************************************)
(* CTcpServer and CTcpClient (src/Tcp/TcpServer.cpp, src/Tcp/TcpClient.cpp)*)
(* and the handles of the CTcpDataLinks they make, on the descriptors of   *)
(* module BaseSocket: who owns which socket while servers and clients are  *)
(* built, fail, connect, accept, hand their socket over and are destroyed. *)
(*                                                                         *)
(* As in TST_TcpConnection the server and its clients live in one process, *)
(* so that the number of a socket one of them closes is soon the number    *)
(* of a socket of another.  No thread is inside accept while the server is *)
(* destroyed.  Every step that touches a descriptor is one action of       *)
(* BaseSocket on one of these objects:                                     *)
(*   <<"temp", e>>    the CBaseSocket the application makes for endpoint e *)
(*   <<"member", e>>  m_baseSocket of the private server or client         *)
(*   <<"link", x>>    m_baseSocket of a CTcpDataLinkPrivate, x the client  *)
(*                    it belongs to, or a place for an accepted link       *)
(***************************************************************************)
EXTENDS Integers, Sequences

CONSTANTS Client,     \* the clients
          Server,     \* the server
          Place,      \* places for the links waitForConnection returns
          Fd, Std, MaxFile,  \* as in BaseSocket
          Backlog,    \* connections the kernel queues for accept
          MaxHandle   \* bound: copies of one CTcpDataLink

ASSUME TableAssumption == Fd \subseteq Nat /\ Std \subseteq Fd /\ MaxFile \in Nat
ASSUME EndpointAssumption ==
    /\ Server \notin Client /\ Client \cap Place = {}
    /\ Backlog \in Nat \ {0} /\ MaxHandle \in Nat \ {0}

Endpoint == Client \cup {Server}
Link     == {"link"} \X (Client \cup Place)
Socket   == ({"temp", "member"} \X Endpoint) \cup Link

VARIABLES
    live, m_socketFd, file, opened, given,  \* as in BaseSocket
    pc,       \* per endpoint: "none", "open", "owned", "listening", "linked"
    handles,  \* per link: number of CTcpDataLinks that share its private part
    backlog,  \* kernel: the clients' ends of connections not yet accepted
    peer,     \* kernel: other end of an accepted connection, 0 if none
    dead      \* kernel: clients' ends the server reset before it accepted

Sockets == INSTANCE BaseSocket

socketVars == <<live, m_socketFd, file, opened, given>>
netVars    == <<backlog, peer, dead>>
vars       == <<socketVars, pc, handles, netVars>>

TypeOK ==
    /\ Sockets!TypeOK
    /\ pc \in [Endpoint -> {"none", "open", "owned", "listening", "linked"}]
    /\ handles \in [Link -> 0..MaxHandle]
    /\ backlog \in Seq(1..MaxFile) /\ Len(backlog) <= Backlog
    /\ peer \in [1..MaxFile -> 0..MaxFile]
    /\ dead \subseteq 1..MaxFile

Init ==
    /\ Sockets!Init
    /\ pc = [e \in Endpoint |-> "none"]
    /\ handles = [l \in Link |-> 0]
    /\ backlog = <<>>
    /\ peer = [f \in 1..MaxFile |-> 0]
    /\ dead = {}

Temp(e)   == <<"temp", e>>
Member(e) == <<"member", e>>
LinkAt(x) == <<"link", x>>

Goes(e, here) == pc' = [pc EXCEPT ![e] = here]

Waiting      == {backlog[i] : i \in 1..Len(backlog)}
Connected(f) == f # Sockets!Free /\ (f \in Waiting \/ f \in dead \/ peer[f] # 0)

-----------------------------------------------------------------------------
(* Both kinds of endpoint *)

Open(e) ==
    /\ pc[e] = "none"
    /\ Sockets!Construct(Temp(e))
    /\ Goes(e, "open")
    /\ UNCHANGED <<handles, netVars>>

\* SoReuseSocket throws, or the application gives the socket up.
GiveUp(e) ==
    /\ pc[e] = "open"
    /\ Sockets!Destroy(Temp(e))
    /\ Goes(e, "none")
    /\ UNCHANGED <<handles, netVars>>

\* The private part of a CTcpServer or CTcpClient takes the socket over.
Own(e) ==
    /\ pc[e] = "open"
    /\ Sockets!MoveConstruct(Member(e), Temp(e))
    /\ Goes(e, "owned")
    /\ UNCHANGED <<handles, netVars>>

\* The end of the scope of the application's CBaseSocket.
DropTemp(e) ==
    /\ pc[e] # "open"
    /\ e # Server \/ pc[e] # "owned"
    /\ Sockets!Destroy(Temp(e))
    /\ UNCHANGED <<pc, handles, netVars>>

\* ~CTcpServer or ~CTcpClient; connections nobody has accepted are reset.
DestroyEndpoint(e) ==
    /\ \/ pc[e] \in {"listening", "linked"}
       \/ e # Server /\ pc[e] = "owned"
    /\ Sockets!Destroy(Member(e))
    /\ Goes(e, "none")
    /\ IF e = Server
       THEN /\ backlog' = <<>>
            /\ dead' = dead \cup Waiting
       ELSE UNCHANGED <<backlog, dead>>
    /\ UNCHANGED <<handles, peer>>

-----------------------------------------------------------------------------
(* The server *)

\* The rest of the server's constructor: bind and listen.
Listen ==
    /\ pc[Server] = "owned"
    /\ Goes(Server, "listening")
    /\ UNCHANGED <<socketVars, handles, netVars>>

\* Variant: the member is a bare number, which the unwinding forgets.
ListenFailsLeaks ==
    /\ pc[Server] = "owned"
    /\ live' = live \ {Member(Server)}
    /\ given' = [given EXCEPT ![Member(Server)] = Sockets!Free]
    /\ Goes(Server, "none")
    /\ UNCHANGED <<m_socketFd, file, opened, handles, netVars>>

\* bind or listen fails, or the domain is not an internet one: the constructor
\* throws and the unwinding destroys its member.
ListenFails ==
    /\ pc[Server] = "owned"
    /\ Sockets!Destroy(Member(Server))
    /\ Goes(Server, "none")
    /\ UNCHANGED <<handles, netVars>>

Connects(f, g) == peer' = [peer EXCEPT ![f] = g, ![g] = f]

(***************************************************************************)
(* accept takes the oldest connection, and CTcpDataLink(int) makes a link  *)
(* of the new descriptor.  The client may have closed its end already.     *)
(***************************************************************************)
waitForConnection(x) ==
    /\ pc[Server] = "listening"
    /\ backlog # <<>>
    /\ Sockets!Construct(LinkAt(x))
    /\ handles' = [handles EXCEPT ![LinkAt(x)] = 1]
    /\ Connects(Head(backlog), opened + 1)
    /\ backlog' = Tail(backlog)
    /\ UNCHANGED <<pc, dead>>

\* accept fails: before the code throws it converts an address nobody has
\* filled in, whose outcome, whatever it is, is dropped with the exception.
waitForConnectionFails ==
    /\ pc[Server] = "listening"
    /\ UNCHANGED vars

-----------------------------------------------------------------------------
(* The clients *)

\* The kernel queues the connection the client has asked for.
Queues(c) ==
    /\ pc[Server] = "listening"
    /\ Len(backlog) < Backlog
    /\ ~Connected(given[Member(c)])
    /\ backlog' = Append(backlog, given[Member(c)])

(***************************************************************************)
(* A signal interrupts ::connect, which throws (EINTR) like any failure    *)
(* and leaves the socket to the client.  The kernel goes on connecting:    *)
(* this is the step at which the connection gets into the queue; one that  *)
(* never does is connectFails.                                             *)
(***************************************************************************)
connectInterrupted(c) ==
    /\ pc[c] = "owned"
    /\ Queues(c)
    /\ UNCHANGED <<socketVars, pc, handles, peer, dead>>

\* Variant: a connect that is repeated asks for a connection once more.
connectAsksAgain(c) ==
    /\ pc[c] = "owned"
    /\ pc[Server] = "listening"
    /\ Len(backlog) < Backlog
    /\ backlog' = Append(backlog, given[Member(c)])
    /\ Sockets!MoveConstruct(LinkAt(c), Member(c))
    /\ handles' = [handles EXCEPT ![LinkAt(c)] = 1]
    /\ Goes(c, "linked")
    /\ UNCHANGED <<peer, dead>>

(***************************************************************************)
(* ::connect succeeds as soon as the kernel has queued the connection, or  *)
(* at once if that was done for an interrupted call before; the link takes *)
(* the client's socket over.                                               *)
(***************************************************************************)
connect(c) ==
    /\ pc[c] = "owned"
    /\ \/ Queues(c)
       \/ /\ Connected(given[Member(c)]) /\ given[Member(c)] \notin dead
          /\ UNCHANGED backlog
    /\ Sockets!MoveConstruct(LinkAt(c), Member(c))
    /\ handles' = [handles EXCEPT ![LinkAt(c)] = 1]
    /\ Goes(c, "linked")
    /\ UNCHANGED <<peer, dead>>

\* Variant: the link is made first, and takes the socket along when ::connect
\* throws.
connectFailsLate(c) ==
    /\ pc[c] \in {"owned", "linked"}
    /\ Member(c) \in live
    /\ m_socketFd' = [m_socketFd EXCEPT ![Member(c)] = Sockets!NoFd]
    /\ file' = [f \in Fd |-> IF f = m_socketFd[Member(c)] THEN Sockets!Free ELSE file[f]]
    /\ given' = [given EXCEPT ![Member(c)] = Sockets!Free]
    /\ UNCHANGED <<live, opened, pc, handles, netVars>>

(***************************************************************************)
(* connect throws: no address for the host, connection refused or timed    *)
(* out; a connect after one that succeeded finds its socket moved away and *)
(* its domain unknown.  If the connection of an interrupted call was reset *)
(* ::connect reports that once, and the next call asks anew.               *)
(***************************************************************************)
connectFails(c) ==
    /\ pc[c] \in {"owned", "linked"}
    /\ dead' \in {dead, dead \ {given[Member(c)]}}
    /\ UNCHANGED <<socketVars, pc, handles, backlog, peer>>

-----------------------------------------------------------------------------
(* The links: a CTcpDataLink is a shared_ptr that can be copied *)

CopyLink(l) ==
    /\ handles[l] \in 1..(MaxHandle - 1)
    /\ handles' = [handles EXCEPT ![l] = @ + 1]
    /\ UNCHANGED <<socketVars, pc, netVars>>

\* Variant: every copy owns the socket.
DropLinkCloses(l) ==
    /\ handles[l] > 0
    /\ handles' = [handles EXCEPT ![l] = @ - 1]
    /\ Sockets!Destroy(l)
    /\ UNCHANGED <<pc, netVars>>

\* Variant: a link that is gone is released once more.
DropLinkTwice(l) ==
    /\ handles' = [handles EXCEPT ![l] = @ - 1]
    /\ IF handles[l] = 1 THEN Sockets!Destroy(l) ELSE UNCHANGED socketVars
    /\ UNCHANGED <<pc, netVars>>

\* A copy is destroyed, the last one with the private part and its socket.
DropLink(l) ==
    /\ handles[l] > 0
    /\ handles' = [handles EXCEPT ![l] = @ - 1]
    /\ IF handles[l] = 1 THEN Sockets!Destroy(l) ELSE UNCHANGED socketVars
    /\ UNCHANGED <<pc, netVars>>

-----------------------------------------------------------------------------
Next ==
    \/ \E e \in Endpoint : Open(e) \/ GiveUp(e) \/ Own(e) \/ DropTemp(e) \/ DestroyEndpoint(e)
    \/ Listen \/ ListenFails
    \/ \E x \in Place : waitForConnection(x)
    \/ waitForConnectionFails
    \/ \E c \in Client : connect(c) \/ connectInterrupted(c) \/ connectFails(c)
    \/ \E l \in Link : CopyLink(l) \/ DropLink(l)

Spec == Init /\ [][Next]_vars

-----------------------------------------------------------------------------
(* Properties *)

\* The objects the course of the program has given a socket to keep.
Holders ==
    {Temp(e) : e \in {d \in Endpoint : pc[d] = "open"}}
        \cup {Member(e) : e \in {d \in Endpoint : pc[d] \in {"owned", "listening"}}}
        \cup {l \in Link : handles[l] > 0}

\* The files that are open are those of the holders, one for each: a constructor
\* that throws, a failed connect, an accepted connection, the end of a scope and
\* the last copy of a link leave no file without somebody whose destructor will
\* close it, and close nobody else's.
SocketsHeld ==
    /\ \A s \in Holders : given[s] # Sockets!Free /\ file[m_socketFd[s]] = given[s]
    /\ \A s, t \in Holders : m_socketFd[s] = m_socketFd[t] => s = t
    /\ \A f \in Fd : file[f] \notin {Sockets!Free, Sockets!Foreign}
         => \E s \in Holders : m_socketFd[s] = f

\* A link some copy of which exists has the socket it was made with, open; a
\* link without copies has none.
LinkUsable ==
    \A l \in Link :
        IF handles[l] = 0 THEN l \notin live
        ELSE l \in live /\ given[l] # Sockets!Free /\ file[m_socketFd[l]] = given[l]

\* A connect that failed leaves the client its socket for another attempt, and
\* after one that succeeded there is no second link on the same socket.
SocketForRetry ==
    \A c \in Client :
        /\ pc[c] = "owned" => Member(c) \in live /\ given[Member(c)] # Sockets!Free
        /\ pc[c] = "linked" => Member(c) \in live /\ m_socketFd[Member(c)] = Sockets!NoFd

\* A connection is in one place only: it waits, or it was accepted once, or the
\* server went away first.  If it was accepted the other end is a link the server
\* got, or that link is closed.  A client's link has such a connection; a client
\* may have one already whose connect was interrupted.
ConnectionKept ==
    \A c \in Client :
        /\ handles[LinkAt(c)] > 0 => Connected(given[LinkAt(c)])
        /\ \A s \in {Member(c), LinkAt(c)} : Connected(given[s]) =>
             LET f == given[s]
             IN  /\ (f \in Waiting) # (f \in dead \/ peer[f] # 0)
                 /\ f \in dead => peer[f] = 0
                 /\ peer[f] # 0 =>
                      /\ peer[peer[f]] = f
                      /\ \A t \in live : given[t] = peer[f] => t \in {LinkAt(x) : x \in Place}
                      /\ \A g \in Fd : file[g] = peer[f] => \E x \in Place : m_socketFd[LinkAt(x)] = g
=============================================================================
