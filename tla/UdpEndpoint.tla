---------------------------- MODULE UdpEndpoint -----------------------------
(***************************************************************************)
(* The life of CUdpServer and CUdpClient (src/Udp/UdpServer.cpp,           *)
(* src/Udp/UdpClient.cpp) and of the links they give out, on the           *)
(* descriptors of module BaseSocket.                                       *)
(*                                                                         *)
(* A CUdpDataLink owns no descriptor: it remembers the number its server or*)
(* client had when the link was made, and closes nothing.  What the number *)
(* means later depends on everybody else in the process.  Threads of the   *)
(* application wait in waitForConnection while another one may destroy the *)
(* server: the destructor unblocks a waiting thread, does not wait for it, *)
(* and ends the members the thread is about to use.                        *)
(*                                                                         *)
(*   <<"temp", e>>    the CBaseSocket the application makes for endpoint e *)
(*   <<"member", e>>  m_baseSocket of the private server or client         *)
(***************************************************************************)
EXTENDS Integers

CONSTANTS Client, Server,
          Waiter,           \* the threads that call waitForConnection
          Fd, Std, MaxFile  \* as in BaseSocket

ASSUME TableAssumption == Fd \subseteq Nat /\ Std \subseteq Fd /\ MaxFile \in Nat
ASSUME EndpointAssumption == Server \notin Client /\ Client \cap Waiter = {}

Endpoint == Client \cup {Server}
Link     == Client \cup Waiter  \* a client's link, or what a waiter was given
Socket   == {"temp", "member"} \X Endpoint

VARIABLES
    live, m_socketFd, file, opened, given,  \* as in BaseSocket
    pc,        \* per endpoint: "none", "open", "owned", "ready", "closing"
    wpc,       \* per waiter: "idle", "select" (in waitForConnection) or
               \* "dangling" (still in it, and the server is gone)
    unblocked, \* m_FdSet of the server has a cancel request
    linkFd,    \* member m_socketFd of each link, NoLink if there is none
    madeFor    \* history: the file a link was made for, or Free

Sockets == INSTANCE BaseSocket

socketVars == <<live, m_socketFd, file, opened, given>>
linkVars   == <<linkFd, madeFor>>
vars       == <<socketVars, pc, wpc, unblocked, linkVars>>

NoLink == -2

TypeOK ==
    /\ Sockets!TypeOK
    /\ pc \in [Endpoint -> {"none", "open", "owned", "ready", "closing"}]
    /\ \A c \in Client : pc[c] \notin {"owned", "closing"}
    /\ wpc \in [Waiter -> {"idle", "select", "dangling"}]
    /\ unblocked \in BOOLEAN
    /\ linkFd \in [Link -> Fd \cup {Sockets!NoFd, NoLink}]
    /\ madeFor \in [Link -> 0..MaxFile]

Init ==
    /\ Sockets!Init
    /\ pc = [e \in Endpoint |-> "none"]
    /\ wpc = [x \in Waiter |-> "idle"]
    /\ unblocked = FALSE
    /\ linkFd = [l \in Link |-> NoLink]
    /\ madeFor = [l \in Link |-> Sockets!Free]

Temp(e)   == <<"temp", e>>
Member(e) == <<"member", e>>
Owner(l)  == IF l \in Client THEN l ELSE Server

Goes(e, here) == pc' = [pc EXCEPT ![e] = here]

-----------------------------------------------------------------------------
(* Construction *)

Open(e) ==
    /\ pc[e] = "none"
    /\ Sockets!Construct(Temp(e))
    /\ Goes(e, "open")
    /\ UNCHANGED <<wpc, unblocked, linkVars>>

\* SoReuseSocket or SoBroadcast throws: its argument is destroyed.
GiveUp(e) ==
    /\ pc[e] = "open"
    /\ Sockets!Destroy(Temp(e))
    /\ Goes(e, "none")
    /\ UNCHANGED <<wpc, unblocked, linkVars>>

\* The private part takes the socket over; a client has no more to do.
Own(e) ==
    /\ pc[e] = "open"
    /\ Sockets!MoveConstruct(Member(e), Temp(e))
    /\ Goes(e, IF e = Server THEN "owned" ELSE "ready")
    /\ UNCHANGED <<wpc, unblocked, linkVars>>

\* The end of the scope of the application's CBaseSocket.
DropTemp(e) ==
    /\ pc[e] \notin {"open", "owned"}
    /\ Sockets!Destroy(Temp(e))
    /\ UNCHANGED <<pc, wpc, unblocked, linkVars>>

Bind ==
    /\ pc[Server] = "owned"
    /\ Goes(Server, "ready")
    /\ UNCHANGED <<socketVars, wpc, unblocked, linkVars>>

\* bind fails, or the domain is not an internet one: the constructor throws,
\* and the unwinding destroys the member but runs no destructor of the server.
BindFails ==
    /\ pc[Server] = "owned"
    /\ Sockets!Destroy(Member(Server))
    /\ Goes(Server, "none")
    /\ UNCHANGED <<wpc, unblocked, linkVars>>

-----------------------------------------------------------------------------
(* Links *)

MakesLink(l, fd, f) ==
    /\ linkFd' = [linkFd EXCEPT ![l] = fd]
    /\ madeFor' = [madeFor EXCEPT ![l] = f]

\* waitForConnection enters Select; only one thread at a time can, for they
\* would share the descriptor set.
Waits(x) ==
    /\ pc[Server] = "ready"
    /\ \A y \in Waiter : wpc[y] = "idle"
    /\ wpc' = [wpc EXCEPT ![x] = "select"]
    /\ UNCHANGED <<socketVars, pc, unblocked, linkVars>>

\* A datagram is there; the link the thread had before is assigned over.
waitForConnection(x) ==
    /\ wpc[x] = "select"
    /\ wpc' = [wpc EXCEPT ![x] = "idle"]
    /\ MakesLink(x, m_socketFd[Member(Server)], given[Member(Server)])
    /\ UNCHANGED <<socketVars, pc, unblocked>>

\* The destructor's request is found first.
WaitUnblocked(x) ==
    /\ wpc[x] = "select"
    /\ unblocked
    /\ unblocked' = FALSE
    /\ wpc' = [wpc EXCEPT ![x] = "idle"]
    /\ MakesLink(x, Sockets!NoFd, Sockets!Free)
    /\ UNCHANGED <<socketVars, pc>>

\* Select returns when the server is gone, if ever: the number is read from
\* memory that is free, unless Select reports the request.
WaitDangling(x) ==
    /\ wpc[x] = "dangling"
    /\ wpc' = [wpc EXCEPT ![x] = "idle"]
    /\ \E fd \in Fd \cup {Sockets!NoFd} : MakesLink(x, fd, Sockets!Free)
    /\ UNCHANGED <<socketVars, pc, unblocked>>

\* Variant: the link is made for the socket the client was constructed with.
getLinkOfTemp(c) ==
    /\ pc[c] = "ready"
    /\ MakesLink(c, m_socketFd[Temp(c)], given[Member(c)])
    /\ UNCHANGED <<socketVars, pc, wpc, unblocked>>

getLink(c) ==
    /\ pc[c] = "ready"
    /\ MakesLink(c, m_socketFd[Member(c)], given[Member(c)])
    /\ UNCHANGED <<socketVars, pc, wpc, unblocked>>

\* No address for the host, or none of the socket's domain: nothing is made.
getLinkFails(c) ==
    /\ pc[c] = "ready"
    /\ UNCHANGED vars

\* Variant: the link closes the descriptor it was made with.
DropLinkCloses(l) ==
    /\ linkFd[l] # NoLink
    /\ file' = [f \in Fd |-> IF f = linkFd[l] THEN Sockets!Free ELSE file[f]]
    /\ MakesLink(l, NoLink, Sockets!Free)
    /\ UNCHANGED <<live, m_socketFd, opened, given, pc, wpc, unblocked>>

\* ~CUdpDataLink: whatever the number means by now, it is not closed.
DropLink(l) ==
    /\ linkFd[l] # NoLink
    /\ MakesLink(l, NoLink, Sockets!Free)
    /\ UNCHANGED <<socketVars, pc, wpc, unblocked>>

-----------------------------------------------------------------------------
(* Destruction *)

DestroyClient(c) ==
    /\ pc[c] = "ready"
    /\ Sockets!Destroy(Member(c))
    /\ Goes(c, "none")
    /\ UNCHANGED <<wpc, unblocked, linkVars>>

\* The body of ~CUdpServerPrivate: UnBlock.
UnblockServer ==
    /\ pc[Server] = "ready"
    /\ Goes(Server, "closing")
    /\ unblocked' = TRUE
    /\ UNCHANGED <<socketVars, wpc, linkVars>>

\* Its members go, first the socket; whoever is still in Select is on its own.
DestroyServer ==
    /\ pc[Server] = "closing"
    /\ Sockets!Destroy(Member(Server))
    /\ Goes(Server, "none")
    /\ unblocked' = FALSE
    /\ wpc' = [x \in Waiter |-> IF wpc[x] = "select" THEN "dangling" ELSE wpc[x]]
    /\ UNCHANGED linkVars

-----------------------------------------------------------------------------
Next ==
    \/ \E e \in Endpoint : Open(e) \/ GiveUp(e) \/ Own(e) \/ DropTemp(e)
    \/ Bind \/ BindFails \/ UnblockServer \/ DestroyServer
    \/ \E x \in Waiter : Waits(x) \/ waitForConnection(x) \/ WaitUnblocked(x) \/ WaitDangling(x)
    \/ \E c \in Client : getLink(c) \/ getLinkFails(c) \/ DestroyClient(c)
    \/ \E l \in Link : DropLink(l)

Spec == Init /\ [][Next]_vars

\* A waiting thread goes on if it can, and so does a destructor.
FairSpec ==
    /\ Spec
    /\ \A x \in Waiter : WF_vars(WaitUnblocked(x))
    /\ WF_vars(DestroyServer)

-----------------------------------------------------------------------------
(* Properties *)

\* The objects the course of the program has given a socket to keep; links are
\* not among them.
Holders ==
    {Temp(e) : e \in {d \in Endpoint : pc[d] = "open"}}
        \cup {Member(e) : e \in {d \in Endpoint : pc[d] \in {"owned", "ready", "closing"}}}

\* The files that are open are those of the holders, one for each: neither a
\* constructor that throws, the end of a scope, a link that is assigned over or
\* dropped after its socket has gone, nor a server destroyed under a waiting thread
\* leaves a file behind or closes somebody else's.
SocketsHeld ==
    /\ \A s \in Holders : given[s] # Sockets!Free /\ file[m_socketFd[s]] = given[s]
    /\ \A s, t \in Holders : m_socketFd[s] = m_socketFd[t] => s = t
    /\ \A f \in Fd : file[f] \notin {Sockets!Free, Sockets!Foreign}
         => \E s \in Holders : m_socketFd[s] = f

\* While the socket a link was made for still belongs to its server or client,
\* the link's number means that socket, whatever else was opened and closed.
LinkOnOwnFile ==
    \A l \in Link :
        LET s == Member(Owner(l))
        IN  madeFor[l] # Sockets!Free /\ s \in live /\ given[s] = madeFor[l]
                => linkFd[l] = m_socketFd[s] /\ file[linkFd[l]] = madeFor[l]

\* A link never uses a file it was not made for.
NeverForeign ==
    \A l \in Link : linkFd[l] \in Fd => file[linkFd[l]] \in {madeFor[l], Sockets!Free}

\* A thread in waitForConnection comes out when the server is destroyed.
WaitersFreed ==
    \A x \in Waiter : wpc[x] = "select" /\ pc[Server] = "closing" ~> wpc[x] = "idle"
=============================================================================
