------------------------- MODULE UdpEndpointProofs --------------------------
(***************************************************************************)
(* UDP servers, clients and links, for any number of clients, waiting      *)
(* threads and descriptors.                                                *)
(*                                                                         *)
(* That a link means its owner's socket is not inductive: a number is used *)
(* again, and so are the objects.  Files are not: each is handed from an   *)
(* argument to one member (OneFile), a link is made for the file of a      *)
(* member (TempUnlinked), and a file that is made later is another one     *)
(* (Fresh).                                                                *)
(***************************************************************************)
EXTENDS UdpEndpoint, TLAPS

\* The objects the actions name are sockets, and different ones.
LEMMA Storage ==
    /\ \A e \in Endpoint : Temp(e) \in Socket /\ Member(e) \in Socket
    /\ \A e, d \in Endpoint : Temp(e) # Member(d)
    /\ \A e, d \in Endpoint : e # d => Temp(e) # Temp(d) /\ Member(e) # Member(d)
    /\ Server \in Endpoint /\ Client \subseteq Endpoint
    /\ \A l \in Link : Owner(l) \in Endpoint
  BY DEF Temp, Member, Socket, Endpoint, Owner

\* Every step is one operation of one socket object, or touches none.
LEMMA StepUsesSockets == [Next]_vars => [Sockets!Next]_Sockets!vars
<1> SUFFICES ASSUME [Next]_vars PROVE Sockets!Next \/ UNCHANGED Sockets!vars
  OBVIOUS
<1> USE Storage DEF Sockets!vars, socketVars
<1>1. ASSUME NEW e \in Endpoint, Open(e) PROVE Sockets!Next
  BY <1>1 DEF Open, Sockets!Next
<1>2. ASSUME NEW e \in Endpoint, GiveUp(e) \/ DropTemp(e) PROVE Sockets!Next
  BY <1>2 DEF GiveUp, DropTemp, Sockets!Next
<1>3. ASSUME NEW e \in Endpoint, Own(e) PROVE Sockets!Next
  BY <1>3 DEF Own, Sockets!Next
<1>4. CASE BindFails \/ DestroyServer
  BY <1>4 DEF BindFails, DestroyServer, Sockets!Next
<1>5. ASSUME NEW c \in Client, DestroyClient(c) PROVE Sockets!Next
  BY <1>5 DEF DestroyClient, Sockets!Next
<1>6. CASE Bind \/ UnblockServer
  BY <1>6 DEF Bind, UnblockServer
<1>7. ASSUME NEW x \in Waiter,
             Waits(x) \/ waitForConnection(x) \/ WaitUnblocked(x) \/ WaitDangling(x)
      PROVE  UNCHANGED Sockets!vars
  BY <1>7 DEF Waits, waitForConnection, WaitUnblocked, WaitDangling
<1>8. ASSUME NEW c \in Client, getLink(c) \/ getLinkFails(c) PROVE UNCHANGED Sockets!vars
  BY <1>8 DEF getLink, getLinkFails, vars
<1>9. ASSUME NEW l \in Link, DropLink(l) PROVE UNCHANGED Sockets!vars
  BY <1>9 DEF DropLink
<1>10. CASE UNCHANGED vars
  BY <1>10 DEF vars
<1> QED
  BY <1>1, <1>2, <1>3, <1>4, <1>5, <1>6, <1>7, <1>8, <1>9, <1>10 DEF Next

-----------------------------------------------------------------------------
(* Type correctness *)

\* The types hold before anything is made.
LEMMA InitTypes == Init => TypeOK
<1> SUFFICES ASSUME Init PROVE TypeOK
  OBVIOUS
<1>1. Sockets!TypeOK
  BY TableAssumption
  DEF Init, Sockets!Init, Sockets!TypeOK, Sockets!NoFd, Sockets!Free, Sockets!Foreign
<1>2. /\ pc \in [Endpoint -> {"none", "open", "owned", "ready", "closing"}]
      /\ \A c \in Client : pc[c] \notin {"owned", "closing"}
      /\ wpc \in [Waiter -> {"idle", "select", "dangling"}]
      /\ unblocked \in BOOLEAN
  BY Storage DEF Init
<1>3. linkFd \in [Link -> Fd \cup {Sockets!NoFd, NoLink}] /\ madeFor \in [Link -> 0..MaxFile]
  BY TableAssumption DEF Init, Sockets!Free
<1> QED
  BY <1>1, <1>2, <1>3 DEF TypeOK

\* BaseSocket's operations keep the types of its variables.
LEMMA SocketTypes ==
  Sockets!TypeOK /\ [Sockets!Next]_Sockets!vars => Sockets!TypeOK'
<1> SUFFICES ASSUME Sockets!TypeOK, [Sockets!Next]_Sockets!vars PROVE Sockets!TypeOK'
  OBVIOUS
<1> USE TableAssumption DEF Sockets!TypeOK, Sockets!NoFd, Sockets!Free, Sockets!Foreign
<1>1. ASSUME NEW s \in Socket, Sockets!DefaultConstruct(s) PROVE Sockets!TypeOK'
  BY <1>1 DEF Sockets!DefaultConstruct
<1>2. ASSUME NEW s \in Socket, Sockets!Construct(s) PROVE Sockets!TypeOK'
  BY <1>2 DEF Sockets!Construct
<1>3. ASSUME NEW s \in Socket, Sockets!Destroy(s) PROVE Sockets!TypeOK'
  BY <1>3 DEF Sockets!Destroy
<1>4. ASSUME NEW s \in Socket, NEW rhs \in Socket,
             Sockets!MoveConstruct(s, rhs) \/ Sockets!MoveAssign(s, rhs)
      PROVE  Sockets!TypeOK'
  BY <1>4 DEF Sockets!MoveConstruct, Sockets!MoveAssign
<1>5. CASE UNCHANGED Sockets!vars
  BY <1>5 DEF Sockets!vars
<1> QED
  BY <1>1, <1>2, <1>3, <1>4, <1>5 DEF Sockets!Next

\* Every step keeps the types.
LEMMA StepTypes == TypeOK /\ [Next]_vars => TypeOK'
<1> SUFFICES ASSUME TypeOK, [Next]_vars PROVE TypeOK'
  OBVIOUS
<1>1. Sockets!TypeOK'
  BY SocketTypes, StepUsesSockets DEF TypeOK
<1> USE <1>1, Storage, EndpointAssumption DEF TypeOK, Goes, linkVars, MakesLink
<1>2. ASSUME NEW e \in Endpoint, Open(e) \/ GiveUp(e) \/ Own(e) \/ DropTemp(e)
      PROVE  TypeOK'
  BY <1>2 DEF Open, GiveUp, Own, DropTemp
<1>3. CASE Bind \/ BindFails \/ UnblockServer
  BY <1>3 DEF Bind, BindFails, UnblockServer
<1>4. CASE DestroyServer
  BY <1>4 DEF DestroyServer
<1>5. ASSUME NEW c \in Client, DestroyClient(c) PROVE TypeOK'
  BY <1>5 DEF DestroyClient
<1>6. ASSUME NEW x \in Waiter, Waits(x) PROVE TypeOK'
  BY <1>6 DEF Waits
<1>7. ASSUME NEW x \in Waiter,
             waitForConnection(x) \/ WaitUnblocked(x) \/ WaitDangling(x)
      PROVE  TypeOK'
  <2>1. x \in Link
    BY DEF Link
  <2>2. CASE waitForConnection(x)
    BY <2>1, <2>2 DEF waitForConnection, Sockets!TypeOK
  <2>3. CASE WaitUnblocked(x)
    <3>1. /\ wpc' = [wpc EXCEPT ![x] = "idle"] /\ pc' = pc
          /\ linkFd' = [linkFd EXCEPT ![x] = Sockets!NoFd]
          /\ madeFor' = [madeFor EXCEPT ![x] = 0]
      BY <2>3 DEF WaitUnblocked, Sockets!Free
    <3>2. unblocked' \in BOOLEAN
      BY <2>3 DEF WaitUnblocked
    <3> QED
      BY <2>1, <3>1, <3>2, TableAssumption
  <2>4. CASE WaitDangling(x)
    BY <2>1, <2>4, TableAssumption DEF WaitDangling, Sockets!Free
  <2> QED
    BY <1>7, <2>2, <2>3, <2>4
<1>8. ASSUME NEW c \in Client, getLink(c) \/ getLinkFails(c) PROVE TypeOK'
  <2>1. c \in Link
    BY DEF Link
  <2> QED
    BY <1>8, <2>1 DEF getLink, getLinkFails, vars, Sockets!TypeOK
<1>9. ASSUME NEW l \in Link, DropLink(l) PROVE TypeOK'
  BY <1>9, TableAssumption DEF DropLink, Sockets!Free
<1>10. CASE UNCHANGED vars
  BY <1>10 DEF vars
<1> QED
  BY <1>2, <1>3, <1>4, <1>5, <1>6, <1>7, <1>8, <1>9, <1>10 DEF Next

\* The types of endpoints, waiting threads, links and of the descriptor table.
THEOREM TypeCorrect == Spec => []TypeOK
  BY InitTypes, StepTypes, PTL DEF Spec

-----------------------------------------------------------------------------
(* What the sockets hold, as BaseSocketProofs shows it, and which files *)

Fresh   == \A s \in Socket : given[s] <= opened
OneFile == \A s, t \in Socket : given[s] = given[t] /\ given[s] # Sockets!Free => s = t

SocketInv == Sockets!TypeOK /\ Sockets!HoldsItsFile /\ Fresh /\ OneFile

\* Initially there are no sockets.
LEMMA InitSocketInv == Init => SocketInv
  BY InitTypes, TableAssumption
  DEF Init, Sockets!Init, SocketInv, TypeOK, Sockets!TypeOK, Sockets!HoldsItsFile, Fresh,
      OneFile, Sockets!Free, Sockets!NoFd

\* Every operation of BaseSocket keeps a file with the object it was made for.
LEMMA StepSocketInv == SocketInv /\ [Sockets!Next]_Sockets!vars => SocketInv'
<1> SUFFICES ASSUME SocketInv, [Sockets!Next]_Sockets!vars PROVE SocketInv'
  OBVIOUS
<1>0. Sockets!TypeOK'
  BY SocketTypes DEF SocketInv
<1> USE <1>0, TableAssumption DEF SocketInv, Sockets!NoFd, Sockets!Free, Sockets!Foreign
<1>1. ASSUME NEW s \in Socket, Sockets!DefaultConstruct(s) PROVE SocketInv'
  BY <1>1 DEF Sockets!DefaultConstruct, Sockets!TypeOK, Sockets!HoldsItsFile, Fresh, OneFile
<1>2. ASSUME NEW s \in Socket, Sockets!Construct(s) PROVE SocketInv'
  <2>1. Fresh' /\ OneFile'
    BY <1>2 DEF Sockets!Construct, Sockets!TypeOK, Fresh, OneFile
  <2>2. Sockets!HoldsItsFile'
    BY <1>2 DEF Sockets!Construct, Sockets!LowestFree, Sockets!TypeOK, Sockets!HoldsItsFile
  <2> QED
    BY <2>1, <2>2
<1>3. ASSUME NEW s \in Socket, Sockets!Destroy(s) PROVE SocketInv'
  <2>1. Fresh' /\ OneFile'
    BY <1>3 DEF Sockets!Destroy, Sockets!TypeOK, Fresh, OneFile
  <2>2. ASSUME NEW t \in live', m_socketFd[t] # -1, m_socketFd[s] # -1
        PROVE  m_socketFd[t] # m_socketFd[s]
    BY <1>3, <2>2 DEF Sockets!Destroy, Sockets!TypeOK, Sockets!HoldsItsFile, OneFile
  <2>3. Sockets!HoldsItsFile'
    <3>1. CASE Sockets!isValid(s)
      <4> SUFFICES ASSUME NEW t \in live'
                   PROVE  IF m_socketFd'[t] = -1 THEN given'[t] = 0
                          ELSE given'[t] # 0 /\ file'[m_socketFd'[t]] = given'[t]
        BY DEF Sockets!HoldsItsFile
      <4>1. t \in live /\ t \in Socket /\ t # s /\ given'[t] = given[t] /\ m_socketFd'[t] = m_socketFd[t]
        BY <1>3, <3>1 DEF Sockets!Destroy, Sockets!TypeOK
      <4>2. m_socketFd[s] # -1 /\ file' = [file EXCEPT ![m_socketFd[s]] = 0]
        BY <1>3, <3>1 DEF Sockets!Destroy, Sockets!isValid
      <4> QED
        BY <2>2, <4>1, <4>2 DEF Sockets!TypeOK, Sockets!HoldsItsFile
    <3>2. CASE ~Sockets!isValid(s)
      BY <1>3, <3>2 DEF Sockets!Destroy, Sockets!TypeOK, Sockets!HoldsItsFile
    <3> QED
      BY <3>1, <3>2
  <2> QED
    BY <2>1, <2>3
<1>4. ASSUME NEW s \in Socket, NEW rhs \in Socket, Sockets!MoveConstruct(s, rhs)
      PROVE  SocketInv'
  BY <1>4 DEF Sockets!MoveConstruct, Sockets!TypeOK, Sockets!HoldsItsFile, Fresh, OneFile
<1>5. ASSUME NEW s \in Socket, NEW rhs \in Socket, Sockets!MoveAssign(s, rhs)
      PROVE  SocketInv'
  BY <1>5 DEF Sockets!MoveAssign, Sockets!TypeOK, Sockets!HoldsItsFile, Fresh, OneFile
<1>6. CASE UNCHANGED Sockets!vars
  BY <1>6 DEF Sockets!vars, Sockets!HoldsItsFile, Fresh, OneFile
<1> QED
  BY <1>1, <1>2, <1>3, <1>4, <1>5, <1>6 DEF Sockets!Next

-----------------------------------------------------------------------------
(* Links *)

LinkFresh == \A l \in Link : madeFor[l] <= opened

\* No link is made for a socket that has still to find its server or client.
TempUnlinked ==
    \A l \in Link, e \in Endpoint :
        madeFor[l] # Sockets!Free => given[Temp(e)] # madeFor[l]

NumberKept ==
    \A l \in Link :
        madeFor[l] # Sockets!Free /\ given[Member(Owner(l))] = madeFor[l]
            => linkFd[l] = m_socketFd[Member(Owner(l))]

LinkInv == TypeOK /\ SocketInv /\ LinkFresh /\ TempUnlinked /\ NumberKept

\* Initially there are no links.
LEMMA InitLinkInv == Init => LinkInv
<1> SUFFICES ASSUME Init PROVE LinkInv
  OBVIOUS
<1>1. TypeOK /\ SocketInv
  BY InitTypes, InitSocketInv
<1> QED
  BY <1>1 DEF Init, Sockets!Init, LinkInv, LinkFresh, TempUnlinked, NumberKept, Sockets!Free

\* Making a link for its owner's socket, or for none, keeps what links mean.
LEMMA MakesLinkInv ==
  ASSUME LinkInv, NEW l \in Link, NEW fd, NEW f, MakesLink(l, fd, f), UNCHANGED socketVars,
         \/ f = Sockets!Free
         \/ fd = m_socketFd[Member(Owner(l))] /\ f = given[Member(Owner(l))]
  PROVE  LinkFresh' /\ TempUnlinked' /\ NumberKept'
  BY Storage, TableAssumption
  DEF LinkInv, SocketInv, TypeOK, Sockets!TypeOK, MakesLink, socketVars, LinkFresh,
      TempUnlinked, NumberKept, Fresh, OneFile, Sockets!Free

\* Destroying an object keeps what links mean: its file is nobody's any more.
LEMMA DestroyInv ==
  ASSUME LinkInv, NEW s \in Socket, Sockets!Destroy(s), UNCHANGED linkVars
  PROVE  LinkFresh' /\ TempUnlinked' /\ NumberKept'
  BY Storage, TableAssumption
  DEF LinkInv, SocketInv, TypeOK, Sockets!TypeOK, Sockets!Destroy, linkVars, LinkFresh,
      TempUnlinked, NumberKept, Sockets!Free, Sockets!NoFd

\* Every step keeps what the links mean.
LEMMA StepLinkInv == LinkInv /\ [Next]_vars => LinkInv'
<1> SUFFICES ASSUME LinkInv, [Next]_vars PROVE LinkInv'
  OBVIOUS
<1>0. TypeOK' /\ SocketInv'
  BY StepTypes, StepUsesSockets, StepSocketInv DEF LinkInv
<1> DEFINE Kept == LinkFresh' /\ TempUnlinked' /\ NumberKept'
<1> SUFFICES Kept
  BY <1>0 DEF LinkInv
<1> USE Storage
<1>1. ASSUME NEW e \in Endpoint, Open(e) PROVE Kept
  BY <1>1, TableAssumption
  DEF Open, Sockets!Construct, linkVars, LinkInv, SocketInv, TypeOK, Sockets!TypeOK,
      LinkFresh, TempUnlinked, NumberKept, Sockets!Free
<1>2. ASSUME NEW e \in Endpoint, Own(e) PROVE Kept
  BY <1>2, TableAssumption
  DEF Own, Sockets!MoveConstruct, linkVars, LinkInv, SocketInv, TypeOK, Sockets!TypeOK,
      LinkFresh, TempUnlinked, NumberKept, Sockets!Free, Sockets!NoFd
<1>3. ASSUME NEW e \in Endpoint, GiveUp(e) \/ DropTemp(e) PROVE Kept
  BY <1>3, DestroyInv DEF GiveUp, DropTemp
<1>4. CASE BindFails \/ DestroyServer
  BY <1>4, DestroyInv DEF BindFails, DestroyServer
<1>5. ASSUME NEW c \in Client, DestroyClient(c) PROVE Kept
  BY <1>5, DestroyInv DEF DestroyClient
<1>6. ASSUME NEW x \in Waiter,
             waitForConnection(x) \/ WaitUnblocked(x) \/ WaitDangling(x)
      PROVE  Kept
  <2>1. x \in Link /\ Owner(x) = Server
    BY EndpointAssumption DEF Link, Owner
  <2> QED
    BY <1>6, <2>1, MakesLinkInv DEF waitForConnection, WaitUnblocked, WaitDangling
<1>7. ASSUME NEW c \in Client, getLink(c) PROVE Kept
  <2>1. c \in Link /\ Owner(c) = c
    BY DEF Link, Owner
  <2> QED
    BY <1>7, <2>1, MakesLinkInv DEF getLink
<1>8. ASSUME NEW l \in Link, DropLink(l) PROVE Kept
  BY <1>8, MakesLinkInv DEF DropLink
<1>9. CASE UNCHANGED <<socketVars, linkVars>>
  BY <1>9 DEF socketVars, linkVars, LinkInv, LinkFresh, TempUnlinked, NumberKept
<1>10. CASE \/ Bind \/ UnblockServer \/ UNCHANGED vars
            \/ \E x \in Waiter : Waits(x)
            \/ \E c \in Client : getLinkFails(c)
  BY <1>9, <1>10 DEF Bind, UnblockServer, Waits, getLinkFails, vars
<1> QED
  BY <1>1, <1>2, <1>3, <1>4, <1>5, <1>6, <1>7, <1>8, <1>10 DEF Next

\* A link's number means the socket it was made for as long as that belongs to
\* the link's server or client, however often numbers are used again.
THEOREM LinksMeanTheirSocket == Spec => []LinkOnOwnFile
<1>1. LinkInv => LinkOnOwnFile
  BY Storage, TableAssumption
  DEF LinkInv, SocketInv, Sockets!HoldsItsFile, Sockets!TypeOK, NumberKept, LinkOnOwnFile,
      Sockets!Free, Sockets!NoFd
<1> QED
  BY <1>1, InitLinkInv, StepLinkInv, PTL DEF Spec

-----------------------------------------------------------------------------
(* Who holds the open files, if standard input is open *)

\* An endpoint's argument has a file as long as the application owns it, its member
\* from then to the end.
Stages ==
    \A e \in Endpoint :
        /\ pc[e] = "open" <=> Temp(e) \in live /\ given[Temp(e)] # 0
        /\ pc[e] \in {"owned", "ready", "closing"} <=> Member(e) \in live /\ given[Member(e)] # 0

\* Every step keeps the stages.
LEMMA StepStages == TypeOK /\ Stages /\ [Next]_vars => Stages'
<1> SUFFICES ASSUME TypeOK, Stages, [Next]_vars PROVE Stages'
  OBVIOUS
<1> USE Storage, TableAssumption, EndpointAssumption
    DEF Stages, Goes, TypeOK, Sockets!TypeOK, Sockets!Free
<1>1. ASSUME NEW e \in Endpoint, Open(e) PROVE Stages'
  BY <1>1 DEF Open, Sockets!Construct
<1>2. ASSUME NEW e \in Endpoint, GiveUp(e) \/ DropTemp(e) PROVE Stages'
  BY <1>2 DEF GiveUp, DropTemp, Sockets!Destroy
<1>3. ASSUME NEW e \in Endpoint, Own(e) PROVE Stages'
  BY <1>3 DEF Own, Sockets!MoveConstruct
<1>4. CASE BindFails \/ DestroyServer
  BY <1>4 DEF BindFails, DestroyServer, Sockets!Destroy
<1>5. ASSUME NEW c \in Client, DestroyClient(c) PROVE Stages'
  BY <1>5 DEF DestroyClient, Sockets!Destroy
<1>6. CASE Bind \/ UnblockServer
  BY <1>6 DEF Bind, UnblockServer, socketVars
<1>7. CASE UNCHANGED <<socketVars, pc>>
  BY <1>7 DEF socketVars
<1>8. ASSUME NEW x \in Waiter,
             Waits(x) \/ waitForConnection(x) \/ WaitUnblocked(x) \/ WaitDangling(x)
      PROVE  Stages'
  BY <1>7, <1>8 DEF Waits, waitForConnection, WaitUnblocked, WaitDangling
<1>9. ASSUME NEW c \in Client, getLink(c) \/ getLinkFails(c) PROVE Stages'
  BY <1>7, <1>9 DEF getLink, getLinkFails, vars
<1>10. ASSUME NEW l \in Link, DropLink(l) PROVE Stages'
  BY <1>7, <1>10 DEF DropLink
<1>11. CASE UNCHANGED vars
  BY <1>7, <1>11 DEF vars
<1> QED
  BY <1>1, <1>2, <1>3, <1>4, <1>5, <1>6, <1>8, <1>9, <1>10, <1>11 DEF Next

ZeroIsForeign == 0 \in Fd /\ file[0] = Sockets!Foreign

\* No operation of BaseSocket leaks a descriptor.
LEMMA StepNoLeak ==
  ASSUME SocketInv, ZeroIsForeign, Sockets!NoLeak, [Sockets!Next]_Sockets!vars
  PROVE  ZeroIsForeign' /\ Sockets!NoLeak'
<1> USE TableAssumption
    DEF SocketInv, Sockets!TypeOK, ZeroIsForeign, Sockets!NoLeak, Sockets!isValid,
        Sockets!Free, Sockets!Foreign, Sockets!NoFd
<1>1. ASSUME NEW s \in Socket, Sockets!DefaultConstruct(s)
      PROVE  ZeroIsForeign' /\ Sockets!NoLeak'
  BY <1>1 DEF Sockets!DefaultConstruct
<1>2. ASSUME NEW s \in Socket, Sockets!Construct(s) PROVE ZeroIsForeign' /\ Sockets!NoLeak'
  BY <1>2 DEF Sockets!Construct, Sockets!LowestFree
<1>3. ASSUME NEW s \in Socket, Sockets!Destroy(s) PROVE ZeroIsForeign' /\ Sockets!NoLeak'
  BY <1>3 DEF Sockets!Destroy, Sockets!HoldsItsFile
<1>4. ASSUME NEW s \in Socket, NEW rhs \in Socket, Sockets!MoveConstruct(s, rhs)
      PROVE  ZeroIsForeign' /\ Sockets!NoLeak'
  BY <1>4 DEF Sockets!MoveConstruct
<1>5. ASSUME NEW s \in Socket, NEW rhs \in Socket, Sockets!MoveAssign(s, rhs)
      PROVE  ZeroIsForeign' /\ Sockets!NoLeak'
  BY <1>5 DEF Sockets!MoveAssign
<1>6. CASE UNCHANGED Sockets!vars
  BY <1>6 DEF Sockets!vars
<1> QED
  BY <1>1, <1>2, <1>3, <1>4, <1>5, <1>6 DEF Sockets!Next

\* What is known of the stages says who holds the open files.
LEMMA FilesAreHeld ==
  ASSUME Stages, SocketInv, Sockets!NoLeak
  PROVE  SocketsHeld
<1>1. \A s \in Socket : s \in live /\ given[s] # 0 <=> s \in Holders
  <2> SUFFICES ASSUME NEW s \in Socket PROVE s \in live /\ given[s] # 0 <=> s \in Holders
    OBVIOUS
  <2>1. ASSUME NEW e \in Endpoint, s = Temp(e) PROVE s \in live /\ given[s] # 0 <=> s \in Holders
    BY <2>1, Storage DEF Stages, Holders
  <2>2. ASSUME NEW e \in Endpoint, s = Member(e) PROVE s \in live /\ given[s] # 0 <=> s \in Holders
    BY <2>2, Storage DEF Stages, Holders
  <2> QED
    BY <2>1, <2>2 DEF Socket, Temp, Member
<1>2. Holders \subseteq Socket
  BY Storage DEF Holders
<1>3. \A s \in Holders : given[s] # 0 /\ m_socketFd[s] # -1 /\ file[m_socketFd[s]] = given[s]
  BY <1>1, <1>2 DEF SocketInv, Sockets!HoldsItsFile, Sockets!NoFd, Sockets!Free
<1>4. \A s, t \in Holders : m_socketFd[s] = m_socketFd[t] => s = t
  BY <1>2, <1>3 DEF SocketInv, OneFile, Sockets!Free
<1>5. ASSUME NEW f \in Fd, file[f] \notin {Sockets!Free, Sockets!Foreign}
      PROVE  \E s \in Holders : m_socketFd[s] = f
  <2>1. PICK s \in live : m_socketFd[s] = f /\ Sockets!isValid(s)
    BY <1>5 DEF Sockets!NoLeak
  <2>2. s \in Socket /\ given[s] # 0
    BY <2>1, TableAssumption
    DEF SocketInv, Sockets!TypeOK, Sockets!HoldsItsFile, Sockets!isValid, Sockets!NoFd, Sockets!Free
  <2> QED
    BY <1>1, <2>1, <2>2
<1> QED
  BY <1>3, <1>4, <1>5 DEF SocketsHeld, Sockets!Free

\* The open files are those of the objects the course of the program has given one
\* to keep, one for each, also when a constructor throws, a link outlives its socket
\* or a server goes away under a waiting thread.
THEOREM SocketsAreHeld == ASSUME 0 \in Std PROVE Spec => []SocketsHeld
<1> DEFINE Inv == TypeOK /\ Stages /\ SocketInv /\ ZeroIsForeign /\ Sockets!NoLeak
<1>1. Init => Inv
  <2>1. Init => TypeOK /\ SocketInv
    BY InitTypes, InitSocketInv
  <2>2. Init => Stages /\ ZeroIsForeign /\ Sockets!NoLeak
    BY TableAssumption
    DEF Init, Sockets!Init, Stages, ZeroIsForeign, Sockets!NoLeak, Sockets!Free, Sockets!Foreign
  <2> QED
    BY <2>1, <2>2
<1>2. Inv /\ [Next]_vars => Inv'
  <2>1. Inv /\ [Next]_vars => TypeOK' /\ Stages' /\ SocketInv'
    BY StepTypes, StepStages, StepUsesSockets, StepSocketInv
  <2>2. Inv /\ [Next]_vars => ZeroIsForeign' /\ Sockets!NoLeak'
    BY StepNoLeak, StepUsesSockets
  <2> QED
    BY <2>1, <2>2
<1>3. Inv => SocketsHeld
  BY FilesAreHeld
<1> QED
  BY <1>1, <1>2, <1>3, PTL DEF Spec
=============================================================================
