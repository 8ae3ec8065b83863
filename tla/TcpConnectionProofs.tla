------------------------ MODULE TcpConnectionProofs -------------------------
(***************************************************************************)
(* Servers, clients and links, for any number of them: each open file has  *)
(* one holder, links stay usable while a copy of them lives, and no        *)
(* connection is accepted twice or lost, interrupted connects included.    *)
(***************************************************************************)
EXTENDS TcpConnection, SequenceTheorems, TLAPS

\* The objects the actions name are sockets.
LEMMA Storage ==
    /\ \A e \in Endpoint : Temp(e) \in Socket /\ Member(e) \in Socket
    /\ \A x \in Client \cup Place : LinkAt(x) \in Link
    /\ Link \subseteq Socket
  BY DEF Temp, Member, LinkAt, Link, Socket

\* Every step is one operation of one socket object, or touches none.
LEMMA StepUsesSockets == [Next]_vars => [Sockets!Next]_Sockets!vars
<1> SUFFICES ASSUME [Next]_vars PROVE Sockets!Next \/ UNCHANGED Sockets!vars
  OBVIOUS
<1> USE Storage DEF Sockets!vars, socketVars
<1>1. ASSUME NEW e \in Endpoint, Open(e) PROVE Sockets!Next
  BY <1>1 DEF Open, Sockets!Next
<1>2. ASSUME NEW e \in Endpoint, GiveUp(e) PROVE Sockets!Next
  BY <1>2 DEF GiveUp, Sockets!Next
<1>3. ASSUME NEW e \in Endpoint, Own(e) PROVE Sockets!Next
  BY <1>3 DEF Own, Sockets!Next
<1>4. ASSUME NEW e \in Endpoint, DropTemp(e) PROVE Sockets!Next
  BY <1>4 DEF DropTemp, Sockets!Next
<1>5. ASSUME NEW e \in Endpoint, DestroyEndpoint(e) PROVE Sockets!Next
  BY <1>5 DEF DestroyEndpoint, Sockets!Next
<1>6. CASE ListenFails
  BY <1>6 DEF ListenFails, Sockets!Next, Endpoint
<1>7. ASSUME NEW x \in Place, waitForConnection(x) PROVE Sockets!Next
  BY <1>7 DEF waitForConnection, Sockets!Next
<1>8. ASSUME NEW c \in Client, connect(c) PROVE Sockets!Next
  BY <1>8 DEF connect, Sockets!Next, Endpoint
<1>9. ASSUME NEW l \in Link, DropLink(l) PROVE Sockets!Next \/ UNCHANGED Sockets!vars
  BY <1>9 DEF DropLink, Sockets!Next
<1>10. CASE Listen
  BY <1>10 DEF Listen
<1>11. ASSUME NEW l \in Link, CopyLink(l) PROVE UNCHANGED Sockets!vars
  BY <1>11 DEF CopyLink
<1>12. CASE UNCHANGED vars
  BY <1>12 DEF vars
<1>13. CASE \/ waitForConnectionFails
           \/ \E c \in Client : connectInterrupted(c) \/ connectFails(c)
  BY <1>13 DEF waitForConnectionFails, connectInterrupted, connectFails, vars
<1> QED
  BY <1>1, <1>2, <1>3, <1>4, <1>5, <1>6, <1>7, <1>8, <1>9, <1>10, <1>11, <1>12, <1>13 DEF Next

-----------------------------------------------------------------------------
(***************************************************************************)
(* What each endpoint and link holds at each stage of its life.  A step of *)
(* one of them changes the objects of that one only, so that the stages of *)
(* the others are kept; what is needed of BaseSocket is what its actions   *)
(* leave in "given", and that a new object's file has a number above 0.    *)
(***************************************************************************)
Shape ==
    /\ given \in [Socket -> Nat]
    /\ m_socketFd \in [Socket -> Int]
    /\ opened \in Nat
    /\ pc \in [Endpoint -> {"none", "open", "owned", "listening", "linked"}]
    /\ handles \in [Link -> Nat]

EndpointStage ==
    \A e \in Endpoint :
        /\ pc[e] = "open" => Temp(e) \in live /\ given[Temp(e)] # 0
        /\ pc[e] \in {"owned", "listening"} => Member(e) \in live /\ given[Member(e)] # 0
        /\ pc[e] = "linked" => Member(e) \in live /\ m_socketFd[Member(e)] = Sockets!NoFd
        /\ given[Temp(e)] # 0 => pc[e] = "open"
        /\ given[Member(e)] # 0 => pc[e] \in {"owned", "listening"}

LinkStage ==
    \A l \in Link : /\ handles[l] = 0 <=> l \notin live
                    /\ handles[l] > 0 <=> given[l] # 0

Stages == Shape /\ EndpointStage /\ LinkStage

\* Initially there are no objects.
LEMMA InitStages == Init => Stages
  BY Storage DEF Init, Sockets!Init, Stages, Shape, EndpointStage, LinkStage,
                 Sockets!Free, Sockets!NoFd

\* Different objects have different storage.
LEMMA Distinct ==
    /\ \A e, d \in Endpoint : Temp(e) # Member(d)
    /\ \A e, d \in Endpoint : e # d => Temp(e) # Temp(d) /\ Member(e) # Member(d)
    /\ \A e \in Endpoint : Temp(e) \notin Link /\ Member(e) \notin Link
  BY DEF Temp, Member, Link

\* Every operation keeps the stages.
LEMMA StepStages == Stages /\ [Next]_vars => Stages'
<1> SUFFICES ASSUME Stages, [Next]_vars PROVE Stages'
  OBVIOUS
<1> USE Storage, Distinct, TableAssumption, EndpointAssumption
    DEF Stages, Goes, Sockets!Free, Sockets!NoFd
<1>1. ASSUME NEW e \in Endpoint, Open(e) PROVE Stages'
  <2>1. Shape' /\ given'[Temp(e)] = opened + 1
    BY <1>1 DEF Open, Sockets!Construct, Shape
  <2>2. EndpointStage'
    BY <1>1, <2>1 DEF Open, Sockets!Construct, Shape, EndpointStage
  <2>3. LinkStage'
    BY <1>1, <2>1 DEF Open, Sockets!Construct, Shape, LinkStage
  <2> QED
    BY <2>1, <2>2, <2>3
<1>2. ASSUME NEW e \in Endpoint, GiveUp(e) PROVE Stages'
  <2>1. Shape'
    BY <1>2 DEF GiveUp, Sockets!Destroy, Shape
  <2>2. EndpointStage'
    BY <1>2, <2>1 DEF GiveUp, Sockets!Destroy, Shape, EndpointStage
  <2>3. LinkStage'
    BY <1>2, <2>1 DEF GiveUp, Sockets!Destroy, Shape, LinkStage
  <2> QED
    BY <2>1, <2>2, <2>3
<1>3. ASSUME NEW e \in Endpoint, Own(e) PROVE Stages'
  <2>1. Shape' /\ given'[Member(e)] = given[Temp(e)]
    BY <1>3 DEF Own, Sockets!MoveConstruct, Shape
  <2>2. EndpointStage'
    BY <1>3, <2>1 DEF Own, Sockets!MoveConstruct, Shape, EndpointStage
  <2>3. LinkStage'
    BY <1>3, <2>1 DEF Own, Sockets!MoveConstruct, Shape, LinkStage
  <2> QED
    BY <2>1, <2>2, <2>3
<1>4. ASSUME NEW e \in Endpoint, DropTemp(e) PROVE Stages'
  <2>1. Shape'
    BY <1>4 DEF DropTemp, Sockets!Destroy, Shape
  <2>2. EndpointStage'
    BY <1>4, <2>1 DEF DropTemp, Sockets!Destroy, Shape, EndpointStage
  <2>3. LinkStage'
    BY <1>4, <2>1 DEF DropTemp, Sockets!Destroy, Shape, LinkStage
  <2> QED
    BY <2>1, <2>2, <2>3
<1>5. ASSUME NEW e \in Endpoint, DestroyEndpoint(e) PROVE Stages'
  <2>1. Shape'
    BY <1>5 DEF DestroyEndpoint, Sockets!Destroy, Shape
  <2>2. EndpointStage'
    BY <1>5, <2>1 DEF DestroyEndpoint, Sockets!Destroy, Shape, EndpointStage
  <2>3. LinkStage'
    BY <1>5, <2>1 DEF DestroyEndpoint, Sockets!Destroy, Shape, LinkStage
  <2> QED
    BY <2>1, <2>2, <2>3
<1>6. CASE Listen
  BY <1>6 DEF Listen, socketVars, Shape, EndpointStage, LinkStage, Endpoint
<1>7. CASE ListenFails
  <2>0. Server \in Endpoint
    BY DEF Endpoint
  <2>1. Shape'
    BY <1>7, <2>0 DEF ListenFails, Sockets!Destroy, Shape
  <2>2. EndpointStage'
    BY <1>7, <2>0, <2>1 DEF ListenFails, Sockets!Destroy, Shape, EndpointStage
  <2>3. LinkStage'
    BY <1>7, <2>0, <2>1 DEF ListenFails, Sockets!Destroy, Shape, LinkStage
  <2> QED
    BY <2>1, <2>2, <2>3
<1>8. ASSUME NEW x \in Place, waitForConnection(x) PROVE Stages'
  <2>0. LinkAt(x) \in Link
    OBVIOUS
  <2>1. Shape' /\ given'[LinkAt(x)] = opened + 1
    BY <1>8, <2>0 DEF waitForConnection, Sockets!Construct, Shape
  <2>2. EndpointStage'
    BY <1>8, <2>0, <2>1 DEF waitForConnection, Sockets!Construct, Shape, EndpointStage
  <2>3. LinkStage'
    BY <1>8, <2>0, <2>1 DEF waitForConnection, Sockets!Construct, Shape, LinkStage
  <2> QED
    BY <2>1, <2>2, <2>3
<1>9. ASSUME NEW c \in Client, connect(c) PROVE Stages'
  <2>0. /\ LinkAt(c) \in Link /\ LinkAt(c) \in Socket
        /\ c \in Endpoint /\ Member(c) \in Socket /\ LinkAt(c) # Member(c)
    BY DEF Endpoint
  <2>a. /\ given' = [given EXCEPT ![LinkAt(c)] = given[Member(c)], ![Member(c)] = 0]
        /\ m_socketFd' = [m_socketFd EXCEPT ![LinkAt(c)] = m_socketFd[Member(c)],
                                            ![Member(c)] = -1]
    BY <1>9 DEF connect, Sockets!MoveConstruct
  <2>b. given'[LinkAt(c)] = given[Member(c)] /\ m_socketFd'[Member(c)] = -1
    BY <2>0, <2>a DEF Shape
  <2>c. given' \in [Socket -> Nat] /\ m_socketFd' \in [Socket -> Int]
    BY <2>0, <2>a DEF Shape
  <2>d. opened' = opened /\ handles' = [handles EXCEPT ![LinkAt(c)] = 1]
    BY <1>9 DEF connect, Sockets!MoveConstruct
  <2>e. pc' = [pc EXCEPT ![c] = "linked"]
    BY <1>9 DEF connect
  <2>1. Shape' /\ given'[LinkAt(c)] = given[Member(c)] /\ m_socketFd'[Member(c)] = -1
    BY <2>0, <2>b, <2>c, <2>d, <2>e DEF Shape
  <2>2. EndpointStage'
    BY SMTT(30), <1>9, <2>0, <2>1 DEF connect, Sockets!MoveConstruct, Shape, EndpointStage
  <2>3. LinkStage'
    BY SMTT(30), <1>9, <2>0, <2>1 DEF connect, Sockets!MoveConstruct, Shape, EndpointStage, LinkStage
  <2> QED
    BY <2>1, <2>2, <2>3
<1>10. ASSUME NEW l \in Link, CopyLink(l) PROVE Stages'
  BY <1>10 DEF CopyLink, socketVars, Shape, EndpointStage, LinkStage
<1>11. ASSUME NEW l \in Link, DropLink(l) PROVE Stages'
  <2>1. CASE handles[l] = 1
    <3>1. Shape'
      BY <1>11, <2>1 DEF DropLink, Sockets!Destroy, Shape
    <3>2. EndpointStage'
      BY <1>11, <2>1, <3>1 DEF DropLink, Sockets!Destroy, Shape, EndpointStage
    <3>3. LinkStage'
      BY <1>11, <2>1, <3>1 DEF DropLink, Sockets!Destroy, Shape, LinkStage
    <3> QED
      BY <3>1, <3>2, <3>3
  <2>2. CASE handles[l] # 1
    BY <1>11, <2>2 DEF DropLink, socketVars, Shape, EndpointStage, LinkStage
  <2> QED
    BY <2>1, <2>2
<1>12. CASE \/ UNCHANGED vars
           \/ waitForConnectionFails
           \/ \E c \in Client : connectInterrupted(c) \/ connectFails(c)
  BY <1>12 DEF vars, waitForConnectionFails, connectInterrupted, connectFails, socketVars,
               Shape, EndpointStage, LinkStage
<1> QED
  BY <1>1, <1>2, <1>3, <1>4, <1>5, <1>6, <1>7, <1>8, <1>9, <1>10, <1>11, <1>12 DEF Next

\* A client whose connect failed still has its socket, and one whose connect
\* succeeded has none left to connect again.
THEOREM RetryKeepsSocket == Spec => []SocketForRetry
<1>1. Stages => SocketForRetry
  BY DEF Stages, EndpointStage, SocketForRetry, Endpoint, Sockets!Free
<1> QED
  BY <1>1, InitStages, StepStages, PTL DEF Spec

-----------------------------------------------------------------------------
(* Type correctness *)

\* BaseSocket's operations keep the types of its variables.
LEMMA SocketTypes ==
  Sockets!TypeOK /\ [Sockets!Next]_Sockets!vars => Sockets!TypeOK'
<1> SUFFICES ASSUME Sockets!TypeOK, [Sockets!Next]_Sockets!vars PROVE Sockets!TypeOK'
  OBVIOUS
<1> USE TableAssumption DEF Sockets!TypeOK, Sockets!NoFd, Sockets!Free, Sockets!Foreign
<1>1. ASSUME NEW s \in Socket, Sockets!DefaultConstruct(s) PROVE Sockets!TypeOK'
  BY <1>1 DEF Sockets!DefaultConstruct
<1>2. ASSUME NEW s \in Socket, Sockets!Construct(s) PROVE Sockets!TypeOK'
  BY <1>2 DEF Sockets!Construct
<1>3. ASSUME NEW s \in Socket, Sockets!Destroy(s) PROVE Sockets!TypeOK'
  BY <1>3 DEF Sockets!Destroy
<1>4. ASSUME NEW s \in Socket, NEW rhs \in Socket,
             Sockets!MoveConstruct(s, rhs) \/ Sockets!MoveAssign(s, rhs)
      PROVE  Sockets!TypeOK'
  BY <1>4 DEF Sockets!MoveConstruct, Sockets!MoveAssign
<1>5. CASE UNCHANGED Sockets!vars
  BY <1>5 DEF Sockets!vars
<1> QED
  BY <1>1, <1>2, <1>3, <1>4, <1>5 DEF Sockets!Next

\* What the kernel's queue holds after accept and after connect.
LEMMA QueueFacts ==
  ASSUME NEW S, NEW q \in Seq(S)
  PROVE  /\ Len(q) \in Nat
         /\ q # <<>> => /\ Head(q) \in S /\ Tail(q) \in Seq(S)
                        /\ Len(q) > 0 /\ Len(Tail(q)) = Len(q) - 1 /\ Head(q) = q[1]
                        /\ \A i \in 1..(Len(q) - 1) : Tail(q)[i] = q[i + 1]
         /\ \A x \in S : /\ Append(q, x) \in Seq(S) /\ Len(Append(q, x)) = Len(q) + 1
                         /\ \A i \in 1..Len(q) : Append(q, x)[i] = q[i]
                         /\ Append(q, x)[Len(q) + 1] = x
<1>1. Len(q) \in Nat
  OBVIOUS
<1>2. ASSUME q # <<>>
      PROVE  /\ Head(q) \in S /\ Tail(q) \in Seq(S)
             /\ Len(q) > 0 /\ Len(Tail(q)) = Len(q) - 1 /\ Head(q) = q[1]
             /\ \A i \in 1..(Len(q) - 1) : Tail(q)[i] = q[i + 1]
  BY <1>2, HeadTailProperties, EmptySeq
<1>3. ASSUME NEW x \in S
      PROVE  /\ Append(q, x) \in Seq(S) /\ Len(Append(q, x)) = Len(q) + 1
             /\ \A i \in 1..Len(q) : Append(q, x)[i] = q[i]
             /\ Append(q, x)[Len(q) + 1] = x
  BY <1>3, AppendProperties
<1> QED
  BY <1>1, <1>2, <1>3

\* The types hold before anything is made.
LEMMA InitTypes == Init => TypeOK
<1> SUFFICES ASSUME Init PROVE TypeOK
  OBVIOUS
<1>1. Sockets!TypeOK
  BY TableAssumption
  DEF Init, Sockets!Init, Sockets!TypeOK, Sockets!NoFd, Sockets!Free, Sockets!Foreign
<1>2. backlog \in Seq(1..MaxFile) /\ Len(backlog) <= Backlog
  BY EndpointAssumption, EmptySeq DEF Init
<1> QED
  BY <1>1, <1>2, TableAssumption, EndpointAssumption DEF Init, TypeOK

\* Every step keeps the types.
LEMMA StepTypes == TypeOK /\ Stages /\ [Next]_vars => TypeOK'
<1> SUFFICES ASSUME TypeOK, Stages, [Next]_vars PROVE TypeOK'
  OBVIOUS
<1>1. Sockets!TypeOK'
  BY SocketTypes, StepUsesSockets DEF TypeOK
<1> USE <1>1, Storage, TableAssumption, EndpointAssumption DEF TypeOK, Goes, netVars
<1>2. ASSUME NEW e \in Endpoint, Open(e) \/ GiveUp(e) \/ Own(e) \/ DropTemp(e)
      PROVE  TypeOK'
  BY <1>2 DEF Open, GiveUp, Own, DropTemp
<1>3. ASSUME NEW e \in Endpoint, DestroyEndpoint(e) PROVE TypeOK'
  <2>1. Waiting \subseteq 1..MaxFile
    BY DEF Waiting
  <2>2. <<>> \in Seq(1..MaxFile) /\ Len(<<>>) = 0
    BY EmptySeq
  <2>3. UNCHANGED <<handles, peer>> /\ pc' = [pc EXCEPT ![e] = "none"]
    BY <1>3 DEF DestroyEndpoint
  <2>4. \/ backlog' = <<>> /\ dead' = dead \cup Waiting
        \/ UNCHANGED <<backlog, dead>>
    BY <1>3 DEF DestroyEndpoint
  <2>5. backlog' \in Seq(1..MaxFile) /\ Len(backlog') <= Backlog /\ dead' \subseteq 1..MaxFile
    <3>1. CASE backlog' = <<>> /\ dead' = dead \cup Waiting
      BY <2>1, <2>2, <3>1
    <3>2. CASE UNCHANGED <<backlog, dead>>
      BY <3>2
    <3> QED
      BY <2>4, <3>1, <3>2
  <2> QED
    BY <2>3, <2>5
<1>4. CASE Listen \/ ListenFails
  BY <1>4 DEF Listen, ListenFails, Endpoint
<1>5. ASSUME NEW x \in Place, waitForConnection(x) PROVE TypeOK'
  <2>1. /\ backlog # <<>> /\ opened < MaxFile /\ LinkAt(x) \in Link
        /\ handles' = [handles EXCEPT ![LinkAt(x)] = 1]
        /\ peer' = [peer EXCEPT ![Head(backlog)] = opened + 1, ![opened + 1] = Head(backlog)]
        /\ backlog' = Tail(backlog) /\ UNCHANGED <<pc, dead>>
    BY <1>5 DEF waitForConnection, Sockets!Construct, Connects
  <2>2. /\ backlog' \in Seq(1..MaxFile) /\ Len(backlog') <= Backlog
        /\ Head(backlog) \in 1..MaxFile
    BY <2>1, QueueFacts
  <2>3. opened + 1 \in 1..MaxFile
    BY <2>1 DEF Sockets!TypeOK
  <2>4. peer' \in [1..MaxFile -> 0..MaxFile]
    <3>1. peer' = [[peer EXCEPT ![Head(backlog)] = opened + 1] EXCEPT ![opened + 1] = Head(backlog)]
      BY <2>1
    <3>2. [peer EXCEPT ![Head(backlog)] = opened + 1] \in [1..MaxFile -> 0..MaxFile]
      BY <2>2, <2>3
    <3>3. ASSUME NEW h \in [1..MaxFile -> 0..MaxFile], NEW i, NEW v \in 0..MaxFile
          PROVE  [h EXCEPT ![i] = v] \in [1..MaxFile -> 0..MaxFile]
      OBVIOUS
    <3>4. Head(backlog) \in 0..MaxFile
      BY <2>2
    <3> QED
      BY <3>1, <3>2, <3>3, <3>4
  <2>5. handles' \in [Link -> 0..MaxHandle]
    BY <2>1
  <2>6. pc' = pc /\ dead' = dead
    BY <2>1
  <2> HIDE DEF LinkAt
  <2> QED
    BY <2>2, <2>4, <2>5, <2>6
<1>6. ASSUME NEW c \in Client, connect(c) \/ connectInterrupted(c) PROVE TypeOK'
  <2>1. c \in Endpoint /\ LinkAt(c) \in Link
    BY DEF Endpoint
  <2>2. given[Member(c)] \in 1..MaxFile
    BY <1>6, <2>1 DEF connect, connectInterrupted, Stages, EndpointStage, Sockets!TypeOK
  <2>3. backlog' \in Seq(1..MaxFile) /\ Len(backlog') <= Backlog
    <3>1. CASE Queues(c)
      BY <2>2, <3>1, QueueFacts DEF Queues
    <3>2. CASE UNCHANGED backlog
      BY <3>2
    <3> QED
      BY <1>6, <3>1, <3>2 DEF connect, connectInterrupted
  <2>4. CASE connect(c)
    BY <2>1, <2>3, <2>4 DEF connect
  <2>5. CASE connectInterrupted(c)
    BY <2>1, <2>3, <2>5 DEF connectInterrupted
  <2> QED
    BY <1>6, <2>4, <2>5
<1>7. ASSUME NEW l \in Link, CopyLink(l) \/ DropLink(l) PROVE TypeOK'
  <2>1. handles[l] \in 0..MaxHandle /\ MaxHandle \in Nat
    OBVIOUS
  <2>2. \E n \in 0..MaxHandle : handles' = [handles EXCEPT ![l] = n]
    <3>1. CASE CopyLink(l)
      <4>1. handles[l] + 1 \in 0..MaxHandle
        BY <2>1, <3>1 DEF CopyLink
      <4> QED
        BY <3>1, <4>1 DEF CopyLink
    <3>2. CASE DropLink(l)
      <4>1. handles[l] - 1 \in 0..MaxHandle
        BY <2>1, <3>2 DEF DropLink
      <4> QED
        BY <3>2, <4>1 DEF DropLink
    <3> QED
      BY <1>7, <3>1, <3>2
  <2>3. UNCHANGED <<pc, netVars>>
    BY <1>7 DEF CopyLink, DropLink
  <2> QED
    BY <2>2, <2>3
<1>8. CASE \/ UNCHANGED vars
           \/ waitForConnectionFails
           \/ \E c \in Client : connectFails(c)
  BY <1>8 DEF vars, waitForConnectionFails, connectFails, socketVars
<1> QED
  BY <1>2, <1>3, <1>4, <1>5, <1>6, <1>7, <1>8 DEF Next

\* The types of endpoints, links, the descriptor table and the connections.
THEOREM TypeCorrect == Spec => []TypeOK
<1>1. Init => TypeOK /\ Stages
  BY InitTypes, InitStages
<1>2. (TypeOK /\ Stages) /\ [Next]_vars => (TypeOK /\ Stages)'
  BY StepTypes, StepStages
<1> QED
  BY <1>1, <1>2, PTL DEF Spec

-----------------------------------------------------------------------------
(* What the sockets hold, as BaseSocketProofs shows it, and which files *)

Fresh   == \A s \in Socket : given[s] <= opened
OneFile == \A s, t \in Socket : given[s] = given[t] /\ given[s] # Sockets!Free => s = t

SocketInv == Sockets!TypeOK /\ Sockets!HoldsItsFile /\ Fresh /\ OneFile

\* Initially there are no sockets.
LEMMA InitSocketInv == Init => SocketInv
  BY InitTypes, TableAssumption
  DEF Init, Sockets!Init, SocketInv, TypeOK, Sockets!TypeOK, Sockets!HoldsItsFile, Fresh,
      OneFile, Sockets!Free, Sockets!NoFd

\* Every operation of BaseSocket keeps a file with the object it was made for.
LEMMA StepSocketInv == SocketInv /\ [Sockets!Next]_Sockets!vars => SocketInv'
<1> SUFFICES ASSUME SocketInv, [Sockets!Next]_Sockets!vars PROVE SocketInv'
  OBVIOUS
<1>0. Sockets!TypeOK'
  BY SocketTypes DEF SocketInv
<1> USE <1>0, TableAssumption DEF SocketInv, Sockets!NoFd, Sockets!Free, Sockets!Foreign
<1>1. ASSUME NEW s \in Socket, Sockets!DefaultConstruct(s) PROVE SocketInv'
  BY <1>1 DEF Sockets!DefaultConstruct, Sockets!TypeOK, Sockets!HoldsItsFile, Fresh, OneFile
<1>2. ASSUME NEW s \in Socket, Sockets!Construct(s) PROVE SocketInv'
  <2>1. Fresh' /\ OneFile'
    BY <1>2 DEF Sockets!Construct, Sockets!TypeOK, Fresh, OneFile
  <2>2. Sockets!HoldsItsFile'
    BY <1>2 DEF Sockets!Construct, Sockets!LowestFree, Sockets!TypeOK, Sockets!HoldsItsFile
  <2> QED
    BY <2>1, <2>2
<1>3. ASSUME NEW s \in Socket, Sockets!Destroy(s) PROVE SocketInv'
  <2>1. Fresh' /\ OneFile'
    BY <1>3 DEF Sockets!Destroy, Sockets!TypeOK, Fresh, OneFile
  <2>2. ASSUME NEW t \in live', m_socketFd[t] # -1, m_socketFd[s] # -1
        PROVE  m_socketFd[t] # m_socketFd[s]
    BY <1>3, <2>2 DEF Sockets!Destroy, Sockets!TypeOK, Sockets!HoldsItsFile, OneFile
  <2>3. Sockets!HoldsItsFile'
    <3>1. CASE Sockets!isValid(s)
      <4> SUFFICES ASSUME NEW t \in live'
                   PROVE  IF m_socketFd'[t] = -1 THEN given'[t] = 0
                          ELSE given'[t] # 0 /\ file'[m_socketFd'[t]] = given'[t]
        BY DEF Sockets!HoldsItsFile
      <4>1. t \in live /\ t \in Socket /\ t # s /\ given'[t] = given[t] /\ m_socketFd'[t] = m_socketFd[t]
        BY <1>3, <3>1 DEF Sockets!Destroy, Sockets!TypeOK
      <4>2. m_socketFd[s] # -1 /\ file' = [file EXCEPT ![m_socketFd[s]] = 0]
        BY <1>3, <3>1 DEF Sockets!Destroy, Sockets!isValid
      <4> QED
        BY <2>2, <4>1, <4>2 DEF Sockets!TypeOK, Sockets!HoldsItsFile
    <3>2. CASE ~Sockets!isValid(s)
      BY <1>3, <3>2 DEF Sockets!Destroy, Sockets!TypeOK, Sockets!HoldsItsFile
    <3> QED
      BY <3>1, <3>2
  <2> QED
    BY <2>1, <2>3
<1>4. ASSUME NEW s \in Socket, NEW rhs \in Socket, Sockets!MoveConstruct(s, rhs)
      PROVE  SocketInv'
  BY <1>4 DEF Sockets!MoveConstruct, Sockets!TypeOK, Sockets!HoldsItsFile, Fresh, OneFile
<1>5. ASSUME NEW s \in Socket, NEW rhs \in Socket, Sockets!MoveAssign(s, rhs)
      PROVE  SocketInv'
  BY <1>5 DEF Sockets!MoveAssign, Sockets!TypeOK, Sockets!HoldsItsFile, Fresh, OneFile
<1>6. CASE UNCHANGED Sockets!vars
  BY <1>6 DEF Sockets!vars, Sockets!HoldsItsFile, Fresh, OneFile
<1> QED
  BY <1>1, <1>2, <1>3, <1>4, <1>5, <1>6 DEF Sockets!Next

\* A link some copy of which exists has the socket it was made with, and no
\* copy more or less changes that.
THEOREM LinksAreUsable == Spec => []LinkUsable
<1> DEFINE Inv == Stages /\ SocketInv
<1>1. Init => Inv
  BY InitStages, InitSocketInv
<1>2. Inv /\ [Next]_vars => Inv'
  BY StepStages, StepUsesSockets, StepSocketInv
<1>3. Inv => LinkUsable
  BY Storage
  DEF Stages, Shape, LinkStage, SocketInv, Sockets!HoldsItsFile, LinkUsable, Sockets!Free
<1> QED
  BY <1>1, <1>2, <1>3, PTL DEF Spec

-----------------------------------------------------------------------------
(***************************************************************************)
(* Connections.  The kernel knows files, not numbers: the ends of          *)
(* connections are files (Ends); a file becomes one once a client has it   *)
(* and not before (NotYet), and is one when the client is told so (Told);  *)
(* it is queued once (QueuedOnce), a client's end has only one place       *)
(* (OnePlace), and only links of the server have the other end (Others).   *)
(***************************************************************************)
End == {f \in 1..MaxFile : f \in Waiting \/ f \in dead \/ peer[f] # 0}

Ends == \A f \in End : f <= opened

OnePlace ==
    \A f \in 1..MaxFile :
        /\ f \in Waiting => f \notin dead /\ peer[f] = 0
        /\ f \in dead => peer[f] = 0
        /\ peer[f] # 0 => peer[peer[f]] = f

QueuedOnce == \A i, j \in 1..Len(backlog) : backlog[i] = backlog[j] => i = j

\* No client has it: what the application or the server has is not connected.
NotYet ==
    \A e \in Endpoint : \A s \in {Temp(e), Member(e)} :
        given[s] # Sockets!Free /\ (s = Temp(e) \/ e = Server) => given[s] \notin End

\* A client's link is an end.
Told == \A c \in Client : given[LinkAt(c)] # Sockets!Free => given[LinkAt(c)] \in End

\* Only links of the server have the other end of what a client or its link has.
Others ==
    \A c \in Client : \A s \in {Member(c), LinkAt(c)} : given[s] # Sockets!Free =>
        \A t \in Socket : given[t] # Sockets!Free /\ given[t] = peer[given[s]]
            => t \in {LinkAt(x) : x \in Place}

Connections == Ends /\ OnePlace /\ QueuedOnce /\ NotYet /\ Told /\ Others

ConnInv == TypeOK /\ Stages /\ SocketInv /\ Connections

\* Initially nothing is connected.
LEMMA InitConnections == Init => Connections
<1> SUFFICES ASSUME Init PROVE Connections
  OBVIOUS
<1>1. /\ Waiting = {} /\ Len(backlog) = 0 /\ dead = {} /\ \A f \in 1..MaxFile : peer[f] = 0
      /\ \A s \in Socket : given[s] = Sockets!Free
  BY EmptySeq DEF Init, Sockets!Init, Waiting
<1> QED
  BY <1>1, Storage
  DEF Connections, Ends, End, OnePlace, QueuedOnce, NotYet, Told, Others

\* While the same files are connected in the same way, objects that come with a
\* new file, go or hand a file from an argument to its member keep what is known.
LEMMA KeptNetwork ==
  ASSUME ConnInv, UNCHANGED peer, OnePlace', QueuedOnce',
         End' = End, given' \in [Socket -> 0..MaxFile],
         opened' >= opened, opened' \in Nat,
         \A s \in Socket :
           \/ given'[s] \in {given[s], Sockets!Free, opened + 1}
           \/ \E e \in Endpoint : s = Member(e) /\ given'[s] = given[Temp(e)],
         \A l \in Link : given'[l] \in {given[l], Sockets!Free}
  PROVE  Connections'
<1>2. \A f \in End : f <= opened
  BY DEF ConnInv, Connections, Ends
<1>3. /\ opened \in Nat /\ given \in [Socket -> 0..MaxFile]
      /\ peer \in [1..MaxFile -> 0..MaxFile]
  BY DEF ConnInv, TypeOK, Sockets!TypeOK
<1>4. Ends'
  <2>1. \A f \in End : f \in Nat
    BY TableAssumption DEF End
  <2> QED
    BY <1>2, <1>3, <2>1 DEF Ends
<1>5. NotYet'
  <2> SUFFICES ASSUME NEW e \in Endpoint, NEW s \in {Temp(e), Member(e)}, given'[s] # 0,
                      s = Temp(e) \/ e = Server
               PROVE  given'[s] \notin End
    BY DEF NotYet, Sockets!Free
  <2>1. CASE given'[s] = opened + 1
    BY <1>2, <1>3, <2>1
  <2>2. CASE given'[s] = given[s]
    BY <2>2 DEF ConnInv, Connections, NotYet, Sockets!Free
  <2>3. CASE \E d \in Endpoint : s = Member(d) /\ given'[s] = given[Temp(d)]
    BY <2>3 DEF ConnInv, Connections, NotYet, Sockets!Free
  <2> QED
    BY <2>1, <2>2, <2>3, Storage DEF Sockets!Free
<1>6. Told'
  BY Storage DEF ConnInv, Connections, Told, Sockets!Free
<1>7. Others'
  <2> SUFFICES ASSUME NEW c \in Client, NEW s \in {Member(c), LinkAt(c)}, given'[s] # 0,
                      NEW t \in Socket, given'[t] # 0, given'[t] = peer[given'[s]]
               PROVE  t \in {LinkAt(x) : x \in Place}
    BY DEF Others, Sockets!Free
  <2> DEFINE g == given'[s]
             h == given'[t]
  <2>1. s \in Socket /\ g \in 1..MaxFile
    BY Storage DEF Endpoint
  <2> HIDE DEF g, h
  <2>2. h \in 1..MaxFile /\ h = peer[g] /\ peer[h] = g /\ g \in End /\ h \in End
    <3>1. h \in 1..MaxFile /\ h = peer[g] /\ h # 0
      BY <1>3, <2>1 DEF g, h
    <3>2. peer[h] = g /\ g # 0
      BY <2>1, <3>1 DEF ConnInv, Connections, OnePlace
    <3> QED
      BY <2>1, <3>1, <3>2 DEF End
  <2>3. g # opened + 1 /\ h # opened + 1
    BY <1>2, <1>3, <2>1, <2>2
  <2>4. \A e \in Endpoint : given[Temp(e)] # g /\ given[Temp(e)] # h
    BY <2>1, <2>2 DEF ConnInv, Connections, NotYet, Sockets!Free
  <2>5. given[s] = g
    BY <2>1, <2>3, <2>4 DEF g, Sockets!Free
  <2>6. given[t] = h
    BY <2>2, <2>3, <2>4 DEF h, Sockets!Free
  <2> QED
    BY <2>1, <2>2, <2>5, <2>6 DEF ConnInv, Connections, Others, Sockets!Free
<1> QED
  BY <1>4, <1>5, <1>6, <1>7 DEF Connections

\* Steps that are not the kernel's leave the connections as they are.
LEMMA SameNetwork ==
  ASSUME ConnInv, UNCHANGED netVars
  PROVE  UNCHANGED peer /\ OnePlace' /\ QueuedOnce' /\ End' = End
  BY DEF netVars, ConnInv, Connections, OnePlace, QueuedOnce, End, Waiting

\* A destroyed object leaves the files of the others as they are.
LEMMA DestroyKeeps ==
  ASSUME ConnInv, NEW s \in Socket, Sockets!Destroy(s)
  PROVE  /\ opened' >= opened /\ opened' \in Nat
         /\ given' \in [Socket -> 0..MaxFile]
         /\ \A t \in Socket : given'[t] \in {given[t], Sockets!Free}
  BY TableAssumption DEF Sockets!Destroy, ConnInv, TypeOK, Sockets!TypeOK, Sockets!Free

\* The server's descriptor is closed: the kernel resets what nobody accepted.
LEMMA ResetKeeps ==
  ASSUME ConnInv, DestroyEndpoint(Server)
  PROVE  UNCHANGED peer /\ OnePlace' /\ QueuedOnce' /\ End' = End
<1>1. UNCHANGED peer /\ backlog' = <<>> /\ dead' = dead \cup Waiting /\ Waiting' = {}
  BY EmptySeq DEF DestroyEndpoint, Waiting
<1>2. Len(backlog') = 0
  BY <1>1, EmptySeq
<1> QED
  BY <1>1, <1>2 DEF ConnInv, Connections, OnePlace, QueuedOnce, End

\* The kernel queues a connection: the client's file becomes an end, is queued
\* last, and was queued nowhere before.
LEMMA QueueKeeps ==
  ASSUME ConnInv, NEW c \in Client, pc[c] = "owned", Queues(c), UNCHANGED <<peer, dead>>
  PROVE  OnePlace' /\ QueuedOnce' /\ End' = End \cup {given[Member(c)]}
<1> DEFINE f == given[Member(c)]
<1>1. c \in Endpoint /\ Member(c) \in Socket
  BY Storage DEF Endpoint
<1>2. f \in 1..MaxFile /\ ~Connected(f) /\ backlog' = Append(backlog, f)
  BY <1>1 DEF Queues, ConnInv, Stages, EndpointStage, TypeOK, Sockets!TypeOK
<1> HIDE DEF f
<1>3. f \notin Waiting /\ f \notin dead /\ peer[f] = 0
  BY <1>2 DEF Connected, Sockets!Free
<1>4. /\ backlog \in Seq(1..MaxFile) /\ Len(backlog) \in Nat
      /\ Len(backlog') = Len(backlog) + 1
      /\ \A i \in 1..Len(backlog) : backlog'[i] = backlog[i] /\ backlog[i] \in 1..MaxFile
      /\ backlog'[Len(backlog) + 1] = f
  <2>1. backlog \in Seq(1..MaxFile)
    BY DEF ConnInv, TypeOK
  <2>2. \A i \in 1..Len(backlog) : backlog[i] \in 1..MaxFile
    BY <2>1, ElementOfSeq
  <2> QED
    BY <1>2, <2>1, <2>2, QueueFacts
<1>5. Waiting' = Waiting \cup {f}
  BY <1>4 DEF Waiting
<1>6. End' = End \cup {f}
  BY <1>2, <1>3, <1>5 DEF End
<1>7. OnePlace'
  BY <1>2, <1>3, <1>5 DEF ConnInv, Connections, OnePlace
<1>8. QueuedOnce'
  <2>1. \A i \in 1..Len(backlog) : backlog[i] # f
    BY <1>3 DEF Waiting
  <2> QED
    BY <1>4, <2>1 DEF ConnInv, Connections, QueuedOnce
<1> QED
  BY <1>6, <1>7, <1>8 DEF f

\* The file of a client's member is an end, and the client keeps it or hands it to
\* its link: nobody else has it or the other end.
LEMMA ClientKeeps ==
  ASSUME ConnInv, NEW c \in Client, pc[c] = "owned", UNCHANGED <<peer, opened>>,
         OnePlace', QueuedOnce', End' = End \cup {given[Member(c)]},
         \/ given' = given
         \/ given' = [given EXCEPT ![LinkAt(c)] = given[Member(c)], ![Member(c)] = 0]
  PROVE  Connections'
<1> DEFINE f == given[Member(c)]
<1>1. /\ c \in Endpoint /\ Member(c) \in Socket /\ LinkAt(c) \in Socket
      /\ Member(c) # LinkAt(c)
  BY Storage, Distinct DEF Endpoint
<1>2. /\ given \in [Socket -> 0..MaxFile]
      /\ \A s, t \in Socket : given[s] = given[t] /\ given[s] # 0 => s = t
      /\ f # 0 /\ f <= opened
  BY <1>1 DEF ConnInv, TypeOK, Sockets!TypeOK, SocketInv, OneFile, Fresh, Stages,
              EndpointStage, Sockets!Free
<1>3. \A s \in Socket \ {LinkAt(c), Member(c)} : given'[s] = given[s]
  BY <1>1, <1>2
<1>4. \/ given' = given
      \/ given'[LinkAt(c)] = f /\ given'[Member(c)] = 0
  BY <1>1, <1>2
<1> HIDE DEF f
<1>5. End' = End \cup {f}
  BY DEF f
<1>6. Ends'
  BY <1>2, <1>5 DEF ConnInv, Connections, Ends
<1>7. NotYet'
  <2> SUFFICES ASSUME NEW e \in Endpoint, NEW s \in {Temp(e), Member(e)}, given'[s] # 0,
                      s = Temp(e) \/ e = Server
               PROVE  given'[s] \notin End'
    BY DEF NotYet, Sockets!Free
  <2>1. s \in Socket \ {LinkAt(c), Member(c)}
    BY <1>1, Storage, Distinct, EndpointAssumption
  <2>2. given'[s] = given[s] /\ given[s] # f
    BY <1>1, <1>2, <1>3, <2>1 DEF f
  <2> QED
    BY <1>5, <2>2 DEF ConnInv, Connections, NotYet, Sockets!Free
<1>8. Told'
  <2> SUFFICES ASSUME NEW d \in Client, given'[LinkAt(d)] # 0
               PROVE  given'[LinkAt(d)] \in End'
    BY DEF Told, Sockets!Free
  <2>1. given'[LinkAt(d)] \in {given[LinkAt(d)], f}
    <3>1. CASE d = c
      BY <1>4, <3>1
    <3>2. CASE d # c
      <4>1. LinkAt(d) \in Socket \ {LinkAt(c), Member(c)}
        BY <1>1, <3>2, Storage, Distinct DEF LinkAt
      <4> QED
        BY <1>3, <4>1
    <3> QED
      BY <3>1, <3>2
  <2> QED
    BY <1>5, <2>1 DEF ConnInv, Connections, Told, Sockets!Free
<1>9. Others'
  <2> SUFFICES ASSUME NEW d \in Client, NEW s \in {Member(d), LinkAt(d)}, given'[s] # 0,
                      NEW t \in Socket, given'[t] # 0, given'[t] = peer[given'[s]]
               PROVE  t \in {LinkAt(x) : x \in Place}
    BY DEF Others, Sockets!Free
  <2>0. d \in Endpoint /\ s \in Socket /\ LinkAt(d) \in Socket
    BY Storage DEF Endpoint
  <2>1. PICK s0 \in {Member(d), LinkAt(d)} : given[s0] = given'[s]
    <3>1. CASE s \in {LinkAt(c), Member(c)} /\ given' # given
      <4>1. s = LinkAt(c) /\ given'[s] = f
        BY <1>4, <3>1
      <4>2. d = c
        BY <1>1, <2>0, <4>1, Distinct, Storage DEF LinkAt
      <4> QED
        BY <4>1, <4>2 DEF f
    <3>2. CASE s \notin {LinkAt(c), Member(c)} \/ given' = given
      BY <1>3, <2>0, <3>2
    <3> QED
      BY <3>1, <3>2
  <2>2. PICK t0 \in Socket : given[t0] = given'[t] /\ (t0 = t \/ t0 = Member(c))
    <3>1. CASE t \in {LinkAt(c), Member(c)} /\ given' # given
      BY <1>1, <1>4, <3>1 DEF f
    <3>2. CASE t \notin {LinkAt(c), Member(c)} \/ given' = given
      BY <1>3, <3>2
    <3> QED
      BY <3>1, <3>2
  <2>3. t0 \in {LinkAt(x) : x \in Place}
    BY <2>1, <2>2 DEF ConnInv, Connections, Others, Sockets!Free
  <2>4. Member(c) \notin {LinkAt(x) : x \in Place}
    BY <1>1, Storage, Distinct
  <2> QED
    BY <2>2, <2>3, <2>4
<1> QED
  BY <1>6, <1>7, <1>8, <1>9 DEF Connections

\* A connect succeeds, for a connection that is queued now or was before.
LEMMA ConnectKeeps ==
  ASSUME ConnInv, NEW c \in Client, connect(c)
  PROVE  Connections'
<1>1. /\ pc[c] = "owned" /\ UNCHANGED <<peer, dead, opened>>
      /\ given' = [given EXCEPT ![LinkAt(c)] = given[Member(c)], ![Member(c)] = 0]
  BY DEF connect, Sockets!MoveConstruct, Sockets!Free
<1>2. CASE Queues(c)
  BY <1>1, <1>2, QueueKeeps, ClientKeeps
<1>3. CASE Connected(given[Member(c)]) /\ UNCHANGED backlog
  <2>1. OnePlace' /\ QueuedOnce' /\ End' = End
    BY <1>1, <1>3 DEF ConnInv, Connections, OnePlace, QueuedOnce, End, Waiting
  <2>2. Member(c) \in Socket
    BY Storage DEF Endpoint
  <2>3. given[Member(c)] \in End
    BY <1>3, <2>2 DEF Connected, End, ConnInv, TypeOK, Sockets!TypeOK, Sockets!Free
  <2> QED
    BY <1>1, <2>1, <2>3, ClientKeeps
<1> QED
  BY <1>2, <1>3 DEF connect

\* A connect is interrupted after the kernel has queued its connection, which
\* stays the client's.
LEMMA InterruptedKeeps ==
  ASSUME ConnInv, NEW c \in Client, connectInterrupted(c)
  PROVE  Connections'
<1>1. /\ pc[c] = "owned" /\ Queues(c) /\ UNCHANGED <<peer, dead, opened>>
      /\ given' = given
  BY DEF connectInterrupted, socketVars
<1> QED
  BY <1>1, QueueKeeps, ClientKeeps

\* A client learns that the connection of an interrupted call was reset: its file
\* is no end any more.
LEMMA FailKeeps ==
  ASSUME ConnInv, NEW c \in Client, connectFails(c)
  PROVE  Connections'
<1> DEFINE f == given[Member(c)]
<1>1. /\ dead' \in {dead, dead \ {f}} /\ UNCHANGED <<backlog, peer, given, opened>>
      /\ c \in Endpoint /\ Member(c) \in Socket
  BY Storage DEF connectFails, socketVars, Endpoint
<1> HIDE DEF f
<1>2. Waiting' = Waiting
  BY <1>1 DEF Waiting
<1>3. Ends' /\ OnePlace' /\ QueuedOnce' /\ NotYet' /\ Others'
  <2>1. End' \subseteq End
    BY <1>1, <1>2 DEF End
  <2> QED
    BY <1>1, <1>2, <2>1
    DEF ConnInv, Connections, Ends, OnePlace, QueuedOnce, NotYet, Others
<1>4. Told'
  <2> SUFFICES ASSUME NEW d \in Client, given[LinkAt(d)] # 0
               PROVE  given[LinkAt(d)] \in End'
    BY <1>1 DEF Told, Sockets!Free
  <2>1. given[LinkAt(d)] \in End
    BY DEF ConnInv, Connections, Told, Sockets!Free
  <2>2. given[LinkAt(d)] # f
    <3>1. LinkAt(d) \in Socket /\ LinkAt(d) # Member(c)
      BY <1>1, Storage, Distinct
    <3> QED
      BY <1>1, <3>1 DEF f, ConnInv, SocketInv, OneFile, Sockets!Free
  <2> QED
    BY <1>1, <1>2, <2>1, <2>2 DEF End
<1> QED
  BY <1>3, <1>4 DEF Connections

\* The oldest connection is accepted: its end leaves the queue for good, and the
\* other one is a new file, which only the new link has.
LEMMA AcceptKeeps ==
  ASSUME ConnInv, NEW x \in Place, waitForConnection(x)
  PROVE  Connections'
<1> DEFINE f == Head(backlog)
           h == opened + 1
<1>1. /\ LinkAt(x) \in Socket /\ LinkAt(x) \in Link
      /\ given \in [Socket -> 0..MaxFile] /\ opened \in Nat
      /\ backlog \in Seq(1..MaxFile) /\ peer \in [1..MaxFile -> 0..MaxFile]
      /\ \A s \in Socket : given[s] <= opened
  BY Storage DEF ConnInv, TypeOK, Sockets!TypeOK, SocketInv, Fresh
<1>2. /\ backlog # <<>> /\ backlog' = Tail(backlog) /\ UNCHANGED dead
      /\ opened < MaxFile /\ opened' = h
      /\ peer' = [peer EXCEPT ![f] = h, ![h] = f]
      /\ given' = [given EXCEPT ![LinkAt(x)] = h]
  BY DEF waitForConnection, Sockets!Construct, Connects
<1> HIDE DEF f
<1>3. /\ Len(backlog) \in Nat /\ Len(backlog) > 0 /\ Len(backlog') = Len(backlog) - 1
      /\ f = backlog[1] /\ f \in 1..MaxFile
      /\ \A i \in 1..(Len(backlog) - 1) : backlog'[i] = backlog[i + 1]
  BY <1>1, <1>2, QueueFacts DEF f
<1>4. QueuedOnce' /\ f \notin Waiting' /\ Waiting = Waiting' \cup {f}
  <2>1. \A i, j \in 1..Len(backlog) : backlog[i] = backlog[j] => i = j
    BY DEF ConnInv, Connections, QueuedOnce
  <2>2. QueuedOnce'
    BY <1>3, <2>1 DEF QueuedOnce
  <2>3. f \notin Waiting'
    BY <1>3, <2>1 DEF Waiting
  <2>4. Waiting \subseteq Waiting' \cup {f}
    <3> SUFFICES ASSUME NEW i \in 1..Len(backlog), i # 1
                 PROVE  \E j \in 1..Len(backlog') : backlog[i] = backlog'[j]
      BY SMTT(30), <1>3 DEF Waiting
    <3>1. i - 1 \in 1..(Len(backlog) - 1) /\ backlog'[i - 1] = backlog[i]
      BY <1>3
    <3> QED
      BY <1>3, <3>1
  <2>5. Waiting' \cup {f} \subseteq Waiting
    <3>1. \A i \in 1..(Len(backlog) - 1) : i + 1 \in 1..Len(backlog)
      BY <1>3
    <3> QED
      BY <1>3, <3>1 DEF Waiting
  <2> QED
    BY <2>2, <2>3, <2>4, <2>5
<1>5. /\ \A k \in End : k <= opened
      /\ \A k \in 1..MaxFile : peer[k] # 0 => peer[peer[k]] = k
      /\ f \in End /\ f \notin dead /\ peer[f] = 0
  BY <1>3, <1>4 DEF ConnInv, Connections, Ends, OnePlace, End
<1>6. /\ h \in 1..MaxFile /\ h \notin End /\ h # f /\ f <= opened
      /\ h \notin Waiting /\ h \notin dead /\ peer[h] = 0
  <2>1. h \in 1..MaxFile /\ h \notin End /\ h # f /\ f <= opened
    BY <1>1, <1>2, <1>5, TableAssumption
  <2> QED
    BY <2>1 DEF End
<1>7. /\ peer'[f] = h /\ peer'[h] = f
      /\ \A k \in (1..MaxFile) \ {f, h} :
           peer'[k] = peer[k] /\ peer[k] # f /\ peer[k] # h
  <2>1. \A k \in (1..MaxFile) \ {f, h} : peer[k] # f /\ peer[k] # h
    BY <1>3, <1>5, <1>6
  <2> QED
    BY <1>1, <1>2, <1>3, <1>6, <2>1
<1>8. End' = End \cup {h}
  <2>1. \A k \in 1..MaxFile :
          (k \in Waiting' \/ k \in dead' \/ peer'[k] # 0)
             <=> (k \in Waiting \/ k \in dead \/ peer[k] # 0 \/ k = h)
    <3> SUFFICES ASSUME NEW k \in 1..MaxFile
                 PROVE  (k \in Waiting' \/ k \in dead' \/ peer'[k] # 0)
                          <=> (k \in Waiting \/ k \in dead \/ peer[k] # 0 \/ k = h)
      OBVIOUS
    <3>1. CASE k = f
      BY <1>1, <1>4, <1>7, <3>1
    <3>2. CASE k = h
      BY <1>3, <1>7, <3>2
    <3>3. CASE k \notin {f, h}
      BY <1>2, <1>4, <1>7, <3>3
    <3> QED
      BY <3>1, <3>2, <3>3
  <2> QED
    BY <1>6, <2>1 DEF End
<1>9. Ends'
  <2>1. \A k \in End : k \in Nat
    BY TableAssumption DEF End
  <2> QED
    BY <1>1, <1>2, <1>5, <1>8, <2>1 DEF Ends
<1>10. OnePlace'
  <2> SUFFICES ASSUME NEW k \in 1..MaxFile
               PROVE  /\ k \in Waiting' => k \notin dead' /\ peer'[k] = 0
                      /\ k \in dead' => peer'[k] = 0
                      /\ peer'[k] # 0 => peer'[peer'[k]] = k
    BY DEF OnePlace
  <2>1. CASE k \in {f, h}
    BY <1>2, <1>3, <1>4, <1>5, <1>6, <1>7, <2>1
  <2>2. CASE k \notin {f, h}
    <3>1. peer[k] # 0 => peer[k] \in (1..MaxFile) \ {f, h}
      BY <1>1, <1>7, <2>2
    <3> QED
      BY <1>2, <1>4, <1>5, <1>7, <2>2, <3>1 DEF ConnInv, Connections, OnePlace
  <2> QED
    BY <2>1, <2>2
<1>11. /\ given'[LinkAt(x)] = h
       /\ \A s \in Socket \ {LinkAt(x)} : given'[s] = given[s] /\ given[s] # h
  BY <1>1, <1>2
<1>12. NotYet'
  <2> SUFFICES ASSUME NEW e \in Endpoint, NEW s \in {Temp(e), Member(e)}, given'[s] # 0,
                      s = Temp(e) \/ e = Server
               PROVE  given'[s] \notin End'
    BY DEF NotYet, Sockets!Free
  <2>1. s \in Socket \ {LinkAt(x)}
    BY <1>1, Storage, Distinct
  <2> QED
    BY <1>8, <1>11, <2>1 DEF ConnInv, Connections, NotYet, Sockets!Free
<1>13. \A d \in Client : \A s \in {Member(d), LinkAt(d)} : s \in Socket \ {LinkAt(x)}
  BY Storage, Distinct, EndpointAssumption DEF LinkAt, Endpoint
<1>14. Told'
  BY <1>8, <1>11, <1>13 DEF ConnInv, Connections, Told, Sockets!Free
<1>15. Others'
  <2> SUFFICES ASSUME NEW d \in Client, NEW s \in {Member(d), LinkAt(d)}, given'[s] # 0,
                      NEW t \in Socket, given'[t] # 0, given'[t] = peer'[given'[s]]
               PROVE  t \in {LinkAt(y) : y \in Place}
    BY DEF Others, Sockets!Free
  <2>1. CASE t = LinkAt(x)
    BY <2>1
  <2>2. CASE t # LinkAt(x)
    <3> DEFINE g == given[s]
    <3>1. s \in Socket /\ given'[s] = g /\ g # h /\ g # 0
      BY <1>11, <1>13
    <3>2. g \in 1..MaxFile
      BY <1>1, <3>1
    <3>3. \A r \in Socket : given[r] # 0 /\ given[r] = peer[g] => r \in {LinkAt(y) : y \in Place}
      BY <3>1 DEF ConnInv, Connections, Others, Sockets!Free
    <3> HIDE DEF g
    <3>4. given'[t] = given[t] /\ given[t] # h
      BY <1>11, <2>2
    <3>5. g # f
      BY <1>7, <3>1, <3>4
    <3> QED
      BY <1>7, <3>1, <3>2, <3>3, <3>4, <3>5
  <2> QED
    BY <2>1, <2>2
<1> QED
  BY <1>4, <1>9, <1>10, <1>12, <1>14, <1>15 DEF Connections

\* Every step keeps connections.
LEMMA StepConnections == ConnInv /\ [Next]_vars => ConnInv'
<1> SUFFICES ASSUME ConnInv, [Next]_vars PROVE ConnInv'
  OBVIOUS
<1>0. TypeOK' /\ Stages' /\ SocketInv'
  BY StepTypes, StepStages, StepUsesSockets, StepSocketInv DEF ConnInv
<1> SUFFICES Connections'
  BY <1>0 DEF ConnInv
<1>a. given' \in [Socket -> 0..MaxFile] /\ opened \in Nat /\ opened' \in Nat
  BY <1>0 DEF TypeOK, Sockets!TypeOK, ConnInv
<1>b. given \in [Socket -> 0..MaxFile]
  BY DEF ConnInv, TypeOK, Sockets!TypeOK
<1> USE Storage, Distinct
<1>1. ASSUME NEW e \in Endpoint, Open(e) PROVE Connections'
  <2>1. /\ UNCHANGED netVars /\ opened' = opened + 1
        /\ given' = [given EXCEPT ![Temp(e)] = opened + 1]
    BY <1>1 DEF Open, Sockets!Construct
  <2> QED
    BY <1>a, <1>b, <2>1, KeptNetwork, SameNetwork
<1>2. ASSUME NEW e \in Endpoint, Own(e) PROVE Connections'
  <2>1. /\ UNCHANGED netVars /\ opened' = opened
        /\ given' = [given EXCEPT ![Member(e)] = given[Temp(e)], ![Temp(e)] = 0]
    BY <1>2 DEF Own, Sockets!MoveConstruct, Sockets!Free
  <2> QED
    BY <1>a, <1>b, <2>1, KeptNetwork, SameNetwork DEF Sockets!Free
<1>3. ASSUME NEW s \in Socket, Sockets!Destroy(s), UNCHANGED netVars PROVE Connections'
  BY <1>3, KeptNetwork, SameNetwork, DestroyKeeps
<1>4. ASSUME NEW e \in Endpoint, DestroyEndpoint(e) PROVE Connections'
  <2>1. Sockets!Destroy(Member(e)) /\ (e # Server => UNCHANGED netVars)
    BY <1>4 DEF DestroyEndpoint, netVars
  <2> QED
    BY <1>3, <1>4, <2>1, KeptNetwork, ResetKeeps, DestroyKeeps
<1>5. ASSUME NEW e \in Endpoint, GiveUp(e) \/ DropTemp(e) PROVE Connections'
  BY <1>3, <1>5 DEF GiveUp, DropTemp
<1>6. CASE ListenFails
  BY <1>3, <1>6 DEF ListenFails, Endpoint
<1>7. CASE UNCHANGED <<socketVars, netVars>>
  BY <1>a, <1>7, KeptNetwork, SameNetwork DEF socketVars
<1>8. ASSUME NEW l \in Link, DropLink(l) PROVE Connections'
  <2>1. UNCHANGED netVars /\ (Sockets!Destroy(l) \/ UNCHANGED socketVars)
    BY <1>8 DEF DropLink
  <2> QED
    BY <1>3, <1>7, <2>1
<1>9. CASE \/ UNCHANGED vars \/ Listen \/ waitForConnectionFails
           \/ \E l \in Link : CopyLink(l)
  BY <1>7, <1>9 DEF vars, Listen, waitForConnectionFails, CopyLink
<1> QED
  BY <1>1, <1>2, <1>4, <1>5, <1>6, <1>8, <1>9, ConnectKeeps, InterruptedKeeps, FailKeeps,
     AcceptKeeps DEF Next

-----------------------------------------------------------------------------
(* Descriptors of accepted connections, if standard input is open *)

ZeroIsForeign == 0 \in Fd /\ file[0] = Sockets!Foreign

\* No operation of BaseSocket leaks a descriptor.
LEMMA StepNoLeak ==
  ASSUME SocketInv, ZeroIsForeign, Sockets!NoLeak, [Sockets!Next]_Sockets!vars
  PROVE  ZeroIsForeign' /\ Sockets!NoLeak'
<1> USE TableAssumption
    DEF SocketInv, Sockets!TypeOK, ZeroIsForeign, Sockets!NoLeak, Sockets!isValid,
        Sockets!Free, Sockets!Foreign, Sockets!NoFd
<1>1. ASSUME NEW s \in Socket, Sockets!DefaultConstruct(s)
      PROVE  ZeroIsForeign' /\ Sockets!NoLeak'
  BY <1>1 DEF Sockets!DefaultConstruct
<1>2. ASSUME NEW s \in Socket, Sockets!Construct(s) PROVE ZeroIsForeign' /\ Sockets!NoLeak'
  BY <1>2 DEF Sockets!Construct, Sockets!LowestFree
<1>3. ASSUME NEW s \in Socket, Sockets!Destroy(s) PROVE ZeroIsForeign' /\ Sockets!NoLeak'
  BY <1>3 DEF Sockets!Destroy, Sockets!HoldsItsFile
<1>4. ASSUME NEW s \in Socket, NEW rhs \in Socket, Sockets!MoveConstruct(s, rhs)
      PROVE  ZeroIsForeign' /\ Sockets!NoLeak'
  BY <1>4 DEF Sockets!MoveConstruct
<1>5. ASSUME NEW s \in Socket, NEW rhs \in Socket, Sockets!MoveAssign(s, rhs)
      PROVE  ZeroIsForeign' /\ Sockets!NoLeak'
  BY <1>5 DEF Sockets!MoveAssign
<1>6. CASE UNCHANGED Sockets!vars
  BY <1>6 DEF Sockets!vars
<1> QED
  BY <1>1, <1>2, <1>3, <1>4, <1>5, <1>6 DEF Sockets!Next

\* What is known of connections says where a client's is.
LEMMA ConnectionsInOnePlace ==
  ASSUME ConnInv, Sockets!NoLeak
  PROVE  ConnectionKept
<1> SUFFICES ASSUME NEW c \in Client
             PROVE  /\ handles[LinkAt(c)] > 0 => Connected(given[LinkAt(c)])
                    /\ \A s \in {Member(c), LinkAt(c)} : Connected(given[s]) =>
                         LET f == given[s]
                         IN  /\ (f \in Waiting) # (f \in dead \/ peer[f] # 0)
                             /\ f \in dead => peer[f] = 0
                             /\ peer[f] # 0 =>
                                  /\ peer[peer[f]] = f
                                  /\ \A t \in live : given[t] = peer[f]
                                       => t \in {LinkAt(x) : x \in Place}
                                  /\ \A g \in Fd : file[g] = peer[f]
                                       => \E x \in Place : m_socketFd[LinkAt(x)] = g
  BY DEF ConnectionKept
<1>0. /\ Member(c) \in Socket /\ LinkAt(c) \in Socket /\ LinkAt(c) \in Link
      /\ given \in [Socket -> 0..MaxFile]
  BY Storage DEF Endpoint, ConnInv, TypeOK, Sockets!TypeOK
<1>1. handles[LinkAt(c)] > 0 => Connected(given[LinkAt(c)])
  BY <1>0 DEF ConnInv, Stages, LinkStage, Connections, Told, End, Connected, Sockets!Free
<1>2. ASSUME NEW s \in {Member(c), LinkAt(c)}, Connected(given[s])
      PROVE  LET f == given[s]
             IN  /\ (f \in Waiting) # (f \in dead \/ peer[f] # 0)
                 /\ f \in dead => peer[f] = 0
                 /\ peer[f] # 0 =>
                      /\ peer[peer[f]] = f
                      /\ \A t \in live : given[t] = peer[f] => t \in {LinkAt(x) : x \in Place}
                      /\ \A g \in Fd : file[g] = peer[f]
                           => \E x \in Place : m_socketFd[LinkAt(x)] = g
  <2> DEFINE f == given[s]
  <2>1. f \in 1..MaxFile /\ (f \in Waiting \/ f \in dead \/ peer[f] # 0)
    BY <1>0, <1>2 DEF Connected, Sockets!Free
  <2>2. \A t \in Socket : given[t] # 0 /\ given[t] = peer[f] => t \in {LinkAt(x) : x \in Place}
    BY <2>1 DEF ConnInv, Connections, Others, Sockets!Free
  <2> HIDE DEF f
  <2>3. /\ f \in Waiting => f \notin dead /\ peer[f] = 0
        /\ f \in dead => peer[f] = 0
        /\ peer[f] # 0 => peer[peer[f]] = f
    BY <2>1 DEF ConnInv, Connections, OnePlace
  <2>4. ASSUME peer[f] # 0, NEW t \in live, given[t] = peer[f]
        PROVE  t \in {LinkAt(x) : x \in Place}
    BY <2>2, <2>4 DEF ConnInv, TypeOK, Sockets!TypeOK
  <2>5. ASSUME peer[f] # 0, NEW g \in Fd, file[g] = peer[f]
        PROVE  \E x \in Place : m_socketFd[LinkAt(x)] = g
    <3>1. peer[f] \in 1..MaxFile
      BY <2>1, <2>5 DEF ConnInv, TypeOK
    <3>2. PICK t \in live : m_socketFd[t] = g /\ Sockets!isValid(t)
      BY <2>5, <3>1 DEF Sockets!NoLeak, Sockets!Free, Sockets!Foreign
    <3>3. given[t] = peer[f]
      BY <2>5, <3>2, TableAssumption
      DEF ConnInv, SocketInv, Sockets!HoldsItsFile, Sockets!isValid, Sockets!NoFd
    <3> QED
      BY <2>4, <2>5, <3>2, <3>3
  <2>6. (f \in Waiting) # (f \in dead \/ peer[f] # 0)
    BY <2>1, <2>3
  <2> QED
    BY <2>3, <2>4, <2>5, <2>6 DEF f
<1> QED
  BY <1>1, <1>2

\* What is known of the stages says who holds the open files.
LEMMA FilesAreHeld ==
  ASSUME Stages, SocketInv, ZeroIsForeign, Sockets!NoLeak
  PROVE  SocketsHeld
<1>1. \A s \in Socket : s \in live /\ given[s] # 0 <=> s \in Holders
  <2> SUFFICES ASSUME NEW s \in Socket PROVE s \in live /\ given[s] # 0 <=> s \in Holders
    OBVIOUS
  <2>1. CASE s \in Link
    BY <2>1, Storage, Distinct DEF Stages, Shape, LinkStage, Holders
  <2>2. ASSUME NEW e \in Endpoint, s = Temp(e) PROVE s \in live /\ given[s] # 0 <=> s \in Holders
    BY <2>2, Storage, Distinct DEF Stages, EndpointStage, Holders
  <2>3. ASSUME NEW e \in Endpoint, s = Member(e) PROVE s \in live /\ given[s] # 0 <=> s \in Holders
    BY <2>3, Storage, Distinct DEF Stages, EndpointStage, Holders
  <2> QED
    BY <2>1, <2>2, <2>3 DEF Socket, Temp, Member
<1>2. Holders \subseteq Socket
  BY Storage DEF Holders
<1>3. \A s \in Holders : given[s] # 0 /\ m_socketFd[s] # -1 /\ file[m_socketFd[s]] = given[s]
  BY <1>1, <1>2 DEF SocketInv, Sockets!HoldsItsFile, Sockets!NoFd, Sockets!Free
<1>4. \A s, t \in Holders : m_socketFd[s] = m_socketFd[t] => s = t
  BY <1>2, <1>3 DEF SocketInv, OneFile, Sockets!Free
<1>5. ASSUME NEW f \in Fd, file[f] \notin {Sockets!Free, Sockets!Foreign}
      PROVE  \E s \in Holders : m_socketFd[s] = f
  <2>1. PICK s \in live : m_socketFd[s] = f /\ Sockets!isValid(s)
    BY <1>5 DEF Sockets!NoLeak
  <2>2. s \in Socket /\ given[s] # 0
    BY <2>1, TableAssumption
    DEF SocketInv, Sockets!TypeOK, Sockets!HoldsItsFile, Sockets!isValid, Sockets!NoFd, Sockets!Free
  <2> QED
    BY <1>1, <2>1, <2>2
<1> QED
  BY <1>3, <1>4, <1>5 DEF SocketsHeld, Sockets!Free

\* The open files are those of the objects the course of the program has given one
\* to keep, one for each, however constructors and connects fail and whatever is
\* destroyed.
THEOREM SocketsAreHeld == ASSUME 0 \in Std PROVE Spec => []SocketsHeld
<1> DEFINE Inv == Stages /\ SocketInv /\ ZeroIsForeign /\ Sockets!NoLeak
<1>1. Init => Inv
  BY InitStages, InitSocketInv, TableAssumption
  DEF Init, Sockets!Init, ZeroIsForeign, Sockets!NoLeak, Sockets!Free, Sockets!Foreign
<1>2. Inv /\ [Next]_vars => Inv'
  <2>1. Inv /\ [Next]_vars => Stages' /\ SocketInv'
    BY StepStages, StepUsesSockets, StepSocketInv
  <2>2. Inv /\ [Next]_vars => ZeroIsForeign' /\ Sockets!NoLeak'
    BY StepNoLeak, StepUsesSockets
  <2> QED
    BY <2>1, <2>2
<1>3. Inv => SocketsHeld
  BY FilesAreHeld
<1> QED
  BY <1>1, <1>2, <1>3, PTL DEF Spec

\* A connection is in one place only, those of interrupted connects included: it
\* waits, was accepted once, or the server went away first; and the end of an
\* accepted one belongs to the server's link or is closed.
THEOREM ConnectionsAreKept == ASSUME 0 \in Std PROVE Spec => []ConnectionKept
<1> DEFINE Inv == ConnInv /\ ZeroIsForeign /\ Sockets!NoLeak
<1>1. Init => Inv
  <2>1. Init => ConnInv
    BY InitTypes, InitStages, InitSocketInv, InitConnections DEF ConnInv
  <2>2. Init => ZeroIsForeign /\ Sockets!NoLeak
    BY TableAssumption
    DEF Init, Sockets!Init, ZeroIsForeign, Sockets!NoLeak, Sockets!Free, Sockets!Foreign
  <2> QED
    BY <2>1, <2>2
<1>2. Inv /\ [Next]_vars => Inv'
  <2>1. Inv /\ [Next]_vars => ConnInv'
    BY StepConnections
  <2>2. Inv /\ [Next]_vars => ZeroIsForeign' /\ Sockets!NoLeak'
    BY StepNoLeak, StepUsesSockets DEF ConnInv
  <2> QED
    BY <2>1, <2>2
<1>3. Inv => ConnectionKept
  BY ConnectionsInOnePlace
<1> QED
  BY <1>1, <1>2, <1>3, PTL DEF Spec
=============================================================================
