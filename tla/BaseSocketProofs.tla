-------------------------- MODULE BaseSocketProofs --------------------------
(***************************************************************************)
(* The theorems about CBaseSocket, for any number of objects, descriptor   *)
(* numbers and files.                                                      *)
(*                                                                         *)
(* UniqueOwner alone is not inductive: a constructor could be handed a     *)
(* number some object still holds unless held numbers are known to be in   *)
(* use in the table, which is HoldsItsFile; and a destructor keeps         *)
(* HoldsItsFile for the other objects only because of UniqueOwner.         *)
(***************************************************************************)
EXTENDS BaseSocket, TLAPS

Ownership == TypeOK /\ UniqueOwner /\ HoldsItsFile

-----------------------------------------------------------------------------
\* Before anything is constructed nobody owns anything.
LEMMA InitOwnership == Init => Ownership
  BY FdAssumption, MaxFileAssumption
  DEF Init, Ownership, TypeOK, UniqueOwner, HoldsItsFile, Free, Foreign, NoFd

\* Every operation of CBaseSocket keeps every descriptor with one owner.
LEMMA StepOwnership == Ownership /\ [Next]_vars => Ownership'
<1> SUFFICES ASSUME Ownership, [Next]_vars PROVE Ownership'
  OBVIOUS
<1> USE FdAssumption, MaxFileAssumption DEF Free, Foreign, NoFd
<1>1. ASSUME NEW s \in Socket, DefaultConstruct(s) PROVE Ownership'
  BY <1>1 DEF DefaultConstruct, Ownership, TypeOK, UniqueOwner, HoldsItsFile
<1>2. ASSUME NEW s \in Socket, Construct(s) PROVE Ownership'
  <2>1. PICK f \in Fd :
          /\ file[f] = Free
          /\ file' = [file EXCEPT ![f] = opened + 1]
          /\ m_socketFd' = [m_socketFd EXCEPT ![s] = f]
    BY <1>2 DEF Construct, LowestFree
  <2>2. \A t \in live : m_socketFd[t] # f
    BY <2>1 DEF Ownership, HoldsItsFile, TypeOK
  <2>3. TypeOK'
    BY <1>2, <2>1 DEF Construct, Ownership, TypeOK
  <2>4. UniqueOwner'
    BY <1>2, <2>1, <2>2 DEF Construct, Ownership, TypeOK, UniqueOwner
  <2>5. HoldsItsFile'
    BY <1>2, <2>1, <2>2 DEF Construct, Ownership, TypeOK, HoldsItsFile
  <2> QED
    BY <2>3, <2>4, <2>5 DEF Ownership
<1>3. ASSUME NEW s \in Socket, Destroy(s) PROVE Ownership'
  <2>1. TypeOK'
    BY <1>3 DEF Destroy, Ownership, TypeOK
  <2>2. UniqueOwner'
    BY <1>3 DEF Destroy, Ownership, TypeOK, UniqueOwner
  <2>3. HoldsItsFile'
    <3> SUFFICES ASSUME NEW t \in live'
                 PROVE  IF m_socketFd[t] = NoFd THEN given[t] = Free
                        ELSE given[t] # Free /\ file'[m_socketFd[t]] = given[t]
      BY <1>3 DEF Destroy, HoldsItsFile, Ownership, TypeOK
    <3>1. t \in live /\ t # s
      BY <1>3 DEF Destroy
    <3>2. CASE isValid(s)
      <4>1. m_socketFd[t] # m_socketFd[s]
        BY <3>1, <3>2, <1>3 DEF Destroy, isValid, Ownership, UniqueOwner
      <4> QED
        BY <3>1, <3>2, <4>1, <1>3 DEF Destroy, Ownership, TypeOK, HoldsItsFile
    <3>3. CASE ~isValid(s)
      BY <3>1, <3>3, <1>3 DEF Destroy, Ownership, HoldsItsFile
    <3> QED
      BY <3>2, <3>3
  <2> QED
    BY <2>1, <2>2, <2>3 DEF Ownership
<1>4. ASSUME NEW s \in Socket, NEW rhs \in Socket, MoveConstruct(s, rhs)
      PROVE  Ownership'
  <2>1. TypeOK'
    BY <1>4 DEF MoveConstruct, Ownership, TypeOK
  <2>2. UniqueOwner'
    BY <1>4 DEF MoveConstruct, Ownership, TypeOK, UniqueOwner
  <2>3. HoldsItsFile'
    BY <1>4 DEF MoveConstruct, Ownership, TypeOK, HoldsItsFile
  <2> QED
    BY <2>1, <2>2, <2>3 DEF Ownership
<1>5. ASSUME NEW s \in Socket, NEW rhs \in Socket, MoveAssign(s, rhs)
      PROVE  Ownership'
  <2>1. TypeOK'
    BY <1>5 DEF MoveAssign, Ownership, TypeOK
  <2>2. UniqueOwner'
    BY <1>5 DEF MoveAssign, Ownership, TypeOK, UniqueOwner
  <2>3. HoldsItsFile'
    BY <1>5 DEF MoveAssign, Ownership, TypeOK, HoldsItsFile
  <2> QED
    BY <2>1, <2>2, <2>3 DEF Ownership
<1>6. CASE UNCHANGED vars
  BY <1>6 DEF vars, Ownership, TypeOK, UniqueOwner, HoldsItsFile
<1> QED
  BY <1>1, <1>2, <1>3, <1>4, <1>5, <1>6 DEF Next

\* The types of the objects and of the table, and with them ownership: no two
\* live objects hold the same number (moves never duplicate it) and a held
\* number denotes the file the object was made for (it is never stale).
THEOREM OwnershipHolds == Spec => []Ownership
  BY InitOwnership, StepOwnership, PTL DEF Spec

\* The types alone.
THEOREM TypeCorrect == Spec => []TypeOK
  BY OwnershipHolds, PTL DEF Ownership

\* A descriptor is never held by two live objects.
THEOREM NoSharedDescriptor == Spec => []UniqueOwner
  BY OwnershipHolds, PTL DEF Ownership

\* An object never holds the number of a file that is not its own.
THEOREM NoStaleDescriptor == Spec => []HoldsItsFile
  BY OwnershipHolds, PTL DEF Ownership

-----------------------------------------------------------------------------
\* A file goes away only when the object made for it is destroyed.
LEMMA StepClosedByOwner ==
  ASSUME Ownership, Next, NEW f \in Fd, file[f] # Free, file'[f] # file[f]
  PROVE  \E s \in live \ live' : given[s] = file[f]
<1> USE FdAssumption, MaxFileAssumption DEF Free, Foreign, NoFd
<1>1. ASSUME NEW s \in Socket, Construct(s) PROVE FALSE
  BY <1>1 DEF Construct, LowestFree, Ownership, TypeOK
<1>2. ASSUME NEW s \in Socket, Destroy(s)
      PROVE  s \in live \ live' /\ given[s] = file[f]
  BY <1>2 DEF Destroy, isValid, Ownership, TypeOK, HoldsItsFile
<1>3. ASSUME NEW s \in Socket, DefaultConstruct(s) PROVE FALSE
  BY <1>3 DEF DefaultConstruct
<1>4. ASSUME NEW s \in Socket, NEW rhs \in Socket,
             MoveConstruct(s, rhs) \/ MoveAssign(s, rhs)
      PROVE  FALSE
  BY <1>4 DEF MoveConstruct, MoveAssign
<1> QED
  BY <1>1, <1>2, <1>3, <1>4 DEF Next

\* Only the destructor of its owner ever closes a file: moving over an object
\* closes nothing, and a foreign descriptor is never closed.
THEOREM OnlyOwnerCloses == Spec => ClosedByOwner
<1> DEFINE Keeps == \A f \in Fd : file[f] # Free /\ file'[f] # file[f]
                      => \E s \in live \ live' : given[s] = file[f]
<1>1. Ownership /\ [Next]_vars => [Keeps]_vars
  BY StepClosedByOwner
<1> QED
  BY <1>1, OwnershipHolds, PTL DEF Spec, ClosedByOwner

-----------------------------------------------------------------------------
\* What keeps the number 0 away from the library's sockets.
ZeroIsForeign == 0 \in Fd => file[0] = Foreign

\* The number 0 stays foreign and no file is left without an owner.
LEMMA StepNoLeak ==
  ASSUME Ownership, ZeroIsForeign, NoLeak, [Next]_vars
  PROVE  ZeroIsForeign' /\ NoLeak'
<1> USE FdAssumption, MaxFileAssumption DEF Free, Foreign, NoFd
<1>1. ASSUME NEW s \in Socket, DefaultConstruct(s) PROVE ZeroIsForeign' /\ NoLeak'
  BY <1>1 DEF DefaultConstruct, Ownership, TypeOK, ZeroIsForeign, NoLeak, isValid
<1>2. ASSUME NEW s \in Socket, Construct(s) PROVE ZeroIsForeign' /\ NoLeak'
  BY <1>2 DEF Construct, LowestFree, Ownership, TypeOK, ZeroIsForeign, NoLeak, isValid
<1>3. ASSUME NEW s \in Socket, Destroy(s) PROVE ZeroIsForeign' /\ NoLeak'
  BY <1>3 DEF Destroy, Ownership, TypeOK, ZeroIsForeign, NoLeak, isValid
<1>4. ASSUME NEW s \in Socket, NEW rhs \in Socket, MoveConstruct(s, rhs)
      PROVE  ZeroIsForeign' /\ NoLeak'
  BY <1>4 DEF MoveConstruct, Ownership, TypeOK, ZeroIsForeign, NoLeak, isValid
<1>5. ASSUME NEW s \in Socket, NEW rhs \in Socket, MoveAssign(s, rhs)
      PROVE  ZeroIsForeign' /\ NoLeak'
  BY <1>5 DEF MoveAssign, Ownership, TypeOK, ZeroIsForeign, NoLeak, isValid
<1>6. CASE UNCHANGED vars
  BY <1>6 DEF vars, ZeroIsForeign, NoLeak, isValid
<1> QED
  BY <1>1, <1>2, <1>3, <1>4, <1>5, <1>6 DEF Next

\* If standard input is open, no descriptor is ever leaked: whatever is moved
\* and whichever constructor throws, a live object is left to close it.
THEOREM NothingLeaks == ASSUME 0 \in Std PROVE Spec => []NoLeak
<1>1. Init => ZeroIsForeign /\ NoLeak
  BY FdAssumption DEF Init, ZeroIsForeign, NoLeak, Free, Foreign
<1>2. Ownership /\ (ZeroIsForeign /\ NoLeak) /\ [Next]_vars
        => (ZeroIsForeign /\ NoLeak)'
  BY StepNoLeak
<1> QED
  BY <1>1, <1>2, OwnershipHolds, PTL DEF Spec
=============================================================================
