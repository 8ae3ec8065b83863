----------------------------- MODULE BaseSocket -----------------------------
(***************************************************************************)
(* CBaseSocket (include/BaseSocket.hpp, src/BaseSocket.cpp): the objects   *)
(* that own the descriptors of the library, and the descriptor table of    *)
(* the process they own them in.                                           *)
(*                                                                         *)
(* An object holds a descriptor number, and a number means what the table  *)
(* says it means: once a descriptor is closed the kernel hands the same    *)
(* number out again for another file.  The table therefore maps a number   *)
(* to a file, every file opened through the library is numbered 1, 2, ...  *)
(* and the history variable "given" remembers which file an object was     *)
(* made for, so that the invariants can tell an own file from another one  *)
(* that happens to have the same number.                                   *)
(***************************************************************************)
EXTENDS Integers, FiniteSets

CONSTANTS Socket,   \* the CBaseSocket objects, named by their storage
          Fd,       \* the numbers the descriptor table has room for
          Std,      \* those the process has open before it uses the library
          MaxFile   \* bound: number of files opened through the library

ASSUME FdAssumption == Fd \subseteq Nat /\ Std \subseteq Fd
ASSUME MaxFileAssumption == MaxFile \in Nat

VARIABLES live,        \* the objects that are constructed and not destroyed
          m_socketFd,  \* member m_socketFd of every object
          file,        \* descriptor table: number -> file, Free or Foreign
          opened,      \* number of files opened so far
          given        \* history: the file an object was made for, or Free

vars == <<live, m_socketFd, file, opened, given>>

Free    == 0
Foreign == -1   \* a descriptor of the process the library did not open
NoFd    == -1   \* the value of m_socketFd of an object without a socket

TypeOK ==
    /\ live \subseteq Socket
    /\ m_socketFd \in [Socket -> Fd \cup {NoFd}]
    /\ file \in [Fd -> {Foreign, Free} \cup 1..MaxFile]
    /\ opened \in 0..MaxFile
    /\ given \in [Socket -> 0..MaxFile]

-----------------------------------------------------------------------------
isValid(s) == m_socketFd[s] > 0

\* The number a successful socket() or accept() returns: the lowest free one.
LowestFree(f) == file[f] = Free /\ \A g \in Fd : g < f => file[g] # Free

Init ==
    /\ live = {}
    /\ m_socketFd = [s \in Socket |-> NoFd]
    /\ file = [f \in Fd |-> IF f \in Std THEN Foreign ELSE Free]
    /\ opened = 0
    /\ given = [s \in Socket |-> Free]

\* Variant: the member is declared without its initialiser {-1}.
DefaultConstructUninitialised(s) ==
    /\ s \notin live
    /\ live' = live \cup {s}
    /\ m_socketFd' = [m_socketFd EXCEPT ![s] = -32768]
    /\ UNCHANGED <<file, opened, given>>

DefaultConstruct(s) ==
    /\ s \notin live
    /\ live' = live \cup {s}
    /\ m_socketFd' = [m_socketFd EXCEPT ![s] = NoFd]
    /\ given' = [given EXCEPT ![s] = Free]
    /\ UNCHANGED <<file, opened>>

(***************************************************************************)
(* Both ways an object gets a new file: CBaseSocket(ESocketMode) around    *)
(* socket(), and CBaseSocket(int) around a descriptor accept() has just    *)
(* returned.  If socket() fails or the mode is NO_MODE the constructor     *)
(* throws: no object begins its life and nothing changes.                  *)
(***************************************************************************)
Construct(s) ==
    /\ s \notin live
    /\ opened < MaxFile
    /\ \E f \in Fd :
        /\ LowestFree(f)
        /\ file' = [file EXCEPT ![f] = opened + 1]
        /\ m_socketFd' = [m_socketFd EXCEPT ![s] = f]
    /\ opened' = opened + 1
    /\ given' = [given EXCEPT ![s] = opened + 1]
    /\ live' = live \cup {s}

\* Variant: the move constructor copies the number and leaves rhs as it is.
MoveConstructCopies(s, rhs) ==
    /\ s \notin live
    /\ rhs \in live
    /\ live' = live \cup {s}
    /\ m_socketFd' = [m_socketFd EXCEPT ![s] = m_socketFd[rhs]]
    /\ given' = [given EXCEPT ![s] = given[rhs]]
    /\ UNCHANGED <<file, opened>>

\* CBaseSocket(CBaseSocket&&): the new object starts with -1 and swaps.
MoveConstruct(s, rhs) ==
    /\ s \notin live
    /\ rhs \in live
    /\ live' = live \cup {s}
    /\ m_socketFd' = [m_socketFd EXCEPT ![s] = m_socketFd[rhs], ![rhs] = NoFd]
    /\ given' = [given EXCEPT ![s] = given[rhs], ![rhs] = Free]
    /\ UNCHANGED <<file, opened>>

\* Variant: the assignment takes rhs' socket over and forgets the target's own.
MoveAssignForgets(s, rhs) ==
    /\ s \in live
    /\ rhs \in live \ {s}
    /\ m_socketFd' = [m_socketFd EXCEPT ![s] = m_socketFd[rhs], ![rhs] = NoFd]
    /\ given' = [given EXCEPT ![s] = given[rhs], ![rhs] = Free]
    /\ UNCHANGED <<live, file, opened>>

\* operator=(CBaseSocket&&): a swap, so the target's own file lives on in rhs.
MoveAssign(s, rhs) ==
    /\ s \in live
    /\ rhs \in live
    /\ m_socketFd' = [m_socketFd EXCEPT ![s] = m_socketFd[rhs], ![rhs] = m_socketFd[s]]
    /\ given' = [given EXCEPT ![s] = given[rhs], ![rhs] = given[s]]
    /\ UNCHANGED <<live, file, opened>>

(***************************************************************************)
(* ~CBaseSocket.  It also runs when the constructor of a server or the     *)
(* socket options throw: the stack unwinding destroys the object.          *)
(***************************************************************************)
Destroy(s) ==
    /\ s \in live
    /\ live' = live \ {s}
    /\ IF isValid(s)
       THEN /\ file' = [file EXCEPT ![m_socketFd[s]] = Free]
            /\ m_socketFd' = [m_socketFd EXCEPT ![s] = NoFd]
       ELSE UNCHANGED <<file, m_socketFd>>
    /\ given' = [given EXCEPT ![s] = Free]
    /\ UNCHANGED opened

Next ==
    \/ \E s \in Socket : DefaultConstruct(s) \/ Construct(s) \/ Destroy(s)
    \/ \E s, rhs \in Socket : MoveConstruct(s, rhs) \/ MoveAssign(s, rhs)

Spec == Init /\ [][Next]_vars

-----------------------------------------------------------------------------
\* No two objects hold the same descriptor, whatever was moved where: the
\* first of the two destructors would close it under the second one's feet.
UniqueOwner ==
    \A s, t \in live : m_socketFd[s] = m_socketFd[t] /\ m_socketFd[s] # NoFd => s = t

\* The number an object holds still denotes the very file the object was made
\* for: nobody closed it meanwhile, and the kernel did not reuse the number.
HoldsItsFile ==
    \A s \in live :
        IF m_socketFd[s] = NoFd THEN given[s] = Free
        ELSE given[s] # Free /\ file[m_socketFd[s]] = given[s]

\* Every file the library opened and did not close belongs to a live object
\* whose destructor will close it: moves and unwinding leak no descriptor.
NoLeak ==
    \A f \in Fd : file[f] \notin {Free, Foreign}
        => \E s \in live : m_socketFd[s] = f /\ isValid(s)

\* A file goes away only in the destructor of the object made for it: moving
\* over an object never closes what it held, nobody closes a foreign file.
ClosedByOwner ==
    [][\A f \in Fd : file[f] # Free /\ file'[f] # file[f]
         => \E s \in live \ live' : given[s] = file[f]]_vars

\* BaseSocket.hpp:61 "Check if socket is valid": isValid answers whether the
\* object holds a socket.  Not so for a socket that got the number 0.
ValidIffSocket ==
    \A s \in live : isValid(s) <=> given[s] # Free
=============================================================================
