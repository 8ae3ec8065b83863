----------------------------- MODULE HostOrder ------------------------------
(***************************************************************************)
(* CNetOrder and CHostOrder (endianConversion/include/NetOrder.h,          *)
(* HostOrder.h, detail/EndianConverter.h, detail/EndianConvert.h,          *)
(* detail/EndianMembers.h, detail/EndianMeta.inl): objects that are sent by*)
(* one machine and received by another.                                    *)
(*                                                                         *)
(* A value of a registered class is a sequence of members, a member a      *)
(* sequence of elements (one for a number, several for an array) and an    *)
(* element the sequence of its bytes.  A number is written most            *)
(* significant byte first; Memory says how a machine stores it.  Only the  *)
(* members the class has registered are converted.                         *)
(*                                                                         *)
(* The names of the specification carry its own, so that one module can    *)
(* have theorems about it and about HostLookup.                            *)
(***************************************************************************)
EXTENDS Integers, Sequences, SequencesExt

CONSTANTS Object,         \* storage of CHostOrder objects of the receiver
          Value,          \* the values that are sent
          Registered,     \* positions of the members in registerMembers
          SenderLittle, ReceiverLittle,  \* is the machine little endian?
          NoValue         \* nothing yet

\* The registered members are members of the class, and bytes are bytes.
ASSUME ValueAssumption ==
    \A v \in Value : v \in Seq(Seq(Seq(0..255))) /\ Registered \subseteq DOMAIN v

VARIABLES life,       \* per object: "none" or "alive"
          initial,    \* m_converterFunc.m_initialObj: bytes as received
          converted,  \* m_converterFunc.m_convertedObj
          m_doItOnce, \* has HostOrder() converted already?
          shown,      \* what the last call of HostOrder() returned
          sent,       \* history: the value whose bytes are in the object
          reused      \* history: a second value came in after a conversion

orderVars == <<life, initial, converted, m_doItOnce, shown, sent, reused>>

-----------------------------------------------------------------------------
EachElement(f(_), object) ==
    [m \in DOMAIN object |-> [i \in DOMAIN object[m] |-> f(object[m][i])]]

\* How a machine keeps a value in memory, and back.
Memory(little, value) ==
    EachElement(LAMBDA e : IF little THEN Reverse(e) ELSE e, value)

\* The swap of an arithmetic type; network_to_host is the same function.
host_to_network(little, e) ==
    IF little THEN Reverse(e) ELSE e

\* What a member holds that nobody has written: memory as it was found.
Unset == <<>>

\* Member::getConstRef
getConstRef(object, m) == object[m]

\* ConverterFunc for a number, a C array and a std::array.
ConvertedMember(little, source) ==
    [i \in DOMAIN source |-> host_to_network(little, source[i])]

\* doForAllMembers with a ConverterFunc: registered members are set in the
\* converted object, the others are never written.
Converted(little, object) ==
    [m \in DOMAIN object |->
        IF m \in Registered THEN ConvertedMember(little, getConstRef(object, m)) ELSE Unset]

\* CNetOrder(obj).NetworkOrder(): converted once, in the constructor.
NetworkOrder(value) == Converted(SenderLittle, Memory(SenderLittle, value))

Stored ==
    LET received == {NetworkOrder(v) : v \in Value}
    IN  received \cup {Converted(ReceiverLittle, r) : r \in received}

OrderTypeOK ==
    /\ life \in [Object -> {"none", "alive"}]
    /\ initial \in [Object -> Stored \cup {NoValue}]
    /\ converted \in [Object -> Stored \cup {NoValue}]
    /\ m_doItOnce \in [Object -> BOOLEAN]
    /\ shown \in [Object -> Stored \cup {NoValue}]
    /\ sent \in [Object -> Value \cup {NoValue}]
    /\ reused \in [Object -> BOOLEAN]

OrderInit ==
    /\ life = [o \in Object |-> "none"]
    /\ initial = [o \in Object |-> NoValue]
    /\ converted = [o \in Object |-> NoValue]
    /\ m_doItOnce = [o \in Object |-> FALSE]
    /\ shown = [o \in Object |-> NoValue]
    /\ sent = [o \in Object |-> NoValue]
    /\ reused = [o \in Object |-> FALSE]

-----------------------------------------------------------------------------
\* CHostOrder<T> rx; the two buffers are left as they are found.
Create(o) ==
    /\ life[o] = "none"
    /\ life' = [life EXCEPT ![o] = "alive"]
    /\ m_doItOnce' = [m_doItOnce EXCEPT ![o] = FALSE]
    /\ initial' = [initial EXCEPT ![o] = NoValue]
    /\ converted' = [converted EXCEPT ![o] = NoValue]
    /\ shown' = [shown EXCEPT ![o] = NoValue]
    /\ sent' = [sent EXCEPT ![o] = NoValue]
    /\ reused' = [reused EXCEPT ![o] = FALSE]

\* CHostOrder(obj) around bytes that were received elsewhere.
CreateFrom(o) ==
    /\ life[o] = "none"
    /\ life' = [life EXCEPT ![o] = "alive"]
    /\ m_doItOnce' = [m_doItOnce EXCEPT ![o] = FALSE]
    /\ converted' = [converted EXCEPT ![o] = NoValue]
    /\ shown' = [shown EXCEPT ![o] = NoValue]
    /\ reused' = [reused EXCEPT ![o] = FALSE]
    /\ \E v \in Value : /\ initial' = [initial EXCEPT ![o] = NetworkOrder(v)]
                        /\ sent' = [sent EXCEPT ![o] = v]

\* Variant: the copy takes the mark over, and the object as it came in.
CopyForgets(o, rhs) ==
    /\ life[o] = "none"
    /\ life[rhs] = "alive"
    /\ life' = [life EXCEPT ![o] = "alive"]
    /\ m_doItOnce' = [m_doItOnce EXCEPT ![o] = m_doItOnce[rhs]]
    /\ initial' = [initial EXCEPT ![o] = initial[rhs]]
    /\ converted' = [converted EXCEPT ![o] = initial[rhs]]
    /\ shown' = [shown EXCEPT ![o] = NoValue]
    /\ sent' = [sent EXCEPT ![o] = sent[rhs]]
    /\ reused' = [reused EXCEPT ![o] = reused[rhs]]

\* The defaulted copy constructor copies the conversion and its mark.
Copy(o, rhs) ==
    /\ life[o] = "none"
    /\ life[rhs] = "alive"
    /\ life' = [life EXCEPT ![o] = "alive"]
    /\ m_doItOnce' = [m_doItOnce EXCEPT ![o] = m_doItOnce[rhs]]
    /\ initial' = [initial EXCEPT ![o] = initial[rhs]]
    /\ converted' = [converted EXCEPT ![o] = converted[rhs]]
    /\ shown' = [shown EXCEPT ![o] = NoValue]
    /\ sent' = [sent EXCEPT ![o] = sent[rhs]]
    /\ reused' = [reused EXCEPT ![o] = reused[rhs]]

\* recive(rx) and reciveFrom(rx): the bytes go straight into object().
Recive(o) ==
    /\ life[o] = "alive"
    /\ \E v \in Value : /\ initial' = [initial EXCEPT ![o] = NetworkOrder(v)]
                        /\ sent' = [sent EXCEPT ![o] = v]
    /\ reused' = [reused EXCEPT ![o] = @ \/ m_doItOnce[o]]
    /\ UNCHANGED <<life, converted, m_doItOnce, shown>>

\* HostOrder() converts at its first call and remembers that it did.
CallHostOrder(o) ==
    /\ life[o] = "alive"
    /\ initial[o] # NoValue
    /\ converted' = IF m_doItOnce[o] THEN converted
                    ELSE [converted EXCEPT ![o] = Converted(ReceiverLittle, initial[o])]
    /\ m_doItOnce' = [m_doItOnce EXCEPT ![o] = TRUE]
    /\ shown' = [shown EXCEPT ![o] = converted'[o]]
    /\ UNCHANGED <<life, initial, sent, reused>>

Destroy(o) ==
    /\ life[o] = "alive"
    /\ life' = [life EXCEPT ![o] = "none"]
    /\ shown' = [shown EXCEPT ![o] = NoValue]
    /\ UNCHANGED <<initial, converted, m_doItOnce, sent, reused>>

OrderNext ==
    \/ \E o \in Object :
        Create(o) \/ CreateFrom(o) \/ Recive(o) \/ CallHostOrder(o) \/ Destroy(o)
    \/ \E o, rhs \in Object : Copy(o, rhs)

OrderSpec == OrderInit /\ [][OrderNext]_orderVars

-----------------------------------------------------------------------------
\* The registered members of what HostOrder() shows are those that were sent,
\* as the receiver's machine stores them, whatever the byte order of the two
\* machines, for an object and its copies, if it is used for one value only.
ValueArrives ==
    \A o \in Object : shown[o] # NoValue /\ ~reused[o]
        => \A m \in Registered : shown[o][m] = Memory(ReceiverLittle, sent[o])[m]

\* TcpDataLink.hpp:113-114 "It converts the recived data to HostOrder again":
\* right after a HostOrder() the data shown is the data received last, also
\* when an object is used for one receive call after the other.
ShownIsRecived ==
    [][\A o \in Object : CallHostOrder(o) => \A m \in Registered :
           shown'[o][m] = Memory(ReceiverLittle, sent[o])[m]]_orderVars
=============================================================================
