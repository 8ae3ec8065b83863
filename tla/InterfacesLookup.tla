-------------------------- MODULE InterfacesLookup --------------------------
(***************************************************************************)
(* CNetInterface (src/Lookup/InterfacesLookup.cpp): getStateMap walks the  *)
(* list getifaddrs made and looks every name up again, while interfaces    *)
(* come and go; the getAll operations collect addresses from its map.      *)
(*                                                                         *)
(* An entry of the list has a name, the family of its address, its flags,  *)
(* and the address, mask and broadcast address, Empty for a null pointer.  *)
(* The list is kept as a set: the code promises nothing about its order.   *)
(***************************************************************************)
EXTENDS IpAddress, FiniteSets, SequencesExt

CONSTANTS Name,      \* names of network devices
          Entry,     \* what getifaddrs can report of them
          MaxIndex   \* bound: how often a device is plugged in

\* An octet of a network mask that the kernel accepts: ones, then zeros.
MaskOctet == {0, 128, 192, 224, 240, 248, 252, 254, 255}

ASSUME NameAssumption ==
    IsFiniteSet(Name) /\ MaxIndex \in Nat /\ MaxIndex >= Cardinality(Name)
ASSUME EntryAssumption == \A e \in Entry :
    /\ e.name \in Name
    /\ e.flags \subseteq {"UP", "RUNNING", "LOOPBACK", "BROADCAST"}
    /\ e.addr \in Address /\ e.netmask \in Address /\ e.broadaddr \in Address
    /\ e.family = "INET" =>
         /\ is_v4(e.addr) /\ e.addr.words \in [1..4 -> 0..255]
         /\ empty(e.netmask) \/ (is_v4(e.netmask) /\ e.netmask.words \in [1..4 -> MaskOctet])
    /\ e.family = "INET6" => is_v6(e.addr) /\ is_v6(e.netmask)

VARIABLES
    index,       \* kernel: the index if_nametoindex returns, 0 for none
    plugged,     \* kernel: the last index that was given
    pc,          \* "idle", "walk", "found", "done"
    OnlyRunning, \* the argument of getStateMap
    ifAddrStruct,\* entries the loop has still to visit
    ifa, ifIndex,\* the current entry and what if_nametoindex returned for it
    ifMap,       \* per index a CNetInterface
    leaked,      \* sockets requestMtu left open
    reported,    \* history: what getifaddrs returned
    at           \* history: the index of every name at that time

kernelVars == <<index, plugged>>
vars == <<kernelVars, pc, OnlyRunning, ifAddrStruct, ifa, ifIndex, ifMap, leaked, reported, at>>

Interface ==
    [m_name : Name, m_addressList : Seq(Address), m_maskList : Seq(Address),
     m_broadcastList : Seq(Address), m_up : BOOLEAN, m_running : BOOLEAN, mtu : BOOLEAN]

TypeOK ==
    /\ index \in [Name -> 0..MaxIndex] /\ plugged \in 0..MaxIndex
    /\ pc \in {"idle", "walk", "found", "done"}
    /\ OnlyRunning \in BOOLEAN
    /\ ifAddrStruct \subseteq reported /\ reported \subseteq Entry
    /\ pc = "found" => ifa \in reported
    /\ ifIndex \in 0..MaxIndex
    /\ DOMAIN ifMap \subseteq 0..MaxIndex
    /\ \A i \in DOMAIN ifMap : ifMap[i] \in Interface
    /\ \A i \in DOMAIN ifMap :
          \A l \in {ifMap[i].m_addressList, ifMap[i].m_maskList, ifMap[i].m_broadcastList} :
             ~Contains(l, Empty)
    /\ leaked \in Nat
    /\ at \in [Name -> 0..MaxIndex]

NoMap == [i \in {} |-> 0]
NoEntry == [name |-> "", family |-> "", flags |-> {}, addr |-> Empty,
            netmask |-> Empty, broadaddr |-> Empty]

Init ==
    /\ plugged = Cardinality(Name)
    /\ index = CHOOSE f \in [Name -> 1..plugged] : \A n, m \in Name : f[n] = f[m] => n = m
    /\ pc = "idle" /\ OnlyRunning \in BOOLEAN
    /\ ifAddrStruct = {} /\ ifa = NoEntry /\ ifIndex = 0
    /\ ifMap = NoMap /\ leaked = 0
    /\ reported = {} /\ at = index

-----------------------------------------------------------------------------
(* The system; what it does after the map is returned is of no concern. *)

Unplug(n) ==
    /\ pc # "done"
    /\ index[n] # 0
    /\ index' = [index EXCEPT ![n] = 0]
    /\ UNCHANGED <<plugged, pc, OnlyRunning, ifAddrStruct, ifa, ifIndex, ifMap, leaked, reported, at>>

Plug(n) ==
    /\ pc # "done"
    /\ index[n] = 0
    /\ plugged < MaxIndex
    /\ plugged' = plugged + 1
    /\ index' = [index EXCEPT ![n] = plugged + 1]
    /\ UNCHANGED <<pc, OnlyRunning, ifAddrStruct, ifa, ifIndex, ifMap, leaked, reported, at>>

-----------------------------------------------------------------------------
(* getStateMap *)

Getifaddrs ==
    /\ pc = "idle"
    /\ reported' = {e \in Entry : index[e.name] # 0}
    /\ ifAddrStruct' = reported'
    /\ at' = index
    /\ pc' = "walk"
    /\ UNCHANGED <<kernelVars, OnlyRunning, ifa, ifIndex, ifMap, leaked>>

\* getifaddrs fails: the exception is caught, the map is empty.
GetifaddrsFails ==
    /\ pc = "idle"
    /\ reported' = {}
    /\ pc' = "done"
    /\ UNCHANGED <<kernelVars, OnlyRunning, ifAddrStruct, ifa, ifIndex, ifMap, leaked, at>>

\* Entries the loop takes: an address of one of the two families, and the
\* device is running if only those are wanted.
Accepted(e) ==
    /\ e.family \in {"INET", "INET6"}
    /\ OnlyRunning => "RUNNING" \in e.flags

Skip ==
    /\ pc = "walk"
    /\ \E e \in ifAddrStruct : ~Accepted(e) /\ ifAddrStruct' = ifAddrStruct \ {e}
    /\ UNCHANGED <<kernelVars, pc, OnlyRunning, ifa, ifIndex, ifMap, leaked, reported, at>>

\* test_and_add asks for the index of the name.
LookUp ==
    /\ pc = "walk"
    /\ \E e \in ifAddrStruct :
        /\ Accepted(e)
        /\ ifa' = e
        /\ ifIndex' = index[e.name]
        /\ ifAddrStruct' = ifAddrStruct \ {e}
    /\ pc' = "found"
    /\ UNCHANGED <<kernelVars, OnlyRunning, ifMap, leaked, reported, at>>

\* Variant: the socket is closed only on the way that failed.
requestMtuSwapped(hasSocket) ==
    [mtu |-> hasSocket /\ index[ifa.name] # 0,
     leaks |-> IF hasSocket /\ index[ifa.name] # 0 THEN 1 ELSE 0]

\* requestMtu, if there is a socket to be had, asks by name once more; the
\* socket of a failed question stays open.
requestMtu(hasSocket) ==
    [mtu |-> hasSocket /\ index[ifa.name] # 0,
     leaks |-> IF hasSocket /\ index[ifa.name] = 0 THEN 1 ELSE 0]

NewInterface(mtuKnown) ==
    [m_name |-> ifa.name, m_addressList |-> <<>>, m_maskList |-> <<>>,
     m_broadcastList |-> <<>>, m_up |-> FALSE, m_running |-> FALSE, mtu |-> mtuKnown]

\* Variant: a list that has an address already is left alone.
AddFirst(list, a) == IF empty(a) \/ list # <<>> THEN list ELSE Append(list, a)

\* addAddress, addMask and addBroadcast
Add(list, a) ==
    IF empty(a) \/ \E i \in 1..Len(list) : Equal(list[i], a) THEN list ELSE Append(list, a)

\* Both flags are written to m_up, and both are "&&"ed: is any flag set?
Updated(interface) ==
    [interface EXCEPT
        !.m_up = ifa.flags # {},
        !.m_addressList = Add(@, ifa.addr),
        !.m_maskList =
            Add(@, IF is_v4(ifa.addr) /\ "LOOPBACK" \in ifa.flags THEN Empty ELSE ifa.netmask),
        !.m_broadcastList =
            Add(@, IF is_v4(ifa.addr) /\ "BROADCAST" \in ifa.flags THEN ifa.broadaddr ELSE Empty)]

\* Variant: the iterator stays at the first device.
InsertFirst ==
    /\ pc = "found"
    /\ \E hasSocket \in BOOLEAN :
        LET made == requestMtu(hasSocket)
        IN  IF ifMap # NoMap
            THEN /\ ifMap' = [i \in DOMAIN ifMap |-> Updated(ifMap[i])]
                 /\ leaked' = leaked
            ELSE /\ ifMap' = [i \in {ifIndex} |-> IF ifIndex > 0 THEN Updated(NewInterface(made.mtu))
                                                  ELSE NewInterface(made.mtu)]
                 /\ leaked' = leaked + made.leaks
    /\ pc' = "walk"
    /\ UNCHANGED <<kernelVars, OnlyRunning, ifAddrStruct, ifa, ifIndex, reported, at>>

\* The rest of test_and_add, and of the loop's body: the index 0 of a device
\* that is gone gets a place in the map like any other.
Insert ==
    /\ pc = "found"
    /\ \E hasSocket \in BOOLEAN :
        LET known == ifIndex \in DOMAIN ifMap
            made == requestMtu(hasSocket)
            interface == IF known THEN ifMap[ifIndex] ELSE NewInterface(made.mtu)
            stored == IF ifIndex > 0 THEN Updated(interface) ELSE interface
        IN  /\ ifMap' = [i \in DOMAIN ifMap \cup {ifIndex} |->
                            IF i = ifIndex THEN stored ELSE ifMap[i]]
            /\ leaked' = IF known THEN leaked ELSE leaked + made.leaks
    /\ pc' = "walk"
    /\ UNCHANGED <<kernelVars, OnlyRunning, ifAddrStruct, ifa, ifIndex, reported, at>>

Done ==
    /\ pc = "walk"
    /\ ifAddrStruct = {}
    /\ pc' = "done"
    /\ UNCHANGED <<kernelVars, OnlyRunning, ifAddrStruct, ifa, ifIndex, ifMap, leaked, reported, at>>

Next ==
    \/ \E n \in Name : Unplug(n) \/ Plug(n)
    \/ Getifaddrs \/ GetifaddrsFails \/ Skip \/ LookUp \/ Insert \/ Done

Spec == Init /\ [][Next]_vars

-----------------------------------------------------------------------------
(* The operations on the map: the addresses they collect from all devices. *)

Collect(list(_), Test(_)) ==
    {a \in UNION {ToSet(list(ifMap[i])) : i \in DOMAIN ifMap} : Test(a)}

\* Variant: the question for the loopback addresses is asked the wrong way round.
getAllIpv4IpInverted(bWithLoopback) ==
    Collect(LAMBDA if : if.m_addressList,
            LAMBDA a : is_v4(a) /\ (bWithLoopback \/ is_loopback(a)))

getAllIpv4Ip(bWithLoopback) ==
    Collect(LAMBDA if : if.m_addressList,
            LAMBDA a : is_v4(a) /\ (bWithLoopback \/ ~is_loopback(a)))

getAllIpv6Ip(bWithLoopback) ==
    Collect(LAMBDA if : if.m_addressList,
            LAMBDA a : is_v6(a) /\ (bWithLoopback \/ ~is_loopback(a)))

getAllIpv4Submask ==
    Collect(LAMBDA if : if.m_maskList, LAMBDA a : is_v4(a) /\ is_submask(a))

getAllIpv4Broadcast ==
    Collect(LAMBDA if : if.m_broadcastList, LAMBDA a : is_v4(a) /\ is_broadcast(a))

-----------------------------------------------------------------------------
(* Properties *)

\* Entries of devices that stayed from getifaddrs until the map was returned.
Stayed == {e \in reported : Accepted(e) /\ index[e.name] = at[e.name]}

\* A returned map has, for every device that did not go away meanwhile, all the
\* addresses, masks and broadcast addresses the system reported of it.
AddressesComplete ==
    pc = "done" => \A e \in Stayed :
        /\ at[e.name] \in DOMAIN ifMap
        /\ LET if == ifMap[at[e.name]]
           IN  /\ Contains(if.m_addressList, e.addr)
               /\ "LOOPBACK" \notin e.flags /\ ~empty(e.netmask)
                    => Contains(if.m_maskList, e.netmask)
               /\ is_v4(e.addr) /\ "BROADCAST" \in e.flags /\ ~empty(e.broadaddr)
                    => Contains(if.m_broadcastList, e.broadaddr)

\* No address is listed twice for a device, and none for a device the system
\* did not report it of, however devices come and go during the walk.
AddressesAreTheirs ==
    \A i \in DOMAIN ifMap :
        /\ IsInjective(ifMap[i].m_addressList) /\ IsInjective(ifMap[i].m_maskList)
        /\ \A k \in 1..Len(ifMap[i].m_addressList) : \E e \in reported :
               Accepted(e) /\ e.name = ifMap[i].m_name /\ e.addr = ifMap[i].m_addressList[k]

\* getAllIpv4Ip, getAllIpv6Ip and getAllIpv4Submask find what the running
\* devices that stayed have, the loopback addresses only when asked for.
GetAllComplete ==
    pc = "done" /\ OnlyRunning => \A e \in Stayed : \A bWithLoopback \in BOOLEAN :
        LET wanted == bWithLoopback \/ ~is_loopback(e.addr)
        IN  /\ e.addr \in getAllIpv4Ip(bWithLoopback) <=> (is_v4(e.addr) /\ wanted)
            /\ e.addr \in getAllIpv6Ip(bWithLoopback) <=> (is_v6(e.addr) /\ wanted)
            /\ is_v4(e.addr) /\ "LOOPBACK" \notin e.flags /\ is_submask(e.netmask)
                 => e.netmask \in getAllIpv4Submask

\* Where every device stays requestMtu leaves no socket open; one that goes away
\* costs at most one, and the entry for the index 0 one more.
LeaksBounded ==
    LET departures == Cardinality({n \in Name : index[n] = 0}) + plugged - Cardinality(Name)
    IN  IF index = at THEN leaked = 0 ELSE leaked <= departures + 1

\* last is the highest address of a's network.  An octet of a network mask cuts
\* the octets of addresses into blocks of 256 minus its value.
IsLast(last, a, m) ==
    /\ is_v4(last)
    /\ \A i \in 1..4 :
         LET block == 256 - m.words[i]
         IN  last.words[i] = (a.words[i] \div block) * block + block - 1

\* The broadcast address CIpAddress derives from an address and a mask of a
\* device is the highest address of that network, also where it ends inside an
\* octet, and there is none for two families.
BroadcastIsLast ==
    pc = "done" => \A i \in DOMAIN ifMap :
        \A a \in ToSet(ifMap[i].m_addressList) : \A m \in ToSet(ifMap[i].m_maskList) :
            IF is_v4(a) /\ is_v4(m) THEN IsLast(broadcast(a, m), a, m)
            ELSE empty(broadcast(a, m))

\* IpAddress.hpp:105 "return ture if containing address is a submask": the
\* masks of the devices are.
MasksRecognised ==
    \A i \in DOMAIN ifMap : \A m \in ToSet(ifMap[i].m_maskList) : is_submask(m)

\* InterfacesLookup.hpp:53 "get a map of networkdevices and concerning network
\* addresses": what is in the map is a device, so it has an index.
OnlyDevices == 0 \notin DOMAIN ifMap

\* InterfacesLookup.hpp:65 "get all local Ipv4 broadcast addressess".
BroadcastsFound ==
    pc = "done" /\ OnlyRunning => \A e \in Stayed :
        is_v4(e.addr) /\ "BROADCAST" \in e.flags /\ ~empty(e.broadaddr)
            => e.broadaddr \in getAllIpv4Broadcast
=============================================================================
