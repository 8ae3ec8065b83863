----------------------- MODULE InterfacesLookupProofs -----------------------
(***************************************************************************)
(* The theorems about CNetInterface, for any devices, any entries that     *)
(* getifaddrs reports of them and any number of devices that come and go.  *)
(*                                                                         *)
(* getStateMap trusts that the index it asks for is that of the entry it   *)
(* is at.  That holds as long as the kernel gives an index to one name     *)
(* only: the invariant says so of the indexes of the present, of those at  *)
(* the time of getifaddrs and of those in the map (Owned), and that a name *)
(* whose index has changed never gets the old one back (Indexes).          *)
(***************************************************************************)
EXTENDS InterfacesLookup, FiniteSetTheorems, FunctionTheorems, SequenceTheorems, TLAPS

\* The kernel's indexes: one for a name, and each for one name only, also when
\* the present ones are compared with those at the time of getifaddrs.
Indexes ==
    /\ plugged \in 0..MaxIndex
    /\ index \in [Name -> 0..plugged] /\ at \in [Name -> 0..plugged]
    /\ \A n, m \in Name : index[n] # 0 /\ index[n] = index[m] => n = m
    /\ \A n, m \in Name : at[n] # 0 /\ at[n] = at[m] => n = m
    /\ \A n, m \in Name : at[n] # 0 /\ at[n] = index[m] => n = m

\* No name but n has, or had at the time of getifaddrs, the index i.
Owned(i, n) == i <= plugged /\ \A m \in Name : (index[m] = i \/ at[m] = i) => m = n

\* What getifaddrs returned is of devices that were there, and the loop works
\* on an entry it takes, with the index that name had when it was asked for.
Walk ==
    /\ pc \in {"idle", "walk", "found", "done"} /\ ifIndex \in 0..plugged
    /\ reported \subseteq Entry /\ ifAddrStruct \subseteq reported
    /\ \A e \in reported : at[e.name] # 0
    /\ pc = "idle" => reported = {}
    /\ pc = "done" => ifAddrStruct = {}
    /\ pc = "found" =>
         /\ ifa \in reported \ ifAddrStruct /\ Accepted(ifa)
         /\ ifIndex # 0 => Owned(ifIndex, ifa.name)
         /\ index[ifa.name] = at[ifa.name] => ifIndex = at[ifa.name]
         /\ ifIndex # 0 /\ ifIndex \in DOMAIN ifMap => ifMap[ifIndex].m_name = ifa.name

\* A list of addresses, none of them empty, and none twice.
IsList(list) == /\ list \in Seq(Address) /\ IsInjective(list)
                /\ \A k \in 1..Len(list) : ~empty(list[k])

\* The addresses of a device are its own, its masks those of its addresses.
Theirs(if) ==
    /\ \A k \in 1..Len(if.m_addressList) : \E e \in reported :
           Accepted(e) /\ e.name = if.m_name /\ e.addr = if.m_addressList[k]
    /\ \A k \in 1..Len(if.m_maskList) : \E e \in reported :
           Accepted(e) /\ e.name = if.m_name /\ e.netmask = if.m_maskList[k]

\* The map's devices; the index 0 of those that are gone never gets an address.
Devices ==
    /\ DOMAIN ifMap \subseteq 0..plugged
    /\ pc = "idle" => ifMap = NoMap
    /\ \A i \in DOMAIN ifMap :
        /\ ifMap[i] \in Interface
        /\ IsList(ifMap[i].m_addressList) /\ IsList(ifMap[i].m_maskList)
        /\ IsList(ifMap[i].m_broadcastList)
        /\ Theirs(ifMap[i])
        /\ i # 0 => Owned(i, ifMap[i].m_name)

\* An entry the loop has dealt with.
Visited(e) == e \in reported \ ifAddrStruct /\ ~(pc = "found" /\ e = ifa)

\* All of an entry is in the map, under the index of that time.
InMap(e) ==
    /\ at[e.name] \in DOMAIN ifMap
    /\ LET if == ifMap[at[e.name]]
       IN  /\ Contains(if.m_addressList, e.addr)
           /\ "LOOPBACK" \notin e.flags /\ ~empty(e.netmask) => Contains(if.m_maskList, e.netmask)
           /\ is_v4(e.addr) /\ "BROADCAST" \in e.flags /\ ~empty(e.broadaddr)
                => Contains(if.m_broadcastList, e.broadaddr)

Complete == \A e \in reported :
    Visited(e) /\ Accepted(e) /\ index[e.name] = at[e.name] => InMap(e)

\* Indexes that were given and have gone with their device.
Departed == {i \in 1..plugged : \A n \in Name : index[n] # i}

\* Every socket that was left open belongs to an entry of the map whose index
\* is 0 or has gone, and to a name that is not what it was.
Leaks ==
    /\ leaked \in Nat
    /\ leaked <= Cardinality(DOMAIN ifMap \cap (Departed \cup {0}))
    /\ leaked # 0 => \E n \in Name : at[n] # 0 /\ index[n] # at[n]

LookupInv == OnlyRunning \in BOOLEAN /\ Indexes /\ Walk /\ Devices /\ Complete /\ Leaks

-----------------------------------------------------------------------------
(* The lists of addresses *)

\* An address is its family and its words.
LEMMA AddressFields ==
  ASSUME NEW a \in Address PROVE a = [family |-> a.family, words |-> a.words]
  BY DEF Address

\* operator== tells addresses apart, but for the empty one.
LEMMA EqualMeansSame ==
  ASSUME NEW a \in Address, NEW b \in Address
  PROVE  Equal(a, b) <=> a = b /\ ~empty(a)
<1>1. a.family = b.family /\ a.words = b.words => a = b
  BY AddressFields
<1> QED
  BY <1>1 DEF Equal, empty

\* A list contains what is at one of its places.
LEMMA ContainsPlace == \A S : \A list \in Seq(S) : \A a :
  Contains(list, a) <=> \E k \in 1..Len(list) : list[k] = a
  BY DEF Contains

\* addAddress, addMask and addBroadcast: the list keeps what it has, in its
\* place, gets the new address if there is one, and has none twice.
LEMMA AddFacts ==
  ASSUME NEW list, IsList(list), NEW a \in Address
  PROVE  /\ IsList(Add(list, a))
         /\ \A k \in 1..Len(list) : \E j \in 1..Len(Add(list, a)) : Add(list, a)[j] = list[k]
         /\ ~empty(a) => \E j \in 1..Len(Add(list, a)) : Add(list, a)[j] = a
         /\ \A j \in 1..Len(Add(list, a)) :
              \/ ~empty(a) /\ Add(list, a)[j] = a
              \/ \E k \in 1..Len(list) : Add(list, a)[j] = list[k]
<1>1. list \in Seq(Address) /\ Len(list) \in Nat /\ \A k \in 1..Len(list) : list[k] \in Address
  BY DEF IsList
<1>2. CASE empty(a)
  BY <1>1, <1>2 DEF Add
<1>3. CASE ~empty(a) /\ \E i \in 1..Len(list) : Equal(list[i], a)
  <2>1. PICK i \in 1..Len(list) : list[i] = a
    BY <1>1, <1>3, EqualMeansSame
  <2>2. Add(list, a) = list
    BY <1>3 DEF Add
  <2> QED
    BY <1>1, <1>3, <2>1, <2>2
<1>4. CASE ~empty(a) /\ \A i \in 1..Len(list) : ~Equal(list[i], a)
  <2> DEFINE new == Append(list, a)
  <2>1. Add(list, a) = new
    BY <1>4 DEF Add
  <2>2. /\ new \in Seq(Address) /\ Len(new) = Len(list) + 1
        /\ \A k \in 1..Len(list) : new[k] = list[k]
        /\ new[Len(list) + 1] = a
    BY <1>1
  <2>3. \A k \in 1..Len(list) : list[k] # a
    BY <1>1, <1>4, EqualMeansSame
  <2> HIDE DEF new
  <2>4. \A k \in 1..Len(new) : k \in 1..Len(list) \/ k = Len(list) + 1
    BY <1>1, <2>2
  <2>5. \A k \in 1..Len(new) : ~empty(new[k])
    BY <1>4, <2>2, <2>4 DEF IsList
  <2>6. IsInjective(new)
    <3>1. \A k, j \in 1..Len(list) : list[k] = list[j] => k = j
      BY <1>1 DEF IsList, IsInjective
    <3>2. DOMAIN new = 1..Len(new)
      BY <2>2
    <3> QED
      BY <2>2, <2>3, <2>4, <3>1, <3>2 DEF IsInjective
  <2>7. IsList(new)
    BY <2>2, <2>5, <2>6 DEF IsList
  <2>8. \A k \in 1..Len(list) : k \in 1..Len(new) /\ new[k] = list[k]
    BY <1>1, <2>2
  <2>9. Len(list) + 1 \in 1..Len(new)
    BY <1>1, <2>2
  <2> QED
    BY <1>4, <2>1, <2>2, <2>4, <2>7, <2>8, <2>9
<1> QED
  BY <1>2, <1>3, <1>4

\* A list without addresses.
LEMMA NoAddresses == IsList(<<>>) /\ Len(<<>>) = 0
<1>1. <<>> \in Seq(Address) /\ Len(<<>>) = 0 /\ DOMAIN <<>> = {}
  BY EmptySeq
<1> QED
  BY <1>1 DEF IsList, IsInjective

-----------------------------------------------------------------------------
(* What the steps of the system do *)

\* Devices that come and go: an index that a name has afterwards and that was
\* given before is one it had before.
LEMMA KernelFacts ==
  ASSUME Indexes, NEW n \in Name, Unplug(n) \/ Plug(n)
  PROVE  /\ UNCHANGED <<pc, OnlyRunning, ifAddrStruct, ifa, ifIndex, ifMap, leaked, reported, at>>
         /\ Indexes' /\ plugged <= plugged'
         /\ \A m \in Name : index'[m] # 0 /\ index'[m] <= plugged => index'[m] = index[m]
<1>1. /\ plugged \in Nat /\ MaxIndex \in Nat
      /\ \A m \in Name : index[m] \in 0..plugged /\ at[m] \in 0..plugged
  BY NameAssumption DEF Indexes
<1>2. CASE Unplug(n)
  <2>1. /\ index' = [index EXCEPT ![n] = 0] /\ plugged' = plugged /\ at' = at
    BY <1>2 DEF Unplug
  <2>2. \A m \in Name : index'[m] = IF m = n THEN 0 ELSE index[m]
    BY <2>1 DEF Indexes
  <2>3. index' \in [Name -> 0..plugged']
    BY <1>1, <2>1 DEF Indexes
  <2>4. Indexes'
    BY <1>1, <2>1, <2>2, <2>3 DEF Indexes
  <2> QED
    BY <1>1, <1>2, <2>1, <2>2, <2>4 DEF Unplug
<1>3. CASE Plug(n)
  <2>1. /\ index' = [index EXCEPT ![n] = plugged + 1] /\ plugged' = plugged + 1 /\ at' = at
        /\ plugged < MaxIndex
    BY <1>3 DEF Plug
  <2>2. \A m \in Name : index'[m] = IF m = n THEN plugged + 1 ELSE index[m]
    BY <2>1 DEF Indexes
  <2>3. index' \in [Name -> 0..plugged'] /\ at' \in [Name -> 0..plugged']
    BY <1>1, <2>1 DEF Indexes
  <2>4. Indexes'
    BY <1>1, <2>1, <2>2, <2>3 DEF Indexes
  <2> QED
    BY <1>1, <1>3, <2>1, <2>2, <2>4 DEF Plug
<1> QED
  BY <1>2, <1>3

\* An index that is gone stays gone.
LEMMA DepartedGrows ==
  ASSUME Indexes, NEW n \in Name, Unplug(n) \/ Plug(n)
  PROVE  Departed \subseteq Departed'
<1> SUFFICES ASSUME NEW i \in Departed PROVE i \in Departed'
  OBVIOUS
<1>1. i \in 1..plugged /\ \A m \in Name : index[m] # i
  BY DEF Departed
<1>2. plugged \in Nat /\ plugged' \in Nat /\ plugged <= plugged'
  BY KernelFacts, NameAssumption DEF Indexes
<1>3. \A m \in Name : index'[m] # i
  BY <1>1, <1>2, KernelFacts
<1> QED
  BY <1>1, <1>2, <1>3 DEF Departed

\* The keys of the map are few.
LEMMA KeysFinite ==
  ASSUME Indexes, Devices, NEW S
  PROVE  IsFiniteSet(DOMAIN ifMap \cap S) /\ Cardinality(DOMAIN ifMap \cap S) \in Nat
<1>1. DOMAIN ifMap \cap S \subseteq 0..plugged /\ 0 \in Int /\ plugged \in Int
  BY NameAssumption DEF Indexes, Devices
<1>2. IsFiniteSet(0..plugged)
  BY <1>1, FS_Interval
<1>3. IsFiniteSet(DOMAIN ifMap \cap S)
  BY <1>1, <1>2, FS_Subset
<1> QED
  BY <1>3, FS_CardinalityType

\* They leave what the walk has found as it is.
LEMMA StepKernel ==
  ASSUME LookupInv, NEW n \in Name, Unplug(n) \/ Plug(n) PROVE LookupInv'
<1> USE DEF LookupInv
<1>1. /\ UNCHANGED <<pc, OnlyRunning, ifAddrStruct, ifa, ifIndex, ifMap, leaked, reported, at>>
      /\ Indexes' /\ plugged <= plugged'
      /\ \A m \in Name : index'[m] # 0 /\ index'[m] <= plugged => index'[m] = index[m]
  BY KernelFacts
<1>2. /\ plugged \in Nat /\ plugged' \in Nat
      /\ \A m \in Name : index[m] \in Nat /\ index'[m] \in Nat /\ at[m] \in 0..plugged
  BY <1>1, NameAssumption DEF Indexes
<1>3. ASSUME NEW i \in Nat \ {0}, NEW m, Owned(i, m) PROVE Owned(i, m)'
  BY <1>1, <1>2, <1>3 DEF Owned
<1>4. ASSUME NEW e \in reported, index'[e.name] = at[e.name]
      PROVE  index[e.name] = at[e.name]
  <2>1. e.name \in Name /\ at[e.name] # 0
    BY EntryAssumption DEF Walk
  <2> QED
    BY <1>1, <1>2, <1>4, <2>1
<1>5. Walk'
  <2>1. pc = "found" => ifa \in reported
    BY DEF Walk
  <2>2. ifIndex' \in 0..plugged'
    BY <1>1, <1>2 DEF Walk
  <2> QED
    BY <1>1, <1>2, <1>3, <1>4, <2>1, <2>2 DEF Walk, Accepted
<1>6. Devices'
  <2>1. DOMAIN ifMap' \subseteq 0..plugged'
    BY <1>1, <1>2 DEF Devices
  <2>2. ASSUME NEW i \in DOMAIN ifMap, i # 0 PROVE Owned(i, ifMap[i].m_name)'
    <3>1. i \in Nat \ {0}
      BY <1>2, <2>2 DEF Devices
    <3>2. Owned(i, ifMap[i].m_name)
      BY <2>2 DEF Devices
    <3>3. Owned(i, ifMap[i].m_name)' <=> (i <= plugged' /\ \A m \in Name : (index'[m] = i \/ at'[m] = i) => m = ifMap[i].m_name)
      BY <1>1 DEF Owned
    <3> QED
      BY <1>1, <1>2, <3>1, <3>2, <3>3 DEF Owned
  <2>3. \A i \in DOMAIN ifMap : Theirs(ifMap[i]) => Theirs(ifMap[i])'
    BY <1>1 DEF Theirs, Accepted
  <2> QED
    BY <1>1, <2>1, <2>2, <2>3 DEF Devices
<1>7. Complete'
  <2>1. \A e : (Visited(e)' <=> Visited(e)) /\ (Accepted(e)' <=> Accepted(e)) /\ (InMap(e)' <=> InMap(e))
    BY <1>1 DEF Visited, Accepted, InMap
  <2> QED
    BY <1>1, <1>4, <2>1 DEF Complete
<1>8. Leaks'
  <2> DEFINE old == DOMAIN ifMap \cap (Departed \cup {0})
             new == DOMAIN ifMap' \cap (Departed' \cup {0})
  <2>1. old \subseteq new
    BY <1>1, DepartedGrows
  <2>2. IsFiniteSet(old) /\ IsFiniteSet(new) /\ Cardinality(old) \in Nat /\ Cardinality(new) \in Nat
    <3>1. new = DOMAIN ifMap \cap (Departed' \cup {0})
      BY <1>1
    <3> QED
      BY <3>1, KeysFinite
  <2> HIDE DEF old, new
  <2>3. Cardinality(old) <= Cardinality(new)
    BY <2>1, <2>2, FS_Subset
  <2>4. leaked \in Nat /\ leaked <= Cardinality(old)
    BY DEF Leaks, old
  <2>5. leaked' \in Nat /\ leaked' <= Cardinality(new)
    BY <1>1, <2>2, <2>3, <2>4
  <2>6. \A m \in Name : at[m] # 0 /\ index[m] # at[m] => index'[m] # at[m]
    BY <1>1, <1>2
  <2> QED
    BY <1>1, <2>5, <2>6 DEF Leaks, new
<1> QED
  BY <1>1, <1>5, <1>6, <1>7, <1>8

-----------------------------------------------------------------------------
(* The steps of getStateMap *)

\* getifaddrs reports devices that are there, and no index is known yet.
LEMMA StepGetifaddrs == ASSUME LookupInv, Getifaddrs PROVE LookupInv'
<1> USE DEF LookupInv
<1>1. /\ pc = "idle" /\ pc' = "walk" /\ reported' = {e \in Entry : index[e.name] # 0}
      /\ ifAddrStruct' = reported' /\ at' = index
      /\ UNCHANGED <<index, plugged, OnlyRunning, ifa, ifIndex, ifMap, leaked>>
  BY DEF Getifaddrs, kernelVars
<1>2. ifMap = NoMap /\ DOMAIN ifMap = {}
  BY <1>1 DEF Devices, NoMap
<1>3. Indexes'
  BY <1>1 DEF Indexes
<1>4. Walk'
  BY <1>1, <1>3 DEF Walk
<1>5. Devices'
  BY <1>1, <1>2 DEF Devices
<1>6. Complete'
  BY <1>1 DEF Complete, Visited
<1>7. Leaks'
  <2>1. DOMAIN ifMap \cap (Departed \cup {0}) = {}
    BY <1>2
  <2>2. leaked = 0
    BY <2>1, FS_EmptySet DEF Leaks
  <2>3. DOMAIN ifMap' \cap (Departed' \cup {0}) = {}
    BY <1>1, <1>2
  <2>4. Cardinality(DOMAIN ifMap' \cap (Departed' \cup {0})) = 0
    BY <2>3, FS_EmptySet
  <2>5. leaked' = 0
    BY <1>1, <2>2
  <2> QED
    BY <2>4, <2>5 DEF Leaks
<1> QED
  BY <1>1, <1>3, <1>4, <1>5, <1>6, <1>7

\* Without a list there is nothing to walk.
LEMMA StepFails == ASSUME LookupInv, GetifaddrsFails PROVE LookupInv'
<1> USE DEF LookupInv
<1>1. /\ pc = "idle" /\ pc' = "done" /\ reported' = {} /\ reported = {} /\ ifAddrStruct = {}
      /\ UNCHANGED <<index, plugged, OnlyRunning, ifAddrStruct, ifa, ifIndex, ifMap, leaked, at>>
  BY DEF GetifaddrsFails, kernelVars, Walk
<1>2. ifMap = NoMap /\ DOMAIN ifMap = {}
  BY <1>1 DEF Devices, NoMap
<1>3. Indexes' /\ Walk'
  BY <1>1 DEF Indexes, Walk
<1>4. Devices'
  BY <1>1, <1>2 DEF Devices
<1>5. Complete'
  BY <1>1 DEF Complete, Visited
<1>6. Leaks'
  BY <1>1 DEF Leaks, Departed
<1> QED
  BY <1>1, <1>3, <1>4, <1>5, <1>6

\* What the parts of the invariant are about that a step of the loop leaves alone.
LEMMA LoopKeeps ==
  ASSUME LookupInv,
         UNCHANGED <<index, plugged, OnlyRunning, ifMap, leaked, reported, at>>,
         pc # "idle", pc' # "idle"
  PROVE  /\ OnlyRunning' \in BOOLEAN /\ Indexes' /\ Devices' /\ Leaks'
         /\ \A e : (Accepted(e)' <=> Accepted(e)) /\ (InMap(e)' <=> InMap(e))
         /\ \A i, n : Owned(i, n)' <=> Owned(i, n)
<1> USE DEF LookupInv
<1>1. Indexes' /\ Leaks'
  BY DEF Indexes, Leaks, Departed
<1>2. \A e : (Accepted(e)' <=> Accepted(e)) /\ (InMap(e)' <=> InMap(e))
  BY DEF Accepted, InMap
<1>3. \A i, n : Owned(i, n)' <=> Owned(i, n)
  BY DEF Owned
<1>4. \A if : Theirs(if)' <=> Theirs(if)
  BY DEF Theirs, Accepted
<1>5. Devices'
  BY <1>3, <1>4 DEF Devices
<1> QED
  BY <1>1, <1>2, <1>3, <1>5

\* An entry that is not wanted is passed over.
LEMMA StepSkip == ASSUME LookupInv, Skip PROVE LookupInv'
<1> USE DEF LookupInv
<1>1. PICK e \in ifAddrStruct :
        /\ ~Accepted(e) /\ ifAddrStruct' = ifAddrStruct \ {e} /\ pc = "walk" /\ pc' = pc
        /\ UNCHANGED <<index, plugged, OnlyRunning, ifa, ifIndex, ifMap, leaked, reported, at>>
  BY DEF Skip, kernelVars
<1>2. /\ OnlyRunning' \in BOOLEAN /\ Indexes' /\ Devices' /\ Leaks'
      /\ \A x : (Accepted(x)' <=> Accepted(x)) /\ (InMap(x)' <=> InMap(x))
      /\ \A i, n : Owned(i, n)' <=> Owned(i, n)
  BY <1>1, LoopKeeps
<1>3. Walk'
  BY <1>1, <1>2 DEF Walk
<1>4. \A x : Visited(x)' => Visited(x) \/ x = e
  BY <1>1 DEF Visited
<1>5. Complete'
  BY <1>1, <1>2, <1>4 DEF Complete
<1> QED
  BY <1>2, <1>3, <1>5

\* The index of a name that is there belongs to that name alone, so the device
\* the map has under it, if any, is the entry's.
LEMMA StepLookUp == ASSUME LookupInv, LookUp PROVE LookupInv'
<1> USE DEF LookupInv
<1>1. PICK e \in ifAddrStruct :
        /\ Accepted(e) /\ ifa' = e /\ ifIndex' = index[e.name]
        /\ ifAddrStruct' = ifAddrStruct \ {e} /\ pc = "walk" /\ pc' = "found"
        /\ UNCHANGED <<index, plugged, OnlyRunning, ifMap, leaked, reported, at>>
  BY DEF LookUp, kernelVars
<1>2. /\ OnlyRunning' \in BOOLEAN /\ Indexes' /\ Devices' /\ Leaks'
      /\ \A x : (Accepted(x)' <=> Accepted(x)) /\ (InMap(x)' <=> InMap(x))
      /\ \A i, n : Owned(i, n)' <=> Owned(i, n)
  BY <1>1, LoopKeeps
<1>3. e \in reported /\ e.name \in Name /\ index[e.name] \in 0..plugged
  BY <1>1, EntryAssumption DEF Walk, Indexes
<1>4. index[e.name] # 0 => Owned(index[e.name], e.name)
  BY <1>3, NameAssumption DEF Owned, Indexes
<1>5. index[e.name] # 0 /\ index[e.name] \in DOMAIN ifMap
        => ifMap[index[e.name]].m_name = e.name
  BY <1>3 DEF Devices, Owned
<1>6. Walk'
  BY <1>1, <1>2, <1>3, <1>4, <1>5 DEF Walk
<1>7. \A x : Visited(x)' => Visited(x)
  BY <1>1 DEF Visited
<1>8. Complete'
  BY <1>1, <1>2, <1>7 DEF Complete
<1> QED
  BY <1>2, <1>6, <1>8

\* The end of the list.
LEMMA StepDone == ASSUME LookupInv, Done PROVE LookupInv'
<1> USE DEF LookupInv
<1>1. /\ pc = "walk" /\ pc' = "done" /\ ifAddrStruct = {} /\ ifAddrStruct' = {}
      /\ UNCHANGED <<index, plugged, OnlyRunning, ifa, ifIndex, ifMap, leaked, reported, at>>
  BY DEF Done, kernelVars
<1>2. /\ OnlyRunning' \in BOOLEAN /\ Indexes' /\ Devices' /\ Leaks'
      /\ \A x : (Accepted(x)' <=> Accepted(x)) /\ (InMap(x)' <=> InMap(x))
      /\ \A i, n : Owned(i, n)' <=> Owned(i, n)
  BY <1>1, LoopKeeps
<1>3. Walk'
  BY <1>1, <1>2 DEF Walk
<1>4. \A x : Visited(x)' => Visited(x)
  BY <1>1 DEF Visited
<1>5. Complete'
  BY <1>1, <1>2, <1>4 DEF Complete
<1> QED
  BY <1>2, <1>3, <1>5

-----------------------------------------------------------------------------
(* An entry's addresses get into the map *)

\* A device of the map, with its lists.
Sound(if) ==
    /\ if \in Interface
    /\ IsList(if.m_addressList) /\ IsList(if.m_maskList) /\ IsList(if.m_broadcastList)
    /\ Theirs(if)

\* The present entry is one the loop takes, with addresses of its family.
LEMMA EntryFacts == ASSUME LookupInv, pc = "found"
  PROVE  /\ ifa \in reported /\ ifa.name \in Name /\ Accepted(ifa)
         /\ ifa.addr \in Address /\ ifa.netmask \in Address /\ ifa.broadaddr \in Address
         /\ ~empty(ifa.addr) /\ Empty \in Address /\ empty(Empty)
<1>1. ifa \in reported /\ ifa \in Entry /\ Accepted(ifa)
  BY DEF LookupInv, Walk
<1>2. ~empty(ifa.addr)
  BY <1>1, EntryAssumption DEF Accepted, empty, is_v4, is_v6
<1>3. <<>> \in Seq(Word)
  BY EmptySeq
<1>4. Empty \in Address /\ empty(Empty)
  BY <1>3 DEF Empty, Address, Family, empty
<1> QED
  BY <1>1, <1>2, <1>4, EntryAssumption

\* What a list gets of the entry is in it then, and it loses nothing.
LEMMA AddContains ==
  ASSUME NEW list, IsList(list), NEW a \in Address
  PROVE  /\ \A b : Contains(list, b) => Contains(Add(list, a), b)
         /\ ~empty(a) => Contains(Add(list, a), a)
<1>1. list \in Seq(Address) /\ Add(list, a) \in Seq(Address)
  BY AddFacts DEF IsList
<1>2. /\ \A k \in 1..Len(list) : \E j \in 1..Len(Add(list, a)) : Add(list, a)[j] = list[k]
      /\ ~empty(a) => \E j \in 1..Len(Add(list, a)) : Add(list, a)[j] = a
  BY AddFacts
<1>3. /\ \A b : Contains(list, b) <=> \E k \in 1..Len(list) : list[k] = b
      /\ \A b : Contains(Add(list, a), b) <=> \E k \in 1..Len(Add(list, a)) : Add(list, a)[k] = b
  BY <1>1, ContainsPlace
<1> QED
  BY <1>2, <1>3

\* The mask and the broadcast address the loop takes from the entry.
MaskOf(e) == IF is_v4(e.addr) /\ "LOOPBACK" \in e.flags THEN Empty ELSE e.netmask
BroadcastOf(e) == IF is_v4(e.addr) /\ "BROADCAST" \in e.flags THEN e.broadaddr ELSE Empty

\* The device of the entry gets what the entry has and keeps what it had.
LEMMA UpdatedFacts ==
  ASSUME LookupInv, pc = "found", NEW if, Sound(if), if.m_name = ifa.name
  PROVE  /\ Sound(Updated(if)) /\ Updated(if).m_name = ifa.name
         /\ \A a : /\ Contains(if.m_addressList, a) => Contains(Updated(if).m_addressList, a)
                   /\ Contains(if.m_maskList, a) => Contains(Updated(if).m_maskList, a)
                   /\ Contains(if.m_broadcastList, a) => Contains(Updated(if).m_broadcastList, a)
         /\ Contains(Updated(if).m_addressList, ifa.addr)
         /\ ~empty(MaskOf(ifa)) => Contains(Updated(if).m_maskList, MaskOf(ifa))
         /\ ~empty(BroadcastOf(ifa)) => Contains(Updated(if).m_broadcastList, BroadcastOf(ifa))
<1>1. /\ ifa.addr \in Address /\ MaskOf(ifa) \in Address /\ BroadcastOf(ifa) \in Address
      /\ ~empty(ifa.addr) /\ ifa \in reported /\ Accepted(ifa) /\ empty(Empty)
  BY EntryFacts DEF MaskOf, BroadcastOf
<1> DEFINE new == Updated(if)
<1>2. /\ if \in Interface
      /\ IsList(if.m_addressList) /\ IsList(if.m_maskList) /\ IsList(if.m_broadcastList)
  BY DEF Sound
<1>3. /\ IsList(Add(if.m_addressList, ifa.addr)) /\ IsList(Add(if.m_maskList, MaskOf(ifa)))
      /\ IsList(Add(if.m_broadcastList, BroadcastOf(ifa)))
  BY <1>1, <1>2, AddFacts
<1>4. /\ new \in Interface /\ new.m_name = if.m_name
      /\ new.m_addressList = Add(if.m_addressList, ifa.addr)
      /\ new.m_maskList = Add(if.m_maskList, MaskOf(ifa))
      /\ new.m_broadcastList = Add(if.m_broadcastList, BroadcastOf(ifa))
  <2>1. new = [if EXCEPT !.m_up = (ifa.flags # {}),
                         !.m_addressList = Add(if.m_addressList, ifa.addr),
                         !.m_maskList = Add(if.m_maskList, MaskOf(ifa)),
                         !.m_broadcastList = Add(if.m_broadcastList, BroadcastOf(ifa))]
    BY Zenon DEF Updated, MaskOf, BroadcastOf
  <2>2. /\ Add(if.m_addressList, ifa.addr) \in Seq(Address)
        /\ Add(if.m_maskList, MaskOf(ifa)) \in Seq(Address)
        /\ Add(if.m_broadcastList, BroadcastOf(ifa)) \in Seq(Address)
    BY <1>3 DEF IsList
  <2> HIDE DEF new
  <2> QED
    BY ONLY <1>2, <2>1, <2>2 DEF Interface
<1> HIDE DEF new
<1>5. Theirs(new)
  <2>1. ASSUME NEW k \in 1..Len(new.m_addressList)
        PROVE  \E e \in reported :
                 Accepted(e) /\ e.name = new.m_name /\ e.addr = new.m_addressList[k]
    <3>1. \/ new.m_addressList[k] = ifa.addr
          \/ \E j \in 1..Len(if.m_addressList) : new.m_addressList[k] = if.m_addressList[j]
      <4>1. \A j \in 1..Len(Add(if.m_addressList, ifa.addr)) :
              \/ Add(if.m_addressList, ifa.addr)[j] = ifa.addr
              \/ \E i \in 1..Len(if.m_addressList) :
                    Add(if.m_addressList, ifa.addr)[j] = if.m_addressList[i]
        BY <1>1, <1>2, AddFacts
      <4> QED
        BY <1>4, <4>1
    <3> QED
      BY <1>1, <1>4, <3>1 DEF Sound, Theirs
  <2>2. ASSUME NEW k \in 1..Len(new.m_maskList)
        PROVE  \E e \in reported :
                 Accepted(e) /\ e.name = new.m_name /\ e.netmask = new.m_maskList[k]
    <3>1. \/ ~empty(MaskOf(ifa)) /\ new.m_maskList[k] = MaskOf(ifa)
          \/ \E j \in 1..Len(if.m_maskList) : new.m_maskList[k] = if.m_maskList[j]
      <4>1. \A j \in 1..Len(Add(if.m_maskList, MaskOf(ifa))) :
              \/ ~empty(MaskOf(ifa)) /\ Add(if.m_maskList, MaskOf(ifa))[j] = MaskOf(ifa)
              \/ \E i \in 1..Len(if.m_maskList) :
                    Add(if.m_maskList, MaskOf(ifa))[j] = if.m_maskList[i]
        BY <1>1, <1>2, AddFacts
      <4> QED
        BY <1>4, <4>1
    <3>2. ~empty(MaskOf(ifa)) => MaskOf(ifa) = ifa.netmask
      BY <1>1 DEF MaskOf
    <3> QED
      BY <1>1, <1>4, <3>1, <3>2 DEF Sound, Theirs
  <2> QED
    BY <2>1, <2>2 DEF Theirs
<1>6. Sound(new)
  BY <1>3, <1>4, <1>5 DEF Sound
<1>7. \A a : /\ Contains(if.m_addressList, a) => Contains(new.m_addressList, a)
             /\ Contains(if.m_maskList, a) => Contains(new.m_maskList, a)
             /\ Contains(if.m_broadcastList, a) => Contains(new.m_broadcastList, a)
  BY <1>1, <1>4, AddContains, <1>2
<1>8. /\ Contains(new.m_addressList, ifa.addr)
      /\ ~empty(MaskOf(ifa)) => Contains(new.m_maskList, MaskOf(ifa))
      /\ ~empty(BroadcastOf(ifa)) => Contains(new.m_broadcastList, BroadcastOf(ifa))
  BY <1>1, <1>4, AddContains, <1>2
<1> QED
  <2>1. new = Updated(if)
    BY DEF new
  <2>2. Sound(new) /\ new.m_name = ifa.name
    BY <1>4, <1>6
  <2> QED
    BY ONLY <1>7, <1>8, <2>1, <2>2

\* A device the map does not have yet.
LEMMA NewFacts == ASSUME LookupInv, pc = "found", NEW hasSocket \in BOOLEAN
  PROVE  /\ Sound(NewInterface(requestMtu(hasSocket).mtu))
         /\ NewInterface(requestMtu(hasSocket).mtu).m_name = ifa.name
<1>1. requestMtu(hasSocket).mtu \in BOOLEAN /\ ifa.name \in Name
  BY EntryFacts DEF requestMtu
<1>2. IsList(<<>>) /\ <<>> \in Seq(Address) /\ Len(<<>>) = 0
  BY NoAddresses DEF IsList
<1> QED
  BY <1>1, <1>2 DEF NewInterface, Sound, Interface, Theirs

\* The entry gets into the map, under the index that was asked for.
LEMMA StepInsert == ASSUME LookupInv, Insert PROVE LookupInv'
<1> DEFINE known == ifIndex \in DOMAIN ifMap
           interface(h) == IF known THEN ifMap[ifIndex] ELSE NewInterface(requestMtu(h).mtu)
           stored(h) == IF ifIndex > 0 THEN Updated(interface(h)) ELSE interface(h)
<1>1. PICK hasSocket \in BOOLEAN :
        /\ ifMap' = [i \in DOMAIN ifMap \cup {ifIndex} |->
                        IF i = ifIndex THEN stored(hasSocket) ELSE ifMap[i]]
        /\ leaked' = IF known THEN leaked ELSE leaked + requestMtu(hasSocket).leaks
  BY DEF Insert
<1> DEFINE before == interface(hasSocket)
           after == stored(hasSocket)
<1>2. /\ pc = "found" /\ pc' = "walk"
      /\ UNCHANGED <<index, plugged, OnlyRunning, ifAddrStruct, ifa, ifIndex, reported, at>>
  BY DEF Insert, kernelVars
<1>3. /\ Indexes /\ Walk /\ Devices /\ Complete /\ Leaks /\ OnlyRunning \in BOOLEAN
      /\ plugged \in Nat /\ ifIndex \in Nat /\ ifIndex <= plugged
      /\ \A m \in Name : index[m] \in Nat /\ at[m] \in Nat
  BY NameAssumption DEF LookupInv, Indexes, Walk
<1>4. ifa \in reported /\ ifa.name \in Name /\ at[ifa.name] # 0 /\ Accepted(ifa)
  BY <1>2, <1>3, EntryFacts DEF Walk
<1>5. Sound(before) /\ (ifIndex # 0 => before.m_name = ifa.name)
  <2>1. CASE known
    BY <1>2, <1>3, <2>1 DEF Devices, Walk, Sound
  <2>2. CASE ~known
    BY <1>2, <2>2, NewFacts
  <2> QED
    BY <2>1, <2>2
<1>6. ifIndex # 0 => after = Updated(before)
  BY <1>3
<1>7. ifIndex = 0 => after = before
  OBVIOUS
<1> HIDE DEF before, after
<1>8. ifIndex # 0 =>
        /\ Sound(after) /\ after.m_name = ifa.name
        /\ \A a : /\ Contains(before.m_addressList, a) => Contains(after.m_addressList, a)
                  /\ Contains(before.m_maskList, a) => Contains(after.m_maskList, a)
                  /\ Contains(before.m_broadcastList, a) => Contains(after.m_broadcastList, a)
        /\ Contains(after.m_addressList, ifa.addr)
        /\ ~empty(MaskOf(ifa)) => Contains(after.m_maskList, MaskOf(ifa))
        /\ ~empty(BroadcastOf(ifa)) => Contains(after.m_broadcastList, BroadcastOf(ifa))
  <2> SUFFICES ASSUME ifIndex # 0
               PROVE  /\ Sound(Updated(before)) /\ Updated(before).m_name = ifa.name
                      /\ \A a :
                           /\ Contains(before.m_addressList, a)
                                => Contains(Updated(before).m_addressList, a)
                           /\ Contains(before.m_maskList, a)
                                => Contains(Updated(before).m_maskList, a)
                           /\ Contains(before.m_broadcastList, a)
                                => Contains(Updated(before).m_broadcastList, a)
                      /\ Contains(Updated(before).m_addressList, ifa.addr)
                      /\ ~empty(MaskOf(ifa)) => Contains(Updated(before).m_maskList, MaskOf(ifa))
                      /\ ~empty(BroadcastOf(ifa))
                           => Contains(Updated(before).m_broadcastList, BroadcastOf(ifa))
    BY <1>6
  <2> QED
    BY <1>2, <1>5, UpdatedFacts
<1>9. Sound(after) /\ (ifIndex # 0 => after.m_name = ifa.name)
  BY <1>5, <1>7, <1>8
<1>10. /\ DOMAIN ifMap' = DOMAIN ifMap \cup {ifIndex}
       /\ ifMap'[ifIndex] = after
       /\ \A i \in DOMAIN ifMap : i # ifIndex => ifMap'[i] = ifMap[i]
  BY <1>1 DEF after
<1>11. /\ \A i, n : Owned(i, n)' <=> Owned(i, n)
       /\ \A if : Theirs(if)' <=> Theirs(if)
       /\ \A e : Accepted(e)' <=> Accepted(e)
  BY <1>2 DEF Owned, Theirs, Accepted
<1>12. Indexes'
  BY <1>2, <1>3 DEF Indexes
<1>13. Walk'
  BY <1>2, <1>3 DEF Walk
<1>14. Devices'
  <2>1. DOMAIN ifMap' \subseteq 0..plugged'
    BY <1>2, <1>3, <1>10 DEF Devices
  <2>2. ASSUME NEW i \in DOMAIN ifMap'
        PROVE  /\ Sound(ifMap'[i])
               /\ i # 0 => Owned(i, ifMap'[i].m_name)
    <3>1. CASE i = ifIndex
      BY <1>2, <1>3, <1>9, <1>10, <3>1 DEF Walk
    <3>2. CASE i # ifIndex
      BY <1>3, <1>10, <3>2 DEF Devices, Sound
    <3> QED
      BY <3>1, <3>2
  <2> QED
    BY <1>2, <1>11, <2>1, <2>2 DEF Devices, Sound
<1>15. Complete'
  <2> SUFFICES ASSUME NEW e \in reported, Visited(e)', Accepted(e), index[e.name] = at[e.name]
               PROVE  InMap(e)'
    BY <1>2, <1>11 DEF Complete
  <2>1. e.name \in Name /\ at[e.name] # 0 /\ at[e.name] \in Nat
    BY <1>3, EntryAssumption DEF Walk
  <2>2. CASE e = ifa
    <3>1. ifIndex = at[ifa.name] /\ ifIndex # 0
      BY <1>2, <1>3, <2>1, <2>2 DEF Walk
    <3>2. "LOOPBACK" \notin ifa.flags => MaskOf(ifa) = ifa.netmask
      BY DEF MaskOf
    <3>3. is_v4(ifa.addr) /\ "BROADCAST" \in ifa.flags => BroadcastOf(ifa) = ifa.broadaddr
      BY DEF BroadcastOf
    <3> QED
      BY <1>2, <1>8, <1>10, <2>2, <3>1, <3>2, <3>3 DEF InMap
  <2>3. CASE e # ifa
    <3>1. InMap(e)
      BY <1>2, <1>3, <2>3 DEF Complete, Visited
    <3>2. CASE at[e.name] # ifIndex
      BY <1>2, <1>10, <3>1, <3>2 DEF InMap
    <3>3. CASE at[e.name] = ifIndex
      <4>1. before = ifMap[at[e.name]] /\ ifMap'[at[e.name]] = after
        BY <1>10, <3>1, <3>3 DEF InMap, before
      <4> QED
        BY <1>2, <1>8, <1>10, <2>1, <3>1, <3>3, <4>1 DEF InMap
    <3> QED
      BY <3>2, <3>3
  <2> QED
    BY <2>2, <2>3
<1>16. Leaks'
  <2> DEFINE lost == Departed \cup {0}
             old == DOMAIN ifMap \cap lost
             new == DOMAIN ifMap' \cap lost
  <2>1. lost' = lost
    BY <1>2 DEF Departed
  <2>2. IsFiniteSet(old) /\ Cardinality(old) \in Nat
    BY <1>3, KeysFinite
  <2>3. old \subseteq new /\ (ifIndex \in lost => new = old \cup {ifIndex}) /\ (ifIndex \notin lost => new = old)
    BY <1>10
  <2>4. /\ IsFiniteSet(new) /\ Cardinality(new) \in Nat /\ Cardinality(old) <= Cardinality(new)
        /\ ifIndex \in lost /\ ifIndex \notin old => Cardinality(new) = Cardinality(old) + 1
    <3>1. IsFiniteSet(old \cup {ifIndex}) /\ Cardinality(old \cup {ifIndex})
            = IF ifIndex \in old THEN Cardinality(old) ELSE Cardinality(old) + 1
      BY <2>2, FS_AddElement
    <3> HIDE DEF old, new, lost
    <3> QED
      BY <2>2, <2>3, <3>1, SMTT(30)
  <2>5. leaked \in Nat /\ leaked <= Cardinality(old)
    BY <1>3 DEF Leaks
  <2>6. /\ leaked' \in Nat /\ leaked' <= Cardinality(new)
        /\ leaked' # 0 => \E n \in Name : at[n] # 0 /\ index[n] # at[n]
    <3>1. CASE known \/ ~(hasSocket /\ index[ifa.name] = 0)
      <4>1. leaked' = leaked
        BY <1>1, <2>5, <3>1 DEF requestMtu
      <4> QED
        BY <1>3, <2>2, <2>4, <2>5, <4>1 DEF Leaks
    <3>2. CASE ~known /\ hasSocket /\ index[ifa.name] = 0
      <4>1. leaked' = leaked + 1
        BY <1>1, <3>2 DEF requestMtu
      <4>2. ifIndex \in lost
        BY <1>2, <1>3, <3>2 DEF Walk, Owned, Departed
      <4>3. ifIndex \notin old
        BY <3>2
      <4>4. Cardinality(new) = Cardinality(old) + 1
        BY <2>4, <4>2, <4>3
      <4> QED
        BY <1>4, <2>2, <2>4, <2>5, <3>2, <4>1, <4>4
    <3> QED
      BY <3>1, <3>2
  <2>7. new = (DOMAIN ifMap \cap (Departed \cup {0}))'
    BY <2>1
  <2> HIDE DEF new, old, lost
  <2> QED
    BY <1>2, <2>6, <2>7 DEF Leaks
<1> QED
  BY <1>2, <1>3, <1>12, <1>13, <1>14, <1>15, <1>16 DEF LookupInv

-----------------------------------------------------------------------------
(* The invariant holds *)

\* At first every name has an index, each its own.
LEMMA InitLookup == Init => LookupInv
<1> SUFFICES ASSUME Init PROVE LookupInv
  OBVIOUS
<1> DEFINE N == Cardinality(Name)
           Apart(f) == \A n, m \in Name : f[n] = f[m] => n = m
<1>1. N \in Nat /\ ExistsBijection(1..N, Name)
  BY FS_CardinalityType, NameAssumption
<1>2. \E f \in [Name -> 1..N] : Apart(f)
  <2>1. Bijection(Name, 1..N) # {}
    BY <1>1, Fun_ExistsBijSymmetric, Fun_ExistsBij
  <2>2. PICK f : f \in Bijection(Name, 1..N)
    BY <2>1
  <2>3. f \in [Name -> 1..N] /\ \A n, m \in Name : f[n] = f[m] => n = m
    BY <2>2, Fun_BijectionProperties
  <2> QED
    BY <2>3
<1>3. plugged = N /\ index = CHOOSE f \in [Name -> 1..plugged] : Apart(f)
  BY DEF Init
<1>4. index \in [Name -> 1..N] /\ Apart(index)
  <2> HIDE DEF Apart
  <2> QED
    BY <1>2, <1>3
<1>5. /\ pc = "idle" /\ OnlyRunning \in BOOLEAN /\ ifAddrStruct = {} /\ ifIndex = 0
      /\ ifMap = NoMap /\ leaked = 0 /\ reported = {} /\ at = index
  BY DEF Init
<1>6. N <= MaxIndex /\ MaxIndex \in Nat
  BY NameAssumption
<1> HIDE DEF N
<1>7. \A n \in Name : index[n] \in 1..N
  BY <1>4
<1>8. Indexes
  BY <1>1, <1>3, <1>4, <1>5, <1>6, <1>7 DEF Indexes
<1>9. DOMAIN ifMap = {}
  BY <1>5 DEF NoMap
<1>10. Walk /\ Devices /\ Complete
  BY <1>1, <1>3, <1>5, <1>9 DEF Walk, Devices, Complete
<1>11. Leaks
  <2>1. Cardinality(DOMAIN ifMap \cap (Departed \cup {0})) = 0
    <3>1. DOMAIN ifMap \cap (Departed \cup {0}) = {}
      BY <1>9
    <3> QED
      BY <3>1, FS_EmptySet
  <2> QED
    BY <1>5, <2>1 DEF Leaks
<1> QED
  BY <1>5, <1>8, <1>10, <1>11 DEF LookupInv

\* A step in which nothing happens.
LEMMA StepNothing == LookupInv /\ UNCHANGED vars => LookupInv'
<1> SUFFICES ASSUME LookupInv, UNCHANGED vars PROVE LookupInv'
  OBVIOUS
<1>1. UNCHANGED <<index, plugged, pc, OnlyRunning, ifAddrStruct, ifa, ifIndex, ifMap,
                  leaked, reported, at>>
  BY DEF vars, kernelVars
<1>2. /\ \A i, n : Owned(i, n)' <=> Owned(i, n)
      /\ \A if : Theirs(if)' <=> Theirs(if)
      /\ \A e : /\ Accepted(e)' <=> Accepted(e)
                /\ Visited(e)' <=> Visited(e)
                /\ InMap(e)' <=> InMap(e)
  BY <1>1 DEF Owned, Theirs, Accepted, Visited, InMap
<1>3. Indexes' /\ Leaks'
  BY <1>1 DEF LookupInv, Indexes, Leaks, Departed
<1>4. Walk' /\ Complete'
  BY <1>1, <1>2 DEF LookupInv, Walk, Complete
<1>5. Devices'
  BY <1>1, <1>2 DEF LookupInv, Devices
<1> QED
  BY <1>1, <1>3, <1>4, <1>5 DEF LookupInv

\* The walk of getStateMap and the system's devices keep the invariant.
THEOREM LookupHolds == Spec => []LookupInv
<1>1. ASSUME LookupInv, [Next]_vars PROVE LookupInv'
  <2>1. ASSUME NEW n \in Name, Unplug(n) \/ Plug(n) PROVE LookupInv'
    BY <1>1, <2>1, StepKernel
  <2>2. CASE Getifaddrs
    BY <1>1, <2>2, StepGetifaddrs
  <2>3. CASE GetifaddrsFails
    BY <1>1, <2>3, StepFails
  <2>4. CASE Skip
    BY <1>1, <2>4, StepSkip
  <2>5. CASE LookUp
    BY <1>1, <2>5, StepLookUp
  <2>6. CASE Insert
    BY <1>1, <2>6, StepInsert
  <2>7. CASE Done
    BY <1>1, <2>7, StepDone
  <2>8. CASE UNCHANGED vars
    BY <1>1, <2>8, StepNothing
  <2> QED
    BY <1>1, <2>1, <2>2, <2>3, <2>4, <2>5, <2>6, <2>7, <2>8 DEF Next
<1> QED
  BY InitLookup, <1>1, PTL DEF Spec

-----------------------------------------------------------------------------
(* What it implies *)

\* The variables have their types; no list has an empty address.
THEOREM LookupTypes == Spec => []TypeOK
<1>1. ASSUME LookupInv PROVE TypeOK
  <2>1. plugged \in Nat /\ plugged <= MaxIndex /\ MaxIndex \in Nat
    BY <1>1, NameAssumption DEF LookupInv, Indexes
  <2>2. index \in [Name -> 0..MaxIndex] /\ at \in [Name -> 0..MaxIndex]
    BY <1>1, <2>1 DEF LookupInv, Indexes
  <2>3. ASSUME NEW list, IsList(list) PROVE ~Contains(list, Empty)
    BY <2>3, ContainsPlace DEF IsList, empty, Empty
  <2>4. \A i \in DOMAIN ifMap :
          /\ ~Contains(ifMap[i].m_addressList, Empty) /\ ~Contains(ifMap[i].m_maskList, Empty)
          /\ ~Contains(ifMap[i].m_broadcastList, Empty)
    BY <1>1, <2>3 DEF LookupInv, Devices
  <2> QED
    BY <1>1, <2>1, <2>2, <2>4 DEF TypeOK, LookupInv, Walk, Devices, Leaks
<1> QED
  BY LookupHolds, <1>1, PTL

\* When the walk is over, all of an entry whose device stayed is in the map.
LEMMA StayedInMap == LookupInv /\ pc = "done" => \A e \in Stayed : InMap(e)
  BY DEF LookupInv, Walk, Complete, Stayed, Visited

\* A returned map has all of the devices that stayed, whatever others do.
THEOREM MapComplete == Spec => []AddressesComplete
<1>1. LookupInv => AddressesComplete
  BY StayedInMap DEF AddressesComplete, InMap
<1> QED
  BY LookupHolds, <1>1, PTL

\* No address is listed twice, or for a device that does not have it.
THEOREM NoStrangers == Spec => []AddressesAreTheirs
<1>1. LookupInv => AddressesAreTheirs
  BY DEF LookupInv, Devices, IsList, Theirs, AddressesAreTheirs
<1> QED
  BY LookupHolds, <1>1, PTL

\* How many indexes are gone: all that were given but those names still have.
LEMMA DepartedCount ==
  ASSUME Indexes
  PROVE  /\ IsFiniteSet(Departed) /\ Cardinality(Departed) \in Nat
         /\ Cardinality(Departed)
              = Cardinality({n \in Name : index[n] = 0}) + plugged - Cardinality(Name)
<1> DEFINE live == {n \in Name : index[n] # 0}
           gone == {n \in Name : index[n] = 0}
           used == {i \in 1..plugged : \E n \in Name : index[n] = i}
           given == 1..plugged
<1>1. plugged \in Nat /\ \A n \in Name : index[n] \in 0..plugged
  BY NameAssumption DEF Indexes
<1>2. /\ IsFiniteSet(Name) /\ IsFiniteSet(live) /\ IsFiniteSet(gone)
      /\ Cardinality(live) \in Nat /\ Cardinality(gone) \in Nat
  BY NameAssumption, FS_Subset, FS_CardinalityType
<1>3. Cardinality(Name) = Cardinality(live) + Cardinality(gone)
  <2>1. live \cup gone = Name /\ live \cap gone = {}
    OBVIOUS
  <2> HIDE DEF live, gone
  <2>2. Cardinality(live \cup gone)
          = Cardinality(live) + Cardinality(gone) - Cardinality(live \cap gone)
    BY <1>2, FS_Union
  <2>3. Cardinality(live \cap gone) = 0
    BY <2>1, FS_EmptySet
  <2> QED
    BY <1>2, <2>1, <2>2, <2>3
<1>4. IsFiniteSet(given) /\ Cardinality(given) = plugged
  BY <1>1, FS_Interval
<1>5. IsFiniteSet(used) /\ IsFiniteSet(Departed)
  BY <1>4, FS_Subset DEF Departed
<1>6. Cardinality(used) \in Nat /\ Cardinality(Departed) \in Nat
  BY <1>5, FS_CardinalityType
<1>7. plugged = Cardinality(used) + Cardinality(Departed)
  <2>1. used \cup Departed = given /\ used \cap Departed = {}
    BY DEF Departed
  <2> HIDE DEF used, given
  <2>2. Cardinality(used \cup Departed)
          = Cardinality(used) + Cardinality(Departed) - Cardinality(used \cap Departed)
    BY <1>5, FS_Union
  <2>3. Cardinality(used \cap Departed) = 0
    BY <2>1, FS_EmptySet
  <2> QED
    BY <1>4, <1>6, <2>1, <2>2, <2>3
<1>8. Cardinality(used) = Cardinality(live)
  <2> DEFINE F == [n \in live |-> index[n]]
  <2>1. F \in [live -> used]
    BY <1>1
  <2>2. \A a, b \in live : F[a] = F[b] => a = b
    BY DEF Indexes
  <2>3. \A i \in used : \E n \in live : F[n] = i
    BY <1>1
  <2> HIDE DEF F, live, used
  <2>4. F \in Bijection(live, used)
    BY <2>1, <2>2, <2>3, Fun_IsBij
  <2> QED
    BY <1>2, <2>4, Fun_ExistsBij, FS_Bijection
<1> HIDE DEF live, used, given
<1> QED
  BY <1>1, <1>2, <1>3, <1>5, <1>6, <1>7, <1>8

\* A socket stays open only for a device that went, and once for the index 0.
THEOREM FewLeaks == Spec => []LeaksBounded
<1>1. ASSUME LookupInv PROVE LeaksBounded
  <2> DEFINE lost == Departed \cup {0}
             departures == Cardinality({n \in Name : index[n] = 0}) + plugged - Cardinality(Name)
  <2>1. Indexes /\ Devices /\ Leaks
    BY <1>1 DEF LookupInv
  <2>2. IsFiniteSet(Departed) /\ Cardinality(Departed) \in Nat /\ Cardinality(Departed) = departures
    BY <2>1, DepartedCount
  <2>3. IsFiniteSet(lost) /\ Cardinality(lost) <= departures + 1 /\ Cardinality(lost) \in Nat
    <3> HIDE DEF departures
    <3>1. IsFiniteSet(lost) /\ Cardinality(lost)
            = IF 0 \in Departed THEN Cardinality(Departed) ELSE Cardinality(Departed) + 1
      BY <2>2, FS_AddElement
    <3> QED
      BY <2>2, <3>1
  <2>4. Cardinality(DOMAIN ifMap \cap lost) <= Cardinality(lost)
    BY <2>3, FS_Subset
  <2>5. Cardinality(DOMAIN ifMap \cap lost) \in Nat
    BY <2>1, KeysFinite
  <2>6. leaked \in Nat /\ leaked <= Cardinality(DOMAIN ifMap \cap lost)
    BY <2>1 DEF Leaks
  <2>7. index = at => leaked = 0
    BY <2>1 DEF Leaks
  <2>8. departures \in Nat
    BY <2>2
  <2> HIDE DEF departures, lost
  <2>9. leaked <= departures + 1
    BY <2>3, <2>4, <2>5, <2>6, <2>8
  <2> QED
    BY <2>7, <2>9 DEF LeaksBounded, departures
<1> QED
  BY LookupHolds, <1>1, PTL

-----------------------------------------------------------------------------
(* What the getAll operations find *)

\* A device that stayed has its addresses in the set that is collected from.
LEMMA Collected ==
  ASSUME LookupInv, pc = "done", NEW e \in Stayed
  PROVE  /\ e.addr \in UNION {ToSet(ifMap[i].m_addressList) : i \in DOMAIN ifMap}
         /\ "LOOPBACK" \notin e.flags /\ ~empty(e.netmask)
              => e.netmask \in UNION {ToSet(ifMap[i].m_maskList) : i \in DOMAIN ifMap}
<1> DEFINE i == at[e.name]
<1>1. InMap(e)
  BY StayedInMap
<1>2. /\ i \in DOMAIN ifMap
      /\ IsList(ifMap[i].m_addressList) /\ IsList(ifMap[i].m_maskList)
  BY <1>1 DEF InMap, LookupInv, Devices
<1>3. ASSUME NEW list, IsList(list), NEW a, Contains(list, a) PROVE a \in ToSet(list)
  BY <1>3 DEF IsList, Contains, ToSet
<1>4. /\ e.addr \in ToSet(ifMap[i].m_addressList)
      /\ "LOOPBACK" \notin e.flags /\ ~empty(e.netmask)
           => e.netmask \in ToSet(ifMap[i].m_maskList)
  BY <1>1, <1>2, <1>3 DEF InMap
<1> QED
  BY <1>2, <1>4

\* Of an entry with an IPv4 address the mask is an IPv4 mask, or there is none.
LEMMA FamilyFacts ==
  ASSUME NEW e \in Entry, Accepted(e)
  PROVE  /\ is_v4(e.addr) => /\ e.addr.words \in [1..4 -> 0..255]
                             /\ empty(e.netmask) \/ is_v4(e.netmask)
         /\ is_v4(e.netmask) => e.netmask.words \in [1..4 -> MaskOctet]
         /\ \A a : ~(is_v4(a) /\ is_v6(a)) /\ ~(is_v4(a) /\ empty(a)) /\ ~(is_v6(a) /\ empty(a))
  BY EntryAssumption DEF Accepted, is_v4, is_v6, empty

\* The getAll operations find what the running devices that stayed have.
THEOREM GetAllFinds == Spec => []GetAllComplete
<1>1. ASSUME LookupInv PROVE GetAllComplete
  <2> SUFFICES ASSUME pc = "done", NEW e \in Stayed, NEW with \in BOOLEAN
               PROVE  LET wanted == with \/ ~is_loopback(e.addr)
                      IN  /\ e.addr \in getAllIpv4Ip(with) <=> (is_v4(e.addr) /\ wanted)
                          /\ e.addr \in getAllIpv6Ip(with) <=> (is_v6(e.addr) /\ wanted)
                          /\ is_v4(e.addr) /\ "LOOPBACK" \notin e.flags /\ is_submask(e.netmask)
                               => e.netmask \in getAllIpv4Submask
    BY DEF GetAllComplete
  <2> DEFINE addresses == UNION {ToSet(ifMap[i].m_addressList) : i \in DOMAIN ifMap}
             masks == UNION {ToSet(ifMap[i].m_maskList) : i \in DOMAIN ifMap}
  <2>1. /\ getAllIpv4Ip(with) = {a \in addresses : is_v4(a) /\ (with \/ ~is_loopback(a))}
        /\ getAllIpv6Ip(with) = {a \in addresses : is_v6(a) /\ (with \/ ~is_loopback(a))}
        /\ getAllIpv4Submask = {a \in masks : is_v4(a) /\ is_submask(a)}
    BY DEF getAllIpv4Ip, getAllIpv6Ip, getAllIpv4Submask, Collect
  <2>2. e.addr \in addresses
    BY <1>1, Collected
  <2>3. "LOOPBACK" \notin e.flags /\ ~empty(e.netmask) => e.netmask \in masks
    BY <1>1, Collected
  <2>4. e \in Entry /\ Accepted(e)
    BY <1>1 DEF LookupInv, Walk, Stayed
  <2>5. is_v4(e.addr) /\ is_submask(e.netmask) => is_v4(e.netmask) /\ ~empty(e.netmask)
    BY <2>4, FamilyFacts DEF is_submask
  <2> HIDE DEF addresses, masks
  <2> QED
    BY <2>1, <2>2, <2>3, <2>5
<1> QED
  BY LookupHolds, <1>1, PTL

\* An octet and the bits a network mask does not have make up the last octet of
\* the block it is in.
LEMMA LastOctet ==
  ASSUME NEW a \in 0..255, NEW m \in MaskOctet
  PROVE  Octet(Bits(a) \cup (Place \ Bits(m)))
           = (a \div (256 - m)) * (256 - m) + (256 - m) - 1
<1> DEFINE block == 256 - m
           q(p) == a \div p
           d(p) == q(p) % 2
           digit(p) == IF p \in Bits(a) \cup (Place \ Bits(m)) THEN p ELSE 0
<1>1. Octet(Bits(a) \cup (Place \ Bits(m)))
        = digit(1) + digit(2) + digit(4) + digit(8)
            + digit(16) + digit(32) + digit(64) + digit(128)
  BY DEF Octet
<1>2. block \in Place \cup {256} /\ a \div block = q(block)
  BY DEF Place, MaskOctet
<1>3. \A p \in Place : digit(p) = IF p >= block THEN p * d(p) ELSE p
  BY DEF Place, Bits, MaskOctet
<1>4. \A p \in Place : q(p) \in Nat /\ d(p) \in Nat
  BY DEF Place
<1>5. /\ q(256) = 0 /\ q(128) = d(128)
      /\ q(64) = 2 * q(128) + d(64) /\ q(32) = 2 * q(64) + d(32)
      /\ q(16) = 2 * q(32) + d(16) /\ q(8) = 2 * q(16) + d(8)
      /\ q(4) = 2 * q(8) + d(4) /\ q(2) = 2 * q(4) + d(2) /\ q(1) = 2 * q(2) + d(1)
  OBVIOUS
<1> HIDE DEF block, q, d, digit
<1>6. /\ digit(1) = IF 1 >= block THEN d(1) ELSE 1
      /\ digit(2) = IF 2 >= block THEN 2 * d(2) ELSE 2
      /\ digit(4) = IF 4 >= block THEN 4 * d(4) ELSE 4
      /\ digit(8) = IF 8 >= block THEN 8 * d(8) ELSE 8
      /\ digit(16) = IF 16 >= block THEN 16 * d(16) ELSE 16
      /\ digit(32) = IF 32 >= block THEN 32 * d(32) ELSE 32
      /\ digit(64) = IF 64 >= block THEN 64 * d(64) ELSE 64
      /\ digit(128) = IF 128 >= block THEN 128 * d(128) ELSE 128
  BY <1>3, <1>4 DEF Place
<1>7. /\ q(1) \in Nat /\ q(2) \in Nat /\ q(4) \in Nat /\ q(8) \in Nat
      /\ q(16) \in Nat /\ q(32) \in Nat /\ q(64) \in Nat /\ q(128) \in Nat
      /\ d(1) \in Nat /\ d(2) \in Nat /\ d(4) \in Nat /\ d(8) \in Nat
      /\ d(16) \in Nat /\ d(32) \in Nat /\ d(64) \in Nat /\ d(128) \in Nat
  BY <1>4 DEF Place
<1>8. 64 * q(64) = 64 * d(64) + 128 * d(128)
  BY <1>5, <1>7
<1>9. 32 * q(32) = 32 * d(32) + 64 * d(64) + 128 * d(128)
  BY <1>5, <1>7, <1>8
<1>10. 16 * q(16) = 16 * d(16) + 32 * d(32) + 64 * d(64) + 128 * d(128)
  BY <1>5, <1>7, <1>9
<1>11. 8 * q(8) = 8 * d(8) + 16 * d(16) + 32 * d(32) + 64 * d(64) + 128 * d(128)
  BY <1>5, <1>7, <1>10
<1>12. 4 * q(4) = 4 * d(4) + 8 * d(8) + 16 * d(16) + 32 * d(32) + 64 * d(64) + 128 * d(128)
  BY <1>5, <1>7, <1>11
<1>13. 2 * q(2) = 2 * d(2) + 4 * d(4) + 8 * d(8) + 16 * d(16) + 32 * d(32) + 64 * d(64) + 128 * d(128)
  BY <1>5, <1>7, <1>12
<1>14. q(1) = d(1) + 2 * d(2) + 4 * d(4) + 8 * d(8) + 16 * d(16) + 32 * d(32) + 64 * d(64) + 128 * d(128)
  BY <1>5, <1>7, <1>13
<1> DEFINE sum == digit(1) + digit(2) + digit(4) + digit(8)
                    + digit(16) + digit(32) + digit(64) + digit(128)
<1>15. sum = q(block) * block + block - 1
  <2>1. CASE block = 1
    BY <1>6, <1>7, <1>14, <2>1
  <2>2. CASE block = 2
    BY <1>6, <1>7, <1>13, <2>2
  <2>3. CASE block = 4
    BY <1>6, <1>7, <1>12, <2>3
  <2>4. CASE block = 8
    BY <1>6, <1>7, <1>11, <2>4
  <2>5. CASE block = 16
    BY <1>6, <1>7, <1>10, <2>5
  <2>6. CASE block = 32
    BY <1>6, <1>7, <1>9, <2>6
  <2>7. CASE block = 64
    BY <1>6, <1>7, <1>8, <2>7
  <2>8. CASE block = 128
    BY <1>6, <1>7, <1>5, <2>8
  <2>9. CASE block = 256
    BY <1>6, <1>7, <1>5, <2>9
  <2> QED
    BY <1>2, <2>1, <2>2, <2>3, <2>4, <2>5, <2>6, <2>7, <2>8, <2>9 DEF Place
<1> QED
  BY <1>1, <1>2, <1>15 DEF block

\* A derived broadcast address is the highest of the network, for every address
\* and mask of a device and every length of the mask.
THEOREM BroadcastHighest == Spec => []BroadcastIsLast
<1>1. ASSUME LookupInv PROVE BroadcastIsLast
  <2> SUFFICES ASSUME NEW i \in DOMAIN ifMap,
                      NEW a \in ToSet(ifMap[i].m_addressList),
                      NEW m \in ToSet(ifMap[i].m_maskList)
               PROVE  IF is_v4(a) /\ is_v4(m) THEN IsLast(broadcast(a, m), a, m)
                      ELSE empty(broadcast(a, m))
    BY DEF BroadcastIsLast
  <2> DEFINE addresses == ifMap[i].m_addressList
             masks == ifMap[i].m_maskList
  <2>1. IsList(addresses) /\ IsList(masks) /\ Theirs(ifMap[i]) /\ reported \subseteq Entry
    BY <1>1 DEF LookupInv, Devices, Walk
  <2>2. PICK k \in 1..Len(addresses) : a = addresses[k]
    BY <2>1 DEF IsList, ToSet
  <2>3. PICK j \in 1..Len(masks) : m = masks[j]
    BY <2>1 DEF IsList, ToSet
  <2>4. is_v4(a) => a.words \in [1..4 -> 0..255]
    <3>1. PICK e \in reported : Accepted(e) /\ e.addr = a
      BY <2>1, <2>2 DEF Theirs
    <3> QED
      BY <2>1, <3>1, FamilyFacts
  <2>5. is_v4(m) => m.words \in [1..4 -> MaskOctet]
    <3>1. PICK e \in reported : Accepted(e) /\ e.netmask = m
      BY <2>1, <2>3 DEF Theirs
    <3> QED
      BY <2>1, <3>1, FamilyFacts
  <2>6. CASE is_v4(a) /\ is_v4(m)
    <3> DEFINE last == [n \in 1..4 |-> Octet(Bits(a.words[n]) \cup (Place \ Bits(m.words[n])))]
    <3>1. broadcast(a, m) = V4(last)
      BY <2>6 DEF broadcast
    <3>2. is_v4(V4(last)) /\ V4(last).words = last
      BY DEF V4, is_v4
    <3>3. ASSUME NEW n \in 1..4
          PROVE  last[n] = (a.words[n] \div (256 - m.words[n])) * (256 - m.words[n])
                             + (256 - m.words[n]) - 1
      <4>1. a.words[n] \in 0..255 /\ m.words[n] \in MaskOctet
        BY <2>4, <2>5, <2>6
      <4>2. last[n] = Octet(Bits(a.words[n]) \cup (Place \ Bits(m.words[n])))
        OBVIOUS
      <4>3. Octet(Bits(a.words[n]) \cup (Place \ Bits(m.words[n])))
              = (a.words[n] \div (256 - m.words[n])) * (256 - m.words[n]) + (256 - m.words[n]) - 1
        BY <4>1, LastOctet, ZenonT(60)
      <4> HIDE DEF last
      <4> QED
        BY <4>2, <4>3, Zenon
    <3> HIDE DEF last
    <3> QED
      BY <2>6, <3>1, <3>2, <3>3 DEF IsLast
  <2>7. CASE ~(is_v4(a) /\ is_v4(m))
    BY <2>7 DEF broadcast, empty, Empty
  <2> QED
    BY <2>6, <2>7
<1> QED
  BY LookupHolds, <1>1, PTL
=============================================================================
