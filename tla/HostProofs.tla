----------------------------- MODULE HostProofs -----------------------------
(***************************************************************************)
(* The theorems about the two components that work on the data of one call *)
(* and share nothing: CHostLookup, for any name service, answers and host, *)
(* and CNetOrder and CHostOrder, for any registered class, any values and  *)
(* any two machines.                                                       *)
(***************************************************************************)
EXTENDS HostLookup, HostOrder, NaturalsInduction, WellFoundedInduction, TLAPS

(* CHostLookup *)

\* What the constructor reads from a host: the address it is the text of, and
\* nothing from a name.
LEMMA ParsedHost == ASSUME NEW host \in Host
  PROVE  /\ Parsed(host.text) = host.text.means
         /\ ~empty(host.text.means) => host.text # NoText /\ host.text.means \in Known
         /\ empty(host.text.means) => host.text = NoText /\ host.name \in Name
         /\ getaddrinfo(host) = IF empty(host.text.means) THEN forward[host.name]
                                ELSE <<host.text.means>>
<1>1. CASE \E a \in Known : host = Text(a)
  <2>1. PICK a \in Known : host = Text(a)
    BY <1>1
  <2>2. is_v4(a) \/ is_v6(a)
    BY KnownAssumption
  <2>3. ~empty(a)
    BY <2>2 DEF empty, is_v4, is_v6
  <2>4. host.text.means = a /\ host.text = toString(a)
    BY <2>1, <2>3 DEF Text, toString
  <2>5. /\ is_v4(a) => host.text.dots = 3
        /\ is_v6(a) => host.text.colons = 2
    BY <2>3, <2>4 DEF toString, is_v4, is_v6
  <2>6. host.text # NoText
    BY <2>3, <2>4 DEF NoText, empty, Empty
  <2> QED
    BY <2>2, <2>3, <2>4, <2>5, <2>6 DEF Parsed, getaddrinfo
<1>2. CASE \E n \in Name : host = Named(n)
  <2>1. host.text = NoText /\ host.name \in Name
    BY <1>2 DEF Named
  <2>2. empty(host.text.means) /\ Parsed(host.text) = host.text.means
    BY <2>1 DEF NoText, Empty, Parsed, is_v4, is_v6, empty
  <2> QED
    BY <2>1, <2>2 DEF getaddrinfo
<1> QED
  BY <1>1, <1>2 DEF Host

\* A set of numbers that is not empty has a least one.
LEMMA LeastExists == ASSUME NEW S \in SUBSET Nat, S # {}
  PROVE  Min(S) \in S /\ \A y \in S : Min(S) <= y
<1>1. PICK x \in S : \A y \in S : ~ (<<y, x>> \in OpToRel(<, Nat))
  BY NatLessThanWellFounded, WFMin
<1>2. ASSUME NEW y \in S PROVE x <= y
  <2>1. x \in Nat /\ y \in Nat
    OBVIOUS
  <2>2. CASE y < x
    <3> DEFINE p == <<y, x>>
    <3>1. p \in Nat \X Nat /\ p[1] < p[2]
      BY <2>1, <2>2
    <3> HIDE DEF p
    <3>2. p \in OpToRel(<, Nat)
      BY <3>1 DEF OpToRel
    <3> QED
      BY <1>1, <3>2 DEF p
  <2> QED
    BY <2>1, <2>2
<1> QED
  BY <1>2 DEF Min

(***************************************************************************)
(* How far the lookup is.  Before the list is in hand nothing is chosen;   *)
(* the list is that of the host where the name service has not changed,    *)
(* because every question was then asked of one and the same service.      *)
(***************************************************************************)
ByName(host) ==
    LET a == host.text.means
    IN  IF empty(a) \/ reverse[a] = NoName THEN <<>> ELSE forward[reverse[a]]

Stage ==
    /\ pc # "chosen" => it = Empty
    /\ pc = "chosen" => ~empty(it)
    /\ pc \in {"parse", "reverse", "forward", "fallback"} => ipList = <<>>
    /\ pc \in {"choose", "chosen"} => ipList # <<>>
    /\ leaked = IF ipList = <<>> THEN 0 ELSE 1
    /\ pc \in {"reverse", "forward"} => ~empty(rHost.text.means)
    /\ pc = "forward" => hostName # NoName
    /\ pc \in {"choose", "chosen", "thrown"} =>
         \/ asked = rHost /\ (~empty(rHost.text.means) => ipList = <<rHost.text.means>>)
         \/ asked = Named(hostName) /\ ipList # <<>>
    /\ pc = "chosen" \/ (pc = "thrown" /\ ipList # <<>>) => IsFirstFitting(it, ipList)
    /\ changes = 0 =>
         /\ pc = "forward" => hostName = reverse[rHost.text.means]
         /\ pc = "fallback" => ByName(rHost) = <<>>
         /\ pc \in {"choose", "chosen", "thrown"} => ipList = Addresses(rHost)

LookupInv == TypeOK /\ Stage

\* Before the first question nothing is known.
LEMMA InitLookup == Init => LookupInv
<1> SUFFICES ASSUME Init PROVE LookupInv
  OBVIOUS
<1>1. <<>> \in Seq(Known)
  OBVIOUS
<1>2. TypeOK
  BY <1>1, NameAssumption DEF Init, TypeOK
<1>3. Stage
  BY DEF Init, Stage
<1> QED
  BY <1>2, <1>3 DEF LookupInv

\* A list in hand was given by the name service or is the host's own address.
LEMMA AnswerType == ASSUME TypeOK, NEW host \in Host PROVE getaddrinfo(host) \in Seq(Known)
<1>1. CASE empty(host.text.means)
  <2>1. forward[host.name] \in Answer
    BY <1>1, ParsedHost DEF TypeOK
  <2> QED
    BY <1>1, <2>1, ParsedHost, AnswerAssumption
<1>2. CASE ~empty(host.text.means)
  <2> DEFINE a == host.text.means
  <2>1. a \in Known /\ getaddrinfo(host) = <<a>>
    BY <1>2, ParsedHost
  <2> HIDE DEF a
  <2> QED
    BY <2>1
<1> QED
  BY <1>1, <1>2

\* A change of the name service touches nothing the lookup has found.
LEMMA StepChange == LookupInv /\ Change => LookupInv'
<1> SUFFICES ASSUME LookupInv, Change PROVE LookupInv'
  OBVIOUS
<1> USE DEF LookupInv
<1>1. changes' \in 0..MaxChange /\ changes' # 0
  BY NameAssumption DEF Change, TypeOK
<1>2. reverse' \in [Known -> Name \cup {NoName}] /\ forward' \in [Name -> Answer]
  BY DEF Change, TypeOK
<1>3. UNCHANGED <<pc, rHost, domain, hostName, ipList, asked, leaked, it>>
  BY DEF Change
<1>4. TypeOK'
  BY <1>1, <1>2, <1>3 DEF TypeOK
<1>5. Stage'
  BY <1>1, <1>3 DEF Stage, IsFirstFitting, Fits
<1> QED
  BY <1>4, <1>5

\* The constructor with an address throws for a name, and only for a name.
LEMMA StepParse == LookupInv /\ Parse => LookupInv'
<1> SUFFICES ASSUME LookupInv, Parse PROVE LookupInv'
  OBVIOUS
<1> USE DEF LookupInv
<1>1. rHost \in Host
  BY DEF TypeOK
<1>2. /\ pc = "parse" /\ UNCHANGED <<serviceVars, rHost, domain, hostName, ipList, asked, leaked, it>>
      /\ pc' = IF empty(rHost.text.means) THEN "fallback" ELSE "reverse"
  BY <1>1, ParsedHost DEF Parse, ip
<1>3. TypeOK'
  BY <1>2 DEF TypeOK, serviceVars
<1>4. empty(rHost.text.means) => ByName(rHost)' = <<>>
  BY <1>2 DEF ByName
<1>5. Stage'
  BY <1>2, <1>4 DEF Stage, serviceVars
<1> QED
  BY <1>3, <1>5

\* The name of the address is asked for; without one the host stands for itself.
LEMMA StepHostname == LookupInv /\ requestHostname => LookupInv'
<1> SUFFICES ASSUME LookupInv, requestHostname PROVE LookupInv'
  OBVIOUS
<1> USE DEF LookupInv
<1>1. rHost \in Host
  BY DEF TypeOK
<1>2. /\ pc = "reverse" /\ UNCHANGED <<serviceVars, rHost, domain, ipList, asked, leaked, it>>
      /\ ~empty(rHost.text.means) /\ rHost.text.means \in Known
      /\ hostName' = reverse[rHost.text.means]
      /\ pc' = IF hostName' = NoName THEN "fallback" ELSE "forward"
  BY <1>1, ParsedHost DEF requestHostname, ip, Stage
<1>3. hostName' \in Name \cup {NoName}
  BY <1>2 DEF TypeOK
<1>4. TypeOK'
  BY <1>2, <1>3 DEF TypeOK, serviceVars
<1>5. hostName' = NoName => ByName(rHost)' = <<>>
  BY <1>2 DEF ByName, serviceVars
<1>6. Stage'
  BY <1>2, <1>5 DEF Stage, serviceVars
<1> QED
  BY <1>4, <1>6

\* What both lookups do with the answer of the name service.
LEMMA AnsweredFacts ==
  ASSUME LookupInv, ipList = <<>>, NEW host \in Host, NEW otherwise,
         otherwise \in {"fallback", "thrown"}, Answered(host, otherwise),
         UNCHANGED <<serviceVars, rHost, domain, hostName, it>>
  PROVE  /\ TypeOK'
         /\ ipList' = getaddrinfo(host) /\ asked' = host
         /\ leaked' = IF ipList' = <<>> THEN 0 ELSE 1
         /\ pc' = IF ipList' = <<>> THEN otherwise ELSE "choose"
<1>1. leaked = 0
  BY DEF LookupInv, Stage
<1>2. ipList' \in Seq(Known)
  BY AnswerType DEF LookupInv, Answered
<1>3. leaked' = IF ipList' = <<>> THEN 0 ELSE 1
  BY <1>1 DEF Answered
<1>4. /\ ipList' = getaddrinfo(host) /\ asked' = host
      /\ pc' = IF ipList' = <<>> THEN otherwise ELSE "choose"
  BY DEF Answered
<1>5. TypeOK'
  BY <1>2, <1>3, <1>4 DEF LookupInv, TypeOK, serviceVars
<1> QED
  BY <1>3, <1>4, <1>5

\* The addresses of the name are the host's addresses, if the name has any.
LEMMA StepForward == LookupInv /\ requestIpAddresses => LookupInv'
<1> SUFFICES ASSUME LookupInv, requestIpAddresses PROVE LookupInv'
  OBVIOUS
<1>1. /\ pc = "forward" /\ UNCHANGED <<serviceVars, rHost, domain, hostName, it>>
      /\ Answered(Named(hostName), "fallback")
  BY DEF requestIpAddresses
<1>2. /\ ipList = <<>> /\ hostName \in Name /\ hostName # NoName /\ ~empty(rHost.text.means)
      /\ it = Empty /\ rHost \in Host
      /\ changes = 0 => hostName = reverse[rHost.text.means]
  BY <1>1 DEF LookupInv, Stage, TypeOK
<1>3. Named(hostName) \in Host
  BY <1>2 DEF Host
<1>4. /\ TypeOK'
      /\ ipList' = getaddrinfo(Named(hostName)) /\ asked' = Named(hostName)
      /\ leaked' = IF ipList' = <<>> THEN 0 ELSE 1
      /\ pc' = IF ipList' = <<>> THEN "fallback" ELSE "choose"
  BY <1>1, <1>2, <1>3, AnsweredFacts
<1>5. getaddrinfo(Named(hostName)) = forward[hostName]
  BY DEF getaddrinfo, Named
<1>6. changes = 0 => ByName(rHost) = ipList'
  BY <1>2, <1>4, <1>5 DEF ByName
<1>7. ByName(rHost)' = ByName(rHost) /\ Addresses(rHost)' = Addresses(rHost)
  BY <1>1 DEF ByName, Addresses, getaddrinfo, serviceVars
<1>8. Addresses(rHost) = IF ByName(rHost) = <<>> THEN getaddrinfo(rHost) ELSE ByName(rHost)
  BY DEF Addresses, ByName
<1>9. Stage'
  BY <1>1, <1>2, <1>4, <1>6, <1>7, <1>8 DEF Stage, serviceVars
<1> QED
  BY <1>4, <1>9 DEF LookupInv

\* Else the host itself is asked for.
LEMMA StepFallback == LookupInv /\ Fallback => LookupInv'
<1> SUFFICES ASSUME LookupInv, Fallback PROVE LookupInv'
  OBVIOUS
<1>1. /\ pc = "fallback" /\ UNCHANGED <<serviceVars, rHost, domain, hostName, it>>
      /\ Answered(rHost, "thrown")
  BY DEF Fallback
<1>2. /\ ipList = <<>> /\ it = Empty /\ rHost \in Host
      /\ changes = 0 => ByName(rHost) = <<>>
  BY <1>1 DEF LookupInv, Stage, TypeOK
<1>3. /\ TypeOK'
      /\ ipList' = getaddrinfo(rHost) /\ asked' = rHost
      /\ leaked' = IF ipList' = <<>> THEN 0 ELSE 1
      /\ pc' = IF ipList' = <<>> THEN "thrown" ELSE "choose"
  BY <1>1, <1>2, AnsweredFacts
<1>4. Addresses(rHost)' = Addresses(rHost)
  BY <1>1 DEF Addresses, getaddrinfo, serviceVars
<1>5. changes = 0 => Addresses(rHost) = ipList'
  BY <1>2, <1>3 DEF Addresses, ByName
<1>6. ~empty(rHost.text.means) => ipList' = <<rHost.text.means>>
  BY <1>2, <1>3, ParsedHost
<1>7. Stage'
  BY <1>1, <1>2, <1>3, <1>4, <1>5, <1>6 DEF Stage, serviceVars
<1> QED
  BY <1>3, <1>7 DEF LookupInv

\* find_if takes the first address of the socket's domain, if there is one.
LEMMA StepChoose == LookupInv /\ Choose => LookupInv'
<1> SUFFICES ASSUME LookupInv, Choose PROVE LookupInv'
  OBVIOUS
<1> DEFINE fitting == {i \in 1..Len(ipList) : Fits(ipList[i])}
<1>1. /\ pc = "choose"
      /\ UNCHANGED <<serviceVars, rHost, domain, hostName, ipList, asked, leaked>>
      /\ IF fitting = {} THEN pc' = "thrown" /\ UNCHANGED it
         ELSE pc' = "chosen" /\ it' = ipList[Min(fitting)]
  BY DEF Choose
<1>2. /\ ipList # <<>> /\ ipList \in Seq(Known) /\ it = Empty
  BY <1>1 DEF LookupInv, Stage, TypeOK
<1>3. CASE fitting = {}
  <2>1. \A i \in 1..Len(ipList) : ~Fits(ipList[i])
    BY <1>3
  <2>2. pc' = "thrown" /\ it' = Empty /\ empty(it')
    BY <1>1, <1>2, <1>3 DEF empty, Empty
  <2>3. IsFirstFitting(it, ipList)'
    BY <1>1, <2>1, <2>2 DEF IsFirstFitting, Fits
  <2>4. Addresses(rHost)' = Addresses(rHost)
    BY <1>1 DEF Addresses, getaddrinfo, serviceVars
  <2>5. Stage'
    BY <1>1, <2>2, <2>3, <2>4 DEF LookupInv, Stage, serviceVars
  <2>6. TypeOK'
    BY <1>1, <2>2 DEF LookupInv, TypeOK, serviceVars
  <2> QED
    BY <2>5, <2>6 DEF LookupInv
<1>4. CASE fitting # {}
  <2>1. fitting \in SUBSET Nat
    OBVIOUS
  <2>2. Min(fitting) \in fitting /\ \A i \in fitting : Min(fitting) <= i
    BY <1>4, <2>1, LeastExists
  <2>3. PICK i \in fitting : pc' = "chosen" /\ it' = ipList[i] /\ \A j \in fitting : i <= j
    BY <1>1, <1>4, <2>2
  <2>4. i \in 1..Len(ipList) /\ Fits(ipList[i]) /\ \A j \in 1..(i - 1) : ~Fits(ipList[j])
    BY <1>2, <2>3
  <2>5. it' \in Known /\ ~empty(it')
    BY <1>2, <2>3, <2>4, KnownAssumption DEF empty, is_v4, is_v6
  <2>6. IsFirstFitting(it, ipList)'
    BY <1>1, <2>3, <2>4 DEF IsFirstFitting, Fits
  <2>7. Addresses(rHost)' = Addresses(rHost)
    BY <1>1 DEF Addresses, getaddrinfo, serviceVars
  <2>8. Stage'
    BY <1>1, <2>3, <2>5, <2>6, <2>7 DEF LookupInv, Stage, serviceVars
  <2>9. TypeOK'
    BY <1>1, <2>3, <2>5 DEF LookupInv, TypeOK, serviceVars
  <2> QED
    BY <2>8, <2>9 DEF LookupInv
<1> QED
  BY <1>3, <1>4

\* The lookup keeps its invariant.
LEMMA LookupHolds == Spec => []LookupInv
<1>1. LookupInv /\ UNCHANGED vars => LookupInv'
  BY DEF vars, serviceVars, LookupInv, TypeOK, Stage, ByName, Addresses, getaddrinfo,
         IsFirstFitting, Fits
<1>2. LookupInv /\ [Next]_vars => LookupInv'
  BY <1>1, StepChange, StepParse, StepHostname, StepForward, StepFallback, StepChoose DEF Next
<1> QED
  BY <1>2, InitLookup, PTL DEF Spec

\* The types of CHostLookup's state; at most one list is lost in a lookup.
THEOREM LookupTypes == Spec => []TypeOK
<1>1. LookupInv => TypeOK
  BY DEF LookupInv
<1> QED
  BY <1>1, LookupHolds, PTL

\* connect and getLink use the first address of the socket's own domain in the
\* list they have, and give up only if there is none, whatever the name service
\* answers and however it changes between two questions.
THEOREM RightAddress == Spec => []ChosenFits
<1>1. LookupInv => ChosenFits
  <2> SUFFICES ASSUME LookupInv PROVE ChosenFits
    OBVIOUS
  <2> USE DEF LookupInv, Stage
  <2>1. pc = "chosen" => ~empty(it)
    OBVIOUS
  <2>2. pc = "chosen" \/ (pc = "thrown" /\ ipList # <<>>) => IsFirstFitting(it, ipList)
    OBVIOUS
  <2>3. ASSUME pc \in {"chosen", "thrown"}, changes = 0
        PROVE  IsFirstFitting(it, Addresses(rHost))
    <3>1. Addresses(rHost) = ipList
      BY <2>3
    <3>2. CASE ipList = <<>>
      <4>1. empty(it)
        BY <2>3, <3>2 DEF empty, Empty
      <4>2. Len(<<>>) = 0
        OBVIOUS
      <4> QED
        BY <3>1, <3>2, <4>1, <4>2 DEF IsFirstFitting
    <3>3. CASE ipList # <<>>
      BY <2>2, <2>3, <3>1, <3>3
    <3> QED
      BY <3>2, <3>3
  <2> QED
    BY <2>1, <2>2, <2>3 DEF ChosenFits
<1> QED
  BY <1>1, LookupHolds, PTL

\* The text of an address that the socket can use is never refused because its
\* address has no name; without a usable name it is used as it stands.
THEOREM TextSuffices == Spec => []TextIsEnough
<1>1. LookupInv => TextIsEnough
  <2> SUFFICES ASSUME LookupInv, NEW a, a = rHost.text.means, ~empty(a)
               PROVE  /\ pc = "thrown" /\ Fits(a) => asked = Named(hostName) /\ ipList # <<>>
                      /\ pc = "chosen" /\ asked = rHost => it = a
    BY DEF TextIsEnough
  <2> USE DEF LookupInv
  <2>1. rHost.text # NoText
    BY ParsedHost DEF TypeOK
  <2>2. ASSUME pc \in {"chosen", "thrown"}, asked # Named(hostName)
        PROVE  asked = rHost /\ ipList = <<a>>
    BY <2>2 DEF Stage
  <2>3. rHost # Named(hostName)
    BY <2>1 DEF Named
  <2>4. ASSUME ipList = <<a>>, IsFirstFitting(it, ipList) PROVE (Fits(a) => it = a) /\ (~empty(it) => it = a)
    <3>1. Len(ipList) = 1 /\ ipList[1] = a
      BY <2>4
    <3> QED
      BY <2>4, <3>1 DEF IsFirstFitting
  <2>5. ASSUME pc = "chosen", asked = rHost PROVE it = a
    BY <2>2, <2>3, <2>4, <2>5 DEF Stage
  <2>6. ASSUME pc = "thrown", Fits(a) PROVE asked = Named(hostName) /\ ipList # <<>>
    <3>1. CASE asked # Named(hostName)
      <4>1. it = Empty /\ ipList = <<a>>
        BY <2>2, <2>6, <3>1 DEF Stage
      <4>2. <<a>> # <<>>
        OBVIOUS
      <4>3. it = a
        BY <2>4, <2>6, <4>1 DEF Stage
      <4> QED
        BY <4>1, <4>2, <4>3 DEF empty, Empty
    <3>2. CASE asked = Named(hostName)
      BY <2>3, <2>6, <3>2 DEF Stage
    <3> QED
      BY <3>1, <3>2
  <2> QED
    BY <2>5, <2>6
<1> QED
  BY <1>1, LookupHolds, PTL

-----------------------------------------------------------------------------
(* CNetOrder and CHostOrder *)

\* Two swaps of the bytes of an element cancel out.
LEMMA SwapTwice ==
  ASSUME NEW S, NEW e \in Seq(S)
  PROVE  Reverse(Reverse(e)) = e
<1>1. Len(e) \in Nat /\ e \in [1..Len(e) -> S]
  OBVIOUS
<1>2. /\ Reverse(e) \in [1..Len(e) -> S]
      /\ \A i \in 1..Len(e) : Reverse(e)[i] = e[(Len(e) - i) + 1]
  BY <1>1 DEF Reverse
<1>3. Reverse(e) \in Seq(S) /\ Len(Reverse(e)) = Len(e)
  BY <1>1, <1>2
<1>4. \A i \in 1..Len(e) : (Len(e) - i) + 1 \in 1..Len(e) /\ (Len(e) - ((Len(e) - i) + 1)) + 1 = i
  BY <1>1
<1>5. /\ Reverse(Reverse(e)) \in [1..Len(e) -> S]
      /\ \A i \in 1..Len(e) : Reverse(Reverse(e))[i] = Reverse(e)[(Len(e) - i) + 1]
  <2>1. Reverse(Reverse(e)) = [i \in 1..Len(e) |-> Reverse(e)[(Len(e) - i) + 1]]
    BY <1>3 DEF Reverse
  <2> QED
    BY <1>2, <1>4, <2>1
<1>6. \A i \in 1..Len(e) : Reverse(Reverse(e))[i] = e[i]
  BY <1>2, <1>4, <1>5
<1> QED
  BY <1>1, <1>5, <1>6

Arrived(v) == Converted(ReceiverLittle, NetworkOrder(v))

\* What the sender's conversion does to a registered member, and the receiver's
\* undoes: the member as the receiver's machine stores it.
LEMMA MemberArrives ==
  ASSUME NEW v \in Value, NEW m \in Registered
  PROVE  Arrived(v)[m] = Memory(ReceiverLittle, v)[m]
<1>1. /\ m \in DOMAIN v /\ v[m] \in Seq(Seq(0..255))
      /\ \A i \in DOMAIN v[m] : v[m][i] \in Seq(0..255)
  BY ValueAssumption
<1>2. \A little : /\ DOMAIN Memory(little, v) = DOMAIN v
                  /\ Memory(little, v)[m]
                     = [i \in DOMAIN v[m] |-> IF little THEN Reverse(v[m][i]) ELSE v[m][i]]
  BY <1>1 DEF Memory, EachElement
<1>3. NetworkOrder(v)[m] = [i \in DOMAIN v[m] |-> v[m][i]] /\ m \in DOMAIN NetworkOrder(v)
  <2> DEFINE w == Memory(SenderLittle, v)
  <2>1. NetworkOrder(v) = [k \in DOMAIN w |->
          IF k \in Registered THEN [i \in DOMAIN w[k] |->
                                     IF SenderLittle THEN Reverse(w[k][i]) ELSE w[k][i]]
          ELSE Unset]
    BY DEF NetworkOrder, Converted, ConvertedMember, host_to_network, getConstRef
  <2>2. /\ m \in DOMAIN w /\ DOMAIN w[m] = DOMAIN v[m]
        /\ \A i \in DOMAIN v[m] : w[m][i] = IF SenderLittle THEN Reverse(v[m][i]) ELSE v[m][i]
    BY <1>1, <1>2
  <2> HIDE DEF w
  <2>3. /\ m \in DOMAIN NetworkOrder(v)
        /\ NetworkOrder(v)[m] = [i \in DOMAIN v[m] |->
             IF SenderLittle THEN Reverse(w[m][i]) ELSE w[m][i]]
    BY <2>1, <2>2
  <2>4. \A i \in DOMAIN v[m] :
          (IF SenderLittle THEN Reverse(w[m][i]) ELSE w[m][i]) = v[m][i]
    BY <1>1, <2>2, SwapTwice
  <2> QED
    BY <2>3, <2>4
<1>4. Arrived(v)[m] = [i \in DOMAIN v[m] |->
        IF ReceiverLittle THEN Reverse(v[m][i]) ELSE v[m][i]]
  <2> DEFINE n == NetworkOrder(v)
  <2>1. Arrived(v) = [k \in DOMAIN n |->
          IF k \in Registered THEN [i \in DOMAIN n[k] |->
                                     IF ReceiverLittle THEN Reverse(n[k][i]) ELSE n[k][i]]
          ELSE Unset]
    BY DEF Arrived, Converted, ConvertedMember, host_to_network, getConstRef
  <2>2. m \in DOMAIN n /\ DOMAIN n[m] = DOMAIN v[m] /\ \A i \in DOMAIN v[m] : n[m][i] = v[m][i]
    BY <1>3
  <2> HIDE DEF n
  <2>3. Arrived(v)[m] = [i \in DOMAIN n[m] |->
          IF ReceiverLittle THEN Reverse(n[m][i]) ELSE n[m][i]]
    BY <2>1, <2>2
  <2> QED
    BY <2>2, <2>3
<1> QED
  BY <1>2, <1>4

-----------------------------------------------------------------------------
\* The bytes in an object are those of the value it received last; a conversion
\* that was done is that of this value, unless a second value came in after it.
Origin ==
    /\ DOMAIN life = Object /\ DOMAIN initial = Object /\ DOMAIN converted = Object
    /\ DOMAIN m_doItOnce = Object /\ DOMAIN shown = Object
    /\ DOMAIN sent = Object /\ DOMAIN reused = Object
    /\ \A o \in Object :
        /\ initial[o] # NoValue => sent[o] \in Value /\ initial[o] = NetworkOrder(sent[o])
        /\ m_doItOnce[o] = TRUE /\ reused[o] = FALSE
             => /\ sent[o] \in Value
                /\ converted[o] = Arrived(sent[o])
        /\ shown[o] # NoValue => m_doItOnce[o] = TRUE
        /\ shown[o] # NoValue /\ reused[o] = FALSE => shown[o] = Arrived(sent[o])
        /\ m_doItOnce[o] \in BOOLEAN /\ reused[o] \in BOOLEAN

\* At the start there is no object.
LEMMA InitOrigin == OrderInit => Origin
  BY DEF OrderInit, Origin

\* Every operation keeps to it.
LEMMA StepOrigin == Origin /\ [OrderNext]_orderVars => Origin'
<1> SUFFICES ASSUME Origin, [OrderNext]_orderVars PROVE Origin'
  OBVIOUS
<1>1. \A v : /\ Converted(ReceiverLittle, NetworkOrder(v)) = Arrived(v)
  BY DEF Arrived
<1> USE DEF Origin
<1>2. ASSUME NEW o \in Object, Create(o) PROVE Origin'
  BY <1>2 DEF Create
<1>3. ASSUME NEW o \in Object, CreateFrom(o) PROVE Origin'
  BY ZenonT(30), <1>3 DEF CreateFrom
<1>4. ASSUME NEW o \in Object, Recive(o) PROVE Origin'
  BY <1>4 DEF Recive
<1>5. ASSUME NEW o \in Object, CallHostOrder(o) PROVE Origin'
  BY ZenonT(30), <1>1, <1>5 DEF CallHostOrder
<1>6. ASSUME NEW o \in Object, Destroy(o) PROVE Origin'
  BY <1>6 DEF Destroy
<1>7. ASSUME NEW o \in Object, NEW rhs \in Object, Copy(o, rhs) PROVE Origin'
  BY <1>7 DEF Copy
<1>8. CASE UNCHANGED orderVars
  BY <1>8 DEF orderVars
<1> QED
  BY <1>2, <1>3, <1>4, <1>5, <1>6, <1>7, <1>8 DEF OrderNext

\* An object that is used for one value, and its copies, show that value in every
\* registered member, whatever the byte orders of sender and receiver are.
THEOREM SentIsShown == OrderSpec => []ValueArrives
<1>1. Origin => ValueArrives
  BY MemberArrives DEF Origin, ValueArrives
<1> QED
  BY <1>1, InitOrigin, StepOrigin, PTL DEF OrderSpec
=============================================================================
