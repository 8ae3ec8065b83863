----------------------------- MODULE HostLookup -----------------------------
(***************************************************************************)
(* CHostLookup (src/Lookup/HostLookup.cpp) and what CTcpClient::connect    *)
(* and CUdpClient::getLink do with it: from the host the application names *)
(* to the address the socket is connected to or that a link sends to.      *)
(*                                                                         *)
(* The name service is outside: reverse gives the name of an address,      *)
(* forward the addresses of a name, none if the question fails, and both   *)
(* may change between two questions.  A host is the text of an address, as *)
(* CIpAddress writes it, or a name, which is no address's text.            *)
(***************************************************************************)
EXTENDS IpAddress

CONSTANTS Name, NoName,
          Known,      \* addresses the name service knows of
          Answer,     \* lists of them it gives for a name
          MaxChange   \* bound: changes of the name service

ASSUME KnownAssumption == \A a \in Known : is_v4(a) \/ is_v6(a)
ASSUME AnswerAssumption == Answer \subseteq Seq(Known) /\ <<>> \in Answer
ASSUME NameAssumption == NoName \notin Name /\ MaxChange \in Nat

VARIABLES
    reverse, forward, changes,  \* the name service
    pc,        \* where connect or getLink is
    rHost,     \* its argument
    domain,    \* m_baseSocket.getDomain(), INV for a socket that was moved away
    hostName,  \* what requestHostname found
    ipList,    \* what requestIpAddresses found
    asked,     \* history: the host that ipList is the answer for
    leaked,    \* lists of getaddrinfo nobody frees
    it         \* the address that was chosen

serviceVars == <<reverse, forward, changes>>
vars == <<serviceVars, pc, rHost, domain, hostName, ipList, asked, leaked, it>>

Text(a)  == [name |-> NoName, text |-> toString(a)]
Named(n) == [name |-> n, text |-> NoText]
Host     == {Text(a) : a \in Known} \cup {Named(n) : n \in Name}

TypeOK ==
    /\ reverse \in [Known -> Name \cup {NoName}]
    /\ forward \in [Name -> Answer]
    /\ changes \in 0..MaxChange
    /\ pc \in {"parse", "reverse", "forward", "fallback", "choose", "chosen", "thrown"}
    /\ rHost \in Host
    /\ domain \in {"INET", "INET6", "INV"}
    /\ hostName \in Name \cup {NoName}
    /\ ipList \in Seq(Known)
    /\ leaked \in 0..1
    /\ it \in Known \cup {Empty}

Init ==
    /\ reverse \in [Known -> Name \cup {NoName}]
    /\ forward \in [Name -> Answer]
    /\ changes = 0
    /\ pc = "parse"
    /\ rHost \in Host
    /\ domain \in {"INET", "INET6", "INV"}
    /\ hostName = NoName
    /\ ipList = <<>> /\ asked = rHost
    /\ leaked = 0
    /\ it = Empty

-----------------------------------------------------------------------------
(* The name service *)

Change ==
    /\ changes < MaxChange
    /\ pc \notin {"chosen", "thrown"}
    /\ changes' = changes + 1
    /\ \/ \E a \in Known, n \in Name \cup {NoName} :
             reverse' = [reverse EXCEPT ![a] = n] /\ UNCHANGED forward
       \/ \E n \in Name, list \in Answer :
             forward' = [forward EXCEPT ![n] = list] /\ UNCHANGED reverse
    /\ UNCHANGED <<pc, rHost, domain, hostName, ipList, asked, leaked, it>>

getaddrinfo(host) ==
    IF host.text = NoText THEN forward[host.name] ELSE <<host.text.means>>

-----------------------------------------------------------------------------
(* CHostLookup(CIpAddress(rHost)), whose exceptions are swallowed *)

ip == Parsed(rHost.text)

\* CIpAddress(rHost) throws for a name.
Parse ==
    /\ pc = "parse"
    /\ pc' = IF empty(ip) THEN "fallback" ELSE "reverse"
    /\ UNCHANGED <<serviceVars, rHost, domain, hostName, ipList, asked, leaked, it>>

\* Variant: the exception is not swallowed.
requestHostnameThrows ==
    /\ pc = "reverse"
    /\ hostName' = reverse[ip]
    /\ pc' = IF hostName' = NoName THEN "thrown" ELSE "forward"
    /\ UNCHANGED <<serviceVars, rHost, domain, ipList, asked, leaked, it>>

requestHostname ==
    /\ pc = "reverse"
    /\ hostName' = reverse[ip]
    /\ pc' = IF hostName' = NoName THEN "fallback" ELSE "forward"
    /\ UNCHANGED <<serviceVars, rHost, domain, ipList, asked, leaked, it>>

\* requestIpAddresses loses the list of getaddrinfo when it has walked it.
Answered(host, otherwise) ==
    /\ ipList' = getaddrinfo(host)
    /\ asked' = host
    /\ leaked' = IF ipList' = <<>> THEN leaked ELSE leaked + 1
    /\ pc' = IF ipList' = <<>> THEN otherwise ELSE "choose"

requestIpAddresses ==
    /\ pc = "forward"
    /\ Answered(Named(hostName), "fallback")
    /\ UNCHANGED <<serviceVars, rHost, domain, hostName, it>>

-----------------------------------------------------------------------------
(* CHostLookup(rHost), whose exceptions leave connect or getLink *)

Fallback ==
    /\ pc = "fallback"
    /\ Answered(rHost, "thrown")
    /\ UNCHANGED <<serviceVars, rHost, domain, hostName, it>>

Fits(a) == a.family = domain

\* The first address of the socket's domain, or an exception.
Choose ==
    /\ pc = "choose"
    /\ LET fitting == {i \in 1..Len(ipList) : Fits(ipList[i])}
       IN  IF fitting = {}
           THEN pc' = "thrown" /\ UNCHANGED it
           ELSE pc' = "chosen" /\ it' = ipList[Min(fitting)]
    /\ UNCHANGED <<serviceVars, rHost, domain, hostName, ipList, asked, leaked>>

Next == Change \/ Parse \/ requestHostname \/ requestIpAddresses \/ Fallback \/ Choose

Spec == Init /\ [][Next]_vars

-----------------------------------------------------------------------------
(* Properties *)

\* The first address of the socket's domain in a list, Empty if there is none.
IsFirstFitting(a, list) ==
    \/ /\ empty(a)
       /\ \A i \in 1..Len(list) : ~Fits(list[i])
    \/ \E i \in 1..Len(list) :
         a = list[i] /\ Fits(a) /\ \A j \in 1..(i - 1) : ~Fits(list[j])

\* The addresses of a host, by the name of its address if that has one which
\* leads anywhere; the host's text is read as the kernel reads it.
Addresses(host) ==
    LET a == host.text.means
        byName == IF empty(a) \/ reverse[a] = NoName THEN <<>> ELSE forward[reverse[a]]
    IN  IF byName = <<>> THEN getaddrinfo(host) ELSE byName

(***************************************************************************)
(* A socket is only ever used with an address of its own domain, the first *)
(* one of the list in hand however the name service changes, and that is   *)
(* the list of the host where it does not change.  The lookup is given up  *)
(* only if there is no such address.                                       *)
(***************************************************************************)
ChosenFits ==
    /\ pc = "chosen" => ~empty(it)
    /\ pc = "chosen" \/ (pc = "thrown" /\ ipList # <<>>) => IsFirstFitting(it, ipList)
    /\ pc \in {"chosen", "thrown"} /\ changes = 0 => IsFirstFitting(it, Addresses(rHost))

\* The text of an address of the right domain is enough: if its address has no
\* name, or no address belongs to that name, it is chosen as it stands.
TextIsEnough ==
    LET a == rHost.text.means
    IN  /\ pc = "thrown" /\ ~empty(a) /\ Fits(a) => asked = Named(hostName) /\ ipList # <<>>
        /\ pc = "chosen" /\ asked = rHost /\ ~empty(a) => it = a

\* README.md:114 "the transmitter sends a broadcast message with a specified
\* broadcast address": the address the application wrote is the one used.
WrittenIsUsed ==
    pc = "chosen" /\ ~empty(rHost.text.means) => it = rHost.text.means
=============================================================================
