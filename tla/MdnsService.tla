------------------------------- MODULE MdnsService -------------------------------
(***************************************************************************)
(* The mDNS services (mdns.hpp) of the servers of one process: what they   *)
(* announce, what they answer to a question and what they take back, and   *)
(* the addresses that the server of each takes for its own when it is      *)
(* constructed (get_addresses, server.hpp). The addresses to announce are  *)
(* found in static variables that all services of the process share and    *)
(* that nothing resets and no lock protects; each service_mdns() stores    *)
(* what it has found and copies what is there then into its own records,   *)
(* while others store and copy. Starting and stopping is in                *)
(* ServerLifecycle.                                                        *)
(* A record is its type, the service it is about and its data; names and   *)
(* ports are constants of a service. Whether an answer is sent to one      *)
(* listener or to all is left out: `cache` is what anybody has learned.    *)
(* An operator commented "Mutant" is a plausible bug in the operator that  *)
(* follows it; Next uses none of them.                                     *)
(***************************************************************************)
EXTENDS Integers, SequencesExt

CONSTANTS Service,     \* the MdnsService objects, one of each server
          Ipv4, Ipv6,  \* addresses that an interface may have
          Networks,    \* what getifaddrs may find: sequences of interfaces
          None,
          Tls          \* is_tls_server: is_ssl_enabled() of the build

ASSUME ConstantsAssumption == None \notin Ipv4 \cup Ipv6 /\ Tls \in BOOLEAN
ASSUME NetworksAssumption ==
    Networks \subseteq Seq([address : Ipv4 \cup Ipv6,
                          kind : {"lan", "down", "pointopoint", "link_local", "loopback"}])

VARIABLES net,             \* the interfaces of the host
          service_address_ipv4, service_address_ipv6,  \* the static variables
          at,              \* where each server and its service_mdns() is
          hosts,           \* the addresses that each server accepts as a host
          ifaddr,          \* the interfaces each found; kept when freed, as history
          first_ipv4,      \* of each open_client_sockets: none is stored yet
          first_ipv6,
          address_ipv4,    \* of each service_t
          address_ipv6,
          cache,           \* history: records that listeners believe
          moved,           \* history: net has changed since each was constructed
          beside           \* history: IPv4 addresses found by services that were
                           \* between finding and copying at the same time as each

statics == <<service_address_ipv4, service_address_ipv6>>
firsts == <<first_ipv4, first_ipv6>>
service == <<address_ipv4, address_ipv6>>
vars == <<net, statics, at, hosts, ifaddr, firsts, service, cache, moved, beside>>

Init == /\ net \in Networks
        /\ service_address_ipv4 = None        \* zero: sin_family is not AF_INET
        /\ service_address_ipv6 = None
        /\ at = [s \in Service |-> "off"]
        /\ hosts = [s \in Service |-> {}]
        /\ ifaddr = [s \in Service |-> <<>>]
        /\ first_ipv4 = [s \in Service |-> FALSE]
        /\ first_ipv6 = [s \in Service |-> FALSE]
        /\ address_ipv4 = [s \in Service |-> None]
        /\ address_ipv6 = [s \in Service |-> None]
        /\ cache = {}
        /\ moved = [s \in Service |-> FALSE]
        /\ beside = [s \in Service |-> {}]

---------------------------------------------------------------------------------
(* The interfaces of the host *)

\* Mutant: only the first address is taken.
GetFirstAddress(network) ==
    LET usable == SelectSeq(network, LAMBDA i : i.kind \notin {"link_local", "loopback"})
    IN  IF usable = <<>> THEN {} ELSE {usable[1].address}

\* get_addresses: all but those of the loopback and the local ones of a link.
GetAddresses(network) ==
    {i.address : i \in {j \in Range(network) : j.kind \notin {"link_local", "loopback"}}}

\* open_client_sockets(0, 0, 0): the first address of a family that belongs to an
\* interface which is up, does multicast and leads to more than one peer, or None.
FirstUsable(network, family) ==
    LET usable == {i \in DOMAIN network : /\ network[i].kind = "lan"
                                         /\ network[i].address \in family}
    IN  IF usable = {} THEN None ELSE network[Min(usable)].address

found4(s) == FirstUsable(ifaddr[s], Ipv4)
found6(s) == FirstUsable(ifaddr[s], Ipv6)

---------------------------------------------------------------------------------
(* The records of a service_t *)

Record(s, type, data) == [of |-> s, type |-> type, data |-> data]

Ptr(s) == Record(s, "PTR", None)
Srv(s) == Record(s, "SRV", None)
A(s) == Record(s, "A", address_ipv4[s])
Aaaa(s) == Record(s, "AAAA", address_ipv6[s])

\* The answer to the DNS-SD meta query: a PTR to the type of the service, which is
\* "_webthing._tcp.local." for every server and is of none of them.
ServiceType == Record(None, "TYPE", None)

When(condition, record) == IF condition THEN <<record>> ELSE <<>>

HasA(s) == address_ipv4[s] # None
HasAaaa(s) == address_ipv6[s] # None

Texts(s) == <<Record(s, "TXT", "path")>> \o When(Tls, Record(s, "TXT", "tls"))

\* Mutant: the addresses are not looked up where they were copied to.
AddressesOfNow(s) ==
    When(service_address_ipv4 # None, Record(s, "A", service_address_ipv4))
    \o When(service_address_ipv6 # None, Record(s, "AAAA", service_address_ipv6))

Addresses(s) == When(HasA(s), A(s)) \o When(HasAaaa(s), Aaaa(s))

\* What is announced, and in the same form taken back by the goodbye.
Announcement(s) == <<Srv(s)>> \o Addresses(s) \o Texts(s)

---------------------------------------------------------------------------------
(* service_callback: the answers to a question for a name and a type. A set    *)
(* with no or with one packet.                                                 *)

Packet(answer, additional) == {[answer |-> answer, additional |-> additional]}

AnswerDnsSd(rtype) ==
    IF rtype \in {"PTR", "ANY"} THEN Packet(ServiceType, <<>>) ELSE {}

\* Mutant: the answer is repeated among the additional records.
AnswerServiceTwice(s, rtype) ==
    IF rtype \in {"PTR", "ANY"}
    THEN Packet(Ptr(s), <<Ptr(s), Srv(s)>> \o Addresses(s) \o Texts(s)) ELSE {}

AnswerService(s, rtype) ==
    IF rtype \in {"PTR", "ANY"}
    THEN Packet(Ptr(s), <<Srv(s)>> \o Addresses(s) \o Texts(s)) ELSE {}

AnswerInstance(s, rtype) ==
    IF rtype \in {"SRV", "ANY"}
    THEN Packet(Srv(s), Addresses(s) \o Texts(s)) ELSE {}

\* Mutant: a question for any record is taken for one for an A record.
AnswerHostnameIpv4First(s, rtype) ==
    IF rtype \in {"A", "ANY"}
    THEN IF HasA(s) THEN Packet(A(s), When(HasAaaa(s), Aaaa(s)) \o Texts(s)) ELSE {}
    ELSE IF rtype = "AAAA" /\ HasAaaa(s)
         THEN Packet(Aaaa(s), When(HasA(s), A(s)) \o Texts(s)) ELSE {}

AnswerHostname(s, rtype) ==
    IF rtype \in {"A", "ANY"} /\ HasA(s)
    THEN Packet(A(s), When(HasAaaa(s), Aaaa(s)) \o Texts(s))
    ELSE IF rtype \in {"AAAA", "ANY"} /\ HasAaaa(s)
         THEN Packet(Aaaa(s), When(HasA(s), A(s)) \o Texts(s)) ELSE {}

\* "other" stands for a type that is not in the switch, and for another name.
RecordType == {"PTR", "SRV", "A", "AAAA", "TXT", "ANY", "other"}
QueryName == {"dns-sd", "service", "service_instance", "hostname_qualified", "other"}

Answers(s, name, rtype) ==
    CASE name = "dns-sd" -> AnswerDnsSd(rtype)
      [] name = "service" -> AnswerService(s, rtype)
      [] name = "service_instance" -> AnswerInstance(s, rtype)
      [] name = "hostname_qualified" -> AnswerHostname(s, rtype)
      [] OTHER -> {}

Records(packet) == {packet.answer} \cup Range(packet.additional)

---------------------------------------------------------------------------------
(* The constructor of the server, and service_mdns *)

Goto(s, from, to) == at[s] = from /\ at' = [at EXCEPT ![s] = to]

\* WebThingServer::WebThingServer
Construct(s) ==
    /\ Goto(s, "off", "constructed")
    /\ hosts' = [hosts EXCEPT ![s] = GetAddresses(net)]
    /\ moved' = [moved EXCEPT ![s] = FALSE]
    /\ UNCHANGED <<net, statics, ifaddr, firsts, service, cache, beside>>

\* open_client_sockets(0, 0, 0): what the host has now is noted, to be stored below.
\* getifaddrs may fail, and then there is nothing. (beside: who has found an address
\* and not stored it may do so at any time from here on, and so may this service
\* for those that have not copied theirs.)
Enumerate(s) ==
    /\ Goto(s, "constructed", "enumerated")
    /\ ifaddr' \in {[ifaddr EXCEPT ![s] = found] : found \in {net, <<>>}}
    /\ first_ipv4' = [first_ipv4 EXCEPT ![s] = TRUE]
    /\ first_ipv6' = [first_ipv6 EXCEPT ![s] = TRUE]
    /\ beside' = [u \in Service |->
                    IF u = s
                    THEN {found4(v) : v \in {w \in Service \ {s} :
                              at[w] = "enumerated" /\ first_ipv4[w]}} \ {None}
                    ELSE IF at[u] \in {"enumerated", "opened"}
                         THEN beside[u] \cup ({found4(s)'} \ {None}) ELSE beside[u]]
    /\ UNCHANGED <<net, statics, hosts, service, cache, moved>>

\* Mutant: an address is stored only while none is known.
StoreIpv4Once(s) ==
    /\ at[s] = "enumerated" /\ first_ipv4[s] /\ found4(s) # None
    /\ service_address_ipv4' = IF service_address_ipv4 = None THEN found4(s)
                                                              ELSE service_address_ipv4
    /\ first_ipv4' = [first_ipv4 EXCEPT ![s] = FALSE]
    /\ UNCHANGED <<net, service_address_ipv6, at, hosts, ifaddr, first_ipv6, service,
                   cache, moved, beside>>

\* The loop over the interfaces stores the first usable address of each family, in
\* the order in which they come; either family may be first. The host and the
\* static variables may have changed since the addresses were found.
StoreIpv4(s) ==
    /\ at[s] = "enumerated" /\ first_ipv4[s] /\ found4(s) # None
    /\ service_address_ipv4' = found4(s)
    /\ first_ipv4' = [first_ipv4 EXCEPT ![s] = FALSE]
    /\ UNCHANGED <<net, service_address_ipv6, at, hosts, ifaddr, first_ipv6, service,
                   cache, moved, beside>>

StoreIpv6(s) ==
    /\ at[s] = "enumerated" /\ first_ipv6[s] /\ found6(s) # None
    /\ service_address_ipv6' = found6(s)
    /\ first_ipv6' = [first_ipv6 EXCEPT ![s] = FALSE]
    /\ UNCHANGED <<net, service_address_ipv4, at, hosts, ifaddr, first_ipv4, service,
                   cache, moved, beside>>

\* The loop is over, and open_service_sockets goes on to open the sockets. Of a
\* family without a usable address the variable is what it was.
OpenSockets(s) ==
    /\ Goto(s, "enumerated", "opened")
    /\ found4(s) # None => ~first_ipv4[s]
    /\ found6(s) # None => ~first_ipv6[s]
    /\ UNCHANGED <<net, statics, hosts, ifaddr, firsts, service, cache, moved, beside>>

\* The server is gone, and with it what it knew.
Forget(s) ==
    /\ hosts' = [hosts EXCEPT ![s] = {}]
    /\ ifaddr' = [ifaddr EXCEPT ![s] = <<>>]
    /\ first_ipv4' = [first_ipv4 EXCEPT ![s] = FALSE]
    /\ first_ipv6' = [first_ipv6 EXCEPT ![s] = FALSE]
    /\ moved' = [moved EXCEPT ![s] = FALSE]
    /\ beside' = [beside EXCEPT ![s] = {}]

\* No socket on the port: return -1.
OpenFails(s) ==
    /\ Goto(s, "opened", "off")
    /\ Forget(s)
    /\ UNCHANGED <<net, statics, service, cache>>

\* Mutant: the two families are swapped.
CopySwapped(s) ==
    /\ Goto(s, "opened", "copied")
    /\ address_ipv4' = [address_ipv4 EXCEPT ![s] = service_address_ipv6]
    /\ UNCHANGED <<net, statics, hosts, ifaddr, firsts, address_ipv6, cache, moved, beside>>

\* The service_t takes the static variables, one after the other.
CopyIpv4(s) ==
    /\ Goto(s, "opened", "copied")
    /\ address_ipv4' = [address_ipv4 EXCEPT ![s] = service_address_ipv4]
    /\ UNCHANGED <<net, statics, hosts, ifaddr, firsts, address_ipv6, cache, moved, beside>>

\* The records are built from the service_t, and announced.
CopyIpv6AndAnnounce(s) ==
    /\ Goto(s, "copied", "serving")
    /\ address_ipv6' = [address_ipv6 EXCEPT ![s] = service_address_ipv6]
    /\ UNCHANGED <<net, statics, hosts, ifaddr, firsts, address_ipv4, moved, beside>>
    /\ cache' = cache \cup ({Ptr(s)} \cup Range(Announcement(s)))'

\* A question arrives at the sockets of a service, and is answered or not.
ServiceCallback(s, name, rtype) ==
    /\ at[s] = "serving"
    /\ cache' = cache \cup UNION {Records(p) : p \in Answers(s, name, rtype)}
    /\ UNCHANGED <<net, statics, at, hosts, ifaddr, firsts, service, moved, beside>>

\* The goodbye: the records are sent again with no time to live.
Goodbye(s) ==
    /\ Goto(s, "serving", "off")
    /\ cache' = cache \ ({Ptr(s)} \cup Range(Announcement(s)))
    /\ address_ipv4' = [address_ipv4 EXCEPT ![s] = None]
    /\ address_ipv6' = [address_ipv6 EXCEPT ![s] = None]
    /\ Forget(s)
    /\ UNCHANGED <<net, statics>>

\* The environment: an interface goes up, down or gets another address.
NetworkChanges ==
    /\ net' \in Networks \ {net}
    /\ moved' = [s \in Service |-> at[s] # "off"]
    /\ UNCHANGED <<statics, at, hosts, ifaddr, firsts, service, cache, beside>>

Next == \/ \E s \in Service : \/ Construct(s)
                              \/ Enumerate(s)
                              \/ StoreIpv4(s)
                              \/ StoreIpv6(s)
                              \/ OpenSockets(s)
                              \/ OpenFails(s)
                              \/ CopyIpv4(s)
                              \/ CopyIpv6AndAnnounce(s)
                              \/ \E name \in QueryName, rtype \in RecordType :
                                    ServiceCallback(s, name, rtype)
                              \/ Goodbye(s)
        \/ NetworkChanges

Spec == Init /\ [][Next]_vars

---------------------------------------------------------------------------------
(* Properties *)

TypeOK ==
    /\ net \in Networks
    /\ service_address_ipv4 \in Ipv4 \cup {None}
    /\ service_address_ipv6 \in Ipv6 \cup {None}
    /\ at \in [Service -> {"off", "constructed", "enumerated", "opened", "copied",
                          "serving"}]
    /\ hosts \in [Service -> SUBSET (Ipv4 \cup Ipv6)]
    /\ ifaddr \in [Service -> Networks \cup {<<>>}]
    /\ first_ipv4 \in [Service -> BOOLEAN]
    /\ first_ipv6 \in [Service -> BOOLEAN]
    /\ moved \in [Service -> BOOLEAN]
    /\ address_ipv4 \in [Service -> Ipv4 \cup {None}]
    /\ address_ipv6 \in [Service -> Ipv6 \cup {None}]
    /\ cache \subseteq
          {ServiceType} \cup [of : Service, type : {"PTR", "SRV", "A", "AAAA", "TXT"},
                             data : Ipv4 \cup Ipv6 \cup {None, "path", "tls"}]
    /\ beside \in [Service -> SUBSET Ipv4]

Serving == {s \in Service : at[s] = "serving"}

\* "mdns_record_t additional[5]" (mdns.hpp:298, 344, 384, 422, 851, 898): no set
\* of addresses and no build makes any packet write past the array, and no packet
\* carries a record twice.
AdditionalRecordsFit ==
    \A s \in Serving :
        /\ Len(Announcement(s)) <= 5
        /\ \A name \in QueryName, rtype \in RecordType :
              \A p \in Answers(s, name, rtype) :
                 /\ Len(p.additional) <= 5
                 /\ IsInjective(<<p.answer>> \o p.additional)

\* Which names own which records (RFC 6763), as a reference for the callback.
Owned(s, name) ==
    CASE name = "dns-sd" -> {ServiceType}
      [] name = "service" -> {Ptr(s)}
      [] name = "service_instance" -> {Srv(s)}
      [] name = "hostname_qualified" -> Range(Addresses(s))
      [] OTHER -> {}

WireType(record) == IF record.type = "TYPE" THEN "PTR" ELSE record.type

\* A question for a name and a type is answered exactly when the service owns such
\* a record, with one of them; unless it is the meta query, the packet completes
\* what is needed to connect: host, port, every address and every text record. The
\* only records the callback never answers with are the text records.
QuestionsAreAnswered ==
    \A s \in Serving : \A name \in QueryName, rtype \in RecordType :
        LET asked == {r \in Owned(s, name) : rtype \in {WireType(r), "ANY"}}
        IN  /\ (Answers(s, name, rtype) # {}) = (asked # {})
            /\ \A p \in Answers(s, name, rtype) :
                  /\ p.answer \in asked
                  /\ name # "dns-sd" => Range(Addresses(s) \o Texts(s)) \subseteq Records(p)
                  /\ name = "service" => Srv(s) \in Records(p)

\* Once a service has said goodbye nobody believes any of its records, whatever
\* was announced and answered before and whatever happened to the network and to
\* the static variables meanwhile. Only the type of the service stays known.
NothingOutlivesGoodbye ==
    \A r \in cache \ {ServiceType} : at[r.of] = "serving"

\* A service that finds an IPv4 address announces that one, or one that a service
\* starting at the same time has found: never one that an earlier start has left in
\* the static variable, however the stores and the copies of all of them interleave.
NoAddressOfAnEarlierStart ==
    \A s \in Serving : found4(s) # None => address_ipv4[s] \in {found4(s)} \cup beside[s]

\* Who follows an announcement to its IPv4 address is not refused by the server: the
\* address is among the hosts that the constructor found, though the two enumerate
\* the interfaces by different rules. The exceptions: the network has changed since
\* the server was constructed, no address was found, or another service, starting at
\* the same time, had found a different one.
AnnouncedAddressIsAccepted ==
    \A s \in Serving :
        ~moved[s] /\ found4(s) # None /\ beside[s] \subseteq {found4(s)}
            => address_ipv4[s] \in hosts[s]
=================================================================================
