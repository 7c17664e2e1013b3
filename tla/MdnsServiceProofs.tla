---------------------------- MODULE MdnsServiceProofs ----------------------------
(***************************************************************************)
(* Proofs about MdnsService, for any number of services in the process,    *)
(* all addresses, every sequence of interfaces that the host may show and  *)
(* both builds.                                                            *)
(***************************************************************************)
EXTENDS MdnsService, NaturalsInduction, WellFoundedInduction, SequenceTheorems, TLAPS

---------------------------------------------------------------------------------
(* The interfaces of the host *)

\* An address and the kind of interface that has it.
Interface == [address : Ipv4 \cup Ipv6,
              kind : {"lan", "down", "pointopoint", "link_local", "loopback"}]

\* Among positions of a sequence there is a first one.
LEMMA FirstOf ==
    ASSUME NEW P \in SUBSET Nat, P # {}
    PROVE  Min(P) \in P
  <1> DEFINE less == {p \in Nat \X Nat : p[1] < p[2]}
  <1>1. IsWellFoundedOn(less, Nat)
    BY NatLessThanWellFounded, Zenon DEF OpToRel
  <1>2. PICK x \in P : \A y \in P : ~ (<<y, x>> \in less)
    <2> HIDE DEF less
    <2> QED
      BY <1>1, WFMin
  <1>3. ASSUME NEW y \in P
        PROVE  x <= y
    <2>1. <<y, x>> \in Nat \X Nat /\ <<y, x>>[1] = y /\ <<y, x>>[2] = x
      OBVIOUS
    <2>2. ~ (y < x)
      BY <1>2, <2>1
    <2> QED
      BY <2>2
  <1> QED
    BY <1>3 DEF Min

\* What open_client_sockets stores is an address of the family asked for that
\* an interface in use has, or nothing.
LEMMA UsableAddress ==
    ASSUME NEW network \in Networks, NEW family
    PROVE  \/ FirstUsable(network, family) = None
           \/ /\ FirstUsable(network, family) \in family
              /\ FirstUsable(network, family) \in GetAddresses(network)
  <1> DEFINE usable == {i \in DOMAIN network : /\ network[i].kind = "lan"
                                              /\ network[i].address \in family}
  <1>1. network \in Seq(Interface)
    BY NetworksAssumption DEF Interface
  <1>2. CASE usable = {}
    BY <1>2 DEF FirstUsable
  <1>3. CASE usable # {}
    <2>1. usable \in SUBSET Nat
      BY <1>1
    <2>2. Min(usable) \in usable
      BY <1>3, <2>1, FirstOf
    <2>3. PICK i \in usable : i = Min(usable)
      BY <2>2
    <2>4. FirstUsable(network, family) = network[i].address
      BY <1>3, <2>3 DEF FirstUsable
    <2>5. network[i] \in Range(network)
          /\ network[i].kind \notin {"link_local", "loopback"}
      BY <2>3 DEF Range
    <2> QED
      BY <2>4, <2>5 DEF GetAddresses
  <1> QED
    BY <1>2, <1>3

---------------------------------------------------------------------------------
(* Records and packets *)

\* A record of one of the services, and any record.
ServiceRecord == [of : Service, type : {"PTR", "SRV", "A", "AAAA", "TXT"},
                  data : Ipv4 \cup Ipv6 \cup {None, "path", "tls"}]
DnsRecord == {ServiceType} \cup ServiceRecord

\* A list of at most n records, none of them twice.
Listing(q, n) == q \in Seq(DnsRecord) /\ Len(q) \in 0 .. n /\ IsInjective(q)

\* A concatenation repeats nothing if neither part does and they share nothing.
LEMMA ConcatInjective ==
    ASSUME NEW S, NEW s \in Seq(S), NEW t \in Seq(S),
           IsInjective(s), IsInjective(t), Range(s) \cap Range(t) = {}
    PROVE  IsInjective(s \o t)
  <1> DEFINE m == Len(s)
             n == Len(t)
             u == s \o t
  <1>1. /\ m \in Nat /\ n \in Nat /\ DOMAIN s = 1 .. m /\ DOMAIN t = 1 .. n
        /\ DOMAIN u = 1 .. m + n
        /\ \A i \in 1 .. m + n : u[i] = IF i <= m THEN s[i] ELSE t[i - m]
    BY ConcatProperties
  <1>2. /\ \A i, j \in 1 .. m : s[i] = s[j] => i = j
        /\ \A i, j \in 1 .. n : t[i] = t[j] => i = j
        /\ \A i \in 1 .. m, j \in 1 .. n : s[i] # t[j]
    <2>1. \A i \in 1 .. m : s[i] \in Range(s)
      BY <1>1 DEF Range
    <2>2. \A j \in 1 .. n : t[j] \in Range(t)
      BY <1>1 DEF Range
    <2> QED
      BY <1>1, <2>1, <2>2 DEF IsInjective
  <1> HIDE DEF m, n, u
  <1>3. ASSUME NEW i \in 1 .. m + n, NEW j \in 1 .. m + n, u[i] = u[j]
        PROVE  i = j
    <2>1. CASE i <= m /\ j <= m
      BY <1>1, <1>2, <1>3, <2>1
    <2>2. CASE ~(i <= m) /\ ~(j <= m)
      <3>1. i - m \in 1 .. n /\ j - m \in 1 .. n /\ t[i - m] = t[j - m]
        BY <1>1, <1>3, <2>2
      <3>2. i - m = j - m
        BY <1>2, <3>1
      <3> QED
        BY <1>1, <3>2
    <2>3. CASE i <= m /\ ~(j <= m)
      <3>1. i \in 1 .. m /\ j - m \in 1 .. n /\ s[i] = t[j - m]
        BY <1>1, <1>3, <2>3
      <3> QED
        BY <1>2, <3>1
    <2>4. CASE ~(i <= m) /\ j <= m
      <3>1. j \in 1 .. m /\ i - m \in 1 .. n /\ s[j] = t[i - m]
        BY <1>1, <1>3, <2>4
      <3> QED
        BY <1>2, <3>1
    <2> QED
      BY <2>1, <2>2, <2>3, <2>4
  <1> QED
    BY <1>1, <1>3 DEF IsInjective, u

\* Lists that share no record make one as long as the two.
LEMMA ListingConcat ==
    ASSUME NEW m \in Nat, NEW n \in Nat, NEW q, NEW r,
           Listing(q, m), Listing(r, n), Range(q) \cap Range(r) = {}
    PROVE  Listing(q \o r, m + n) /\ Range(q \o r) = Range(q) \cup Range(r)
  <1>1. q \in Seq(DnsRecord) /\ r \in Seq(DnsRecord) /\ IsInjective(q) /\ IsInjective(r)
        /\ Len(q) \in 0 .. m /\ Len(r) \in 0 .. n
    BY DEF Listing
  <1>2. IsInjective(q \o r)
    BY <1>1, ConcatInjective
  <1>3. q \o r \in Seq(DnsRecord) /\ Len(q \o r) = Len(q) + Len(r)
    BY <1>1, ConcatProperties
  <1>4. Range(q \o r) = Range(q) \cup Range(r)
    BY <1>1, RangeConcatenation
  <1>5. Len(q \o r) \in 0 .. m + n
    BY <1>1, <1>3
  <1> QED
    BY <1>2, <1>3, <1>4, <1>5 DEF Listing

\* A list of one record.
LEMMA ListingOne ==
    ASSUME NEW r \in DnsRecord
    PROVE  Listing(<<r>>, 1) /\ Range(<<r>>) = {r}
  <1>1. <<r>> \in Seq(DnsRecord) /\ Len(<<r>>) = 1 /\ <<r>>[1] = r /\ DOMAIN <<r>> = {1}
    OBVIOUS
  <1>2. Range(<<r>>) = {<<r>>[i] : i \in {1}}
    BY <1>1 DEF Range
  <1>3. Range(<<r>>) = {r}
    BY <1>1, <1>2
  <1>4. IsInjective(<<r>>)
    BY <1>1 DEF IsInjective
  <1> QED
    BY <1>1, <1>3, <1>4 DEF Listing

\* A list of none.
LEMMA ListingNone ==
    ASSUME NEW n \in Nat
    PROVE  Listing(<<>>, n) /\ Range(<<>>) = {}
  <1>1. <<>> \in Seq(DnsRecord) /\ Len(<<>>) = 0 /\ DOMAIN <<>> = {}
    OBVIOUS
  <1> QED
    BY <1>1 DEF Range, IsInjective, Listing

\* A record that is only there on a condition.
LEMMA ListingWhen ==
    ASSUME NEW c \in BOOLEAN, NEW r \in DnsRecord
    PROVE  /\ Listing(When(c, r), 1)
           /\ c => Range(When(c, r)) = {r}
           /\ ~c => Range(When(c, r)) = {}
  <1>1. CASE c
    <2>1. When(c, r) = <<r>>
      BY <1>1 DEF When
    <2> QED
      BY <1>1, <2>1, ListingOne
  <1>2. CASE ~c
    <2>1. When(c, r) = <<>>
      BY <1>2 DEF When
    <2> QED
      BY <1>2, <2>1, ListingNone
  <1> QED
    BY <1>1, <1>2

---------------------------------------------------------------------------------
(* The records of a service, as functions of the two addresses it has copied. *)

\* Its address records, and all that it announces.
AddressesWith(s, v4, v6) ==
    When(v4 # None, Record(s, "A", v4)) \o When(v6 # None, Record(s, "AAAA", v6))

AnnouncementWith(s, v4, v6) == <<Srv(s)>> \o AddressesWith(s, v4, v6) \o Texts(s)

\* What address records there are: one for each address that is known.
LEMMA AddressesProperties ==
    ASSUME NEW s \in Service, NEW v4 \in Ipv4 \cup {None}, NEW v6 \in Ipv6 \cup {None}
    PROVE  /\ Listing(AddressesWith(s, v4, v6), 2)
           /\ \A r : r \in Range(AddressesWith(s, v4, v6))
                     <=> \/ v4 # None /\ r = Record(s, "A", v4)
                         \/ v6 # None /\ r = Record(s, "AAAA", v6)
  <1> DEFINE r4 == Record(s, "A", v4)
             r6 == Record(s, "AAAA", v6)
             a == When(v4 # None, r4)
             b == When(v6 # None, r6)
  <1>1. r4 \in DnsRecord /\ r6 \in DnsRecord /\ r4 # r6
    BY DEF Record, DnsRecord, ServiceRecord
  <1>2. AddressesWith(s, v4, v6) = a \o b
    BY DEF AddressesWith
  <1> HIDE DEF r4, r6
  <1>3. /\ Listing(a, 1)
        /\ v4 # None => Range(a) = {r4}
        /\ ~(v4 # None) => Range(a) = {}
    <2>1. (v4 # None) \in BOOLEAN
      OBVIOUS
    <2> QED
      BY <1>1, <2>1, ListingWhen
  <1>4. /\ Listing(b, 1)
        /\ v6 # None => Range(b) = {r6}
        /\ ~(v6 # None) => Range(b) = {}
    <2>1. (v6 # None) \in BOOLEAN
      OBVIOUS
    <2> QED
      BY <1>1, <2>1, ListingWhen
  <1> HIDE DEF a, b
  <1>5. Range(a) \cap Range(b) = {}
    BY <1>1, <1>3, <1>4
  <1>6. Listing(a \o b, 1 + 1) /\ Range(a \o b) = Range(a) \cup Range(b)
    BY <1>3, <1>4, <1>5, ListingConcat
  <1>7. \A r : r \in Range(a \o b) <=> \/ v4 # None /\ r = r4
                                       \/ v6 # None /\ r = r6
    BY <1>3, <1>4, <1>6
  <1> QED
    BY <1>2, <1>6, <1>7 DEF r4, r6

\* The text records are of the type TXT, and one or two.
LEMMA TextsProperties ==
    ASSUME NEW s \in Service
    PROVE  /\ Listing(Texts(s), 2)
           /\ \A r \in Range(Texts(s)) : r.type = "TXT" /\ r.of = s
  <1> DEFINE path == Record(s, "TXT", "path")
             tls == Record(s, "TXT", "tls")
             p == <<path>>
             t == When(Tls, tls)
  <1>1. /\ path \in DnsRecord /\ tls \in DnsRecord /\ path # tls
        /\ path.type = "TXT" /\ tls.type = "TXT" /\ path.of = s /\ tls.of = s
    BY DEF Record, DnsRecord, ServiceRecord
  <1>2. Texts(s) = p \o t
    BY DEF Texts
  <1> HIDE DEF path, tls
  <1>3. Listing(p, 1) /\ Range(p) = {path}
    BY <1>1, ListingOne
  <1>4. Listing(t, 1) /\ Range(t) \subseteq {tls}
    BY <1>1, ConstantsAssumption, ListingWhen
  <1> HIDE DEF p, t
  <1>5. Range(p) \cap Range(t) = {}
    BY <1>1, <1>3, <1>4
  <1>6. Listing(p \o t, 1 + 1) /\ Range(p \o t) = Range(p) \cup Range(t)
    BY <1>3, <1>4, <1>5, ListingConcat
  <1>7. \A r \in Range(p \o t) : r.type = "TXT" /\ r.of = s
    BY <1>1, <1>3, <1>4, <1>6
  <1> QED
    BY <1>2, <1>6, <1>7

\* At most one of each: the host and port, two addresses and two texts.
LEMMA AnnouncementProperties ==
    ASSUME NEW s \in Service, NEW v4 \in Ipv4 \cup {None}, NEW v6 \in Ipv6 \cup {None}
    PROVE  /\ Listing(AnnouncementWith(s, v4, v6), 5)
           /\ Range(AnnouncementWith(s, v4, v6))
                 = {Srv(s)} \cup Range(AddressesWith(s, v4, v6)) \cup Range(Texts(s))
  <1> DEFINE h == <<Srv(s)>>
             a == AddressesWith(s, v4, v6)
             t == Texts(s)
  <1>1. Srv(s) \in DnsRecord /\ Srv(s).type = "SRV"
    BY DEF Srv, Record, DnsRecord, ServiceRecord
  <1>2. Listing(h, 1) /\ Range(h) = {Srv(s)}
    BY <1>1, ListingOne
  <1>3. /\ Listing(a, 2)
        /\ \A r \in Range(a) : r.type \in {"A", "AAAA"}
    <2>1. Listing(a, 2)
      BY AddressesProperties
    <2>2. ASSUME NEW r \in Range(a)
          PROVE  r.type \in {"A", "AAAA"}
      <3>1. r = Record(s, "A", v4) \/ r = Record(s, "AAAA", v6)
        BY AddressesProperties
      <3> QED
        BY <3>1 DEF Record
    <2> QED
      BY <2>1, <2>2
  <1>4. Listing(t, 2) /\ \A r \in Range(t) : r.type = "TXT"
    BY TextsProperties
  <1>5. AnnouncementWith(s, v4, v6) = h \o a \o t
    BY DEF AnnouncementWith
  <1> HIDE DEF h, a, t
  <1>6. Listing(h \o a, 1 + 2) /\ Range(h \o a) = Range(h) \cup Range(a)
    <2>1. Range(h) \cap Range(a) = {}
      BY <1>1, <1>2, <1>3
    <2> QED
      BY <1>2, <1>3, <2>1, ListingConcat
  <1>7. Listing(h \o a \o t, 3 + 2) /\ Range(h \o a \o t) = Range(h \o a) \cup Range(t)
    <2>1. Range(h \o a) \cap Range(t) = {}
      BY <1>1, <1>2, <1>3, <1>4, <1>6
    <2>2. Listing(h \o a, 3)
      BY <1>6
    <2> QED
      BY <1>4, <2>1, <2>2, ListingConcat
  <1> QED
    BY <1>2, <1>5, <1>6, <1>7 DEF a, t

---------------------------------------------------------------------------------
(* What the callback answers *)

\* The records of a service in a state of the system.
LEMMA RecordsOfService ==
    ASSUME TypeOK, NEW s \in Service
    PROVE  /\ Listing(Addresses(s), 2)
           /\ \A r : r \in Range(Addresses(s)) <=> \/ HasA(s) /\ r = A(s)
                                                   \/ HasAaaa(s) /\ r = Aaaa(s)
           /\ Listing(Announcement(s), 5)
           /\ Range(Announcement(s))
                 = {Srv(s)} \cup Range(Addresses(s)) \cup Range(Texts(s))
  <1>1. address_ipv4[s] \in Ipv4 \cup {None} /\ address_ipv6[s] \in Ipv6 \cup {None}
    BY DEF TypeOK
  <1>2. Addresses(s) = AddressesWith(s, address_ipv4[s], address_ipv6[s])
    BY DEF Addresses, AddressesWith, HasA, HasAaaa, A, Aaaa
  <1>3. Announcement(s) = AnnouncementWith(s, address_ipv4[s], address_ipv6[s])
    BY <1>2 DEF Announcement, AnnouncementWith
  <1>4. /\ Listing(Addresses(s), 2)
        /\ \A r : r \in Range(Addresses(s)) <=> \/ HasA(s) /\ r = A(s)
                                                \/ HasAaaa(s) /\ r = Aaaa(s)
    BY <1>1, <1>2, AddressesProperties DEF HasA, HasAaaa, A, Aaaa
  <1> QED
    BY <1>1, <1>2, <1>3, <1>4, AnnouncementProperties

\* Their types tell them apart.
LEMMA RecordTypes ==
    ASSUME TypeOK, NEW s \in Service
    PROVE  /\ ServiceType \in DnsRecord /\ ServiceType.type = "TYPE"
           /\ Ptr(s) \in DnsRecord /\ Ptr(s).type = "PTR"
           /\ Srv(s) \in DnsRecord /\ Srv(s).type = "SRV"
           /\ A(s) \in DnsRecord /\ A(s).type = "A"
           /\ Aaaa(s) \in DnsRecord /\ Aaaa(s).type = "AAAA"
           /\ \A r \in Range(Addresses(s)) : r.type \in {"A", "AAAA"}
           /\ \A r \in Range(Texts(s)) : r.type = "TXT"
  <1>1. address_ipv4[s] \in Ipv4 \cup {None} /\ address_ipv6[s] \in Ipv6 \cup {None}
    BY DEF TypeOK
  <1>2. /\ ServiceType \in DnsRecord /\ ServiceType.type = "TYPE"
        /\ Ptr(s) \in DnsRecord /\ Ptr(s).type = "PTR"
        /\ Srv(s) \in DnsRecord /\ Srv(s).type = "SRV"
    BY DEF ServiceType, Ptr, Srv, Record, DnsRecord, ServiceRecord
  <1>3. /\ A(s) \in DnsRecord /\ A(s).type = "A"
        /\ Aaaa(s) \in DnsRecord /\ Aaaa(s).type = "AAAA"
    BY <1>1 DEF A, Aaaa, Record, DnsRecord, ServiceRecord
  <1>4. \A r \in Range(Addresses(s)) : r = A(s) \/ r = Aaaa(s)
    BY RecordsOfService
  <1> QED
    BY <1>2, <1>3, <1>4, TextsProperties

\* What holds of a packet that answers a question.
Answered(s, name, rtype, answer, additional) ==
    /\ Listing(additional, 5)
    /\ answer \in DnsRecord \ Range(additional)
    /\ answer \in Owned(s, name) /\ rtype \in {WireType(answer), "ANY"}
    /\ {answer} \cup Range(additional)
          \subseteq {ServiceType, Ptr(s)} \cup Range(Announcement(s))
    /\ name # "dns-sd" => Range(Addresses(s)) \cup Range(Texts(s))
                             \subseteq {answer} \cup Range(additional)
    /\ name = "service" => Srv(s) \in {answer} \cup Range(additional)

\* The additional records of a packet with an address: the other address, if
\* there is one, and the texts.
LEMMA OtherAddress ==
    ASSUME TypeOK, NEW s \in Service, NEW has \in BOOLEAN, NEW r \in DnsRecord,
           r.type # "TXT"
    PROVE  /\ Listing(When(has, r) \o Texts(s), 5)
           /\ has => Range(When(has, r) \o Texts(s)) = {r} \cup Range(Texts(s))
           /\ ~has => Range(When(has, r) \o Texts(s)) = Range(Texts(s))
  <1> DEFINE w == When(has, r)
             t == Texts(s)
  <1>1. /\ Listing(w, 1)
        /\ has => Range(w) = {r}
        /\ ~has => Range(w) = {}
    BY ListingWhen
  <1>2. Listing(t, 2) /\ \A x \in Range(t) : x.type = "TXT"
    BY TextsProperties
  <1> HIDE DEF w, t
  <1>3. Range(w) \cap Range(t) = {}
    BY <1>1, <1>2
  <1>4. Listing(w \o t, 1 + 2) /\ Range(w \o t) = Range(w) \cup Range(t)
    BY <1>1, <1>2, <1>3, ListingConcat
  <1>5. Listing(w \o t, 5)
    BY <1>4 DEF Listing
  <1>6. has => Range(w \o t) = {r} \cup Range(t)
    BY <1>1, <1>4
  <1>7. ~has => Range(w \o t) = Range(t)
    BY <1>1, <1>4
  <1> QED
    BY <1>5, <1>6, <1>7 DEF w, t

\* Each answer of service_callback, branch by branch.
LEMMA PacketProperties ==
    ASSUME TypeOK, NEW s \in Service, NEW name \in QueryName, NEW rtype \in RecordType,
           NEW p \in Answers(s, name, rtype)
    PROVE  Answered(s, name, rtype, p.answer, p.additional)
  <1>1. CASE name = "dns-sd"
    <2>1. /\ rtype \in {"PTR", "ANY"}
          /\ p.answer = ServiceType /\ p.additional = <<>>
      BY <1>1 DEF Answers, AnswerDnsSd, Packet
    <2>2. Listing(<<>>, 5) /\ Range(<<>>) = {}
      BY ListingNone
    <2> QED
      BY <1>1, <2>1, <2>2, RecordTypes DEF Answered, Owned, WireType
  <1>2. CASE name = "service"
    <2>1. /\ rtype \in {"PTR", "ANY"}
          /\ p.answer = Ptr(s) /\ p.additional = Announcement(s)
      BY <1>2 DEF Answers, AnswerService, Packet, Announcement
    <2>2. Ptr(s) \notin Range(Announcement(s))
      BY RecordsOfService, RecordTypes
    <2> QED
      BY <1>2, <2>1, <2>2, RecordsOfService, RecordTypes DEF Answered, Owned, WireType
  <1>3. CASE name = "service_instance"
    <2>1. /\ rtype \in {"SRV", "ANY"}
          /\ p.answer = Srv(s) /\ p.additional = Addresses(s) \o Texts(s)
      BY <1>3 DEF Answers, AnswerInstance, Packet
    <2>2. Range(Addresses(s)) \cap Range(Texts(s)) = {}
      BY RecordTypes
    <2>3. /\ Listing(Addresses(s) \o Texts(s), 2 + 2)
          /\ Range(Addresses(s) \o Texts(s)) = Range(Addresses(s)) \cup Range(Texts(s))
      BY <2>2, RecordsOfService, TextsProperties, ListingConcat
    <2>4. Listing(Addresses(s) \o Texts(s), 5)
      BY <2>3 DEF Listing
    <2>5. Srv(s) \notin Range(Addresses(s) \o Texts(s))
      BY <2>3, RecordTypes
    <2> QED
      BY <1>3, <2>1, <2>3, <2>4, <2>5, RecordsOfService, RecordTypes
      DEF Answered, Owned, WireType
  <1>4. CASE name = "hostname_qualified"
    <2>0. HasA(s) \in BOOLEAN /\ HasAaaa(s) \in BOOLEAN
      BY DEF HasA, HasAaaa
    <2>1. CASE rtype \in {"A", "ANY"} /\ HasA(s)
      <3>1. p.answer = A(s) /\ p.additional = When(HasAaaa(s), Aaaa(s)) \o Texts(s)
        BY <1>4, <2>1 DEF Answers, AnswerHostname, Packet
      <3> DEFINE q == When(HasAaaa(s), Aaaa(s)) \o Texts(s)
      <3>2. /\ Listing(q, 5)
            /\ HasAaaa(s) => Range(q) = {Aaaa(s)} \cup Range(Texts(s))
            /\ ~HasAaaa(s) => Range(q) = Range(Texts(s))
        BY <2>0, RecordTypes, OtherAddress
      <3> HIDE DEF q
      <3>3. A(s) \notin Range(q)
        BY <3>2, RecordTypes
      <3>4. Range(Addresses(s)) \cup Range(Texts(s)) = {A(s)} \cup Range(q)
        BY <2>1, <3>2, RecordsOfService
      <3> QED
        BY <1>4, <2>1, <3>1, <3>2, <3>3, <3>4, RecordsOfService, RecordTypes
        DEF Answered, Owned, WireType, q
    <2>2. CASE ~(rtype \in {"A", "ANY"} /\ HasA(s))
      <3>1. /\ rtype \in {"AAAA", "ANY"} /\ HasAaaa(s)
            /\ p.answer = Aaaa(s) /\ p.additional = When(HasA(s), A(s)) \o Texts(s)
        BY <1>4, <2>2 DEF Answers, AnswerHostname, Packet
      <3> DEFINE q == When(HasA(s), A(s)) \o Texts(s)
      <3>2. /\ Listing(q, 5)
            /\ HasA(s) => Range(q) = {A(s)} \cup Range(Texts(s))
            /\ ~HasA(s) => Range(q) = Range(Texts(s))
        BY <2>0, RecordTypes, OtherAddress
      <3> HIDE DEF q
      <3>3. Aaaa(s) \notin Range(q)
        BY <3>2, RecordTypes
      <3>4. Range(Addresses(s)) \cup Range(Texts(s)) = {Aaaa(s)} \cup Range(q)
        BY <3>1, <3>2, RecordsOfService
      <3> QED
        BY <1>4, <3>1, <3>2, <3>3, <3>4, RecordsOfService, RecordTypes
        DEF Answered, Owned, WireType, q
    <2> QED
      BY <2>1, <2>2
  <1>5. name # "other"
    BY DEF Answers
  <1> QED
    BY <1>1, <1>2, <1>3, <1>4, <1>5 DEF QueryName

\* No packet is too long and none repeats a record, in any state of the right type.
LEMMA PacketsFit == TypeOK => AdditionalRecordsFit
  <1> SUFFICES ASSUME TypeOK, NEW s \in Serving
               PROVE  /\ Len(Announcement(s)) <= 5
                      /\ \A name \in QueryName, rtype \in RecordType :
                            \A p \in Answers(s, name, rtype) :
                               /\ Len(p.additional) <= 5
                               /\ IsInjective(<<p.answer>> \o p.additional)
    BY DEF AdditionalRecordsFit
  <1>1. s \in Service
    BY DEF Serving
  <1>2. Len(Announcement(s)) <= 5
    <2>1. Listing(Announcement(s), 5)
      BY <1>1, RecordsOfService
    <2> DEFINE n == Len(Announcement(s))
    <2>2. n \in 0 .. 5
      BY <2>1 DEF Listing
    <2> HIDE DEF n
    <2>3. n <= 5
      BY <2>2
    <2> QED
      BY <2>3 DEF n
  <1>3. ASSUME NEW name \in QueryName, NEW rtype \in RecordType,
               NEW p \in Answers(s, name, rtype)
        PROVE  Len(p.additional) <= 5 /\ IsInjective(<<p.answer>> \o p.additional)
    <2>1. Listing(p.additional, 5) /\ p.answer \in DnsRecord \ Range(p.additional)
      BY <1>1, PacketProperties DEF Answered
    <2>2. Listing(<<p.answer>>, 1) /\ Range(<<p.answer>>) = {p.answer}
      BY <2>1, ListingOne
    <2>3. Range(<<p.answer>>) \cap Range(p.additional) = {}
      BY <2>1, <2>2
    <2>4. Listing(<<p.answer>> \o p.additional, 1 + 5)
      BY <2>1, <2>2, <2>3, ListingConcat
    <2> QED
      BY <2>1, <2>4 DEF Listing
  <1> QED
    BY <1>2, <1>3

\* The callback answers what its service owns, in any state of the right type.
LEMMA OwnedIsAnswered == TypeOK => QuestionsAreAnswered
  <1> SUFFICES ASSUME TypeOK, NEW s \in Serving,
                      NEW name \in QueryName, NEW rtype \in RecordType
               PROVE  LET asked == {r \in Owned(s, name) : rtype \in {WireType(r), "ANY"}}
                      IN  /\ (Answers(s, name, rtype) # {}) = (asked # {})
                          /\ \A p \in Answers(s, name, rtype) :
                                /\ p.answer \in asked
                                /\ name # "dns-sd" => Range(Addresses(s) \o Texts(s))
                                                         \subseteq Records(p)
                                /\ name = "service" => Srv(s) \in Records(p)
    BY DEF QuestionsAreAnswered
  <1> DEFINE asked == {r \in Owned(s, name) : rtype \in {WireType(r), "ANY"}}
  <1>1. s \in Service
    BY DEF Serving
  <1>2. Range(Addresses(s) \o Texts(s)) = Range(Addresses(s)) \cup Range(Texts(s))
    BY <1>1, RecordsOfService, TextsProperties, RangeConcatenation DEF Listing
  <1>3. ASSUME NEW p \in Answers(s, name, rtype)
        PROVE  /\ p.answer \in asked
               /\ name # "dns-sd" => Range(Addresses(s) \o Texts(s)) \subseteq Records(p)
               /\ name = "service" => Srv(s) \in Records(p)
    <2>1. Answered(s, name, rtype, p.answer, p.additional)
      BY <1>1, PacketProperties
    <2> QED
      BY <1>2, <2>1 DEF Answered, Records
  <1>4. Answers(s, name, rtype) # {} => asked # {}
    BY <1>3
  <1>5. ASSUME asked # {}
        PROVE  Answers(s, name, rtype) # {}
    <2>1. PICK r \in Owned(s, name) : rtype \in {WireType(r), "ANY"}
      BY <1>5
    <2>2. CASE name = "dns-sd"
      <3>1. rtype \in {"PTR", "ANY"}
        BY <1>1, <2>1, <2>2, RecordTypes DEF Owned, WireType
      <3> QED
        BY <2>2, <3>1 DEF Answers, AnswerDnsSd, Packet
    <2>3. CASE name = "service"
      <3>1. rtype \in {"PTR", "ANY"}
        BY <1>1, <2>1, <2>3, RecordTypes DEF Owned, WireType
      <3> QED
        BY <2>3, <3>1 DEF Answers, AnswerService, Packet
    <2>4. CASE name = "service_instance"
      <3>1. rtype \in {"SRV", "ANY"}
        BY <1>1, <2>1, <2>4, RecordTypes DEF Owned, WireType
      <3> QED
        BY <2>4, <3>1 DEF Answers, AnswerInstance, Packet
    <2>5. CASE name = "hostname_qualified"
      <3>1. r \in Range(Addresses(s))
        BY <2>1, <2>5 DEF Owned
      <3>2. \/ HasA(s) /\ rtype \in {"A", "ANY"}
            \/ HasAaaa(s) /\ rtype \in {"AAAA", "ANY"}
        BY <1>1, <2>1, <3>1, RecordsOfService, RecordTypes DEF WireType
      <3> QED
        BY <2>5, <3>2 DEF Answers, AnswerHostname, Packet
    <2>6. name # "other"
      BY <2>1 DEF Owned
    <2> QED
      BY <2>2, <2>3, <2>4, <2>5, <2>6 DEF QueryName
  <1> QED
    BY <1>3, <1>4, <1>5

---------------------------------------------------------------------------------
(* The inductive invariant *)

\* What is believed of a service beside its type is part of its announcement, so
\* that the goodbye takes all of it back; of a service that is not there, nothing.
CacheInv ==
    \A r \in cache :
        \/ r = ServiceType
        \/ /\ at[r.of] = "serving"
           /\ r \in {Ptr(r.of)} \cup Range(Announcement(r.of))

\* A service that has opened its sockets has stored the address that it found.
StoredInv ==
    \A s \in Service : at[s] = "opened" /\ found4(s) # None => ~first_ipv4[s]

\* What a service has found and not yet stored, every other knows that has found its
\* own and not yet copied it.
PendingInv ==
    \A s, u \in Service :
        /\ s # u
        /\ at[u] = "enumerated" /\ first_ipv4[u] /\ found4(u) # None
        /\ at[s] \in {"enumerated", "opened"}
        => found4(u) \in beside[s]

\* From its store to its copy the static variable holds what a service has found, or
\* what another has found beside it.
StaticInv ==
    \A s \in Service :
        at[s] \in {"enumerated", "opened"} /\ found4(s) # None /\ ~first_ipv4[s]
            => service_address_ipv4 \in {found4(s)} \cup beside[s]

\* And from then on so do its own records.
CopyInv ==
    \A s \in Service :
        at[s] \in {"copied", "serving"} /\ found4(s) # None
            => address_ipv4[s] \in {found4(s)} \cup beside[s]

\* The host is the one that the constructor saw, and the one that was enumerated if
\* that worked, unless the network has changed.
HostInv ==
    \A s \in Service : at[s] # "off" /\ ~moved[s] =>
        /\ hosts[s] = GetAddresses(net)
        /\ at[s] # "constructed" => ifaddr[s] \in {net, <<>>}

\* The inductive invariant.
IInv == /\ TypeOK /\ CacheInv
        /\ StoredInv /\ PendingInv /\ StaticInv /\ CopyInv /\ HostInv

\* The records of a service depend on its own two addresses only.
LEMMA AnnouncementOf ==
    ASSUME NEW s
    PROVE  /\ Announcement(s) = AnnouncementWith(s, address_ipv4[s], address_ipv6[s])
           /\ Announcement(s)' = AnnouncementWith(s, address_ipv4'[s], address_ipv6'[s])
  BY DEF Announcement, AnnouncementWith, Addresses, AddressesWith, HasA, HasAaaa, A, Aaaa,
         Texts, Srv

\* Every announced record is a record of the service that announces it.
LEMMA AnnouncedRecords ==
    ASSUME NEW s \in Service, NEW v4 \in Ipv4 \cup {None}, NEW v6 \in Ipv6 \cup {None}
    PROVE  /\ {Ptr(s)} \cup Range(AnnouncementWith(s, v4, v6)) \subseteq DnsRecord
           /\ \A r \in {Ptr(s)} \cup Range(AnnouncementWith(s, v4, v6)) : r.of = s
  <1>1. /\ Ptr(s) \in DnsRecord /\ Ptr(s).of = s
        /\ Srv(s).of = s
    BY DEF Ptr, Srv, Record, DnsRecord, ServiceRecord
  <1>2. AnnouncementWith(s, v4, v6) \in Seq(DnsRecord)
    BY AnnouncementProperties DEF Listing
  <1>3. Range(AnnouncementWith(s, v4, v6)) \subseteq DnsRecord
    BY <1>2 DEF Range
  <1>4. ASSUME NEW r \in Range(AnnouncementWith(s, v4, v6))
        PROVE  r.of = s
    <2>1. \/ r = Srv(s)
          \/ r \in Range(AddressesWith(s, v4, v6))
          \/ r \in Range(Texts(s))
      BY AnnouncementProperties
    <2>2. CASE r \in Range(AddressesWith(s, v4, v6))
      <3>1. r = Record(s, "A", v4) \/ r = Record(s, "AAAA", v6)
        BY <2>2, AddressesProperties
      <3> QED
        BY <3>1 DEF Record
    <2> QED
      BY <1>1, <2>1, <2>2, TextsProperties
  <1> QED
    BY <1>1, <1>3, <1>4

\* The records that the callback sends are, but for the type of the service, ones
\* that were announced.
LEMMA SentRecords ==
    ASSUME TypeOK, NEW s \in Service, NEW name \in QueryName, NEW rtype \in RecordType,
           NEW p \in Answers(s, name, rtype), NEW r \in Records(p)
    PROVE  /\ r \in DnsRecord
           /\ r = ServiceType \/ r \in {Ptr(s)} \cup Range(Announcement(s))
  <1>1. r = ServiceType \/ r \in {Ptr(s)} \cup Range(Announcement(s))
    BY PacketProperties DEF Answered, Records
  <1>2. ServiceType \in DnsRecord
    BY DEF DnsRecord
  <1>3. address_ipv4[s] \in Ipv4 \cup {None} /\ address_ipv6[s] \in Ipv6 \cup {None}
    BY DEF TypeOK
  <1> QED
    BY <1>1, <1>2, <1>3, AnnouncementOf, AnnouncedRecords

\* What the two enumerations of a host's interfaces return: addresses, or none.
LEMMA UsableTypes ==
    ASSUME NEW network \in Networks
    PROVE  /\ FirstUsable(network, Ipv4) \in Ipv4 \cup {None}
           /\ FirstUsable(network, Ipv6) \in Ipv6 \cup {None}
           /\ GetAddresses(network) \subseteq Ipv4 \cup Ipv6
  <1>1. network \in Seq(Interface)
    BY NetworksAssumption DEF Interface
  <1>2. ASSUME NEW i \in Range(network)
        PROVE  i.address \in Ipv4 \cup Ipv6
    <2>1. PICK k \in DOMAIN network : i = network[k]
      BY DEF Range
    <2>2. network[k] \in Interface
      BY <1>1, <2>1
    <2> QED
      BY <2>1, <2>2 DEF Interface
  <1> QED
    BY <1>2, UsableAddress DEF GetAddresses

\* Where there is no interface there is no usable address.
LEMMA NothingUsable ==
    ASSUME NEW family
    PROVE  FirstUsable(<<>>, family) = None
  <1>1. DOMAIN <<>> = {}
    OBVIOUS
  <1> QED
    BY <1>1 DEF FirstUsable

\* What a service finds is an address of the family, or none.
LEMMA FoundTypes ==
    ASSUME NEW found \in Networks \cup {<<>>}
    PROVE  /\ FirstUsable(found, Ipv4) \in Ipv4 \cup {None}
           /\ FirstUsable(found, Ipv6) \in Ipv6 \cup {None}
  BY UsableTypes, NothingUsable

\* Every action keeps the types.
LEMMA TypeStep == TypeOK /\ [Next]_vars => TypeOK'
  <1> SUFFICES ASSUME TypeOK, [Next]_vars
               PROVE  TypeOK'
    OBVIOUS
  <1> USE DEF DnsRecord, ServiceRecord, statics, service, firsts
  <1>0. GetAddresses(net) \subseteq Ipv4 \cup Ipv6
        /\ \A s \in Service : found4(s) \in Ipv4 \cup {None} /\ found6(s) \in Ipv6 \cup {None}
    BY UsableTypes, FoundTypes DEF TypeOK, found4, found6
  <1>1. ASSUME NEW s \in Service, Construct(s)
        PROVE  TypeOK'
    BY <1>0, <1>1 DEF TypeOK, Construct, Goto
  <1>2. ASSUME NEW s \in Service, Enumerate(s)
        PROVE  TypeOK'
    <2>1. ifaddr' \in [Service -> Networks \cup {<<>>}]
      BY <1>2 DEF TypeOK, Enumerate
    <2>2. found4(s)' \in Ipv4 \cup {None}
      BY <2>1, FoundTypes DEF found4
    <2>3. beside' \in [Service -> SUBSET Ipv4]
      <3>1. {found4(v) : v \in {w \in Service \ {s} :
                at[w] = "enumerated" /\ first_ipv4[w]}} \ {None} \subseteq Ipv4
        BY <1>0
      <3>2. \A u \in Service : beside[u] \cup ({found4(s)'} \ {None}) \subseteq Ipv4
        BY <2>2 DEF TypeOK
      <3> QED
        BY <1>2, <3>1, <3>2 DEF TypeOK, Enumerate
    <2> QED
      BY <1>2, <2>1, <2>3 DEF TypeOK, Enumerate, Goto
  <1>3. ASSUME NEW s \in Service, StoreIpv4(s) \/ StoreIpv6(s)
        PROVE  TypeOK'
    BY <1>0, <1>3 DEF TypeOK, StoreIpv4, StoreIpv6
  <1>4. ASSUME NEW s \in Service, OpenSockets(s)
        PROVE  TypeOK'
    BY <1>4 DEF TypeOK, OpenSockets, Goto
  <1>10. ASSUME NEW s \in Service, OpenFails(s)
        PROVE  TypeOK'
    BY <1>10 DEF TypeOK, OpenFails, Goto, Forget
  <1>11. ASSUME NEW s \in Service, CopyIpv4(s)
        PROVE  TypeOK'
    BY <1>11 DEF TypeOK, CopyIpv4, Goto
  <1>12. ASSUME NEW s \in Service, CopyIpv6AndAnnounce(s)
        PROVE  TypeOK'
    <2>1. /\ address_ipv4'[s] \in Ipv4 \cup {None}
          /\ address_ipv6'[s] \in Ipv6 \cup {None}
      BY <1>12 DEF TypeOK, CopyIpv6AndAnnounce
    <2>2. (Range(Announcement(s)))' = Range(AnnouncementWith(s, address_ipv4'[s], address_ipv6'[s]))
      BY AnnouncementOf DEF Range
    <2>3. ({Ptr(s)} \cup Range(Announcement(s)))' \subseteq DnsRecord
      BY <2>1, <2>2, AnnouncedRecords DEF Ptr, Record
    <2>4. cache' \subseteq DnsRecord
      BY <1>12, <2>3 DEF CopyIpv6AndAnnounce, TypeOK
    <2> QED
      BY <1>12, <2>4 DEF TypeOK, CopyIpv6AndAnnounce, Goto
  <1>5. ASSUME NEW s \in Service, NEW name \in QueryName, NEW rtype \in RecordType,
               ServiceCallback(s, name, rtype)
        PROVE  TypeOK'
    <2>1. cache' \subseteq DnsRecord
      <3>1. \A p \in Answers(s, name, rtype) : Records(p) \subseteq DnsRecord
        BY SentRecords
      <3> QED
        BY <1>5, <3>1 DEF ServiceCallback, TypeOK
    <2> QED
      BY <1>5, <2>1 DEF TypeOK, ServiceCallback
  <1>6. ASSUME NEW s \in Service, Goodbye(s)
        PROVE  TypeOK'
    BY <1>6 DEF TypeOK, Goodbye, Goto, Forget
  <1>7. CASE NetworkChanges
    BY <1>7 DEF TypeOK, NetworkChanges
  <1>8. CASE UNCHANGED vars
    BY <1>8 DEF TypeOK, vars
  <1> QED
    BY <1>1, <1>2, <1>3, <1>4, <1>5, <1>6, <1>7, <1>8, <1>10, <1>11, <1>12 DEF Next

\* A goodbye takes back all that was announced or answered, and nothing adds to the
\* cache but a service that is there, from the records it will take back.
LEMMA CacheStep == TypeOK /\ CacheInv /\ [Next]_vars => CacheInv'
  <1> SUFFICES ASSUME TypeOK, CacheInv, [Next]_vars, NEW r \in cache', r # ServiceType
               PROVE  /\ at'[r.of] = "serving"
                      /\ r \in ({Ptr(r.of)} \cup Range(Announcement(r.of)))'
    BY DEF CacheInv
  <1> DEFINE believed(t) == {Ptr(t)} \cup Range(Announcement(t))
  <1>0. /\ r \in cache => at[r.of] = "serving" /\ r \in believed(r.of) /\ r.of \in Service
        /\ at \in [Service -> {"off", "constructed", "enumerated", "opened", "copied",
                              "serving"}]
        /\ address_ipv4 \in [Service -> Ipv4 \cup {None}]
        /\ address_ipv6 \in [Service -> Ipv6 \cup {None}]
    BY DEF CacheInv, TypeOK
  <1>00. ASSUME NEW t, address_ipv4'[t] = address_ipv4[t], address_ipv6'[t] = address_ipv6[t]
         PROVE  believed(t)' = believed(t)
    <2>1. Announcement(t)' = Announcement(t)
      BY <1>00, AnnouncementOf
    <2> QED
      BY <2>1 DEF Ptr, Record, Range
  <1>1. ASSUME NEW s \in Service, Construct(s) \/ Enumerate(s) \/ OpenSockets(s)
                                  \/ OpenFails(s)
        PROVE  at'[r.of] = "serving" /\ r \in believed(r.of)'
    <2>1. r \in cache /\ UNCHANGED service
      BY <1>1 DEF Construct, Enumerate, OpenSockets, OpenFails
    <2>2. at'[r.of] = at[r.of]
      <3>1. at[s] # "serving" /\ at' = [at EXCEPT ![s] = at'[s]]
        BY <1>0, <1>1 DEF Construct, Enumerate, OpenSockets, OpenFails, Goto
      <3>2. r.of # s
        BY <1>0, <2>1, <3>1
      <3> QED
        BY <1>0, <2>1, <3>1, <3>2
    <2> QED
      BY <1>0, <1>00, <2>1, <2>2 DEF service
  <1>2. ASSUME NEW s \in Service, StoreIpv4(s) \/ StoreIpv6(s)
        PROVE  at'[r.of] = "serving" /\ r \in believed(r.of)'
    <2>1. r \in cache /\ UNCHANGED service /\ UNCHANGED at
      BY <1>2 DEF StoreIpv4, StoreIpv6
    <2> QED
      BY <1>0, <1>00, <2>1 DEF service
  <1>3. ASSUME NEW s \in Service, CopyIpv4(s)
        PROVE  at'[r.of] = "serving" /\ r \in believed(r.of)'
    <2>1. r \in cache /\ r.of # s /\ at'[r.of] = at[r.of]
      BY <1>0, <1>3 DEF CopyIpv4, Goto
    <2>2. address_ipv4'[r.of] = address_ipv4[r.of] /\ address_ipv6'[r.of] = address_ipv6[r.of]
      BY <1>0, <1>3, <2>1 DEF CopyIpv4
    <2> QED
      BY <1>0, <1>00, <2>1, <2>2
  <1>4. ASSUME NEW s \in Service, CopyIpv6AndAnnounce(s)
        PROVE  at'[r.of] = "serving" /\ r \in believed(r.of)'
    <2>1. CASE r \in cache
      <3>1. r.of # s /\ at'[r.of] = at[r.of]
        BY <1>0, <1>4, <2>1 DEF CopyIpv6AndAnnounce, Goto
      <3>2. address_ipv4'[r.of] = address_ipv4[r.of] /\ address_ipv6'[r.of] = address_ipv6[r.of]
        BY <1>0, <1>4, <2>1, <3>1 DEF CopyIpv6AndAnnounce
      <3> QED
        BY <1>0, <1>00, <2>1, <3>1, <3>2
    <2>2. CASE r \notin cache
      <3>1. r \in believed(s)'
        BY <1>4, <2>2 DEF CopyIpv6AndAnnounce
      <3>2. /\ address_ipv4'[s] \in Ipv4 \cup {None}
            /\ address_ipv6'[s] \in Ipv6 \cup {None}
        BY <1>4 DEF TypeOK, CopyIpv6AndAnnounce
      <3>3. believed(s)' = {Ptr(s)}
                \cup Range(AnnouncementWith(s, address_ipv4'[s], address_ipv6'[s]))
        BY AnnouncementOf DEF Range, Ptr, Record
      <3>4. r.of = s
        BY <3>1, <3>2, <3>3, AnnouncedRecords
      <3>5. at'[s] = "serving"
        BY <1>0, <1>4 DEF CopyIpv6AndAnnounce, Goto
      <3> QED
        BY <3>1, <3>4, <3>5
    <2> QED
      BY <2>1, <2>2
  <1>5. ASSUME NEW s \in Service, NEW name \in QueryName, NEW rtype \in RecordType,
               ServiceCallback(s, name, rtype)
        PROVE  at'[r.of] = "serving" /\ r \in believed(r.of)'
    <2>1. UNCHANGED service /\ UNCHANGED at /\ at[s] = "serving"
      BY <1>5 DEF ServiceCallback
    <2>2. CASE r \in cache
      BY <1>0, <1>00, <2>1, <2>2 DEF service
    <2>3. CASE r \notin cache
      <3>1. PICK p \in Answers(s, name, rtype) : r \in Records(p)
        BY <1>5, <2>3 DEF ServiceCallback
      <3>2. r \in believed(s)
        BY <3>1, SentRecords
      <3>3. believed(s) = {Ptr(s)}
                \cup Range(AnnouncementWith(s, address_ipv4[s], address_ipv6[s]))
        BY AnnouncementOf
      <3>4. r.of = s
        BY <1>0, <3>2, <3>3, AnnouncedRecords
      <3> QED
        BY <1>00, <2>1, <3>2, <3>4 DEF service
    <2> QED
      BY <2>2, <2>3
  <1>6. ASSUME NEW s \in Service, Goodbye(s)
        PROVE  at'[r.of] = "serving" /\ r \in believed(r.of)'
    <2>1. r \in cache /\ r \notin believed(s)
      BY <1>6 DEF Goodbye
    <2>2. r.of # s
      BY <1>0, <2>1
    <2>3. /\ at'[r.of] = at[r.of]
          /\ address_ipv4'[r.of] = address_ipv4[r.of] /\ address_ipv6'[r.of] = address_ipv6[r.of]
      BY <1>0, <1>6, <2>1, <2>2 DEF Goodbye, Goto
    <2> QED
      BY <1>0, <1>00, <2>1, <2>3
  <1>7. CASE NetworkChanges \/ UNCHANGED vars
    <2>1. r \in cache /\ UNCHANGED service /\ UNCHANGED at
      BY <1>7 DEF NetworkChanges, vars
    <2> QED
      BY <1>0, <1>00, <2>1 DEF service
  <1> QED
    BY <1>1, <1>2, <1>3, <1>4, <1>5, <1>6, <1>7 DEF Next

\* The actions by what they do to the places, the addresses found and those beside.
\* All but Enumerate leave what is there of a service that has not gone.
LEMMA Kept ==
    ASSUME TypeOK, [Next]_vars, NEW t \in Service, at'[t] # "off",
           ~ \E s \in Service : Construct(s) \/ Enumerate(s)
    PROVE  /\ ifaddr'[t] = ifaddr[t] /\ found4(t)' = found4(t)
           /\ beside'[t] = beside[t] /\ hosts'[t] = hosts[t]
           /\ at[t] # "off"
           /\ at[t] = "constructed" => at'[t] = "constructed"
           /\ (moved'[t] = moved[t] /\ net' = net) \/ moved'[t]
  <1> DEFINE kept == /\ ifaddr'[t] = ifaddr[t]
                     /\ beside'[t] = beside[t] /\ hosts'[t] = hosts[t]
                     /\ at[t] # "off"
                     /\ at[t] = "constructed" => at'[t] = "constructed"
                     /\ (moved'[t] = moved[t] /\ net' = net) \/ moved'[t]
  <1>0. /\ at \in [Service -> {"off", "constructed", "enumerated", "opened", "copied",
                              "serving"}]
        /\ ifaddr \in [Service -> Networks \cup {<<>>}]
        /\ beside \in [Service -> SUBSET Ipv4]
        /\ hosts \in [Service -> SUBSET (Ipv4 \cup Ipv6)]
        /\ moved \in [Service -> BOOLEAN]
    BY DEF TypeOK
  <1>1. ASSUME NEW s \in Service, StoreIpv4(s) \/ StoreIpv6(s)
        PROVE  kept
    BY <1>1 DEF StoreIpv4, StoreIpv6
  <1>2. ASSUME NEW s \in Service, OpenSockets(s) \/ CopyIpv4(s) \/ CopyIpv6AndAnnounce(s)
        PROVE  kept
    <2>1. /\ \E from \in {"enumerated", "opened", "copied"}, to \in {"opened", "copied", "serving"} :
                Goto(s, from, to)
          /\ ifaddr' = ifaddr /\ beside' = beside /\ hosts' = hosts
          /\ moved' = moved /\ net' = net
      BY <1>2 DEF OpenSockets, CopyIpv4, CopyIpv6AndAnnounce
    <2>2. at[t] # "off" /\ (at[t] = "constructed" => at'[t] = "constructed")
      BY <1>0, <2>1 DEF Goto
    <2> QED
      BY <2>1, <2>2
  <1>3. ASSUME NEW s \in Service, OpenFails(s) \/ Goodbye(s)
        PROVE  kept
    <2>1. at' = [at EXCEPT ![s] = "off"] /\ Forget(s) /\ net' = net
      BY <1>3 DEF OpenFails, Goodbye, Goto
    <2>2. s # t
      BY <1>0, <2>1
    <2> QED
      BY <1>0, <2>1, <2>2 DEF Forget
  <1>4. ASSUME NEW s \in Service, NEW name \in QueryName, NEW rtype \in RecordType,
               ServiceCallback(s, name, rtype)
        PROVE  kept
    BY <1>4 DEF ServiceCallback
  <1>5. ASSUME NetworkChanges
        PROVE  kept
    <2>1. /\ at' = at /\ ifaddr' = ifaddr /\ beside' = beside /\ hosts' = hosts
          /\ moved'[t] = (at[t] # "off")
      BY <1>5 DEF NetworkChanges
    <2> QED
      BY <2>1
  <1>6. ASSUME UNCHANGED vars
        PROVE  kept
    BY <1>6 DEF vars
  <1>7. kept
    BY <1>1, <1>2, <1>3, <1>4, <1>5, <1>6 DEF Next
  <1> QED
    BY <1>7 DEF found4

\* Construction leaves the addresses alone, and concerns only one service.
LEMMA ConstructKeeps ==
    ASSUME TypeOK, NEW s \in Service, Construct(s), NEW t \in Service
    PROVE  /\ found4(t)' = found4(t) /\ beside'[t] = beside[t]
           /\ UNCHANGED <<first_ipv4, service_address_ipv4, address_ipv4>>
           /\ at'[t] = at[t] \/ at'[t] = "constructed"
  BY DEF TypeOK, Construct, Goto, found4, firsts, statics, service

\* What is found by one service is what it was for all others.
LEMMA EnumerateEffect ==
    ASSUME TypeOK, NEW s \in Service, Enumerate(s), NEW t \in Service
    PROVE  /\ UNCHANGED <<service_address_ipv4, address_ipv4>>
           /\ t = s => at'[t] = "enumerated" /\ first_ipv4'[t]
           /\ t # s => /\ at'[t] = at[t] /\ first_ipv4'[t] = first_ipv4[t]
                       /\ found4(t)' = found4(t) /\ beside[t] \subseteq beside'[t]
                       /\ at[t] \in {"enumerated", "opened"} /\ found4(s)' # None
                             => found4(s)' \in beside'[t]
  <1>0. /\ at \in [Service -> {"off", "constructed", "enumerated", "opened", "copied",
                              "serving"}]
        /\ ifaddr \in [Service -> Networks \cup {<<>>}]
        /\ first_ipv4 \in [Service -> BOOLEAN]
    BY DEF TypeOK
  <1>1. /\ UNCHANGED <<service_address_ipv4, address_ipv4>>
        /\ at' = [at EXCEPT ![s] = "enumerated"]
        /\ first_ipv4' = [first_ipv4 EXCEPT ![s] = TRUE]
    BY DEF Enumerate, Goto, statics, service
  <1>2. t # s => ifaddr'[t] = ifaddr[t]
    BY <1>0 DEF Enumerate
  <1>3. t # s => beside'[t] = IF at[t] \in {"enumerated", "opened"}
                              THEN beside[t] \cup ({found4(s)'} \ {None}) ELSE beside[t]
    BY DEF Enumerate
  <1> QED
    BY <1>0, <1>1, <1>2, <1>3 DEF found4

\* The loop is not over before the address is stored.
LEMMA StoredStep == TypeOK /\ StoredInv /\ [Next]_vars => StoredInv'
  <1> SUFFICES ASSUME TypeOK, StoredInv, [Next]_vars, NEW t \in Service,
                      at'[t] = "opened", found4(t)' # None
               PROVE  ~first_ipv4'[t]
    BY DEF StoredInv
  <1>0. /\ at[t] = "opened" /\ found4(t) # None => ~first_ipv4[t]
        /\ at \in [Service -> {"off", "constructed", "enumerated", "opened", "copied",
                              "serving"}]
        /\ first_ipv4 \in [Service -> BOOLEAN]
    BY DEF StoredInv, TypeOK
  <1>1. ASSUME NEW s \in Service, Construct(s)
        PROVE  ~first_ipv4'[t]
    BY <1>0, <1>1, ConstructKeeps
  <1>2. ASSUME NEW s \in Service, Enumerate(s)
        PROVE  ~first_ipv4'[t]
    BY <1>0, <1>2, EnumerateEffect
  <1>3. CASE ~ \E s \in Service : Construct(s) \/ Enumerate(s)
    <2>1. found4(t)' = found4(t)
      BY <1>3, Kept
    <2>2. ASSUME NEW s \in Service, StoreIpv4(s) \/ StoreIpv6(s)
          PROVE  ~first_ipv4'[t]
      BY <1>0, <2>1, <2>2 DEF StoreIpv4, StoreIpv6
    <2>3. ASSUME NEW s \in Service, OpenSockets(s)
          PROVE  ~first_ipv4'[t]
      BY <1>0, <2>1, <2>3 DEF OpenSockets, Goto, firsts
    <2>4. ASSUME NEW s \in Service, OpenFails(s) \/ Goodbye(s)
          PROVE  ~first_ipv4'[t]
      BY <1>0, <2>1, <2>4 DEF OpenFails, Goodbye, Goto, Forget
    <2>5. ASSUME NEW s \in Service, CopyIpv4(s) \/ CopyIpv6AndAnnounce(s)
          PROVE  ~first_ipv4'[t]
      BY <1>0, <2>1, <2>5 DEF CopyIpv4, CopyIpv6AndAnnounce, Goto, firsts
    <2>6. CASE NetworkChanges \/ UNCHANGED vars
               \/ \E s \in Service, name \in QueryName, rtype \in RecordType :
                     ServiceCallback(s, name, rtype)
      BY <1>0, <2>1, <2>6 DEF NetworkChanges, vars, ServiceCallback, firsts
    <2> QED
      BY <1>3, <2>2, <2>3, <2>4, <2>5, <2>6 DEF Next
  <1> QED
    BY <1>1, <1>2, <1>3

\* Finding an address makes it known to all that it may still reach, and starting
\* makes known what is pending.
LEMMA PendingStep == TypeOK /\ PendingInv /\ [Next]_vars => PendingInv'
  <1> SUFFICES ASSUME TypeOK, PendingInv, [Next]_vars,
                      NEW t \in Service, NEW u \in Service, t # u,
                      at'[u] = "enumerated", first_ipv4'[u], found4(u)' # None,
                      at'[t] \in {"enumerated", "opened"}
               PROVE  found4(u)' \in beside'[t]
    BY DEF PendingInv
  <1>0. /\ /\ at[u] = "enumerated" /\ first_ipv4[u] /\ found4(u) # None
           /\ at[t] \in {"enumerated", "opened"}
           => found4(u) \in beside[t]
        /\ at \in [Service -> {"off", "constructed", "enumerated", "opened", "copied",
                              "serving"}]
        /\ first_ipv4 \in [Service -> BOOLEAN]
    BY DEF PendingInv, TypeOK
  <1>1. ASSUME NEW s \in Service, Construct(s)
        PROVE  found4(u)' \in beside'[t]
    <2>1. /\ found4(u)' = found4(u) /\ beside'[t] = beside[t] /\ first_ipv4' = first_ipv4
          /\ at'[t] = at[t] /\ at'[u] = at[u]
      BY <1>1, ConstructKeeps
    <2> QED
      BY <1>0, <2>1
  <1>2. ASSUME NEW s \in Service, Enumerate(s)
        PROVE  found4(u)' \in beside'[t]
    <2>1. CASE s = t
      <3>1. at[u] = "enumerated" /\ first_ipv4[u] /\ found4(u)' = found4(u)
        BY <1>2, <2>1, EnumerateEffect
      <3>2. beside'[t] = {found4(v) : v \in {w \in Service \ {s} :
                              at[w] = "enumerated" /\ first_ipv4[w]}} \ {None}
        BY <1>2, <2>1 DEF Enumerate
      <3>3. u \in {w \in Service \ {s} : at[w] = "enumerated" /\ first_ipv4[w]}
        BY <2>1, <3>1
      <3> QED
        BY <3>1, <3>2, <3>3
    <2>2. CASE s = u
      <3>1. at'[t] = at[t]
        BY <1>2, <2>2, EnumerateEffect
      <3> QED
        BY <1>2, <2>2, <3>1, EnumerateEffect
    <2>3. CASE s # t /\ s # u
      <3>1. /\ at[u] = at'[u] /\ first_ipv4'[u] = first_ipv4[u] /\ found4(u)' = found4(u)
            /\ at'[t] = at[t] /\ beside[t] \subseteq beside'[t]
        BY <1>2, <2>3, EnumerateEffect
      <3> QED
        BY <1>0, <3>1
    <2> QED
      BY <2>1, <2>2, <2>3
  <1>3. CASE ~ \E s \in Service : Construct(s) \/ Enumerate(s)
    <2>1. found4(u)' = found4(u) /\ beside'[t] = beside[t]
      BY <1>3, Kept
    <2>2. at[u] = "enumerated" /\ first_ipv4[u] /\ at[t] \in {"enumerated", "opened"}
      <3>1. ASSUME NEW s \in Service, StoreIpv4(s) \/ StoreIpv6(s)
            PROVE  at[u] = "enumerated" /\ first_ipv4[u] /\ at[t] \in {"enumerated", "opened"}
        BY <1>0, <3>1 DEF StoreIpv4, StoreIpv6
      <3>2. ASSUME NEW s \in Service, OpenSockets(s)
            PROVE  at[u] = "enumerated" /\ first_ipv4[u] /\ at[t] \in {"enumerated", "opened"}
        BY <1>0, <3>2 DEF OpenSockets, Goto, firsts
      <3>3. ASSUME NEW s \in Service, OpenFails(s) \/ Goodbye(s)
            PROVE  at[u] = "enumerated" /\ first_ipv4[u] /\ at[t] \in {"enumerated", "opened"}
        BY <1>0, <3>3 DEF OpenFails, Goodbye, Goto, Forget
      <3>4. ASSUME NEW s \in Service, CopyIpv4(s) \/ CopyIpv6AndAnnounce(s)
            PROVE  at[u] = "enumerated" /\ first_ipv4[u] /\ at[t] \in {"enumerated", "opened"}
        BY <1>0, <3>4 DEF CopyIpv4, CopyIpv6AndAnnounce, Goto, firsts
      <3>5. CASE NetworkChanges \/ UNCHANGED vars
                 \/ \E s \in Service, name \in QueryName, rtype \in RecordType :
                       ServiceCallback(s, name, rtype)
        BY <1>0, <3>5 DEF NetworkChanges, vars, ServiceCallback, firsts
      <3> QED
        BY <1>3, <3>1, <3>2, <3>3, <3>4, <3>5 DEF Next
    <2> QED
      BY <1>0, <2>1, <2>2
  <1> QED
    BY <1>1, <1>2, <1>3

\* A store is of what its service has found, which the others know by then.
LEMMA StaticStep == TypeOK /\ PendingInv /\ StaticInv /\ [Next]_vars => StaticInv'
  <1> SUFFICES ASSUME TypeOK, PendingInv, StaticInv, [Next]_vars, NEW t \in Service,
                      at'[t] \in {"enumerated", "opened"}, found4(t)' # None, ~first_ipv4'[t]
               PROVE  service_address_ipv4' \in {found4(t)'} \cup beside'[t]
    BY DEF StaticInv
  <1> DEFINE kept == service_address_ipv4' \in {found4(t)'} \cup beside'[t]
  <1>0. /\ at[t] \in {"enumerated", "opened"} /\ found4(t) # None /\ ~first_ipv4[t]
              => service_address_ipv4 \in {found4(t)} \cup beside[t]
        /\ at \in [Service -> {"off", "constructed", "enumerated", "opened", "copied",
                              "serving"}]
        /\ first_ipv4 \in [Service -> BOOLEAN]
    BY DEF StaticInv, TypeOK
  <1>1. ASSUME NEW s \in Service, Construct(s)
        PROVE  kept
    <2>1. /\ found4(t)' = found4(t) /\ beside'[t] = beside[t] /\ first_ipv4' = first_ipv4
          /\ service_address_ipv4' = service_address_ipv4 /\ at'[t] = at[t]
      BY <1>1, ConstructKeeps
    <2> QED
      BY <1>0, <2>1
  <1>2. ASSUME NEW s \in Service, Enumerate(s)
        PROVE  kept
    <2>1. t # s
      BY <1>2, EnumerateEffect
    <2>2. /\ at'[t] = at[t] /\ first_ipv4'[t] = first_ipv4[t] /\ found4(t)' = found4(t)
          /\ beside[t] \subseteq beside'[t] /\ service_address_ipv4' = service_address_ipv4
      BY <1>2, <2>1, EnumerateEffect
    <2> QED
      BY <1>0, <2>2
  <1>3. CASE ~ \E s \in Service : Construct(s) \/ Enumerate(s)
    <2>0. found4(t)' = found4(t) /\ beside'[t] = beside[t]
      BY <1>3, Kept
    <2>1. ASSUME NEW s \in Service, StoreIpv4(s)
          PROVE  kept
      <3>1. service_address_ipv4' = found4(s) /\ at'[t] = at[t]
        BY <2>1 DEF StoreIpv4
      <3>2. CASE s = t
        BY <2>0, <3>1, <3>2
      <3>3. CASE s # t
        <4>1. found4(s) \in beside[t]
          BY <2>1, <3>1, <3>3 DEF StoreIpv4, PendingInv
        <4> QED
          BY <2>0, <3>1, <4>1
      <3> QED
        BY <3>2, <3>3
    <2>2. ASSUME NEW s \in Service, StoreIpv6(s)
          PROVE  kept
      BY <1>0, <2>0, <2>2 DEF StoreIpv6
    <2>3. ASSUME NEW s \in Service, OpenSockets(s) \/ CopyIpv4(s) \/ CopyIpv6AndAnnounce(s)
          PROVE  kept
      <3>1. /\ at[t] \in {"enumerated", "opened"} /\ first_ipv4' = first_ipv4
            /\ service_address_ipv4' = service_address_ipv4
        BY <1>0, <2>3 DEF OpenSockets, CopyIpv4, CopyIpv6AndAnnounce, Goto, firsts, statics
      <3> QED
        BY <1>0, <2>0, <3>1
    <2>4. ASSUME NEW s \in Service, OpenFails(s) \/ Goodbye(s)
          PROVE  kept
      <3>1. /\ at[t] = at'[t] /\ first_ipv4'[t] = first_ipv4[t]
            /\ service_address_ipv4' = service_address_ipv4
        BY <1>0, <2>4 DEF OpenFails, Goodbye, Goto, Forget, statics
      <3> QED
        BY <1>0, <2>0, <3>1
    <2>5. CASE NetworkChanges \/ UNCHANGED vars
               \/ \E s \in Service, name \in QueryName, rtype \in RecordType :
                     ServiceCallback(s, name, rtype)
      BY <1>0, <2>0, <2>5 DEF NetworkChanges, vars, ServiceCallback, firsts, statics
    <2> QED
      BY <1>3, <2>1, <2>2, <2>3, <2>4, <2>5 DEF Next
  <1> QED
    BY <1>1, <1>2, <1>3

\* What is copied is what was in the static variable, and it is kept for as long as
\* the service is there.
LEMMA CopyStep ==
    TypeOK /\ StoredInv /\ StaticInv /\ CopyInv /\ [Next]_vars => CopyInv'
  <1> SUFFICES ASSUME TypeOK, StoredInv, StaticInv, CopyInv, [Next]_vars, NEW t \in Service,
                      at'[t] \in {"copied", "serving"}, found4(t)' # None
               PROVE  address_ipv4'[t] \in {found4(t)'} \cup beside'[t]
    BY DEF CopyInv
  <1> DEFINE kept == address_ipv4'[t] \in {found4(t)'} \cup beside'[t]
  <1>0. /\ at[t] \in {"copied", "serving"} /\ found4(t) # None
              => address_ipv4[t] \in {found4(t)} \cup beside[t]
        /\ at[t] = "opened" /\ found4(t) # None
              => service_address_ipv4 \in {found4(t)} \cup beside[t]
        /\ at \in [Service -> {"off", "constructed", "enumerated", "opened", "copied",
                              "serving"}]
        /\ address_ipv4 \in [Service -> Ipv4 \cup {None}]
    BY DEF CopyInv, StaticInv, StoredInv, TypeOK
  <1>1. ASSUME NEW s \in Service, Construct(s)
        PROVE  kept
    <2>1. /\ found4(t)' = found4(t) /\ beside'[t] = beside[t]
          /\ address_ipv4' = address_ipv4 /\ at'[t] = at[t]
      BY <1>1, ConstructKeeps
    <2> QED
      BY <1>0, <2>1
  <1>2. ASSUME NEW s \in Service, Enumerate(s)
        PROVE  kept
    <2>1. t # s
      BY <1>2, EnumerateEffect
    <2>2. /\ at'[t] = at[t] /\ found4(t)' = found4(t)
          /\ beside[t] \subseteq beside'[t] /\ address_ipv4' = address_ipv4
      BY <1>2, <2>1, EnumerateEffect
    <2> QED
      BY <1>0, <2>2
  <1>3. CASE ~ \E s \in Service : Construct(s) \/ Enumerate(s)
    <2>0. found4(t)' = found4(t) /\ beside'[t] = beside[t]
      BY <1>3, Kept
    <2>1. ASSUME NEW s \in Service, CopyIpv4(s)
          PROVE  kept
      <3>1. CASE s = t
        <4>1. at[t] = "opened" /\ address_ipv4'[t] = service_address_ipv4
          BY <1>0, <2>1, <3>1 DEF CopyIpv4, Goto
        <4> QED
          BY <1>0, <2>0, <4>1
      <3>2. CASE s # t
        <4>1. at'[t] = at[t] /\ address_ipv4'[t] = address_ipv4[t]
          BY <1>0, <2>1, <3>2 DEF CopyIpv4, Goto
        <4> QED
          BY <1>0, <2>0, <4>1
      <3> QED
        BY <3>1, <3>2
    <2>2. ASSUME NEW s \in Service, OpenSockets(s) \/ CopyIpv6AndAnnounce(s)
          PROVE  kept
      <3>1. at[t] \in {"copied", "serving"} /\ address_ipv4' = address_ipv4
        BY <1>0, <2>2 DEF OpenSockets, CopyIpv6AndAnnounce, Goto, service
      <3> QED
        BY <1>0, <2>0, <3>1
    <2>3. ASSUME NEW s \in Service, OpenFails(s) \/ Goodbye(s)
          PROVE  kept
      <3>1. at[t] = at'[t] /\ address_ipv4'[t] = address_ipv4[t]
        BY <1>0, <2>3 DEF OpenFails, Goodbye, Goto, service
      <3> QED
        BY <1>0, <2>0, <3>1
    <2>4. CASE NetworkChanges \/ UNCHANGED vars
               \/ (\E s \in Service : StoreIpv4(s) \/ StoreIpv6(s))
               \/ \E s \in Service, name \in QueryName, rtype \in RecordType :
                     ServiceCallback(s, name, rtype)
      BY <1>0, <2>0, <2>4 DEF NetworkChanges, vars, StoreIpv4, StoreIpv6, ServiceCallback,
                              service
    <2> QED
      BY <1>3, <2>1, <2>2, <2>3, <2>4 DEF Next
  <1> QED
    BY <1>1, <1>2, <1>3

\* The hosts and the interfaces are each found once, and are of the network that is
\* there now unless it has changed in between.
LEMMA HostStep == TypeOK /\ HostInv /\ [Next]_vars => HostInv'
  <1> SUFFICES ASSUME TypeOK, HostInv, [Next]_vars,
                      NEW t \in Service, at'[t] # "off", ~moved'[t]
               PROVE  /\ hosts'[t] = GetAddresses(net')
                      /\ at'[t] # "constructed" => ifaddr'[t] \in {net', <<>>}
    BY DEF HostInv, GetAddresses
  <1> DEFINE kept == /\ hosts'[t] = GetAddresses(net')
                     /\ at'[t] # "constructed" => ifaddr'[t] \in {net', <<>>}
  <1>0. /\ at[t] # "off" /\ ~moved[t] =>
              /\ hosts[t] = GetAddresses(net)
              /\ at[t] # "constructed" => ifaddr[t] \in {net, <<>>}
        /\ at \in [Service -> {"off", "constructed", "enumerated", "opened", "copied",
                              "serving"}]
        /\ hosts \in [Service -> SUBSET (Ipv4 \cup Ipv6)]
        /\ ifaddr \in [Service -> Networks \cup {<<>>}]
        /\ moved \in [Service -> BOOLEAN]
    BY DEF HostInv, TypeOK
  <1>1. ASSUME NEW s \in Service, Construct(s)
        PROVE  kept
    <2>1. CASE s = t
      <3>1. hosts'[t] = GetAddresses(net) /\ at'[t] = "constructed" /\ net' = net
        BY <1>0, <1>1, <2>1 DEF Construct, Goto
      <3> QED
        BY <3>1
    <2>2. CASE s # t
      <3>1. /\ hosts'[t] = hosts[t] /\ at'[t] = at[t] /\ moved'[t] = moved[t]
            /\ net' = net /\ ifaddr' = ifaddr
        BY <1>0, <1>1, <2>2 DEF Construct, Goto
      <3> QED
        BY <1>0, <3>1
    <2> QED
      BY <2>1, <2>2
  <1>2. ASSUME NEW s \in Service, Enumerate(s)
        PROVE  kept
    <2>1. net' = net /\ hosts' = hosts /\ moved' = moved
      BY <1>2 DEF Enumerate
    <2>2. CASE s = t
      <3>1. ifaddr'[t] \in {net, <<>>} /\ at[t] = "constructed"
        BY <1>0, <1>2, <2>2 DEF Enumerate, Goto
      <3> QED
        BY <1>0, <2>1, <3>1
    <2>3. CASE s # t
      <3>1. ifaddr'[t] = ifaddr[t] /\ at'[t] = at[t]
        BY <1>0, <1>2, <2>3 DEF Enumerate, Goto
      <3> QED
        BY <1>0, <2>1, <3>1
    <2> QED
      BY <2>2, <2>3
  <1>3. CASE ~ \E s \in Service : Construct(s) \/ Enumerate(s)
    <2>1. /\ ifaddr'[t] = ifaddr[t] /\ hosts'[t] = hosts[t] /\ at[t] # "off"
          /\ at[t] = "constructed" => at'[t] = "constructed"
          /\ moved'[t] = moved[t] /\ net' = net
      BY <1>3, Kept
    <2> QED
      BY <1>0, <2>1
  <1> QED
    BY <1>1, <1>2, <1>3

---------------------------------------------------------------------------------
(* The theorems *)

\* Nothing is served in an initial state, and nothing known.
LEMMA Initially == Init => IInv
  <1> SUFFICES ASSUME Init
               PROVE  IInv
    OBVIOUS
  <1>1. \A s \in Service : at[s] = "off"
    BY DEF Init
  <1>2. TypeOK
    BY DEF Init, TypeOK
  <1>3. CacheInv
    BY DEF Init, CacheInv
  <1>4. StoredInv /\ PendingInv /\ StaticInv /\ CopyInv /\ HostInv
    BY <1>1 DEF StoredInv, PendingInv, StaticInv, CopyInv, HostInv
  <1> QED
    BY <1>2, <1>3, <1>4 DEF IInv

\* The inductive invariant holds in every state.
THEOREM Invariant == Spec => []IInv
  <1>1. IInv /\ [Next]_vars => IInv'
    <2> SUFFICES ASSUME IInv, [Next]_vars
                 PROVE  IInv'
      OBVIOUS
    <2>1. TypeOK /\ CacheInv /\ StoredInv /\ PendingInv /\ StaticInv /\ CopyInv /\ HostInv
      BY DEF IInv
    <2>2. TypeOK' /\ CacheInv'
      BY <2>1, TypeStep, CacheStep
    <2>3. StoredInv' /\ PendingInv' /\ StaticInv' /\ CopyInv' /\ HostInv'
      BY <2>1, StoredStep, PendingStep, StaticStep, CopyStep, HostStep
    <2> QED
      BY <2>2, <2>3 DEF IInv
  <1> QED
    BY Initially, <1>1, PTL DEF Spec

\* The variables of the services, of the host and of the listeners keep their types.
THEOREM Typing == Spec => []TypeOK
  <1>1. IInv => TypeOK
    BY DEF IInv
  <1> QED
    BY Invariant, <1>1, PTL

\* No packet of service_mdns or service_callback, announcement, answer or goodbye,
\* writes past its five additional records or carries a record twice, whatever
\* addresses were found and whether the build has TLS or not.
THEOREM PacketsAreWithinBounds == Spec => []AdditionalRecordsFit
  <1> QED
    BY Typing, PacketsFit, PTL

\* service_callback answers every question about what its service owns, with what
\* was asked for and all that is needed to connect, and no other question.
THEOREM CallbackAnswersWhatItOwns == Spec => []QuestionsAreAnswered
  <1> QED
    BY Typing, OwnedIsAnswered, PTL

\* The goodbye of a service takes back all that it ever announced or answered.
THEOREM GoodbyeIsComplete == Spec => []NothingOutlivesGoodbye
  <1>1. IInv => NothingOutlivesGoodbye
    BY DEF IInv, CacheInv, NothingOutlivesGoodbye
  <1> QED
    BY Invariant, <1>1, PTL

\* The static variables that the services of a process share never make one announce
\* an address that an earlier start has left in them: if it has found one itself, it
\* announces that or what a service starting at the same time has found.
THEOREM NothingIsLeftOver == Spec => []NoAddressOfAnEarlierStart
  <1>1. IInv => NoAddressOfAnEarlierStart
    BY DEF IInv, CopyInv, NoAddressOfAnEarlierStart, Serving
  <1> QED
    BY Invariant, <1>1, PTL

\* The address that is announced passes the host check of the same server, as long
\* as the network is the one that its constructor saw and no service that started at
\* the same time had found another address.
THEOREM AnnouncedAddressPasses == Spec => []AnnouncedAddressIsAccepted
  <1>1. ASSUME IInv
        PROVE  AnnouncedAddressIsAccepted
    <2> SUFFICES ASSUME NEW s \in Service, at[s] = "serving", ~moved[s], found4(s) # None,
                        beside[s] \subseteq {found4(s)}
                 PROVE  address_ipv4[s] \in hosts[s]
      BY DEF AnnouncedAddressIsAccepted, Serving
    <2>1. hosts[s] = GetAddresses(net) /\ ifaddr[s] \in {net, <<>>}
      BY <1>1 DEF IInv, HostInv
    <2>2. address_ipv4[s] = found4(s)
      BY <1>1 DEF IInv, CopyInv
    <2>3. ifaddr[s] = net
      BY <2>1, NothingUsable DEF found4
    <2>4. net \in Networks /\ found4(s) = FirstUsable(net, Ipv4)
      BY <1>1, <2>3 DEF IInv, TypeOK, found4
    <2>5. found4(s) \in GetAddresses(net)
      BY <2>4, UsableAddress
    <2> QED
      BY <2>1, <2>2, <2>5
  <1> QED
    BY Invariant, <1>1, PTL
=================================================================================
