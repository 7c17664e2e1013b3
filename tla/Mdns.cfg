\* Two services of a process with TLS, on a host whose addresses change.
CONSTANTS
    lo = lo
    a1 = a1
    a2 = a2
    a3 = a3
    b1 = b1
    b2 = b2
    Service = {s1, s2}
    Ipv4 = {lo, a1, a2, a3}
    Ipv6 = {b1, b2}
    Networks <- MCNetworks
    None = None
    Tls = TRUE
SYMMETRY Symmetric
SPECIFICATION Spec
INVARIANTS
    TypeOK
    AdditionalRecordsFit
    QuestionsAreAnswered
    NothingOutlivesGoodbye
    NoAddressOfAnEarlierStart
    AnnouncedAddressIsAccepted
