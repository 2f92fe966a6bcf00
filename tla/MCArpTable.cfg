SPECIFICATION Spec
CONSTANTS
    ARP_TABLE_SIZE = 2
    ARP_MAXAGE = 4
    ARP_AGE_REREQUEST_USED = 3
    ARP_MAXPENDING = 2
    Hosts = {a, b, c}
    Pbufs = {p, q, r}
    None = None
INVARIANTS TableInv RightHost HeldOnce
PROPERTIES GivenUpLast NoneWaitsForEver
