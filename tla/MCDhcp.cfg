\* Safety and the way to a lease.
CONSTANTS
    Addrs = {"a"}
    Leases <- MCLeases
    LWIP_DHCP_AUTOIP_COOP_TRIES = 2
    SelectTries = 2
    PROBE_NUM = 1
    ANNOUNCE_NUM = 2
    MaxAnswers = 2
    Endings = {"good"}
SPECIFICATION Spec
CHECK_DEADLOCK FALSE
INVARIANTS OneOwner LeaseHonoured
PROPERTIES GetsLease
