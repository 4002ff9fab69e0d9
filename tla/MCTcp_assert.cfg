CONSTANTS
    TCP_WND = 3
    TCP_MSS = 2
    TCP_MAXRTX = 2
    TCP_SYNMAXRTX = 1
    DupAcks = 2
    PeerWnd = 3
    Exchanges <- MCExchanges
SPECIFICATION Spec
CHECK_DEADLOCK FALSE
INVARIANTS
    PersistTicksWithUnsentOnly
