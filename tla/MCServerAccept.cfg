SPECIFICATION FairSpec
CONSTANTS
    w1 = w1
    w2 = w2
    c1 = c1
    c2 = c2
    c3 = c3
    a = a
    b = b
    Workers = {w1}
    Conns = {c1, c2}
    Ips = {a, b}
    IpOf <- MCIpOf
    NoConn = NoConn
    NoEntry = NoEntry
    Nobody = Nobody
    Missing = Missing
    Malformed = Malformed
    HasConfigPath = FALSE
    FileConfigs <- OneFile
    DefaultConfig <- Two
    TlsChoices = {FALSE}
    MaxTotal = 2
    Rps = 1
    Burst = 1
    StaleAfter = 1
    MaxOpenFiles = 1
    AcceptMayFail = FALSE
    EpollMayFail = FALSE
    SpuriousWakeups = FALSE
    MaxStops = 0
    MaxEdits = 0
    MaxTime = 0
    MaxMsgs = 0
PROPERTY
    AllPendingAccepted
\* With no stop and no further client every thread may wait.
CHECK_DEADLOCK FALSE
