SPECIFICATION BacklogFairSpec
CONSTANTS
    w1 = w1
    w2 = w2
    c1 = c1
    c2 = c2
    a = a
    Workers = {w1, w2}
    Conns = {c1, c2}
    Ips = {a}
    IpOf <- MCIpOf
    NoConn = NoConn
    NoEntry = NoEntry
    Nobody = Nobody
    Missing = Missing
    Malformed = Malformed
    HasConfigPath = FALSE
    FileConfigs <- OneFile
    DefaultConfig <- Two
    TlsChoices = {FALSE}
    MaxTotal = 2
    Rps = 1
    Burst = 1
    StaleAfter = 1
    MaxOpenFiles = 2
    AcceptMayFail = TRUE
    EpollMayFail = FALSE
    SpuriousWakeups = FALSE
    MaxStops = 1
    MaxEdits = 0
    MaxTime = 0
    MaxMsgs = 0
PROPERTIES
    QueuedIsServed
    BacklogIsAccepted
    AwakeWorkersExit
\* A stop signal can be lost between a test of the predicate and the wait: the workers then wait for ever.
CHECK_DEADLOCK FALSE
