SPECIFICATION Spec
CONSTANTS
    w1 = w1
    w2 = w2
    c1 = c1
    c2 = c2
    c3 = c3
    a = a
    b = b
    Workers = {w1}
    Conns = {c1, c2}
    Ips = {a, b}
    IpOf <- MCIpOf
    NoConn = NoConn
    NoEntry = NoEntry
    Nobody = Nobody
    Missing = Missing
    Malformed = Malformed
    HasConfigPath = TRUE
    FileConfigs <- TwoFiles
    DefaultConfig <- Two
    TlsChoices = {TRUE, FALSE}
    MaxTotal = 1
    Rps = 1
    Burst = 1
    StaleAfter = 1
    MaxOpenFiles = 2
    AcceptMayFail = TRUE
    EpollMayFail = FALSE
    SpuriousWakeups = FALSE
    MaxStops = 0
    MaxEdits = 2
    MaxTime = 0
    MaxMsgs = 1
INVARIANT
    ConfigFresh
PROPERTY
    UsesGuardProperly
