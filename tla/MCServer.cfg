SPECIFICATION Spec
CONSTANTS
    w1 = w1
    w2 = w2
    c1 = c1
    c2 = c2
    c3 = c3
    a = a
    b = b
    Workers = {w1, w2}
    Conns = {c1, c2, c3}
    Ips = {a, b}
    IpOf <- MCIpOf
    NoConn = NoConn
    NoEntry = NoEntry
    Nobody = Nobody
    Missing = Missing
    Malformed = Malformed
    HasConfigPath = FALSE
    FileConfigs <- OneFile
    DefaultConfig <- Two
    TlsChoices = {TRUE, FALSE}
    MaxTotal = 2
    Rps = 1
    Burst = 1
    StaleAfter = 1
    MaxOpenFiles = 2
    AcceptMayFail = TRUE
    EpollMayFail = TRUE
    SpuriousWakeups = TRUE
    MaxStops = 1
    MaxEdits = 0
    MaxTime = 0
    MaxMsgs = 0
SYMMETRY Symmetry
INVARIANTS
    DescriptorsOwned
    SlotsExact
    NoLostWakeup
    GaugesExact
