SPECIFICATION RateSpec
CONSTANTS
    c1 = c1
    c2 = c2
    c3 = c3
    a = a
    b = b
    Conns = {c1, c2, c3}
    Ips = {a, b}
    IpOf <- MCIpOf
    NoConn = NoConn
    NoEntry = NoEntry
    MaxTotal = 2
    Rps = 1
    Burst = 1
    StaleAfter = 1
    MaxTime = 2
    MaxPerIpChoices <- MCMaxPerIpChoices
    MaxGranted = 4
INVARIANTS
    UseTypeOK
    CountsExact
    HardCap
    OpenHasBucket
    BucketHonoured
PROPERTIES
    ImplementsPromise
