SPECIFICATION Spec
CONSTANTS
    Threads = {1, 2}
    Ips = {"ip1", "ip2"}
    Jars = {"jar"}
    Hashes = {"bot", "browser"}
    KnownBots = {"bot"}
    Configs <- MCConfigs
    Rate = 1
    Burst = 1
    Window = 1
    CookieTtl = 1
    Difficulty = 6
    Bits = {0, 4, 7}
    NoCookie = NoCookie
    MaxTime = 3
    MaxRequests = 3
    MaxAdmin = 1
INVARIANTS
    LimitsKept
    ChallengeUsedOnce
PROPERTIES
    PassesEarned
CHECK_DEADLOCK FALSE
