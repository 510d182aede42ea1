SPECIFICATION FairSpec
CONSTANTS
    Calls = {x1, x2}
    Socks = {k1, k2, k3}
    NoSock = NoSock
PROPERTIES OnlyRefreshGivesUp OnlyCallsReopen RetryOpensSocket
