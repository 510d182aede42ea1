SPECIFICATION Spec
CONSTANTS
    Calls = {x1, x2}
    Socks = {k1, k2, k3}
    NoSock = NoSock
INVARIANT ConnectedMeansRelay
