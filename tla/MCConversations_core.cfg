SPECIFICATION Spec
CONSTANTS
    Peers = {p}
    Groups = {g}
    NoConv = NoConv
    NoBlob = NoBlob
    NoSender = NoSender
    Kinds = {"text"}
    MaxMsgs = 2
    MaxTaps = 0
    MaxEnds = 2
    MaxJobs = 0
INVARIANTS TypeOK NoCopies
PROPERTIES TicksOnlyRise NoneVanish
\* The app waits for its user and its peers, and their inputs are bounded.
CHECK_DEADLOCK FALSE
