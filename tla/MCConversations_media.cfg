SPECIFICATION Spec
CONSTANTS
    Peers = {p}
    Groups = {}
    NoConv = NoConv
    NoBlob = NoBlob
    NoSender = NoSender
    Kinds = {"image"}
    MaxMsgs = 2
    MaxTaps = 1
    MaxEnds = 1
    MaxJobs = 1
INVARIANTS SaveDue LoadingHasJob PatchesOwn
\* The app waits for its user and its peers, and their inputs are bounded.
CHECK_DEADLOCK FALSE
