SPECIFICATION Spec
CONSTANTS
    Peers = {p}
    Groups = {g}
    NoConv = NoConv
    NoBlob = NoBlob
    NoSender = NoSender
    Kinds = {"text"}
    MaxMsgs = 2
    MaxTaps = 1
    MaxEnds = 1
    MaxJobs = 0
INVARIANT ReceiptSent
