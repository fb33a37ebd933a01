SPECIFICATION FairSpec
CONSTANTS
    a = a
    b = b
    d = d
    e = e
    Recipients = {a, b}
    Us = us
    Devices = {d, e}
    Nothing = Nothing
    Receipts <- AllReceipts
    MaxAttempts = 2
    MaxFaults = 1
INVARIANTS
    TypeOK
PROPERTIES
    NeverBackwards
    EveryReceiptShows
CONSTRAINTS
    OnePair
CHECK_DEADLOCK FALSE
