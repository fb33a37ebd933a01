SPECIFICATION MCSpec
CONSTANTS
    NumEnvelopes = 3
    Receipts <- MCReceipts
    BatchSize = 2
    MaxAttempts = 1
    MaxArrivals = 2
    MaxConnections = 2
    MaxFaults = 1
INVARIANTS
    TypeOK
    NoEnvelopeLost
PROPERTIES
    InOrder
    EverythingEnds
CHECK_DEADLOCK FALSE
