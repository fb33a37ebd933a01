SPECIFICATION FairSpec
CONSTANTS
    v1 = v1
    v2 = v2
    Values <- MCValues
    MaxAdds = 4
    MicrotaskAdds = FALSE
INVARIANTS
    TypeOK
PROPERTIES
    ImplementsFifo
    EveryAddIsReceived
CHECK_DEADLOCK FALSE
