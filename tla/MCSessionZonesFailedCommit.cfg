SPECIFICATION Spec
CONSTANTS
    GLOBAL = GLOBAL
    za = za
    zb = zb
    NoZone = NoZone
    a = a
    a1 = a1
    a2 = a2
    a3 = a3
    aj = aj
    b = b
    b1 = b1
    g = g
    rem = rem
    x = x
    NoCall = NoCall
    k1 = k1
    k2 = k2
    NoRecord = NoRecord
    Zones <- MCZones
    Transactional <- MCTransactional
    Keys <- MCKeys
    Calls <- BatchCalls
    KindOf <- BatchKinds
    ZoneOf <- MCZoneOf
    ParentOf <- MCParentOf
    KeyOf <- MCKeyOf
    MaxFailures = 1
    EndCommitFails = TRUE
    Orphans = FALSE
INVARIANTS
    HeldOnlyByUsers
CHECK_DEADLOCK FALSE
