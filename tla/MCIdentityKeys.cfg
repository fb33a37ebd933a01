SPECIFICATION FairSpec
CONSTANTS
    alice = alice
    k1 = k1
    k2 = k2
    NoKey = NoKey
    Tasks = {t1, t2, t3}
    Nested = {t3}
    ServiceIds = {alice}
    Keys = {k1, k2}
    Requests <- MCRequests
    MaxFailures = 1
    MaxRestarts = 1
INVARIANTS
    TypeOK
    NoLostUpdate
    CacheMatchesDb
    KeyChangesAreTold
    VerificationShows
PROPERTIES
    IdentitySurvives
    EveryRequestSettles
CHECK_DEADLOCK FALSE
