SPECIFICATION FairSpec
CONSTANTS
    NumJobs = 3
    Custom <- MCCustom
    Unparsable <- MCUnparsable
    MaxAttempts = 2
    MaxRestarts = 2
    MaxFailures = 1
INVARIANTS
    TypeOK
    NoJobLost
    OneCopyOfEachJob
    SettlesAfterDelete
    RunInOrder
PROPERTIES
    EveryJobEnds
    EveryCompletionSettles
CHECK_DEADLOCK FALSE
