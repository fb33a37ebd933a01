SPECIFICATION FairSpec
CONSTANTS
    MaxSize = 3
    MaxAdds = 4
    Expires = TRUE
INVARIANTS
    TypeOK
    AllInOrder
PROPERTIES
    FlushCovers
    EverythingEnds
CHECK_DEADLOCK FALSE
