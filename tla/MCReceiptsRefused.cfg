SPECIFICATION Spec
CONSTANTS
    a = a
    b = b
    d = d
    e = e
    Recipients = {a, b}
    Us = us
    Devices = {d, e}
    Nothing = Nothing
    Receipts <- OneDevice
    MaxAttempts = 2
    MaxFaults = 0
INVARIANTS
    ConfirmedReceiptsShow
CHECK_DEADLOCK FALSE
