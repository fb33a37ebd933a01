SPECIFICATION Spec
CONSTANTS
    message = message
    reaction = reaction
    key = key
    NoJob = NoJob
    NoData = NoData
    NoChallenge = NoChallenge
    Arrivals <- MCArrivals
    Captcha <- MCCaptcha
    ProfileKeys <- MCProfileKeys
    MaxAttempts = 2
    MaxWait = 1
    Lifetime = 1
    MaxChallenges = 2
    MaxFaults = 1
INVARIANTS
    TypeOK
    OnePlaceForEachJob
    DeferredHasAlarm
PROPERTIES
    SilentJobsWait
