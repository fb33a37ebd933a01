SPECIFICATION FairSpec
CONSTANTS
    message = message
    reaction = reaction
    key = key
    NoJob = NoJob
    NoData = NoData
    NoChallenge = NoChallenge
    Arrivals <- MCSilentJob
    Captcha = {}
    ProfileKeys = {}
    MaxAttempts = 2
    MaxWait = 1
    Lifetime = 1
    MaxChallenges = 1
    MaxFaults = 0
PROPERTIES
    EveryJobEnds
