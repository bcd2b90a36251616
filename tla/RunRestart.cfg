\* One request at a time, processes that die and restart, any plan.
SPECIFICATION TracedSpec
CONSTANTS
    d1 = d1
    d2 = d2
    s1 = s1
    s2 = s2
    s3 = s3
    Drivers = {d1}
    max_steps = 13
    MaxCrashes = 3
    Systems = {s1, s2, s3}
    Access = {s1, s2}
    Providers = {"fake", "gemini"}
    MaxPlan = 2
CHECK_DEADLOCK FALSE
INVARIANTS
    CompletedMeansSigned
    RejectedMeansNotRevoked
    PauseMatchesCheckpoint
    TracedTypeOK
    RevokedIsAccess
    StepsAreTraced
    RevokedAsShown
    PauseIsTraced
    PauseRowsBounded
PROPERTIES
    NoWorkAfterTerminal
    RunSettles
