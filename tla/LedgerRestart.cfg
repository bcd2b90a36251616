\* One driver at a time: retries, crashes and restarts over one key of each
\* kind of tool.
SPECIFICATION Spec
CONSTANTS
    d1 = d1
    d2 = d2
    answering = answering
    flaky = flaky
    mute = mute
    Drivers = {d1}
    Keys = {answering, flaky, mute}
    Queryable = {answering, flaky}
    Flaky = {flaky}
    MaxCalls = 5
CHECK_DEADLOCK FALSE
INVARIANTS
    AtMostOnce
    FailedMeansNotApplied
    PerformedMeansChanged
    NeverCallsAgain
PROPERTIES
    CompletedIsFinal
