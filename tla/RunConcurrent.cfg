\* Two requests at once.
SPECIFICATION Spec
CONSTANTS
    d1 = d1
    d2 = d2
    Drivers = {d1, d2}
    max_steps = 10
    MaxCrashes = 1
CHECK_DEADLOCK FALSE
INVARIANTS
    TypeOK
    RevokedMeansApproved
    EffectsInOrder
    CompletedMeansAllEffects
    CancelStopsNextStep
    StepBudget
PROPERTIES
    TerminalIsFinal
