\* Two drivers execute two steps: one tool is queryable, but its lookup may
\* raise, the other cannot be queried.
SPECIFICATION Spec
CONSTANTS
    d1 = d1
    d2 = d2
    flaky = flaky
    mute = mute
    Drivers = {d1, d2}
    Keys = {flaky, mute}
    Queryable = {flaky}
    Flaky = {flaky}
    max_tool_calls = 3
    max_attempts = 3
    MaxExecutions = 2
CHECK_DEADLOCK FALSE
INVARIANTS
    TypeOK
    CallsAreCounted
    ToolBudget
    OpenRowsAccounted
PROPERTIES
    ExecuteReturns
    ClosedRowsStay
    UsesLedger
    ServesEffects
