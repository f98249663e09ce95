\* Two tool calls at once against both stores, with answers lost on the way.
\* CHECK_DEADLOCK FALSE: both calls end and nothing is left to do.
CONSTANTS
    Calls = {c1, c2}
    monthly = monthly
    yearly = yearly
    Pids = {monthly, yearly}
    Requests <- MCRequests
    MaxRetries = 1
    MaxFaults = 1
    MaxEdits = 1
    None = None
SPECIFICATION Spec
INVARIANTS
    StandingProductKept
    NothingLeftBehind
    ConfiguredMeansSellable
PROPERTIES
    EveryCallEnds
CHECK_DEADLOCK FALSE
