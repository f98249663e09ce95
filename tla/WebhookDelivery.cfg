\* Every deployment, every fault. No deadlock check: an event that was delivered and answered needs no further step.
SPECIFICATION Spec
CONSTANTS
    Events = {e1}
    Requests = {r1, r2}
    Modes = {"inline", "queue"}
    EventStores = {"none", "memory", "cache", "redis"}
    Kinds = {"work", "foreign", "ignored"}
    FaultKinds <- FaultKind
    MaxFaults = 3
    MaxAttempts = 2
INVARIANTS
    LostOnlyIfOvertaken
    RepeatsHaveACause
PROPERTIES
    EventuallyHandled
CHECK_DEADLOCK FALSE
