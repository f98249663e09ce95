\* Expected violation: a retry is deduped while the first delivery still runs. No deadlock check: an event that was delivered and answered needs no further step.
SPECIFICATION Spec
CONSTANTS
    Events = {e1}
    Requests = {r1, r2}
    Modes = {"inline"}
    EventStores = {"redis"}
    Kinds = {"work"}
    FaultKinds = {"timeout", "handler"}
    MaxFaults = 2
    MaxAttempts = 2
INVARIANTS
    AcknowledgedIsNotLost
CHECK_DEADLOCK FALSE
