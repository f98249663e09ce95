\* Expected violation: two refunds and two old receipts. No deadlock check: once MaxEvents is reached and every handler is idle, nothing need happen.
SPECIFICATION Spec
CONSTANTS
    Workers = {w1}
    Users = {alice}
    Placeholder = tx
    AppAccountToken = none
    NoToken = none
    HasApiCreds = TRUE
    RefundPolicy = "immediate"
    LookupMayFail = FALSE
    SandboxOverride = {}
    Events <- RenewalEvents
    MaxEvents = 4
    MaxRefunds = 2
SYMMETRY WorkerSymmetry
CHECK_DEADLOCK FALSE
INVARIANT LossSticks
