\* Overlapping webhooks, and receipts of one user among some of the events. No deadlock check: once MaxEvents is reached and every handler is idle, nothing need happen.
SPECIFICATION Spec
CONSTANTS
    Workers = {w1, w2}
    Users = {alice}
    Placeholder = tx
    AppAccountToken = none
    NoToken = none
    HasApiCreds = TRUE
    RefundPolicy = "immediate"
    LookupMayFail = FALSE
    SandboxOverride = {}
    Events <- AllEvents
    MaxEvents = 4
    MaxRefunds = 2
CONSTRAINT PostedAmongRenewals
SYMMETRY WorkerSymmetry
CHECK_DEADLOCK FALSE
INVARIANTS Converged ProcessedIsRemembered LossSticks
