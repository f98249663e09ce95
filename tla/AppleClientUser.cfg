\* Expected violation: a webhook overlaps a receipt. No deadlock check: once MaxEvents is reached and every handler is idle, nothing need happen.
SPECIFICATION Spec
CONSTANTS
    Workers = {w1, w2}
    Users = {alice}
    Placeholder = tx
    AppAccountToken = none
    NoToken = none
    HasApiCreds = TRUE
    RefundPolicy = "immediate"
    LookupMayFail = FALSE
    SandboxOverride = {}
    Events <- RenewalEvents
    MaxEvents = 2
    MaxRefunds = 1
SYMMETRY WorkerSymmetry
CHECK_DEADLOCK FALSE
PROPERTY ClientUserIdKept
