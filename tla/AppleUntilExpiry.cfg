\* Expected violation: a refund overtakes a renewal. No deadlock check: once MaxEvents is reached and every handler is idle, nothing need happen.
SPECIFICATION Spec
CONSTANTS
    Workers = {w1}
    Users = {}
    Placeholder = tx
    AppAccountToken = none
    NoToken = none
    HasApiCreds = TRUE
    RefundPolicy = "until_expiry"
    LookupMayFail = FALSE
    SandboxOverride = {}
    Events <- RenewalEvents
    MaxEvents = 3
    MaxRefunds = 1
SYMMETRY WorkerSymmetry
CHECK_DEADLOCK FALSE
INVARIANT UntilExpiryKeepsAccess
