\* Expected violation: a posted token overlaps a revocation. No deadlock check: once MaxEvents is reached and every handler is idle, nothing need happen.
SPECIFICATION Spec
CONSTANTS
    Workers = {w1, w2}
    Users = {alice}
    Placeholder = Placeholder
    BoundAccount = NoAccount
    LinkedUser = NoAccount
    NoAccount = NoAccount
    HasKey = TRUE
    RefundPolicy = "immediate"
    LookupMayFail = FALSE
    Events <- AccessEvents
    MaxEvents = 3
SYMMETRY WorkerSymmetry
INVARIANT RefundSticks
CHECK_DEADLOCK FALSE
