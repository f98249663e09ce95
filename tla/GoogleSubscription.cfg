\* Notifications of every type, and tokens posted by two users among some of them, failing store lookups. No deadlock check: once MaxEvents is reached and every handler is idle, nothing need happen.
SPECIFICATION Spec
CONSTANTS
    Workers = {w1, w2}
    Users = {alice, bob}
    Placeholder = Placeholder
    BoundAccount = alice
    LinkedUser = NoAccount
    NoAccount = NoAccount
    HasKey = TRUE
    RefundPolicy = "immediate"
    LookupMayFail = TRUE
    Events <- AllEvents
    MaxEvents = 3
CONSTRAINT PostedAmongAccessEvents
SYMMETRY WorkerSymmetry
INVARIANTS
    Converged
    RtdnNeverRevives
    BoundToAccount
    ProcessedIsRemembered
CHECK_DEADLOCK FALSE
