\* Two users, an account-bound purchase, failing store lookups. No deadlock check: once MaxEvents is reached and every handler is idle, nothing need happen.
SPECIFICATION Spec
CONSTANTS
    Workers = {w1, w2}
    Users = {alice, bob}
    Placeholder = tx
    AppAccountToken = alice
    NoToken = none
    HasApiCreds = TRUE
    RefundPolicy = "until_expiry"
    LookupMayFail = TRUE
    SandboxOverride = {}
    Events <- AllEvents
    MaxEvents = 3
    MaxRefunds = 1
SYMMETRY WorkerSymmetry
CHECK_DEADLOCK FALSE
INVARIANT BoundToAccount
PROPERTY SnapshotTimeKept
