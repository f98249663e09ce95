\* Expected violation: auto-renew is switched off while paid time is left. No deadlock check: once MaxEvents is reached and every handler is idle, nothing need happen.
SPECIFICATION Spec
CONSTANTS
    Workers = {w1}
    Users = {alice}
    Placeholder = Placeholder
    BoundAccount = NoAccount
    LinkedUser = NoAccount
    NoAccount = NoAccount
    HasKey = TRUE
    RefundPolicy = "immediate"
    LookupMayFail = FALSE
    Events <- AllEvents
    MaxEvents = 2
INVARIANT PaidTimeGrants
CHECK_DEADLOCK FALSE
