\* Two transactions of one product and two users. No deadlock check: once every request is answered nothing need happen.
SPECIFICATION Spec
CONSTANTS
    Requests = {r1, r2, r3}
    Txs = {t1, t2}
    ConsumableTxs = {t1}
    Users = {alice, bob}
    NoUser = NoUser
    NoRequest = NoRequest
    PurchasedAt <- Times
    Platforms = {"apple", "google"}
    Backends = {"memory", "postgres"}
    Account <- FirstUnbound
    MaxRefunds = 1
    MaxActs = 1
    MaxCrashes = 1
SYMMETRY RequestSymmetry
INVARIANTS
    GrantedOnce
    RefundStaysRemoved
    OneCopy
    NoneConsumedUnrecorded
    LineMoves
PROPERTIES
    ValidMeansRecorded
CHECK_DEADLOCK FALSE
