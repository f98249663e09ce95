\* Expected violation: one caller, whose call dies once and is retried.
SPECIFICATION Spec
CONSTANTS
    Clients = {c1}
    Txs = {t1, t2}
    Users = {alice, bob}
    NoUser = NoUser
    NoTx = NoTx
    Exclusive = TRUE
SYMMETRY StoreSymmetry
INVARIANT OneCopyUnlessOverlapped
