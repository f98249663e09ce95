\* Two clients whose calls about one transaction do not overlap, two transactions, two users, every database the store may open on.
SPECIFICATION Spec
CONSTANTS
    Clients = {c1, c2}
    Txs = {t1, t2}
    Users = {alice, bob}
    NoUser = NoUser
    NoTx = NoTx
    Exclusive = TRUE
SYMMETRY StoreSymmetry
INVARIANTS
    IndexesAgree
    OneCopyUndisturbed
PROPERTY ImplementsPurchaseTable
