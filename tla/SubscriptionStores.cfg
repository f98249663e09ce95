\* Two clients, two transactions, two users, every database the stores may open on.
SPECIFICATION BothSpec
CONSTANTS
    Clients = {c1, c2}
    Txs = {t1, t2}
    Users = {alice, bob}
    States = {s1}
    Times = {0, 1, 2}
    NoRow = NoRow
    NoUser = NoUser
INVARIANTS
    IndexAgreement
    SameAnswers
PROPERTIES
    ImplementsSubscriptionTable
