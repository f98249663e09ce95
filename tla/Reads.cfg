\* Two processes, two queries in flight, two metrics requests, two tokens of which one replaced the other, one non-consumable. No deadlock check: at the end of the clock the calls are used up.
SPECIFICATION ReadsSpec
CONSTANTS
    old = old
    new = new
    Txs <- TwoTokens
    Snapshot <- Lives
    Linked <- NewReplacesOld
    NoTx = NoTx
    Processes = {p1, p2}
    Jobs = {j1, j2}
    Window = 1
    Delay = 1
    MaxSaves = 3
    MaxTime = 3
    MaxPurchases = 2
    Lifetime <- Product
    Coins <- Consumable
    Windows <- AskedWindows
    Day = 3
    Ttl = 2
    MaxAsks = 2
CONSTRAINTS AnsweredAfterMigration CountsApart
SYMMETRY JobSymmetry
CHECK_DEADLOCK FALSE
INVARIANTS EntitledIsTold ToldWasEntitled SqlMatchesReduction AnswersTheQuestion
PROPERTY FallbackEnds
