\* Expected violation: an old server calls a purchase owned already. No deadlock check: once every call has ended nothing need happen.
SPECIFICATION Spec
CONSTANTS
    Calls = {c1}
    Handlers = {h1}
    Txs = {t1}
    NoCall = NoCall
    UserOf <- AliceThenBob
    Kinds = {"non_consumable"}
    MayFailInit = FALSE
INVARIANT FinishedIsRecorded
CHECK_DEADLOCK FALSE
