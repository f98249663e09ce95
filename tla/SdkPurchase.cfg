\* Two calls, a user switch, two transactions. No deadlock check: once every call has ended nothing need happen.
SPECIFICATION Spec
CONSTANTS
    Calls = {c1, c2}
    Handlers = {h1, h2}
    Txs = {t1, t2}
    NoCall = NoCall
    UserOf <- AliceThenBob
    Kinds = {"subscription", "consumable", "non_consumable"}
    MayFailInit = TRUE
CONSTRAINT KindsApart
SYMMETRY SdkSymmetry
INVARIANTS
    StrandedOnlyIfCrossed
    ParkedIsWoken
    ReplayAnswersNobody
    FinishedAsAnswered
PROPERTIES
    NoForeignWrite
CHECK_DEADLOCK FALSE
