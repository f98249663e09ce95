------------------------------- MODULE MCReads -------------------------------
(***************************************************************************)
(* A small instance of the read routes for TLC: the routes that tell a     *)
(* client of its access, and those that count, over one pair of stores.    *)
(***************************************************************************)
EXTENDS Metrics, TLC

CONSTANTS old, new

TwoTokens == {old, new}

(* The token new replaced the token old (a plan change). *)
NewReplacesOld == [tx \in TwoTokens |-> IF tx = new THEN old ELSE NoTx]

State(product, status, expires, grace) ==
    [product |-> product, platform |-> "google", purchased |-> 0,
     status |-> status, expires |-> expires, grace |-> grace]

(* old runs to 2 and gets a billing grace period to 4; new is paid to 3 and then
   revoked, which ends it at 2. *)
Lives == [tx \in TwoTokens |->
             IF tx = old
             THEN <<State("monthly", "active", 2, NoTime), State("monthly", "grace_period", 2, 4)>>
             ELSE <<State("yearly", "active", 3, NoTime), State("yearly", "canceled", 2, NoTime)>>]

Product == [id |-> "b1", type |-> "non_consumable", product |-> "lifetime",
            platform |-> "google", purchased |-> 0]

Consumable == [id |-> "b2", type |-> "consumable", product |-> "coins",
               platform |-> "apple", purchased |-> 0]

(* Ends on and beside the boundaries of the days and of the keys' grid; one ends
   before it starts. *)
AskedWindows == {<<0, 3>>, <<1, 2>>, <<2, 1>>}

(* Requests, and purchases, are followed over a table that had the columns
   from the start, for two calls of save(), one after the other; the migration
   without them, for three calls. *)
AnsweredAfterMigration ==
    request # Idle \/ changes > 0 \/ asks > 0 =>
        /\ columns = 0
        /\ saves <= 2
        /\ \A p \in Processes : remembers[p] = 0
        /\ \A i, j \in Jobs : jobs[i] # Free /\ jobs[j] # Free => i = j
        /\ \A j \in Jobs : jobs[j].at \in {"free", "guarded", "saved"}

(* Whoever has asked for counts does not ask for access, and meanwhile there is
   one change of the purchase store and none of the other.  A second question
   follows only over a single subscription and no purchase. *)
CountsApart ==
    asks > 0 => /\ changes <= 1
                /\ asks = 2 => saves <= 1 /\ changes = 0
                /\ \A j \in Jobs : jobs[j] = Free
                /\ request.at \notin {"reading", "answered"}

JobSymmetry == Permutations(Jobs) \cup Permutations(Processes)
=============================================================================
