---------------------------- MODULE MCSdkPurchase ----------------------------
(* Small instances of SdkPurchase for TLC. *)
EXTENDS SdkPurchase, TLC

AliceThenBob == <<"alice", "bob">>

SdkSymmetry == Permutations(Calls) \cup Permutations(Handlers) \cup Permutations(Txs)

(* An undeclared consumable goes the way of a non-consumable, but for how a
   matched one is finished; "already owned" is the answer to a non-consumable,
   about one transaction, which the server has not recorded. *)
KindsApart ==
    /\ kind = "consumable" => declared
    /\ owned # {} => kind = "non_consumable"
    /\ Cardinality(owned) <= 1 /\ owned \cap recorded = {}
=============================================================================
