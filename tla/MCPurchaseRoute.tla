--------------------------- MODULE MCPurchaseRoute ---------------------------
(* Small instances of PurchaseRoute for TLC. *)
EXTENDS PurchaseRoute, TLC

First == CHOOSE tx \in Txs : TRUE

(* Two transactions of different times, the later one bound to an account. *)
Times == [tx \in Txs |-> IF tx = First THEN 0 ELSE 1]

FirstUnbound == [tx \in Txs |-> IF tx = First THEN NoUser ELSE CHOOSE user \in Users : TRUE]

RequestSymmetry == Permutations(Requests)
=============================================================================
