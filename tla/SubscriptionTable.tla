-------------------------- MODULE SubscriptionTable --------------------------
(***************************************************************************)
(* What SubscriptionStore.save promises (packages/server/src/store.ts, the *)
(* interface): one row per originalTransactionId, upserted atomically,     *)
(* never overwritten by a snapshot older than the one it holds; a write    *)
(* without a snapshot time, or onto a row without one, always applies.     *)
(* The stores of the server implement this specification.                  *)
(***************************************************************************)
EXTENDS Lifecycle

CONSTANTS
    Txs,      \* originalTransactionIds
    Users,    \* user ids
    States,   \* what a record says besides its owner and its snapshot time
    Times,    \* the snapshot times that occur, NoTime among them
    NoRow     \* a transaction that has no row

VARIABLE table

(* SubscriptionInfo, as far as the stores read it. *)
Row == [user : Users, asOf : Times, state : States]

TypeOK == table \in [Txs -> Row \cup {NoRow}]

(* A store may open on the rows of earlier runs and versions. *)
Init == TypeOK

Upserted(rows, tx, row) ==
    IF rows[tx] # NoRow /\ IsStaleSnapshot(rows[tx].asOf, row.asOf)
    THEN rows
    ELSE [rows EXCEPT ![tx] = row]

Save(tx, row) == table' = Upserted(table, tx, row)

Next == \E tx \in Txs, row \in Row : Save(tx, row)

Spec == Init /\ [][Next]_table
=============================================================================
