---------------------- MODULE InMemorySubscriptionStore ----------------------
(***************************************************************************)
(* InMemorySubscriptionStore (packages/server/src/store.ts): the default   *)
(* store.  save() is synchronous, so it is one action; it keeps the row    *)
(* twice, by transaction and in its user's newest-first list, and the      *)
(* order in which rows were last written.                                  *)
(***************************************************************************)
EXTENDS Lifecycle, SequencesExt

CONSTANTS Txs, Users, States, Times, NoRow

VARIABLES
    byTransactionId,  \* the row of each transaction
    byUserId,         \* each user's rows, last written first
    written           \* transactions, last written first (writeSeq)

vars == <<byTransactionId, byUserId, written>>

Row == [user : Users, asOf : Times, state : States]

(* A row in a user's list carries its transaction id. *)
Entry(tx, row) == [tx |-> tx, row |-> row]

TypeOK ==
    /\ byTransactionId \in [Txs -> Row \cup {NoRow}]
    /\ byUserId \in [Users -> Seq([tx : Txs, row : Row])]
    /\ written \in Seq(Txs)

Init ==
    /\ byTransactionId = [tx \in Txs |-> NoRow]
    /\ byUserId = [user \in Users |-> << >>]
    /\ written = << >>

(* Both filters of save(); a list has a transaction at most once. *)
Without(list, tx) == RemoveFirstMatch(list, LAMBDA entry : entry.tx = tx)

(* The transaction leaves the list of a previous owner and goes to the front
   of the new owner's. *)
Relisted(lists, tx, row) ==
    [user \in Users |-> IF user = row.user
                        THEN <<Entry(tx, row)>> \o Without(lists[user], tx)
                        ELSE IF byTransactionId[tx] # NoRow
                                /\ byTransactionId[tx].user = user
                        THEN Without(lists[user], tx)
                        ELSE lists[user]]

(* The guard at the head of save(). *)
Refuses(existing, asOf) == existing # NoRow /\ IsStaleSnapshot(existing.asOf, asOf)

Save(tx, row) ==
    IF Refuses(byTransactionId[tx], row.asOf)
    THEN UNCHANGED vars
    ELSE /\ byTransactionId' = [byTransactionId EXCEPT ![tx] = row]
         /\ byUserId' = Relisted(byUserId, tx, row)
         /\ written' = <<tx>> \o RemoveFirst(written, tx)

Next == \E tx \in Txs, row \in Row : Save(tx, row)

Spec == Init /\ [][Next]_vars
-----------------------------------------------------------------------------
(* Reads. *)

(* getAllByUserId. *)
UserListing(user) == {byUserId[user][i].row : i \in 1..Len(byUserId[user])}

(* listAll. *)
FullListing == {byTransactionId[tx] : tx \in Txs} \ {NoRow}

(* The order of listFiltered: a was written after b. *)
Newer(a, b) ==
    \E i, j \in 1..Len(written) : i < j /\ written[i] = a /\ written[j] = b

(* The list getAllByUserId answers is listFiltered's page for that user: his
   rows, each once, last written first. *)
ListedInOrder(user) ==
    LET list == byUserId[user]
        owned == {tx \in Txs : byTransactionId[tx] # NoRow /\ byTransactionId[tx].user = user}
    IN  /\ {list[i].tx : i \in 1..Len(list)} = owned
        /\ \A i \in 1..Len(list) : list[i].row = byTransactionId[list[i].tx]
        /\ \A i, j \in 1..Len(list) : i < j => Newer(list[i].tx, list[j].tx)
=============================================================================
