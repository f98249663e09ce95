------------------------ MODULE InMemoryPurchaseStore ------------------------
(***************************************************************************)
(* InMemoryPurchaseStore (packages/server/src/store.ts), for the purchases *)
(* of one product.  Its methods are synchronous, so each is one step; it   *)
(* keeps a purchase twice, by transaction and in its user's list, newest   *)
(* purchase first.                                                         *)
(***************************************************************************)
EXTENDS Naturals, SequencesExt

CONSTANTS Txs, Users, NoUser,
          PurchasedAt   \* when each transaction was bought

VARIABLES
    record,    \* byTransactionId: the user of each row
    byUserId,  \* each user's rows, by transaction
    type

vars == <<record, byUserId>>

Init ==
    /\ record = [tx \in Txs |-> NoUser]
    /\ byUserId = [user \in Users |-> << >>]

(* insertByPurchasedAt: before the first older purchase, or last. *)
InsertByPurchasedAt(list, tx) ==
    LET older == {i \in 1..Len(list) : PurchasedAt[list[i]] < PurchasedAt[tx]}
    IN IF older = {} THEN Append(list, tx)
       ELSE InsertAt(list, CHOOSE i \in older : \A j \in older : i <= j, tx)

(* ownsNonConsumable, for a user's list. *)
OwnsNonConsumable(user) == type = "non_consumable" /\ byUserId[user] # << >>

SaveAnswer(tx, user) ==
    IF record[tx] # NoUser
    THEN IF record[tx] # user THEN "belongs_to_other" ELSE "ok"
    ELSE IF OwnsNonConsumable(user) THEN "already_owned" ELSE "ok"

SavePurchase(tx, user) ==
    IF SaveAnswer(tx, user) = "ok" /\ record[tx] = NoUser
    THEN /\ record' = [record EXCEPT ![tx] = user]
         /\ byUserId' = [byUserId EXCEPT ![user] = InsertByPurchasedAt(@, tx)]
    ELSE UNCHANGED vars

ReassignAnswer(tx, user) ==
    IF record[tx] = NoUser THEN "absent"
    ELSE IF record[tx] # user /\ OwnsNonConsumable(user) THEN "already_owned"
    ELSE "ok"

(* list.filter, of a list that has each transaction once (ListsAgree). *)
Without(list, tx) == RemoveFirst(list, tx)

ReassignPurchase(tx, user) ==
    IF ReassignAnswer(tx, user) = "ok" /\ record[tx] # user
    THEN /\ record' = [record EXCEPT ![tx] = user]
         /\ byUserId' = [byUserId EXCEPT ![record[tx]] = Without(@, tx),
                                         ![user] = InsertByPurchasedAt(@, tx)]
    ELSE UNCHANGED vars

DeletePurchaseByTransactionId(tx) ==
    IF record[tx] = NoUser THEN UNCHANGED vars
    ELSE /\ record' = [record EXCEPT ![tx] = NoUser]
         /\ byUserId' = [byUserId EXCEPT ![record[tx]] = Without(@, tx)]

(* The whole list goes: it is one product's. *)
DeletePurchases(user) ==
    /\ record' = [tx \in Txs |-> IF tx \in ToSet(byUserId[user]) THEN NoUser ELSE record[tx]]
    /\ byUserId' = [byUserId EXCEPT ![user] = << >>]
-----------------------------------------------------------------------------
(* Each user's list is that user's rows, each once, newest purchase first, as
   Postgres and Redis list them (store.ts, "so /onesub/purchase/status has the
   same order in dev and prod"). *)
ListsAgree ==
    \A user \in Users :
        LET list == byUserId[user]
        IN /\ ToSet(list) = {tx \in Txs : record[tx] = user}
           /\ \A i, j \in 1..Len(list) :
                  i < j => list[i] # list[j] /\ PurchasedAt[list[i]] >= PurchasedAt[list[j]]
=============================================================================
