-------------------------- MODULE SubscriptionStores --------------------------
(***************************************************************************)
(* The Redis store beside the in-memory one: the in-memory store is given  *)
(* each row at the moment Redis runs the script for it, so both see the    *)
(* same saves in the same order, whatever the Redis clients interleave.    *)
(***************************************************************************)
EXTENDS RedisSubscriptionStore

Seqs == INSTANCE SequencesExt

VARIABLES byTransactionId, byUserId, written

Memory == INSTANCE InMemorySubscriptionStore

bothVars == <<subscriptionVars, byTransactionId, byUserId, written>>

(* Every list of entries of different rows. *)
Lists == UNION {Seqs!SetToSeqs({Memory!Entry(tx, byTransactionId[tx]) : tx \in listed}) :
                    listed \in SUBSET {tx \in Txs : Exists(tx)}}

(* Redis opens on any rows; the in-memory store has been given the same ones,
   in some order. *)
BothInit ==
    /\ SubscriptionInit
    /\ byTransactionId = subscription
    /\ written \in Seqs!SetToSeqs({tx \in Txs : Exists(tx)})
    /\ byUserId \in [Users -> Lists]
    /\ \A user \in Users : Memory!ListedInOrder(user)

(* A script run and the same save in memory. *)
SaveInBoth(c) ==
    /\ Eval(c)
    /\ Memory!Save(work[c].tx, work[c].row)

RedisOnly(c) ==
    /\ \/ \E tx \in Txs, row \in Row : StartSave(c, tx, row)
       \/ CheckOwnerKey(c)
       \/ ReadLegacyOwner(c)
       \/ SaveFails(c)
    /\ UNCHANGED <<byTransactionId, byUserId, written>>

BothNext == \E c \in Clients : SaveInBoth(c) \/ RedisOnly(c)

BothSpec == BothInit /\ [][BothNext]_bothVars
-----------------------------------------------------------------------------
(* The same rows, one by one and in the full listing. *)
SameRows == subscription = byTransactionId /\ FullListing = Memory!FullListing

(* The two stores answer every read alike: the rows, the listing of each user
   and the full listing (a host may swap one store for the other).  With
   ImplementsSubscriptionTable it follows that the in-memory store, too, keeps
   the promise of the interface. *)
SameAnswers ==
    /\ SameRows
    /\ \A user \in Users : UserListing(user) = Memory!UserListing(user)

(* The in-memory store keeps two orders, of each user's list and of all
   writes, and they agree, through every rebind and refused save: what
   getByUserId answers is the user's first row in listFiltered (store.ts,
   getAllByUserId: "last-written-first"). *)
ListsInOrder == \A user \in Users : Memory!ListedInOrder(user)
=============================================================================
