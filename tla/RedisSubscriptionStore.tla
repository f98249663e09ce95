----------------------- MODULE RedisSubscriptionStore -----------------------
(***************************************************************************)
(* RedisSubscriptionStore (packages/server/src/stores/redis.ts): save() as *)
(* the three round trips a client makes, over the five kinds of keys it    *)
(* keeps in step.  Redis runs commands one at a time, and the script as    *)
(* one; what other clients do happens between the round trips.             *)
(*                                                                         *)
(*   tx:<id>    subscription   the JSON row                                *)
(*   owner:<id> ownerKey       its userId; absent in rows older than 0.17  *)
(*   asof:<id>  asOfKey        its stateAsOf; none for rows without one    *)
(*   user:<id>  userSet        the transactions of a user                  *)
(*   all:sorted subscriptions  every transaction                           *)
(*                                                                         *)
(* The scores of the sorted sets, which order listings by save time, are   *)
(* left out: no property here is about the order of a listing.             *)
(***************************************************************************)
EXTENDS RedisClients, Lifecycle

CONSTANTS States, Times, NoRow

ASSUME TimesAssumption == Times \subseteq Nat /\ NoTime \in Times
ASSUME NoRowAssumption == NoRow \notin [user : Users, asOf : Times, state : States]

VARIABLES subscription, ownerKey, asOfKey, userSet, subscriptions,
          work    \* the save() each client is in

subscriptionKeys == <<subscription, ownerKey, asOfKey, userSet, subscriptions>>
subscriptionVars == <<subscription, ownerKey, asOfKey, userSet, subscriptions, work>>

Row == [user : Users, asOf : Times, state : States]

(* A save: before EXISTS, before the legacy GET, or before EVAL, with the
   previous owner it read for a row without an owner key. *)
Job == [pc : {"exists", "get", "eval"}, tx : Txs, row : Row,
        legacyOwner : Users \cup {NoUser}]

NoSave == [pc |-> "idle"]

SubscriptionTypeOK ==
    /\ subscription \in [Txs -> Row \cup {NoRow}]
    /\ ownerKey \in [Txs -> Users \cup {NoUser}]
    /\ asOfKey \in [Txs -> Times]
    /\ userSet \in [Users -> SUBSET Txs]
    /\ subscriptions \in SUBSET Txs
    /\ work \in [Clients -> Job \cup {NoSave}]

Exists(tx) == subscription[tx] # NoRow

Owner(tx) == IF Exists(tx) THEN subscription[tx].user ELSE NoUser

AsOf(tx) == IF Exists(tx) THEN subscription[tx].asOf ELSE NoTime

SubscriptionsOf(user) == {tx \in Txs : Owner(tx) = user}

(* The database as any version of the store left it: indexes in step with the
   rows, and an owner key except on old rows, which carry no time either. *)
SubscriptionInit ==
    /\ subscription \in [Txs -> Row \cup {NoRow}]
    /\ ownerKey \in [Txs -> Users \cup {NoUser}]
    /\ \A tx \in Txs : \/ ownerKey[tx] = Owner(tx)
                       \/ ownerKey[tx] = NoUser /\ AsOf(tx) = NoTime
    /\ asOfKey = [tx \in Txs |-> AsOf(tx)]
    /\ userSet = [user \in Users |-> SubscriptionsOf(user)]
    /\ subscriptions = {tx \in Txs : Exists(tx)}
    /\ work = [c \in Clients |-> NoSave]
-----------------------------------------------------------------------------
SaveAt(c, pc) == work[c].pc = pc

StartSave(c, tx, row) ==
    /\ SaveAt(c, "idle")
    /\ work' = [work EXCEPT ![c] = [pc |-> "exists", tx |-> tx, row |-> row,
                                    legacyOwner |-> NoUser]]
    /\ UNCHANGED subscriptionKeys

(* EXISTS owner:<id>: only a row without an owner key is read for its owner. *)
CheckOwnerKey(c) ==
    /\ SaveAt(c, "exists")
    /\ work' = [work EXCEPT ![c].pc = IF ownerKey[work[c].tx] = NoUser
                                      THEN "get" ELSE "eval"]
    /\ UNCHANGED subscriptionKeys

(* The userId of the stored row, if there is one. *)
LegacyOwner(tx) == Owner(tx)

ReadLegacyOwner(c) ==
    /\ SaveAt(c, "get")
    /\ work' = [work EXCEPT ![c].pc = "eval",
                            ![c].legacyOwner = LegacyOwner(work[c].tx)]
    /\ UNCHANGED subscriptionKeys

(* Mutant of ScriptRefuses: an equally old snapshot is refused too. *)
ScriptRefusesEqual(current, asOf) ==
    asOf # NoTime /\ current # NoTime /\ current >= asOf

(* Mutant of ScriptRefuses: the comparison is turned round. *)
ScriptRefusesNewer(current, asOf) ==
    asOf # NoTime /\ current # NoTime /\ current < asOf

(* The script's comparison of asof:<id> with the write's stateAsOf. *)
ScriptRefuses(current, asOf) ==
    asOf # NoTime /\ current # NoTime /\ current > asOf

(* Mutant of PreviousOwner: rows without an owner key have no owner. *)
PreviousOwnerByKey(key, legacyOwner) == key

(* The owner key, or what the client read for a row that has none. *)
PreviousOwner(key, legacyOwner) == IF key # NoUser THEN key ELSE legacyOwner

(* Mutant of Reindexed: the row stays in its previous owner's set. *)
ReindexedWithoutRemoval(sets, tx, previous, user) ==
    [u \in Users |-> IF u = user THEN sets[u] \cup {tx} ELSE sets[u]]

(* ZREM from the set of a previous owner that is someone else, then ZADD. *)
Reindexed(sets, tx, previous, user) ==
    [u \in Users |-> IF u = user THEN sets[u] \cup {tx}
                     ELSE IF u = previous THEN sets[u] \ {tx}
                     ELSE sets[u]]

(* Mutant of AsOfWritten: a write without a time leaves the key. *)
AsOfWrittenIfTimed(current, asOf) == IF asOf = NoTime THEN current ELSE asOf

(* SET asof:<id>, or DEL when the write has no time. *)
AsOfWritten(current, asOf) == asOf

(* SAVE_SUBSCRIPTION_SCRIPT. *)
Script(job) ==
    LET tx == job.tx
        row == job.row
        previous == PreviousOwner(ownerKey[tx], job.legacyOwner)
    IN IF ScriptRefuses(asOfKey[tx], row.asOf)
       THEN UNCHANGED subscriptionKeys
       ELSE /\ subscription' = [subscription EXCEPT ![tx] = row]
            /\ ownerKey' = [ownerKey EXCEPT ![tx] = row.user]
            /\ asOfKey' = [asOfKey EXCEPT ![tx] = AsOfWritten(@, row.asOf)]
            /\ userSet' = Reindexed(userSet, tx, previous, row.user)
            /\ subscriptions' = subscriptions \cup {tx}

Eval(c) ==
    /\ SaveAt(c, "eval")
    /\ Script(work[c])
    /\ work' = [work EXCEPT ![c] = NoSave]

(* A command fails, or the process dies, before the script ran: the caller
   sees an error and nothing was written. *)
SaveFails(c) ==
    /\ ~SaveAt(c, "idle")
    /\ work' = [work EXCEPT ![c] = NoSave]
    /\ UNCHANGED subscriptionKeys

ClientNext(c) ==
    \/ \E tx \in Txs, row \in Row : StartSave(c, tx, row)
    \/ CheckOwnerKey(c)
    \/ ReadLegacyOwner(c)
    \/ Eval(c)
    \/ SaveFails(c)

SubscriptionNext == \E c \in Clients : ClientNext(c)

SubscriptionSpec == SubscriptionInit /\ [][SubscriptionNext]_subscriptionVars
-----------------------------------------------------------------------------
(* Reads. *)

(* getAllByUserId: the rows of the user's set. *)
UserListing(user) == {subscription[tx] : tx \in {t \in userSet[user] : Exists(t)}}

(* listAll: the rows of the global set. *)
FullListing == {subscription[tx] : tx \in {t \in subscriptions : Exists(t)}}
-----------------------------------------------------------------------------
(* Properties. *)

(* Whatever saves overlap, fail halfway or meet rows of an old version, a
   transaction is in the set of the user its row names and of no other: a
   subscription rebound to another account never stays live on both
   (redis.ts, "Records written before the owner side-key existed"). *)
IndexAgreement ==
    /\ \A user \in Users : userSet[user] = SubscriptionsOf(user)
    /\ subscriptions = {tx \in Txs : Exists(tx)}

(* The time the script compares is the row's own: the side key never guards a
   row with a time the row does not have (redis.ts, SUB_AS_OF_PREFIX). *)
AsOfAgrees == \A tx \in Txs : asOfKey[tx] = AsOf(tx)

Rows == INSTANCE SubscriptionTable WITH table <- subscription

(* The rows behave as the store interface promises: each save is one atomic
   upsert, and never replaces a row that is newer.  (That it is not refused
   otherwise is SubscriptionStores' SameAnswers.) *)
ImplementsSubscriptionTable == Rows!Spec
=============================================================================
