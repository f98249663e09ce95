------------------------- MODULE RedisPurchaseStore -------------------------
(***************************************************************************)
(* RedisPurchaseStore (packages/server/src/stores/redis.ts): each method   *)
(* as the round trips a client makes; a MULTI is one of them.  The keys of *)
(* one product:                                                            *)
(*                                                                         *)
(*   tx:<id>                        record      the row, here its userId   *)
(*   user:<id>                      userIndex   a user's transactions      *)
(*   user_product:<user>:<product>  productSet  the same, per product      *)
(*   non_consumable:<user>:<prod.>  claim       the transaction that is    *)
(*                                              the user's copy            *)
(*   all                            allSet      every transaction          *)
(*                                                                         *)
(* A command that fails, or a process that dies, ends a call between any   *)
(* two of its round trips.                                                 *)
(***************************************************************************)
EXTENDS RedisClients, Naturals, FiniteSets

CONSTANTS
    NoTx,       \* no claim
    Exclusive   \* calls that touch one transaction do not overlap

ASSUME NoTxAssumption == NoTx \notin Txs
ASSUME ExclusiveAssumption == Exclusive \in BOOLEAN
ASSUME TxsAssumption == IsFiniteSet(Txs)

VARIABLES record, userIndex, productSet, claim, allSet,
          type,   \* the product's type; it never changes
          call,   \* the call each client is in, or the answer to its last one
          noted   \* what has happened so far, which the code keeps no note of

keys == <<record, userIndex, productSet, claim, allSet>>
vars == <<keys, type, call, noted>>

Types == {"consumable", "non_consumable"}

Operations == {"save", "reassign", "delete", "reset"}

Answers == {"ok", "belongs_to_other", "already_owned", "contended", "absent", "error"}

(* A call failed halfway; two calls about one user, not both saves, overlapped. *)
Notes == {"failure", "overlap"}

Steps == {"insert", "owner", "claim", "scan", "legacy", "backfill", "holder", "reclaim",
          "holderRow", "takeOver", "undo", "index", "lookup", "release", "unclaim",
          "move", "remove", "members", "clear"}

(* A call at the round trip it makes next.  "from" is the owner it read,
   "holder" the transaction it read from the claim, "ids" the members it read,
   "created" that the row is this call's own, "attempts" the claims it lost,
   "answer" what it throws once it has deleted its row again. *)
Call == [pc : Steps, op : Operations, tx : Txs, user : Users, from : Users \cup {NoUser},
         holder : Txs \cup {NoTx}, ids : SUBSET Txs, created : BOOLEAN,
         attempts : 0..2, answer : Answers]

Idle(answer) == [pc |-> "idle", answer |-> answer]

TypeOK ==
    /\ record \in [Txs -> Users \cup {NoUser}]
    /\ userIndex \in [Users -> SUBSET Txs]
    /\ productSet \in [Users -> SUBSET Txs]
    /\ claim \in [Users -> Txs \cup {NoTx}]
    /\ allSet \in SUBSET Txs
    /\ type \in Types
    /\ call \in [Clients -> Call \cup {Idle(answer) : answer \in Answers}]
    /\ noted \in SUBSET Notes

Recorded == {tx \in Txs : record[tx] # NoUser}

OwnedBy(user) == {tx \in Txs : record[tx] = user}

(* The database as earlier versions left it: indexes in step with the rows, one
   copy of a non-consumable each, and a claim except for rows from before the
   key existed. *)
Init ==
    /\ type \in Types
    /\ record \in [Txs -> Users \cup {NoUser}]
    /\ userIndex = [user \in Users |-> OwnedBy(user)]
    /\ productSet = userIndex
    /\ allSet = Recorded
    /\ claim \in [Users -> Txs \cup {NoTx}]
    /\ \A user \in Users : claim[user] # NoTx => claim[user] \in OwnedBy(user)
    /\ type = "consumable" => \A user \in Users : claim[user] = NoTx
    /\ type = "non_consumable" => \A user \in Users : Cardinality(OwnedBy(user)) <= 1
    /\ call = [c \in Clients |-> Idle("ok")]
    /\ noted = {}
-----------------------------------------------------------------------------
At(c, pc) == call[c].pc = pc

Working(c) == ~At(c, "idle")

Go(c, pc) == call' = [call EXCEPT ![c].pc = pc]

Answer(c, answer) == call' = [call EXCEPT ![c] = Idle(answer)]

(* Two calls touch one transaction, or one of them resets a user the other's
   purchase belongs to or is going to. *)
SameTransaction(op, tx, user, other) ==
    \/ op # "reset" /\ other.op # "reset" /\ other.tx = tx
    \/ op = "reset" /\ user \in {other.user, other.from, record[other.tx]}
    \/ other.op = "reset" /\ other.user \in {user, record[tx]}

(* Two calls are about one user, and are not both saves. *)
SameUser(op, tx, user, other) ==
    /\ {op, other.op} # {"save"}
    /\ {user, record[tx]} \cap {other.user, other.from, record[other.tx]} \cap Users # {}

MayStart(op, tx, user) ==
    Exclusive => \A c \in Clients : Working(c) => ~SameTransaction(op, tx, user, call[c])

FirstStep(op) ==
    CASE op = "save" -> "insert"
      [] op \in {"reassign", "delete"} -> "lookup"
      [] op = "reset" -> "members"

(* savePurchase, reassignPurchase, deletePurchaseByTransactionId and
   deletePurchases; the last takes no transaction, the one before no user. *)
Start(c, op, tx, user) ==
    /\ ~Working(c)
    /\ MayStart(op, tx, user)
    /\ call' = [call EXCEPT ![c] =
           [pc |-> FirstStep(op), op |-> op, tx |-> tx, user |-> user, from |-> NoUser,
            holder |-> NoTx, ids |-> {}, created |-> FALSE, attempts |-> 0,
            answer |-> "ok"]]
    /\ noted' = IF \E other \in Clients : Working(other) /\ SameUser(op, tx, user, call[other])
                THEN noted \cup {"overlap"}
                ELSE noted
    /\ UNCHANGED <<keys, type>>
-----------------------------------------------------------------------------
(* savePurchase. *)

(* The row exists: next the claim of a non-consumable, or the indexes. *)
ThenClaim(c, work) ==
    call' = [call EXCEPT ![c] =
        [work EXCEPT !.pc = IF type = "non_consumable" THEN "claim" ELSE "index"]]

(* SET tx NX. *)
Insert(c) ==
    /\ At(c, "insert")
    /\ LET tx == call[c].tx
       IN IF record[tx] = NoUser
          THEN /\ record' = [record EXCEPT ![tx] = call[c].user]
               /\ ThenClaim(c, [call[c] EXCEPT !.created = TRUE])
          ELSE /\ Go(c, "owner")
               /\ UNCHANGED record
    /\ UNCHANGED <<userIndex, productSet, claim, allSet, type, noted>>

(* Mutant of BelongsToOther: any recorded owner may save again. *)
NobodyElses(tx, user) == FALSE

(* The owner GET reads is somebody else; a row gone meanwhile is nobody's. *)
BelongsToOther(tx, user) == record[tx] \notin {NoUser, user}

ReadOwner(c) ==
    /\ At(c, "owner")
    /\ IF BelongsToOther(call[c].tx, call[c].user)
       THEN Answer(c, "belongs_to_other")
       ELSE ThenClaim(c, call[c])
    /\ UNCHANGED <<keys, type, noted>>

(* A transaction in a user's set. *)
Indexed(sets, tx, user) == [sets EXCEPT ![user] = @ \cup {tx}]

(* MULTI: ZADD user, SADD user_product, SADD all. *)
WriteIndexes(c) ==
    /\ At(c, "index")
    /\ LET tx == call[c].tx
           user == call[c].user
       IN /\ userIndex' = Indexed(userIndex, tx, user)
          /\ productSet' = Indexed(productSet, tx, user)
          /\ allSet' = allSet \cup {tx}
    /\ Answer(c, "ok")
    /\ UNCHANGED <<record, claim, type, noted>>

(* The claim failed after this call wrote the row: DEL tx. *)
Undo(c) ==
    /\ At(c, "undo")
    /\ record' = [record EXCEPT ![call[c].tx] = NoUser]
    /\ Answer(c, call[c].answer)
    /\ UNCHANGED <<userIndex, productSet, claim, allSet, type, noted>>
-----------------------------------------------------------------------------
(* claimNonConsumable, on the way to the indexes or to a reassignment. *)

Claimed(c) == Go(c, IF call[c].op = "save" THEN "index" ELSE "release")

(* The error leaves the call, through the deletion of the row it wrote. *)
Throw(c, answer) ==
    IF call[c].created
    THEN call' = [call EXCEPT ![c].pc = "undo", ![c].answer = answer]
    ELSE Answer(c, answer)

Refused(c) == Throw(c, "already_owned")

(* Three attempts at a claim that keeps changing hands, then an error. *)
LostAttempt(c) ==
    IF call[c].attempts < 2
    THEN call' = [call EXCEPT ![c].pc = "holder", ![c].attempts = @ + 1]
    ELSE Throw(c, "contended")

SetClaim(user, tx) == claim' = [claim EXCEPT ![user] = tx]

KeepsRows == UNCHANGED <<record, userIndex, productSet, allSet, type, noted>>

(* SET non_consumable NX. *)
TakeClaim(c) ==
    /\ At(c, "claim")
    /\ IF claim[call[c].user] = NoTx
       THEN SetClaim(call[c].user, call[c].tx) /\ Go(c, "scan")
       ELSE Go(c, "holder") /\ UNCHANGED claim
    /\ KeepsRows

(* SMEMBERS user_product: a copy from before claims were kept. *)
Scan(c) ==
    /\ At(c, "scan")
    /\ LET others == productSet[call[c].user] \ {call[c].tx}
       IN IF others = {}
          THEN Claimed(c)
          ELSE call' = [call EXCEPT ![c].pc = "legacy", ![c].ids = others]
    /\ UNCHANGED <<keys, type, noted>>

(* Mutant of LegacyCopies: old rows are not honoured. *)
NoLegacyCopies(ids) == {}

(* MGET: the members that still have a row, whoever's it is. *)
LegacyCopies(ids) == ids \cap Recorded

ReadLegacy(c) ==
    /\ At(c, "legacy")
    /\ IF LegacyCopies(call[c].ids) = {}
       THEN Claimed(c)
       ELSE \E tx \in LegacyCopies(call[c].ids) :
                call' = [call EXCEPT ![c].pc = "backfill", ![c].holder = tx]
    /\ UNCHANGED <<keys, type, noted>>

(* SET non_consumable to the old copy. *)
Backfill(c) ==
    /\ At(c, "backfill")
    /\ SetClaim(call[c].user, call[c].holder)
    /\ Refused(c)
    /\ KeepsRows

(* GET non_consumable. *)
ReadHolder(c) ==
    /\ At(c, "holder")
    /\ LET holder == claim[call[c].user]
       IN IF holder = call[c].tx
          THEN Claimed(c)
          ELSE IF holder = NoTx
               THEN Go(c, "reclaim")
               ELSE call' = [call EXCEPT ![c].pc = "holderRow", ![c].holder = holder]
    /\ UNCHANGED <<keys, type, noted>>

(* SET non_consumable NX, the claim having gone: no scan this time. *)
Reclaim(c) ==
    /\ At(c, "reclaim")
    /\ IF claim[call[c].user] = NoTx
       THEN SetClaim(call[c].user, call[c].tx) /\ Claimed(c)
       ELSE LostAttempt(c) /\ UNCHANGED claim
    /\ KeepsRows

(* The claim's row is there and is the user's: ownership, not what a crash, a
   move or a deletion left behind. *)
HeldByUser(holder, user) == record[holder] = user

ReadHolderRow(c) ==
    /\ At(c, "holderRow")
    /\ IF HeldByUser(call[c].holder, call[c].user)
       THEN Refused(c)
       ELSE Go(c, "takeOver")
    /\ UNCHANGED <<keys, type, noted>>

(* COMPARE_AND_SET_SCRIPT. *)
TakeOver(c) ==
    /\ At(c, "takeOver")
    /\ IF claim[call[c].user] = call[c].holder
       THEN SetClaim(call[c].user, call[c].tx) /\ Claimed(c)
       ELSE LostAttempt(c) /\ UNCHANGED claim
    /\ KeepsRows
-----------------------------------------------------------------------------
(* reassignPurchase and deletePurchaseByTransactionId. *)

(* GET tx. *)
Lookup(c) ==
    /\ At(c, "lookup")
    /\ LET from == record[call[c].tx]
           found == [call[c] EXCEPT !.from = from]
       IN IF from = NoUser
          THEN Answer(c, "absent")
          ELSE IF call[c].op = "reassign" /\ from = call[c].user
          THEN Answer(c, "ok")
          ELSE call' = [call EXCEPT ![c] =
                   [found EXCEPT !.pc =
                        IF type = "non_consumable"
                        THEN IF call[c].op = "reassign" THEN "claim" ELSE "release"
                        ELSE IF call[c].op = "reassign" THEN "move" ELSE "remove"]]
    /\ UNCHANGED <<keys, type, noted>>

Released(c) == Go(c, IF call[c].op = "reassign" THEN "move" ELSE "remove")

(* releaseNonConsumable: GET non_consumable of the owner the lookup read... *)
HoldsClaim(tx, user) == claim[user] = tx

ReadClaim(c) ==
    /\ At(c, "release")
    /\ IF HoldsClaim(call[c].tx, call[c].from) THEN Go(c, "unclaim") ELSE Released(c)
    /\ UNCHANGED <<keys, type, noted>>

(* ...and DEL it, in a round trip of its own. *)
Unclaim(c) ==
    /\ At(c, "unclaim")
    /\ SetClaim(call[c].from, NoTx)
    /\ Released(c)
    /\ KeepsRows

(* Mutant of Moved: the transaction stays in its previous owner's set. *)
MovedWithoutRemoval(sets, tx, from, user) == Indexed(sets, tx, user)

Moved(sets, tx, from, user) == Indexed([sets EXCEPT ![from] = @ \ {tx}], tx, user)

(* MULTI: SET tx to the row read, with the new userId; ZREM, ZADD, SREM, SADD. *)
Move(c) ==
    /\ At(c, "move")
    /\ LET tx == call[c].tx
           from == call[c].from
           user == call[c].user
       IN /\ record' = [record EXCEPT ![tx] = user]
          /\ userIndex' = Moved(userIndex, tx, from, user)
          /\ productSet' = Moved(productSet, tx, from, user)
    /\ Answer(c, "ok")
    /\ UNCHANGED <<claim, allSet, type, noted>>

(* MULTI: DEL tx, ZREM, SREM, SREM all. *)
Remove(c) ==
    /\ At(c, "remove")
    /\ LET tx == call[c].tx
           from == call[c].from
       IN /\ record' = [record EXCEPT ![tx] = NoUser]
          /\ userIndex' = [userIndex EXCEPT ![from] = @ \ {tx}]
          /\ productSet' = [productSet EXCEPT ![from] = @ \ {tx}]
          /\ allSet' = allSet \ {tx}
    /\ Answer(c, "ok")
    /\ UNCHANGED <<claim, type, noted>>
-----------------------------------------------------------------------------
(* deletePurchases. *)

(* SMEMBERS user_product. *)
ReadMembers(c) ==
    /\ At(c, "members")
    /\ LET ids == productSet[call[c].user]
       IN IF ids = {}
          THEN Answer(c, "absent")
          ELSE call' = [call EXCEPT ![c].pc = "clear", ![c].ids = ids]
    /\ UNCHANGED <<keys, type, noted>>

ClearedClaim(user) == [claim EXCEPT ![user] = NoTx]

(* MULTI: DEL each row, ZREM, SREM all; DEL user_product and non_consumable. *)
Clear(c) ==
    /\ At(c, "clear")
    /\ LET ids == call[c].ids
           user == call[c].user
       IN /\ record' = [tx \in Txs |-> IF tx \in ids THEN NoUser ELSE record[tx]]
          /\ userIndex' = [userIndex EXCEPT ![user] = @ \ ids]
          /\ productSet' = [productSet EXCEPT ![user] = {}]
          /\ claim' = ClearedClaim(user)
          /\ allSet' = allSet \ ids
    /\ Answer(c, "ok")
    /\ UNCHANGED <<type, noted>>
-----------------------------------------------------------------------------
(* The process dies, or a round trip fails before it took effect: a call that
   fails on its way to the claim still tries to delete the row it wrote. *)
ClaimSteps == {"claim", "scan", "legacy", "backfill", "holder", "reclaim", "holderRow",
               "takeOver"}

Fail(c) ==
    /\ Working(c)
    /\ \/ Answer(c, "error")
       \/ call[c].pc \in ClaimSteps /\ Throw(c, "error")
    /\ noted' = noted \cup {"failure"}
    /\ UNCHANGED <<keys, type>>

Step(c) ==
    \/ Insert(c) \/ ReadOwner(c) \/ WriteIndexes(c) \/ Undo(c)
    \/ TakeClaim(c) \/ Scan(c) \/ ReadLegacy(c) \/ Backfill(c)
    \/ ReadHolder(c) \/ Reclaim(c) \/ ReadHolderRow(c) \/ TakeOver(c)
    \/ Lookup(c) \/ ReadClaim(c) \/ Unclaim(c) \/ Move(c) \/ Remove(c)
    \/ ReadMembers(c) \/ Clear(c)

Next ==
    \E c \in Clients :
        \/ \E op \in Operations, tx \in Txs, user \in Users : Start(c, op, tx, user)
        \/ Step(c)
        \/ Fail(c)

Spec == Init /\ [][Next]_vars
-----------------------------------------------------------------------------
(* Reads. *)

(* getPurchasesForProduct and hasPurchased, through the per-product set. *)
Listing(user) == {tx \in productSet[user] : record[tx] # NoUser}

(* The user a transaction is listed for. *)
ListedOwner(tx) ==
    IF \E user \in Users : tx \in Listing(user)
    THEN CHOOSE user \in Users : tx \in Listing(user)
    ELSE NoUser
-----------------------------------------------------------------------------
(* Properties. *)

(* Whatever calls about different transactions overlap, and wherever one of
   them fails or dies, a transaction is listed for the user its row names and
   for nobody else, and the listing of everything has none that no user has
   (redis.ts, "skipping them would make a crash ... permanent"). *)
IndexesAgree ==
    /\ productSet = userIndex
    /\ \A user \in Users : productSet[user] \subseteq OwnedBy(user)
    /\ \A tx \in allSet : \E user \in Users : tx \in userIndex[user]

(* The client is about to take the transaction from the user. *)
Takes(c, tx, user) ==
    \/ call[c].pc \in {"move", "remove"} /\ call[c].tx = tx
    \/ At(c, "clear") /\ call[c].user = user

Copies(user) == {tx \in Listing(user) : ~\E c \in Clients : Takes(c, tx, user)}

OneCopyEach ==
    type = "non_consumable" => \A user \in Users : Cardinality(Copies(user)) <= 1

(* Purchases saved at once, rows from before claims were kept, and the claims
   that moves and deletions leave behind never leave a user with two copies of
   a non-consumable: the claim is as good as the partial unique index Postgres
   has (redis.ts, claimNonConsumable), as long as no call fails and moves and
   deletions do not overlap the same user's other calls. *)
OneCopyUndisturbed == noted = {} => OneCopyEach

(* The same whatever overlaps, about different transactions: "A claim whose row
   is missing is therefore abandoned (a crash), never still in flight"
   (redis.ts:297-299).  But a reassignment takes its claim while the row is
   still its old owner's. *)
OneCopyUnlessFailed == "failure" \notin noted => OneCopyEach

(* The same whatever fails, one call after the other: "a legacy owner is still
   honoured" (redis.ts:227-228).  But a call that dies between its claim and
   the scan leaves a claim that its retry takes for granted. *)
OneCopyUnlessOverlapped == "overlap" \notin noted => OneCopyEach

Request(c) ==
    IF Working(c) THEN [op |-> call[c].op, tx |-> call[c].tx, user |-> call[c].user]
    ELSE [answer |-> call[c].answer]

Table == INSTANCE PurchaseTable
    WITH owner <- [tx \in Txs |-> ListedOwner(tx)], pending <- [c \in Clients |-> Request(c)]

(* A call that reports success did to the listings what it was asked, at one
   moment; one that is refused or fails did nothing, at any of its round trips;
   and no purchase leaves a listing but by the call that names it. *)
ImplementsPurchaseTable == Table!Spec
=============================================================================
