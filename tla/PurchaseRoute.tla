---------------------------- MODULE PurchaseRoute ----------------------------
(***************************************************************************)
(* POST /onesub/purchase/validate for one product                          *)
(* (packages/server/src/routes/purchase.ts), with what else writes its     *)
(* records: refund webhooks (routes/webhook-apple.ts, webhook-google.ts)   *)
(* and the admin routes (routes/admin.ts).  A request is one step per      *)
(* await; the store is the in-memory one or Postgres, a SQL statement a    *)
(* step.                                                                   *)
(*                                                                         *)
(* The lock on a transaction is a chain of promises in the process.  A     *)
(* request gives up waiting after thirty seconds, and requests of another  *)
(* process never wait: both are Overtake.  An acknowledgement of a         *)
(* non-consumable at Google changes nothing the server reads and is left   *)
(* out.                                                                    *)
(***************************************************************************)
EXTENDS Naturals, Sequences, FiniteSets

CONSTANTS
    Requests,     \* every request that is ever posted: each is posted once
    Txs,          \* the product's transactions
    Users,
    NoUser,
    NoRequest,
    ConsumableTxs, \* bound: those that occur when it is a consumable, whose rows never meet
    PurchasedAt,  \* when each transaction was bought
    Account,      \* the account each was bound to when it was bought, or NoUser
    MaxRefunds,   \* bound: transactions the app store refunds
    MaxActs,      \* bound: what operators do
    MaxCrashes,   \* bound: restarts of the process
    Platforms,    \* subset of {"apple", "google"}
    Backends      \* subset of {"memory", "postgres"}

ASSUME NoUserAssumption == NoUser \notin Users
ASSUME NoRequestAssumption == NoRequest \notin Requests
ASSUME ConsumableTxsAssumption == ConsumableTxs \subseteq Txs
ASSUME PurchasedAtAssumption == PurchasedAt \in [Txs -> Nat]
ASSUME AccountAssumption == Account \in [Txs -> Users \cup {NoUser}]
ASSUME BoundsAssumption == MaxRefunds \in Nat /\ MaxActs \in Nat /\ MaxCrashes \in Nat

VARIABLES
    \* The deployment, fixed at the start.
    platform, backend, type,
    \* The store.
    record, byUserId,
    \* The app store: what it refunded, and the tokens it holds as consumed.
    refunded, consumed,
    due,        \* tokens this server asked Google to consume; the call may fail
    \* The process.
    request,    \* each request: the await it is in, or its answer
    tail,       \* claimLocks: the last request in line for each transaction
    ahead,      \* the requests each one waits for
    \* History.
    overtook,   \* transactions on which a request went ahead unserialized
    granted,    \* times each transaction was answered "new" since it was last deleted
    dropped,    \* those in due whose row was deleted since
    told,       \* refunds the webhook has delivered
    excused,    \* of these, with a request that had read the receipt, or granted since
    acts, crashes

deployment == <<platform, backend, type>>
store == <<record, byUserId>>
appStore == <<refunded, consumed, due>>
process == <<request, tail, ahead>>
history == <<overtook, granted, dropped, told, excused, acts, crashes>>
vars == <<deployment, store, appStore, process, history>>

Memory == INSTANCE InMemoryPurchaseStore
Postgres == INSTANCE PostgresPurchaseStore

Consumable == type = "consumable"

Valid == {"new", "restored"}

Answers == Valid \cup {"rejected", "conflict", "unavailable", "error", "lost"}

(* A request that has read its receipt runs between "waiting" and its answer. *)
Holding == {"waiting", "lookup", "reassign", "save", "select", "restoreOwned"}

Idle == [pc |-> "idle"]

At(r, pc) == request[r].pc = pc

Running(r) == request[r].pc \notin {"idle", "answered"}

TypeOK ==
    /\ platform \in Platforms /\ backend \in Backends
    /\ type \in {"consumable", "non_consumable"}
    /\ record \in [Txs -> Users \cup {NoUser}]
    /\ byUserId \in [Users -> Seq(Txs)]
    /\ refunded \subseteq Txs /\ consumed \subseteq Txs /\ due \subseteq Txs
    /\ request \in [Requests ->
           {Idle}
           \cup [pc : Holding \cup {"owned", "receipt"}, tx : Txs, user : Users, spent : BOOLEAN,
              gone : BOOLEAN]
           \cup [pc : {"answered"}, answer : Answers]]
    /\ tail \in [Txs -> Requests \cup {NoRequest}]
    /\ ahead \in [Requests -> SUBSET Requests]
    /\ granted \in [Txs -> 0..2]
    /\ overtook \subseteq Txs /\ told \subseteq refunded /\ excused \subseteq told /\ dropped \subseteq due 
    /\ acts \in 0..MaxActs /\ crashes \in 0..MaxCrashes

Init ==
    /\ platform \in Platforms /\ backend \in Backends
    /\ type \in {"consumable", "non_consumable"}
    /\ Memory!Init
    /\ refunded = {} /\ consumed = {} /\ due = {}
    /\ request = [r \in Requests |-> Idle]
    /\ tail = [tx \in Txs |-> NoRequest]
    /\ ahead = [r \in Requests |-> {}]
    /\ granted = [tx \in Txs |-> 0]
    /\ overtook = {} /\ told = {} /\ excused = {} /\ dropped = {}
    /\ acts = 0 /\ crashes = 0
-----------------------------------------------------------------------------
(* The lock. *)

(* Mutant of Turn: nobody is waited for. *)
NoTurn(r) == TRUE

Turn(r) == ahead[r] = {}

(* lockTransaction: behind the last in line, who waits for those before it. *)
Line(tx) == IF tail[tx] = NoRequest THEN {} ELSE ahead[tail[tx]] \cup {tail[tx]}

Enter(r, tx) ==
    /\ ahead' = [ahead EXCEPT ![r] = Line(tx)]
    /\ tail' = [tail EXCEPT ![tx] = r]

(* Mutant of Release: the map is tidied, but those in line are not let on. *)
ReleaseTailOnly(r) ==
    /\ tail' = [tx \in Txs |-> IF tail[tx] = r THEN NoRequest ELSE tail[tx]]
    /\ ahead' = [ahead EXCEPT ![r] = {}]

(* The releaser of a lock, in the route's finally: nobody waits for r any more,
   and r leaves the map if it is still the last in line. *)
Release(r) ==
    /\ tail' = [tx \in Txs |-> IF tail[tx] = r THEN NoRequest ELSE tail[tx]]
    /\ ahead' = [other \in Requests |-> IF other = r THEN {} ELSE ahead[other] \ {r}]

GoTo(r, pc) ==
    /\ request' = [request EXCEPT ![r].pc = pc]
    /\ UNCHANGED <<tail, ahead>>

Answer(r, answer) ==
    /\ request' = [request EXCEPT ![r] = [pc |-> "answered", answer |-> answer]]
    /\ Release(r)

NoHistory == UNCHANGED history

(* An answer "new"; one about a row that has been deleted already counts with
   the deletion. *)
CountGrant(r) ==
    LET tx == request[r].tx
    IN /\ granted' = IF request[r].gone \/ granted[tx] = 2 THEN granted
                     ELSE [granted EXCEPT ![tx] = @ + 1]
       /\ dropped' = IF request[r].gone THEN dropped \cup ({tx} \cap due') ELSE dropped
       /\ UNCHANGED <<overtook, told, excused, acts, crashes>>
-----------------------------------------------------------------------------
(* The route. *)

Post(r, tx, user) ==
    /\ At(r, "idle")
    /\ request' = [request EXCEPT ![r] =
           [pc |-> IF Consumable THEN "receipt" ELSE "owned",
            tx |-> tx, user |-> user, spent |-> FALSE, gone |-> FALSE]]
    /\ UNCHANGED <<deployment, store, appStore, tail, ahead, history>>

(* purchasesForProduct(...)[0]. *)
Owned(user) ==
    IF backend = "memory" THEN byUserId[user] # << >> ELSE \E tx \in Txs : record[tx] = user

(* A non-consumable the user owns already is restored, whatever the receipt. *)
CheckOwned(r) ==
    /\ At(r, "owned")
    /\ IF Owned(request[r].user) THEN Answer(r, "restored") ELSE GoTo(r, "receipt")
    /\ UNCHANGED <<deployment, store, appStore, history>>

(* Mutant of StillPaid: a refund Google reports is not looked at. *)
AnyPaid(tx) == TRUE

(* Google answers with the purchase as it is now; an Apple receipt says what
   was true when it was signed, and one from before the refund stays valid. *)
StillPaid(tx) == platform = "google" => tx \notin refunded

(* The binding guard: a receipt bound to an account is good for that user only. *)
BindingMismatch(tx, user) == Account[tx] \notin {NoUser, user}

(* Google says of a consumable's token that it is consumed already.  It is no
   reason to refuse the receipt, and is left to Lookup. *)
AlreadyConsumed(tx) == Consumable /\ tx \in consumed

(* The receipt is one the product's endpoint accepts. *)
AcceptReceipt(r) ==
    LET tx == request[r].tx
    IN /\ At(r, "receipt")
       /\ StillPaid(tx)
       /\ IF BindingMismatch(tx, request[r].user)
          THEN Answer(r, "conflict")
          ELSE /\ request' = [request EXCEPT ![r].pc = "waiting",
                                             ![r].spent = AlreadyConsumed(tx)]
               /\ Enter(r, tx)
       /\ UNCHANGED <<deployment, store, appStore, history>>

(* Google cannot be asked, or does not answer for the receipt: 503. *)
GoogleUnavailable(r) == platform = "google" /\ Answer(r, "unavailable")

(* Too old, of another app or product, a sandbox one, or refunded: 422. *)
RefuseReceipt(r) ==
    /\ At(r, "receipt")
    /\ Answer(r, "rejected") \/ GoogleUnavailable(r)
    /\ UNCHANGED <<deployment, store, appStore, history>>

Proceed(r) ==
    /\ At(r, "waiting") /\ Turn(r)
    /\ GoTo(r, "lookup")
    /\ UNCHANGED <<deployment, store, appStore, history>>

(* Thirty seconds have passed, or the requests ahead are in another process. *)
Overtake(r) ==
    /\ At(r, "waiting") /\ ahead[r] # {}
    /\ GoTo(r, "lookup")
    /\ overtook' = overtook \cup {request[r].tx}
    /\ UNCHANGED <<deployment, store, appStore, granted, dropped, told, excused,
                   acts, crashes>>

Lookup(r) ==
    LET tx == request[r].tx  owner == record[tx]
    IN /\ At(r, "lookup")
       /\ CASE owner = NoUser -> IF request[r].spent THEN Answer(r, "rejected") ELSE GoTo(r, "save")
            [] owner = request[r].user -> Answer(r, "restored")
            [] OTHER -> IF Consumable THEN Answer(r, "conflict") ELSE GoTo(r, "reassign")
       /\ UNCHANGED <<deployment, store, appStore, history>>

(* reassignPurchase: its conflict is a second look at what the user owns; a row
   that has gone is answered as restored. *)
Reassign(r) ==
    LET tx == request[r].tx  user == request[r].user
        answer == IF backend = "memory" THEN Memory!ReassignAnswer(tx, user)
                  ELSE Postgres!UpdateAnswer(tx, user)
    IN /\ At(r, "reassign")
       /\ IF backend = "memory" THEN Memory!ReassignPurchase(tx, user)
          ELSE Postgres!Update(tx, user) /\ UNCHANGED byUserId
       /\ IF answer = "already_owned" THEN GoTo(r, "restoreOwned") ELSE Answer(r, "restored")
       /\ UNCHANGED <<deployment, appStore, history>>

(* Mutant of ConsumeAfterSave: Google is told whatever became of the row. *)
ConsumeAnyway(tx, saved) ==
    /\ due' = IF platform = "google" /\ Consumable THEN due \cup {tx} ELSE due
    /\ UNCHANGED <<refunded, consumed>>

(* consumeGoogleProductReceipt is called once the row is there, and not waited for. *)
ConsumeAfterSave(tx, saved) ==
    /\ due' = IF saved /\ platform = "google" /\ Consumable THEN due \cup {tx} ELSE due
    /\ UNCHANGED <<refunded, consumed>>

Granted(r) ==
    /\ Answer(r, "new")
    /\ ConsumeAfterSave(request[r].tx, TRUE)
    /\ CountGrant(r)

(* What the route does with the answer of savePurchase. *)
Saved(r, answer) ==
    CASE answer = "ok" -> Granted(r)
      [] answer = "belongs_to_other" -> Answer(r, "conflict") /\ UNCHANGED <<appStore, history>>
      [] answer = "already_owned" -> GoTo(r, "restoreOwned") /\ UNCHANGED <<appStore, history>>

(* savePurchase of the in-memory store. *)
SaveInMemory(r) ==
    LET tx == request[r].tx  user == request[r].user
    IN /\ At(r, "save") /\ backend = "memory"
       /\ Memory!SavePurchase(tx, user)
       /\ Saved(r, Memory!SaveAnswer(tx, user))
       /\ UNCHANGED deployment

(* savePurchase of the Postgres store: the INSERT, and a SELECT if a row is there. *)
SaveInPostgres(r) ==
    LET tx == request[r].tx  user == request[r].user  answer == Postgres!InsertAnswer(tx, user)
    IN /\ At(r, "save") /\ backend = "postgres"
       /\ Postgres!Insert(tx, user)
       /\ CASE answer = "inserted" -> Saved(r, "ok")
            [] answer = "exists" -> GoTo(r, "select") /\ UNCHANGED <<appStore, history>>
            [] OTHER -> Saved(r, answer)
       /\ UNCHANGED <<deployment, byUserId>>

SelectOwner(r) ==
    /\ At(r, "select")
    /\ Saved(r, Postgres!SelectAnswer(request[r].tx, request[r].user))
    /\ UNCHANGED <<deployment, store>>

(* sendOwnedRestore after a conflict: if nothing is owned after all, 500. *)
RestoreOwned(r) ==
    /\ At(r, "restoreOwned")
    /\ Answer(r, IF Owned(request[r].user) THEN "restored" ELSE "error")
    /\ UNCHANGED <<deployment, store, appStore, history>>

(* A statement fails in Postgres, before its effect or after: 500. *)
StoreFails(r) ==
    LET tx == request[r].tx  user == request[r].user
    IN /\ backend = "postgres"
       /\ request[r].pc \in (Holding \ {"waiting"}) \cup {"owned"}
       /\ \/ UNCHANGED record
          \/ At(r, "save") /\ Postgres!Insert(tx, user)
          \/ At(r, "reassign") /\ Postgres!Update(tx, user)
       /\ Answer(r, "error")
       /\ ConsumeAfterSave(tx, FALSE)
       /\ UNCHANGED <<deployment, byUserId, history>>
-----------------------------------------------------------------------------
(* Everyone else. *)

(* The rows of these transactions go; requests about them are marked. *)
MarkGone(txs) ==
    request' = [r \in Requests |->
        IF Running(r) /\ request[r].tx \in txs THEN [request[r] EXCEPT !.gone = TRUE]
        ELSE request[r]]

NoteDeleted(txs) ==
    /\ granted' = [tx \in Txs |-> IF tx \in txs THEN 0 ELSE granted[tx]]
    /\ dropped' = dropped \cup (txs \cap due)

Refund(tx) ==
    /\ tx \notin refunded /\ Cardinality(refunded) < MaxRefunds
    /\ refunded' = refunded \cup {tx}
    /\ UNCHANGED <<deployment, store, consumed, due, process, history>>

(* REFUND and REVOKE from Apple, voidedPurchaseNotification from Google, once
   or again: the row of the transaction is deleted if there is one. *)
RefundWebhook(tx) ==
    /\ tx \in refunded
    /\ IF backend = "memory" THEN Memory!DeletePurchaseByTransactionId(tx)
       ELSE Postgres!DeleteTransaction(tx) /\ UNCHANGED byUserId
    /\ NoteDeleted({tx}) /\ MarkGone({tx})
    /\ told' = told \cup {tx}
    /\ excused' = IF \E r \in Requests : request[r].pc \in Holding /\ request[r].tx = tx
                  THEN excused \cup {tx} ELSE excused
    /\ UNCHANGED <<deployment, appStore, tail, ahead, overtook, acts, crashes>>

(* The call that consumes a token reaches Google. *)
Consume(tx) ==
    /\ tx \in due \ consumed
    /\ consumed' = consumed \cup {tx}
    /\ UNCHANGED <<deployment, store, refunded, due, process, history>>

Act ==
    /\ acts < MaxActs
    /\ acts' = acts + 1

(* DELETE /onesub/purchase/admin/:userId/:productId. *)
AdminReset(user) ==
    /\ Act
    /\ IF backend = "memory" THEN Memory!DeletePurchases(user)
       ELSE Postgres!DeleteOfUser(user) /\ UNCHANGED byUserId
    /\ LET txs == {tx \in Txs : record[tx] = user} IN NoteDeleted(txs) /\ MarkGone(txs)
    /\ UNCHANGED <<deployment, appStore, tail, ahead, overtook, told, excused, crashes>>

(* POST /onesub/purchase/admin/transfer. *)
AdminTransfer(tx, user) ==
    /\ Act /\ record[tx] # NoUser
    /\ IF backend = "memory" THEN Memory!ReassignPurchase(tx, user)
       ELSE Postgres!Update(tx, user) /\ UNCHANGED byUserId
    /\ UNCHANGED <<deployment, appStore, process, overtook, granted, dropped, told, excused, crashes>>

(* POST /onesub/purchase/admin/grant, of a transaction of the product. *)
AdminGrant(tx, user) ==
    /\ Act
    /\ IF backend = "memory" THEN Memory!SavePurchase(tx, user)
       ELSE Postgres!Insert(tx, user) /\ UNCHANGED byUserId
    /\ excused' = excused \cup ({tx} \cap told)
    /\ UNCHANGED <<deployment, appStore, process, overtook, granted, dropped, told, crashes>>

(* The process dies: its requests are cut off and its locks gone, and with the
   in-memory store every row. *)
Crash ==
    /\ crashes < MaxCrashes /\ crashes' = crashes + 1
    /\ \E r \in Requests : Running(r)
    /\ request' = [r \in Requests |->
           IF Running(r) THEN [pc |-> "answered", answer |-> "lost"] ELSE request[r]]
    /\ tail' = [tx \in Txs |-> NoRequest]
    /\ ahead' = [r \in Requests |-> {}]
    /\ IF backend = "memory"
       THEN /\ record' = [tx \in Txs |-> NoUser]
            /\ byUserId' = [user \in Users |-> << >>]
            /\ NoteDeleted(Txs)
       ELSE UNCHANGED <<store, granted, dropped>>
    /\ UNCHANGED <<deployment, appStore, overtook, told, excused, acts>>

Step(r) ==
    \/ CheckOwned(r) \/ AcceptReceipt(r) \/ RefuseReceipt(r) \/ Proceed(r) \/ Lookup(r)
    \/ Reassign(r) \/ SaveInMemory(r) \/ SaveInPostgres(r) \/ SelectOwner(r) \/ RestoreOwned(r)

Occurring == IF Consumable THEN ConsumableTxs ELSE Txs

Next ==
    \/ \E r \in Requests, tx \in Occurring, user \in Users : Post(r, tx, user)
    \/ \E r \in Requests : Step(r)
    \/ \E r \in Requests : Overtake(r)
    \/ \E r \in Requests : StoreFails(r)
    \/ \E tx \in Occurring : Refund(tx)
    \/ \E tx \in Occurring : RefundWebhook(tx)
    \/ \E tx \in Occurring : Consume(tx)
    \/ \E user \in Users : AdminReset(user)
    \/ \E tx \in Occurring, user \in Users : AdminTransfer(tx, user)
    \/ \E tx \in Occurring, user \in Users : AdminGrant(tx, user)
    \/ Crash

Spec == Init /\ [][Next]_vars
-----------------------------------------------------------------------------
(* A transaction is answered "new" once as long as its row stands, whatever
   requests are in flight together: what the lock of the route is for ("a
   consumable granted twice").  A request that went ahead unserialized voids
   the promise. *)
GrantedOnce == \A tx \in Txs : granted[tx] <= 1 \/ tx \in overtook

(* A refund that has reached the webhook is not undone by the receipt.  With
   Google, the row can come back only through a request that had read the
   receipt when the webhook came, or through an operator. *)
RefundStaysRemoved ==
    platform = "google" =>
        \A tx \in told : record[tx] # NoUser => tx \in excused

(* A user has one copy of a non-consumable, however it came about. *)
OneCopy ==
    type = "non_consumable" =>
        \A tx, other \in Txs : record[tx] = record[other] => record[tx] = NoUser \/ tx = other

(* The route has a token consumed only once its purchase is recorded: a failure
   on the way never leaves it consumed and unrecorded, which is rejected for
   good ("no retry path").  Only a deletion takes the row away. *)
NoneConsumedUnrecorded == \A tx \in due : record[tx] # NoUser \/ tx \in dropped

(* Nobody waits in line for a request that has left it, was cut off, is about
   another transaction or waits for him in turn: the map forgets its last entry
   while those in front may still run, and a request may overtake. *)
LineMoves ==
    \A r \in Requests : At(r, "waiting") =>
        \A other \in ahead[r] :
            /\ request[other].pc \in Holding
            /\ request[other].tx = request[r].tx
            /\ r \notin ahead[other]

(* Who is told that a purchase is valid has a row for it, unless the row was
   deleted as the request ran. *)
ValidMeansRecorded ==
    [][\A r \in Requests :
        LET after == request'[r]
        IN (after.pc = "answered" /\ request[r].pc # "answered" /\ after.answer \in Valid) =>
               \/ record'[request[r].tx] = request[r].user
               \/ ~Consumable /\ \E tx \in Txs : record'[tx] = request[r].user
               \/ request[r].gone]_vars

=============================================================================
