-------------------------- MODULE EntitlementReads --------------------------
(***************************************************************************)
(* The routes that tell a client what a user may use, over a Postgres      *)
(* subscription store and a purchase store that change while they read:    *)
(*                                                                         *)
(*   routes/status.ts        GET /onesub/status                            *)
(*   routes/entitlements.ts  GET /onesub/entitlement and /entitlements     *)
(*   lifecycle.ts            withoutReplaced                               *)
(*                                                                         *)
(* One user; one entitlement, which every subscription of Txs and one      *)
(* non-consumable product grant.  A store read is one statement; the route *)
(* answers some time after it.                                             *)
(***************************************************************************)
EXTENDS PostgresSubscriptionStore

CONSTANTS
    Linked,       \* Linked[tx]: the purchase token tx replaced, or NoTx
    NoTx,
    MaxPurchases  \* bound on the changes of the purchase store

ASSUME NoTxAssumption == NoTx \notin Txs /\ MaxPurchases \in Nat

VARIABLES
    bought,       \* the user owns the non-consumable
    changes,      \* changes of the purchase store so far
    request,      \* the request being answered
    seen          \* history: what was true since the request arrived

readVars == <<bought, changes, request, seen>>

vars == <<storeVars, readVars>>

Routes == {"status", "entitlement", "entitlements"}

Idle == [at |-> "idle"]

NothingSeen == [throughout |-> {}, removed |-> FALSE, ever |-> FALSE]

(* A request that has read what "has" names, and one that is answered. *)
Reads == [at : {"reading"}, route : Routes, started : Nat,
          has : SUBSET {"subscriptions", "purchases"}, subs : Tables, purchases : BOOLEAN]

Answers == [at : {"answered"}, route : Routes, active : BOOLEAN]

TypeOK ==
    /\ StoreTypeOK
    /\ bought \in BOOLEAN
    /\ changes \in 0..MaxPurchases
    /\ request.at = "reading" => request \in Reads /\ request.started <= now
    /\ request.at = "answered" => request \in Answers

Init ==
    /\ StoreInit
    /\ bought = FALSE
    /\ changes = 0
    /\ request = Idle
    /\ seen = NothingSeen

-----------------------------------------------------------------------------
(* The purchase store: a purchase is recorded, or removed by a refund. *)

BuyOrRefund ==
    /\ changes < MaxPurchases
    /\ changes' = changes + 1
    /\ bought' = ~bought
    /\ UNCHANGED <<storeVars, request>>

-----------------------------------------------------------------------------
(* The routes *)

(* withoutReplaced: the rows no other row of the user points back at. *)
WithoutReplaced(table) ==
    {tx \in Txs : \A other \in Txs : table[other].of # 0 => Linked[other] # tx}

Entitling(table, time) == {tx \in Txs : Entitles(table, tx, time)}

Arrive(route) ==
    /\ request = Idle
    /\ request' = [at |-> "reading", route |-> route, started |-> now,
                   has |-> {},
                   subs |-> [tx \in Txs |-> NoRow], purchases |-> FALSE]
    /\ UNCHANGED <<storeVars, bought, changes>>

Reading(routes) == request.at = "reading" /\ request.route \in routes

Has(reply) == reply \in request.has

ReadSubscriptions ==
    /\ Reading(Routes)
    /\ ~Has("subscriptions")
    /\ request' = [request EXCEPT !.subs = rows, !.has = @ \cup {"subscriptions"}]
    /\ UNCHANGED <<storeVars, bought, changes>>

(* Mutant of MayReadPurchases: both routes ask for both at once. *)
MayReadPurchasesAtOnce == Reading({"entitlement", "entitlements"})

(* evaluateEntitlement asks for the purchases only when no subscription it has
   read grants, by the time it started at; the batch route asks for both at
   once. *)
MayReadPurchases ==
    \/ Reading({"entitlements"})
    \/ /\ Reading({"entitlement"})
       /\ Has("subscriptions")
       /\ Entitling(request.subs, request.started) = {}

ReadPurchases ==
    /\ MayReadPurchases
    /\ ~Has("purchases")
    /\ request' = [request EXCEPT !.purchases = bought, !.has = @ \cup {"purchases"}]
    /\ UNCHANGED <<storeVars, bought, changes>>

Tell(active) ==
    /\ request' = [at |-> "answered", route |-> request.route, active |-> active]
    /\ UNCHANGED <<storeVars, bought, changes>>

ActiveByStatus(table) == Entitling(table, now) \cap WithoutReplaced(table) # {}

AnswerStatus ==
    /\ Reading({"status"})
    /\ Has("subscriptions")
    /\ Tell(ActiveByStatus(request.subs))

AnswerEntitlement ==
    /\ Reading({"entitlement"})
    /\ Has("subscriptions")
    /\ LET granted == Entitling(request.subs, request.started) # {}
       IN /\ granted \/ Has("purchases")
          /\ Tell(granted \/ request.purchases)

(* Mutant of BatchTime: the time is taken before the reads. *)
BatchTimeOfArrival == request.started

(* The instant the batch route evaluates at: after both reads. *)
BatchTime == now

AnswerEntitlements ==
    /\ Reading({"entitlements"})
    /\ Has("subscriptions")
    /\ Has("purchases")
    /\ Tell(Entitling(request.subs, BatchTime) # {} \/ request.purchases)

(* A store throws: 500, and the client learns nothing. *)
StoreError ==
    /\ Reading(Routes)
    /\ request' = Idle
    /\ UNCHANGED <<storeVars, bought, changes>>

Return ==
    /\ request.at = "answered"
    /\ request' = Idle
    /\ UNCHANGED <<storeVars, bought, changes>>

-----------------------------------------------------------------------------
(* The history variable. *)

Purchase == <<NoTx, NoRow>>

(* What grants access now, as the route understands it: to /status the rows no
   other replaced, to /entitlements each row and the purchase; to /entitlement
   any of them will do, one after the other. *)
Granting(route) ==
    LET granted == {<<tx, rows[tx]>> : tx \in Entitling(rows, now)}
                       \cup (IF bought THEN {Purchase} ELSE {})
    IN CASE route = "status" -> {entry \in granted : entry[1] \in WithoutReplaced(rows)}
         [] route = "entitlements" -> granted
         [] route = "entitlement" -> IF granted = {} THEN {} ELSE {Purchase}

(* Entitled, as the route understands it: the single route goes by the instant
   the request came at. *)
EntitledAsAsked(asked) ==
    IF asked.route = "entitlement" THEN Entitling(rows, asked.started) # {} \/ bought
    ELSE Granting(asked.route) # {}

Watch ==
    seen' =
        IF request'.at \notin {"reading", "answered"} THEN NothingSeen
        ELSE [throughout |->
                 IF request = Idle THEN Granting(request.route)'
                 ELSE IF seen.throughout = {} THEN {}
                 ELSE seen.throughout \cap Granting(request.route)',
              removed |-> seen.removed \/ (request'.route = "entitlement" /\ bought /\ ~bought'),
              ever |-> seen.ever \/ (request'.at = "reading" /\ EntitledAsAsked(request)')]

RouteNext ==
    \/ BuyOrRefund
    \/ \E route \in Routes : Arrive(route)
    \/ ReadSubscriptions \/ ReadPurchases
    \/ AnswerStatus \/ AnswerEntitlement \/ AnswerEntitlements
    \/ StoreError \/ Return

Next ==
    /\ \/ RouteNext
       \/ StoreNext /\ UNCHANGED <<bought, changes, request>>
    /\ Watch

Spec == Init /\ [][Next]_vars

-----------------------------------------------------------------------------
(* Properties *)

(* Entitled throughout is told.  /status reports active when one row that no
   other replaced grants access from the request to the answer, /entitlements
   when one row or the purchase does: they evaluate what they read at a later
   instant, so a renewal saved in between does not help them.  /entitlement
   tells even of access that moves from row to row, or from a subscription to
   a purchase, meanwhile: it keeps to the instant it started at, and reads the
   purchases after the subscriptions. *)
EntitledIsTold ==
    request.at = "answered" /\ seen.throughout # {} /\ ~seen.removed => request.active

(* Nobody is told of access that was never there while the request was in
   progress: the instant a route evaluates at goes with what it read, and
   /status does not count a row that another replaced.  The single route keeps
   to the instant the request came at, so what it tells of may have been
   written, and be over, since then. *)
ToldWasEntitled ==
    request.at = "answered" /\ request.active => seen.ever

(* A row that claims, by its state_as_of, a newer snapshot than it holds. *)
ClaimsNewer(row) == row.of < row.asOf

(* Only a process that may still believe the columns missing makes a row claim
   more than it holds, which would have the snapshots in between refused; once
   the memory of every process and the queries under way are over, none does. *)
FallbackEnds ==
    [][ (\E tx \in Txs : ~ClaimsNewer(rows[tx]) /\ ClaimsNewer(rows'[tx])) =>
            now < columns + Window + 2 * Delay ]_vars
=============================================================================
