----------------------------- MODULE SdkPurchase -----------------------------
(***************************************************************************)
(* The React Native SDK's purchase flow for one product                    *)
(* (packages/sdk/src/purchaseFlow.ts, OneSubProvider.tsx, api.ts): the     *)
(* host's calls, the one store listener of the mounted Provider, and the   *)
(* store behind them.  JavaScript runs between awaits without a break, so  *)
(* a step is what runs from one await to the next.                         *)
(*                                                                         *)
(* The mount effect runs again whenever the user changes; each run is a    *)
(* generation, whose closures know its user and whether it was cancelled.  *)
(* Its cleanup and the next run are one step, as are the render before     *)
(* them.  The refs (lock, slots, drain gate) are shared by every           *)
(* generation.                                                             *)
(***************************************************************************)
EXTENDS Naturals, FiniteSets

CONSTANTS
    Calls,         \* bound: calls the host makes, each made once
    Handlers,      \* bound: listener events handled at one time
    Txs,           \* store transactions
    NoCall,
    UserOf,        \* the user of each generation; their number is a bound
    Kinds,         \* subset of {"subscription", "consumable", "non_consumable"}
    MayFailInit    \* whether initConnection may fail

ASSUME NoCallAssumption == NoCall \notin Calls
ASSUME UserOfAssumption ==
    /\ IsFiniteSet(DOMAIN UserOf)
    /\ 1 \in DOMAIN UserOf /\ DOMAIN UserOf = 1..Cardinality(DOMAIN UserOf)
ASSUME KindsAssumption == Kinds \subseteq {"subscription", "consumable", "non_consumable"}
ASSUME MayFailInitAssumption == MayFailInit \in BOOLEAN

VARIABLES
    kind,       \* the product's kind
    declared,   \* config.consumableProductIds names it
    \* The Provider.
    gen,        \* the current generation
    mounted,
    listening,  \* the current generation's listeners are attached
    init,       \* initConnection and the drain timer of each generation
    drained,    \* drainCompleteRef
    busy,       \* isBusyRef
    slot,       \* inFlight: the call whose entry is registered
    shown,      \* whose subscription state was written last
    call,       \* each call's flow: [pc, gen]
    entry,      \* its in-flight entry
    handler,    \* events being handled
    \* The store.
    sheet,      \* the call whose purchase sheet is open
    paid,       \* each transaction, up to finishTransaction
    events,     \* events on their way to the listener: [tx, replay]
    recorded,   \* transactions the server accepted
    \* History.
    staleRelease,  \* an earlier generation opened the drain gate
    crossed,       \* calls whose slot was cleared by the handler of another's
    owned          \* transactions the server took for what is owned already

provider == <<gen, mounted, listening, init, drained>>
flow == <<busy, slot, call, entry>>
store == <<sheet, paid, events, recorded>>
fixed == <<kind, declared>>
history == <<staleRelease, crossed, owned>>
vars == <<fixed, provider, flow, shown, handler, store, history>>

Gens == DOMAIN UserOf

Users == {UserOf[g] : g \in Gens}

Idle == [pc |-> "idle"]

Over == [pc |-> "settled", gen |-> 1]

(* A handler with its event, and the entry it matched. *)
Handling == [pc : {"validating", "finishing"}, tx : Txs, gen : Gens,
             entry : Calls \cup {NoCall}, replay : BOOLEAN]

TypeOK ==
    /\ kind \in Kinds /\ declared \in BOOLEAN
    /\ gen \in Gens /\ mounted \in BOOLEAN /\ listening \in BOOLEAN
    /\ init \in [Gens -> {"none", "connecting", "draining", "done"}]
    /\ drained \in BOOLEAN /\ busy \in BOOLEAN
    /\ slot \in Calls \cup {NoCall}
    /\ shown \in Users \cup {"nobody"}
    /\ call \in [Calls -> [pc : {"idle", "parked", "fetching", "requesting", "awaiting",
                                 "cleanup", "restoring", "settled"}, gen : Gens]]
    /\ entry \in [Calls -> {"none", "pending", "resolved", "rejected"}]
    /\ handler \in [Handlers -> Handling \cup {Idle}]
    /\ sheet \in Calls \cup {NoCall}
    /\ paid \in [Txs -> {"unbought", "unfinished", "acknowledged", "consumed"}]
    /\ events \subseteq [tx : Txs, replay : BOOLEAN]
    /\ recorded \subseteq Txs
    /\ staleRelease \in BOOLEAN /\ crossed \subseteq Calls /\ owned \subseteq Txs

Unfinished == {tx \in Txs : paid[tx] = "unfinished"}

Replays == [tx : Unfinished, replay : {TRUE}]

(* The app starts, with what earlier runs of it left unfinished. *)
Init ==
    /\ kind \in Kinds /\ declared \in BOOLEAN /\ (declared => kind = "consumable")
    /\ gen = 1 /\ mounted = TRUE /\ listening = TRUE
    /\ init = [g \in Gens |-> IF g = 1 THEN "connecting" ELSE "none"]
    /\ drained = FALSE /\ busy = FALSE /\ slot = NoCall
    /\ shown = "nobody"
    /\ call = [c \in Calls |-> [pc |-> "idle", gen |-> 1]]
    /\ entry = [c \in Calls |-> "none"]
    /\ handler = [h \in Handlers |-> Idle]
    /\ sheet = NoCall
    /\ paid \in [Txs -> {"unbought", "unfinished"}]
    /\ events = Replays /\ recorded = {}
    /\ staleRelease = FALSE /\ crossed = {} /\ owned = {}

At(c, pc) == call[c].pc = pc

Current(g) == mounted /\ g = gen

(* Mutant of CurrentUser: nothing is compared when a read answers. *)
AnyUser(g) == TRUE

(* userIdRef.current === userId. *)
CurrentUser(g) == UserOf[g] = UserOf[gen]

Write(g) == shown' = UserOf[g]

Move(c, pc) == call' = [call EXCEPT ![c].pc = pc]

(* A settled promise stays as it is. *)
Settle(e, c, result) ==
    IF c # NoCall /\ e[c] = "pending" THEN [e EXCEPT ![c] = result] ELSE e
-----------------------------------------------------------------------------
(* The host's calls: subscribe and purchaseProduct. *)

(* A call ends: its flow's finally. *)
Released(c) ==
    /\ call' = [call EXCEPT ![c] = Over]
    /\ entry' = [entry EXCEPT ![c] = "none"]
    /\ busy' = FALSE

(* awaitDrainComplete. *)
TapGoesTo == IF drained THEN "fetching" ELSE "parked"

(* A tap while another call is busy is refused and changes nothing. *)
Tap(c) ==
    /\ mounted /\ ~busy /\ At(c, "idle")
    /\ busy' = TRUE
    /\ call' = [call EXCEPT ![c] = [pc |-> TapGoesTo, gen |-> gen]]
    /\ UNCHANGED <<fixed, provider, slot, entry, shown, handler, store, history>>

(* fetchProducts answers: the slot is registered and the sheet opens.  The slot
   of an earlier call may still be there: CONCURRENT_PURCHASE. *)
Fetched(c) ==
    /\ At(c, "fetching")
    /\ IF slot = NoCall
       THEN /\ slot' = c /\ entry' = [entry EXCEPT ![c] = "pending"]
            /\ sheet' = c
            /\ Move(c, "requesting") /\ UNCHANGED busy
       ELSE Released(c) /\ UNCHANGED <<slot, sheet>>
    /\ UNCHANGED <<fixed, provider, shown, handler, paid, events, recorded, history>>

FetchFails(c) ==
    /\ At(c, "fetching")
    /\ Released(c)
    /\ UNCHANGED <<fixed, provider, slot, shown, handler, store, history>>

(* requestPurchase resolves, or rejects an update it calls a duplicate: the
   listener has the answer. *)
RequestReturns(c) ==
    /\ At(c, "requesting")
    /\ Move(c, "awaiting")
    /\ UNCHANGED <<fixed, provider, busy, slot, entry, shown, handler, store, history>>

(* requestPurchase rejects, or the user cancels: clearInFlight. *)
RequestFails(c) ==
    /\ At(c, "requesting")
    /\ slot' = NoCall
    /\ sheet' = IF sheet = c THEN NoCall ELSE sheet
    /\ Released(c)
    /\ UNCHANGED <<fixed, provider, shown, handler, paid, events, recorded, history>>

(* The entry's timer, 180 s; it acts on its own entry only. *)
Timeout(c) ==
    /\ entry[c] = "pending" /\ slot = c
    /\ slot' = NoCall /\ entry' = Settle(entry, c, "rejected")
    /\ UNCHANGED <<fixed, provider, busy, call, shown, handler, store, history>>

(* The entry has been settled.  A subscription's caller goes on to wait for the
   transaction's cleanup, under the lock; anybody else is done. *)
EntrySettled(c) ==
    /\ At(c, "awaiting") /\ entry[c] \in {"resolved", "rejected"}
    /\ IF entry[c] = "resolved" /\ kind = "subscription"
       THEN Move(c, "cleanup") /\ UNCHANGED <<busy, entry>>
       ELSE Released(c)
    /\ UNCHANGED <<fixed, provider, slot, shown, handler, store, history>>

(* settleSubscriptionCleanup: the handler has seen to the transaction. *)
CleanedUp(c) ==
    /\ At(c, "cleanup")
    /\ \A h \in Handlers : handler[h] # Idle => handler[h].entry # c
    /\ Released(c)
    /\ UNCHANGED <<fixed, provider, slot, shown, handler, store, history>>

(* restore and restoreProduct. *)
Restore(c) ==
    /\ mounted /\ ~busy /\ At(c, "idle")
    /\ busy' = TRUE
    /\ call' = [call EXCEPT ![c] = [pc |-> "restoring", gen |-> gen]]
    /\ UNCHANGED <<fixed, provider, slot, entry, shown, handler, store, history>>

(* getAvailablePurchases: what has been bought and not consumed. *)
Listed == {tx \in Txs : paid[tx] \in {"unfinished", "acknowledged"}}

(* validateReceipt, validatePurchase: a purchase of the store goes to the server,
   which records it or does not, whether or not its answer comes back. *)
Revalidated(tx) ==
    \/ UNCHANGED recorded
    \/ tx \in Listed /\ recorded' = recorded \cup {tx}

(* restoreProduct: the answer, "already owned" among them, goes to the caller
   alone; nothing is finished. *)
RestoredPurchase(tx) == Revalidated(tx) /\ UNCHANGED shown

(* restore: the status that was validated, or read instead, is written for its
   own user. *)
RestoredSubscription(g, tx) ==
    /\ Revalidated(tx)
    /\ \/ CurrentUser(g) /\ Write(g)
       \/ UNCHANGED shown

(* The call ends, with an answer or an error: its finally. *)
Restored(c, tx) ==
    /\ At(c, "restoring")
    /\ IF kind = "subscription" THEN RestoredSubscription(call[c].gen, tx) ELSE RestoredPurchase(tx)
    /\ Released(c)
    /\ UNCHANGED <<fixed, provider, slot, handler, sheet, paid, events, history>>

(* A read of the mount effect answers: the status or the entitlements. *)
MountReadAnswers(g) ==
    /\ g <= gen
    /\ Current(g) /\ Write(g)
    /\ UNCHANGED <<fixed, provider, flow, handler, store, history>>

(* refreshEntitlements answers: called after a call, and by the host at will. *)
RefreshAnswers(g) ==
    /\ g <= gen
    /\ CurrentUser(g) /\ Write(g)
    /\ UNCHANGED <<fixed, provider, flow, handler, store, history>>
-----------------------------------------------------------------------------
(* The store. *)

(* The user confirms: a transaction, and an event if anybody listens. *)
Buy(tx) ==
    /\ sheet # NoCall /\ paid[tx] = "unbought"
    /\ paid' = [paid EXCEPT ![tx] = "unfinished"]
    /\ events' = IF listening THEN events \cup {[tx |-> tx, replay |-> FALSE]} ELSE events
    /\ sheet' = NoCall
    /\ UNCHANGED <<fixed, provider, flow, shown, handler, recorded, history>>

(* onPurchaseError: every registered entry is rejected, whatever it was about.
   The duplicate of an update is not an error and does nothing. *)
StoreError ==
    /\ listening /\ slot # NoCall
    /\ entry' = Settle(entry, slot, "rejected")
    /\ slot' = NoCall
    /\ UNCHANGED <<fixed, provider, busy, call, shown, handler, store, history>>
-----------------------------------------------------------------------------
(* handlePurchaseEvent. *)

(* The entry an event is matched with: none until the drain window has closed. *)
Match == IF drained THEN slot ELSE NoCall

(* Mutant of ClearMatched: the slot is cleared whether or not it was matched. *)
ClearAlways(matched) == slot' = NoCall

(* The slot goes when this event had an entry, whichever is there by now. *)
ClearMatched(matched) == slot' = IF matched # NoCall THEN NoCall ELSE slot

(* History: another call's entry went with it, which no handler holds. *)
NoteCrossing(matched) ==
    crossed' = IF matched # NoCall /\ slot \notin {NoCall, matched}
               THEN crossed \cup {slot} ELSE crossed

Receive(h, event) ==
    /\ listening /\ event \in events /\ handler[h] = Idle
    /\ events' = events \ {event}
    /\ handler' = [handler EXCEPT ![h] =
           [pc |-> "validating", tx |-> event.tx, gen |-> gen, entry |-> Match,
            replay |-> event.replay]]
    /\ UNCHANGED <<fixed, provider, flow, shown, sheet, paid, recorded, history>>

(* An event without a receipt. *)
ReceiveNothing(event) ==
    /\ listening /\ event \in events
    /\ events' = events \ {event}
    /\ entry' = Settle(entry, Match, "rejected")
    /\ ClearMatched(Match)
    /\ UNCHANGED <<fixed, provider, busy, call, shown, handler, sheet, paid, recorded, history>>

(* The server accepts the receipt.  A subscription's caller is answered now. *)
Accepted(h) ==
    LET e == handler[h]
    IN /\ e # Idle /\ e.pc = "validating"
       /\ recorded' = recorded \cup {e.tx}
       /\ IF kind = "subscription"
          THEN /\ IF Current(e.gen) THEN Write(e.gen) ELSE UNCHANGED shown
               /\ entry' = Settle(entry, e.entry, "resolved")
          ELSE UNCHANGED <<shown, entry>>
       /\ handler' = [handler EXCEPT ![h].pc = "finishing"]
       /\ UNCHANGED <<fixed, provider, busy, slot, call, sheet, paid, events, history>>

(* Mutant of EndsUnfinished: the transaction is finished when the server says no. *)
EndsFinished(tx) == paid' = [paid EXCEPT ![tx] = "acknowledged"]

EndsUnfinished(tx) == UNCHANGED paid

(* api.ts, send: no answer comes back within REQUEST_TIMEOUT_MS, or one that
   cannot be read, though the server may have accepted the receipt. *)
NoAnswer(tx) ==
    \/ UNCHANGED recorded
    \/ recorded' = recorded \cup {tx}

(* A server of before the idempotent restore answers 409, "already owned", and
   records nothing.  The SDK takes that for a success: it finishes the
   transaction, and resolves the caller with a purchase it makes up. *)
AlreadyOwned(h) ==
    LET e == handler[h]
    IN /\ e # Idle /\ e.pc = "validating"
       /\ kind # "subscription"
       /\ owned' = owned \cup {e.tx}
       /\ handler' = [handler EXCEPT ![h].pc = "finishing"]
       /\ UNCHANGED <<fixed, provider, flow, shown, store, staleRelease, crossed>>

(* It rejects the receipt for another reason, or does not answer: the
   transaction stays for a replay. *)
Refused(h) ==
    LET e == handler[h]
    IN /\ e # Idle /\ e.pc = "validating"
       /\ NoAnswer(e.tx)
       /\ EndsUnfinished(e.tx)
       /\ entry' = Settle(entry, e.entry, "rejected")
       /\ ClearMatched(e.entry) /\ NoteCrossing(e.entry)
       /\ handler' = [handler EXCEPT ![h] = Idle]
       /\ UNCHANGED <<fixed, provider, busy, call, shown, sheet, events, staleRelease, owned>>

(* resolvePurchaseType: the caller's word, or the host's list. *)
FinishedAs(matched) ==
    IF kind = "consumable" /\ (matched # NoCall \/ declared) THEN "consumed" ELSE "acknowledged"

(* finishTransaction settles; when it fails the transaction stays for a replay.
   The caller of a one-time purchase is answered now. *)
Finished(h) ==
    LET e == handler[h]
    IN /\ e # Idle /\ e.pc = "finishing"
       /\ \/ UNCHANGED paid
          \/ paid[e.tx] = "unfinished" /\ paid' = [paid EXCEPT ![e.tx] = FinishedAs(e.entry)]
       /\ entry' = Settle(entry, e.entry, "resolved")
       /\ ClearMatched(e.entry) /\ NoteCrossing(e.entry)
       /\ handler' = [handler EXCEPT ![h] = Idle]
       /\ UNCHANGED <<fixed, provider, busy, call, shown, sheet, events, recorded,
                      staleRelease, owned>>
-----------------------------------------------------------------------------
(* The mount effect. *)

(* initConnection resolves: a generation that is over stops here. *)
Connected(g) ==
    /\ init[g] = "connecting"
    /\ init' = [init EXCEPT ![g] = IF Current(g) THEN "draining" ELSE "done"]
    /\ UNCHANGED <<fixed, gen, mounted, listening, drained, flow, shown, handler, store, history>>

Unpark == [c \in Calls |-> IF At(c, "parked") THEN [call[c] EXCEPT !.pc = "fetching"] ELSE call[c]]

(* releaseDrain. *)
ReleaseDrain == drained' = TRUE /\ call' = Unpark

(* initConnection fails: the generation's own listeners go, and the gate, which
   may be a later generation's by now, is opened. *)
ConnectFails(g) ==
    /\ MayFailInit
    /\ init[g] = "connecting"
    /\ init' = [init EXCEPT ![g] = "done"]
    /\ listening' = (listening /\ g # gen)
    /\ ReleaseDrain
    /\ staleRelease' = (staleRelease \/ g # gen)
    /\ UNCHANGED <<fixed, gen, mounted, busy, slot, entry, shown, handler, store, crossed, owned>>

(* The drain window closes.  It is taken to be long enough for the replays of
   the connection to have been delivered, as DRAIN_WINDOW_MS supposes. *)
DrainTimer(g) ==
    /\ init[g] = "draining"
    /\ Current(g) => \A event \in events : ~event.replay
    /\ init' = [init EXCEPT ![g] = "done"]
    /\ IF Current(g) THEN ReleaseDrain ELSE UNCHANGED <<drained, call>>
    /\ UNCHANGED <<fixed, gen, mounted, listening, busy, slot, entry, shown, handler, store, history>>

(* Mutant of Cleanup: who is parked is forgotten. *)
CleanupSlotOnly ==
    /\ entry' = Settle(entry, slot, "rejected")
    /\ slot' = NoCall
    /\ UNCHANGED <<call, busy>>

(* The effect's cleanup: the registered entry is rejected, and who is parked is
   turned away. *)
Cleanup ==
    /\ entry' = Settle(entry, slot, "rejected")
    /\ slot' = NoCall
    /\ call' = [c \in Calls |->
           IF At(c, "parked") THEN Over ELSE call[c]]
    /\ busy' = (busy /\ \A c \in Calls : ~At(c, "parked"))

(* Mutant of Rearm: the gate is left as the last generation left it. *)
LeaveGate == UNCHANGED drained

Rearm == drained' = FALSE

(* Another user: cleanup, and the effect again.  The new connection replays
   what is unfinished. *)
SwitchUser ==
    /\ mounted /\ gen + 1 \in Gens
    /\ gen' = gen + 1
    /\ Cleanup
    /\ Rearm
    /\ listening' = TRUE
    /\ init' = [init EXCEPT ![gen + 1] = "connecting"]
    /\ events' = events \cup Replays
    /\ UNCHANGED <<fixed, mounted, shown, handler, sheet, paid, recorded, history>>

Unmount ==
    /\ mounted
    /\ mounted' = FALSE /\ listening' = FALSE
    /\ Cleanup
    /\ events' = {}
    /\ UNCHANGED <<fixed, gen, init, drained, shown, handler, sheet, paid, recorded, history>>

Next ==
    \/ \E c \in Calls : Tap(c)
    \/ \E c \in Calls : Fetched(c)
    \/ \E c \in Calls : FetchFails(c)
    \/ \E c \in Calls : RequestReturns(c)
    \/ \E c \in Calls : RequestFails(c)
    \/ \E c \in Calls : Timeout(c)
    \/ \E c \in Calls : EntrySettled(c)
    \/ \E c \in Calls : CleanedUp(c)
    \/ \E c \in Calls : Restore(c)
    \/ \E c \in Calls, tx \in Txs : Restored(c, tx)
    \/ \E g \in Gens : MountReadAnswers(g)
    \/ \E g \in Gens : RefreshAnswers(g)
    \/ \E tx \in Txs : Buy(tx)
    \/ StoreError
    \/ \E h \in Handlers, event \in events : Receive(h, event)
    \/ \E event \in events : ReceiveNothing(event)
    \/ \E h \in Handlers : Accepted(h)
    \/ \E h \in Handlers : AlreadyOwned(h)
    \/ \E h \in Handlers : Refused(h)
    \/ \E h \in Handlers : Finished(h)
    \/ \E g \in Gens : Connected(g)
    \/ \E g \in Gens : ConnectFails(g)
    \/ \E g \in Gens : DrainTimer(g)
    \/ SwitchUser
    \/ Unmount

Spec == Init /\ [][Next]_vars
-----------------------------------------------------------------------------
Waiting(c) == call[c].pc \in {"requesting", "awaiting"} /\ entry[c] = "pending"

Held(c) == \E h \in Handlers : handler[h] # Idle /\ handler[h].entry = c

(* A call whose promise is pending has its entry in the map, where an event, an
   error or its timer finds it, or with the handler of its event.  purchaseFlow.ts
   names what happens otherwise: "its promise unsettled forever and the Provider
   stuck busy". *)
NobodyStranded == \A c \in Calls : Waiting(c) => slot = c \/ Held(c)

(* The same, except for a call whose entry was cleared by the handler of an
   earlier one, which had been rejected in the meantime. *)
StrandedOnlyIfCrossed == \A c \in Calls : Waiting(c) => slot = c \/ Held(c) \/ c \in crossed

(* Who is parked at the drain gate is let on: the gate is still closed, and a
   connection or a drain timer of the current generation will open it.  A call
   parked for good would keep the lock with it. *)
ParkedIsWoken ==
    \A c \in Calls : At(c, "parked") =>
        mounted /\ ~drained /\ init[gen] \in {"connecting", "draining"}

(* A replay of an old transaction never answers a fresh tap ("no sheet,
   immediately restored", purchaseFlow.ts:57). *)
NoReplayAnswers == \A h \in Handlers : handler[h] # Idle /\ handler[h].replay => handler[h].entry = NoCall

(* The same, unless the failed connection of an earlier generation opened the
   drain gate. *)
ReplayAnswersNobody ==
    \A h \in Handlers :
        handler[h] # Idle /\ handler[h].replay /\ handler[h].entry # NoCall => staleRelease

Forgotten(tx) == paid[tx] \in {"acknowledged", "consumed"}

(* The store is told to forget a transaction only when the server has recorded
   it, so that a failure on the way is made good by a replay: "Call
   finishTransaction ONLY after the server returns 2xx" (OneSubProvider.tsx:150). *)
FinishedIsRecorded == \A tx \in Txs : Forgotten(tx) => tx \in recorded

(* The same, except for a one-time purchase that the server took for one that
   is owned already; a subscription is always recorded.  And a declared
   consumable is consumed, whoever's event it was and whatever the answer. *)
FinishedAsAnswered ==
    \A tx \in Txs :
        /\ Forgotten(tx) => tx \in recorded \/ (kind # "subscription" /\ tx \in owned)
        /\ kind = "consumable" /\ declared => paid[tx] # "acknowledged"

(* What an answer writes is about the user who is there when it comes: one
   user's status is never written onto the next. *)
NoForeignWrite == [][shown' # shown => shown' = UserOf[gen]]_vars
=============================================================================
