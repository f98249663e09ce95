-------------------------- MODULE AppleSubscription --------------------------
(***************************************************************************)
(* One App Store subscription (one originalTransactionId) in onesub: the   *)
(* notifications Apple sends about it, the receipts devices post about it, *)
(* and the stored record that both write.                                  *)
(*                                                                         *)
(*   routes/webhook-apple.ts   processAppleNotification (the state-mutating *)
(*                             half of the webhook)                        *)
(*   routes/validate.ts        POST /onesub/validate, platform "apple"     *)
(*   providers/apple.ts        deriveStatus, validateAppleReceipt,         *)
(*                             decodeAppleNotification,                    *)
(*                             fetchAppleSubscriptionStatus                *)
(*   store.ts, stores/*        SubscriptionStore.save: a snapshot older    *)
(*                             than the stored one is refused, atomically  *)
(*                                                                         *)
(* Every request handler is a worker.  A handler reads the record, awaits, *)
(* and writes later, so each await is a step of its own and the handlers   *)
(* interleave there.                                                       *)
(*                                                                         *)
(* Time.  hist is what happened to the subscription at Apple: its t-th     *)
(* element is the state after the t-th event, and t is the signedDate of   *)
(* the notification Apple sent for it, so "now" is Len(hist).  Expiry      *)
(* dates are billing periods, numbered from 1; the paid time of period q   *)
(* is running while q is the current period and has not lapsed.  A new     *)
(* period begins when the previous one has ended.                          *)
(***************************************************************************)
EXTENDS Lifecycle, Sequences, FiniteSets

CONSTANTS
    Workers,          \* concurrent request handlers
    Users,            \* user ids that clients send to /onesub/validate
    Placeholder,      \* the originalTransactionId, used as a fallback userId
    AppAccountToken,  \* appAccountToken of the purchase, or NoToken
    NoToken,
    HasApiCreds,      \* App Store Server API credentials are configured
    RefundPolicy,     \* config.refundPolicy
    LookupMayFail,    \* store lookups of the validate route may fail
    SandboxOverride,  \* users with a "not entitled" sandbox test override
    Events,           \* the event types that happen at Apple
    MaxEvents,        \* bound on Len(hist)
    MaxRefunds        \* bound on the refunds in hist

ASSUME PlaceholderAssumption == Placeholder \notin Users
ASSUME TokenAssumption == AppAccountToken \in Users \cup {NoToken}
ASSUME NoTokenAssumption == NoToken \notin Users
ASSUME ConfigAssumption == /\ HasApiCreds \in BOOLEAN
                           /\ LookupMayFail \in BOOLEAN
                           /\ RefundPolicy \in {"immediate", "until_expiry"}
                           /\ SandboxOverride \subseteq Users
ASSUME BoundAssumption == MaxEvents \in Nat \ {0} /\ MaxRefunds \in Nat

VARIABLES
    hist,     \* the subscription's states at Apple, one per notification
    record,   \* the row of the subscription store
    work,     \* what each handler is doing
    applied   \* times of the notifications whose processing reached the record

vars == <<hist, record, work, applied>>

Owners == Users \cup {Placeholder}

Phase == {"active", "grace", "hold", "expired", "refunded"}

EventType == {"SUBSCRIBED", "DID_RENEW", "DID_FAIL_TO_RENEW.GRACE_PERIOD",
              "DID_FAIL_TO_RENEW", "GRACE_PERIOD_EXPIRED", "EXPIRED", "REFUND",
              "REFUND_REVERSED", "DID_CHANGE_RENEWAL_STATUS"}

(* The state of the subscription at Apple after an event: the current period
   and when it began (purchaseDate), the phase, whether the paid time of the
   current period is over, whether the clock is inside its billing grace
   period, the auto-renew switch, and the revocation date. *)
AppleState == [type : EventType, period : Nat, began : Time, phase : Phase,
               lapsed : BOOLEAN, grace : BOOLEAN, autoRenew : BOOLEAN,
               revokedAt : Time]

(* SubscriptionInfo, as far as the lifecycle tells records apart.  exp and
   grace are the period whose end expiresAt and gracePeriodExpiresAt hold;
   status "none" is "no such record". *)
Record == [status : Status \cup {"none"}, asOf : Time, userId : Owners,
           exp : Nat, willRenew : BOOLEAN, grace : Nat]

NoRecord == [status |-> "none", asOf |-> NoTime, userId |-> Placeholder,
             exp |-> 0, willRenew |-> FALSE, grace |-> 0]

(* A handler: at its store lookup, at the Status API call, or at its save,
   with the snapshot it serves (t), the status that implies and, after the
   lookup, the record it is about to write. *)
Job == [pc : {"idle", "lookup", "fetch", "save"},
        kind : {"webhook", "validate"}, t : Time, user : Owners,
        status : Status \cup {"none"}, sub : Record]

NoJob == [pc |-> "idle", kind |-> "webhook", t |-> 0, user |-> Placeholder,
          status |-> "none", sub |-> NoRecord]

TypeOK ==
    /\ hist \in Seq(AppleState)
    /\ record \in Record
    /\ work \in [Workers -> Job]
    /\ applied \in SUBSET Nat

Init ==
    /\ hist = << >>
    /\ record = NoRecord
    /\ work = [w \in Workers |-> NoJob]
    /\ applied = {}
-----------------------------------------------------------------------------
(* What happens at Apple. *)

Now == hist[Len(hist)]

Happens(state) ==
    /\ state.type \in Events
    /\ Len(hist) < MaxEvents
    /\ hist' = Append(hist, state)
    /\ UNCHANGED <<record, work, applied>>

NewPeriod(type, period) ==
    [type |-> type, period |-> period, began |-> Len(hist) + 1,
     phase |-> "active", lapsed |-> FALSE, grace |-> FALSE, autoRenew |-> TRUE,
     revokedAt |-> NoTime]

FirstPurchase == hist = << >> /\ Happens(NewPeriod("SUBSCRIBED", 1))

Resubscribe ==
    /\ hist # << >>
    /\ Now.phase \in {"expired", "refunded"}
    /\ Happens(NewPeriod("SUBSCRIBED", Now.period + 1))

(* A renewal, or a recovery out of billing retry. *)
Renew ==
    /\ hist # << >>
    /\ \/ Now.phase = "active" /\ Now.autoRenew
       \/ Now.phase \in {"grace", "hold"}
    /\ Happens(NewPeriod("DID_RENEW", Now.period + 1))

FailToRenew ==
    /\ hist # << >>
    /\ Now.phase = "active" /\ Now.autoRenew
    /\ \/ Happens([Now EXCEPT !.type = "DID_FAIL_TO_RENEW.GRACE_PERIOD",
                              !.phase = "grace", !.lapsed = TRUE, !.grace = TRUE])
       \/ Happens([Now EXCEPT !.type = "DID_FAIL_TO_RENEW",
                              !.phase = "hold", !.lapsed = TRUE])

GracePeriodExpired ==
    /\ hist # << >>
    /\ Now.phase = "grace"
    /\ Happens([Now EXCEPT !.type = "GRACE_PERIOD_EXPIRED", !.phase = "hold",
                           !.grace = FALSE])

(* The subscription ends; for a refunded one, the paid or grace time that was
   running at the refund comes to its end. *)
Expire ==
    /\ hist # << >>
    /\ \/ /\ Now.phase \in {"active", "grace", "hold"}
          /\ Happens([Now EXCEPT !.type = "EXPIRED", !.phase = "expired",
                                 !.lapsed = TRUE, !.grace = FALSE])
       \/ /\ Now.phase = "refunded" /\ (~Now.lapsed \/ Now.grace)
          /\ Happens([Now EXCEPT !.type = "EXPIRED", !.lapsed = TRUE, !.grace = FALSE])

Refund ==
    /\ hist # << >>
    /\ Now.phase # "refunded"
    /\ Cardinality({t \in 1..Len(hist) : hist[t].type = "REFUND"}) < MaxRefunds
    /\ Happens([Now EXCEPT !.type = "REFUND", !.phase = "refunded",
                           !.revokedAt = Len(hist) + 1])

ReverseRefund ==
    /\ hist # << >>
    /\ Now.phase = "refunded"
    /\ Happens([Now EXCEPT !.type = "REFUND_REVERSED", !.revokedAt = NoTime,
                           !.phase = IF ~Now.lapsed THEN "active"
                                     ELSE IF Now.grace THEN "grace" ELSE "expired"])

SwitchAutoRenew ==
    /\ hist # << >>
    /\ Happens([Now EXCEPT !.type = "DID_CHANGE_RENEWAL_STATUS",
                           !.autoRenew = ~Now.autoRenew])

AppleNext ==
    \/ FirstPurchase \/ Resubscribe \/ Renew \/ FailToRenew
    \/ GracePeriodExpired \/ Expire \/ Refund \/ ReverseRefund
    \/ SwitchAutoRenew
-----------------------------------------------------------------------------
(* What the wall clock says, and the pure functions of the code. *)

PaidRunning(period) == hist # << >> /\ period = Now.period /\ ~Now.lapsed

GraceRunning(period) == hist # << >> /\ period = Now.period /\ Now.grace

Entitled(rec) ==
    IsSubscriptionEntitled(rec.status, PaidRunning(rec.exp), GraceRunning(rec.grace))

(* deriveStatus of a signed transaction, with or without its renewal info. *)
DeriveStatus(state, withRenewalInfo) ==
    IF state.phase = "refunded" THEN "canceled"
    ELSE IF PaidRunning(state.period) THEN "active"
    ELSE IF withRenewalInfo /\ state.grace /\ GraceRunning(state.period)
         THEN "grace_period"
    ELSE IF withRenewalInfo /\ ~state.autoRenew THEN "canceled"
    ELSE "expired"

(* mapAppleNotificationStatus; a type it does not map keeps the status derived
   when the notification was decoded. *)
FinalStatus(type, derived) ==
    CASE type = "DID_FAIL_TO_RENEW.GRACE_PERIOD" -> "grace_period"
      [] type \in {"DID_FAIL_TO_RENEW", "GRACE_PERIOD_EXPIRED"} -> "on_hold"
      [] type = "REFUND" -> "canceled"
      [] type = "EXPIRED" -> "expired"
      [] type \in {"SUBSCRIBED", "DID_RENEW"} -> "active"
      [] OTHER -> derived

(* The userId the webhook writes over an existing record. *)
CorrectedUserId(existing) ==
    IF AppAccountToken # NoToken /\ existing.userId = Placeholder
    THEN AppAccountToken ELSE existing.userId

(* The record processAppleNotification writes over an existing one. *)
NotificationUpdate(existing, t, status) ==
    LET state == hist[t]
        asOf == LaterStateAsOf(existing.asOf, t)
    IN IF state.type = "REFUND" /\ RefundPolicy = "until_expiry"
       THEN [existing EXCEPT !.userId = CorrectedUserId(existing),
                             !.willRenew = FALSE, !.asOf = asOf, !.grace = 0]
       ELSE [status |-> status, asOf |-> asOf,
             userId |-> CorrectedUserId(existing), exp |-> state.period,
             willRenew |-> state.autoRenew,
             grace |-> IF status = "grace_period" /\ state.grace
                       THEN state.period ELSE 0]

(* The record fetchAppleSubscriptionStatus returns now, with the userId the
   webhook gives it. *)
LiveRecord ==
    [status |-> CASE Now.phase = "active" -> "active"
                  [] Now.phase = "grace" -> "grace_period"
                  [] Now.phase = "hold" -> "on_hold"
                  [] Now.phase = "refunded" -> "canceled"
                  [] Now.phase = "expired" -> "expired",
     asOf |-> Len(hist),
     userId |-> IF AppAccountToken # NoToken THEN AppAccountToken ELSE Placeholder,
     exp |-> Now.period, willRenew |-> Now.autoRenew,
     grace |-> IF Now.phase = "grace" THEN Now.period ELSE 0]

(* The record validateAppleReceipt makes of the transaction as signed at t: a
   receipt is true as of its purchase, or of its revocation. *)
ReceiptRecord(t, derived, user) ==
    [status |-> derived, asOf |-> LaterStateAsOf(hist[t].began, hist[t].revokedAt),
     userId |-> user, exp |-> hist[t].period, willRenew |-> derived = "active",
     grace |-> 0]

(* Mutant of KeepsStoredAppleState: every receipt is applied. *)
KeepsNothing(existing, incoming, user, signedAt) == FALSE

(* keepsStoredAppleState: an older receipt leaves a refund, and a running grace
   period of the same user, as they are stored. *)
KeepsStoredAppleState(existing, incoming, user, signedAt) ==
    /\ existing.status # "none"
    /\ incoming.exp <= existing.exp
    /\ IF existing.status = "canceled" /\ incoming.status # "canceled"
       THEN existing.asOf # NoTime => signedAt <= existing.asOf
       ELSE /\ existing.userId = user
            /\ existing.status = "grace_period"
            /\ Entitled(existing)
            /\ incoming.status # "canceled"
            /\ ~Entitled(incoming)

(* What the validate route takes over from the stored record it keeps. *)
Kept(existing, incoming) ==
    [incoming EXCEPT !.status = existing.status, !.willRenew = existing.willRenew,
                     !.exp = existing.exp, !.grace = existing.grace]

(* Mutant of ValidateUpdate: the stored grace end is copied in any case. *)
ValidateUpdateCarryingGrace(existing, incoming, user, signedAt) ==
    [(IF KeepsStoredAppleState(existing, incoming, user, signedAt)
      THEN Kept(existing, incoming) ELSE incoming)
        EXCEPT !.grace = existing.grace,
               !.asOf = LaterStateAsOf(existing.asOf, incoming.asOf)]

(* The record the validate route writes after a lookup that found existing. *)
ValidateUpdate(existing, incoming, user, signedAt) ==
    [(IF KeepsStoredAppleState(existing, incoming, user, signedAt)
      THEN Kept(existing, incoming) ELSE incoming)
        EXCEPT !.asOf = LaterStateAsOf(existing.asOf, incoming.asOf)]

(* The sandbox test override, applied last. *)
Overridden(sub, user) ==
    IF user \in SandboxOverride
    THEN [sub EXCEPT !.status = "expired", !.willRenew = FALSE] ELSE sub
-----------------------------------------------------------------------------
(* The handlers. *)

Free(w) == work[w].pc = "idle"

(* The gate decoded the notification signed at t and handed it on; Apple and
   the queue may deliver one notification any number of times, in any order. *)
Deliver(w, t) ==
    /\ Free(w)
    /\ t \in 1..Len(hist)
    /\ work' = [work EXCEPT ![w] = [NoJob EXCEPT !.pc = "lookup", !.t = t,
                            !.status = FinalStatus(hist[t].type, DeriveStatus(hist[t], TRUE))]]
    /\ UNCHANGED <<hist, record, applied>>

WebhookAt(w, pc) == work[w].pc = pc /\ work[w].kind = "webhook"

(* The record already reflects newer state: acknowledged without a write. *)
IgnoreStale(w) ==
    /\ WebhookAt(w, "lookup")
    /\ record.status # "none"
    /\ IsStaleSnapshot(record.asOf, work[w].t)
    /\ work' = [work EXCEPT ![w] = NoJob]
    /\ applied' = applied \cup {work[w].t}
    /\ UNCHANGED <<hist, record>>

LookupKnown(w) ==
    /\ WebhookAt(w, "lookup")
    /\ record.status # "none"
    /\ ~IsStaleSnapshot(record.asOf, work[w].t)
    /\ work' = [work EXCEPT ![w].pc = "save",
                            ![w].status = "none",
                            ![w].sub = NotificationUpdate(record, work[w].t, work[w].status)]
    /\ UNCHANGED <<hist, record, applied>>

(* An unknown transaction: ask Apple, or, without credentials, drop it. *)
LookupUnknown(w) ==
    /\ WebhookAt(w, "lookup")
    /\ record.status = "none"
    /\ work' = [work EXCEPT ![w] = IF HasApiCreds
                                   THEN [@ EXCEPT !.pc = "fetch", !.status = "none"]
                                   ELSE NoJob]
    /\ UNCHANGED <<hist, record, applied>>

FetchLive(w) ==
    /\ work[w].pc = "fetch"
    /\ work' = [work EXCEPT ![w].pc = "save", ![w].sub = LiveRecord]
    /\ UNCHANGED <<hist, record, applied>>

(* The Status API returned no record: logged and acknowledged. *)
FetchFails(w) ==
    /\ work[w].pc = "fetch"
    /\ work' = [work EXCEPT ![w] = NoJob]
    /\ UNCHANGED <<hist, record, applied>>

(* Mutant of MayBind: a receipt may be claimed by whoever posts it. *)
AnyoneMayBind(user) == TRUE

(* A receipt whose appAccountToken names another account is answered 409. *)
MayBind(user) == AppAccountToken \in {NoToken, user}

(* A receipt signed at t reaches /onesub/validate for user. *)
PostReceipt(w, user, t) ==
    /\ Free(w)
    /\ t \in 1..Len(hist)
    /\ MayBind(user)
    /\ work' = [work EXCEPT ![w] = [NoJob EXCEPT !.pc = "lookup", !.kind = "validate",
                                       !.t = t, !.user = user,
                                       !.status = DeriveStatus(hist[t], FALSE)]]
    /\ UNCHANGED <<hist, record, applied>>

ValidateAt(w, pc) == work[w].pc = pc /\ work[w].kind = "validate"

ValidateLookup(w) ==
    /\ ValidateAt(w, "lookup")
    /\ LET job == work[w]
           incoming == ReceiptRecord(job.t, job.status, job.user)
       IN work' = [work EXCEPT ![w].pc = "save", ![w].status = "none",
                      ![w].sub = Overridden(ValidateUpdate(record, incoming, job.user, job.t),
                                            job.user)]
    /\ UNCHANGED <<hist, record, applied>>

(* The lookup failed: no guard, and the write carries no snapshot time. *)
ValidateLookupFails(w) ==
    /\ LookupMayFail
    /\ ValidateAt(w, "lookup")
    /\ LET job == work[w]
           incoming == ReceiptRecord(job.t, job.status, job.user)
       IN work' = [work EXCEPT ![w].pc = "save", ![w].status = "none",
                      ![w].sub = Overridden([incoming EXCEPT !.asOf = NoTime], job.user)]
    /\ UNCHANGED <<hist, record, applied>>

(* Mutant of Saved: the store applies every write. *)
SavedUnguarded(existing, sub) == sub

(* SubscriptionStore.save: atomic, and a no-op for a stale snapshot. *)
Saved(existing, sub) ==
    IF IsStaleSnapshot(existing.asOf, sub.asOf) THEN existing ELSE sub

WebhookSave(w) ==
    /\ WebhookAt(w, "save")
    /\ record' = Saved(record, work[w].sub)
    /\ work' = [work EXCEPT ![w] = NoJob]
    /\ applied' = applied \cup {work[w].t}
    /\ UNCHANGED hist

(* The route answers 200 valid:true whatever the store did with the write. *)
ValidateSave(w) ==
    /\ ValidateAt(w, "save")
    /\ record' = Saved(record, work[w].sub)
    /\ work' = [work EXCEPT ![w] = NoJob]
    /\ UNCHANGED <<hist, applied>>

(* A store call throws, or the process dies: nothing was written, and the
   source retries. *)
Throw(w) ==
    /\ ~Free(w)
    /\ work' = [work EXCEPT ![w] = NoJob]
    /\ UNCHANGED <<hist, record, applied>>

HandlerNext(w) ==
    \/ \E t \in 1..MaxEvents : Deliver(w, t)
    \/ \E user \in Users, t \in 1..MaxEvents : PostReceipt(w, user, t)
    \/ IgnoreStale(w) \/ LookupKnown(w) \/ LookupUnknown(w)
    \/ FetchLive(w) \/ FetchFails(w)
    \/ ValidateLookup(w) \/ ValidateLookupFails(w)
    \/ WebhookSave(w) \/ ValidateSave(w)
    \/ Throw(w)

Next == AppleNext \/ \E w \in Workers : HandlerNext(w)

Spec == Init /\ [][Next]_vars
-----------------------------------------------------------------------------
(* Properties. *)

(* What Apple grants at a moment, under the configured refund policy. *)
EntitledAtApple(state) ==
    \/ state.phase \in {"active", "grace"}
    \/ /\ RefundPolicy = "until_expiry"
       /\ state.phase = "refunded" /\ ~state.lapsed

Quiescent == /\ \A w \in Workers : Free(w)
             /\ applied = 1..Len(hist)

(* The stored snapshot is never older than a notification that was processed:
   whatever the order, the repetition and the overlap of deliveries and of
   posted receipts, what was applied is not rolled back (lifecycle.ts, "newest
   snapshot wins"; a validate write after a failed store lookup is the one
   exception, see SnapshotTimeKept). *)
ProcessedIsRemembered ==
    ~LookupMayFail =>
        \A t \in applied : record.status # "none" /\ t <= record.asOf

(* Lost access stays lost: once a notification t has been processed, and Apple
   has granted no access at any moment since t, the record grants none, though
   older notifications and re-posted receipts signed before t keep arriving
   (processAppleNotification's stale check, keepsStoredAppleState, and the
   store's refusal of older snapshots together). *)
LossSticks ==
    ~LookupMayFail =>
        \A t \in applied :
            (\A s \in t..Len(hist) : ~EntitledAtApple(hist[s])) => ~Entitled(record)

(* When every notification has been processed and no receipt is recorded, the
   record says what Apple says: access, paid-through period and renewal,
   whichever order the notifications were applied in.  A receipt may be older
   than they are, so it is not asked of a record that has a client's userId. *)
Converged ==
    Quiescent /\ record.status # "none" /\ record.userId = Placeholder =>
        /\ Entitled(record) <=> EntitledAtApple(Now)
        /\ record.exp = Now.period
        /\ record.willRenew = Now.autoRenew

(* Under refundPolicy until_expiry a refund leaves access to the end of the
   paid period (webhook-apple.ts), once every notification is processed. *)
UntilExpiryKeepsAccess ==
    Quiescent /\ record.status # "none" /\ EntitledAtApple(Now) => Entitled(record)

(* A stored grace end belongs to a record in grace: it is dropped with the
   status, by the webhook, by a refund and by the validate route's merge
   (ARCHITECTURE, "Apple billing grace period"). *)
GraceOnlyInGrace == record.grace # 0 => record.status = "grace_period"

(* The record's snapshot time moves backwards in one case only: a validate
   request whose store lookup failed writes a record without a time, which the
   store never refuses (validate.ts). *)
SnapshotTimeKept ==
    [][record'.asOf < record.asOf
       => \E w \in Workers : ValidateAt(w, "save") /\ work[w].sub.asOf = NoTime]_vars

(* A purchase that carries an appAccountToken is only ever recorded under that
   account: no receipt posted for another user takes it over, and a placeholder
   is replaced by the token, not by somebody else (validate.ts's 409, and the
   webhook's corrected userId). *)
BoundToAccount ==
    AppAccountToken # NoToken /\ record.status # "none"
        => record.userId = AppAccountToken

(* Only the validate route moves a subscription away from a userId that a
   client set. *)
ClientUserIdKept ==
    [][record'.userId # record.userId /\ record.userId \in Users
       => \E w \in Workers : ValidateAt(w, "save") /\ work[w].user = record'.userId]_vars
=============================================================================
