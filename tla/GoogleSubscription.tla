-------------------------- MODULE GoogleSubscription --------------------------
(***************************************************************************)
(* One Google Play subscription (one purchase token) in onesub: the        *)
(* real-time developer notifications (RTDN) about it, the tokens devices   *)
(* post for it, the live reads of the Play Developer API that both make,   *)
(* and the stored record that both write.                                  *)
(*                                                                         *)
(*   routes/webhook-google.ts  processGoogleNotification                   *)
(*   routes/validate.ts        POST /onesub/validate, platform "google"    *)
(*   providers/google.ts       validateGoogleReceiptOrThrow, deriveStatusV2 *)
(*   store.ts, stores/*        SubscriptionStore.save                      *)
(*                                                                         *)
(* Unlike Apple's notifications an RTDN carries no state: the handler asks *)
(* Play, and may be answered later than the moment it stamps on the        *)
(* answer.  Every await is a step of its own.                              *)
(*                                                                         *)
(* Time.  hist is what happened at Play; the event at index t happened,    *)
(* and has the eventTimeMillis, EventTime(t), and ReadTime is what the     *)
(* server's clock shows after it: the two clocks agree.  Expiry times are  *)
(* numbered from 1 in order; those up to a bound have passed, and so has   *)
(* expiry time 0, which Play moves a revoked subscription to.              *)
(***************************************************************************)
EXTENDS Lifecycle, Sequences

CONSTANTS
    Workers,         \* concurrent request handlers
    Users,           \* user ids that clients send to /onesub/validate
    Placeholder,     \* the purchase token, used as a fallback userId
    BoundAccount,    \* obfuscatedExternalAccountId of the purchase, or NoAccount
    LinkedUser,      \* owner of the record of the linked token, or NoAccount
    NoAccount,
    HasKey,          \* a serviceAccountKey is configured
    RefundPolicy,    \* config.refundPolicy
    LookupMayFail,   \* store lookups of the validate route may fail
    Events,          \* the event types that happen at Play
    MaxEvents        \* bound on Len(hist)

ASSUME PlaceholderAssumption == Placeholder \notin Users
ASSUME NoAccountAssumption == NoAccount \notin Users
ASSUME AccountAssumption == {BoundAccount, LinkedUser} \subseteq Users \cup {NoAccount}
ASSUME ConfigAssumption == /\ HasKey \in BOOLEAN
                           /\ LookupMayFail \in BOOLEAN
                           /\ RefundPolicy \in {"immediate", "until_expiry"}
ASSUME BoundAssumption == MaxEvents \in Nat \ {0}

VARIABLES
    hist,     \* the subscription's states at Play, one per notification
    record,   \* the row of the subscription store
    work,     \* what each handler is doing
    applied,  \* indexes of the notifications whose processing reached the record
    doubts    \* history: how the record may have stopped mirroring Play

vars == <<hist, record, work, applied, doubts>>

Owners == Users \cup {Placeholder}

Phase == {"active", "canceled", "grace", "hold", "paused", "expired", "revoked"}

EventType == {"PURCHASED", "RENEWED", "RECOVERED", "RESTARTED", "DEFERRED",
              "PRICE_CHANGE_CONFIRMED", "CANCELED", "IN_GRACE_PERIOD", "ON_HOLD",
              "PAUSED", "EXPIRED", "REVOKED", "VOIDED"}

(* The subscription at Play after an event: its expiry time, the last expiry
   time that has passed, its phase, and the auto-renew switch. *)
PlayState == [type : EventType, exp : Nat, passed : Nat, phase : Phase,
              autoRenew : BOOLEAN]

(* SubscriptionInfo; status "none" is "no such record". *)
Record == [status : Status \cup {"none"}, asOf : Time, userId : Owners,
           exp : Nat, willRenew : BOOLEAN]

NoRecord == [status |-> "none", asOf |-> NoTime, userId |-> Placeholder,
             exp |-> 0, willRenew |-> FALSE]

(* A handler: at its lookup, at its Play read, or at its save; the notification
   it serves (t), the moment stamped on its Play read, and the record it holds:
   the stored one it looked up, the one Play described, or the one to write. *)
Job == [pc : {"idle", "lookup", "read", "save"}, kind : {"rtdn", "voided", "validate"},
        t : Nat, user : Owners, stamp : Time, sub : Record]

NoJob == [pc |-> "idle", kind |-> "rtdn", t |-> 0, user |-> Placeholder,
          stamp |-> NoTime, sub |-> NoRecord]

TypeOK ==
    /\ hist \in Seq(PlayState)
    /\ record \in Record
    /\ work \in [Workers -> Job]
    /\ applied \in SUBSET Nat
    /\ doubts \in SUBSET {"unjudged", "blind"}

Init ==
    /\ hist = << >>
    /\ record = NoRecord
    /\ work = [w \in Workers |-> NoJob]
    /\ applied = {}
    /\ doubts = {}
-----------------------------------------------------------------------------
(* What happens at Play. *)

Now == hist[Len(hist)]

EventTime(t) == 2 * t

ReadTime == 2 * Len(hist) + 1

Happens(state) ==
    /\ state.type \in Events
    /\ Len(hist) < MaxEvents
    /\ hist' = Append(hist, state)
    /\ UNCHANGED <<record, work, applied, doubts>>

In(phases) == hist # << >> /\ Now.phase \in phases

(* A new paid period, when the one before has ended. *)
Period(type, exp) == [type |-> type, exp |-> exp, passed |-> exp - 1,
                      phase |-> "active", autoRenew |-> TRUE]

Purchase == hist = << >> /\ Happens(Period("PURCHASED", 1))

Renew == In({"active", "grace"}) /\ Happens(Period("RENEWED", Now.exp + 1))

Recover == In({"hold", "paused"}) /\ Happens(Period("RECOVERED", Now.exp + 1))

Restart ==
    /\ In({"canceled"})
    /\ Happens([Now EXCEPT !.type = "RESTARTED", !.phase = "active", !.autoRenew = TRUE])

ConfirmPrice == In({"active"}) /\ Happens([Now EXCEPT !.type = "PRICE_CHANGE_CONFIRMED"])

(* The next charge is put off, and the expiry time with it. *)
Defer == In({"active"}) /\ Happens([Now EXCEPT !.type = "DEFERRED", !.exp = @ + 1])

(* The paid period has ended; Play moves the expiry time to the grace end. *)
EnterGrace ==
    /\ In({"active"})
    /\ Happens([Now EXCEPT !.type = "IN_GRACE_PERIOD", !.phase = "grace",
                           !.passed = Now.exp, !.exp = @ + 1])

SwitchOffAutoRenew ==
    /\ In({"active"})
    /\ Happens([Now EXCEPT !.type = "CANCELED", !.phase = "canceled", !.autoRenew = FALSE])

(* Access ends at the expiry time. *)
Ends(type, phase) ==
    Happens([Now EXCEPT !.type = type, !.phase = phase, !.passed = Now.exp])

Hold == In({"active", "grace"}) /\ Ends("ON_HOLD", "hold")

Pause == In({"active"}) /\ Ends("PAUSED", "paused")

Expire == In({"active", "canceled", "grace", "hold", "paused"}) /\ Ends("EXPIRED", "expired")

(* A refund that takes access away at once: Play revokes the subscription, and
   reports the voided purchase as well. *)
Revoke ==
    /\ In({"active", "canceled", "grace", "hold", "paused"})
    /\ Happens([Now EXCEPT !.type = "REVOKED", !.phase = "revoked", !.exp = 0])

Void == In({"revoked"}) /\ Now.type = "REVOKED" /\ Happens([Now EXCEPT !.type = "VOIDED"])

PlayNext ==
    \/ Purchase \/ Renew \/ Recover \/ Restart \/ Defer \/ EnterGrace
    \/ ConfirmPrice \/ SwitchOffAutoRenew \/ Hold \/ Pause \/ Expire
    \/ Revoke \/ Void
-----------------------------------------------------------------------------
(* What the wall clock says, and the pure functions of the code. *)

PaidRunning(exp) == hist # << >> /\ exp > Now.passed

Entitled(rec) == IsSubscriptionEntitled(rec.status, PaidRunning(rec.exp), FALSE)

(* deriveStatusV2, of the subscriptionState Play reports in a phase. *)
DeriveStatusV2(phase) ==
    CASE phase = "active" -> "active"
      [] phase = "canceled" -> "canceled"
      [] phase = "grace" -> "grace_period"
      [] phase = "hold" -> "on_hold"
      [] phase = "paused" -> "paused"
      [] phase \in {"expired", "revoked"} -> "expired"

(* The record validateGoogleReceiptOrThrow makes of Play's answer, for user;
   stamp is the moment taken before the request. *)
LiveRecord(stamp, user) ==
    [status |-> DeriveStatusV2(Now.phase), asOf |-> stamp, userId |-> user,
     exp |-> Now.exp, willRenew |-> Now.autoRenew]

(* The status an RTDN implies; an unknown type keeps the stored one. *)
FinalStatus(type, stored) ==
    CASE type \in {"PURCHASED", "RENEWED", "RECOVERED", "RESTARTED",
                   "PRICE_CHANGE_CONFIRMED"} -> "active"
      [] type = "IN_GRACE_PERIOD" -> "grace_period"
      [] type = "ON_HOLD" -> "on_hold"
      [] type = "PAUSED" -> "paused"
      [] type \in {"CANCELED", "REVOKED"} -> "canceled"
      [] type = "EXPIRED" -> "expired"
      [] OTHER -> stored

(* An RTDN that must not set the status it implies; a revocation always may. *)
StaleFor(existing, t) ==
    hist[t].type # "REVOKED" /\ IsStaleSnapshot(existing.asOf, EventTime(t))

(* The write of an RTDN that Play gave no fresh state for. *)
NotificationOnly(existing, t) ==
    [existing EXCEPT !.status = FinalStatus(hist[t].type, @),
                     !.asOf = LaterStateAsOf(@, EventTime(t))]

(* Mutant of Refreshed: the read time is stamped on a preserved status too. *)
RefreshedStampingRead(existing, t, fresh) ==
    LET preserved == /\ ~StaleFor(existing, t)
                     /\ hist[t].type \in {"IN_GRACE_PERIOD", "ON_HOLD"}
    IN [existing EXCEPT
          !.status = IF preserved THEN FinalStatus(hist[t].type, @) ELSE fresh.status,
          !.exp = fresh.exp,
          !.willRenew = fresh.willRenew,
          !.asOf = LaterStateAsOf(LaterStateAsOf(@, EventTime(t)), fresh.asOf)]

(* The write of an RTDN with fresh state: a grace or hold notification that is
   not stale keeps its status, and then the record is only as current as it. *)
Refreshed(existing, t, fresh) ==
    LET preserved == /\ ~StaleFor(existing, t)
                     /\ hist[t].type \in {"IN_GRACE_PERIOD", "ON_HOLD"}
    IN [existing EXCEPT
          !.status = IF preserved THEN FinalStatus(hist[t].type, @) ELSE fresh.status,
          !.exp = fresh.exp,
          !.willRenew = fresh.willRenew,
          !.asOf = IF preserved THEN LaterStateAsOf(@, EventTime(t))
                   ELSE LaterStateAsOf(LaterStateAsOf(@, EventTime(t)), fresh.asOf)]

(* The owner of a record the webhook creates: that of the linked token's
   record, else the account bound at purchase, else the token itself. *)
FirstOwner == IF LinkedUser # NoAccount THEN LinkedUser
              ELSE IF BoundAccount # NoAccount THEN BoundAccount
              ELSE Placeholder

(* Mutant of VoidedUpdate: the refund's time is not recorded. *)
VoidedUpdateWithoutTime(existing, t) ==
    IF RefundPolicy = "until_expiry"
    THEN [existing EXCEPT !.willRenew = FALSE]
    ELSE [existing EXCEPT !.status = "canceled"]

(* A voided purchase applies whatever its time, and records its time. *)
VoidedUpdate(existing, t) ==
    IF RefundPolicy = "until_expiry"
    THEN [existing EXCEPT !.willRenew = FALSE, !.asOf = LaterStateAsOf(@, EventTime(t))]
    ELSE [existing EXCEPT !.status = "canceled", !.asOf = LaterStateAsOf(@, EventTime(t))]
-----------------------------------------------------------------------------
(* The handlers. *)

Free(w) == work[w].pc = "idle"

At(w, kind, pc) == work[w].kind = kind /\ work[w].pc = pc

Known == record.status # "none"

(* Pub/Sub, or the queue, delivers a notification: any number of times, in any
   order. *)
Deliver(w, t) ==
    /\ Free(w)
    /\ t \in 1..Len(hist)
    /\ work' = [work EXCEPT ![w] = [NoJob EXCEPT !.pc = "lookup", !.t = t,
                   !.kind = IF hist[t].type = "VOIDED" THEN "voided" ELSE "rtdn"]]
    /\ UNCHANGED <<hist, record, applied, doubts>>

(* The record is there: ask Play, or without a key write what the notification
   implies; a stale one that cannot be refreshed is ignored. *)
LookupKnown(w) ==
    /\ At(w, "rtdn", "lookup")
    /\ Known
    /\ LET t == work[w].t
           ignored == ~HasKey /\ StaleFor(record, t)
       IN /\ work' = [work EXCEPT ![w] =
                IF HasKey THEN [@ EXCEPT !.pc = "read", !.stamp = ReadTime, !.sub = record]
                ELSE IF ignored THEN NoJob
                ELSE [@ EXCEPT !.pc = "save", !.sub = NotificationOnly(record, t)]]
          /\ applied' = IF ignored THEN applied \cup {t} ELSE applied
          /\ doubts' = IF HasKey THEN doubts ELSE doubts \cup {"blind"}
    /\ UNCHANGED <<hist, record>>

(* An unknown token: ask Play, or without a key drop the notification. *)
LookupUnknown(w) ==
    /\ At(w, "rtdn", "lookup")
    /\ ~Known
    /\ work' = [work EXCEPT ![w] = IF HasKey
                                   THEN [@ EXCEPT !.pc = "read", !.stamp = ReadTime]
                                   ELSE NoJob]
    /\ UNCHANGED <<hist, record, applied, doubts>>

(* Play answers, with the state it is in when it answers. *)
ReadKnown(w) ==
    /\ At(w, "rtdn", "read")
    /\ work[w].sub.status # "none"
    /\ LET job == work[w]
       IN work' = [work EXCEPT ![w].pc = "save", ![w].stamp = NoTime,
                      ![w].sub = Refreshed(@, job.t, LiveRecord(job.stamp, job.user))]
    /\ UNCHANGED <<hist, record, applied, doubts>>

ReadUnknown(w) ==
    /\ At(w, "rtdn", "read")
    /\ work[w].sub.status = "none"
    /\ work' = [work EXCEPT ![w].pc = "save", ![w].stamp = NoTime,
                            ![w].sub = LiveRecord(work[w].stamp, FirstOwner)]
    /\ UNCHANGED <<hist, record, applied, doubts>>

(* Play is unavailable: a notification that is not stale is applied alone. *)
ReadFails(w) ==
    /\ At(w, "rtdn", "read")
    /\ work[w].sub.status # "none"
    /\ ~StaleFor(work[w].sub, work[w].t)
    /\ work' = [work EXCEPT ![w].pc = "save", ![w].stamp = NoTime,
                            ![w].sub = NotificationOnly(@, work[w].t)]
    /\ doubts' = doubts \cup {"blind"}
    /\ UNCHANGED <<hist, record, applied>>

(* Play refuses the credentials or the token: a stale notification is ignored,
   one for an unknown token is dropped. *)
ReadRefused(w) ==
    /\ At(w, "rtdn", "read")
    /\ work[w].sub.status = "none" \/ StaleFor(work[w].sub, work[w].t)
    /\ work' = [work EXCEPT ![w] = NoJob]
    /\ applied' = IF work[w].sub.status = "none" THEN applied ELSE applied \cup {work[w].t}
    /\ UNCHANGED <<hist, record, doubts>>

(* A voided purchase: no read, no stale check; unknown tokens are dropped. *)
LookupVoided(w) ==
    /\ At(w, "voided", "lookup")
    /\ work' = [work EXCEPT ![w] =
                  IF Known THEN [@ EXCEPT !.pc = "save", !.sub = VoidedUpdate(record, work[w].t)]
                  ELSE NoJob]
    /\ UNCHANGED <<hist, record, applied, doubts>>

(* A token reaches /onesub/validate for user; the route asks Play first. *)
PostToken(w, user) ==
    /\ Free(w)
    /\ hist # << >>
    /\ HasKey
    /\ work' = [work EXCEPT ![w] = [NoJob EXCEPT !.pc = "read", !.kind = "validate",
                                                 !.user = user, !.stamp = ReadTime]]
    /\ UNCHANGED <<hist, record, applied, doubts>>

(* Mutant of MayBind: a token may be claimed by whoever posts it. *)
AnyoneMayBind(user) == TRUE

(* A purchase bound to another account is answered 409. *)
MayBind(user) == BoundAccount \in {NoAccount, user}

ReadForValidate(w) ==
    /\ At(w, "validate", "read")
    /\ LET job == work[w]
       IN work' = [work EXCEPT ![w] =
             IF MayBind(job.user)
             THEN [job EXCEPT !.pc = "lookup", !.sub = LiveRecord(job.stamp, job.user)]
             ELSE NoJob]
    /\ UNCHANGED <<hist, record, applied, doubts>>

(* The write takes the later of its own time and the stored one's. *)
ValidateLookup(w) ==
    /\ At(w, "validate", "lookup")
    /\ work' = [work EXCEPT ![w].pc = "save",
                            ![w].sub.asOf = LaterStateAsOf(record.asOf, @)]
    /\ UNCHANGED <<hist, record, applied, doubts>>

(* The lookup failed: the write carries no time. *)
ValidateLookupFails(w) ==
    /\ LookupMayFail
    /\ At(w, "validate", "lookup")
    /\ work' = [work EXCEPT ![w].pc = "save", ![w].sub.asOf = NoTime]
    /\ UNCHANGED <<hist, record, applied, doubts>>

(* Mutant of Saved: the store applies every write. *)
SavedUnguarded(existing, sub) == sub

(* SubscriptionStore.save: atomic, and a no-op for a stale snapshot. *)
Saved(existing, sub) ==
    IF IsStaleSnapshot(existing.asOf, sub.asOf) THEN existing ELSE sub

WebhookSave(w) ==
    /\ work[w].kind # "validate" /\ work[w].pc = "save"
    /\ record' = Saved(record, work[w].sub)
    /\ work' = [work EXCEPT ![w] = NoJob]
    /\ applied' = applied \cup {work[w].t}
    /\ UNCHANGED <<hist, doubts>>

(* A write the store's guard cannot judge is remembered in doubts: its Play
   read is older than the record though its time is not, or it has no time. *)
ValidateSave(w) ==
    /\ At(w, "validate", "save")
    /\ record' = Saved(record, work[w].sub)
    /\ doubts' = IF work[w].stamp < record.asOf \/ work[w].sub.asOf = NoTime
                 THEN doubts \cup {"unjudged"} ELSE doubts
    /\ work' = [work EXCEPT ![w] = NoJob]
    /\ UNCHANGED <<hist, applied>>

(* A store call throws, Play is down for a read that cannot do without it, or
   the process dies: nothing was written, and the source retries. *)
Throw(w) ==
    /\ ~Free(w)
    /\ work' = [work EXCEPT ![w] = NoJob]
    /\ UNCHANGED <<hist, record, applied, doubts>>

HandlerNext(w) ==
    \/ \E t \in 1..MaxEvents : Deliver(w, t)
    \/ \E user \in Users : PostToken(w, user)
    \/ LookupKnown(w) \/ LookupUnknown(w) \/ LookupVoided(w)
    \/ ReadKnown(w) \/ ReadUnknown(w) \/ ReadFails(w) \/ ReadRefused(w)
    \/ ReadForValidate(w) \/ ValidateLookup(w) \/ ValidateLookupFails(w)
    \/ WebhookSave(w) \/ ValidateSave(w)
    \/ Throw(w)

Next == PlayNext \/ \E w \in Workers : HandlerNext(w)

Spec == Init /\ [][Next]_vars
-----------------------------------------------------------------------------
(* Properties. *)

(* The phases in which a subscription gives access beyond question.  Canceled
   is not among them, nor is it a loss of access: see PaidTimeGrants. *)
Granting == {"active", "grace"}

Quiescent == /\ \A w \in Workers : Free(w)
             /\ applied = 1..Len(hist)

Refunds == {t \in applied : hist[t].type \in {"REVOKED", "VOIDED"}}

(* When every notification has been processed with fresh state from Play, the
   record mirrors Play, whatever the order and overlap of deliveries, and
   though grace and hold are taken from notifications (webhook-google.ts).  What
   access a canceled subscription gives is left open here. *)
Converged ==
    Quiescent /\ doubts = {} /\ Known =>
        /\ Now.phase # "canceled" => (Entitled(record) <=> Now.phase \in Granting)
        /\ Entitled(record) => record.willRenew = Now.autoRenew

(* A subscriber who has switched auto-renew off keeps the time paid for: the
   repository reserves the status without access, canceled, for subscriptions
   the store refunded or revoked (shared/src/types.ts:18, README.md:145).
   deriveStatusV2 gives it to Play's CANCELED state as well. *)
PaidTimeGrants ==
    Quiescent /\ doubts = {} /\ Known /\ In({"canceled"}) => Entitled(record)

(* Once a revocation or a voided purchase has been processed, no access comes
   back: "a refund is final" (webhook-google.ts). *)
RefundSticks == RefundPolicy = "immediate" /\ Refunds # {} => ~Entitled(record)

(* The same for notifications alone, with Play up or down: late, repeated and
   overlapping RTDNs never revive a refunded subscription. *)
RtdnNeverRevives == "unjudged" \notin doubts => RefundSticks

(* What a processed notification recorded is never rolled back: the record's
   time covers it, until a validate write without a time (validate.ts). *)
ProcessedIsRemembered ==
    "unjudged" \notin doubts => \A t \in applied : Known /\ EventTime(t) <= record.asOf

(* A purchase bound to an account is recorded under that account, or under the
   owner of the token it replaced (validate.ts's 409, and the webhook's choice
   of an owner for a token it sees first). *)
BoundToAccount ==
    BoundAccount # NoAccount /\ Known => record.userId \in {BoundAccount, LinkedUser}
=============================================================================
