----------------------- MODULE AppleSubscriptionProofs -----------------------
(***************************************************************************)
(* Theorems about AppleSubscription, for every set of handlers and users,  *)
(* every history length, both refund policies, with or without an          *)
(* appAccountToken.                                                        *)
(*                                                                         *)
(* IInv is the inductive invariant.  Its parts:                            *)
(*   TypeInv        the types, and a busy handler serves a notification or *)
(*                  a receipt that exists                                  *)
(*   HistoryDated   periods began at a moment of the history               *)
(*   JobSound       what a handler is about to save is a sound record, no  *)
(*                  older than the notification it applies                 *)
(*   RecordInv      the stored record is sound, and not older than any     *)
(*                  notification that was processed                        *)
(* FInv, further down, is inductive beside it: what the history at Apple   *)
(* can look like (HistorySound), and what every snapshot, stored or about  *)
(* to be, says of the moment it was taken at (SnapshotsSound).             *)
(***************************************************************************)
EXTENDS AppleSubscription, FiniteSetTheorems, TLAPS

JobTimes == \A w \in Workers : ~Free(w) => work[w].t \in 1..Len(hist)

TypeInv == TypeOK /\ JobTimes

HistoryDated == \A t \in 1..Len(hist) : hist[t].began \in 1..Len(hist)

(* What every record keeps to, the stored one and those about to be saved. *)
RecordSound(rec) ==
    /\ rec.status # "none"
    /\ AppAccountToken # NoToken => rec.userId = AppAccountToken
    /\ SandboxOverride = {} /\ rec.grace # 0 => rec.status = "grace_period"

JobSound(job) ==
    /\ job.pc = "fetch" => job.kind = "webhook"
    /\ job.pc = "lookup" => job.status \in Status
    /\ job.pc = "lookup" /\ job.kind = "validate" => MayBind(job.user)
    /\ job.pc = "save" =>
         /\ RecordSound(job.sub)
         /\ job.kind = "webhook" => job.t <= job.sub.asOf
         /\ job.kind = "validate" /\ ~LookupMayFail => job.sub.asOf # NoTime

JobsSound == \A w \in Workers : JobSound(work[w])

RecordInv ==
    /\ IF record.status = "none" THEN record.asOf = NoTime /\ record.grace = 0
                                 ELSE RecordSound(record)
    /\ ProcessedIsRemembered

IInv == TypeInv /\ HistoryDated /\ JobsSound /\ RecordInv
-----------------------------------------------------------------------------
(* Types of the pure functions. *)

LEMMA DeriveStatusType ==
    ASSUME NEW state, NEW withRenewalInfo
    PROVE  DeriveStatus(state, withRenewalInfo) \in Status
  BY DEF DeriveStatus, Status

LEMMA FinalStatusType ==
    ASSUME NEW type, NEW derived \in Status
    PROVE  FinalStatus(type, derived) \in Status
  BY DEF FinalStatus, Status

LEMMA SavedType ==
    ASSUME NEW existing \in Record, NEW sub \in Record
    PROVE  Saved(existing, sub) \in Record
  BY DEF Saved

LEMMA NotificationUpdateType ==
    ASSUME hist \in Seq(AppleState), NEW existing \in Record,
           NEW t \in 1..Len(hist), NEW status \in Status \cup {"none"}
    PROVE  NotificationUpdate(existing, t, status) \in Record
  <1>1. hist[t] \in AppleState
    OBVIOUS
  <1>2. LaterStateAsOf(existing.asOf, t) \in Nat
    BY DEF LaterStateAsOf, Record, Time
  <1>3. CorrectedUserId(existing) \in Owners
    BY TokenAssumption DEF CorrectedUserId, Record, Owners
  <1>4. /\ hist[t].period \in Nat
        /\ hist[t].autoRenew \in BOOLEAN
    BY <1>1 DEF AppleState
  <1>5. CASE hist[t].type = "REFUND" /\ RefundPolicy = "until_expiry"
    BY <1>2, <1>3, <1>5 DEF NotificationUpdate, Record, Time
  <1>6. CASE ~(hist[t].type = "REFUND" /\ RefundPolicy = "until_expiry")
    BY <1>2, <1>3, <1>4, <1>6 DEF NotificationUpdate, Record, Time
  <1> QED
    BY <1>5, <1>6

LEMMA LiveRecordType ==
    ASSUME hist \in Seq(AppleState), hist # << >>
    PROVE  LiveRecord \in Record
  <1>1. Len(hist) \in Nat /\ Now \in AppleState
    BY DEF Now
  <1>2. Now.phase \in Phase /\ Now.period \in Nat /\ Now.autoRenew \in BOOLEAN
    BY <1>1 DEF AppleState
  <1> QED
    BY <1>1, <1>2, TokenAssumption DEF LiveRecord, Record, Time, Phase, Status, Owners

LEMMA ReceiptRecordType ==
    ASSUME hist \in Seq(AppleState), NEW t \in 1..Len(hist),
           NEW derived \in Status \cup {"none"}, NEW user \in Owners
    PROVE  ReceiptRecord(t, derived, user) \in Record
  <1>1. hist[t] \in AppleState
    OBVIOUS
  <1>2. hist[t].began \in Nat /\ hist[t].revokedAt \in Nat /\ hist[t].period \in Nat
    BY <1>1 DEF AppleState, Time
  <1> QED
    BY <1>2 DEF ReceiptRecord, Record, Time, LaterStateAsOf

LEMMA ValidateUpdateType ==
    ASSUME NEW existing \in Record, NEW incoming \in Record, NEW user, NEW signedAt
    PROVE  ValidateUpdate(existing, incoming, user, signedAt) \in Record
  <1>1. LaterStateAsOf(existing.asOf, incoming.asOf) \in Time
    BY DEF LaterStateAsOf, Record
  <1>2. Kept(existing, incoming) \in Record
    BY DEF Kept, Record
  <1> QED
    BY <1>1, <1>2 DEF ValidateUpdate, Record

LEMMA OverriddenType ==
    ASSUME NEW sub \in Record, NEW user
    PROVE  Overridden(sub, user) \in Record
  BY DEF Overridden, Record, Status
-----------------------------------------------------------------------------
(* Type correctness, with the serial numbers of the work in hand. *)

LEMMA InitTypeInv == Init => TypeInv
  BY TokenAssumption DEF Init, TypeInv, TypeOK, JobTimes, Free, NoJob, NoRecord, Job,
     Record, Owners, Time, NoTime

LEMMA NewPeriodType ==
    ASSUME hist \in Seq(AppleState), NEW type \in EventType, NEW period \in Nat
    PROVE  NewPeriod(type, period) \in AppleState /\ NewPeriod(type, period).began = Len(hist) + 1
  BY DEF NewPeriod, AppleState, Phase, Time, NoTime

LEMMA NowType ==
    ASSUME hist \in Seq(AppleState), hist # << >>
    PROVE  /\ Now \in AppleState
           /\ Len(hist) \in 1..Len(hist)
           /\ Now.period + 1 \in Nat
  <1>1. Len(hist) \in Nat /\ Len(hist) # 0
    OBVIOUS
  <1>2. hist[Len(hist)] \in AppleState
    BY <1>1
  <1>3. Now \in AppleState
    BY <1>2 DEF Now
  <1>4. Now.period \in Nat
    BY <1>3 DEF AppleState
  <1> QED
    BY <1>1, <1>3, <1>4

(* What happens at Apple appends one well-typed state, whose period begins now
   or began when the last one's did. *)
NewState(state) ==
    /\ state \in AppleState
    /\ Happens(state)
    /\ \/ state.began = Len(hist) + 1
       \/ hist # << >> /\ state.began = Now.began

LEMMA AppleNextHappens ==
    ASSUME TypeInv, AppleNext
    PROVE  \E state : NewState(state)
  <1>0. hist \in Seq(AppleState)
    BY DEF TypeInv, TypeOK
  <1>1. CASE FirstPurchase \/ Resubscribe \/ Renew
    <2>1. PICK type \in EventType, period \in Nat : Happens(NewPeriod(type, period))
      BY <1>0, <1>1, NowType DEF FirstPurchase, Resubscribe, Renew, EventType
    <2> QED
      BY <1>0, <2>1, NewPeriodType DEF NewState
  <1>2. CASE ~(FirstPurchase \/ Resubscribe \/ Renew)
    <2>0. hist # << >>
      BY <1>2 DEF AppleNext, FailToRenew, GracePeriodExpired, Expire, Refund, ReverseRefund,
         SwitchAutoRenew
    <2>a. Now \in AppleState /\ Len(hist) + 1 \in Time
      BY <1>0, <2>0, NowType DEF Time
    <2>1. ASSUME NEW state \in AppleState, Happens(state), state.began = Now.began
          PROVE  NewState(state)
      BY <2>0, <2>1 DEF NewState
    <2>2. CASE FailToRenew
      <3>1. /\ [Now EXCEPT !.type = "DID_FAIL_TO_RENEW.GRACE_PERIOD", !.phase = "grace",
                           !.lapsed = TRUE, !.grace = TRUE] \in AppleState
            /\ [Now EXCEPT !.type = "DID_FAIL_TO_RENEW", !.phase = "hold",
                           !.lapsed = TRUE] \in AppleState
        BY <2>a DEF AppleState, EventType, Phase
      <3> QED
        BY <2>a, <2>1, <2>2, <3>1 DEF FailToRenew, AppleState
    <2>3. CASE GracePeriodExpired
      <3>1. [Now EXCEPT !.type = "GRACE_PERIOD_EXPIRED", !.phase = "hold",
                        !.grace = FALSE] \in AppleState
        BY <2>a DEF AppleState, EventType, Phase
      <3> QED
        BY <2>a, <2>1, <2>3, <3>1 DEF GracePeriodExpired, AppleState
    <2>4. CASE Expire
      <3>1. /\ [Now EXCEPT !.type = "EXPIRED", !.phase = "expired", !.lapsed = TRUE,
                           !.grace = FALSE] \in AppleState
            /\ [Now EXCEPT !.type = "EXPIRED", !.lapsed = TRUE,
                           !.grace = FALSE] \in AppleState
        BY <2>a DEF AppleState, EventType, Phase
      <3> QED
        BY <2>a, <2>1, <2>4, <3>1 DEF Expire, AppleState
    <2>5. CASE Refund
      <3>1. [Now EXCEPT !.type = "REFUND", !.phase = "refunded",
                        !.revokedAt = Len(hist) + 1] \in AppleState
        BY <2>a DEF AppleState, EventType, Phase
      <3> QED
        BY <2>a, <2>1, <2>5, <3>1 DEF Refund, AppleState
    <2>6. CASE ReverseRefund
      <3> DEFINE phase == IF ~Now.lapsed THEN "active"
                          ELSE IF Now.grace THEN "grace" ELSE "expired"
      <3>1. [Now EXCEPT !.type = "REFUND_REVERSED", !.revokedAt = NoTime,
                        !.phase = phase] \in AppleState
        BY <2>a DEF AppleState, EventType, Phase, Time, NoTime
      <3> QED
        BY <2>a, <2>1, <2>6, <3>1 DEF ReverseRefund, AppleState
    <2>7. CASE SwitchAutoRenew
      <3>1. [Now EXCEPT !.type = "DID_CHANGE_RENEWAL_STATUS",
                        !.autoRenew = ~Now.autoRenew] \in AppleState
        BY <2>a DEF AppleState, EventType
      <3> QED
        BY <2>a, <2>1, <2>7, <3>1 DEF SwitchAutoRenew, AppleState
    <2> QED
      BY <1>2, <2>2, <2>3, <2>4, <2>5, <2>6, <2>7 DEF AppleNext
  <1> QED
    BY <1>1, <1>2

LEMMA AppleNextTypeInv ==
    ASSUME TypeInv, AppleNext
    PROVE  TypeInv'
  <1>1. PICK state : NewState(state)
    BY AppleNextHappens
  <1> QED
    BY <1>1 DEF NewState, TypeInv, TypeOK, JobTimes, Free, Happens

LEMMA NoJobType == NoJob \in Job /\ NoRecord \in Record
  BY DEF NoJob, NoRecord, Job, Record, Owners, Status, Time, NoTime

(* A handler's step changes its own entry of work, and perhaps the record. *)
LEMMA WorkTypeInv ==
    ASSUME TypeInv, NEW w \in Workers, NEW job \in Job,
           job.pc # "idle" => job.t \in 1..Len(hist),
           work' = [work EXCEPT ![w] = job], hist' = hist,
           record' \in Record, applied' \in SUBSET Nat
    PROVE  TypeInv'
  BY DEF TypeInv, TypeOK, JobTimes, Free

LEMMA HandlerNextTypeInv ==
    ASSUME TypeInv, NEW w \in Workers, HandlerNext(w)
    PROVE  TypeInv'
  <1> USE NoJobType
  <1>0. /\ hist \in Seq(AppleState)
        /\ Len(hist) \in Nat
        /\ record \in Record
        /\ applied \in SUBSET Nat
        /\ work \in [Workers -> Job]
        /\ work[w] \in Job
        /\ ~Free(w) => work[w].t \in 1..Len(hist)
    BY DEF TypeInv, TypeOK, JobTimes
  <1>a. /\ work[w].t \in Nat
        /\ work[w].user \in Owners
        /\ work[w].status \in Status \cup {"none"}
        /\ work[w].sub \in Record
    BY <1>0 DEF Job, Time
  <1>1. ASSUME NEW t \in 1..MaxEvents, Deliver(w, t)
        PROVE  TypeInv'
    <2> DEFINE status == FinalStatus(hist[t].type, DeriveStatus(hist[t], TRUE))
               job == [NoJob EXCEPT !.pc = "lookup", !.t = t, !.status = status]
    <2>1. status \in Status
      BY DeriveStatusType, FinalStatusType
    <2>2. t \in 1..Len(hist)
      BY <1>1 DEF Deliver
    <2>3. t \in Time
      BY <2>2, <1>0 DEF Time
    <2>4. job \in Job /\ job.t = t
      BY <2>1, <2>3 DEF Job, NoJob
    <2> QED
      BY <1>0, <1>1, <2>2, <2>4, WorkTypeInv DEF Deliver
  <1>2. ASSUME NEW user \in Users, NEW t \in 1..MaxEvents, PostReceipt(w, user, t)
        PROVE  TypeInv'
    <2> DEFINE status == DeriveStatus(hist[t], FALSE)
               job == [NoJob EXCEPT !.pc = "lookup", !.kind = "validate", !.t = t,
                                    !.user = user, !.status = status]
    <2>1. status \in Status
      BY DeriveStatusType
    <2>2. t \in 1..Len(hist)
      BY <1>2 DEF PostReceipt
    <2>3. t \in Time /\ user \in Owners
      BY <2>2, <1>0 DEF Time, Owners
    <2>4. job \in Job /\ job.t = t
      BY <2>1, <2>3 DEF Job, NoJob
    <2> QED
      BY <1>0, <1>2, <2>2, <2>4, WorkTypeInv DEF PostReceipt
  <1>3. ASSUME work' = [work EXCEPT ![w] = NoJob], hist' = hist,
               record' \in Record, applied' \in SUBSET Nat
        PROVE  TypeInv'
    <2>1. NoJob.pc = "idle"
      BY DEF NoJob
    <2> QED
      BY <1>3, <2>1, WorkTypeInv
  <1>4. CASE IgnoreStale(w)
    BY <1>0, <1>3, <1>4, <1>a DEF IgnoreStale
  <1>5. CASE LookupKnown(w)
    <2> DEFINE sub == NotificationUpdate(record, work[w].t, work[w].status)
               job == [work[w] EXCEPT !.pc = "save", !.status = "none", !.sub = sub]
    <2>1. sub \in Record
      BY <1>0, <1>5, <1>a, NotificationUpdateType DEF LookupKnown, WebhookAt, Free
    <2>2. job \in Job /\ job.t = work[w].t
      BY <1>0, <2>1 DEF Job
    <2>3. work' = [work EXCEPT ![w] = job]
      BY <1>0, <1>5 DEF LookupKnown
    <2> QED
      BY <1>0, <1>5, <2>2, <2>3, WorkTypeInv DEF LookupKnown, WebhookAt, Free
  <1>6. CASE LookupUnknown(w)
    <2> DEFINE job == [work[w] EXCEPT !.pc = "fetch", !.status = "none"]
    <2>1. job \in Job /\ job.t = work[w].t
      BY <1>0 DEF Job
    <2>2. CASE HasApiCreds
      <3>1. work' = [work EXCEPT ![w] = job]
        BY <1>0, <1>6, <2>2 DEF LookupUnknown
      <3> QED
        BY <1>0, <1>6, <2>1, <3>1, WorkTypeInv DEF LookupUnknown, WebhookAt, Free
    <2>3. CASE ~HasApiCreds
      BY <1>0, <1>3, <1>6, <2>3 DEF LookupUnknown
    <2> QED
      BY <2>2, <2>3
  <1>7. CASE FetchLive(w)
    <2> DEFINE job == [work[w] EXCEPT !.pc = "save", !.sub = LiveRecord]
    <2>1. hist # << >>
      BY <1>0, <1>7 DEF FetchLive, Free
    <2>2. LiveRecord \in Record
      BY <1>0, <2>1, LiveRecordType
    <2>3. job \in Job /\ job.t = work[w].t
      BY <1>0, <2>2 DEF Job
    <2>4. work' = [work EXCEPT ![w] = job]
      BY <1>0, <1>7 DEF FetchLive
    <2> QED
      BY <1>0, <1>7, <2>3, <2>4, WorkTypeInv DEF FetchLive, Free
  <1>8. CASE FetchFails(w)
    BY <1>0, <1>3, <1>8 DEF FetchFails
  <1>9. CASE ValidateLookup(w) \/ ValidateLookupFails(w)
    <2> DEFINE incoming == ReceiptRecord(work[w].t, work[w].status, work[w].user)
    <2>1. /\ ~Free(w)
          /\ UNCHANGED <<hist, record, applied>>
          /\ \E sub \in Record : work' = [work EXCEPT ![w] =
                  [work[w] EXCEPT !.pc = "save", !.status = "none", !.sub = sub]]
      <3>1. incoming \in Record
        BY <1>0, <1>9, <1>a, ReceiptRecordType DEF ValidateLookup, ValidateLookupFails, ValidateAt, Free
      <3>2. [incoming EXCEPT !.asOf = NoTime] \in Record
        BY <3>1 DEF Record, Time, NoTime
      <3>3. CASE ValidateLookup(w)
        <4> DEFINE updated == ValidateUpdate(record, incoming, work[w].user, work[w].t)
        <4>1. Overridden(updated, work[w].user) \in Record
          BY <1>0, <3>1, ValidateUpdateType, OverriddenType
        <4> QED
          BY <1>0, <3>3, <4>1 DEF ValidateLookup, ValidateAt, Free
      <3>4. CASE ValidateLookupFails(w)
        <4>1. Overridden([incoming EXCEPT !.asOf = NoTime], work[w].user) \in Record
          BY <3>2, OverriddenType
        <4> QED
          BY <1>0, <3>4, <4>1 DEF ValidateLookupFails, ValidateAt, Free
      <3> QED
        BY <1>9, <3>3, <3>4
    <2>2. PICK sub \in Record : work' = [work EXCEPT ![w] =
                  [work[w] EXCEPT !.pc = "save", !.status = "none", !.sub = sub]]
      BY <2>1
    <2> DEFINE job == [work[w] EXCEPT !.pc = "save", !.status = "none", !.sub = sub]
    <2>3. job \in Job /\ job.t = work[w].t
      BY <1>0 DEF Job
    <2> QED
      BY <1>0, <2>1, <2>2, <2>3, WorkTypeInv
  <1>10. CASE WebhookSave(w)
    BY <1>0, <1>3, <1>10, <1>a, SavedType DEF WebhookSave
  <1>11. CASE ValidateSave(w)
    BY <1>0, <1>3, <1>11, <1>a, SavedType DEF ValidateSave
  <1>12. CASE Throw(w)
    BY <1>0, <1>3, <1>12 DEF Throw
  <1> QED
    BY <1>1, <1>2, <1>4, <1>5, <1>6, <1>7, <1>8, <1>9, <1>10, <1>11, <1>12 DEF HandlerNext

LEMMA NextTypeInv == TypeInv /\ [Next]_vars => TypeInv'
  <1> SUFFICES ASSUME TypeInv, [Next]_vars PROVE TypeInv'
    OBVIOUS
  <1>1. CASE AppleNext
    BY <1>1, AppleNextTypeInv
  <1>2. CASE \E w \in Workers : HandlerNext(w)
    BY <1>2, HandlerNextTypeInv
  <1>3. CASE UNCHANGED vars
    BY <1>3 DEF vars, TypeInv, TypeOK, JobTimes, Free
  <1> QED
    BY <1>1, <1>2, <1>3 DEF Next

(* The state stays well typed (AppleAccount.cfg), and a busy handler serves a
   notification or a receipt of the subscription's history. *)
THEOREM TypeCorrect == Spec => []TypeOK /\ []JobTimes
  <1>1. TypeInv => TypeOK /\ JobTimes
    BY DEF TypeInv
  <1> QED
    BY <1>1, InitTypeInv, NextTypeInv, PTL DEF Spec
-----------------------------------------------------------------------------
(* The dates of the history. *)

LEMMA AppleNextDated ==
    ASSUME TypeInv, HistoryDated, AppleNext
    PROVE  HistoryDated'
  <1>0. hist \in Seq(AppleState) /\ Len(hist) \in Nat
    BY DEF TypeInv, TypeOK
  <1>1. PICK state : NewState(state)
    BY AppleNextHappens
  <1>2. hist' = Append(hist, state) /\ Len(hist') = Len(hist) + 1
    BY <1>0, <1>1 DEF NewState, Happens
  <1>3. state.began \in 1..(Len(hist) + 1)
    <2>1. CASE state.began = Len(hist) + 1
      BY <1>0, <2>1
    <2>2. CASE hist # << >> /\ state.began = Now.began
      BY <1>0, <2>2, NowType DEF HistoryDated, Now
    <2> QED
      BY <1>1, <2>1, <2>2 DEF NewState
  <1>4. ASSUME NEW t \in 1..Len(hist')
        PROVE  hist'[t].began \in 1..Len(hist')
    <2>1. CASE t \in 1..Len(hist)
      BY <1>0, <1>2, <2>1 DEF HistoryDated
    <2>2. CASE t = Len(hist) + 1
      BY <1>0, <1>1, <1>2, <1>3, <2>2 DEF NewState
    <2> QED
      BY <1>0, <1>2, <2>1, <2>2
  <1> QED
    BY <1>4 DEF HistoryDated
-----------------------------------------------------------------------------
(* The records the handlers write are sound. *)

LEMMA NotificationSound ==
    ASSUME TypeInv, NEW t \in 1..Len(hist), NEW status \in Status, RecordSound(record)
    PROVE  LET sub == NotificationUpdate(record, t, status)
           IN  RecordSound(sub) /\ t <= sub.asOf
  <1>0. /\ record \in Record
        /\ hist[t] \in AppleState
        /\ t \in Nat /\ record.asOf \in Nat
    BY DEF TypeInv, TypeOK, Record, Time
  <1>1. LaterStateAsOf(record.asOf, t) >= t
    BY <1>0 DEF LaterStateAsOf
  <1>2. AppAccountToken # NoToken => CorrectedUserId(record) = AppAccountToken
    BY DEF RecordSound, CorrectedUserId
  <1>3. CASE hist[t].type = "REFUND" /\ RefundPolicy = "until_expiry"
    BY <1>0, <1>1, <1>2, <1>3 DEF NotificationUpdate, RecordSound, Record
  <1>4. CASE ~(hist[t].type = "REFUND" /\ RefundPolicy = "until_expiry")
    BY <1>1, <1>2, <1>4 DEF NotificationUpdate, RecordSound, Status
  <1> QED
    BY <1>3, <1>4

LEMMA LiveSound ==
    ASSUME TypeInv, hist # << >>
    PROVE  RecordSound(LiveRecord) /\ LiveRecord.asOf = Len(hist)
  <1>1. Now.phase \in Phase
    BY NowType DEF TypeInv, TypeOK, AppleState
  <1> QED
    BY <1>1 DEF LiveRecord, RecordSound, Phase

LEMMA ReceiptSound ==
    ASSUME TypeInv, HistoryDated, NEW t \in 1..Len(hist), NEW status \in Status,
           NEW user \in Owners, MayBind(user)
    PROVE  LET receipt == ReceiptRecord(t, status, user)
           IN  receipt \in Record /\ RecordSound(receipt) /\ receipt.asOf # NoTime
  <1>0. hist[t] \in AppleState /\ hist[t].began \in 1..Len(hist)
    BY DEF TypeInv, TypeOK, HistoryDated
  <1>1. hist[t].revokedAt \in Nat /\ hist[t].began \in Nat \ {0}
    BY <1>0 DEF AppleState, Time, TypeInv, TypeOK
  <1>2. LaterStateAsOf(hist[t].began, hist[t].revokedAt) # NoTime
    BY <1>1 DEF LaterStateAsOf, NoTime
  <1>3. ReceiptRecord(t, status, user) \in Record
    BY ReceiptRecordType DEF TypeInv, TypeOK
  <1> QED
    BY <1>2, <1>3, PlaceholderAssumption DEF ReceiptRecord, RecordSound, MayBind, Status

LEMMA ValidateUpdateSound ==
    ASSUME NEW existing \in Record, NEW incoming \in Record, NEW user, NEW signedAt,
           IF existing.status = "none" THEN existing.grace = 0 ELSE RecordSound(existing),
           RecordSound(incoming), incoming.asOf # NoTime
    PROVE  LET sub == ValidateUpdate(existing, incoming, user, signedAt)
           IN  RecordSound(sub) /\ sub.asOf # NoTime
  <1> DEFINE merged == IF KeepsStoredAppleState(existing, incoming, user, signedAt)
                       THEN Kept(existing, incoming) ELSE incoming
             asOf == LaterStateAsOf(existing.asOf, incoming.asOf)
  <1>1. asOf # NoTime
    BY DEF LaterStateAsOf, NoTime, Record, Time
  <1>2. Kept(existing, incoming) \in Record
    BY DEF Kept, Record
  <1>3. RecordSound(merged)
    <2>1. CASE KeepsStoredAppleState(existing, incoming, user, signedAt)
      <3>1. existing.status # "none"
        BY <2>1 DEF KeepsStoredAppleState
      <3> QED
        BY <2>1, <3>1 DEF RecordSound, Kept, Record
    <2>2. CASE ~KeepsStoredAppleState(existing, incoming, user, signedAt)
      BY <2>2
    <2> QED
      BY <2>1, <2>2
  <1>4. merged \in Record
    BY <1>2
  <1>5. ValidateUpdate(existing, incoming, user, signedAt) = [merged EXCEPT !.asOf = asOf]
    BY DEF ValidateUpdate
  <1> QED
    BY <1>1, <1>3, <1>4, <1>5 DEF RecordSound, Record

LEMMA OverriddenSound ==
    ASSUME NEW sub \in Record, NEW user, RecordSound(sub)
    PROVE  RecordSound(Overridden(sub, user)) /\ Overridden(sub, user).asOf = sub.asOf
  BY DEF Overridden, RecordSound, Record
-----------------------------------------------------------------------------
(* The inductive invariant. *)

LEMMA InitIInv == Init => IInv
  <1> SUFFICES ASSUME Init PROVE IInv
    OBVIOUS
  <1>1. TypeInv
    BY InitTypeInv
  <1>2. HistoryDated
    BY DEF Init, HistoryDated
  <1>3. JobsSound
    BY DEF Init, JobsSound, JobSound, NoJob
  <1>4. RecordInv
    BY DEF Init, RecordInv, NoRecord, ProcessedIsRemembered
  <1> QED
    BY <1>1, <1>2, <1>3, <1>4 DEF IInv

(* Handlers do not disturb each other's work. *)
LEMMA JobsSoundStep ==
    ASSUME TypeInv, JobsSound, NEW w \in Workers, NEW job,
           work' = [work EXCEPT ![w] = job], JobSound(job)
    PROVE  JobsSound'
  BY DEF TypeInv, TypeOK, JobsSound, JobSound, RecordSound, MayBind

LEMMA IdleSound == JobSound(NoJob)
  BY DEF JobSound, NoJob

(* Reading leaves the record alone, so only the reader's work changes. *)
LEMMA ReadJobsSound ==
    ASSUME IInv, NEW w \in Workers,
           \/ \E t \in 1..MaxEvents : Deliver(w, t)
           \/ \E user \in Users, t \in 1..MaxEvents : PostReceipt(w, user, t)
           \/ LookupKnown(w) \/ LookupUnknown(w) \/ FetchLive(w)
           \/ ValidateLookup(w) \/ ValidateLookupFails(w)
    PROVE  JobsSound'
  <1>0. /\ TypeInv /\ JobsSound /\ HistoryDated
        /\ record \in Record
        /\ hist \in Seq(AppleState)
        /\ work \in [Workers -> Job]
        /\ work[w] \in Job
        /\ JobSound(work[w])
        /\ ~Free(w) => work[w].t \in 1..Len(hist)
    BY DEF IInv, TypeInv, TypeOK, JobTimes, JobsSound
  <1>1. ASSUME NEW t \in 1..MaxEvents, Deliver(w, t)
        PROVE  JobsSound'
    <2> DEFINE status == FinalStatus(hist[t].type, DeriveStatus(hist[t], TRUE))
               job == [NoJob EXCEPT !.pc = "lookup", !.t = t, !.status = status]
    <2>1. status \in Status
      BY DeriveStatusType, FinalStatusType
    <2>2. JobSound(job)
      BY <2>1 DEF JobSound, NoJob
    <2> QED
      BY <1>0, <1>1, <2>2, JobsSoundStep DEF Deliver
  <1>2. ASSUME NEW user \in Users, NEW t \in 1..MaxEvents, PostReceipt(w, user, t)
        PROVE  JobsSound'
    <2> DEFINE status == DeriveStatus(hist[t], FALSE)
               job == [NoJob EXCEPT !.pc = "lookup", !.kind = "validate", !.t = t,
                                    !.user = user, !.status = status]
    <2>1. status \in Status
      BY DeriveStatusType
    <2>2. JobSound(job)
      BY <1>2, <2>1 DEF JobSound, NoJob, PostReceipt
    <2> QED
      BY <1>0, <1>2, <2>2, JobsSoundStep DEF PostReceipt
  <1>3. CASE LookupKnown(w)
    <2> DEFINE sub == NotificationUpdate(record, work[w].t, work[w].status)
               job == [work[w] EXCEPT !.pc = "save", !.status = "none", !.sub = sub]
    <2>1. RecordSound(record)
      BY <1>3 DEF LookupKnown, IInv, RecordInv
    <2>2. work[w].status \in Status /\ work[w].t \in 1..Len(hist) /\ work[w].kind = "webhook"
      BY <1>0, <1>3 DEF LookupKnown, WebhookAt, JobSound, Free
    <2>3. RecordSound(sub) /\ work[w].t <= sub.asOf
      BY <1>0, <2>1, <2>2, NotificationSound
    <2>4. JobSound(job)
      BY <1>0, <2>2, <2>3 DEF JobSound, Job
    <2>5. work' = [work EXCEPT ![w] = job]
      BY <1>0, <1>3 DEF LookupKnown
    <2> QED
      BY <1>0, <2>4, <2>5, JobsSoundStep
  <1>4. CASE LookupUnknown(w)
    <2> DEFINE job == [work[w] EXCEPT !.pc = "fetch", !.status = "none"]
    <2>1. JobSound(job)
      BY <1>0, <1>4 DEF LookupUnknown, WebhookAt, JobSound, Job
    <2>2. work' = [work EXCEPT ![w] = IF HasApiCreds THEN job ELSE NoJob]
      BY <1>0, <1>4 DEF LookupUnknown
    <2> QED
      BY <1>0, <2>1, <2>2, IdleSound, JobsSoundStep
  <1>5. CASE FetchLive(w)
    <2> DEFINE job == [work[w] EXCEPT !.pc = "save", !.sub = LiveRecord]
    <2>1. work[w].t \in 1..Len(hist) /\ hist # << >> /\ work[w].kind = "webhook"
      BY <1>0, <1>5 DEF FetchLive, Free, JobSound
    <2>2. RecordSound(LiveRecord) /\ work[w].t <= LiveRecord.asOf
      BY <1>0, <2>1, LiveSound
    <2>3. JobSound(job)
      BY <1>0, <2>1, <2>2 DEF JobSound, Job
    <2>4. work' = [work EXCEPT ![w] = job]
      BY <1>0, <1>5 DEF FetchLive
    <2> QED
      BY <1>0, <2>3, <2>4, JobsSoundStep
  <1>6. CASE ValidateLookup(w) \/ ValidateLookupFails(w)
    <2> DEFINE user == work[w].user
               incoming == ReceiptRecord(work[w].t, work[w].status, user)
               updated == ValidateUpdate(record, incoming, user, work[w].t)
               timeless == [incoming EXCEPT !.asOf = NoTime]
    <2>1. /\ work[w].t \in 1..Len(hist) /\ work[w].status \in Status
          /\ user \in Owners /\ MayBind(user) /\ work[w].kind = "validate"
      BY <1>0, <1>6 DEF ValidateLookup, ValidateLookupFails, ValidateAt, Free, JobSound, Job
    <2>2. incoming \in Record /\ RecordSound(incoming) /\ incoming.asOf # NoTime
      BY <1>0, <2>1, ReceiptSound
    <2>3. ASSUME NEW sub, RecordSound(sub), ~LookupMayFail => sub.asOf # NoTime,
                 work' = [work EXCEPT ![w] = [work[w] EXCEPT !.pc = "save",
                                                !.status = "none", !.sub = sub]]
          PROVE  JobsSound'
      <3> DEFINE job == [work[w] EXCEPT !.pc = "save", !.status = "none", !.sub = sub]
      <3>1. JobSound(job)
        BY <1>0, <2>1, <2>3 DEF JobSound, Job
      <3> QED
        BY <1>0, <2>3, <3>1, JobsSoundStep
    <2>4. CASE ValidateLookup(w)
      <3>1. RecordSound(updated) /\ updated.asOf # NoTime
        BY <1>0, <2>2, ValidateUpdateSound DEF IInv, RecordInv
      <3>2. updated \in Record
        BY <1>0, <2>2, ValidateUpdateType
      <3>3. RecordSound(Overridden(updated, user)) /\ Overridden(updated, user).asOf # NoTime
        BY <3>1, <3>2, OverriddenSound
      <3>4. work' = [work EXCEPT ![w] = [work[w] EXCEPT !.pc = "save", !.status = "none",
                                           !.sub = Overridden(updated, user)]]
        BY <1>0, <2>4 DEF ValidateLookup
      <3> QED
        BY <2>3, <3>3, <3>4
    <2>5. CASE ValidateLookupFails(w)
      <3>1. timeless \in Record /\ RecordSound(timeless)
        BY <2>2 DEF Record, RecordSound, Time, NoTime
      <3>2. RecordSound(Overridden(timeless, user))
        BY <3>1, OverriddenSound
      <3>3. /\ LookupMayFail
            /\ work' = [work EXCEPT ![w] = [work[w] EXCEPT !.pc = "save", !.status = "none",
                                           !.sub = Overridden(timeless, user)]]
        BY <1>0, <2>5 DEF ValidateLookupFails
      <3> QED
        BY <2>3, <3>2, <3>3
    <2> QED
      BY <1>6, <2>4, <2>5
  <1> QED
    BY <1>1, <1>2, <1>3, <1>4, <1>5, <1>6

(* The store's guard: a sound write leaves a sound record, not older than it
   was, nor than the write. *)
LEMMA SavedSound ==
    ASSUME NEW existing \in Record, NEW sub \in Record, RecordSound(sub),
           IF existing.status = "none" THEN existing.asOf = NoTime ELSE RecordSound(existing)
    PROVE  /\ RecordSound(Saved(existing, sub))
           /\ sub.asOf <= Saved(existing, sub).asOf
           /\ sub.asOf # NoTime => existing.asOf <= Saved(existing, sub).asOf
  <1>1. existing.asOf \in Nat /\ sub.asOf \in Nat
    BY DEF Record, Time
  <1>2. CASE IsStaleSnapshot(existing.asOf, sub.asOf)
    BY <1>1, <1>2 DEF Saved, IsStaleSnapshot, NoTime
  <1>3. CASE ~IsStaleSnapshot(existing.asOf, sub.asOf)
    BY <1>1, <1>3 DEF Saved, IsStaleSnapshot, NoTime
  <1> QED
    BY <1>2, <1>3

LEMMA WebhookSaveIInv ==
    ASSUME IInv, NEW w \in Workers, WebhookSave(w)
    PROVE  JobsSound' /\ RecordInv'
  <1>0. /\ TypeInv /\ JobsSound /\ record \in Record
        /\ work[w].sub \in Record /\ work[w].t \in Nat \ {0}
        /\ applied \in SUBSET Nat
        /\ RecordSound(work[w].sub) /\ work[w].t <= work[w].sub.asOf
    BY DEF IInv, TypeInv, TypeOK, JobTimes, JobsSound, JobSound, Job, WebhookSave,
       WebhookAt, Free
  <1>1. JobsSound'
    BY <1>0, IdleSound, JobsSoundStep DEF WebhookSave
  <1> DEFINE saved == Saved(record, work[w].sub)
  <1>2. /\ RecordSound(saved)
        /\ work[w].sub.asOf <= saved.asOf
        /\ work[w].sub.asOf # NoTime => record.asOf <= saved.asOf
    BY <1>0, SavedSound DEF IInv, RecordInv
  <1>3. saved \in Record
    BY <1>0, SavedType
  <1>4. work[w].t <= saved.asOf /\ record.asOf <= saved.asOf
    BY <1>0, <1>2, <1>3 DEF Record, Time, NoTime
  <1>5. record' = saved /\ applied' = applied \cup {work[w].t}
    BY DEF WebhookSave
  <1>6. ASSUME ~LookupMayFail, NEW t \in applied'
        PROVE  record'.status # "none" /\ t <= record'.asOf
    <2>1. CASE t \in applied
      <3>1. t \in Nat /\ t <= record.asOf
        BY <1>0, <1>6, <2>1 DEF IInv, RecordInv, ProcessedIsRemembered
      <3>2. record.asOf \in Nat /\ saved.asOf \in Nat
        BY <1>0, <1>3 DEF Record, Time
      <3>3. t <= saved.asOf
        BY <1>4, <3>1, <3>2
      <3> QED
        BY <1>2, <1>5, <3>3 DEF RecordSound
    <2>2. CASE t = work[w].t
      BY <1>2, <1>4, <1>5, <2>2 DEF RecordSound
    <2> QED
      BY <1>5, <1>6, <2>1, <2>2
  <1>7. ProcessedIsRemembered'
    BY <1>6 DEF ProcessedIsRemembered
  <1>8. RecordSound(record)'
    BY <1>2, <1>5 DEF RecordSound
  <1> QED
    BY <1>1, <1>7, <1>8 DEF RecordInv, RecordSound

LEMMA ValidateSaveIInv ==
    ASSUME IInv, NEW w \in Workers, ValidateSave(w)
    PROVE  JobsSound' /\ RecordInv'
  <1>0. /\ TypeInv /\ JobsSound /\ record \in Record
        /\ work[w].sub \in Record
        /\ applied \in SUBSET Nat
        /\ RecordSound(work[w].sub)
        /\ ~LookupMayFail => work[w].sub.asOf # NoTime
    BY DEF IInv, TypeInv, TypeOK, JobsSound, JobSound, Job, ValidateSave, ValidateAt
  <1>1. JobsSound'
    BY <1>0, IdleSound, JobsSoundStep DEF ValidateSave
  <1> DEFINE saved == Saved(record, work[w].sub)
  <1>2. /\ RecordSound(saved)
        /\ work[w].sub.asOf # NoTime => record.asOf <= saved.asOf
    BY <1>0, SavedSound DEF IInv, RecordInv
  <1>3. saved \in Record
    BY <1>0, SavedType
  <1>4. record' = saved /\ applied' = applied
    BY DEF ValidateSave
  <1>5. ASSUME ~LookupMayFail, NEW t \in applied'
        PROVE  record'.status # "none" /\ t <= record'.asOf
    <2>1. t <= record.asOf /\ record.asOf <= saved.asOf /\ t \in Nat
      BY <1>0, <1>2, <1>4, <1>5 DEF IInv, RecordInv, ProcessedIsRemembered
    <2> QED
      BY <1>0, <1>2, <1>3, <1>4, <2>1 DEF Record, Time, RecordSound
  <1>6. ProcessedIsRemembered'
    BY <1>5 DEF ProcessedIsRemembered
  <1>7. RecordSound(record)'
    BY <1>2, <1>4 DEF RecordSound
  <1> QED
    BY <1>1, <1>6, <1>7 DEF RecordInv, RecordSound

LEMMA IgnoreStaleIInv ==
    ASSUME IInv, NEW w \in Workers, IgnoreStale(w)
    PROVE  JobsSound' /\ RecordInv'
  <1>0. /\ TypeInv /\ JobsSound /\ record.asOf \in Nat /\ work[w].t \in Nat
    BY DEF IInv, TypeInv, TypeOK, Record, Job, Time
  <1>1. JobsSound'
    BY <1>0, IdleSound, JobsSoundStep DEF IgnoreStale
  <1>2. /\ record' = record /\ applied' = applied \cup {work[w].t}
        /\ record.status # "none" /\ work[w].t <= record.asOf
    BY <1>0 DEF IgnoreStale, IsStaleSnapshot
  <1> QED
    BY <1>1, <1>2 DEF IInv, RecordInv, RecordSound, ProcessedIsRemembered

LEMMA NextIInv == IInv /\ [Next]_vars => IInv'
  <1> SUFFICES ASSUME IInv, [Next]_vars PROVE IInv'
    OBVIOUS
  <1>1. TypeInv'
    BY NextTypeInv DEF IInv
  <1>2. ASSUME hist' = hist PROVE HistoryDated'
    BY <1>2 DEF IInv, HistoryDated
  <1>3. ASSUME record' = record, applied' = applied PROVE RecordInv'
    BY <1>3 DEF IInv, RecordInv, RecordSound, ProcessedIsRemembered
  <1>4. ASSUME work' = work PROVE JobsSound'
    BY <1>4 DEF IInv, JobsSound, JobSound, RecordSound, MayBind
  <1>5. CASE AppleNext
    <2>1. HistoryDated'
      BY <1>5, AppleNextDated DEF IInv
    <2>2. UNCHANGED <<record, work, applied>>
      BY <1>5, AppleNextHappens DEF IInv, NewState, Happens
    <2> QED
      BY <1>1, <1>3, <1>4, <2>1, <2>2 DEF IInv
  <1>6. ASSUME NEW w \in Workers, HandlerNext(w) PROVE IInv'
    <2>1. CASE \/ \E t \in 1..MaxEvents : Deliver(w, t)
               \/ \E user \in Users, t \in 1..MaxEvents : PostReceipt(w, user, t)
               \/ LookupKnown(w) \/ LookupUnknown(w) \/ FetchLive(w)
               \/ ValidateLookup(w) \/ ValidateLookupFails(w)
      <3>1. JobsSound'
        BY <2>1, ReadJobsSound
      <3>2. UNCHANGED <<hist, record, applied>>
        BY <2>1 DEF Deliver, PostReceipt, LookupKnown, LookupUnknown, FetchLive,
           ValidateLookup, ValidateLookupFails
      <3> QED
        BY <1>1, <1>2, <1>3, <3>1, <3>2 DEF IInv
    <2>2. CASE FetchFails(w) \/ Throw(w)
      <3>1. work' = [work EXCEPT ![w] = NoJob] /\ UNCHANGED <<hist, record, applied>>
        BY <2>2 DEF FetchFails, Throw
      <3>2. JobsSound'
        BY <3>1, IdleSound, JobsSoundStep DEF IInv
      <3> QED
        BY <1>1, <1>2, <1>3, <3>1, <3>2 DEF IInv
    <2>3. CASE IgnoreStale(w)
      BY <1>1, <1>2, <2>3, IgnoreStaleIInv DEF IInv, IgnoreStale
    <2>4. CASE WebhookSave(w)
      BY <1>1, <1>2, <2>4, WebhookSaveIInv DEF IInv, WebhookSave
    <2>5. CASE ValidateSave(w)
      BY <1>1, <1>2, <2>5, ValidateSaveIInv DEF IInv, ValidateSave
    <2> QED
      BY <1>6, <2>1, <2>2, <2>3, <2>4, <2>5 DEF HandlerNext
  <1>7. CASE UNCHANGED vars
    BY <1>1, <1>2, <1>3, <1>4, <1>7 DEF IInv, vars
  <1> QED
    BY <1>5, <1>6, <1>7 DEF Next

LEMMA Inductive == Spec => []IInv
  BY InitIInv, NextIInv, PTL DEF Spec
-----------------------------------------------------------------------------
(* The record is never older than a notification that was processed, whatever
   the order, repetition and overlap of deliveries and receipts: the property
   of AppleOverlap.cfg, for every number of handlers, users and events. *)
THEOREM NewestSnapshotWins == Spec => []ProcessedIsRemembered
  <1>1. IInv => ProcessedIsRemembered
    BY DEF IInv, RecordInv
  <1> QED
    BY <1>1, Inductive, PTL

(* A purchase with an appAccountToken is only ever recorded under it. *)
THEOREM AccountOwnsPurchase == Spec => []BoundToAccount
  <1>1. IInv => BoundToAccount
    BY DEF IInv, RecordInv, RecordSound, BoundToAccount
  <1> QED
    BY <1>1, Inductive, PTL

(* Without a sandbox test override, a grace end is stored only in grace. *)
THEOREM GraceEndsWithGrace ==
    ASSUME SandboxOverride = {}
    PROVE  Spec => []GraceOnlyInGrace
  <1>1. IInv => GraceOnlyInGrace
    BY DEF IInv, RecordInv, RecordSound, GraceOnlyInGrace
  <1> QED
    BY <1>1, Inductive, PTL

(* The snapshot time of the record moves back only when validate writes after
   a failed store lookup. *)
THEOREM SnapshotTimeMonotone == Spec => SnapshotTimeKept
  <1> DEFINE TimeKept == record'.asOf < record.asOf
               => \E w \in Workers : ValidateAt(w, "save") /\ work[w].sub.asOf = NoTime
  <1>1. IInv /\ [Next]_vars => TimeKept
    <2> SUFFICES ASSUME IInv, [Next]_vars, record'.asOf < record.asOf
                 PROVE  \E w \in Workers : ValidateAt(w, "save") /\ work[w].sub.asOf = NoTime
      OBVIOUS
    <2>0. record \in Record /\ record.asOf \in Nat /\ record.asOf # record'.asOf
      BY DEF IInv, TypeInv, TypeOK, Record, Time
    <2>1. PICK w \in Workers : WebhookSave(w) \/ ValidateSave(w)
      <3>1. record' # record
        BY <2>0
      <3>2. ~AppleNext
        BY <3>1, AppleNextHappens DEF IInv, NewState, Happens
      <3> QED
        BY <3>1, <3>2 DEF Next, HandlerNext, vars, Deliver, PostReceipt, IgnoreStale,
           LookupKnown, LookupUnknown, FetchLive, FetchFails, ValidateLookup,
           ValidateLookupFails, Throw
    <2>2. /\ work[w].sub \in Record /\ RecordSound(work[w].sub)
          /\ work[w].sub.asOf \in Nat
          /\ record' = Saved(record, work[w].sub)
          /\ WebhookSave(w) => work[w].sub.asOf # NoTime
      <3>1. work[w] \in Job /\ JobSound(work[w]) /\ work[w].pc = "save"
        BY <2>1 DEF IInv, TypeInv, TypeOK, JobsSound, WebhookSave, WebhookAt, ValidateSave,
           ValidateAt
      <3>2. work[w].sub \in Record /\ RecordSound(work[w].sub)
        BY <3>1 DEF Job, JobSound
      <3>3. work[w].t \in Nat \ {0}
        BY <3>1 DEF IInv, TypeInv, TypeOK, JobTimes, Free
      <3>4. work[w].sub.asOf \in Nat
        BY <3>2 DEF Record, Time
      <3>5. WebhookSave(w) => work[w].sub.asOf # NoTime
        BY <3>1, <3>3, <3>4 DEF JobSound, WebhookSave, WebhookAt, NoTime
      <3> QED
        BY <2>1, <3>2, <3>4, <3>5 DEF WebhookSave, ValidateSave
    <2>3. work[w].sub.asOf # NoTime => record.asOf <= record'.asOf
      BY <2>0, <2>2, SavedSound DEF IInv, RecordInv
    <2>4. record'.asOf \in Nat
      BY <2>0, <2>2, SavedType DEF Record, Time
    <2> QED
      BY <2>0, <2>1, <2>2, <2>3, <2>4 DEF ValidateSave
  <1>2. Spec => [][TimeKept]_vars
    BY <1>1, Inductive, PTL DEF Spec
  <1> QED
    BY <1>2 DEF SnapshotTimeKept
-----------------------------------------------------------------------------
(***************************************************************************)
(* What the record says at the end, and after a refund.  Both are about a  *)
(* record as of a moment: Standing is a refund that took access away while *)
(* paid or grace time was still running, and a snapshot that is not older  *)
(* must not grant it back, whatever is signed, stored or awaited.          *)
(***************************************************************************)

(* The phases, and what they say of the clock. *)
Shaped(state) ==
    /\ state.period # 0
    /\ state.grace => state.lapsed
    /\ state.phase = "active" => ~state.lapsed
    /\ state.phase = "grace" => state.grace
    /\ state.phase \in {"hold", "expired"} => state.lapsed /\ ~state.grace
    /\ state.type \in {"SUBSCRIBED", "DID_RENEW"} => state.phase = "active"
    /\ state.type = "DID_FAIL_TO_RENEW.GRACE_PERIOD" => state.phase = "grace"
    /\ state.type \in {"DID_FAIL_TO_RENEW", "GRACE_PERIOD_EXPIRED"} => state.phase = "hold"
    /\ state.type = "REFUND" => state.phase = "refunded"
    /\ state.type = "EXPIRED" => state.phase \in {"expired", "refunded"}
                                 /\ state.lapsed /\ ~state.grace

HistoryShaped ==
    \A s \in 1..Len(hist) :
        /\ Shaped(hist[s])
        /\ hist[s].began <= s /\ hist[s].revokedAt <= s
        /\ hist[s].period <= Now.period

Standing == hist # << >> /\ Now.phase = "refunded" /\ (~Now.lapsed \/ Now.grace)

(* The states since a standing refund, and the one before it. *)
RefundStands ==
    Standing =>
        /\ Now.revokedAt \in 2..Len(hist)
        /\ hist[Now.revokedAt - 1].phase \in {"active", "grace"}
        /\ \A s \in Now.revokedAt..Len(hist) :
              /\ hist[s].phase = "refunded" /\ hist[s].period = Now.period
              /\ hist[s].type \in {"REFUND", "DID_CHANGE_RENEWAL_STATUS"}

(* A phase is "refunded" only after a refund. *)
RefundsAreEvents ==
    \A s \in 1..Len(hist) : hist[s].phase = "refunded" =>
        \E q \in 1..Len(hist) : hist[q].type = "REFUND"

OnlyRefund ==
    Standing /\ MaxRefunds <= 1 =>
        \A s \in 1..(Now.revokedAt - 1) : hist[s].phase # "refunded"

HistorySound == HistoryShaped /\ RefundStands /\ RefundsAreEvents /\ OnlyRefund

(* Where a refund is final: access is cut at once and there is one refund, or
   the refund takes nothing but the grace period. *)
RefundIsFinal ==
    \/ RefundPolicy = "until_expiry"
    \/ MaxRefunds <= 1 /\ SandboxOverride = {}

(* No snapshot since a standing refund grants the access it took. *)
LeavesRefund(rec) ==
    RefundIsFinal /\ Standing /\ rec.asOf >= Now.revokedAt =>
        /\ rec.grace = 0
        /\ RefundPolicy = "immediate" => rec.status = "canceled" /\ rec.exp = Now.period

(* A record that no receipt has named a user for is the state at Apple at its
   snapshot time; its access is that of the present if the snapshot is. *)
SaysApple(rec) ==
    RefundPolicy = "immediate" /\ rec.userId = Placeholder =>
        /\ rec.asOf \in 1..Len(hist)
        /\ rec.exp = hist[rec.asOf].period
        /\ rec.willRenew = hist[rec.asOf].autoRenew
        /\ rec.asOf = Len(hist) => (Entitled(rec) <=> EntitledAtApple(Now))

SnapshotSound(rec) ==
    rec.asOf <= Len(hist) /\ LeavesRefund(rec) /\ (rec.status # "none" => SaysApple(rec))

(* The status of a notification is that of the refund it follows, and, if it is
   the latest, that of Apple; a receipt is canceled when it is revoked. *)
DecodedSound(job) ==
    /\ job.kind = "webhook" =>
         /\ Standing /\ job.t >= Now.revokedAt => job.status = "canceled"
         /\ job.t = Len(hist) =>
              (IsSubscriptionEntitled(job.status, PaidRunning(Now.period),
                   GraceRunning(IF job.status = "grace_period" /\ Now.grace
                                THEN Now.period ELSE 0))
               <=> Now.phase \in {"active", "grace"})
    /\ job.kind = "validate" => (job.status = "canceled" <=> hist[job.t].phase = "refunded")

SnapshotsSound ==
    /\ SnapshotSound(record)
    /\ \A w \in Workers :
          /\ work[w].pc = "lookup" => DecodedSound(work[w])
          /\ work[w].pc = "save" => SnapshotSound(work[w].sub)
          /\ work[w].kind = "validate" /\ ~Free(w) => work[w].user \in Users

FInv == HistorySound /\ SnapshotsSound
-----------------------------------------------------------------------------
(* The history after one more event. *)

(* What an event may do to the state, as far as FInv tells states apart. *)
Follows(state) ==
    /\ Shaped(state)
    /\ state.began <= Len(hist) + 1 /\ state.revokedAt <= Len(hist) + 1
    /\ hist # << >> => Now.period <= state.period
    /\ \/ state.phase # "refunded"
       \/ /\ hist # << >> /\ Now.phase # "refunded"
          /\ state.revokedAt = Len(hist) + 1 /\ state.type = "REFUND"
          /\ state.lapsed = Now.lapsed /\ state.grace = Now.grace
          /\ state.period = Now.period
          /\ MaxRefunds <= 1 => \A q \in 1..Len(hist) : hist[q].type # "REFUND"
       \/ /\ hist # << >> /\ Now.phase = "refunded"
          /\ state.period = Now.period /\ state.revokedAt = Now.revokedAt
          /\ \/ /\ state.type = "DID_CHANGE_RENEWAL_STATUS"
                /\ state.lapsed = Now.lapsed /\ state.grace = Now.grace
             \/ state.lapsed /\ ~state.grace

LEMMA FirstRefund ==
    ASSUME hist \in Seq(AppleState), MaxRefunds <= 1,
           Cardinality({t \in 1..Len(hist) : hist[t].type = "REFUND"}) < MaxRefunds
    PROVE  \A q \in 1..Len(hist) : hist[q].type # "REFUND"
  <1> DEFINE refunds == {t \in 1..Len(hist) : hist[t].type = "REFUND"}
  <1>1. IsFiniteSet(refunds)
    BY FS_Interval, FS_Subset
  <1>2. Cardinality(refunds) \in Nat
    BY <1>1, FS_CardinalityType
  <1>3. Cardinality(refunds) = 0
    BY <1>2, BoundAssumption
  <1>4. refunds = {}
    BY <1>1, <1>3, FS_EmptySet
  <1> QED
    BY <1>4

LEMMA AppleNextFollows ==
    ASSUME TypeInv, HistoryDated, HistoryShaped, AppleNext
    PROVE  \E state \in AppleState : Happens(state) /\ Follows(state)
  <1>0. hist \in Seq(AppleState) /\ Len(hist) \in Nat
    BY DEF TypeInv, TypeOK
  <1>1. CASE FirstPurchase \/ Resubscribe \/ Renew
    <2>1. PICK type \in {"SUBSCRIBED", "DID_RENEW"}, period \in Nat :
             /\ Happens(NewPeriod(type, period))
             /\ period # 0 /\ (hist # << >> => Now.period <= period)
      <3>1. CASE FirstPurchase
        BY <3>1 DEF FirstPurchase
      <3>2. CASE Resubscribe \/ Renew
        <4>1. hist # << >> /\ Now.period \in Nat
          BY <1>0, <3>2, NowType DEF Resubscribe, Renew, AppleState
        <4>2. Now.period + 1 \in Nat /\ Now.period + 1 # 0 /\ Now.period <= Now.period + 1
          BY <4>1
        <4> QED
          BY <3>2, <4>1, <4>2 DEF Resubscribe, Renew
      <3> QED
        BY <1>1, <3>1, <3>2
    <2>2. NewPeriod(type, period) \in AppleState
      BY <1>0, NewPeriodType DEF EventType
    <2>3. Follows(NewPeriod(type, period))
      BY <1>0, <2>1 DEF Follows, NewPeriod, Shaped, NoTime
    <2> QED
      BY <2>1, <2>2, <2>3
  <1>2. CASE ~(FirstPurchase \/ Resubscribe \/ Renew)
    <2>0. hist # << >>
      BY <1>2 DEF AppleNext, FailToRenew, GracePeriodExpired, Expire, Refund, ReverseRefund,
         SwitchAutoRenew
    <2>a. /\ Now \in AppleState /\ Len(hist) + 1 \in Time /\ Len(hist) \in Nat \ {0}
          /\ Shaped(Now) /\ Now.began <= Len(hist) /\ Now.revokedAt <= Len(hist)
      BY <1>0, <2>0, NowType DEF Time, HistoryShaped, Now
    <2>b. /\ Now.lapsed \in BOOLEAN /\ Now.grace \in BOOLEAN /\ Now.period \in Nat
          /\ Now.began \in Nat /\ Now.revokedAt \in Nat /\ Now.autoRenew \in BOOLEAN
          /\ Now.phase \in Phase
      BY <2>a DEF AppleState, Time
    <2>c. ASSUME NEW state \in AppleState, Happens(state), Shaped(state),
                 state.period = Now.period, state.began = Now.began,
                 state.revokedAt \in {NoTime, Now.revokedAt}, state.phase # "refunded"
          PROVE  \E s \in AppleState : Happens(s) /\ Follows(s)
      BY <2>0, <2>a, <2>b, <2>c DEF Follows, NoTime
    <2>d. ASSUME NEW state \in AppleState, Happens(state), Follows(state)
          PROVE  \E s \in AppleState : Happens(s) /\ Follows(s)
      BY <2>d
    <2>2. CASE FailToRenew
      <3> DEFINE grace == [Now EXCEPT !.type = "DID_FAIL_TO_RENEW.GRACE_PERIOD",
                                      !.phase = "grace", !.lapsed = TRUE, !.grace = TRUE]
                 hold == [Now EXCEPT !.type = "DID_FAIL_TO_RENEW", !.phase = "hold",
                                     !.lapsed = TRUE]
      <3>0. ~Now.grace
        BY <2>2, <2>a, <2>b DEF FailToRenew, Shaped
      <3>1. /\ grace \in AppleState /\ Shaped(grace) /\ grace.phase # "refunded"
            /\ grace.period = Now.period /\ grace.began = Now.began
            /\ grace.revokedAt = Now.revokedAt
        BY <2>a, <2>b DEF AppleState, EventType, Phase, Shaped
      <3>2. /\ hold \in AppleState /\ Shaped(hold) /\ hold.phase # "refunded"
            /\ hold.period = Now.period /\ hold.began = Now.began
            /\ hold.revokedAt = Now.revokedAt
        BY <2>a, <2>b, <3>0 DEF AppleState, EventType, Phase, Shaped
      <3> HIDE DEF grace, hold
      <3>3. Happens(grace) \/ Happens(hold)
        BY <2>2 DEF FailToRenew, grace, hold
      <3> QED
        BY <2>c, <3>1, <3>2, <3>3
    <2>3. CASE GracePeriodExpired
      <3> DEFINE state == [Now EXCEPT !.type = "GRACE_PERIOD_EXPIRED", !.phase = "hold",
                                      !.grace = FALSE]
      <3>1. /\ state \in AppleState /\ Shaped(state) /\ state.phase # "refunded"
            /\ state.period = Now.period /\ state.began = Now.began
            /\ state.revokedAt = Now.revokedAt
        BY <2>3, <2>a, <2>b DEF GracePeriodExpired, AppleState, EventType, Phase, Shaped
      <3>2. Happens(state)
        BY <2>3 DEF GracePeriodExpired
      <3> HIDE DEF state
      <3> QED
        BY <2>c, <3>1, <3>2
    <2>4. CASE Expire
      <3> DEFINE ended == [Now EXCEPT !.type = "EXPIRED", !.phase = "expired", !.lapsed = TRUE,
                                      !.grace = FALSE]
                 over == [Now EXCEPT !.type = "EXPIRED", !.lapsed = TRUE, !.grace = FALSE]
      <3>1. /\ ended \in AppleState /\ Shaped(ended) /\ ended.phase # "refunded"
            /\ ended.period = Now.period /\ ended.began = Now.began
            /\ ended.revokedAt = Now.revokedAt
        BY <2>a, <2>b DEF AppleState, EventType, Phase, Shaped
      <3>2. Now.phase = "refunded" => over \in AppleState /\ Follows(over)
        <4>1. ASSUME Now.phase = "refunded"
              PROVE  over \in AppleState /\ Shaped(over)
          BY <2>a, <2>b, <4>1 DEF AppleState, EventType, Phase, Shaped
        <4> QED
          BY <2>0, <2>a, <2>b, <4>1 DEF Follows
      <3>3. \/ Happens(ended)
            \/ Now.phase = "refunded" /\ Happens(over)
        BY <2>4 DEF Expire
      <3> HIDE DEF ended, over
      <3> QED
        BY <2>c, <2>d, <3>1, <3>2, <3>3
    <2>5. CASE Refund
      <3> DEFINE state == [Now EXCEPT !.type = "REFUND", !.phase = "refunded",
                                      !.revokedAt = Len(hist) + 1]
      <3>1. state \in AppleState /\ Shaped(state)
        BY <2>a, <2>b DEF AppleState, EventType, Phase, Shaped
      <3>2. MaxRefunds <= 1 => \A q \in 1..Len(hist) : hist[q].type # "REFUND"
        BY <1>0, <2>5, FirstRefund DEF Refund
      <3>3. Follows(state)
        BY <2>0, <2>5, <2>a, <2>b, <3>1, <3>2 DEF Follows, Refund
      <3>4. Happens(state)
        BY <2>5 DEF Refund
      <3> HIDE DEF state
      <3> QED
        BY <2>d, <3>1, <3>3, <3>4
    <2>6. CASE ReverseRefund
      <3> DEFINE phase == IF ~Now.lapsed THEN "active"
                          ELSE IF Now.grace THEN "grace" ELSE "expired"
                 state == [Now EXCEPT !.type = "REFUND_REVERSED", !.revokedAt = NoTime,
                                      !.phase = phase]
      <3>1. /\ state \in AppleState /\ Shaped(state) /\ state.phase # "refunded"
            /\ state.period = Now.period /\ state.began = Now.began
            /\ state.revokedAt = NoTime
        BY <2>a, <2>b DEF AppleState, EventType, Phase, Shaped, Time, NoTime
      <3>2. Happens(state)
        BY <2>6 DEF ReverseRefund
      <3> HIDE DEF state
      <3> QED
        BY <2>c, <3>1, <3>2
    <2>7. CASE SwitchAutoRenew
      <3> DEFINE state == [Now EXCEPT !.type = "DID_CHANGE_RENEWAL_STATUS",
                                      !.autoRenew = ~Now.autoRenew]
      <3>1. state \in AppleState /\ Shaped(state)
        BY <2>a, <2>b DEF AppleState, EventType, Phase, Shaped
      <3>2. Follows(state)
        BY <2>0, <2>a, <2>b, <3>1 DEF Follows
      <3>3. Happens(state)
        BY <2>7 DEF SwitchAutoRenew
      <3> HIDE DEF state
      <3> QED
        BY <2>d, <3>1, <3>2, <3>3
    <2> QED
      BY <1>2, <2>2, <2>3, <2>4, <2>5, <2>6, <2>7 DEF AppleNext
  <1> QED
    BY <1>1, <1>2

(* The appended history: what was stays, and the new state is the present. *)
LEMMA Appended ==
    ASSUME hist \in Seq(AppleState), NEW state \in AppleState, hist' = Append(hist, state)
    PROVE  /\ Len(hist) \in Nat /\ Len(hist') = Len(hist) + 1 /\ hist' # << >>
           /\ hist' \in Seq(AppleState)
           /\ hist'[Len(hist) + 1] = state /\ Now' = state
           /\ \A s \in 1..Len(hist) : hist'[s] = hist[s]
           /\ \A s \in 1..Len(hist') : s \in 1..Len(hist) \/ s = Len(hist) + 1
           /\ Len(hist) + 1 \in 1..Len(hist')
           /\ \A s \in 1..Len(hist) : s \in 1..Len(hist')
  <1>1. Len(hist) \in Nat /\ Len(hist') = Len(hist) + 1
    OBVIOUS
  <1>2. hist'[Len(hist) + 1] = state
    BY <1>1
  <1> QED
    BY <1>1, <1>2 DEF Now

(* A refund that stands after an event is that event, or stood before it. *)
LEMMA StandingNext ==
    ASSUME TypeInv, HistoryShaped, NEW state \in AppleState, Happens(state), Follows(state),
           Standing'
    PROVE  \/ /\ state.revokedAt = Len(hist) + 1 /\ Now' = state
              /\ hist # << >> /\ Now.phase \in {"active", "grace"}
              /\ state.type = "REFUND" /\ state.phase = "refunded"
              /\ MaxRefunds <= 1 => \A q \in 1..Len(hist) : hist[q].type # "REFUND"
           \/ /\ Standing /\ Now' = state /\ state.phase = "refunded"
              /\ state.type = "DID_CHANGE_RENEWAL_STATUS"
              /\ state.period = Now.period /\ state.revokedAt = Now.revokedAt
  <1>1. Now' = state
    BY Appended DEF TypeInv, TypeOK, Happens
  <1>2. state.phase = "refunded" /\ (~state.lapsed \/ state.grace)
    BY <1>1 DEF Standing
  <1>3. ASSUME hist # << >> PROVE Shaped(Now) /\ Now.phase \in Phase
    BY <1>3, NowType DEF TypeInv, TypeOK, HistoryShaped, Now, AppleState
  <1> QED
    BY <1>1, <1>2, <1>3 DEF Follows, Standing, Shaped, Phase

LEMMA AppleNextHistory ==
    ASSUME TypeInv, HistoryDated, HistorySound, AppleNext
    PROVE  HistorySound'
  <1>0. hist \in Seq(AppleState)
    BY DEF TypeInv, TypeOK
  <1>a. HistoryShaped /\ RefundStands /\ RefundsAreEvents /\ OnlyRefund
    BY DEF HistorySound
  <1>1. PICK state \in AppleState : Happens(state) /\ Follows(state)
    BY <1>a, AppleNextFollows
  <1>b. hist' = Append(hist, state)
    BY <1>1 DEF Happens
  <1>2. /\ Len(hist) \in Nat /\ Len(hist') = Len(hist) + 1 /\ hist' # << >>
        /\ hist'[Len(hist) + 1] = state /\ Now' = state
        /\ \A s \in 1..Len(hist) : hist'[s] = hist[s] /\ s \in 1..Len(hist')
        /\ \A s \in 1..Len(hist') : s \in 1..Len(hist) \/ s = Len(hist) + 1
        /\ Len(hist) + 1 \in 1..Len(hist')
    BY <1>0, <1>b, Appended
  <1>3. /\ state.period \in Nat /\ \A s \in 1..Len(hist) : hist[s].period \in Nat
        /\ hist # << >> => Now.period \in Nat /\ Len(hist) \in 1..Len(hist)
    <2>1. \A s \in 1..Len(hist) : hist[s] \in AppleState
      BY <1>0
    <2>2. hist # << >> => Now \in AppleState /\ Len(hist) \in 1..Len(hist)
      BY <1>0, NowType
    <2> QED
      BY <2>1, <2>2 DEF AppleState
  <1>4. HistoryShaped'
    <2>1. ASSUME NEW s \in 1..Len(hist')
          PROVE  /\ Shaped(hist'[s]) /\ hist'[s].began <= s /\ hist'[s].revokedAt <= s
                 /\ hist'[s].period <= state.period
      <3>1. CASE s \in 1..Len(hist)
        <4>1. hist # << >> /\ hist'[s] = hist[s]
          BY <1>0, <1>2, <3>1
        <4>2. hist[s].period <= Now.period /\ Now.period <= state.period
          BY <1>1, <1>a, <3>1, <4>1 DEF HistoryShaped, Follows
        <4> QED
          BY <1>a, <1>3, <3>1, <4>1, <4>2 DEF HistoryShaped
      <3>2. CASE s = Len(hist) + 1
        BY <1>1, <1>2, <1>3, <3>2 DEF Follows
      <3> QED
        BY <1>2, <3>1, <3>2
    <2> QED
      BY <1>2, <2>1 DEF HistoryShaped, Shaped
  <1>5. ASSUME Standing'
        PROVE  /\ state.revokedAt \in 2..Len(hist')
               /\ hist'[state.revokedAt - 1].phase \in {"active", "grace"}
               /\ \A s \in state.revokedAt..Len(hist') :
                     /\ hist'[s].phase = "refunded" /\ hist'[s].period = state.period
                     /\ hist'[s].type \in {"REFUND", "DID_CHANGE_RENEWAL_STATUS"}
               /\ MaxRefunds <= 1 =>
                     \A s \in 1..(state.revokedAt - 1) : hist'[s].phase # "refunded"
    <2>1. CASE /\ state.revokedAt = Len(hist) + 1
               /\ hist # << >> /\ Now.phase \in {"active", "grace"}
               /\ state.type = "REFUND" /\ state.phase = "refunded"
               /\ MaxRefunds <= 1 => \A q \in 1..Len(hist) : hist[q].type # "REFUND"
      <3>1. state.revokedAt \in 2..Len(hist') /\ state.revokedAt - 1 = Len(hist)
        BY <1>2, <1>3, <2>1
      <3>2. hist'[state.revokedAt - 1].phase \in {"active", "grace"}
        BY <1>2, <1>3, <2>1, <3>1 DEF Now
      <3>3. \A s \in state.revokedAt..Len(hist') : s = Len(hist) + 1
        BY <1>2, <2>1
      <3>4. ASSUME MaxRefunds <= 1, NEW s \in 1..(state.revokedAt - 1)
            PROVE  hist'[s].phase # "refunded"
        BY <1>2, <1>a, <2>1, <3>1, <3>4 DEF RefundsAreEvents
      <3> QED
        BY <1>2, <2>1, <3>1, <3>2, <3>3, <3>4
    <2>2. CASE /\ Standing /\ state.phase = "refunded"
               /\ state.type = "DID_CHANGE_RENEWAL_STATUS"
               /\ state.period = Now.period /\ state.revokedAt = Now.revokedAt
      <3> DEFINE r == state.revokedAt
      <3>1. /\ r \in 2..Len(hist)
            /\ hist[r - 1].phase \in {"active", "grace"}
            /\ \A s \in r..Len(hist) :
                  /\ hist[s].phase = "refunded" /\ hist[s].period = state.period
                  /\ hist[s].type \in {"REFUND", "DID_CHANGE_RENEWAL_STATUS"}
            /\ MaxRefunds <= 1 => \A s \in 1..(r - 1) : hist[s].phase # "refunded"
        BY <1>a, <2>2 DEF RefundStands, OnlyRefund
      <3> HIDE DEF r
      <3>2. r \in 2..Len(hist') /\ r - 1 \in 1..Len(hist)
        BY <1>2, <3>1
      <3>3. \A s \in 1..(r - 1) : s \in 1..Len(hist)
        BY <1>2, <3>1
      <3>4. \A s \in r..Len(hist') : s \in r..Len(hist) \/ s = Len(hist) + 1
        BY <1>2, <3>1
      <3>5. \A s \in r..Len(hist) : s \in 1..Len(hist)
        BY <1>2, <3>1
      <3>6. /\ hist'[r - 1].phase \in {"active", "grace"}
            /\ MaxRefunds <= 1 => \A s \in 1..(r - 1) : hist'[s].phase # "refunded"
        BY <1>2, <3>1, <3>2, <3>3
      <3>7. \A s \in r..Len(hist') :
               /\ hist'[s].phase = "refunded" /\ hist'[s].period = state.period
               /\ hist'[s].type \in {"REFUND", "DID_CHANGE_RENEWAL_STATUS"}
        BY <1>2, <2>2, <3>1, <3>4, <3>5
      <3> QED
        BY <3>2, <3>6, <3>7 DEF r
    <2> QED
      BY <1>1, <1>a, <1>5, <2>1, <2>2, StandingNext
  <1>6. RefundStands' /\ OnlyRefund'
    BY <1>2, <1>5 DEF RefundStands, OnlyRefund
  <1>7. RefundsAreEvents'
    <2>1. ASSUME NEW s \in 1..Len(hist'), hist'[s].phase = "refunded"
          PROVE  \E q \in 1..Len(hist') : hist'[q].type = "REFUND"
      <3>1. CASE s \in 1..Len(hist)
        BY <1>2, <1>a, <2>1, <3>1 DEF RefundsAreEvents
      <3>2. CASE s = Len(hist) + 1
        <4>1. state.type = "REFUND" \/ (hist # << >> /\ hist[Len(hist)].phase = "refunded")
          BY <1>1, <1>2, <2>1, <3>2 DEF Follows, Now
        <4> QED
          BY <1>2, <1>3, <1>a, <4>1 DEF RefundsAreEvents
      <3> QED
        BY <1>2, <2>1, <3>1, <3>2
    <2> QED
      BY <2>1 DEF RefundsAreEvents
  <1> QED
    BY <1>4, <1>6, <1>7 DEF HistorySound

(* An event makes no snapshot unsound: none is newer than a refund that begins
   to stand, and none is of the new present. *)
LEMMA AppleNextSnapshots ==
    ASSUME TypeInv, HistoryDated, HistorySound, SnapshotsSound, AppleNext
    PROVE  SnapshotsSound'
  <1>0. hist \in Seq(AppleState)
    BY DEF TypeInv, TypeOK
  <1>a. HistoryShaped /\ RefundStands
    BY DEF HistorySound
  <1>1. PICK state \in AppleState : Happens(state) /\ Follows(state)
    BY <1>a, AppleNextFollows
  <1>b. hist' = Append(hist, state) /\ record' = record /\ work' = work
    BY <1>1 DEF Happens
  <1>2. /\ Len(hist) \in Nat /\ Len(hist') = Len(hist) + 1
        /\ \A s \in 1..Len(hist) : hist'[s] = hist[s] /\ s \in 1..Len(hist')
    BY <1>0, <1>b, Appended
  <1>3. ASSUME Standing', NEW time \in 0..Len(hist), time >= Now'.revokedAt
        PROVE  Standing /\ time >= Now.revokedAt /\ Now'.period = Now.period
    BY <1>1, <1>2, <1>a, <1>3, StandingNext
  <1>5. ASSUME NEW w \in Workers, work[w].pc = "lookup", DecodedSound(work[w])
        PROVE  DecodedSound(work[w])'
    <2>1. work[w].t \in 1..Len(hist)
      BY <1>5 DEF TypeInv, JobTimes, Free
    <2>2. work[w].t \in 0..Len(hist) /\ work[w].t # Len(hist')
      BY <1>2, <2>1
    <2> QED
      BY <1>2, <1>3, <1>5, <1>b, <2>1, <2>2 DEF DecodedSound
  <1>6. record \in Record /\ \A w \in Workers : work[w].sub \in Record
    BY DEF TypeInv, TypeOK, Job
  <1>7. SnapshotSound(record)'
    <2>1. SnapshotSound(record)
      BY DEF SnapshotsSound
    <2> QED
      BY <1>2, <1>3, <1>6, <1>b, <2>1 DEF SnapshotSound, LeavesRefund, RefundIsFinal, SaysApple,
         Record, Time
  <1>8. ASSUME NEW w \in Workers, work[w].pc = "save"
        PROVE  SnapshotSound(work[w].sub)'
    <2>1. SnapshotSound(work[w].sub) /\ work[w].sub \in Record /\ work'[w] = work[w]
      BY <1>6, <1>8, <1>b DEF SnapshotsSound
    <2> QED
      BY <1>2, <1>3, <2>1 DEF SnapshotSound, LeavesRefund, RefundIsFinal, SaysApple,
         Record, Time
  <1> QED
    BY <1>5, <1>7, <1>8, <1>b DEF SnapshotsSound, Free
-----------------------------------------------------------------------------
(* The records the handlers write, once more: what they say of Apple. *)

(* A phase at Apple is what the clock says of it. *)
LEMMA PresentFacts ==
    ASSUME TypeInv, HistoryShaped, hist # << >>
    PROVE  /\ Shaped(Now) /\ Now \in AppleState /\ Len(hist) \in Nat \ {0}
           /\ Now.period \in Nat \ {0} /\ Now.lapsed \in BOOLEAN /\ Now.grace \in BOOLEAN
           /\ Now.phase \in Phase /\ Now.type \in EventType /\ Now.autoRenew \in BOOLEAN
           /\ PaidRunning(Now.period) = ~Now.lapsed
           /\ GraceRunning(Now.period) = Now.grace
           /\ ~GraceRunning(0)
  <1>1. Now \in AppleState /\ Len(hist) \in 1..Len(hist)
    BY NowType DEF TypeInv, TypeOK
  <1>2. Shaped(Now)
    BY <1>1 DEF HistoryShaped, Now
  <1>3. /\ Now.period \in Nat \ {0} /\ Now.lapsed \in BOOLEAN /\ Now.grace \in BOOLEAN
        /\ Now.phase \in Phase /\ Now.type \in EventType /\ Now.autoRenew \in BOOLEAN
    BY <1>1, <1>2 DEF AppleState, Shaped
  <1> QED
    BY <1>1, <1>2, <1>3 DEF PaidRunning, GraceRunning

(* The status the gate decodes for a notification. *)
LEMMA NotificationDecoded ==
    ASSUME TypeInv, HistorySound, NEW t \in 1..Len(hist)
    PROVE  LET status == FinalStatus(hist[t].type, DeriveStatus(hist[t], TRUE))
           IN  /\ Standing /\ t >= Now.revokedAt => status = "canceled"
               /\ t = Len(hist) =>
                    (IsSubscriptionEntitled(status, PaidRunning(Now.period),
                         GraceRunning(IF status = "grace_period" /\ Now.grace
                                      THEN Now.period ELSE 0))
                     <=> Now.phase \in {"active", "grace"})
  <1> DEFINE status == FinalStatus(hist[t].type, DeriveStatus(hist[t], TRUE))
  <1>0. HistoryShaped /\ RefundStands /\ hist # << >> /\ Len(hist) \in Nat
    BY DEF HistorySound, TypeInv, TypeOK
  <1>1. ASSUME Standing, t >= Now.revokedAt PROVE status = "canceled"
    <2>1. Now.revokedAt \in 2..Len(hist) /\ t \in Now.revokedAt..Len(hist)
      BY <1>0, <1>1 DEF RefundStands
    <2>2. hist[t].phase = "refunded" /\ hist[t].type \in {"REFUND", "DID_CHANGE_RENEWAL_STATUS"}
      BY <1>0, <1>1, <2>1 DEF RefundStands
    <2> QED
      BY <2>2 DEF FinalStatus, DeriveStatus
  <1>2. ASSUME t = Len(hist)
        PROVE  IsSubscriptionEntitled(status, PaidRunning(Now.period),
                   GraceRunning(IF status = "grace_period" /\ Now.grace
                                THEN Now.period ELSE 0))
               <=> Now.phase \in {"active", "grace"}
    <2>1. status = FinalStatus(Now.type, DeriveStatus(Now, TRUE))
      BY <1>2 DEF Now
    <2>2. /\ Shaped(Now) /\ Now.lapsed \in BOOLEAN /\ Now.grace \in BOOLEAN
          /\ Now.phase \in Phase /\ Now.type \in EventType
          /\ PaidRunning(Now.period) = ~Now.lapsed
          /\ GraceRunning(Now.period) = Now.grace
          /\ ~GraceRunning(0)
      BY <1>0, PresentFacts
    <2>3. CASE Now.type \in {"SUBSCRIBED", "DID_RENEW"}
      BY <2>1, <2>2, <2>3 DEF FinalStatus, Shaped, IsSubscriptionEntitled, EntitledStatus
    <2>4. CASE Now.type = "DID_FAIL_TO_RENEW.GRACE_PERIOD"
      BY <2>1, <2>2, <2>4 DEF FinalStatus, Shaped, IsSubscriptionEntitled, EntitledStatus
    <2>5. CASE Now.type \in {"DID_FAIL_TO_RENEW", "GRACE_PERIOD_EXPIRED", "REFUND", "EXPIRED"}
      BY <2>1, <2>2, <2>5 DEF FinalStatus, Shaped, IsSubscriptionEntitled, EntitledStatus
    <2>6. CASE Now.type \in {"REFUND_REVERSED", "DID_CHANGE_RENEWAL_STATUS"}
      <3>1. status = DeriveStatus(Now, TRUE)
        BY <2>1, <2>6 DEF FinalStatus
      <3> QED
        BY <2>2, <3>1 DEF DeriveStatus, Shaped, Phase, IsSubscriptionEntitled, EntitledStatus
    <2> QED
      BY <2>2, <2>3, <2>4, <2>5, <2>6 DEF EventType
  <1> QED
    BY <1>1, <1>2

LEMMA ReceiptDecoded ==
    ASSUME NEW state
    PROVE  DeriveStatus(state, FALSE) = "canceled" <=> state.phase = "refunded"
  BY DEF DeriveStatus

LEMMA NotificationSays ==
    ASSUME TypeInv, HistorySound, SnapshotsSound, NEW w \in Workers, LookupKnown(w),
           work[w].status \in Status
    PROVE  SnapshotSound(NotificationUpdate(record, work[w].t, work[w].status))
  <1> DEFINE t == work[w].t
             status == work[w].status
             sub == NotificationUpdate(record, t, status)
  <1>0. /\ HistoryShaped /\ RefundStands /\ hist # << >>
        /\ t \in 1..Len(hist) /\ Len(hist) \in Nat /\ hist[t] \in AppleState
        /\ record \in Record /\ record.asOf \in Nat
    <2>1. t \in 1..Len(hist) /\ hist \in Seq(AppleState) /\ record \in Record
      BY DEF TypeInv, TypeOK, JobTimes, LookupKnown, WebhookAt, Free
    <2> QED
      BY <2>1 DEF HistorySound, Record, Time
  <1>1. LaterStateAsOf(record.asOf, t) = t
    BY <1>0 DEF LookupKnown, IsStaleSnapshot, LaterStateAsOf, NoTime
  <1>2. DecodedSound(work[w]) /\ work[w].kind = "webhook"
    BY DEF SnapshotsSound, LookupKnown, WebhookAt
  <1>3. CASE hist[t].type = "REFUND" /\ RefundPolicy = "until_expiry"
    <2>1. sub.asOf = t /\ sub.grace = 0
      BY <1>0, <1>1, <1>3 DEF NotificationUpdate, Record
    <2> QED
      BY <1>0, <1>3, <2>1 DEF SnapshotSound, LeavesRefund, SaysApple
  <1>4. CASE ~(hist[t].type = "REFUND" /\ RefundPolicy = "until_expiry")
    <2>1. /\ sub.asOf = t /\ sub.status = status
          /\ sub.exp = hist[t].period /\ sub.willRenew = hist[t].autoRenew
          /\ sub.grace = IF status = "grace_period" /\ hist[t].grace
                         THEN hist[t].period ELSE 0
      BY <1>1, <1>4 DEF NotificationUpdate
    <2>2. ASSUME Standing, t >= Now.revokedAt
          PROVE  status = "canceled" /\ hist[t].period = Now.period
      <3>1. t \in Now.revokedAt..Len(hist)
        BY <1>0, <2>2 DEF RefundStands
      <3> QED
        BY <1>0, <1>2, <2>2, <3>1 DEF RefundStands, DecodedSound
    <2>3. LeavesRefund(sub)
      BY <2>1, <2>2 DEF LeavesRefund
    <2>4. ASSUME RefundPolicy = "immediate", t = Len(hist)
          PROVE  Entitled(sub) <=> EntitledAtApple(Now)
      <3>1. hist[t] = Now
        BY <2>4 DEF Now
      <3>2. Entitled(sub) <=> Now.phase \in {"active", "grace"}
        BY <1>2, <2>1, <2>4, <3>1 DEF DecodedSound, Entitled
      <3> QED
        BY <2>4, <3>2 DEF EntitledAtApple
    <2>5. SaysApple(sub)
      BY <1>0, <2>1, <2>4 DEF SaysApple
    <2> QED
      BY <1>0, <2>1, <2>3, <2>5 DEF SnapshotSound
  <1> QED
    BY <1>3, <1>4

LEMMA LiveSays ==
    ASSUME TypeInv, HistoryShaped, hist # << >>
    PROVE  SnapshotSound(LiveRecord)
  <1>1. /\ Shaped(Now) /\ Len(hist) \in Nat \ {0} /\ Now.phase \in Phase
        /\ PaidRunning(Now.period) = ~Now.lapsed /\ GraceRunning(Now.period) = Now.grace
        /\ ~GraceRunning(0)
    BY PresentFacts
  <1>2. /\ LiveRecord.asOf = Len(hist) /\ LiveRecord.exp = Now.period
        /\ LiveRecord.willRenew = Now.autoRenew
        /\ LiveRecord.grace = IF Now.phase = "grace" THEN Now.period ELSE 0
    BY DEF LiveRecord
  <1>3. LiveRecord.status = CASE Now.phase = "active" -> "active"
                              [] Now.phase = "grace" -> "grace_period"
                              [] Now.phase = "hold" -> "on_hold"
                              [] Now.phase = "refunded" -> "canceled"
                              [] Now.phase = "expired" -> "expired"
    BY DEF LiveRecord
  <1>4. LeavesRefund(LiveRecord)
    BY <1>2, <1>3 DEF LeavesRefund, Standing
  <1>5. Entitled(LiveRecord) <=> Now.phase \in {"active", "grace"}
    BY <1>1, <1>2, <1>3 DEF Entitled, IsSubscriptionEntitled, EntitledStatus, Phase, Shaped
  <1>6. SaysApple(LiveRecord)
    BY <1>1, <1>2, <1>5 DEF SaysApple, EntitledAtApple, Now
  <1> QED
    BY <1>1, <1>2, <1>4, <1>6 DEF SnapshotSound

(* A receipt merged with what is stored: an old one cannot end a refund that
   stands, and a revoked one is the refund. *)
LEMMA ValidateSays ==
    ASSUME TypeInv, HistorySound, NEW existing \in Record, SnapshotSound(existing),
           NEW t \in 1..Len(hist), NEW status \in Status, NEW user \in Users,
           status = "canceled" <=> hist[t].phase = "refunded"
    PROVE  LET incoming == ReceiptRecord(t, status, user)
               sub == ValidateUpdate(existing, incoming, user, t)
           IN  /\ sub \in Record /\ sub.userId = user /\ sub.asOf <= Len(hist)
               /\ RefundIsFinal /\ Standing /\ sub.asOf >= Now.revokedAt =>
                    /\ sub.grace = 0
                    /\ RefundPolicy = "immediate" =>
                          sub.status = "canceled" /\ sub.exp = Now.period
  <1> DEFINE incoming == ReceiptRecord(t, status, user)
             sub == ValidateUpdate(existing, incoming, user, t)
             keeps == KeepsStoredAppleState(existing, incoming, user, t)
  <1>0. /\ HistoryShaped /\ RefundStands /\ OnlyRefund
        /\ Len(hist) \in Nat /\ t \in Nat
        /\ hist[t] \in AppleState /\ hist # << >>
        /\ existing.asOf \in Nat /\ existing.asOf <= Len(hist)
    BY DEF HistorySound, TypeInv, TypeOK, Record, Time, SnapshotSound
  <1>a. /\ hist[t].began \in Nat /\ hist[t].revokedAt \in Nat
        /\ hist[t].began <= t /\ hist[t].revokedAt <= t
        /\ hist[t].period \in Nat /\ hist[t].period <= Now.period
    BY <1>0 DEF HistoryShaped, AppleState, Time
  <1>1. incoming \in Record
    BY ReceiptRecordType DEF TypeInv, TypeOK, Owners
  <1>2. /\ incoming.status = status /\ incoming.grace = 0 /\ incoming.exp = hist[t].period
        /\ incoming.userId = user /\ incoming.asOf \in Nat /\ incoming.asOf <= t
    BY <1>a DEF ReceiptRecord, LaterStateAsOf
  <1> HIDE DEF incoming
  <1>3. sub \in Record
    BY <1>1, ValidateUpdateType
  <1>4. /\ sub.asOf = LaterStateAsOf(existing.asOf, incoming.asOf) /\ sub.userId = user
        /\ keeps => /\ sub.status = existing.status /\ sub.exp = existing.exp
                    /\ sub.grace = existing.grace
        /\ ~keeps => /\ sub.status = status /\ sub.exp = hist[t].period /\ sub.grace = 0
    BY <1>1, <1>2 DEF ValidateUpdate, Kept, Record
  <1>5. sub.asOf <= Len(hist)
    BY <1>0, <1>2, <1>4 DEF LaterStateAsOf
  <1>6. keeps => status # "canceled"
    BY <1>2 DEF KeepsStoredAppleState
  <1>7. ASSUME RefundIsFinal, Standing, sub.asOf >= Now.revokedAt
        PROVE  /\ sub.grace = 0
               /\ RefundPolicy = "immediate" => sub.status = "canceled" /\ sub.exp = Now.period
    <2>1. Now.revokedAt \in 2..Len(hist)
      BY <1>0, <1>7 DEF RefundStands
    <2>2. CASE t >= Now.revokedAt
      <3>1. t \in Now.revokedAt..Len(hist)
        BY <1>0, <2>1, <2>2
      <3>2. status = "canceled" /\ hist[t].period = Now.period
        BY <1>0, <1>7, <3>1 DEF RefundStands
      <3> QED
        BY <1>4, <1>6, <3>2
    <2>3. CASE ~(t >= Now.revokedAt)
      <3>1. existing.asOf >= Now.revokedAt /\ t <= existing.asOf /\ existing.asOf # NoTime
        BY <1>0, <1>2, <1>4, <1>7, <2>1, <2>3 DEF LaterStateAsOf, NoTime
      <3>2. /\ existing.grace = 0
            /\ RefundPolicy = "immediate" =>
                  existing.status = "canceled" /\ existing.exp = Now.period
        BY <1>7, <3>1 DEF SnapshotSound, LeavesRefund
      <3>3. sub.grace = 0
        BY <1>4, <3>2
      <3>4. ASSUME RefundPolicy = "immediate"
            PROVE  sub.status = "canceled" /\ sub.exp = Now.period
        <4>1. hist[t].phase # "refunded"
          <5>1. MaxRefunds <= 1 /\ t \in 1..(Now.revokedAt - 1)
            BY <1>0, <1>7, <2>1, <2>3, <3>4 DEF RefundIsFinal
          <5> QED
            BY <1>0, <1>7, <5>1 DEF OnlyRefund
        <4>2. keeps
          BY <1>2, <1>a, <3>1, <3>2, <3>4, <4>1 DEF KeepsStoredAppleState
        <4> QED
          BY <1>4, <3>2, <3>4, <4>2
      <3> QED
        BY <3>3, <3>4
    <2> QED
      BY <2>2, <2>3
  <1> QED
    BY <1>3, <1>4, <1>5, <1>7 DEF incoming
-----------------------------------------------------------------------------
(* The second invariant is inductive beside the first. *)

LEMMA InitFInv == Init => FInv
  <1> SUFFICES ASSUME Init PROVE FInv
    OBVIOUS
  <1>1. /\ hist = << >> /\ record.status = "none" /\ record.asOf = 0
        /\ Len(hist) = 0 /\ \A w \in Workers : work[w].pc = "idle"
    BY DEF Init, NoRecord, NoJob, NoTime
  <1>2. HistorySound
    BY <1>1 DEF HistorySound, HistoryShaped, RefundStands, RefundsAreEvents, OnlyRefund, Standing
  <1>3. SnapshotsSound
    BY <1>1 DEF SnapshotsSound, SnapshotSound, LeavesRefund, Standing, Free
  <1> QED
    BY <1>2, <1>3 DEF FInv

(* A handler leaves the history alone, and the work of the others. *)
JobSays(job) ==
    /\ job.pc = "lookup" => DecodedSound(job)
    /\ job.pc = "save" => SnapshotSound(job.sub)
    /\ job.kind = "validate" /\ job.pc # "idle" => job.user \in Users

LEMMA SnapshotsStep ==
    ASSUME TypeInv, SnapshotsSound, NEW w \in Workers, NEW job, JobSays(job),
           work' = [work EXCEPT ![w] = job], hist' = hist, SnapshotSound(record')
    PROVE  SnapshotsSound'
  <1>1. work \in [Workers -> Job] /\ \A v \in Workers : JobSays(work[v])
    BY DEF TypeInv, TypeOK, SnapshotsSound, JobSays, Free
  <1>2. \A v \in Workers : JobSays(work'[v])
    BY <1>1
  <1>3. SnapshotSound(record)'
    BY DEF SnapshotSound, LeavesRefund, RefundIsFinal, Standing, SaysApple, Entitled,
       EntitledAtApple, PaidRunning, GraceRunning, Now
  <1>4. ASSUME NEW v \in Workers PROVE JobSays(work[v])'
    <2>1. JobSays(work'[v])
      BY <1>2
    <2>2. work'[v].pc = "lookup" => DecodedSound(work[v])'
      BY <2>1 DEF JobSays, DecodedSound, Standing, PaidRunning, GraceRunning, Now
    <2>3. work'[v].pc = "save" => SnapshotSound(work[v].sub)'
      BY <2>1 DEF JobSays, SnapshotSound, LeavesRefund, RefundIsFinal, Standing, SaysApple,
         Entitled, EntitledAtApple, PaidRunning, GraceRunning, Now
    <2> QED
      BY <2>1, <2>2, <2>3 DEF JobSays
  <1> QED
    BY <1>3, <1>4 DEF SnapshotsSound, JobSays, Free

LEMMA HandlerNextSnapshots ==
    ASSUME IInv, FInv, NEW w \in Workers, HandlerNext(w)
    PROVE  SnapshotsSound'
  <1>0. /\ TypeInv /\ HistorySound /\ HistoryShaped /\ RefundStands /\ SnapshotsSound
        /\ record \in Record /\ SnapshotSound(record)
        /\ hist \in Seq(AppleState) /\ Len(hist) \in Nat
        /\ work \in [Workers -> Job] /\ work[w] \in Job
        /\ ~Free(w) => work[w].t \in 1..Len(hist) /\ hist # << >>
        /\ JobSound(work[w])
    BY DEF IInv, FInv, TypeInv, TypeOK, JobTimes, HistorySound, SnapshotsSound, JobsSound
  <1>a. JobSays(work[w])
    BY <1>0 DEF SnapshotsSound, JobSays, Free
  <1>b. JobSays(NoJob)
    BY DEF JobSays, NoJob
  <1>1. ASSUME NEW t \in 1..MaxEvents, Deliver(w, t)
        PROVE  SnapshotsSound'
    <2> DEFINE status == FinalStatus(hist[t].type, DeriveStatus(hist[t], TRUE))
               job == [NoJob EXCEPT !.pc = "lookup", !.t = t, !.status = status]
    <2>1. /\ job.pc = "lookup" /\ job.kind = "webhook" /\ job.t = t /\ job.status = status
          /\ t \in 1..Len(hist)
      BY <1>1 DEF NoJob, Deliver
    <2>2. work' = [work EXCEPT ![w] = job] /\ hist' = hist /\ record' = record
      BY <1>1 DEF Deliver
    <2>3. /\ Standing /\ t >= Now.revokedAt => status = "canceled"
          /\ t = Len(hist) =>
               (IsSubscriptionEntitled(status, PaidRunning(Now.period),
                    GraceRunning(IF status = "grace_period" /\ Now.grace
                                 THEN Now.period ELSE 0))
                <=> Now.phase \in {"active", "grace"})
      BY <1>0, <2>1, NotificationDecoded
    <2> HIDE DEF job, status
    <2>4. JobSays(job)
      BY <2>1, <2>3 DEF JobSays, DecodedSound
    <2> QED
      BY <1>0, <2>2, <2>4, SnapshotsStep
  <1>2. ASSUME NEW user \in Users, NEW t \in 1..MaxEvents, PostReceipt(w, user, t)
        PROVE  SnapshotsSound'
    <2> DEFINE job == [NoJob EXCEPT !.pc = "lookup", !.kind = "validate", !.t = t,
                                    !.user = user, !.status = DeriveStatus(hist[t], FALSE)]
    <2>1. /\ job.pc = "lookup" /\ job.kind = "validate" /\ job.t = t /\ job.user = user
          /\ job.status = DeriveStatus(hist[t], FALSE)
      BY DEF NoJob
    <2>2. work' = [work EXCEPT ![w] = job] /\ hist' = hist /\ record' = record
      BY <1>2 DEF PostReceipt
    <2> HIDE DEF job
    <2>3. JobSays(job)
      BY <2>1, ReceiptDecoded DEF JobSays, DecodedSound
    <2> QED
      BY <1>0, <2>2, <2>3, SnapshotsStep
  <1>3. ASSUME work' = [work EXCEPT ![w] = NoJob], hist' = hist, SnapshotSound(record')
        PROVE  SnapshotsSound'
    BY <1>0, <1>3, <1>b, SnapshotsStep
  <1>4. CASE IgnoreStale(w) \/ FetchFails(w) \/ Throw(w)
    BY <1>0, <1>3, <1>4 DEF IgnoreStale, FetchFails, Throw
  <1>5. CASE LookupKnown(w)
    <2> DEFINE sub == NotificationUpdate(record, work[w].t, work[w].status)
               job == [work[w] EXCEPT !.pc = "save", !.status = "none", !.sub = sub]
    <2>1. SnapshotSound(sub)
      BY <1>0, <1>5, NotificationSays DEF JobSound, LookupKnown, WebhookAt
    <2>2. work' = [work EXCEPT ![w] = job] /\ hist' = hist /\ record' = record
      BY <1>0, <1>5 DEF LookupKnown
    <2>3. job.pc = "save" /\ job.sub = sub /\ job.kind = "webhook"
      BY <1>0, <1>5 DEF LookupKnown, WebhookAt, Job
    <2> HIDE DEF job, sub
    <2>4. JobSays(job)
      BY <2>1, <2>3 DEF JobSays
    <2> QED
      BY <1>0, <2>2, <2>4, SnapshotsStep
  <1>6. CASE LookupUnknown(w)
    <2> DEFINE job == [work[w] EXCEPT !.pc = "fetch", !.status = "none"]
    <2>1. job.pc = "fetch" /\ job.kind = "webhook"
      BY <1>0, <1>6 DEF LookupUnknown, WebhookAt, Job
    <2>2. JobSays(job)
      BY <2>1 DEF JobSays
    <2>3. /\ hist' = hist /\ record' = record
          /\ work' = [work EXCEPT ![w] = job] \/ work' = [work EXCEPT ![w] = NoJob]
      BY <1>0, <1>6 DEF LookupUnknown
    <2> HIDE DEF job
    <2> QED
      BY <1>0, <1>3, <2>2, <2>3, SnapshotsStep
  <1>7. CASE FetchLive(w)
    <2> DEFINE job == [work[w] EXCEPT !.pc = "save", !.sub = LiveRecord]
    <2>1. SnapshotSound(LiveRecord)
      BY <1>0, <1>7, LiveSays DEF FetchLive, Free
    <2>2. work' = [work EXCEPT ![w] = job] /\ hist' = hist /\ record' = record
      BY <1>0, <1>7 DEF FetchLive
    <2>3. job.pc = "save" /\ job.sub = LiveRecord /\ job.kind = "webhook"
      BY <1>0, <1>7 DEF FetchLive, JobSound, Job
    <2> HIDE DEF job
    <2>4. JobSays(job)
      BY <2>1, <2>3 DEF JobSays
    <2> QED
      BY <1>0, <2>2, <2>4, SnapshotsStep
  <1>8. CASE ValidateLookup(w) \/ ValidateLookupFails(w)
    <2> DEFINE t == work[w].t
               user == work[w].user
               incoming == ReceiptRecord(t, work[w].status, user)
               updated == ValidateUpdate(record, incoming, user, t)
               timeless == [incoming EXCEPT !.asOf = NoTime]
    <2>1. /\ t \in 1..Len(hist) /\ work[w].status \in Status /\ user \in Users
          /\ work[w].kind = "validate"
          /\ work[w].status = "canceled" <=> hist[t].phase = "refunded"
      BY <1>0, <1>8, <1>a DEF ValidateLookup, ValidateLookupFails, ValidateAt, Free, JobSound,
         JobSays, DecodedSound
    <2>2. incoming \in Record
      BY <1>0, <2>1, ReceiptRecordType DEF Owners
    <2>3. ASSUME NEW sub \in Record, sub.userId = user, sub.asOf <= Len(hist),
                 RefundIsFinal /\ Standing /\ sub.asOf >= Now.revokedAt =>
                    /\ sub.grace = 0
                    /\ RefundPolicy = "immediate" =>
                          sub.status = "canceled" /\ sub.exp = Now.period,
                 work' = [work EXCEPT ![w] = [work[w] EXCEPT !.pc = "save", !.status = "none",
                                                !.sub = Overridden(sub, user)]],
                 hist' = hist, record' = record
          PROVE  SnapshotsSound'
      <3> DEFINE job == [work[w] EXCEPT !.pc = "save", !.status = "none",
                                        !.sub = Overridden(sub, user)]
      <3>1. /\ Overridden(sub, user).userId = user
            /\ Overridden(sub, user).asOf = sub.asOf
            /\ Overridden(sub, user).grace = sub.grace
            /\ SandboxOverride = {} => Overridden(sub, user) = sub
        BY <2>3 DEF Overridden, Record
      <3>2. user # Placeholder
        BY <2>1, PlaceholderAssumption
      <3>3. SnapshotSound(Overridden(sub, user))
        BY <2>3, <3>1, <3>2 DEF SnapshotSound, LeavesRefund, SaysApple, RefundIsFinal
      <3>4. job.pc = "save" /\ job.sub = Overridden(sub, user) /\ job.user = user
        BY <1>0 DEF Job
      <3>5. work' = [work EXCEPT ![w] = job]
        BY <2>3
      <3> HIDE DEF job
      <3>6. JobSays(job)
        BY <2>1, <3>3, <3>4 DEF JobSays
      <3> QED
        BY <1>0, <2>3, <3>5, <3>6, SnapshotsStep
    <2>4. CASE ValidateLookup(w)
      <3>1. /\ updated \in Record /\ updated.userId = user /\ updated.asOf <= Len(hist)
            /\ RefundIsFinal /\ Standing /\ updated.asOf >= Now.revokedAt =>
                 /\ updated.grace = 0
                 /\ RefundPolicy = "immediate" =>
                       updated.status = "canceled" /\ updated.exp = Now.period
        BY <1>0, <2>1, ValidateSays
      <3>2. /\ work' = [work EXCEPT ![w] = [work[w] EXCEPT !.pc = "save", !.status = "none",
                                              !.sub = Overridden(updated, user)]]
            /\ hist' = hist /\ record' = record
        BY <1>0, <2>4 DEF ValidateLookup
      <3> HIDE DEF updated, user
      <3> QED
        BY <2>3, <3>1, <3>2
    <2>5. CASE ValidateLookupFails(w)
      <3>1. timeless \in Record /\ timeless.asOf = 0 /\ timeless.userId = user
        BY <2>2 DEF Record, Time, NoTime, ReceiptRecord
      <3>2. /\ timeless.asOf <= Len(hist)
            /\ ~(Standing /\ timeless.asOf >= Now.revokedAt)
        BY <1>0, <3>1 DEF RefundStands
      <3>3. /\ work' = [work EXCEPT ![w] = [work[w] EXCEPT !.pc = "save", !.status = "none",
                                              !.sub = Overridden(timeless, user)]]
            /\ hist' = hist /\ record' = record
        BY <1>0, <2>5 DEF ValidateLookupFails
      <3> HIDE DEF timeless, user
      <3> QED
        BY <2>3, <3>1, <3>2, <3>3
    <2> QED
      BY <1>8, <2>4, <2>5
  <1>9. CASE WebhookSave(w) \/ ValidateSave(w)
    <2>1. /\ work' = [work EXCEPT ![w] = NoJob] /\ hist' = hist
          /\ record' = record \/ record' = work[w].sub
          /\ work[w].pc = "save"
      BY <1>9 DEF WebhookSave, ValidateSave, WebhookAt, ValidateAt, Saved
    <2>2. SnapshotSound(work[w].sub)
      BY <1>a, <2>1 DEF JobSays
    <2>3. SnapshotSound(record')
      BY <1>0, <2>1, <2>2
    <2> QED
      BY <1>3, <2>1, <2>3
  <1> QED
    BY <1>1, <1>2, <1>4, <1>5, <1>6, <1>7, <1>8, <1>9 DEF HandlerNext

LEMMA NextFInv == IInv /\ FInv /\ [Next]_vars => FInv'
  <1> SUFFICES ASSUME IInv, FInv, [Next]_vars PROVE FInv'
    OBVIOUS
  <1>0. TypeInv /\ HistoryDated /\ HistorySound /\ SnapshotsSound
    BY DEF IInv, FInv
  <1>1. ASSUME hist' = hist PROVE HistorySound'
    BY <1>0, <1>1 DEF HistorySound, HistoryShaped, RefundStands, RefundsAreEvents, OnlyRefund,
       Standing, Shaped, Now
  <1>2. CASE AppleNext
    BY <1>0, <1>2, AppleNextHistory, AppleNextSnapshots DEF FInv
  <1>3. ASSUME NEW w \in Workers, HandlerNext(w) PROVE FInv'
    <2>1. hist' = hist
      BY <1>3 DEF HandlerNext, Deliver, PostReceipt, IgnoreStale, LookupKnown, LookupUnknown,
         FetchLive, FetchFails, ValidateLookup, ValidateLookupFails, WebhookSave,
         ValidateSave, Throw
    <2> QED
      BY <1>1, <1>3, <2>1, HandlerNextSnapshots DEF FInv
  <1>4. CASE UNCHANGED vars
    <2>1. hist' = hist /\ record' = record /\ work' = work
      BY <1>4 DEF vars
    <2>2. SnapshotsSound'
      BY <1>0, <2>1 DEF SnapshotsSound, SnapshotSound, LeavesRefund, RefundIsFinal, Standing,
         SaysApple, Entitled, EntitledAtApple, PaidRunning, GraceRunning, Now, DecodedSound, Free
    <2> QED
      BY <1>1, <2>1, <2>2 DEF FInv
  <1> QED
    BY <1>2, <1>3, <1>4 DEF Next

LEMMA InductiveToo == Spec => [](IInv /\ FInv)
  <1>1. Init => IInv /\ FInv
    BY InitIInv, InitFInv
  <1>2. IInv /\ FInv /\ [Next]_vars => (IInv /\ FInv)'
    BY NextIInv, NextFInv
  <1> QED
    BY <1>1, <1>2, PTL DEF Spec
-----------------------------------------------------------------------------
(* Lost access stays lost (processAppleNotification's stale check,
   keepsStoredAppleState and the store's guard together), if the refund that
   took it is the only one, or refunds leave the paid time alone.  With two
   refunds and access cut at once it is false: AppleRefundUndone.cfg. *)
THEOREM LossIsFinal ==
    ASSUME RefundIsFinal
    PROVE  Spec => []LossSticks
  <1>1. IInv /\ FInv => LossSticks
    <2> SUFFICES ASSUME IInv, FInv, ~LookupMayFail, NEW t \in applied, Entitled(record),
                        \A s \in t..Len(hist) : ~EntitledAtApple(hist[s])
                 PROVE  FALSE
      BY DEF LossSticks
    <2>0. /\ HistoryShaped /\ RefundStands /\ SnapshotSound(record) /\ TypeInv
          /\ t <= record.asOf /\ record.asOf <= Len(hist)
          /\ t \in Nat /\ record.asOf \in Nat /\ Len(hist) \in Nat
      BY DEF IInv, FInv, HistorySound, SnapshotsSound, SnapshotSound, RecordInv,
         ProcessedIsRemembered, TypeInv, TypeOK, Record, Time
    <2>1. hist # << >>
      BY DEF Entitled, IsSubscriptionEntitled, PaidRunning, GraceRunning
    <2>2. /\ Shaped(Now) /\ Now.lapsed \in BOOLEAN /\ Now.grace \in BOOLEAN
          /\ Now.phase \in Phase /\ ~GraceRunning(0)
      BY <2>0, <2>1, PresentFacts
    <2>3. ~Now.lapsed \/ Now.grace
      BY DEF Entitled, IsSubscriptionEntitled, PaidRunning, GraceRunning
    <2>4. ~EntitledAtApple(Now)
      BY <2>0 DEF Now
    <2>5. Standing
      BY <2>1, <2>2, <2>3, <2>4 DEF EntitledAtApple, Shaped, Phase, Standing
    <2>6. /\ Now.revokedAt \in 2..Len(hist)
          /\ hist[Now.revokedAt - 1].phase \in {"active", "grace"}
      BY <2>0, <2>5 DEF RefundStands
    <2>7. t >= Now.revokedAt
      <3>1. EntitledAtApple(hist[Now.revokedAt - 1])
        BY <2>6 DEF EntitledAtApple
      <3> QED
        BY <2>0, <2>6, <3>1
    <2>8. /\ record.grace = 0
          /\ RefundPolicy = "immediate" => record.status = "canceled"
      BY <2>0, <2>5, <2>6, <2>7 DEF SnapshotSound, LeavesRefund
    <2>9. CASE RefundPolicy = "immediate"
      BY <2>8, <2>9 DEF Entitled, IsSubscriptionEntitled, EntitledStatus
    <2>10. CASE RefundPolicy = "until_expiry"
      <3>1. Now.lapsed
        BY <2>4, <2>5, <2>10 DEF EntitledAtApple, Standing
      <3> QED
        BY <2>2, <2>8, <3>1 DEF Entitled, IsSubscriptionEntitled, PaidRunning
    <2> QED
      BY <2>9, <2>10, ConfigAssumption
  <1> QED
    BY <1>1, InductiveToo, PTL

(* Once every notification has been processed, a record that webhooks wrote
   says what Apple says, whichever order they came in (processAppleNotification,
   where refunds cut access at once and no store lookup of a receipt fails). *)
THEOREM RecordConverges ==
    ASSUME RefundPolicy = "immediate", ~LookupMayFail
    PROVE  Spec => []Converged
  <1>1. IInv /\ FInv => Converged
    <2> SUFFICES ASSUME IInv, FInv, applied = 1..Len(hist), record.status # "none",
                        record.userId = Placeholder
                 PROVE  /\ Entitled(record) <=> EntitledAtApple(Now)
                        /\ record.exp = Now.period /\ record.willRenew = Now.autoRenew
      BY DEF Converged, Quiescent
    <2>1. /\ SnapshotSound(record) /\ Len(hist) \in Nat
          /\ \A t \in applied : t <= record.asOf
      BY DEF IInv, FInv, SnapshotsSound, RecordInv, ProcessedIsRemembered, TypeInv, TypeOK
    <2>2. /\ record.asOf \in 1..Len(hist)
          /\ record.exp = hist[record.asOf].period
          /\ record.willRenew = hist[record.asOf].autoRenew
          /\ record.asOf = Len(hist) => (Entitled(record) <=> EntitledAtApple(Now))
      BY <2>1 DEF SnapshotSound, SaysApple
    <2>3. record.asOf = Len(hist)
      BY <2>1, <2>2
    <2> QED
      BY <2>2, <2>3 DEF Now
  <1> QED
    BY <1>1, InductiveToo, PTL
=============================================================================
