---------------------- MODULE GoogleSubscriptionProofs ----------------------
(***************************************************************************)
(* Theorems about GoogleSubscription, for every set of handlers and users, *)
(* every way the purchase is bound to accounts, and histories of any       *)
(* length.                                                                 *)
(*                                                                         *)
(* IInv is the inductive invariant:                                        *)
(*   TypeOK                 the types                                      *)
(*   HistorySound           what may follow what at Play                   *)
(*   JobsSound              what each handler holds is owned, and current  *)
(*                          at a time that is not ahead of the clock       *)
(*   RecordSound            so is the record                               *)
(*   AppliedHappened        only what happened is processed                *)
(*   ProcessedIsRemembered  the record is not behind what was processed    *)
(*                                                                         *)
(* The properties speak of moments: after a refund, at rest.  Current says *)
(* of a record and the time it claims what has to hold at every moment: if *)
(* it grants access, that time is before every refund; if that time is     *)
(* after the latest event, the record mirrors Play.  An event that happens *)
(* later than the time keeps this, and the store's guard lets the time of  *)
(* the record only grow, so that a save that comes late, with older state, *)
(* is either refused or still current.                                     *)
(***************************************************************************)
EXTENDS GoogleSubscription, TLAPS

RefundAt(t) == hist[t].type \in {"REVOKED", "VOIDED"}

(* Nothing but its own voided purchase follows a revocation, and a state in
   which Play grants access, or may again, has paid time left. *)
HistorySound ==
    \A r \in 1..Len(hist) :
        /\ RefundAt(r) <=> hist[r].phase = "revoked"
        /\ RefundAt(r) => \A t \in r..Len(hist) : RefundAt(t)
        /\ hist[r].type = "IN_GRACE_PERIOD" => hist[r].phase = "grace"
        /\ hist[r].type = "ON_HOLD" => hist[r].phase = "hold"
        /\ hist[r].phase \in {"active", "canceled", "grace"} => hist[r].passed < hist[r].exp

(* The store's guard has judged every write so far. *)
Judged == "unjudged" \notin doubts

Mirrors(rec) ==
    /\ Now.phase # "canceled" => (Entitled(rec) <=> Now.phase \in Granting)
    /\ Entitled(rec) => rec.willRenew = Now.autoRenew

(* A record that grants access tells of a time before any refund; one that tells
   of a time after all that happened mirrors Play. *)
Current(rec, time) ==
    RefundPolicy = "immediate" =>
        /\ rec.status \in EntitledStatus
               => \A r \in 1..Len(hist) : RefundAt(r) => time < EventTime(r)
        /\ doubts = {} /\ hist # << >> /\ EventTime(Len(hist)) <= time => Mirrors(rec)

Owned(rec) ==
    /\ rec.status # "none"
    /\ BoundAccount # NoAccount => rec.userId \in {BoundAccount, LinkedUser}

NotificationSound(job) ==
    /\ job.t \in 1..Len(hist)
    /\ job.kind = "voided" <=> hist[job.t].type = "VOIDED"
    /\ job.pc = "lookup" => job.sub.status = "none"
    /\ job.pc = "read" =>
         /\ job.kind = "rtdn"
         /\ EventTime(job.t) <= job.stamp /\ job.stamp <= ReadTime
         /\ job.sub.status # "none" =>
              /\ Owned(job.sub)
              /\ job.sub.asOf <= job.stamp
              /\ Judged => job.sub.asOf <= record.asOf
    /\ job.pc = "save" =>
         /\ Owned(job.sub)
         /\ EventTime(job.t) <= job.sub.asOf /\ job.sub.asOf <= ReadTime
         /\ Judged => Current(job.sub, job.sub.asOf)

TokenSound(job) ==
    /\ hist # << >>
    /\ job.stamp # NoTime /\ job.stamp <= ReadTime
    /\ job.pc \in {"lookup", "save"} => Owned(job.sub) /\ Current(job.sub, job.stamp)
    /\ job.pc = "lookup" => job.sub.asOf = job.stamp
    /\ job.pc = "save" =>
         /\ job.sub.asOf <= ReadTime
         /\ Judged => job.sub.asOf <= job.stamp \/ job.sub.asOf <= record.asOf

JobSound(job) ==
    job.pc # "idle" => IF job.kind = "validate" THEN TokenSound(job) ELSE NotificationSound(job)

JobsSound == \A w \in Workers : JobSound(work[w])

RecordSound ==
    /\ IF Known THEN Owned(record) /\ hist # << >> ELSE record.asOf = NoTime
    /\ record.asOf <= ReadTime
    /\ Judged => Current(record, record.asOf)

AppliedHappened == applied \in SUBSET (1..Len(hist))

IInv ==
    /\ TypeOK /\ HistorySound /\ JobsSound /\ RecordSound
    /\ AppliedHappened /\ ProcessedIsRemembered
-----------------------------------------------------------------------------
(* Types of the pure functions. *)

(* The latest state at Play has the type of one. *)
LEMMA NowType ==
    ASSUME hist \in Seq(PlayState), hist # << >>
    PROVE  Len(hist) \in Nat \ {0} /\ Len(hist) \in 1..Len(hist) /\ Now \in PlayState
<1>1. Len(hist) \in Nat /\ Len(hist) # 0
  OBVIOUS
<1> QED
  BY <1>1 DEF Now

(* What Play is asked for is written as it answers, stamped with the time of asking. *)
LEMMA LiveRecordFacts ==
    ASSUME hist \in Seq(PlayState), hist # << >>, NEW stamp \in Time, NEW user \in Owners
    PROVE  /\ LiveRecord(stamp, user) \in Record
           /\ LiveRecord(stamp, user).status = DeriveStatusV2(Now.phase)
           /\ LiveRecord(stamp, user).status # "none"
           /\ LiveRecord(stamp, user).asOf = stamp
           /\ LiveRecord(stamp, user).userId = user
           /\ LiveRecord(stamp, user).exp = Now.exp
           /\ LiveRecord(stamp, user).willRenew = Now.autoRenew
<1>1. Now \in PlayState /\ Now.phase \in Phase /\ Now.exp \in Nat /\ Now.autoRenew \in BOOLEAN
  BY NowType DEF PlayState
<1>2. DeriveStatusV2(Now.phase) \in Status
  BY <1>1 DEF DeriveStatusV2, Phase, Status
<1> QED
  BY <1>1, <1>2 DEF LiveRecord, Record, Status

(* A notification leaves a status. *)
LEMMA FinalStatusType ==
    ASSUME NEW type, NEW stored \in Status
    PROVE  FinalStatus(type, stored) \in Status
BY DEF FinalStatus, Status

(* The later of two times is one of them, and not before either. *)
LEMMA LaterFacts ==
    ASSUME NEW a \in Time, NEW b \in Time
    PROVE  /\ LaterStateAsOf(a, b) \in Time
           /\ a <= LaterStateAsOf(a, b) /\ b <= LaterStateAsOf(a, b)
           /\ LaterStateAsOf(a, b) = a \/ LaterStateAsOf(a, b) = b
BY DEF LaterStateAsOf, Time

(* An idle handler and an absent record have their types. *)
LEMMA NoJobType == NoJob \in Job /\ NoRecord \in Record /\ NoJob.pc = "idle"
BY DEF NoJob, NoRecord, Job, Record, Owners, Status, Time, NoTime

(* Events happen at even times ... *)
LEMMA EventTimeFacts ==
    ASSUME NEW t \in Nat
    PROVE  EventTime(t) \in Time /\ EventTime(t) = 2 * t
BY DEF EventTime, Time

(* ... and Play is read at the odd ones between them. *)
LEMMA ReadTimeFacts ==
    ASSUME hist \in Seq(PlayState)
    PROVE  ReadTime \in Time /\ ReadTime = 2 * Len(hist) + 1
BY DEF ReadTime, Time

(* What an RTDN writes without fresh state. *)
LEMMA NotificationOnlyFacts ==
    ASSUME NEW existing \in Record, existing.status # "none", NEW t \in Nat
    PROVE  /\ NotificationOnly(existing, t) \in Record
           /\ NotificationOnly(existing, t).status # "none"
           /\ NotificationOnly(existing, t).status = FinalStatus(hist[t].type, existing.status)
           /\ NotificationOnly(existing, t).asOf = LaterStateAsOf(existing.asOf, EventTime(t))
           /\ NotificationOnly(existing, t).userId = existing.userId
<1>1. PICK status \in Status : status = FinalStatus(hist[t].type, existing.status)
  BY FinalStatusType DEF Record
<1>2. PICK time \in Time : time = LaterStateAsOf(existing.asOf, EventTime(t))
  BY LaterFacts, EventTimeFacts DEF Record
<1>3. PICK known : known = [existing EXCEPT !.status = status]
  OBVIOUS
<1>4. known \in Record /\ known.status = status /\ known.asOf = existing.asOf
      /\ known.userId = existing.userId
  BY <1>3 DEF Record
<1>5. NotificationOnly(existing, t) = [known EXCEPT !.asOf = time]
  BY <1>1, <1>2, <1>3 DEF NotificationOnly, Record
<1>6. status # "none"
  BY DEF Status
<1> QED
  BY <1>1, <1>2, <1>4, <1>5, <1>6 DEF Record

(* What a voided purchase writes. *)
LEMMA VoidedUpdateFacts ==
    ASSUME NEW existing \in Record, existing.status # "none", NEW t \in Nat
    PROVE  /\ VoidedUpdate(existing, t) \in Record
           /\ VoidedUpdate(existing, t).status # "none"
           /\ RefundPolicy = "immediate" => VoidedUpdate(existing, t).status = "canceled"
           /\ VoidedUpdate(existing, t).asOf = LaterStateAsOf(existing.asOf, EventTime(t))
           /\ VoidedUpdate(existing, t).userId = existing.userId
<1>1. PICK time \in Time : time = LaterStateAsOf(existing.asOf, EventTime(t))
  BY LaterFacts, EventTimeFacts DEF Record
<1>2. CASE RefundPolicy = "until_expiry"
  <2>1. PICK off : off = [existing EXCEPT !.willRenew = FALSE]
    OBVIOUS
  <2>2. off \in Record /\ off.status = existing.status /\ off.userId = existing.userId
        /\ off.asOf = existing.asOf
    BY <2>1 DEF Record
  <2>3. VoidedUpdate(existing, t) = [off EXCEPT !.asOf = time]
    BY <1>1, <1>2, <2>1 DEF VoidedUpdate, Record
  <2> QED
    BY <1>1, <1>2, <2>2, <2>3 DEF Record
<1>3. CASE RefundPolicy # "until_expiry"
  <2>1. PICK off : off = [existing EXCEPT !.status = "canceled"]
    OBVIOUS
  <2>2. off \in Record /\ off.status = "canceled" /\ off.userId = existing.userId
        /\ off.asOf = existing.asOf
    BY <2>1 DEF Record, Status
  <2>3. VoidedUpdate(existing, t) = [off EXCEPT !.asOf = time]
    BY <1>1, <1>3, <2>1 DEF VoidedUpdate, Record
  <2> QED
    BY <1>1, <2>2, <2>3 DEF Record
<1> QED
  BY <1>2, <1>3

Preserved(existing, t) ==
    ~StaleFor(existing, t) /\ hist[t].type \in {"IN_GRACE_PERIOD", "ON_HOLD"}

(* What an RTDN writes with fresh state: a stale status only where the event rewrites it. *)
LEMMA RefreshedFacts ==
    ASSUME NEW existing \in Record, existing.status # "none", NEW t \in Nat,
           NEW fresh \in Record, fresh.status # "none"
    PROVE  /\ Refreshed(existing, t, fresh) \in Record
           /\ Refreshed(existing, t, fresh).status # "none"
           /\ Refreshed(existing, t, fresh).status =
                  IF Preserved(existing, t) THEN FinalStatus(hist[t].type, existing.status)
                                            ELSE fresh.status
           /\ Refreshed(existing, t, fresh).asOf =
                  IF Preserved(existing, t) THEN LaterStateAsOf(existing.asOf, EventTime(t))
                  ELSE LaterStateAsOf(LaterStateAsOf(existing.asOf, EventTime(t)), fresh.asOf)
           /\ Refreshed(existing, t, fresh).userId = existing.userId
           /\ Refreshed(existing, t, fresh).exp = fresh.exp
           /\ Refreshed(existing, t, fresh).willRenew = fresh.willRenew
<1>0. existing.asOf \in Time /\ fresh.asOf \in Time /\ EventTime(t) \in Time
  BY EventTimeFacts DEF Record
<1>1. PICK status \in Status :
          status = IF Preserved(existing, t) THEN FinalStatus(hist[t].type, existing.status)
                                             ELSE fresh.status
  BY FinalStatusType DEF Record
<1>2. PICK time \in Time :
          time = IF Preserved(existing, t) THEN LaterStateAsOf(existing.asOf, EventTime(t))
                 ELSE LaterStateAsOf(LaterStateAsOf(existing.asOf, EventTime(t)), fresh.asOf)
  <2>1. PICK event \in Time : event = LaterStateAsOf(existing.asOf, EventTime(t))
    BY <1>0, LaterFacts
  <2>2. LaterStateAsOf(event, fresh.asOf) \in Time
    BY <1>0, LaterFacts
  <2> QED
    BY <2>1, <2>2
<1>3. PICK one : one = [existing EXCEPT !.status = status]
  OBVIOUS
<1>4. PICK two : two = [one EXCEPT !.exp = fresh.exp]
  OBVIOUS
<1>5. PICK three : three = [two EXCEPT !.willRenew = fresh.willRenew]
  OBVIOUS
<1>6. one \in Record /\ one.status = status /\ one.userId = existing.userId
      /\ one.asOf = existing.asOf
  BY <1>3 DEF Record
<1>7. two \in Record /\ two.status = status /\ two.userId = existing.userId
      /\ two.asOf = existing.asOf /\ two.exp = fresh.exp
  BY <1>4, <1>6 DEF Record
<1>8. three \in Record /\ three.status = status /\ three.userId = existing.userId
      /\ three.asOf = existing.asOf /\ three.exp = fresh.exp
      /\ three.willRenew = fresh.willRenew
  BY <1>5, <1>7 DEF Record
<1>9. Refreshed(existing, t, fresh) = [three EXCEPT !.asOf = time]
  BY <1>1, <1>2, <1>3, <1>4, <1>5 DEF Refreshed, Preserved, Record
<1>10. status # "none"
  BY DEF Status
<1> QED
  BY <1>1, <1>2, <1>8, <1>9, <1>10 DEF Record
-----------------------------------------------------------------------------
(* What happens at Play appends one sound state; nothing but the voided purchase
   of a revocation follows it. *)
NewState(state) ==
    /\ state \in PlayState
    /\ Happens(state)
    /\ state.type \in {"REVOKED", "VOIDED"} <=> state.phase = "revoked"
    /\ hist # << >> /\ Now.phase = "revoked" => state.type = "VOIDED"
    /\ state.type = "IN_GRACE_PERIOD" => state.phase = "grace"
    /\ state.type = "ON_HOLD" => state.phase = "hold"
    /\ state.phase \in {"active", "canceled", "grace"} => state.passed < state.exp

(* What Play does is one event, which keeps to the order of its phases. *)
LEMMA PlayNextHappens ==
    ASSUME TypeOK, HistorySound, PlayNext
    PROVE  \E state : NewState(state)
<1>0. hist \in Seq(PlayState)
  BY DEF TypeOK
<1>1. CASE Purchase
  <2>1. PICK state : state = Period("PURCHASED", 1)
    OBVIOUS
  <2>2. /\ state \in PlayState /\ state.type = "PURCHASED" /\ state.phase = "active"
        /\ state.passed < state.exp
    BY <2>1 DEF Period, PlayState, EventType, Phase
  <2> QED
    BY <1>1, <2>1, <2>2 DEF Purchase, NewState
<1>2. CASE hist # << >>
  <2>0. Now \in PlayState /\ Now.exp \in Nat /\ Now.exp + 1 \in Nat
    BY <1>0, <1>2, NowType DEF PlayState
  <2>a. Now.phase \in {"active", "canceled", "grace"} => Now.passed < Now.exp
    BY <1>0, <1>2, NowType DEF HistorySound, Now
  <2>1. CASE Renew \/ Recover
    <3>1. PICK type \in {"RENEWED", "RECOVERED"} : Happens(Period(type, Now.exp + 1))
      BY <2>1 DEF Renew, Recover
    <3>2. PICK state : state = Period(type, Now.exp + 1)
      OBVIOUS
    <3>3. /\ state \in PlayState /\ state.type = type /\ state.phase = "active"
          /\ state.passed < state.exp
      BY <2>0, <3>2 DEF Period, PlayState, EventType, Phase
    <3> QED
      BY <2>1, <3>1, <3>2, <3>3 DEF Renew, Recover, In, NewState
  <2>2. CASE Restart
    <3>1. PICK state :
              state = [Now EXCEPT !.type = "RESTARTED", !.phase = "active", !.autoRenew = TRUE]
      OBVIOUS
    <3>2. /\ state \in PlayState /\ state.type = "RESTARTED" /\ state.phase = "active"
          /\ state.passed = Now.passed /\ state.exp = Now.exp
      BY <2>0, <3>1 DEF PlayState, EventType, Phase
    <3> QED
      BY <2>a, <2>2, <3>1, <3>2 DEF Restart, In, NewState
  <2>3. CASE ConfirmPrice
    <3>1. PICK state : state = [Now EXCEPT !.type = "PRICE_CHANGE_CONFIRMED"]
      OBVIOUS
    <3>2. /\ state \in PlayState /\ state.type = "PRICE_CHANGE_CONFIRMED"
          /\ state.phase = Now.phase /\ state.passed = Now.passed /\ state.exp = Now.exp
      BY <2>0, <3>1 DEF PlayState, EventType
    <3> QED
      BY <2>a, <2>3, <3>1, <3>2 DEF ConfirmPrice, In, NewState
  <2>4. CASE Defer
    <3>1. PICK state : state = [Now EXCEPT !.type = "DEFERRED", !.exp = Now.exp + 1]
      OBVIOUS
    <3>2. /\ state \in PlayState /\ state.type = "DEFERRED"
          /\ state.phase = Now.phase /\ state.passed = Now.passed /\ state.exp = Now.exp + 1
      BY <2>0, <3>1 DEF PlayState, EventType
    <3>3. state.passed < state.exp
      BY <2>0, <2>a, <2>4, <3>2 DEF Defer, In, PlayState
    <3> QED
      BY <2>4, <3>1, <3>2, <3>3 DEF Defer, In, NewState
  <2>5. CASE EnterGrace
    <3>1. PICK state : state = [Now EXCEPT !.type = "IN_GRACE_PERIOD", !.phase = "grace",
                                           !.passed = Now.exp, !.exp = Now.exp + 1]
      OBVIOUS
    <3>2. /\ state \in PlayState /\ state.type = "IN_GRACE_PERIOD"
          /\ state.phase = "grace" /\ state.passed = Now.exp /\ state.exp = Now.exp + 1
      BY <2>0, <3>1 DEF PlayState, EventType, Phase
    <3>3. state.passed < state.exp
      BY <2>0, <3>2
    <3> QED
      BY <2>5, <3>1, <3>2, <3>3 DEF EnterGrace, In, NewState
  <2>6. CASE SwitchOffAutoRenew
    <3>1. PICK state :
              state = [Now EXCEPT !.type = "CANCELED", !.phase = "canceled", !.autoRenew = FALSE]
      OBVIOUS
    <3>2. /\ state \in PlayState /\ state.type = "CANCELED" /\ state.phase = "canceled"
          /\ state.passed = Now.passed /\ state.exp = Now.exp
      BY <2>0, <3>1 DEF PlayState, EventType, Phase
    <3> QED
      BY <2>a, <2>6, <3>1, <3>2 DEF SwitchOffAutoRenew, In, NewState
  <2>7. CASE Hold \/ Pause \/ Expire
    <3>1. PICK type \in {"ON_HOLD", "PAUSED", "EXPIRED"}, phase \in {"hold", "paused", "expired"} :
              Ends(type, phase) /\ (type = "ON_HOLD" => phase = "hold")
      BY <2>7 DEF Hold, Pause, Expire
    <3>2. PICK state :
              state = [Now EXCEPT !.type = type, !.phase = phase, !.passed = Now.exp]
      OBVIOUS
    <3>3. state \in PlayState /\ state.type = type /\ state.phase = phase
      BY <2>0, <3>2 DEF PlayState, EventType, Phase
    <3> QED
      BY <2>7, <3>1, <3>2, <3>3 DEF Hold, Pause, Expire, Ends, In, NewState
  <2>8. CASE Revoke
    <3>1. PICK state : state = [Now EXCEPT !.type = "REVOKED", !.phase = "revoked", !.exp = 0]
      OBVIOUS
    <3>2. state \in PlayState /\ state.type = "REVOKED" /\ state.phase = "revoked"
      BY <2>0, <3>1 DEF PlayState, EventType, Phase
    <3> QED
      BY <2>8, <3>1, <3>2 DEF Revoke, In, NewState
  <2>9. CASE Void
    <3>1. PICK state : state = [Now EXCEPT !.type = "VOIDED"]
      OBVIOUS
    <3>2. state \in PlayState /\ state.type = "VOIDED" /\ state.phase = Now.phase
      BY <2>0, <3>1 DEF PlayState, EventType
    <3> QED
      BY <2>9, <3>1, <3>2 DEF Void, In, NewState
  <2>10. ~Purchase
    BY <1>2 DEF Purchase
  <2> QED
    BY <2>1, <2>2, <2>3, <2>4, <2>5, <2>6, <2>7, <2>8, <2>9, <2>10 DEF PlayNext
<1>3. CASE hist = << >> /\ ~Purchase
  BY <1>3 DEF PlayNext, Renew, Recover, Restart, ConfirmPrice, Defer, EnterGrace,
     SwitchOffAutoRenew, Hold, Pause, Expire, Revoke, Void, In
<1> QED
  BY <1>1, <1>2, <1>3

(* An event is appended; the earlier ones stay as they were. *)
LEMMA HappensFacts ==
    ASSUME TypeOK, NEW state, NewState(state)
    PROVE  /\ hist' \in Seq(PlayState) /\ hist' # << >>
           /\ Len(hist) \in Nat /\ Len(hist') = Len(hist) + 1
           /\ hist'[Len(hist) + 1] = state
           /\ \A t \in 1..Len(hist) : hist'[t] = hist[t]
           /\ UNCHANGED <<record, work, applied, doubts>>
BY DEF TypeOK, NewState, Happens

(* Play keeps HistorySound: nothing but a void follows a refund. *)
LEMMA PlayKeepsHistory ==
    ASSUME TypeOK, HistorySound, NEW state, NewState(state)
    PROVE  HistorySound'
<1>0. PICK n : n = Len(hist) + 1
  OBVIOUS
<1>1. /\ hist \in Seq(PlayState) /\ Len(hist) \in Nat /\ Len(hist') = n /\ n = Len(hist) + 1
      /\ hist'[n] = state
      /\ \A t \in 1..Len(hist) : hist'[t] = hist[t]
  BY <1>0, HappensFacts DEF TypeOK
<1>2. \A t \in 1..Len(hist) : RefundAt(t)' <=> RefundAt(t)
  BY <1>1 DEF RefundAt
<1>3. RefundAt(n)' <=> state.phase = "revoked"
  BY <1>1 DEF RefundAt, NewState
<1>4. ASSUME NEW r \in 1..Len(hist), RefundAt(r)
      PROVE  RefundAt(n)'
  <2>1. Len(hist) \in 1..Len(hist) /\ Len(hist) \in r..Len(hist) /\ hist # << >>
    BY <1>1
  <2>2. Now.phase = "revoked"
    BY <1>4, <2>1 DEF HistorySound, Now
  <2> QED
    BY <1>1, <2>1, <2>2 DEF NewState, RefundAt
<1>5. SUFFICES ASSUME NEW r \in 1..n
               PROVE  /\ RefundAt(r)' <=> hist'[r].phase = "revoked"
                      /\ RefundAt(r)' => \A t \in r..n : RefundAt(t)'
                      /\ hist'[r].type = "IN_GRACE_PERIOD" => hist'[r].phase = "grace"
                      /\ hist'[r].type = "ON_HOLD" => hist'[r].phase = "hold"
                      /\ hist'[r].phase \in {"active", "canceled", "grace"}
                             => hist'[r].passed < hist'[r].exp
  BY <1>1 DEF HistorySound
<1>6. CASE r = n
  BY <1>1, <1>3, <1>6 DEF NewState
<1>7. CASE r # n
  <2>1. r \in 1..Len(hist)
    BY <1>1, <1>7
  <2>2. ASSUME RefundAt(r)', NEW t \in r..n
        PROVE  RefundAt(t)'
    <3>1. CASE t = n
      BY <1>2, <1>4, <2>1, <2>2, <3>1
    <3>2. CASE t # n
      <4>1. t \in r..Len(hist) /\ t \in 1..Len(hist)
        BY <1>1, <2>1, <3>2
      <4> QED
        BY <1>2, <2>1, <2>2, <4>1 DEF HistorySound
    <3> QED
      BY <3>1, <3>2
  <2> QED
    BY <1>1, <1>2, <2>1, <2>2 DEF HistorySound
<1> QED
  BY <1>6, <1>7
-----------------------------------------------------------------------------
(* A record that tells of a time gone by stays current whatever happens at Play. *)
LEMMA PlayKeepsCurrent ==
    ASSUME TypeOK, NEW state, NewState(state)
    PROVE  \A rec, time : time \in Time /\ time <= ReadTime /\ Current(rec, time)
               => Current(rec, time)'
<1>1. /\ hist \in Seq(PlayState) /\ Len(hist) \in Nat /\ Len(hist') = Len(hist) + 1
      /\ \A t \in 1..Len(hist) : hist'[t] = hist[t]
      /\ ReadTime = 2 * Len(hist) + 1
  BY HappensFacts, ReadTimeFacts DEF TypeOK
<1>2. ASSUME NEW rec, NEW time \in Time, time <= ReadTime, Current(rec, time),
             RefundPolicy = "immediate"
      PROVE  /\ rec.status \in EntitledStatus
                    => \A r \in 1..(Len(hist) + 1) : RefundAt(r)' => time < EventTime(r)
             /\ ~(EventTime(Len(hist) + 1) <= time)
  <2>1. time < EventTime(Len(hist) + 1)
    BY <1>1, <1>2 DEF EventTime, Time
  <2>2. ASSUME rec.status \in EntitledStatus, NEW r \in 1..(Len(hist) + 1), RefundAt(r)'
        PROVE  time < EventTime(r)
    <3>1. CASE r \in 1..Len(hist)
      BY <1>1, <1>2, <2>2, <3>1 DEF Current, RefundAt
    <3> QED
      BY <1>1, <2>1, <3>1
  <2> QED
    BY <1>1, <2>1, <2>2 DEF EventTime, Time
<1>3. \A r : EventTime(r)' = EventTime(r)
  BY DEF EventTime
<1> QED
  BY <1>1, <1>2, <1>3 DEF Current

(* A running handler is not disturbed by what happens at Play. *)
LEMMA PlayKeepsJobs ==
    ASSUME TypeOK, JobsSound, NEW state, NewState(state)
    PROVE  JobsSound'
<1>1. /\ hist \in Seq(PlayState) /\ Len(hist) \in Nat /\ Len(hist') = Len(hist) + 1
      /\ hist' # << >> /\ UNCHANGED <<record, work, applied, doubts>>
      /\ \A t \in 1..Len(hist) : hist'[t] = hist[t]
      /\ ReadTime = 2 * Len(hist) + 1 /\ ReadTime \in Time
      /\ work \in [Workers -> Job]
  BY HappensFacts, ReadTimeFacts DEF TypeOK
<1>2. ReadTime' = 2 * Len(hist) + 3
  BY <1>1 DEF ReadTime
<1>3. \A rec, time : time \in Time /\ time <= ReadTime /\ Current(rec, time)
          => Current(rec, time)'
  BY PlayKeepsCurrent
<1>4. /\ \A t : EventTime(t)' = EventTime(t)
      /\ Judged' <=> Judged
      /\ \A rec : Owned(rec)' <=> Owned(rec)
  BY <1>1 DEF EventTime, Judged, Owned
<1>5. \A time \in Time : time <= ReadTime => time <= ReadTime'
  BY <1>1, <1>2 DEF Time
<1>6. ASSUME NEW job \in Job, JobSound(job)
      PROVE  JobSound(job)'
  <2>1. job.stamp \in Time /\ job.sub.asOf \in Time
    BY DEF Job, Record
  <2>2. CASE job.pc = "idle"
    BY <2>2 DEF JobSound
  <2>3. CASE job.pc # "idle" /\ job.kind = "validate"
    <3>1. TokenSound(job)
      BY <1>6, <2>3 DEF JobSound
    <3>2. TokenSound(job)'
      BY <1>1, <1>3, <1>4, <1>5, <2>1, <3>1 DEF TokenSound
    <3> QED
      BY <2>3, <3>2 DEF JobSound
  <2>4. CASE job.pc # "idle" /\ job.kind # "validate"
    <3>1. NotificationSound(job)
      BY <1>6, <2>4 DEF JobSound
    <3>2. job.t \in 1..Len(hist') /\ hist'[job.t] = hist[job.t]
      BY <1>1, <3>1 DEF NotificationSound
    <3>3. NotificationSound(job)'
      BY <1>1, <1>3, <1>4, <1>5, <2>1, <3>1, <3>2 DEF NotificationSound
    <3> QED
      BY <2>4, <3>3 DEF JobSound
  <2> QED
    BY <2>2, <2>3, <2>4
<1> QED
  BY <1>1, <1>6 DEF JobsSound

(* What happens at Play keeps the invariant. *)
LEMMA PlayKeeps ==
    ASSUME IInv, PlayNext
    PROVE  IInv'
<1>1. TypeOK /\ HistorySound /\ JobsSound /\ RecordSound /\ ProcessedIsRemembered
  BY DEF IInv
<1>2. PICK state : NewState(state)
  BY <1>1, PlayNextHappens
<1>3. /\ hist' \in Seq(PlayState) /\ hist' # << >> /\ UNCHANGED <<record, work, applied, doubts>>
      /\ Len(hist) \in Nat /\ Len(hist') = Len(hist) + 1
      /\ hist \in Seq(PlayState) /\ record.asOf \in Time
  BY <1>1, <1>2, HappensFacts DEF TypeOK, Record
<1>4. TypeOK' /\ HistorySound' /\ JobsSound'
  BY <1>1, <1>2, <1>3, PlayKeepsHistory, PlayKeepsJobs DEF TypeOK
<1>5. Current(record, record.asOf) => Current(record, record.asOf)'
  BY <1>1, <1>2, <1>3, PlayKeepsCurrent DEF RecordSound
<1>6. record.asOf <= ReadTime'
  BY <1>1, <1>3 DEF RecordSound, ReadTime, Time
<1>7. RecordSound'
  BY <1>1, <1>3, <1>5, <1>6 DEF RecordSound, Known, Owned, Judged
<1>8. ProcessedIsRemembered'
  BY <1>1, <1>3 DEF ProcessedIsRemembered, Known, EventTime
<1>9. AppliedHappened'
  BY <1>3 DEF IInv, AppliedHappened
<1> QED
  BY <1>4, <1>7, <1>8, <1>9 DEF IInv
-----------------------------------------------------------------------------
(* A handler's step leaves what happened at Play alone, and doubts only grow. *)
HandlerStep ==
    /\ hist' = hist
    /\ doubts \subseteq doubts' /\ doubts' \in SUBSET {"unjudged", "blind"}
    /\ applied' \in SUBSET (1..Len(hist))

(* What was current at a time stays so through the steps of the handlers. *)
LEMMA HandlerKeepsCurrent ==
    ASSUME HandlerStep
    PROVE  \A rec, time : Current(rec, time) => Current(rec, time)'
BY DEF HandlerStep, Current, RefundAt, Mirrors, Entitled, PaidRunning, Now, EventTime

(* The jobs of the other handlers stay sound when the record moves on in time. *)
LEMMA JobsKept ==
    ASSUME TypeOK, JobsSound, HandlerStep, record' \in Record,
           Judged' => record.asOf <= record'.asOf,
           NEW w \in Workers, NEW job \in Job, JobSound(job)', work' = [work EXCEPT ![w] = job]
    PROVE  JobsSound'
<1>1. /\ hist' = hist /\ work \in [Workers -> Job]
      /\ record.asOf \in Time /\ record'.asOf \in Time
      /\ Judged' => Judged
  BY DEF HandlerStep, TypeOK, Record, Judged
<1>2. \A rec, time : Current(rec, time) => Current(rec, time)'
  BY HandlerKeepsCurrent
<1>3. /\ \A t : EventTime(t)' = EventTime(t)
      /\ \A rec : Owned(rec)' <=> Owned(rec)
      /\ ReadTime' = ReadTime
  BY <1>1 DEF EventTime, Owned, ReadTime
<1>4. ASSUME NEW other \in Job, JobSound(other)
      PROVE  JobSound(other)'
  <2>1. other.sub.asOf \in Time
    BY DEF Job, Record
  <2>2. Judged' => \A time \in Time : time <= record.asOf => time <= record'.asOf
    BY <1>1 DEF Time
  <2>3. CASE other.pc = "idle"
    BY <2>3 DEF JobSound
  <2>4. CASE other.pc # "idle" /\ other.kind = "validate"
    <3>1. TokenSound(other)
      BY <1>4, <2>4 DEF JobSound
    <3>2. TokenSound(other)'
      BY <1>1, <1>2, <1>3, <2>1, <2>2, <3>1 DEF TokenSound
    <3> QED
      BY <2>4, <3>2 DEF JobSound
  <2>5. CASE other.pc # "idle" /\ other.kind # "validate"
    <3>1. NotificationSound(other)
      BY <1>4, <2>5 DEF JobSound
    <3>2. NotificationSound(other)'
      BY <1>1, <1>2, <1>3, <2>1, <2>2, <3>1 DEF NotificationSound
    <3> QED
      BY <2>5, <3>2 DEF JobSound
  <2> QED
    BY <2>3, <2>4, <2>5
<1>5. ASSUME NEW v \in Workers \ {w}
      PROVE  JobSound(work[v])'
  <2>1. work'[v] = work[v] /\ work[v] \in Job /\ JobSound(work[v])
    BY <1>1 DEF JobsSound
  <2> QED
    BY <1>4, <2>1
<1>6. work'[w] = job
  BY <1>1
<1> QED
  BY <1>5, <1>6 DEF JobsSound

(* A step before the save. *)
LEMMA StepKept ==
    ASSUME IInv, HandlerStep, record' = record,
           NEW w \in Workers, NEW job \in Job, JobSound(job)', work' = [work EXCEPT ![w] = job],
           Judged => \A t \in applied' : t \in applied \/ (Known /\ EventTime(t) <= record.asOf)
    PROVE  IInv'
<1>1. /\ TypeOK /\ HistorySound /\ JobsSound /\ RecordSound /\ ProcessedIsRemembered
      /\ hist' = hist /\ (Judged' => Judged) /\ record \in Record /\ record.asOf \in Time
  BY DEF IInv, HandlerStep, Judged, TypeOK, Record
<1>2. TypeOK' /\ HistorySound'
  BY <1>1 DEF TypeOK, HandlerStep, HistorySound, RefundAt
<1>3. JobsSound'
  <2>1. record.asOf <= record'.asOf
    BY <1>1 DEF Time
  <2> QED
    BY <1>1, <2>1, JobsKept
<1>4. Current(record, record.asOf) => Current(record, record.asOf)'
  BY HandlerKeepsCurrent
<1>5. RecordSound'
  BY <1>1, <1>4 DEF RecordSound, Known, Owned, ReadTime
<1>6. ProcessedIsRemembered'
  BY <1>1 DEF ProcessedIsRemembered, Judged, Known, EventTime
<1>7. AppliedHappened'
  BY <1>1 DEF HandlerStep, AppliedHappened
<1> QED
  BY <1>1, <1>2, <1>3, <1>5, <1>6, <1>7 DEF IInv

(* The store's guard leaves the later of two records. *)
LEMMA SavedFacts ==
    ASSUME NEW existing \in Record, NEW sub \in Record
    PROVE  /\ Saved(existing, sub) \in Record
           /\ sub.asOf <= Saved(existing, sub).asOf
           /\ sub.asOf # NoTime => existing.asOf <= Saved(existing, sub).asOf
           /\ Saved(existing, sub) = existing \/ Saved(existing, sub) = sub
           /\ existing.asOf = NoTime => Saved(existing, sub) = sub
<1>1. existing.asOf \in Nat /\ sub.asOf \in Nat
  BY DEF Record, Time
<1> QED
  BY <1>1 DEF Saved, IsStaleSnapshot, NoTime

(* A save. *)
LEMMA SaveKept ==
    ASSUME IInv, HandlerStep, NEW w \in Workers, work' = [work EXCEPT ![w] = NoJob],
           NEW sub \in Record, record' = Saved(record, sub),
           Owned(sub), hist # << >>, sub.asOf <= ReadTime,
           Judged' => sub.asOf # NoTime /\ (record' = sub => Current(sub, sub.asOf)),
           Judged' => \A t \in applied' : t \in applied \/ (t \in Nat /\ EventTime(t) <= sub.asOf)
    PROVE  IInv'
<1>1. /\ TypeOK /\ HistorySound /\ JobsSound /\ RecordSound /\ ProcessedIsRemembered
      /\ hist' = hist /\ (Judged' => Judged) /\ record \in Record /\ applied \in SUBSET (1..Len(hist))
      /\ record.asOf \in Time /\ sub.asOf \in Time
  BY DEF IInv, HandlerStep, Judged, TypeOK, Record, AppliedHappened
<1>2. /\ record' \in Record /\ record'.asOf \in Time
      /\ sub.asOf <= record'.asOf
      /\ Judged' => record.asOf <= record'.asOf
      /\ (record' = record /\ Known) \/ record' = sub
  BY <1>1, SavedFacts DEF Record, RecordSound
<1>3. NoJob \in Job /\ JobSound(NoJob)'
  BY NoJobType DEF JobSound, NoJob
<1>4. TypeOK' /\ HistorySound'
  <2>1. TypeOK'
    BY <1>1, <1>2, <1>3 DEF TypeOK, HandlerStep
  <2>2. HistorySound'
    BY <1>1 DEF HistorySound, RefundAt
  <2> QED
    BY <2>1, <2>2
<1>5. JobsSound'
  BY <1>1, <1>2, <1>3, JobsKept
<1>6. record' = sub => record.asOf <= record'.asOf \/ ~Judged'
  BY <1>2
<1>7. Judged' => Current(record, record.asOf)'
  <2>1. PICK rec : rec = record'
    OBVIOUS
  <2>2. Judged' => Current(rec, rec.asOf)
    BY <1>1, <1>2, <2>1 DEF RecordSound
  <2>3. Current(rec, rec.asOf) => Current(rec, rec.asOf)'
    BY HandlerKeepsCurrent
  <2> QED
    BY <2>1, <2>2, <2>3
<1>8. RecordSound'
  <2>1. IF Known' THEN Owned(record)' /\ hist' # << >> ELSE record'.asOf = NoTime
    BY <1>1, <1>2 DEF RecordSound, Known, Owned
  <2>2. record'.asOf <= ReadTime'
    BY <1>1, <1>2 DEF RecordSound, ReadTime
  <2> QED
    BY <1>7, <2>1, <2>2 DEF RecordSound
<1>9. ProcessedIsRemembered'
  <2> SUFFICES ASSUME Judged', NEW t \in applied'
               PROVE  Known' /\ EventTime(t) <= record'.asOf
    BY DEF ProcessedIsRemembered, Judged, EventTime
  <2>0. t \in Nat /\ EventTime(t) \in Time
    BY EventTimeFacts DEF HandlerStep
  <2>1. CASE t \in applied
    <3>1. Known /\ EventTime(t) <= record.asOf
      BY <1>1, <2>1 DEF ProcessedIsRemembered, Judged
    <3> QED
      BY <1>1, <1>2, <2>0, <3>1 DEF Known, Owned, Time
  <2>2. CASE EventTime(t) <= sub.asOf
    <3>1. EventTime(t) <= record'.asOf
      BY <1>1, <1>2, <2>0, <2>2 DEF Time
    <3> QED
      BY <1>2, <3>1 DEF Known, Owned
  <2> QED
    BY <2>1, <2>2
<1>10. AppliedHappened'
  BY <1>1 DEF HandlerStep, AppliedHappened
<1> QED
  BY <1>4, <1>5, <1>8, <1>9, <1>10 DEF IInv
-----------------------------------------------------------------------------
(* Why the records that handlers write are current. *)

(* After a refund Play grants nothing; before, access has time left. *)
LEMMA NowFacts ==
    ASSUME TypeOK, HistorySound, hist # << >>
    PROVE  /\ Len(hist) \in 1..Len(hist) /\ Len(hist) \in Nat /\ Now \in PlayState
           /\ \A r \in 1..Len(hist) : RefundAt(r) => Now.phase = "revoked"
           /\ Now.phase \in {"active", "grace"} => Now.passed < Now.exp
           /\ hist[Len(hist)] = Now
<1>1. Len(hist) \in 1..Len(hist) /\ Len(hist) \in Nat /\ Now \in PlayState
  BY NowType DEF TypeOK
<1>2. ASSUME NEW r \in 1..Len(hist), RefundAt(r)
      PROVE  Now.phase = "revoked"
  <2>1. Len(hist) \in r..Len(hist)
    BY <1>1
  <2>2. RefundAt(Len(hist))
    BY <1>2, <2>1 DEF HistorySound
  <2> QED
    BY <1>1, <2>2 DEF HistorySound, Now
<1> QED
  BY <1>1, <1>2 DEF HistorySound, Now

(* What Play has just answered is current at the time of asking. *)
LEMMA LiveCurrent ==
    ASSUME TypeOK, HistorySound, hist # << >>, NEW rec,
           rec.status = DeriveStatusV2(Now.phase), rec.exp = Now.exp,
           rec.willRenew = Now.autoRenew
    PROVE  Mirrors(rec) /\ \A time : Current(rec, time)
<1>1. Now \in PlayState /\ Now.phase \in Phase /\ Now.exp \in Nat /\ Now.passed \in Nat
  BY NowFacts DEF PlayState
<1>2. rec.status \in EntitledStatus <=> Now.phase \in Granting
  BY <1>1 DEF DeriveStatusV2, EntitledStatus, Granting, Phase
<1>3. Now.phase \in Granting => PaidRunning(rec.exp)
  BY <1>1, NowFacts DEF PaidRunning, Granting
<1>4. Mirrors(rec)
  BY <1>2, <1>3 DEF Mirrors, Entitled, IsSubscriptionEntitled
<1>5. rec.status \in EntitledStatus => \A r \in 1..Len(hist) : ~RefundAt(r)
  BY <1>2, NowFacts DEF Granting
<1> QED
  BY <1>4, <1>5 DEF Current

(* Current depends on the status, the expiry and the renewal alone. *)
LEMMA CurrentFields ==
    ASSUME NEW rec, NEW other, other.status = rec.status, other.exp = rec.exp,
           other.willRenew = rec.willRenew
    PROVE  \A time : Current(rec, time) => Current(other, time)
BY DEF Current, Mirrors, Entitled

(* What is current at a time is current at every earlier time. *)
LEMMA CurrentEarlier ==
    ASSUME TypeOK, NEW rec, NEW time \in Time, NEW earlier \in Time, earlier <= time,
           Current(rec, time)
    PROVE  Current(rec, earlier)
<1>1. \A r \in 1..Len(hist) : EventTime(r) \in Nat
  BY DEF TypeOK, EventTime
<1>2. Len(hist) \in Nat /\ EventTime(Len(hist)) \in Nat
  BY DEF TypeOK, EventTime
<1> QED
  BY <1>1, <1>2 DEF Current, Time

(* An RTDN that is not stale sets the time of the record to its own. *)
LEMMA FreshTime ==
    ASSUME NEW existing \in Record, NEW t \in Nat \ {0}, hist[t].type # "REVOKED",
           ~StaleFor(existing, t)
    PROVE  LaterStateAsOf(existing.asOf, EventTime(t)) = EventTime(t)
BY DEF StaleFor, IsStaleSnapshot, LaterStateAsOf, EventTime, Record, Time, NoTime

(* A notification that is no refund comes before every refund. *)
LEMMA BeforeARefund ==
    ASSUME TypeOK, HistorySound, NEW t \in 1..Len(hist), ~RefundAt(t)
    PROVE  \A r \in 1..Len(hist) : RefundAt(r) => EventTime(t) < EventTime(r)
<1>1. ASSUME NEW r \in 1..Len(hist), RefundAt(r)
      PROVE  EventTime(t) < EventTime(r)
  <2>1. ~(t \in r..Len(hist))
    BY <1>1 DEF HistorySound
  <2>2. t < r
    BY <2>1 DEF TypeOK
  <2> QED
    BY <2>2 DEF EventTime, TypeOK
<1> QED
  BY <1>1

(* What an RTDN writes without asking Play is current if what was stored is. *)
LEMMA NotificationOnlyCurrent ==
    ASSUME TypeOK, HistorySound, NEW existing \in Record, existing.status # "none",
           NEW t \in 1..Len(hist), hist[t].type # "VOIDED", ~StaleFor(existing, t),
           "blind" \in doubts', hist' = hist,
           NEW sub, sub = NotificationOnly(existing, t)
    PROVE  Current(sub, sub.asOf)'
<1>1. /\ t \in Nat \ {0}
      /\ sub.status = FinalStatus(hist[t].type, existing.status)
      /\ sub.asOf = LaterStateAsOf(existing.asOf, EventTime(t))
  BY NotificationOnlyFacts DEF TypeOK
<1>2. sub.status \in EntitledStatus
          => \A r \in 1..Len(hist) : RefundAt(r) => sub.asOf < EventTime(r)
  <2>1. CASE hist[t].type = "REVOKED"
    BY <1>1, <2>1 DEF FinalStatus, EntitledStatus
  <2>2. CASE hist[t].type # "REVOKED"
    <3>1. sub.asOf = EventTime(t) /\ ~RefundAt(t)
      BY <1>1, <2>2, FreshTime DEF RefundAt
    <3> QED
      BY <3>1, BeforeARefund
  <2> QED
    BY <2>1, <2>2
<1>3. (\A r : RefundAt(r)' <=> RefundAt(r)) /\ (\A r : EventTime(r)' = EventTime(r))
  BY DEF RefundAt, EventTime
<1> QED
  BY <1>2, <1>3 DEF Current

(* What a voided purchase writes is current: it grants nothing. *)
LEMMA VoidedUpdateCurrent ==
    ASSUME TypeOK, HistorySound, NEW existing \in Record, existing.status # "none",
           NEW t \in 1..Len(hist), hist[t].type = "VOIDED",
           NEW sub, sub = VoidedUpdate(existing, t)
    PROVE  \A time : Current(sub, time)
<1>1. RefundPolicy = "immediate" => sub.status \notin EntitledStatus
  BY VoidedUpdateFacts DEF EntitledStatus, TypeOK
<1>2. hist # << >> /\ RefundAt(t)
  BY DEF RefundAt, TypeOK
<1>3. Now.phase \notin Granting
  BY <1>2, NowFacts DEF Granting
<1> QED
  BY <1>1, <1>3 DEF Current, Mirrors, Entitled, IsSubscriptionEntitled

(* What an RTDN writes with fresh state is current at the time of its event. *)
LEMMA RefreshedCurrent ==
    ASSUME TypeOK, HistorySound, NEW existing \in Record, existing.status # "none",
           NEW t \in 1..Len(hist), hist[t].type # "VOIDED",
           NEW stamp \in Time, NEW user \in Owners,
           NEW sub, sub = Refreshed(existing, t, LiveRecord(stamp, user))
    PROVE  Current(sub, sub.asOf)
<1>0. t \in Nat \ {0} /\ hist # << >> /\ hist \in Seq(PlayState)
  BY DEF TypeOK
<1>1. PICK fresh : fresh = LiveRecord(stamp, user)
  OBVIOUS
<1>2. /\ fresh \in Record /\ fresh.status # "none"
      /\ fresh.status = DeriveStatusV2(Now.phase) /\ fresh.exp = Now.exp
      /\ fresh.willRenew = Now.autoRenew
  BY <1>0, <1>1, LiveRecordFacts
<1>3. /\ sub.exp = Now.exp /\ sub.willRenew = Now.autoRenew
      /\ sub.status = IF Preserved(existing, t) THEN FinalStatus(hist[t].type, existing.status)
                                                ELSE fresh.status
      /\ Preserved(existing, t) => sub.asOf = LaterStateAsOf(existing.asOf, EventTime(t))
  BY <1>0, <1>1, <1>2, RefreshedFacts
<1>4. CASE ~Preserved(existing, t)
  BY <1>0, <1>2, <1>3, <1>4, LiveCurrent
<1>5. CASE Preserved(existing, t)
  <2>1. sub.asOf = EventTime(t) /\ ~RefundAt(t)
    BY <1>0, <1>3, <1>5, FreshTime DEF Preserved, RefundAt
  <2>2. \A r \in 1..Len(hist) : RefundAt(r) => sub.asOf < EventTime(r)
    BY <2>1, BeforeARefund
  <2>3. ASSUME EventTime(Len(hist)) <= sub.asOf
        PROVE  Mirrors(sub)
    <3>1. t = Len(hist) /\ hist[t] = Now
      BY <1>0, <2>1, <2>3, NowFacts DEF EventTime
    <3>2. CASE hist[t].type = "IN_GRACE_PERIOD"
      <4>1. Now.phase = "grace" /\ sub.status = "grace_period"
        BY <1>3, <1>5, <3>1, <3>2 DEF HistorySound, FinalStatus
      <4>2. PaidRunning(sub.exp)
        BY <1>0, <1>3, <4>1, NowFacts DEF PaidRunning, PlayState
      <4> QED
        BY <1>3, <4>1, <4>2 DEF Mirrors, Entitled, IsSubscriptionEntitled, EntitledStatus, Granting
    <3>3. CASE hist[t].type = "ON_HOLD"
      <4>1. Now.phase = "hold" /\ sub.status = "on_hold"
        BY <1>3, <1>5, <3>1, <3>3 DEF HistorySound, FinalStatus
      <4> QED
        BY <4>1 DEF Mirrors, Entitled, IsSubscriptionEntitled, EntitledStatus, Granting
    <3> QED
      BY <1>5, <3>2, <3>3 DEF Preserved
  <2> QED
    BY <2>2, <2>3 DEF Current
<1> QED
  BY <1>4, <1>5
-----------------------------------------------------------------------------
(* The handlers, step by step. *)

(* What every step of a handler may use. *)
LEMMA HandlerFacts ==
    ASSUME IInv, NEW w \in Workers
    PROVE  /\ TypeOK /\ HistorySound /\ RecordSound /\ ProcessedIsRemembered
           /\ hist \in Seq(PlayState) /\ Len(hist) \in Nat
           /\ record \in Record /\ record.asOf \in Time /\ applied \in SUBSET (1..Len(hist))
           /\ doubts \in SUBSET {"unjudged", "blind"}
           /\ work \in [Workers -> Job] /\ work[w] \in Job /\ JobSound(work[w])
           /\ work[w].t \in Nat /\ work[w].stamp \in Time /\ work[w].user \in Owners
           /\ work[w].sub \in Record /\ work[w].sub.asOf \in Time
           /\ ReadTime \in Time /\ ReadTime = 2 * Len(hist) + 1
BY ReadTimeFacts DEF IInv, TypeOK, JobsSound, Job, Record, AppliedHappened

(* The handler is done, or has failed. *)
LEMMA DoneKept ==
    ASSUME IInv, HandlerStep, record' = record, NEW w \in Workers,
           work' = [work EXCEPT ![w] = NoJob],
           Judged => \A t \in applied' : t \in applied \/ (Known /\ EventTime(t) <= record.asOf)
    PROVE  IInv'
<1>1. PICK job \in Job : job = NoJob
  BY NoJobType
<1>2. JobSound(job)'
  BY <1>1 DEF JobSound, NoJob
<1> QED
  BY <1>1, <1>2, StepKept

(* A notification, or another delivery of it, arrives. *)
LEMMA DeliverKeeps ==
    ASSUME IInv, NEW w \in Workers, NEW t, Deliver(w, t)
    PROVE  IInv'
<1>1. /\ t \in 1..Len(hist) /\ t \in Nat
      /\ UNCHANGED <<hist, record, applied, doubts>>
      /\ applied \in SUBSET (1..Len(hist)) /\ doubts \in SUBSET {"unjudged", "blind"}
  BY HandlerFacts DEF Deliver
<1>2. PICK kind \in {"rtdn", "voided"} :
          kind = IF hist[t].type = "VOIDED" THEN "voided" ELSE "rtdn"
  OBVIOUS
<1>3. PICK job : job = [NoJob EXCEPT !.pc = "lookup", !.t = t, !.kind = kind]
  OBVIOUS
<1>4. /\ job \in Job /\ job.t = t /\ job.kind = kind /\ job.pc = "lookup"
      /\ job.sub.status = "none"
  <2>1. job = [pc |-> "lookup", kind |-> kind, t |-> t, user |-> Placeholder,
               stamp |-> NoTime, sub |-> NoRecord]
    BY <1>3 DEF NoJob
  <2> QED
    BY <1>1, <2>1, NoJobType DEF Job, NoRecord, Owners, Time, NoTime
<1>5. work' = [work EXCEPT ![w] = job]
  BY <1>2, <1>3 DEF Deliver
<1>6. JobSound(job)'
  BY <1>1, <1>2, <1>4 DEF JobSound, NotificationSound
<1>7. HandlerStep
  BY <1>1 DEF HandlerStep
<1> QED
  BY <1>1, <1>4, <1>5, <1>6, <1>7, StepKept

(* An RTDN finds the record: it asks Play, is refused as stale, or rewrites the record blindly. *)
LEMMA LookupKnownKeeps ==
    ASSUME IInv, NEW w \in Workers, LookupKnown(w)
    PROVE  IInv'
<1>1. /\ TypeOK /\ HistorySound /\ RecordSound /\ hist \in Seq(PlayState)
      /\ record \in Record /\ record.asOf \in Time /\ work[w] \in Job
      /\ work \in [Workers -> Job]
      /\ ReadTime \in Time /\ ReadTime = 2 * Len(hist) + 1
      /\ applied \in SUBSET (1..Len(hist)) /\ doubts \in SUBSET {"unjudged", "blind"}
  BY HandlerFacts
<1>2. /\ At(w, "rtdn", "lookup") /\ Known /\ UNCHANGED <<hist, record>>
      /\ Owned(record) /\ record.asOf <= ReadTime
  BY <1>1 DEF LookupKnown, RecordSound
<1>3. PICK t : t = work[w].t
  OBVIOUS
<1>4. t \in 1..Len(hist) /\ t \in Nat \ {0} /\ hist[t].type # "VOIDED" /\ t <= Len(hist)
  BY <1>1, <1>2, <1>3, HandlerFacts DEF At, JobSound, NotificationSound
<1>5. EventTime(t) \in Time /\ EventTime(t) <= ReadTime
  BY <1>1, <1>4 DEF EventTime, Time
<1>6. HandlerStep
  BY <1>1, <1>2, <1>3, <1>4 DEF LookupKnown, HandlerStep
<1>7. CASE HasKey
  <2>1. PICK job : job = [work[w] EXCEPT !.pc = "read", !.stamp = ReadTime, !.sub = record]
    OBVIOUS
  <2>2. /\ job \in Job /\ job.pc = "read" /\ job.kind = "rtdn" /\ job.t = t
        /\ job.stamp = ReadTime /\ job.sub = record
    BY <1>1, <1>2, <1>3, <2>1 DEF Job, At
  <2>3. work' = [work EXCEPT ![w] = job] /\ applied' = applied
    BY <1>7, <2>1 DEF LookupKnown
  <2>4. JobSound(job)'
    <3>1. ReadTime' = ReadTime /\ EventTime(t)' = EventTime(t) /\ (Owned(record)' <=> Owned(record))
      BY <1>2 DEF ReadTime, EventTime, Owned
    <3>2. record.asOf <= record'.asOf /\ ReadTime <= ReadTime'
      BY <1>1, <1>2, <3>1 DEF Time
    <3>3. NotificationSound(job)'
      BY <1>2, <1>4, <1>5, <2>2, <3>1, <3>2 DEF NotificationSound, Owned, EventTime
    <3> QED
      BY <2>2, <3>3 DEF JobSound
  <2> QED
    BY <1>2, <1>6, <2>2, <2>3, <2>4, StepKept
<1>8. CASE ~HasKey /\ StaleFor(record, t)
  <2>1. work' = [work EXCEPT ![w] = NoJob] /\ applied' = applied \cup {t}
    BY <1>3, <1>8 DEF LookupKnown
  <2>2. EventTime(t) <= record.asOf
    BY <1>1, <1>5, <1>8 DEF StaleFor, IsStaleSnapshot, Time
  <2> QED
    BY <1>2, <1>6, <2>1, <2>2, DoneKept
<1>9. CASE ~HasKey /\ ~StaleFor(record, t)
  <2>1. PICK sub : sub = NotificationOnly(record, t)
    OBVIOUS
  <2>2. /\ sub \in Record /\ sub.status # "none" /\ sub.userId = record.userId
        /\ sub.asOf = LaterStateAsOf(record.asOf, EventTime(t))
    BY <1>1, <1>2, <1>4, <2>1, NotificationOnlyFacts DEF Owned
  <2>3. EventTime(t) <= sub.asOf /\ sub.asOf <= ReadTime /\ Owned(sub)
    <3>1. PICK old \in Time, event \in Time : old = record.asOf /\ event = EventTime(t)
      BY <1>1, <1>5
    <3>2. sub.asOf = LaterStateAsOf(old, event) /\ old <= ReadTime /\ event <= ReadTime
      BY <1>2, <1>5, <2>2, <3>1
    <3>3. event <= sub.asOf /\ sub.asOf <= ReadTime
      BY <3>2, LaterFacts
    <3>4. Owned(sub)
      BY <1>2, <2>2 DEF Owned
    <3> QED
      BY <3>1, <3>3, <3>4
  <2>4. PICK job : job = [work[w] EXCEPT !.pc = "save", !.sub = sub]
    OBVIOUS
  <2>5. job \in Job /\ job.pc = "save" /\ job.kind = "rtdn" /\ job.t = t /\ job.sub = sub
    BY <1>1, <1>2, <1>3, <2>2, <2>4 DEF Job, At
  <2>6. work' = [work EXCEPT ![w] = job] /\ applied' = applied /\ "blind" \in doubts'
    BY <1>3, <1>9, <2>1, <2>4 DEF LookupKnown
  <2>7. Current(sub, sub.asOf)'
    BY <1>1, <1>2, <1>4, <1>9, <2>1, <2>6, NotificationOnlyCurrent DEF Owned
  <2>8. JobSound(job)'
    <3>1. ReadTime' = ReadTime /\ (Owned(sub)' <=> Owned(sub))
      BY <1>2 DEF ReadTime, Owned
    <3>2. NotificationSound(job)'
      BY <1>2, <1>4, <2>3, <2>5, <2>7, <3>1 DEF NotificationSound, EventTime
    <3> QED
      BY <2>5, <3>2 DEF JobSound
  <2> QED
    BY <1>2, <1>6, <2>5, <2>6, <2>8, StepKept
<1> QED
  BY <1>7, <1>8, <1>9

(* An RTDN finds no record. *)
LEMMA LookupUnknownKeeps ==
    ASSUME IInv, NEW w \in Workers, LookupUnknown(w)
    PROVE  IInv'
<1>1. /\ hist \in Seq(PlayState) /\ work[w] \in Job /\ work \in [Workers -> Job]
      /\ ReadTime \in Time /\ ReadTime = 2 * Len(hist) + 1
      /\ applied \in SUBSET (1..Len(hist)) /\ doubts \in SUBSET {"unjudged", "blind"}
  BY HandlerFacts
<1>2. At(w, "rtdn", "lookup") /\ UNCHANGED <<hist, record, applied, doubts>>
  BY DEF LookupUnknown
<1>3. PICK t : t = work[w].t
  OBVIOUS
<1>4. t \in 1..Len(hist) /\ hist[t].type # "VOIDED" /\ work[w].sub.status = "none"
  BY <1>2, <1>3, HandlerFacts DEF At, JobSound, NotificationSound
<1>5. EventTime(t) <= ReadTime
  BY <1>1, <1>4 DEF EventTime, Time
<1>6. HandlerStep
  BY <1>1, <1>2 DEF HandlerStep
<1>7. CASE HasKey
  <2>1. PICK job : job = [work[w] EXCEPT !.pc = "read", !.stamp = ReadTime]
    OBVIOUS
  <2>2. /\ job \in Job /\ job.pc = "read" /\ job.kind = "rtdn" /\ job.t = t
        /\ job.stamp = ReadTime /\ job.sub = work[w].sub
    BY <1>1, <1>2, <1>3, <2>1 DEF Job, At
  <2>3. work' = [work EXCEPT ![w] = job]
    BY <1>7, <2>1 DEF LookupUnknown
  <2>4. ReadTime' = ReadTime /\ ReadTime <= ReadTime' /\ work[w].sub.status = "none"
    BY <1>1, <1>2, <1>4 DEF ReadTime, Time
  <2>5. NotificationSound(job)'
    BY <1>2, <1>4, <1>5, <2>2, <2>4 DEF NotificationSound, EventTime
  <2>6. JobSound(job)'
    BY <2>2, <2>5 DEF JobSound
  <2> QED
    BY <1>2, <1>6, <2>2, <2>3, <2>6, StepKept
<1>8. CASE ~HasKey
  <2>1. work' = [work EXCEPT ![w] = NoJob]
    BY <1>8 DEF LookupUnknown
  <2> QED
    BY <1>2, <1>6, <2>1, DoneKept
<1> QED
  BY <1>7, <1>8

(* A voided purchase finds the record, or none. *)
LEMMA LookupVoidedKeeps ==
    ASSUME IInv, NEW w \in Workers, LookupVoided(w)
    PROVE  IInv'
<1>1. /\ TypeOK /\ HistorySound /\ RecordSound /\ hist \in Seq(PlayState)
      /\ record \in Record /\ record.asOf \in Time /\ work[w] \in Job
      /\ work \in [Workers -> Job]
      /\ ReadTime \in Time /\ ReadTime = 2 * Len(hist) + 1
      /\ applied \in SUBSET (1..Len(hist)) /\ doubts \in SUBSET {"unjudged", "blind"}
  BY HandlerFacts
<1>2. At(w, "voided", "lookup") /\ UNCHANGED <<hist, record, applied, doubts>>
  BY DEF LookupVoided
<1>3. PICK t : t = work[w].t
  OBVIOUS
<1>4. t \in 1..Len(hist) /\ t \in Nat /\ hist[t].type = "VOIDED"
  BY <1>1, <1>2, <1>3, HandlerFacts DEF At, JobSound, NotificationSound
<1>5. EventTime(t) \in Time /\ EventTime(t) <= ReadTime
  BY <1>1, <1>4 DEF EventTime, Time
<1>6. HandlerStep
  BY <1>1, <1>2 DEF HandlerStep
<1>7. CASE Known
  <2>1. PICK sub : sub = VoidedUpdate(record, t)
    OBVIOUS
  <2>2. /\ sub \in Record /\ sub.status # "none" /\ sub.userId = record.userId
        /\ sub.asOf = LaterStateAsOf(record.asOf, EventTime(t))
    BY <1>1, <1>4, <1>7, <2>1, VoidedUpdateFacts DEF Known
  <2>a. Owned(record) /\ record.asOf <= ReadTime
    BY <1>1, <1>7 DEF RecordSound
  <2>b. EventTime(t) <= sub.asOf /\ sub.asOf <= ReadTime
    <3>1. PICK old \in Time, event \in Time : old = record.asOf /\ event = EventTime(t)
      BY <1>1, <1>5
    <3>2. event <= LaterStateAsOf(old, event) /\ LaterStateAsOf(old, event) \in {old, event}
      BY LaterFacts
    <3> QED
      BY <1>5, <2>a, <2>2, <3>1, <3>2
  <2>3. EventTime(t) <= sub.asOf /\ sub.asOf <= ReadTime /\ Owned(sub)
    BY <2>a, <2>b, <2>2 DEF Owned
  <2>4. PICK job : job = [work[w] EXCEPT !.pc = "save", !.sub = sub]
    OBVIOUS
  <2>5. job \in Job /\ job.pc = "save" /\ job.kind = "voided" /\ job.t = t /\ job.sub = sub
    BY <1>1, <1>2, <1>3, <2>2, <2>4 DEF Job, At
  <2>6. work' = [work EXCEPT ![w] = job]
    BY <1>3, <1>7, <2>1, <2>4 DEF LookupVoided
  <2>7. Current(sub, sub.asOf)'
    <3>1. Current(sub, sub.asOf)
      BY <1>1, <1>4, <1>7, <2>1, VoidedUpdateCurrent DEF Known
    <3> QED
      BY <1>6, <3>1, HandlerKeepsCurrent
  <2>8. JobSound(job)'
    <3>1. ReadTime' = ReadTime /\ (Owned(sub)' <=> Owned(sub))
      BY <1>2 DEF ReadTime, Owned
    <3>2. NotificationSound(job)'
      BY <1>2, <1>4, <2>3, <2>5, <2>7, <3>1 DEF NotificationSound, EventTime
    <3> QED
      BY <2>5, <3>2 DEF JobSound
  <2> QED
    BY <1>2, <1>6, <2>5, <2>6, <2>8, StepKept
<1>8. CASE ~Known
  <2>1. work' = [work EXCEPT ![w] = NoJob]
    BY <1>8 DEF LookupVoided
  <2> QED
    BY <1>2, <1>6, <2>1, DoneKept
<1> QED
  BY <1>7, <1>8

(* What every step from the Play read of an RTDN starts from. *)
LEMMA ReadFacts ==
    ASSUME IInv, NEW w \in Workers, At(w, "rtdn", "read"), NEW t, t = work[w].t,
           NEW existing, existing = work[w].sub
    PROVE  /\ t \in 1..Len(hist) /\ t \in Nat \ {0} /\ hist[t].type # "VOIDED" /\ hist # << >>
           /\ EventTime(t) \in Time /\ EventTime(t) <= work[w].stamp /\ work[w].stamp <= ReadTime
           /\ existing \in Record
           /\ existing.status # "none" =>
                  /\ Owned(existing) /\ existing.asOf <= work[w].stamp
                  /\ Judged => existing.asOf <= record.asOf
<1>1. NotificationSound(work[w]) /\ hist \in Seq(PlayState) /\ work[w].sub \in Record
  BY HandlerFacts DEF At, JobSound
<1>2. t \in 1..Len(hist) /\ hist[t].type # "VOIDED"
  BY <1>1 DEF NotificationSound, At
<1>3. t \in Nat \ {0} /\ hist # << >>
  BY <1>1, <1>2
<1>4. EventTime(t) \in Time
  BY <1>3, EventTimeFacts
<1> QED
  BY <1>1, <1>2, <1>3, <1>4 DEF NotificationSound, At

(* A write that is ready is sound. *)
LEMMA ReadyToSave ==
    ASSUME IInv, HandlerStep, record' = record, applied' = applied,
           NEW w \in Workers, work[w].kind = "rtdn", NEW t \in 1..Len(hist), t = work[w].t,
           hist[t].type # "VOIDED",
           NEW sub \in Record, Owned(sub), EventTime(t) <= sub.asOf, sub.asOf <= ReadTime,
           Judged' => Current(sub, sub.asOf)',
           work' = [work EXCEPT ![w].pc = "save", ![w].stamp = NoTime, ![w].sub = sub]
    PROVE  IInv'
<1>1. work[w] \in Job /\ work \in [Workers -> Job]
  BY HandlerFacts
<1>2. PICK one : one = [work[w] EXCEPT !.pc = "save"]
  OBVIOUS
<1>3. one \in Job /\ one.pc = "save" /\ one.kind = "rtdn" /\ one.t = t
  BY <1>1, <1>2 DEF Job
<1>4. PICK two : two = [one EXCEPT !.stamp = NoTime]
  OBVIOUS
<1>5. two \in Job /\ two.pc = "save" /\ two.kind = "rtdn" /\ two.t = t
  BY <1>3, <1>4 DEF Job, Time, NoTime
<1>6. PICK job : job = [two EXCEPT !.sub = sub]
  OBVIOUS
<1>7. job \in Job /\ job.pc = "save" /\ job.kind = "rtdn" /\ job.t = t /\ job.sub = sub
  BY <1>5, <1>6 DEF Job
<1>8. work' = [work EXCEPT ![w] = job]
  BY <1>1, <1>2, <1>4, <1>6
<1>9. /\ hist' = hist /\ ReadTime' = ReadTime /\ (Owned(sub)' <=> Owned(sub))
  BY DEF HandlerStep, ReadTime, Owned
<1>10. NotificationSound(job)'
  BY <1>7, <1>9 DEF NotificationSound, EventTime
<1>11. JobSound(job)'
  BY <1>7, <1>10 DEF JobSound
<1> QED
  BY <1>7, <1>8, <1>11, StepKept

(* Play answers an RTDN whose purchase is known. *)
LEMMA ReadKnownKeeps ==
    ASSUME IInv, NEW w \in Workers, ReadKnown(w)
    PROVE  IInv'
<1>1. PICK t, existing, stamp, user :
          t = work[w].t /\ existing = work[w].sub /\ stamp = work[w].stamp /\ user = work[w].user
  OBVIOUS
<1>2. /\ TypeOK /\ HistorySound /\ work \in [Workers -> Job] /\ hist \in Seq(PlayState)
      /\ stamp \in Time /\ user \in Owners /\ ReadTime \in Time
      /\ applied \in SUBSET (1..Len(hist)) /\ doubts \in SUBSET {"unjudged", "blind"}
  BY <1>1, HandlerFacts
<1>3. /\ At(w, "rtdn", "read") /\ existing.status # "none"
      /\ UNCHANGED <<hist, record, applied, doubts>>
  BY <1>1 DEF ReadKnown
<1>4. /\ t \in 1..Len(hist) /\ t \in Nat \ {0} /\ hist[t].type # "VOIDED" /\ hist # << >>
      /\ EventTime(t) \in Time /\ EventTime(t) <= stamp /\ stamp <= ReadTime
      /\ existing \in Record /\ Owned(existing) /\ existing.asOf <= stamp
      /\ existing.asOf \in Time
  BY <1>1, <1>3, ReadFacts DEF Record
<1>5. PICK fresh : fresh = LiveRecord(stamp, user)
  OBVIOUS
<1>6. fresh \in Record /\ fresh.status # "none" /\ fresh.asOf = stamp
  BY <1>2, <1>4, <1>5, LiveRecordFacts
<1>7. PICK sub : sub = Refreshed(existing, t, fresh)
  OBVIOUS
<1>8. PICK event \in Time : event = LaterStateAsOf(existing.asOf, EventTime(t))
  BY <1>4, LaterFacts
<1>9. /\ sub \in Record /\ sub.status # "none" /\ sub.userId = existing.userId
      /\ sub.asOf = event \/ sub.asOf = LaterStateAsOf(event, stamp)
  BY <1>3, <1>4, <1>6, <1>7, <1>8, RefreshedFacts
<1>10. EventTime(t) <= event /\ event <= stamp
  BY <1>4, <1>8, LaterFacts
<1>11. EventTime(t) <= sub.asOf /\ sub.asOf <= ReadTime /\ Owned(sub)
  <2>1. LaterStateAsOf(event, stamp) = stamp
    BY <1>2, <1>8, <1>10 DEF LaterStateAsOf, Time
  <2> QED
    BY <1>2, <1>4, <1>8, <1>9, <1>10, <2>1 DEF Owned, Time
<1>12. HandlerStep
  BY <1>2, <1>3 DEF HandlerStep
<1>13. Current(sub, sub.asOf)'
  <2>1. Current(sub, sub.asOf)
    BY <1>2, <1>3, <1>4, <1>5, <1>7, RefreshedCurrent
  <2> QED
    BY <1>12, <2>1, HandlerKeepsCurrent
<1>14. work' = [work EXCEPT ![w].pc = "save", ![w].stamp = NoTime, ![w].sub = sub]
  BY <1>1, <1>2, <1>5, <1>7 DEF ReadKnown
<1>15. work[w].kind = "rtdn"
  BY <1>3 DEF At
<1> QED
  BY <1>1, <1>3, <1>4, <1>9, <1>11, <1>12, <1>13, <1>14, <1>15, ReadyToSave

(* Play answers an RTDN whose purchase is new. *)
LEMMA ReadUnknownKeeps ==
    ASSUME IInv, NEW w \in Workers, ReadUnknown(w)
    PROVE  IInv'
<1>1. PICK t, existing, stamp :
          t = work[w].t /\ existing = work[w].sub /\ stamp = work[w].stamp
  OBVIOUS
<1>2. /\ TypeOK /\ HistorySound /\ work \in [Workers -> Job] /\ hist \in Seq(PlayState)
      /\ stamp \in Time
      /\ applied \in SUBSET (1..Len(hist)) /\ doubts \in SUBSET {"unjudged", "blind"}
  BY <1>1, HandlerFacts
<1>3. At(w, "rtdn", "read") /\ UNCHANGED <<hist, record, applied, doubts>>
  BY DEF ReadUnknown
<1>4. /\ t \in 1..Len(hist) /\ hist[t].type # "VOIDED" /\ hist # << >>
      /\ EventTime(t) <= stamp /\ stamp <= ReadTime
  BY <1>1, <1>3, ReadFacts
<1>5. /\ FirstOwner \in Owners
      /\ BoundAccount # NoAccount => FirstOwner \in {BoundAccount, LinkedUser}
  BY AccountAssumption DEF FirstOwner, Owners
<1>6. PICK sub : sub = LiveRecord(stamp, FirstOwner)
  OBVIOUS
<1>7. /\ sub \in Record /\ sub.status # "none" /\ sub.asOf = stamp /\ sub.userId = FirstOwner
      /\ sub.status = DeriveStatusV2(Now.phase) /\ sub.exp = Now.exp
      /\ sub.willRenew = Now.autoRenew
  BY <1>2, <1>4, <1>5, <1>6, LiveRecordFacts
<1>8. EventTime(t) <= sub.asOf /\ sub.asOf <= ReadTime /\ Owned(sub)
  BY <1>4, <1>5, <1>7 DEF Owned
<1>9. HandlerStep
  BY <1>2, <1>3 DEF HandlerStep
<1>10. Current(sub, sub.asOf)'
  <2>1. Current(sub, sub.asOf)
    BY <1>2, <1>4, <1>7, LiveCurrent
  <2> QED
    BY <1>9, <2>1, HandlerKeepsCurrent
<1>11. work' = [work EXCEPT ![w].pc = "save", ![w].stamp = NoTime, ![w].sub = sub]
  BY <1>1, <1>6 DEF ReadUnknown
<1>12. work[w].kind = "rtdn"
  BY <1>3 DEF At
<1> QED
  BY <1>1, <1>3, <1>4, <1>7, <1>8, <1>9, <1>10, <1>11, <1>12, ReadyToSave

(* Play cannot be reached: the notification alone is written. *)
LEMMA ReadFailsKeeps ==
    ASSUME IInv, NEW w \in Workers, ReadFails(w)
    PROVE  IInv'
<1>1. PICK t, existing : t = work[w].t /\ existing = work[w].sub
  OBVIOUS
<1>2. /\ TypeOK /\ HistorySound /\ work \in [Workers -> Job] /\ hist \in Seq(PlayState)
      /\ work[w].stamp \in Time /\ ReadTime \in Time
      /\ applied \in SUBSET (1..Len(hist)) /\ doubts \in SUBSET {"unjudged", "blind"}
  BY HandlerFacts
<1>3. /\ At(w, "rtdn", "read") /\ existing.status # "none" /\ ~StaleFor(existing, t)
      /\ UNCHANGED <<hist, record, applied>> /\ doubts' = doubts \cup {"blind"}
  BY <1>1 DEF ReadFails
<1>4. /\ t \in 1..Len(hist) /\ t \in Nat \ {0} /\ hist[t].type # "VOIDED"
      /\ EventTime(t) \in Time /\ EventTime(t) <= work[w].stamp /\ work[w].stamp <= ReadTime
      /\ existing \in Record /\ Owned(existing) /\ existing.asOf <= work[w].stamp
      /\ existing.asOf \in Time
  BY <1>1, <1>3, ReadFacts DEF Record
<1>5. PICK sub : sub = NotificationOnly(existing, t)
  OBVIOUS
<1>6. /\ sub \in Record /\ sub.status # "none" /\ sub.userId = existing.userId
      /\ sub.asOf = LaterStateAsOf(existing.asOf, EventTime(t))
  BY <1>3, <1>4, <1>5, NotificationOnlyFacts
<1>7. EventTime(t) <= sub.asOf /\ sub.asOf <= work[w].stamp /\ Owned(sub)
  BY <1>4, <1>6, LaterFacts DEF Owned
<1>8. sub.asOf <= ReadTime
  BY <1>2, <1>4, <1>6, <1>7 DEF Record, Time
<1>9. HandlerStep
  BY <1>2, <1>3 DEF HandlerStep
<1>10. Current(sub, sub.asOf)'
  BY <1>2, <1>3, <1>4, <1>5, NotificationOnlyCurrent
<1>11. work' = [work EXCEPT ![w].pc = "save", ![w].stamp = NoTime, ![w].sub = sub]
  BY <1>1, <1>2, <1>5 DEF ReadFails
<1>12. work[w].kind = "rtdn"
  BY <1>3 DEF At
<1> QED
  BY <1>1, <1>3, <1>4, <1>6, <1>7, <1>8, <1>9, <1>10, <1>11, <1>12, ReadyToSave

(* Play refuses, and nothing is left to write. *)
LEMMA ReadRefusedKeeps ==
    ASSUME IInv, NEW w \in Workers, ReadRefused(w)
    PROVE  IInv'
<1>1. PICK t, existing : t = work[w].t /\ existing = work[w].sub
  OBVIOUS
<1>2. /\ RecordSound /\ record.asOf \in Time /\ work[w].t \in Nat
      /\ applied \in SUBSET (1..Len(hist)) /\ doubts \in SUBSET {"unjudged", "blind"}
  BY HandlerFacts
<1>3. /\ At(w, "rtdn", "read") /\ UNCHANGED <<hist, record, doubts>>
      /\ existing.status = "none" \/ StaleFor(existing, t)
      /\ work' = [work EXCEPT ![w] = NoJob]
      /\ applied' = IF existing.status = "none" THEN applied ELSE applied \cup {t}
  BY <1>1 DEF ReadRefused
<1>4. /\ t \in 1..Len(hist)
      /\ EventTime(t) \in Time /\ existing \in Record /\ existing.asOf \in Time
      /\ existing.status # "none" /\ Judged => existing.asOf <= record.asOf
  BY <1>1, <1>3, ReadFacts DEF Record
<1>5. HandlerStep
  BY <1>1, <1>2, <1>3, <1>4 DEF HandlerStep
<1>6. ASSUME Judged, existing.status # "none"
      PROVE  Known /\ EventTime(t) <= record.asOf
  <2>1. EventTime(t) < existing.asOf
    BY <1>3, <1>6 DEF StaleFor, IsStaleSnapshot
  <2>2. EventTime(t) < record.asOf /\ record.asOf # NoTime
    BY <1>2, <1>4, <1>6, <2>1 DEF Time, NoTime
  <2> QED
    BY <1>2, <1>4, <2>2 DEF RecordSound, Time
<1>7. Judged => \A x \in applied' : x \in applied \/ (Known /\ EventTime(x) <= record.asOf)
  BY <1>3, <1>6
<1> QED
  BY <1>3, <1>5, <1>7, DoneKept

(* A token that is posted, and what becomes of it. *)
LEMMA PostTokenKeeps ==
    ASSUME IInv, NEW w \in Workers, NEW user \in Users, PostToken(w, user)
    PROVE  IInv'
<1>1. /\ ReadTime \in Time /\ ReadTime = 2 * Len(hist) + 1 /\ hist \in Seq(PlayState)
      /\ applied \in SUBSET (1..Len(hist)) /\ doubts \in SUBSET {"unjudged", "blind"}
      /\ UNCHANGED <<hist, record, applied, doubts>> /\ hist # << >>
  BY HandlerFacts DEF PostToken
<1>2. PICK job : job = [NoJob EXCEPT !.pc = "read", !.kind = "validate",
                                     !.user = user, !.stamp = ReadTime]
  OBVIOUS
<1>3. job \in Job /\ job.pc = "read" /\ job.kind = "validate" /\ job.stamp = ReadTime
  <2>1. job = [pc |-> "read", kind |-> "validate", t |-> 0, user |-> user,
               stamp |-> ReadTime, sub |-> NoRecord]
    BY <1>2 DEF NoJob
  <2> QED
    BY <1>1, <2>1, NoJobType DEF Job, Owners
<1>4. work' = [work EXCEPT ![w] = job]
  BY <1>2 DEF PostToken
<1>5. TokenSound(job)'
  <2>1. ReadTime' = ReadTime /\ ReadTime # NoTime /\ ReadTime <= ReadTime'
    BY <1>1 DEF ReadTime, Time, NoTime
  <2> QED
    BY <1>1, <1>3, <2>1 DEF TokenSound
<1>6. JobSound(job)' /\ HandlerStep
  BY <1>1, <1>3, <1>5 DEF JobSound, HandlerStep
<1> QED
  BY <1>1, <1>3, <1>4, <1>6, StepKept

(* Play answers a validate request. *)
LEMMA ReadForValidateKeeps ==
    ASSUME IInv, NEW w \in Workers, ReadForValidate(w)
    PROVE  IInv'
<1>1. PICK stamp, user : stamp = work[w].stamp /\ user = work[w].user
  OBVIOUS
<1>2. /\ TypeOK /\ HistorySound /\ hist \in Seq(PlayState)
      /\ work \in [Workers -> Job] /\ work[w] \in Job /\ stamp \in Time /\ user \in Owners
      /\ applied \in SUBSET (1..Len(hist)) /\ doubts \in SUBSET {"unjudged", "blind"}
  BY <1>1, HandlerFacts
<1>3. At(w, "validate", "read") /\ UNCHANGED <<hist, record, applied, doubts>>
  BY DEF ReadForValidate
<1>4. hist # << >> /\ stamp # NoTime /\ stamp <= ReadTime
  BY <1>1, <1>3, HandlerFacts DEF At, JobSound, TokenSound
<1>5. HandlerStep
  BY <1>2, <1>3 DEF HandlerStep
<1>6. CASE MayBind(user)
  <2>1. PICK sub : sub = LiveRecord(stamp, user)
    OBVIOUS
  <2>2. /\ sub \in Record /\ sub.status # "none" /\ sub.asOf = stamp /\ sub.userId = user
        /\ sub.status = DeriveStatusV2(Now.phase) /\ sub.exp = Now.exp
        /\ sub.willRenew = Now.autoRenew
    BY <1>2, <1>4, <2>1, LiveRecordFacts
  <2>3. Owned(sub)
    BY <1>6, <2>2 DEF Owned, MayBind
  <2>4. Current(sub, stamp)'
    <3>1. Current(sub, stamp)
      BY <1>2, <1>4, <2>2, LiveCurrent
    <3> QED
      BY <1>5, <3>1, HandlerKeepsCurrent
  <2>5. PICK job : job = [work[w] EXCEPT !.pc = "lookup", !.sub = sub]
    OBVIOUS
  <2>6. /\ job \in Job /\ job.pc = "lookup" /\ job.kind = "validate" /\ job.stamp = stamp
        /\ job.sub = sub
    BY <1>1, <1>2, <1>3, <2>2, <2>5 DEF Job, At
  <2>7. work' = [work EXCEPT ![w] = job]
    BY <1>1, <1>6, <2>1, <2>5 DEF ReadForValidate
  <2>8. TokenSound(job)'
    <3>1. ReadTime' = ReadTime /\ (Owned(sub)' <=> Owned(sub))
      BY <1>3 DEF ReadTime, Owned
    <3> QED
      BY <1>3, <1>4, <2>2, <2>3, <2>4, <2>6, <3>1 DEF TokenSound
  <2>9. JobSound(job)'
    BY <2>6, <2>8 DEF JobSound
  <2> QED
    BY <1>3, <1>5, <2>6, <2>7, <2>9, StepKept
<1>7. CASE ~MayBind(user)
  <2>1. work' = [work EXCEPT ![w] = NoJob]
    BY <1>1, <1>7 DEF ReadForValidate
  <2> QED
    BY <1>3, <1>5, <2>1, DoneKept
<1> QED
  BY <1>6, <1>7

(* A validate request reads the stored record, and may take its owner and its time. *)
LEMMA ValidateLookupKeeps ==
    ASSUME IInv, NEW w \in Workers, ValidateLookup(w) \/ ValidateLookupFails(w)
    PROVE  IInv'
<1>1. PICK stamp, live : stamp = work[w].stamp /\ live = work[w].sub
  OBVIOUS
<1>2. /\ TypeOK /\ RecordSound /\ hist \in Seq(PlayState)
      /\ work \in [Workers -> Job] /\ work[w] \in Job /\ stamp \in Time
      /\ live \in Record /\ record.asOf \in Time /\ ReadTime \in Time
      /\ applied \in SUBSET (1..Len(hist)) /\ doubts \in SUBSET {"unjudged", "blind"}
  BY <1>1, HandlerFacts
<1>3. At(w, "validate", "lookup") /\ UNCHANGED <<hist, record, applied, doubts>>
  BY DEF ValidateLookup, ValidateLookupFails
<1>4. /\ hist # << >> /\ stamp # NoTime /\ stamp <= ReadTime
      /\ Owned(live) /\ Current(live, stamp) /\ live.asOf = stamp
  BY <1>1, <1>3, HandlerFacts DEF At, JobSound, TokenSound
<1>5. PICK time \in Time :
          /\ time = LaterStateAsOf(record.asOf, stamp) \/ time = NoTime
          /\ work' = [work EXCEPT ![w].pc = "save", ![w].sub.asOf = time]
  <2>1. LaterStateAsOf(record.asOf, stamp) \in Time /\ NoTime \in Time
    BY <1>2, LaterFacts DEF NoTime, Time
  <2>2. live.asOf = stamp /\ work[w].sub.asOf = stamp
    BY <1>1, <1>4
  <2>3. CASE ValidateLookup(w)
    <3>1. work' = [work EXCEPT ![w].pc = "save",
                               ![w].sub.asOf = LaterStateAsOf(record.asOf, stamp)]
      BY <1>2, <2>2, <2>3 DEF ValidateLookup
    <3> QED
      BY <2>1, <3>1
  <2>4. CASE ValidateLookupFails(w)
    BY <2>1, <2>4 DEF ValidateLookupFails
  <2> QED
    BY <2>3, <2>4
<1>6. time <= ReadTime /\ (time <= stamp \/ time <= record.asOf)
  BY <1>2, <1>4, <1>5, LaterFacts DEF RecordSound, Time, NoTime
<1>7. PICK sub : sub = [live EXCEPT !.asOf = time]
  OBVIOUS
<1>8. /\ sub \in Record /\ sub.asOf = time /\ sub.status = live.status /\ sub.exp = live.exp
      /\ sub.willRenew = live.willRenew /\ sub.userId = live.userId
  BY <1>2, <1>7 DEF Record
<1>9. HandlerStep
  BY <1>2, <1>3 DEF HandlerStep
<1>10. Owned(sub) /\ Current(sub, stamp)'
  <2>1. Current(sub, stamp)
    BY <1>4, <1>8, CurrentFields
  <2> QED
    BY <1>4, <1>8, <1>9, <2>1, HandlerKeepsCurrent DEF Owned
<1>11. PICK one : one = [work[w] EXCEPT !.pc = "save"]
  OBVIOUS
<1>12. /\ one \in Job /\ one.pc = "save" /\ one.kind = "validate" /\ one.stamp = stamp
       /\ one.sub = live
  BY <1>1, <1>2, <1>3, <1>11 DEF Job, At
<1>13. PICK job : job = [one EXCEPT !.sub = sub]
  OBVIOUS
<1>14. /\ job \in Job /\ job.pc = "save" /\ job.kind = "validate" /\ job.stamp = stamp
       /\ job.sub = sub
  BY <1>8, <1>12, <1>13 DEF Job
<1>15. work' = [work EXCEPT ![w] = job]
  <2>1. job = [one EXCEPT !.sub.asOf = time]
    BY <1>7, <1>12, <1>13
  <2> QED
    BY <1>2, <1>5, <1>11, <2>1
<1>16. TokenSound(job)'
  <2>1. ReadTime' = ReadTime /\ (Owned(sub)' <=> Owned(sub)) /\ record' = record
    BY <1>3 DEF ReadTime, Owned
  <2> QED
    BY <1>3, <1>4, <1>6, <1>8, <1>10, <1>14, <2>1 DEF TokenSound
<1>17. JobSound(job)'
  BY <1>14, <1>16 DEF JobSound
<1> QED
  BY <1>3, <1>9, <1>14, <1>15, <1>17, StepKept

(* A webhook's save. *)
LEMMA WebhookSaveKeeps ==
    ASSUME IInv, NEW w \in Workers, WebhookSave(w)
    PROVE  IInv'
<1>1. PICK t, sub : t = work[w].t /\ sub = work[w].sub
  OBVIOUS
<1>2. /\ hist \in Seq(PlayState) /\ sub \in Record /\ sub.asOf \in Time /\ t \in Nat
      /\ applied \in SUBSET (1..Len(hist)) /\ doubts \in SUBSET {"unjudged", "blind"}
  BY <1>1, HandlerFacts
<1>3. /\ UNCHANGED <<hist, doubts>> /\ record' = Saved(record, sub)
      /\ work' = [work EXCEPT ![w] = NoJob] /\ applied' = applied \cup {t}
      /\ work[w].kind # "validate" /\ work[w].pc = "save"
  BY <1>1 DEF WebhookSave
<1>4. NotificationSound(work[w])
  BY <1>3, HandlerFacts DEF JobSound
<1>5. /\ t \in 1..Len(hist) /\ Owned(sub) /\ EventTime(t) <= sub.asOf /\ sub.asOf <= ReadTime
      /\ Judged => Current(sub, sub.asOf)
  BY <1>1, <1>3, <1>4 DEF NotificationSound
<1>6. hist # << >> /\ sub.asOf # NoTime
  BY <1>2, <1>5 DEF EventTime, Time, NoTime
<1>7. HandlerStep /\ (Judged' <=> Judged)
  BY <1>2, <1>3, <1>5 DEF HandlerStep, Judged
<1> QED
  BY <1>2, <1>3, <1>5, <1>6, <1>7, SaveKept

(* A validate request's save. *)
LEMMA ValidateSaveKeeps ==
    ASSUME IInv, NEW w \in Workers, ValidateSave(w)
    PROVE  IInv'
<1>1. PICK stamp, sub : stamp = work[w].stamp /\ sub = work[w].sub
  OBVIOUS
<1>2. /\ TypeOK /\ sub \in Record /\ sub.asOf \in Time /\ stamp \in Time /\ record.asOf \in Time
      /\ applied \in SUBSET (1..Len(hist)) /\ doubts \in SUBSET {"unjudged", "blind"}
  BY <1>1, HandlerFacts
<1>3. /\ UNCHANGED <<hist, applied>> /\ record' = Saved(record, sub)
      /\ work' = [work EXCEPT ![w] = NoJob]
      /\ doubts' = IF stamp < record.asOf \/ sub.asOf = NoTime
                   THEN doubts \cup {"unjudged"} ELSE doubts
      /\ work[w].kind = "validate" /\ work[w].pc = "save"
  BY <1>1 DEF ValidateSave, At
<1>4. TokenSound(work[w])
  BY <1>3, HandlerFacts DEF JobSound
<1>5. /\ hist # << >> /\ Owned(sub) /\ Current(sub, stamp) /\ sub.asOf <= ReadTime
      /\ Judged => sub.asOf <= stamp \/ sub.asOf <= record.asOf
  BY <1>1, <1>3, <1>4 DEF TokenSound
<1>6. HandlerStep
  BY <1>2, <1>3 DEF HandlerStep
<1>7. ASSUME Judged'
      PROVE  sub.asOf # NoTime /\ Current(sub, sub.asOf)
  <2>1. Judged /\ ~(stamp < record.asOf) /\ sub.asOf # NoTime
    BY <1>3, <1>7 DEF Judged
  <2>2. sub.asOf <= stamp
    BY <1>2, <1>5, <2>1 DEF Time
  <2> QED
    BY <1>2, <1>5, <2>1, <2>2, CurrentEarlier
<1> QED
  BY <1>2, <1>3, <1>5, <1>6, <1>7, SaveKept
-----------------------------------------------------------------------------
(* Nothing has happened and nothing is stored. *)
LEMMA InitHolds ==
    ASSUME Init
    PROVE  IInv
<1>1. TypeOK
  BY NoJobType DEF Init, TypeOK
<1>2. \A w \in Workers : JobSound(work[w])
  BY DEF Init, JobSound, NoJob
<1>3. /\ ~Known /\ record.asOf = NoTime /\ ReadTime = 1 /\ Len(hist) = 0 /\ hist = << >>
      /\ record.status = "none"
  BY DEF Init, Known, NoRecord, ReadTime
<1>4. HistorySound
  BY <1>3 DEF HistorySound
<1>5. RecordSound
  <2>1. Current(record, record.asOf)
    BY <1>3 DEF Current, EntitledStatus
  <2> QED
    BY <1>3, <2>1 DEF RecordSound, NoTime
<1>6. ProcessedIsRemembered /\ AppliedHappened
  BY DEF Init, ProcessedIsRemembered, AppliedHappened
<1> QED
  BY <1>1, <1>2, <1>4, <1>5, <1>6 DEF IInv, JobsSound

(* A stuttering step. *)
LEMMA StutterKeeps ==
    ASSUME IInv, UNCHANGED vars
    PROVE  IInv'
<1>1. /\ UNCHANGED <<hist, record, work, applied, doubts>>
      /\ TypeOK /\ HistorySound /\ JobsSound /\ RecordSound /\ ProcessedIsRemembered
  BY DEF IInv, vars
<1>2. TypeOK' /\ HistorySound' /\ ProcessedIsRemembered'
  BY <1>1 DEF TypeOK, HistorySound, RefundAt, ProcessedIsRemembered, Known, EventTime
<1>3. HandlerStep
  BY <1>1 DEF HandlerStep, TypeOK, IInv, AppliedHappened
<1>4. \A rec, time : Current(rec, time) => Current(rec, time)'
  BY <1>3, HandlerKeepsCurrent
<1>5. RecordSound'
  BY <1>1, <1>4 DEF RecordSound, Known, Owned, ReadTime, Judged
<1>6. JobsSound'
  <2> SUFFICES ASSUME NEW w \in Workers PROVE JobSound(work[w])'
    BY DEF JobsSound
  <2>1. PICK job : job = work[w]
    OBVIOUS
  <2>2. JobSound(job)
    BY <1>1, <2>1 DEF JobsSound
  <2>3. /\ \A t : EventTime(t)' = EventTime(t)
        /\ \A rec : Owned(rec)' <=> Owned(rec)
        /\ ReadTime' = ReadTime /\ (Judged' <=> Judged)
    BY <1>1 DEF EventTime, Owned, ReadTime, Judged
  <2>4. TokenSound(job) => TokenSound(job)'
    BY <1>1, <1>4, <2>3 DEF TokenSound
  <2>5. NotificationSound(job) => NotificationSound(job)'
    BY <1>1, <1>4, <2>3 DEF NotificationSound
  <2>6. JobSound(job)'
    BY <2>2, <2>4, <2>5 DEF JobSound
  <2> QED
    BY <1>1, <2>1, <2>6
<1>7. AppliedHappened'
  BY <1>1 DEF IInv, AppliedHappened
<1> QED
  BY <1>2, <1>5, <1>6, <1>7 DEF IInv

(* A store operation throws. *)
LEMMA ThrowKeeps ==
    ASSUME IInv, NEW w \in Workers, Throw(w)
    PROVE  IInv'
<1>1. /\ UNCHANGED <<hist, record, applied, doubts>> /\ work' = [work EXCEPT ![w] = NoJob]
      /\ applied \in SUBSET (1..Len(hist)) /\ doubts \in SUBSET {"unjudged", "blind"}
  BY HandlerFacts DEF Throw
<1> QED
  BY <1>1, DoneKept DEF HandlerStep

(* Every step keeps the invariant. *)
LEMMA StepKeeps ==
    ASSUME IInv, [Next]_vars
    PROVE  IInv'
<1>1. CASE PlayNext
  BY <1>1, PlayKeeps
<1>2. ASSUME NEW w \in Workers, HandlerNext(w)
      PROVE  IInv'
  <2>1. CASE \E t \in 1..MaxEvents : Deliver(w, t)
    BY <2>1, DeliverKeeps
  <2>2. CASE \E user \in Users : PostToken(w, user)
    BY <2>2, PostTokenKeeps
  <2>3. CASE LookupKnown(w) \/ LookupUnknown(w) \/ LookupVoided(w)
    BY <2>3, LookupKnownKeeps, LookupUnknownKeeps, LookupVoidedKeeps
  <2>4. CASE ReadKnown(w) \/ ReadUnknown(w) \/ ReadFails(w) \/ ReadRefused(w)
    BY <2>4, ReadKnownKeeps, ReadUnknownKeeps, ReadFailsKeeps, ReadRefusedKeeps
  <2>5. CASE ReadForValidate(w) \/ ValidateLookup(w) \/ ValidateLookupFails(w)
    BY <2>5, ReadForValidateKeeps, ValidateLookupKeeps
  <2>6. CASE WebhookSave(w) \/ ValidateSave(w) \/ Throw(w)
    BY <2>6, WebhookSaveKeeps, ValidateSaveKeeps, ThrowKeeps
  <2> QED
    BY <1>2, <2>1, <2>2, <2>3, <2>4, <2>5, <2>6 DEF HandlerNext
<1>3. CASE UNCHANGED vars
  BY <1>3, StutterKeeps
<1> QED
  BY <1>1, <1>2, <1>3 DEF Next

(* The inductive invariant holds. *)
LEMMA InvariantHolds == Spec => []IInv
<1>1. Init => IInv
  BY InitHolds
<1>2. IInv /\ [Next]_vars => IInv'
  BY StepKeeps
<1> QED
  BY <1>1, <1>2, PTL DEF Spec

(* The state has its types, for any handlers, users, account links and length of history. *)
THEOREM TypeCorrect == Spec => []TypeOK
<1>1. IInv => TypeOK
  BY DEF IInv
<1> QED
  BY <1>1, InvariantHolds, PTL

(* However notifications, retries and posted tokens overlap, once the store's guard
   has judged every write the record tells of a time no earlier than each notification
   that was processed: no late save takes the record back behind one. *)
THEOREM ProcessedStays == Spec => []ProcessedIsRemembered
<1>1. IInv => ProcessedIsRemembered
  BY DEF IInv
<1> QED
  BY <1>1, InvariantHolds, PTL

(* A purchase bound to an account is only ever stored for that account, or for the
   owner of the purchase it replaces, whoever posts the token. *)
THEOREM AccountOwnsPurchase == Spec => []BoundToAccount
<1>1. IInv => BoundToAccount
  BY DEF IInv, RecordSound, Owned, BoundToAccount
<1> QED
  BY <1>1, InvariantHolds, PTL

(* Under the refund policy "immediate", no notification, late, repeated or overtaken,
   brings access back after a refund was processed, unless a validate request wrote
   without looking. *)
THEOREM RefundIsFinal == Spec => []RtdnNeverRevives
<1>1. IInv => RtdnNeverRevives
  <2> SUFFICES ASSUME IInv, Judged, RefundPolicy = "immediate", Refunds # {}
               PROVE  ~Entitled(record)
    BY DEF RtdnNeverRevives, RefundSticks, Judged
  <2>1. PICK t \in applied : RefundAt(t)
    BY DEF Refunds, RefundAt
  <2>2. Known /\ EventTime(t) <= record.asOf /\ t \in Nat /\ record.asOf \in Time
    BY <2>1 DEF IInv, ProcessedIsRemembered, Judged, TypeOK, Record
  <2>3. t \in 1..Len(hist)
    BY DEF IInv, AppliedHappened
  <2>4. ~(record.asOf < EventTime(t))
    BY <2>2 DEF EventTime, Time
  <2>5. record.status \notin EntitledStatus
    BY <2>1, <2>3, <2>4 DEF IInv, RecordSound, Current
  <2> QED
    BY <2>5 DEF Entitled, IsSubscriptionEntitled
<1> QED
  BY <1>1, InvariantHolds, PTL

(* When every notification has been processed and nobody is at work, the record says
   what Play says, for every length of history: neither a lost race nor an order of
   delivery leaves it behind, if the guard judged every write and no blind update was
   made. *)
THEOREM RecordConverges ==
    ASSUME RefundPolicy = "immediate"
    PROVE  Spec => []Converged
<1>1. IInv => Converged
  <2> SUFFICES ASSUME IInv, Quiescent, doubts = {}, Known
               PROVE  Mirrors(record)
    BY DEF Converged, Mirrors
  <2>1. hist # << >> /\ Judged /\ Len(hist) \in 1..Len(hist)
    BY NowType DEF IInv, RecordSound, Judged, TypeOK
  <2>2. EventTime(Len(hist)) <= record.asOf
    BY <2>1 DEF Quiescent, IInv, ProcessedIsRemembered, Judged
  <2> QED
    BY <2>1, <2>2 DEF IInv, RecordSound, Current
<1> QED
  BY <1>1, InvariantHolds, PTL
=============================================================================
