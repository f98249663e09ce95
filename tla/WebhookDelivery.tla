---------------------------- MODULE WebhookDelivery ----------------------------
(***************************************************************************)
(* How a store notification travels from Apple or Google to the code that  *)
(* applies it: delivery and redelivery by the source, the idempotency gate *)
(* of the webhook routes, inline processing or a durable job queue with    *)
(* retries and dead letters, and what each failure does on the way.        *)
(*                                                                         *)
(*   routes/webhook-apple.ts   handleAppleWebhook                          *)
(*   routes/webhook-google.ts  handleGoogleWebhook                         *)
(*   routes/webhook.ts         the queue's handler, retry semantics        *)
(*   webhook-events.ts         WebhookEventStore and unmarkWebhookEvent    *)
(*   webhook-queue.ts          InProcessWebhookQueue, BullMQWebhookQueue   *)
(*                                                                         *)
(* What processing an event does to the stores is the subject of           *)
(* AppleSubscription and GoogleSubscription; here it is one step that      *)
(* counts.  The event store keeps a mark longer (7 days) than a source     *)
(* retries (3 days), so marks do not expire.  InProcessWebhookQueue runs   *)
(* the handler inside enqueue() and so behaves as mode "inline".           *)
(***************************************************************************)
EXTENDS Naturals, FiniteSets, Functions

CONSTANTS
    Events,       \* notifications, by notificationUUID or messageId
    Requests,     \* slots for concurrent deliveries
    Modes,        \* subset of {"inline", "queue"}: config.webhookQueue
    EventStores,  \* subset of {"none", "memory", "cache", "redis"}
    Kinds,        \* subset of {"work", "foreign", "ignored"}
    FaultKinds,   \* the faults that may happen
    MaxFaults,    \* bound on how many happen
    MaxAttempts   \* BullMQWebhookQueueOptions.maxAttempts

FaultKind == {"timeout",         \* the source stops waiting for an answer
              "lost",            \* an answer is lost on its way
              "redelivery",      \* the source delivers again what was answered 2xx
              "decode",          \* decodeAppleNotification throws
              "mark",            \* markIfNew throws, nothing is marked
              "markAnswerLost",  \* markIfNew throws, the event is marked
              "unmark",          \* unmark throws, the mark stays
              "handler",         \* processing throws before its effect
              "handlerLate",     \* processing throws after its effect
              "enqueue",         \* enqueue throws, no job is added
              "enqueueLate",     \* enqueue throws, the job was added
              "restart",         \* the process dies, its memory is all it had
              "durableRestart"}  \* the process dies, the marks survive it

ASSUME SetupAssumption == /\ Modes \subseteq {"inline", "queue"}
                          /\ EventStores \subseteq {"none", "memory", "cache", "redis"}
                          /\ Kinds \subseteq {"work", "foreign", "ignored"}
                          /\ FaultKinds \subseteq FaultKind
ASSUME EventsAssumption == Events # {}
ASSUME BoundAssumption == MaxFaults \in Nat /\ MaxAttempts \in Nat \ {0}

VARIABLES
    mode,       \* how the deployment processes: inline or through the queue
    eventStore, \* its WebhookEventStore
    kind,       \* what each event is to this server
    source,     \* does the source still owe a delivery of the event
    request,    \* what each request handler is doing
    marked,     \* events in the event store
    job,        \* the queue's job of each event (webhookJobId is the event's)
    effects,    \* history: how often processing took effect
    overtaken,  \* history: events acknowledged as duplicates of unfinished work
    faults      \* how many faults of each kind happened

vars == <<mode, eventStore, kind, source, request, marked, job, effects,
          overtaken, faults>>
setup == <<mode, eventStore, kind>>

(* at: where the handler is; heard: the source still waits for its answer. *)
Request == [event : Events, heard : BOOLEAN, status : {0, 200, 400, 500},
            at : {"idle", "markIfNew", "marking", "gate", "enqueue", "process",
                  "failed", "answer"}]

Job == [state : {"none", "waiting", "active", "completed", "failed"},
        attempts : 0 .. MaxAttempts]

NoJob == [state |-> "none", attempts |-> 0]

TypeOK ==
    /\ mode \in Modes
    /\ eventStore \in EventStores
    /\ kind \in [Events -> Kinds]
    /\ source \in [Events -> {"delivering", "done"}]
    /\ request \in [Requests -> Request]
    /\ marked \in SUBSET Events
    /\ job \in [Events -> Job]
    /\ effects \in [Events -> Nat]
    /\ overtaken \in SUBSET Events
    /\ faults \in [FaultKind -> Nat]

Init ==
    /\ mode \in Modes
    /\ eventStore \in EventStores
    /\ kind \in [Events -> Kinds]
    /\ source = [e \in Events |-> "delivering"]
    /\ request \in [Requests -> {[event |-> e, heard |-> FALSE, status |-> 0,
                                  at |-> "idle"] : e \in {CHOOSE e \in Events : TRUE}}]
    /\ marked = {}
    /\ job = [e \in Events |-> NoJob]
    /\ effects = [e \in Events |-> 0]
    /\ overtaken = {}
    /\ faults = [k \in FaultKind |-> 0]
-----------------------------------------------------------------------------
FaultsLeft == FoldFunction(+, 0, faults) < MaxFaults

Fault(k) ==
    /\ k \in FaultKinds
    /\ FaultsLeft
    /\ faults' = [faults EXCEPT ![k] = @ + 1]

NoFault == UNCHANGED faults

At(r, at) == request[r].at = at

Goes(r, at) == request' = [request EXCEPT ![r].at = at]

Replies(r, status) ==
    request' = [request EXCEPT ![r].at = "answer", ![r].status = status]

(* Requests between the idempotency gate and their answer. *)
Working(e) ==
    {r \in Requests : request[r].event = e /\ request[r].at \in
                        {"marking", "gate", "enqueue", "process", "failed"}}

TakesEffect(e) == effects' = [effects EXCEPT ![e] = @ + 1]
-----------------------------------------------------------------------------
(* The source: Apple and Google retry until they hear a 2xx. *)

Arrives(e, heard) ==
    \E r \in Requests :
        /\ At(r, "idle")
        /\ request' = [request EXCEPT ![r] =
                         [event |-> e, heard |-> heard, status |-> 0, at |-> "markIfNew"]]

Deliver(e) ==
    /\ source[e] = "delivering"
    /\ \A r \in Requests : ~(request[r].event = e /\ request[r].heard)
    /\ Arrives(e, TRUE)
    /\ NoFault
    /\ UNCHANGED <<setup, source, marked, job, effects, overtaken>>

Redeliver(e) ==
    /\ source[e] = "done"
    /\ Arrives(e, FALSE)
    /\ Fault("redelivery")
    /\ UNCHANGED <<setup, source, marked, job, effects, overtaken>>

StopsWaiting(r) ==
    /\ request[r].heard
    /\ Fault(IF At(r, "answer") THEN "lost" ELSE "timeout")
    /\ request' = [request EXCEPT ![r].heard = FALSE]
    /\ UNCHANGED <<setup, source, marked, job, effects, overtaken>>

Answer(r) ==
    /\ At(r, "answer")
    /\ request' = [request EXCEPT ![r].at = "idle", ![r].heard = FALSE]
    /\ source' = IF request[r].heard /\ request[r].status = 200
                 THEN [source EXCEPT ![request[r].event] = "done"]
                 ELSE source
    /\ NoFault
    /\ UNCHANGED <<setup, marked, job, effects, overtaken>>
-----------------------------------------------------------------------------
(* The idempotency gate.  Without an event store every delivery is new.  The
   memory and Redis stores test and set in one step; the cache-backed one reads
   first and writes after an await. *)

(* A mistake: the Redis store as a GET and a SET. *)
OnlyMemoryMarksAtomically == eventStore = "memory"

MarksAtomically == eventStore \in {"memory", "redis"}

MarkIfNewNew(r) ==
    /\ At(r, "markIfNew")
    /\ eventStore # "none" => request[r].event \notin marked
    /\ Goes(r, IF eventStore = "none" \/ MarksAtomically THEN "gate" ELSE "marking")
    /\ marked' = IF MarksAtomically THEN marked \cup {request[r].event} ELSE marked
    /\ NoFault
    /\ UNCHANGED <<setup, source, job, effects, overtaken>>

CacheSet(r) ==
    /\ At(r, "marking")
    /\ Goes(r, "gate")
    /\ marked' = marked \cup {request[r].event}
    /\ NoFault
    /\ UNCHANGED <<setup, source, job, effects, overtaken>>

Deduped(r) ==
    /\ At(r, "markIfNew")
    /\ eventStore # "none"
    /\ request[r].event \in marked
    /\ Replies(r, 200)
    /\ overtaken' = overtaken \cup {e \in {request[r].event} :
                                      Working(e) # {} /\ request[r].heard}
    /\ NoFault
    /\ UNCHANGED <<setup, source, marked, job, effects>>

(* A throw out of the handler reaches Express, which answers 500. *)
MarkFails(r) ==
    /\ At(r, "markIfNew")
    /\ eventStore \in {"cache", "redis"}
    /\ Replies(r, 500)
    /\ \/ Fault("mark") /\ UNCHANGED marked
       \/ Fault("markAnswerLost") /\ marked' = marked \cup {request[r].event}
    /\ UNCHANGED <<setup, source, job, effects, overtaken>>
-----------------------------------------------------------------------------
(* Decoding and the app check.  A notification for an app this server does not
   serve is refused for good and stays marked. *)

Passes(r) ==
    /\ At(r, "gate")
    /\ kind[request[r].event] = "work"
    /\ Goes(r, IF mode = "queue" THEN "enqueue" ELSE "process")
    /\ NoFault
    /\ UNCHANGED <<setup, source, marked, job, effects, overtaken>>

NotForUs(r) ==
    /\ At(r, "gate")
    /\ kind[request[r].event] \in {"ignored", "foreign"}
    /\ Replies(r, IF kind[request[r].event] = "ignored" THEN 200 ELSE 400)
    /\ NoFault
    /\ UNCHANGED <<setup, source, marked, job, effects, overtaken>>

DecodeFails(r) ==
    /\ At(r, "gate")
    /\ Fault("decode")
    /\ Goes(r, "failed")
    /\ UNCHANGED <<setup, source, marked, job, effects, overtaken>>

(* A mistake: the failure paths as they were before they released the mark. *)
MarksKeptAfterFailure(e) == marked

(* unmarkWebhookEvent, then 500. *)
MarksAfterFailure(e) == marked \ {e}

UnmarkAndFail(r) ==
    /\ At(r, "failed")
    /\ Replies(r, 500)
    /\ \/ marked' = MarksAfterFailure(request[r].event) /\ NoFault
       \/ eventStore \in {"cache", "redis"} /\ Fault("unmark") /\ UNCHANGED marked
    /\ UNCHANGED <<setup, source, job, effects, overtaken>>
-----------------------------------------------------------------------------
(* Inline mode: without a queue, or with InProcessWebhookQueue, whose enqueue runs
   the handler within the request and fails with it. *)

Process(r) ==
    /\ At(r, "process")
    /\ TakesEffect(request[r].event)
    /\ Replies(r, 200)
    /\ NoFault
    /\ UNCHANGED <<setup, source, marked, job, overtaken>>

ProcessFails(r) ==
    /\ At(r, "process")
    /\ Goes(r, "failed")
    /\ \/ Fault("handler") /\ UNCHANGED effects
       \/ Fault("handlerLate") /\ TakesEffect(request[r].event)
    /\ UNCHANGED <<setup, source, marked, job, overtaken>>
-----------------------------------------------------------------------------
(* Queue mode.  BullMQ ignores an add whose job id it still holds, whatever the
   state of that job. *)

Added(e) == IF job[e].state = "none"
            THEN [job EXCEPT ![e] = [state |-> "waiting", attempts |-> 0]]
            ELSE job

Enqueue(r) ==
    /\ At(r, "enqueue")
    /\ job' = Added(request[r].event)
    /\ Replies(r, 200)
    /\ NoFault
    /\ UNCHANGED <<setup, source, marked, effects, overtaken>>

EnqueueFails(r) ==
    /\ At(r, "enqueue")
    /\ Goes(r, "failed")
    /\ \/ Fault("enqueue") /\ UNCHANGED job
       \/ Fault("enqueueLate") /\ job' = Added(request[r].event)
    /\ UNCHANGED <<setup, source, marked, effects, overtaken>>

(* The worker. *)
TakeJob(e) ==
    /\ job[e].state = "waiting"
    /\ job' = [job EXCEPT ![e].state = "active"]
    /\ NoFault
    /\ UNCHANGED <<setup, source, request, marked, effects, overtaken>>

FinishJob(e) ==
    /\ job[e].state = "active"
    /\ job' = [job EXCEPT ![e].state = "completed"]
    /\ TakesEffect(e)
    /\ NoFault
    /\ UNCHANGED <<setup, source, request, marked, overtaken>>

(* Mutant of AfterFailure: removeOnFail: true. *)
AfterFailureRemoved(j) ==
    IF j.attempts + 1 < MaxAttempts
    THEN [state |-> "waiting", attempts |-> j.attempts + 1]
    ELSE NoJob

(* attempts and backoff; removeOnFail: false keeps an exhausted job as a dead
   letter.  A replayed job has no attempts left and dies at its next failure. *)
AfterFailure(j) ==
    IF j.attempts + 1 < MaxAttempts
    THEN [state |-> "waiting", attempts |-> j.attempts + 1]
    ELSE [state |-> "failed", attempts |-> MaxAttempts]

FailJob(e) ==
    /\ job[e].state = "active"
    /\ job' = [job EXCEPT ![e] = AfterFailure(@)]
    /\ \/ Fault("handler") /\ UNCHANGED effects
       \/ Fault("handlerLate") /\ TakesEffect(e)
    /\ UNCHANGED <<setup, source, request, marked, overtaken>>

(* removeOnComplete: after a day, or a thousand other jobs.  No request stays
   between the gate and enqueue() that long. *)
RemoveCompleted(e) ==
    /\ job[e].state = "completed"
    /\ Working(e) = {}
    /\ job' = [job EXCEPT ![e] = NoJob]
    /\ NoFault
    /\ UNCHANGED <<setup, source, request, marked, effects, overtaken>>

(* POST /onesub/admin/webhook-replay/:id *)
ReplayDeadLetter(e) ==
    /\ job[e].state = "failed"
    /\ job' = [job EXCEPT ![e].state = "waiting"]
    /\ NoFault
    /\ UNCHANGED <<setup, source, request, marked, effects, overtaken>>
-----------------------------------------------------------------------------
(* The process dies and is started again.  What was being processed may or may
   not have taken effect; the queue hands the active jobs out again. *)

Restart ==
    /\ Fault(IF eventStore \in {"cache", "redis"} THEN "durableRestart" ELSE "restart")
    /\ \E late \in SUBSET {e \in Events : \/ job[e].state = "active"
                                          \/ \E r \in Working(e) : At(r, "process")} :
           effects' = [e \in Events |-> IF e \in late THEN effects[e] + 1 ELSE effects[e]]
    /\ request' = [r \in Requests |-> [request[r] EXCEPT !.at = "idle", !.heard = FALSE,
                                                         !.status = 0]]
    /\ marked' = IF eventStore = "memory" THEN {} ELSE marked
    /\ job' = [e \in Events |-> IF job[e].state = "active"
                                THEN [job[e] EXCEPT !.state = "waiting"] ELSE job[e]]
    /\ UNCHANGED <<setup, source, overtaken>>
-----------------------------------------------------------------------------
Serve(r) ==
    \/ MarkIfNewNew(r) \/ CacheSet(r) \/ Deduped(r) \/ Passes(r) \/ NotForUs(r)
    \/ Process(r) \/ Enqueue(r) \/ UnmarkAndFail(r) \/ Answer(r)

Work(e) == TakeJob(e) \/ FinishJob(e)

Next ==
    \/ \E e \in Events : \/ Deliver(e) \/ Redeliver(e) \/ Work(e) \/ FailJob(e)
                         \/ RemoveCompleted(e) \/ ReplayDeadLetter(e)
    \/ \E r \in Requests : \/ Serve(r) \/ StopsWaiting(r) \/ MarkFails(r)
                           \/ DecodeFails(r) \/ ProcessFails(r) \/ EnqueueFails(r)
    \/ Restart

(* The source retries, the event loop resumes every handler, and the queue's
   worker takes jobs; every outbound call has a timeout (http.ts). *)
Fairness ==
    /\ \A e \in Events : WF_vars(Deliver(e)) /\ WF_vars(Work(e))
    /\ \A r \in Requests : WF_vars(Serve(r))

Spec == Init /\ [][Next]_vars /\ Fairness
-----------------------------------------------------------------------------
(* Properties. *)

(* The source was acknowledged, and the event is neither applied nor anywhere
   from where it will be: no request works on it, and the queue does not hold
   it, not even as a dead letter. *)
Lost(e) ==
    /\ kind[e] = "work"
    /\ source[e] = "done"
    /\ effects[e] = 0
    /\ Working(e) = {}
    /\ job[e].state \in {"none", "completed"}

(* "On failure, un-mark the idempotency key so Apple's retry is processed instead
   of being deduped": an acknowledged event is not lost. *)
AcknowledgedIsNotLost == \A e \in Events : ~Lost(e)

(* A mark outlived the attempt it stood for: a mark was set, or could not be
   removed, behind the back of the handler, or survived the crash of its process. *)
MarkStranded ==
    \E k \in {"markAnswerLost", "unmark", "durableRestart"} : faults[k] > 0

(* The same with the ways out the code has: an acknowledged event is lost only if
   a repeated delivery was answered as a duplicate while the first one was still
   being worked on, or a mark was stranded. *)
LostOnlyIfOvertaken ==
    \A e \in Events : Lost(e) => e \in overtaken \/ MarkStranded

(* "We must not double-apply state changes": with an atomic event store each
   application of an event but the first is owed to a failure that leaves the
   outcome unknown, never to a repeated delivery.  A restart that also forgets the
   marks of the in-memory store can cause two: the queue hands the active job out
   again, and the source, which heard no answer, delivers again. *)
RepeatsHaveACause ==
    eventStore \in {"memory", "redis"} =>
        \A e \in Events :
            effects[e] <= 1 + faults["handlerLate"] + faults["enqueueLate"]
                            + 2 * faults["restart"] + faults["durableRestart"]

(* Every notification that concerns this server is in the end applied, or waits as
   a dead letter for an operator, or fell to one of the two exceptions above. *)
EventuallyHandled ==
    \A e \in Events :
        kind[e] = "work" ~> \/ effects[e] > 0
                            \/ job[e].state = "failed"
                            \/ e \in overtaken
                            \/ MarkStranded
=============================================================================
