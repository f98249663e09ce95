------------------------ MODULE WebhookDeliveryProofs ------------------------
(***************************************************************************)
(* Theorems about WebhookDelivery, for every set of events, every set of   *)
(* concurrent requests and every bound on faults and attempts.             *)
(*                                                                         *)
(* IInv is the inductive invariant:                                        *)
(*   TypeOK               the types                                        *)
(*   NothingLost          a marked event nobody works on, and an event     *)
(*                        whose 2xx is heard or on its way, is safe        *)
(*   CompletedTookEffect  a job that has run has applied its event         *)
(*   MarksFit             which stores mark, and which in two steps        *)
(*   OneWorks             an atomic store lets one request work on an      *)
(*                        event at a time, and that event is marked        *)
(*   Bounded              applications so far, plus the one a request may  *)
(*                        still make, plus the one the queue holds, are    *)
(*                        no more than 1 + Causes                          *)
(* LostOnlyIfOvertaken follows from NothingLost; that alone would not be   *)
(* kept by a duplicate's answer without its first half, about marks.       *)
(* RepeatsHaveACause follows from Bounded, which counts what may still     *)
(* come: a step hands an application over, or has a cause that pays.       *)
(***************************************************************************)
EXTENDS WebhookDelivery, TLAPS

WorksOn(r, e) ==
    request[r].event = e /\ request[r].at \in {"marking", "gate", "enqueue", "process", "failed"}

Busy(e) == \E r \in Requests : WorksOn(r, e)

HeldStates == {"waiting", "active", "failed"}

(* Applied, or in the queue. *)
Safe(e) == effects[e] > 0 \/ job[e].state \in HeldStates

(* The source has heard a 2xx, or is about to. *)
Acknowledges(r, e) ==
    request[r].event = e /\ request[r].heard /\ At(r, "answer") /\ request[r].status = 200

Acknowledged(e) == source[e] = "done" \/ \E r \in Requests : Acknowledges(r, e)

NothingLost ==
    MarkStranded \/ \A e \in Events : kind[e] = "work" =>
        /\ e \in marked /\ ~Busy(e) => Safe(e)
        /\ Acknowledged(e) /\ e \notin overtaken => Safe(e)

CompletedTookEffect == \A e \in Events : job[e].state = "completed" => effects[e] > 0

MarksFit ==
    /\ eventStore = "none" => marked = {}
    /\ \A r \in Requests : At(r, "marking") => eventStore = "cache"

OneWorks ==
    MarksAtomically => \A e \in Events :
        /\ Busy(e) => e \in marked
        /\ \A r, s \in Requests : WorksOn(r, e) /\ WorksOn(s, e) => r = s

Causes == faults["handlerLate"] + faults["enqueueLate"] + 2 * faults["restart"]
             + faults["durableRestart"]

(* What may still come: an application by a request, and one by the queue. *)
Open(e) == IF e \notin marked \/ Busy(e) THEN 1 ELSE 0

Held(e) == IF job[e].state \in HeldStates THEN 1 ELSE 0

Bounded == MarksAtomically => \A e \in Events : effects[e] + Open(e) + Held(e) <= 1 + Causes

IInv == TypeOK /\ NothingLost /\ CompletedTookEffect /\ MarksFit /\ OneWorks /\ Bounded
-----------------------------------------------------------------------------
(* Working, as a predicate. *)
LEMMA WorkingIsBusy ==
    ASSUME NEW e
    PROVE  Working(e) # {} <=> Busy(e)
BY DEF Working, Busy, WorksOn

(* A fault is counted, and every kind of fault that matters here where it matters. *)
LEMMA FaultFacts ==
    ASSUME TypeOK, NEW k, Fault(k)
    PROVE  /\ faults' \in [FaultKind -> Nat] /\ k \in FaultKind
           /\ MarkStranded => MarkStranded'
           /\ k \in {"markAnswerLost", "unmark", "durableRestart"} => MarkStranded'
           /\ Causes \in Nat /\ Causes' \in Nat /\ Causes' >= Causes
           /\ k \in {"handlerLate", "enqueueLate", "durableRestart"} => Causes' = Causes + 1
           /\ k = "restart" => Causes' = Causes + 2
<1>1. faults \in [FaultKind -> Nat] /\ k \in FaultKind /\ faults' = [faults EXCEPT ![k] = @ + 1]
  BY SetupAssumption DEF TypeOK, Fault
<1>2. /\ faults' \in [FaultKind -> Nat] /\ faults'[k] = faults[k] + 1
      /\ \A j \in FaultKind \ {k} : faults'[j] = faults[j]
  BY <1>1
<1>3. {"handlerLate", "enqueueLate", "restart", "durableRestart", "markAnswerLost", "unmark"}
          \subseteq FaultKind
  BY DEF FaultKind
<1>4. \A j \in FaultKind : faults'[j] >= faults[j] /\ faults[j] \in Nat /\ faults'[j] \in Nat
  BY <1>1, <1>2
<1> QED
  BY <1>1, <1>2, <1>3, <1>4 DEF MarkStranded, Causes

(* Without a fault the counts stay. *)
LEMMA NoFaultFacts ==
    ASSUME TypeOK, NoFault
    PROVE  /\ faults' \in [FaultKind -> Nat]
           /\ MarkStranded <=> MarkStranded'
           /\ Causes \in Nat /\ Causes' = Causes
<1>1. Causes \in Nat
  <2>1. {"handlerLate", "enqueueLate", "restart", "durableRestart"} \subseteq FaultKind
    BY DEF FaultKind
  <2> QED
    BY <2>1 DEF TypeOK, Causes
<1> QED
  BY <1>1 DEF TypeOK, NoFault, MarkStranded, Causes

(* A request goes from one place to another, for the same event. *)
Moved(r, at) ==
    /\ request' \in [Requests -> Request]
    /\ \A s \in Requests \ {r} : request'[s] = request[s]
    /\ request'[r].event = request[r].event /\ request[r].event \in Events
    /\ request'[r].at = at

(* Goes moves a request within the handler. *)
LEMMA GoesFacts ==
    ASSUME TypeOK, NEW r \in Requests, NEW at \in {"gate", "marking", "enqueue", "process", "failed"},
           Goes(r, at)
    PROVE  Moved(r, at) /\ request'[r].heard = request[r].heard
<1>1. request \in [Requests -> Request] /\ request[r] \in Request
  BY DEF TypeOK
<1>2. request'[r] = [request[r] EXCEPT !.at = at]
  BY <1>1 DEF Goes
<1>3. request'[r] \in Request
  BY <1>1, <1>2 DEF Request
<1> QED
  BY <1>1, <1>2, <1>3 DEF Goes, Moved, Request

(* Replies moves a request to its answer. *)
LEMMA RepliesFacts ==
    ASSUME TypeOK, NEW r \in Requests, NEW status \in {200, 400, 500}, Replies(r, status)
    PROVE  /\ Moved(r, "answer") /\ request'[r].heard = request[r].heard
           /\ request'[r].status = status
<1>1. request \in [Requests -> Request] /\ request[r] \in Request
  BY DEF TypeOK
<1>2. PICK moved : moved = [request[r] EXCEPT !.at = "answer"]
  OBVIOUS
<1>3. moved \in Request /\ moved.event = request[r].event /\ moved.heard = request[r].heard
      /\ moved.at = "answer"
  BY <1>1, <1>2 DEF Request
<1>4. request'[r] = [moved EXCEPT !.status = status]
  BY <1>1, <1>2 DEF Replies
<1>5. request'[r] \in Request
  BY <1>3, <1>4 DEF Request
<1> QED
  BY <1>1, <1>3, <1>4, <1>5 DEF Replies, Moved, Request

WorkPlaces == {"marking", "gate", "enqueue", "process", "failed"}

(* Who works on what after a request has moved. *)
LEMMA MovedFacts ==
    ASSUME NEW r \in Requests, NEW at, Moved(r, at)
    PROVE  /\ \A s \in Requests \ {r}, e \in Events :
                  (WorksOn(s, e)' <=> WorksOn(s, e)) /\ (Acknowledges(s, e)' <=> Acknowledges(s, e))
           /\ \A e \in Events : WorksOn(r, e)' <=> request[r].event = e /\ at \in WorkPlaces
           /\ \A e \in Events : Acknowledges(r, e)' <=>
                  /\ request[r].event = e /\ at = "answer"
                  /\ request'[r].heard /\ request'[r].status = 200
BY DEF Moved, WorksOn, Acknowledges, At, WorkPlaces
-----------------------------------------------------------------------------
(* A delivery that arrives works on nothing yet. *)
LEMMA ArrivesFacts ==
    ASSUME TypeOK, NEW e \in Events, NEW heard \in BOOLEAN, Arrives(e, heard)
    PROVE  /\ request' \in [Requests -> Request]
           /\ \A s \in Requests, x \in Events :
                  (WorksOn(s, x)' <=> WorksOn(s, x)) /\ (Acknowledges(s, x)' <=> Acknowledges(s, x))
           /\ \A s \in Requests : At(s, "marking")' <=> At(s, "marking")
<1>1. PICK r \in Requests :
          /\ At(r, "idle")
          /\ request' = [request EXCEPT ![r] =
                             [event |-> e, heard |-> heard, status |-> 0, at |-> "markIfNew"]]
  BY DEF Arrives
<1>2. request'[r] = [event |-> e, heard |-> heard, status |-> 0, at |-> "markIfNew"]
      /\ \A s \in Requests \ {r} : request'[s] = request[s]
  BY <1>1 DEF TypeOK
<1>3. request' \in [Requests -> Request]
  BY <1>1 DEF TypeOK, Request
<1> QED
  BY <1>1, <1>2, <1>3 DEF WorksOn, Acknowledges, At

(* A step that changes who works on nothing, and neither marks nor effects nor jobs. *)
LEMMA PlacesKept ==
    ASSUME IInv, UNCHANGED setup, UNCHANGED <<source, marked, job, effects, overtaken>>,
           request' \in [Requests -> Request],
           \A s \in Requests, x \in Events : WorksOn(s, x)' <=> WorksOn(s, x),
           \A s \in Requests, x \in Events : Acknowledges(s, x)' => Acknowledges(s, x),
           \A s \in Requests : At(s, "marking")' => At(s, "marking"),
           faults' \in [FaultKind -> Nat], MarkStranded => MarkStranded',
           Causes \in Nat, Causes' \in Nat, Causes' >= Causes
    PROVE  IInv'
<1>1. /\ UNCHANGED <<mode, eventStore, kind>> /\ TypeOK
      /\ \A x \in Events : (Busy(x)' <=> Busy(x)) /\ (Safe(x)' <=> Safe(x))
      /\ \A x \in Events : Acknowledged(x)' => Acknowledged(x)
  BY DEF setup, IInv, Busy, Safe, Acknowledged
<1>2. TypeOK'
  BY <1>1 DEF TypeOK
<1>3. NothingLost'
  BY <1>1 DEF IInv, NothingLost
<1>4. CompletedTookEffect' /\ MarksFit' /\ OneWorks'
  BY <1>1 DEF IInv, CompletedTookEffect, MarksFit, OneWorks, MarksAtomically
<1>5. Bounded'
  <2> SUFFICES ASSUME MarksAtomically, NEW x \in Events
               PROVE  effects[x] + Open(x)' + Held(x)' <= 1 + Causes'
    BY <1>1 DEF Bounded, MarksAtomically
  <2>1. Open(x)' = Open(x) /\ Held(x)' = Held(x) /\ Open(x) \in Nat /\ Held(x) \in Nat
    BY <1>1 DEF Open, Held
  <2>2. effects[x] + Open(x) + Held(x) <= 1 + Causes /\ effects[x] \in Nat
    BY <1>1 DEF IInv, Bounded, TypeOK
  <2> QED
    BY <2>1, <2>2
<1> QED
  BY <1>2, <1>3, <1>4, <1>5 DEF IInv

(* The first delivery, a retry, or a delivery of what was answered 2xx. *)
LEMMA DeliverKeeps ==
    ASSUME IInv, NEW e \in Events, Deliver(e) \/ Redeliver(e)
    PROVE  IInv'
<1>1. TypeOK /\ UNCHANGED setup /\ UNCHANGED <<source, marked, job, effects, overtaken>>
  BY DEF IInv, Deliver, Redeliver
<1>2. Arrives(e, TRUE) \/ Arrives(e, FALSE)
  BY DEF Deliver, Redeliver
<1>3. NoFault \/ Fault("redelivery")
  BY DEF Deliver, Redeliver
<1>4. /\ faults' \in [FaultKind -> Nat]
      /\ MarkStranded => MarkStranded'
      /\ Causes \in Nat /\ Causes' \in Nat /\ Causes' >= Causes
  BY <1>1, <1>3, FaultFacts, NoFaultFacts
<1> QED
  BY <1>1, <1>2, <1>4, ArrivesFacts, PlacesKept

(* A request nobody waits for is a request. *)
LEMMA UnheardIsRequest ==
    ASSUME NEW req \in Request
    PROVE  /\ [req EXCEPT !.heard = FALSE] \in Request
           /\ [req EXCEPT !.heard = FALSE].event = req.event
           /\ [req EXCEPT !.heard = FALSE].at = req.at
           /\ ~[req EXCEPT !.heard = FALSE].heard
BY DEF Request

(* The source stops waiting, or the answer is lost. *)
LEMMA StopsWaitingKeeps ==
    ASSUME IInv, NEW r \in Requests, StopsWaiting(r)
    PROVE  IInv'
<1>1. TypeOK /\ UNCHANGED setup /\ UNCHANGED <<source, marked, job, effects, overtaken>>
  BY DEF IInv, StopsWaiting
<1>2. /\ faults' \in [FaultKind -> Nat]
      /\ MarkStranded => MarkStranded'
      /\ Causes \in Nat /\ Causes' \in Nat /\ Causes' >= Causes
  BY <1>1, FaultFacts DEF StopsWaiting
<1>3. request \in [Requests -> Request] /\ request' = [request EXCEPT ![r].heard = FALSE]
  BY <1>1 DEF TypeOK, StopsWaiting
<1>4. /\ request'[r] = [request[r] EXCEPT !.heard = FALSE]
      /\ \A s \in Requests \ {r} : request'[s] = request[s]
  BY <1>3
<1>5. /\ request'[r] \in Request /\ request'[r].event = request[r].event
      /\ request'[r].at = request[r].at /\ ~request'[r].heard
  BY <1>3, <1>4, UnheardIsRequest
<1>6. request' \in [Requests -> Request]
  BY <1>3, <1>5
<1>7. \A s \in Requests, x \in Events : WorksOn(s, x)' <=> WorksOn(s, x)
  BY <1>4, <1>5 DEF WorksOn
<1>8. \A s \in Requests, x \in Events : Acknowledges(s, x)' => Acknowledges(s, x)
  <2>1. ASSUME NEW x \in Events PROVE ~Acknowledges(r, x)'
    BY <1>5 DEF Acknowledges
  <2>2. ASSUME NEW s \in Requests \ {r}, NEW x \in Events, Acknowledges(s, x)'
        PROVE  Acknowledges(s, x)
    <3>1. request'[s] = request[s]
      BY <1>4
    <3> QED
      BY <2>2, <3>1 DEF Acknowledges, At
  <2> QED
    BY <2>1, <2>2
<1>9. \A s \in Requests : At(s, "marking")' => At(s, "marking")
  BY <1>4, <1>5 DEF At
<1> QED
  BY <1>1, <1>2, <1>6, <1>7, <1>8, <1>9, PlacesKept

(* An answer of 200 that is heard ends the deliveries: the event was safe before. *)
LEMMA AnswerKeeps ==
    ASSUME IInv, NEW r \in Requests, Answer(r)
    PROVE  IInv'
<1>1. TypeOK /\ UNCHANGED setup /\ UNCHANGED <<marked, job, effects, overtaken>>
      /\ UNCHANGED <<mode, eventStore, kind>>
  BY DEF IInv, Answer, setup
<1>2. faults' \in [FaultKind -> Nat] /\ Causes \in Nat /\ Causes' = Causes
      /\ (MarkStranded <=> MarkStranded')
  BY <1>1, NoFaultFacts DEF Answer
<1>3. /\ request \in [Requests -> Request] /\ At(r, "answer")
      /\ request' = [request EXCEPT ![r].at = "idle", ![r].heard = FALSE]
  BY <1>1 DEF TypeOK, Answer
<1>4. PICK moved : moved = [request[r] EXCEPT !.at = "idle"]
  OBVIOUS
<1>5. moved \in Request /\ moved.event = request[r].event /\ moved.at = "idle"
  BY <1>3, <1>4 DEF Request
<1>6. /\ request'[r] = [moved EXCEPT !.heard = FALSE]
      /\ \A s \in Requests \ {r} : request'[s] = request[s]
  BY <1>3, <1>4
<1>7. request'[r] \in Request /\ request'[r].at = "idle"
  BY <1>5, <1>6, UnheardIsRequest
<1>8. request' \in [Requests -> Request]
  BY <1>3, <1>7
<1>9. /\ \A s \in Requests, x \in Events : WorksOn(s, x)' <=> WorksOn(s, x)
      /\ \A s \in Requests, x \in Events : Acknowledges(s, x)' => Acknowledges(s, x)
      /\ \A s \in Requests : At(s, "marking")' => At(s, "marking")
  BY <1>3, <1>6, <1>7 DEF WorksOn, Acknowledges, At
<1>10. \A x \in Events : source'[x] = "done" => source[x] = "done" \/ Acknowledges(r, x)
  BY <1>1 DEF Answer, Acknowledges, TypeOK
<1>11. /\ \A x \in Events : (Busy(x)' <=> Busy(x)) /\ (Safe(x)' <=> Safe(x))
       /\ \A x \in Events : Acknowledged(x)' => Acknowledged(x)
  BY <1>1, <1>9, <1>10 DEF Busy, Safe, Acknowledged
<1>12. TypeOK'
  BY <1>1, <1>2, <1>8 DEF TypeOK, Answer
<1>13. NothingLost'
  BY <1>1, <1>2, <1>11 DEF IInv, NothingLost
<1>14. CompletedTookEffect' /\ MarksFit' /\ OneWorks'
  BY <1>1, <1>9, <1>11 DEF IInv, CompletedTookEffect, MarksFit, OneWorks, MarksAtomically
<1>15. Bounded'
  BY <1>1, <1>2, <1>11 DEF IInv, Bounded, Open, Held, MarksAtomically
<1> QED
  BY <1>12, <1>13, <1>14, <1>15 DEF IInv
-----------------------------------------------------------------------------
(* A request moves, marks change for its event only, and nothing else that the
   invariant is about but in these ways. *)
LEMMA MoveKept ==
    ASSUME IInv, UNCHANGED setup, UNCHANGED source,
           NEW r \in Requests, NEW at, Moved(r, at), NEW e \in Events, e = request[r].event,
           marked' \in SUBSET Events, \A x \in Events \ {e} : x \in marked' <=> x \in marked,
           job' \in [Events -> Job], effects' \in [Events -> Nat],
           overtaken' \in SUBSET Events, overtaken \subseteq overtaken',
           \A x \in Events \ {e} : job'[x] = job[x] /\ effects'[x] = effects[x],
           Safe(e) => Safe(e)', job'[e].state = "completed" => effects'[e] > 0,
           faults' \in [FaultKind -> Nat], MarkStranded => MarkStranded',
           Causes \in Nat, Causes' \in Nat, Causes' >= Causes,
           eventStore = "none" => marked' = {},
           at = "marking" => eventStore = "cache",
           MarkStranded' \/ (kind[e] = "work" =>
               /\ e \in marked' /\ ~Busy(e)' => Safe(e)'
               /\ Acknowledges(r, e)' /\ e \notin overtaken' => Safe(e)'),
           MarksAtomically =>
               /\ Busy(e)' => e \in marked'
               /\ \A s \in Requests : WorksOn(r, e)' /\ WorksOn(s, e)' => r = s
               /\ effects'[e] + Open(e)' + Held(e)' <= 1 + Causes'
    PROVE  IInv'
<1>1. UNCHANGED <<mode, eventStore, kind>> /\ TypeOK
  BY DEF setup, IInv
<1>2. /\ \A s \in Requests \ {r}, x \in Events :
             (WorksOn(s, x)' <=> WorksOn(s, x)) /\ (Acknowledges(s, x)' <=> Acknowledges(s, x))
      /\ \A x \in Events \ {e} : ~WorksOn(r, x) /\ ~WorksOn(r, x)' /\ ~Acknowledges(r, x)'
      /\ \A s \in Requests \ {r} : request'[s] = request[s]
  BY MovedFacts DEF WorksOn, Moved
<1>3. \A x \in Events \ {e} :
          /\ Busy(x)' <=> Busy(x)
          /\ Safe(x)' <=> Safe(x)
          /\ Acknowledged(x)' => Acknowledged(x)
  BY <1>2 DEF Busy, Safe, Acknowledged
<1>4. TypeOK'
  BY <1>1 DEF TypeOK, Moved
<1>5. NothingLost'
  <2> SUFFICES ASSUME ~MarkStranded', NEW x \in Events, kind[x] = "work"
               PROVE  /\ x \in marked' /\ ~Busy(x)' => Safe(x)'
                      /\ Acknowledged(x)' /\ x \notin overtaken' => Safe(x)'
    BY <1>1 DEF NothingLost
  <2>1. CASE x # e
    BY <1>3, <2>1 DEF IInv, NothingLost
  <2>2. CASE x = e
    <3>1. Acknowledged(e)' => Acknowledged(e) \/ Acknowledges(r, e)'
      BY <1>2 DEF Acknowledged
    <3> QED
      BY <2>2, <3>1 DEF IInv, NothingLost
  <2> QED
    BY <2>1, <2>2
<1>6. CompletedTookEffect'
  BY DEF IInv, CompletedTookEffect
<1>7. MarksFit'
  BY <1>1, <1>2 DEF IInv, MarksFit, At, Moved
<1>8. OneWorks'
  <2> SUFFICES ASSUME MarksAtomically, NEW x \in Events
               PROVE  /\ Busy(x)' => x \in marked'
                      /\ \A s, t \in Requests : WorksOn(s, x)' /\ WorksOn(t, x)' => s = t
    BY <1>1 DEF OneWorks, MarksAtomically
  <2>1. CASE x # e
    BY <1>2, <1>3, <2>1 DEF IInv, OneWorks
  <2>2. CASE x = e
    BY <1>2, <2>2 DEF IInv, OneWorks
  <2> QED
    BY <2>1, <2>2
<1>9. Bounded'
  <2> SUFFICES ASSUME MarksAtomically, NEW x \in Events
               PROVE  effects'[x] + Open(x)' + Held(x)' <= 1 + Causes'
    BY <1>1 DEF Bounded, MarksAtomically
  <2>1. CASE x # e
    <3>1. Open(x)' = Open(x) /\ Held(x)' = Held(x) /\ Open(x) \in Nat /\ Held(x) \in Nat
      BY <1>3, <2>1 DEF Open, Held
    <3>2. effects[x] + Open(x) + Held(x) <= 1 + Causes /\ effects[x] \in Nat
      BY <1>1 DEF IInv, Bounded, TypeOK
    <3> QED
      BY <2>1, <3>1, <3>2
  <2>2. CASE x = e
    BY <2>2
  <2> QED
    BY <2>1, <2>2
<1> QED
  BY <1>4, <1>5, <1>6, <1>7, <1>8, <1>9 DEF IInv

(* What every step of a request starts from. *)
LEMMA RequestFacts ==
    ASSUME IInv, NEW r \in Requests, UNCHANGED setup
    PROVE  /\ TypeOK /\ request[r].event \in Events
           /\ UNCHANGED <<mode, eventStore, kind>>
           /\ marked \in SUBSET Events /\ job \in [Events -> Job] /\ effects \in [Events -> Nat]
           /\ overtaken \in SUBSET Events
           /\ \A e \in Events :
                  /\ job[e].state = "completed" => effects[e] > 0
                  /\ effects[e] \in Nat /\ Open(e) \in {0, 1} /\ Held(e) \in {0, 1}
                  /\ MarksAtomically => effects[e] + Open(e) + Held(e) <= 1 + Causes
BY DEF IInv, TypeOK, setup, Request, CompletedTookEffect, Bounded, Open, Held

(* Who works on the event of a request that has moved. *)
LEMMA Workers ==
    ASSUME IInv, NEW r \in Requests, NEW at, Moved(r, at), NEW e \in Events, e = request[r].event
    PROVE  /\ at \in WorkPlaces => Busy(e)'
           /\ at \notin WorkPlaces /\ Busy(e)' => Busy(e)
           /\ at # "answer" => ~Acknowledges(r, e)'
           /\ MarksAtomically /\ (WorksOn(r, e) \/ ~Busy(e)) =>
                  /\ \A s \in Requests : WorksOn(r, e)' /\ WorksOn(s, e)' => r = s
                  /\ at \notin WorkPlaces => ~Busy(e)'
           /\ MarksAtomically /\ WorksOn(r, e) => e \in marked
<1>1. /\ \A s \in Requests \ {r} : WorksOn(s, e)' <=> WorksOn(s, e)
      /\ WorksOn(r, e)' <=> at \in WorkPlaces
      /\ Acknowledges(r, e)' => at = "answer"
  BY MovedFacts
<1>2. MarksAtomically =>
          /\ Busy(e) => e \in marked
          /\ \A s, t \in Requests : WorksOn(s, e) /\ WorksOn(t, e) => s = t
  BY DEF IInv, OneWorks
<1> QED
  BY <1>1, <1>2 DEF Busy

(* A step that only moves a request on among those at work. *)
LEMMA MoveOnKeeps ==
    ASSUME IInv, UNCHANGED setup, UNCHANGED <<source, marked, job, effects, overtaken>>,
           NEW r \in Requests, NEW at \in WorkPlaces \ {"marking"}, Moved(r, at),
           WorksOn(r, request[r].event),
           faults' \in [FaultKind -> Nat], MarkStranded => MarkStranded',
           Causes \in Nat, Causes' \in Nat, Causes' >= Causes
    PROVE  IInv'
<1>0. PICK e \in Events : e = request[r].event
  BY RequestFacts
<1>1. /\ TypeOK /\ UNCHANGED <<mode, eventStore, kind>>
      /\ marked' \in SUBSET Events /\ job' \in [Events -> Job] /\ effects' \in [Events -> Nat]
      /\ overtaken' \in SUBSET Events
      /\ job'[e].state = "completed" => effects'[e] > 0
      /\ Safe(e) => Safe(e)'
      /\ eventStore = "none" => marked' = {}
  BY RequestFacts DEF Safe, IInv, MarksFit
<1>2. Busy(e)' /\ ~Acknowledges(r, e)' /\ Busy(e)
  BY <1>0, Workers DEF WorkPlaces, Busy
<1>3. MarksAtomically =>
          /\ \A s \in Requests : WorksOn(r, e)' /\ WorksOn(s, e)' => r = s
          /\ e \in marked'
  BY <1>0, Workers
<1>4. MarksAtomically => effects'[e] + Open(e)' + Held(e)' <= 1 + Causes'
  <2>1. Open(e)' = Open(e) /\ Held(e)' = Held(e)
    BY <1>2 DEF Open, Held
  <2> QED
    BY <2>1, RequestFacts
<1> QED
  BY <1>0, <1>1, <1>2, <1>3, <1>4, MoveKept

(* The event is for this server. *)
LEMMA PassesKeeps ==
    ASSUME IInv, NEW r \in Requests, Passes(r)
    PROVE  IInv'
<1>1. /\ UNCHANGED setup /\ UNCHANGED <<source, marked, job, effects, overtaken>>
      /\ At(r, "gate") /\ NoFault /\ TypeOK
  BY DEF Passes, IInv
<1>2. Moved(r, "enqueue") \/ Moved(r, "process")
  BY <1>1, GoesFacts DEF Passes
<1>3. WorksOn(r, request[r].event)
  BY <1>1 DEF At, WorksOn
<1>4. /\ faults' \in [FaultKind -> Nat]
      /\ MarkStranded => MarkStranded'
      /\ Causes \in Nat /\ Causes' \in Nat /\ Causes' >= Causes
  BY <1>1, NoFaultFacts
<1> QED
  BY <1>1, <1>2, <1>3, <1>4, MoveOnKeeps DEF WorkPlaces

(* decodeAppleNotification throws. *)
LEMMA DecodeFailsKeeps ==
    ASSUME IInv, NEW r \in Requests, DecodeFails(r)
    PROVE  IInv'
<1>1. /\ UNCHANGED setup /\ UNCHANGED <<source, marked, job, effects, overtaken>>
      /\ At(r, "gate") /\ Fault("decode") /\ TypeOK
  BY DEF DecodeFails, IInv
<1>2. Moved(r, "failed")
  BY <1>1, GoesFacts DEF DecodeFails
<1>3. WorksOn(r, request[r].event)
  BY <1>1 DEF At, WorksOn
<1>4. /\ faults' \in [FaultKind -> Nat]
      /\ MarkStranded => MarkStranded'
      /\ Causes \in Nat /\ Causes' \in Nat /\ Causes' >= Causes
  BY <1>1, FaultFacts
<1> QED
  BY <1>1, <1>2, <1>3, <1>4, MoveOnKeeps DEF WorkPlaces

(* markIfNew finds the event new: nobody worked on it, if the store marks in one step. *)
LEMMA MarkIfNewNewKeeps ==
    ASSUME IInv, NEW r \in Requests, MarkIfNewNew(r)
    PROVE  IInv'
<1>1. /\ UNCHANGED setup /\ UNCHANGED <<source, job, effects, overtaken>>
      /\ At(r, "markIfNew") /\ NoFault
      /\ eventStore # "none" => request[r].event \notin marked
  BY DEF MarkIfNewNew
<1>2. /\ faults' \in [FaultKind -> Nat]
      /\ MarkStranded => MarkStranded'
      /\ Causes \in Nat /\ Causes' = Causes
  BY <1>1, NoFaultFacts DEF IInv
<1>3. PICK at : /\ at = IF eventStore = "none" \/ MarksAtomically THEN "gate" ELSE "marking"
                /\ Moved(r, at)
  BY GoesFacts DEF MarkIfNewNew, IInv
<1>4. PICK e \in Events : e = request[r].event
  BY <1>1, RequestFacts
<1>5. /\ TypeOK /\ UNCHANGED <<mode, eventStore, kind>>
      /\ overtaken' \in SUBSET Events
      /\ job' \in [Events -> Job] /\ effects' \in [Events -> Nat]
      /\ job'[e].state = "completed" => effects'[e] > 0
      /\ Safe(e) => Safe(e)'
      /\ effects[e] \in Nat /\ Open(e) \in {0, 1} /\ Held(e) \in {0, 1}
      /\ MarksAtomically => effects[e] + Open(e) + Held(e) <= 1 + Causes
  BY <1>1, RequestFacts DEF Safe
<1>6. marked' = IF MarksAtomically THEN marked \cup {e} ELSE marked
  BY <1>4 DEF MarkIfNewNew
<1>7. eventStore = "none" => ~MarksAtomically
  BY DEF MarksAtomically
<1>8. MarksAtomically => e \notin marked /\ ~Busy(e)
  BY <1>1, <1>4, <1>7 DEF IInv, OneWorks
<1>9. Busy(e)' /\ ~Acknowledges(r, e)'
  BY <1>3, <1>4, Workers DEF WorkPlaces
<1>10. MarksAtomically =>
           /\ e \in marked'
           /\ \A s \in Requests : WorksOn(r, e)' /\ WorksOn(s, e)' => r = s
  BY <1>3, <1>4, <1>6, <1>8, Workers
<1>11. MarksAtomically => effects'[e] + Open(e)' + Held(e)' <= 1 + Causes'
  <2>1. Open(e)' = 1 /\ Held(e)' = Held(e) /\ (MarksAtomically => Open(e) = 1)
    BY <1>1, <1>8, <1>9 DEF Open, Held
  <2> QED
    BY <1>1, <1>2, <1>5, <2>1
<1>12. /\ eventStore = "none" => marked' = {}
       /\ at = "marking" => eventStore = "cache"
       /\ marked' \in SUBSET Events
       /\ \A x \in Events \ {e} : x \in marked' <=> x \in marked
  <2>1. eventStore \in {"none", "memory", "cache", "redis"}
    BY <1>5, SetupAssumption DEF TypeOK
  <2> QED
    BY <1>3, <1>5, <1>6, <1>7, <2>1 DEF IInv, MarksFit, MarksAtomically, TypeOK
<1> QED
  BY <1>1, <1>2, <1>3, <1>4, <1>5, <1>9, <1>10, <1>11, <1>12, MoveKept

(* The write of the cache-backed markIfNew. *)
LEMMA CacheSetKeeps ==
    ASSUME IInv, NEW r \in Requests, CacheSet(r)
    PROVE  IInv'
<1>1. /\ UNCHANGED setup /\ UNCHANGED <<source, job, effects, overtaken>>
      /\ At(r, "marking") /\ NoFault
  BY DEF CacheSet
<1>2. /\ faults' \in [FaultKind -> Nat]
      /\ MarkStranded => MarkStranded'
      /\ Causes \in Nat /\ Causes' = Causes
  BY <1>1, NoFaultFacts DEF IInv
<1>3. Moved(r, "gate")
  BY GoesFacts DEF CacheSet, IInv
<1>4. PICK e \in Events : e = request[r].event
  BY <1>1, RequestFacts
<1>5. /\ TypeOK /\ overtaken' \in SUBSET Events
      /\ job' \in [Events -> Job] /\ effects' \in [Events -> Nat]
      /\ job'[e].state = "completed" => effects'[e] > 0
      /\ Safe(e) => Safe(e)'
  BY <1>1, RequestFacts DEF Safe
<1>6. eventStore = "cache" /\ ~MarksAtomically
  BY <1>1 DEF IInv, MarksFit, MarksAtomically
<1>7. /\ marked' \in SUBSET Events
      /\ \A x \in Events \ {e} : x \in marked' <=> x \in marked
  BY <1>4, <1>5 DEF CacheSet, TypeOK
<1>8. Busy(e)' /\ ~Acknowledges(r, e)'
  BY <1>3, <1>4, Workers DEF WorkPlaces
<1> QED
  BY <1>1, <1>2, <1>3, <1>4, <1>5, <1>6, <1>7, <1>8, MoveKept

(* A duplicate is answered 200: the event is safe, or its work is being overtaken. *)
LEMMA DedupedKeeps ==
    ASSUME IInv, NEW r \in Requests, Deduped(r)
    PROVE  IInv'
<1>1. /\ UNCHANGED setup /\ UNCHANGED <<source, marked, job, effects>>
      /\ At(r, "markIfNew") /\ NoFault
      /\ request[r].event \in marked
  BY DEF Deduped
<1>2. /\ faults' \in [FaultKind -> Nat]
      /\ MarkStranded <=> MarkStranded'
      /\ Causes \in Nat /\ Causes' = Causes
  BY <1>1, NoFaultFacts DEF IInv
<1>3. Moved(r, "answer") /\ request'[r].heard = request[r].heard
  BY RepliesFacts DEF Deduped, IInv
<1>4. PICK e \in Events : e = request[r].event
  BY <1>1, RequestFacts
<1>5. /\ TypeOK /\ UNCHANGED <<mode, eventStore, kind>>
      /\ marked' \in SUBSET Events
      /\ job' \in [Events -> Job] /\ effects' \in [Events -> Nat]
      /\ job'[e].state = "completed" => effects'[e] > 0
      /\ Safe(e) <=> Safe(e)'
      /\ effects[e] \in Nat /\ Open(e) \in {0, 1} /\ Held(e) \in {0, 1}
      /\ MarksAtomically => effects[e] + Open(e) + Held(e) <= 1 + Causes
  BY <1>1, RequestFacts DEF Safe
<1>6. /\ overtaken' = overtaken \cup {x \in {e} : Working(x) # {} /\ request[r].heard}
      /\ overtaken' \in SUBSET Events /\ overtaken \subseteq overtaken'
      /\ Busy(e) /\ request[r].heard => e \in overtaken'
  BY <1>4, <1>5, WorkingIsBusy DEF Deduped, TypeOK
<1>7. ~WorksOn(r, e) /\ (Busy(e)' <=> Busy(e)) /\ ~WorksOn(r, e)'
  BY <1>1, <1>3, <1>4, MovedFacts DEF WorksOn, At, Busy, WorkPlaces
<1>8. Acknowledges(r, e)' => request[r].heard
  BY <1>3 DEF Acknowledges
<1>9. MarkStranded' \/ (kind[e] = "work" =>
          /\ e \in marked' /\ ~Busy(e)' => Safe(e)'
          /\ Acknowledges(r, e)' /\ e \notin overtaken' => Safe(e)')
  BY <1>1, <1>2, <1>4, <1>5, <1>6, <1>7, <1>8 DEF IInv, NothingLost
<1>10. MarksAtomically =>
           /\ Busy(e)' => e \in marked'
           /\ \A s \in Requests : WorksOn(r, e)' /\ WorksOn(s, e)' => r = s
  BY <1>1, <1>4, <1>7
<1>11. MarksAtomically => effects'[e] + Open(e)' + Held(e)' <= 1 + Causes'
  <2>1. Open(e)' = Open(e) /\ Held(e)' = Held(e)
    BY <1>1, <1>7 DEF Open, Held
  <2> QED
    BY <1>1, <1>2, <1>5, <2>1
<1>12. /\ eventStore = "none" => marked' = {}
       /\ \A x \in Events \ {e} : /\ x \in marked' <=> x \in marked
                                 /\ job'[x] = job[x] /\ effects'[x] = effects[x]
       /\ Causes' \in Nat /\ Causes' >= Causes
       /\ MarkStranded => MarkStranded'
       /\ Safe(e) => Safe(e)'
       /\ UNCHANGED setup /\ UNCHANGED source
       /\ overtaken' \in SUBSET Events /\ overtaken \subseteq overtaken'
  BY <1>1, <1>2, <1>5, <1>6 DEF IInv, MarksFit
<1>13. PICK at : at = "answer"
  OBVIOUS
<1>14. Moved(r, at) /\ (at = "marking" => eventStore = "cache")
  BY <1>3, <1>13
<1> QED
  BY <1>2, <1>4, <1>5, <1>9, <1>10, <1>11, <1>12, <1>14, MoveKept

(* markIfNew throws, before or after its mark. *)
LEMMA MarkFailsKeeps ==
    ASSUME IInv, NEW r \in Requests, MarkFails(r)
    PROVE  IInv'
<1>1. /\ UNCHANGED setup /\ UNCHANGED <<source, job, effects, overtaken>>
      /\ At(r, "markIfNew") /\ eventStore \in {"cache", "redis"}
  BY DEF MarkFails
<1>2. PICK at : at = "answer"
  OBVIOUS
<1>3. Moved(r, at) /\ request'[r].status = 500
  BY <1>2, RepliesFacts DEF MarkFails, IInv
<1>4. PICK e \in Events : e = request[r].event
  BY <1>1, RequestFacts
<1>5. /\ TypeOK /\ UNCHANGED <<mode, eventStore, kind>>
      /\ job' \in [Events -> Job] /\ effects' \in [Events -> Nat]
      /\ overtaken' \in SUBSET Events
      /\ job'[e].state = "completed" => effects'[e] > 0
      /\ Safe(e) <=> Safe(e)'
      /\ effects[e] \in Nat /\ Open(e) \in {0, 1} /\ Held(e) \in {0, 1}
      /\ MarksAtomically => effects[e] + Open(e) + Held(e) <= 1 + Causes
  BY <1>1, RequestFacts DEF Safe
<1>6. /\ faults' \in [FaultKind -> Nat]
      /\ MarkStranded => MarkStranded'
      /\ Causes \in Nat /\ Causes' \in Nat /\ Causes' >= Causes
      /\ \/ UNCHANGED marked
         \/ MarkStranded' /\ marked' = marked \cup {e}
  BY <1>4, <1>5, FaultFacts DEF MarkFails
<1>7. ~WorksOn(r, e) /\ (Busy(e)' <=> Busy(e)) /\ ~WorksOn(r, e)'
  BY <1>1, <1>2, <1>3, <1>4, MovedFacts DEF WorksOn, At, Busy, WorkPlaces
<1>8. ~Acknowledges(r, e)'
  BY <1>3 DEF Acknowledges
<1>9. MarkStranded' \/ (kind[e] = "work" =>
          /\ e \in marked' /\ ~Busy(e)' => Safe(e)'
          /\ Acknowledges(r, e)' /\ e \notin overtaken' => Safe(e)')
  BY <1>4, <1>5, <1>6, <1>7, <1>8 DEF IInv, NothingLost
<1>10. MarksAtomically =>
           /\ Busy(e)' => e \in marked'
           /\ \A s \in Requests : WorksOn(r, e)' /\ WorksOn(s, e)' => r = s
  BY <1>6, <1>7 DEF IInv, OneWorks
<1>11. MarksAtomically => effects'[e] + Open(e)' + Held(e)' <= 1 + Causes'
  <2>1. Open(e)' <= Open(e) /\ Open(e)' \in {0, 1} /\ Held(e)' = Held(e)
    BY <1>1, <1>6, <1>7 DEF Open, Held
  <2> QED
    BY <1>1, <1>5, <1>6, <2>1
<1>12. /\ eventStore = "none" => marked' = {}
       /\ at = "marking" => eventStore = "cache"
       /\ marked' \in SUBSET Events
       /\ \A x \in Events \ {e} : /\ x \in marked' <=> x \in marked
                                 /\ job'[x] = job[x] /\ effects'[x] = effects[x]
  BY <1>1, <1>2, <1>5, <1>6 DEF TypeOK
<1> QED
  BY <1>1, <1>3, <1>4, <1>5, <1>6, <1>9, <1>10, <1>11, <1>12, MoveKept

(* An event that is not for this server is answered for good. *)
LEMMA NotForUsKeeps ==
    ASSUME IInv, NEW r \in Requests, NotForUs(r)
    PROVE  IInv'
<1>1. /\ UNCHANGED setup /\ UNCHANGED <<source, marked, job, effects, overtaken>>
      /\ At(r, "gate") /\ kind[request[r].event] # "work" /\ NoFault
  BY DEF NotForUs
<1>2. PICK at : at = "answer"
  OBVIOUS
<1>3. Moved(r, at)
  BY <1>2, RepliesFacts DEF NotForUs, IInv
<1>4. PICK e \in Events : e = request[r].event
  BY <1>1, RequestFacts
<1>5. /\ TypeOK /\ UNCHANGED <<mode, eventStore, kind>>
      /\ marked' \in SUBSET Events
      /\ job' \in [Events -> Job] /\ effects' \in [Events -> Nat]
      /\ overtaken' \in SUBSET Events
      /\ job'[e].state = "completed" => effects'[e] > 0
      /\ Safe(e) <=> Safe(e)'
      /\ effects[e] \in Nat /\ Open(e) \in {0, 1} /\ Held(e) \in {0, 1}
      /\ MarksAtomically => effects[e] + Open(e) + Held(e) <= 1 + Causes
  BY <1>1, RequestFacts DEF Safe
<1>6. /\ faults' \in [FaultKind -> Nat]
      /\ MarkStranded => MarkStranded'
      /\ Causes \in Nat /\ Causes' \in Nat /\ Causes' = Causes /\ Causes' >= Causes
  BY <1>1, <1>5, NoFaultFacts
<1>7. WorksOn(r, e) /\ Busy(e)
  BY <1>1, <1>4 DEF WorksOn, At, Busy
<1>8. MarksAtomically =>
          /\ Busy(e)' => e \in marked'
          /\ \A s \in Requests : WorksOn(r, e)' /\ WorksOn(s, e)' => r = s
  BY <1>1, <1>3, <1>4, <1>7, Workers
<1>9. MarksAtomically => effects'[e] + Open(e)' + Held(e)' <= 1 + Causes'
  <2>1. Open(e) = 1 /\ Open(e)' \in {0, 1} /\ Held(e)' = Held(e)
    BY <1>1, <1>7 DEF Open, Held
  <2> QED
    BY <1>1, <1>5, <1>6, <2>1
<1>10. /\ eventStore = "none" => marked' = {}
       /\ at = "marking" => eventStore = "cache"
       /\ \A x \in Events \ {e} : /\ x \in marked' <=> x \in marked
                                 /\ job'[x] = job[x] /\ effects'[x] = effects[x]
       /\ kind[e] # "work"
  BY <1>1, <1>2, <1>4 DEF IInv, MarksFit
<1> QED
  BY <1>1, <1>3, <1>4, <1>5, <1>6, <1>8, <1>9, <1>10, MoveKept

(* The failure path gives the mark back, or strands it. *)
LEMMA UnmarkAndFailKeeps ==
    ASSUME IInv, NEW r \in Requests, UnmarkAndFail(r)
    PROVE  IInv'
<1>1. /\ UNCHANGED setup /\ UNCHANGED <<source, job, effects, overtaken>> /\ At(r, "failed")
  BY DEF UnmarkAndFail
<1>2. PICK at : at = "answer"
  OBVIOUS
<1>3. Moved(r, at) /\ request'[r].status = 500
  BY <1>2, RepliesFacts DEF UnmarkAndFail, IInv
<1>4. PICK e \in Events : e = request[r].event
  BY <1>1, RequestFacts
<1>5. /\ TypeOK /\ UNCHANGED <<mode, eventStore, kind>>
      /\ job' \in [Events -> Job] /\ effects' \in [Events -> Nat]
      /\ overtaken' \in SUBSET Events
      /\ job'[e].state = "completed" => effects'[e] > 0
      /\ Safe(e) <=> Safe(e)'
      /\ effects[e] \in Nat /\ Open(e) \in {0, 1} /\ Held(e) \in {0, 1}
      /\ MarksAtomically => effects[e] + Open(e) + Held(e) <= 1 + Causes
  BY <1>1, RequestFacts DEF Safe
<1>6. /\ faults' \in [FaultKind -> Nat]
      /\ MarkStranded => MarkStranded'
      /\ Causes \in Nat /\ Causes' \in Nat /\ Causes' >= Causes
      /\ marked' = marked \ {e} \/ (MarkStranded' /\ UNCHANGED marked)
  BY <1>4, <1>5, FaultFacts, NoFaultFacts DEF UnmarkAndFail, MarksAfterFailure
<1>7. WorksOn(r, e) /\ Busy(e)
  BY <1>1, <1>4 DEF WorksOn, At, Busy
<1>8. ~Acknowledges(r, e)'
  BY <1>3 DEF Acknowledges
<1>9. MarkStranded' \/ (kind[e] = "work" =>
          /\ e \in marked' /\ ~Busy(e)' => Safe(e)'
          /\ Acknowledges(r, e)' /\ e \notin overtaken' => Safe(e)')
  BY <1>6, <1>8
<1>10. MarksAtomically =>
           /\ ~Busy(e)'
           /\ \A s \in Requests : WorksOn(r, e)' /\ WorksOn(s, e)' => r = s
  BY <1>2, <1>3, <1>4, <1>7, Workers DEF WorkPlaces
<1>11. MarksAtomically => effects'[e] + Open(e)' + Held(e)' <= 1 + Causes'
  <2>1. Open(e) = 1 /\ Open(e)' \in {0, 1} /\ Held(e)' = Held(e)
    BY <1>1, <1>7 DEF Open, Held
  <2> QED
    BY <1>1, <1>5, <1>6, <2>1
<1>12. /\ eventStore = "none" => marked' = {}
       /\ at = "marking" => eventStore = "cache"
       /\ marked' \in SUBSET Events
       /\ \A x \in Events \ {e} : /\ x \in marked' <=> x \in marked
                                 /\ job'[x] = job[x] /\ effects'[x] = effects[x]
  BY <1>1, <1>2, <1>5, <1>6 DEF IInv, MarksFit, TypeOK
<1> QED
  BY <1>1, <1>3, <1>4, <1>5, <1>6, <1>9, <1>10, <1>11, <1>12, MoveKept

(* Processing inline is what the request had been open for. *)
LEMMA ProcessKeeps ==
    ASSUME IInv, NEW r \in Requests, Process(r)
    PROVE  IInv'
<1>1. /\ UNCHANGED setup /\ UNCHANGED <<source, marked, job, overtaken>>
      /\ At(r, "process") /\ NoFault
  BY DEF Process
<1>2. PICK at : at = "answer"
  OBVIOUS
<1>3. Moved(r, at)
  BY <1>2, RepliesFacts DEF Process, IInv
<1>4. PICK e \in Events : e = request[r].event
  BY <1>1, RequestFacts
<1>5. /\ TypeOK /\ UNCHANGED <<mode, eventStore, kind>>
      /\ marked' \in SUBSET Events /\ job' \in [Events -> Job]
      /\ overtaken' \in SUBSET Events
      /\ effects \in [Events -> Nat] /\ effects[e] \in Nat
      /\ Open(e) \in {0, 1} /\ Held(e) \in {0, 1}
      /\ MarksAtomically => effects[e] + Open(e) + Held(e) <= 1 + Causes
  BY <1>1, RequestFacts
<1>6. /\ faults' \in [FaultKind -> Nat]
      /\ MarkStranded => MarkStranded'
      /\ Causes \in Nat /\ Causes' \in Nat /\ Causes' = Causes /\ Causes' >= Causes
  BY <1>1, <1>5, NoFaultFacts
<1>7. /\ effects' \in [Events -> Nat] /\ effects'[e] = effects[e] + 1 /\ effects'[e] > 0
      /\ \A x \in Events \ {e} : effects'[x] = effects[x]
  BY <1>4, <1>5 DEF Process, TakesEffect
<1>8. Safe(e)'
  BY <1>7 DEF Safe
<1>9. WorksOn(r, e) /\ Busy(e)
  BY <1>1, <1>4 DEF WorksOn, At, Busy
<1>10. MarksAtomically =>
           /\ ~Busy(e)' /\ e \in marked
           /\ \A s \in Requests : WorksOn(r, e)' /\ WorksOn(s, e)' => r = s
  BY <1>2, <1>3, <1>4, <1>9, Workers DEF WorkPlaces
<1>11. MarksAtomically => effects'[e] + Open(e)' + Held(e)' <= 1 + Causes'
  <2>1. Open(e) = 1 /\ (MarksAtomically => Open(e)' = 0) /\ Held(e)' = Held(e)
    BY <1>1, <1>9, <1>10 DEF Open, Held
  <2> QED
    BY <1>5, <1>6, <1>7, <2>1
<1>12. /\ eventStore = "none" => marked' = {}
       /\ at = "marking" => eventStore = "cache"
       /\ \A x \in Events \ {e} : /\ x \in marked' <=> x \in marked
                                 /\ job'[x] = job[x]
  BY <1>1, <1>2 DEF IInv, MarksFit
<1> QED
  BY <1>1, <1>3, <1>4, <1>5, <1>6, <1>7, <1>8, <1>10, <1>11, <1>12, MoveKept

(* A handler that throws late has a cause of its own. *)
LEMMA ProcessFailsKeeps ==
    ASSUME IInv, NEW r \in Requests, ProcessFails(r)
    PROVE  IInv'
<1>1. /\ UNCHANGED setup /\ UNCHANGED <<source, marked, job, overtaken>> /\ At(r, "process")
  BY DEF ProcessFails
<1>2. PICK at : at = "failed"
  OBVIOUS
<1>3. Moved(r, at)
  BY <1>2, GoesFacts DEF ProcessFails, IInv
<1>4. PICK e \in Events : e = request[r].event
  BY <1>1, RequestFacts
<1>5. /\ TypeOK /\ UNCHANGED <<mode, eventStore, kind>>
      /\ marked' \in SUBSET Events /\ job' \in [Events -> Job]
      /\ overtaken' \in SUBSET Events
      /\ effects \in [Events -> Nat] /\ effects[e] \in Nat
      /\ job[e].state = "completed" => effects[e] > 0
      /\ Open(e) \in {0, 1} /\ Held(e) \in {0, 1}
      /\ MarksAtomically => effects[e] + Open(e) + Held(e) <= 1 + Causes
  BY <1>1, RequestFacts
<1>6. /\ faults' \in [FaultKind -> Nat]
      /\ MarkStranded => MarkStranded'
      /\ Causes \in Nat /\ Causes' \in Nat /\ Causes' >= Causes
      /\ \/ effects' = effects
         \/ effects' = [effects EXCEPT ![e] = @ + 1] /\ Causes' = Causes + 1
  BY <1>4, <1>5, FaultFacts DEF ProcessFails, TakesEffect
<1>7. /\ effects' \in [Events -> Nat] /\ effects'[e] >= effects[e]
      /\ \A x \in Events \ {e} : effects'[x] = effects[x]
      /\ effects'[e] - effects[e] <= Causes' - Causes
      /\ effects'[e] \in Nat
  BY <1>5, <1>6
<1>8. /\ Safe(e) => Safe(e)'
      /\ job'[e].state = "completed" => effects'[e] > 0
  BY <1>1, <1>5, <1>7 DEF Safe
<1>9. WorksOn(r, e) /\ Busy(e) /\ Busy(e)' /\ ~Acknowledges(r, e)'
  BY <1>1, <1>2, <1>3, <1>4, Workers DEF WorksOn, At, Busy, WorkPlaces
<1>10. MarksAtomically =>
           /\ e \in marked'
           /\ \A s \in Requests : WorksOn(r, e)' /\ WorksOn(s, e)' => r = s
  BY <1>1, <1>3, <1>4, <1>9, Workers
<1>11. MarksAtomically => effects'[e] + Open(e)' + Held(e)' <= 1 + Causes'
  <2>1. Open(e)' = Open(e) /\ Held(e)' = Held(e)
    BY <1>1, <1>9 DEF Open, Held
  <2> QED
    BY <1>5, <1>6, <1>7, <2>1
<1>12. /\ eventStore = "none" => marked' = {}
       /\ at = "marking" => eventStore = "cache"
       /\ \A x \in Events \ {e} : /\ x \in marked' <=> x \in marked
                                 /\ job'[x] = job[x]
  BY <1>1, <1>2 DEF IInv, MarksFit
<1> QED
  BY <1>1, <1>3, <1>4, <1>5, <1>6, <1>7, <1>8, <1>9, <1>10, <1>11, <1>12, MoveKept

(* BullMQ's add: the job is there afterwards, or it had run. *)
LEMMA AddedFacts ==
    ASSUME TypeOK, NEW e \in Events, job' = Added(e), UNCHANGED effects,
           job[e].state = "completed" => effects[e] > 0
    PROVE  /\ job' \in [Events -> Job]
           /\ \A x \in Events \ {e} : job'[x] = job[x]
           /\ Safe(e)'
           /\ job'[e].state = "completed" => effects'[e] > 0
<1>0. job \in [Events -> Job] /\ job[e] \in Job
  BY DEF TypeOK
<1>1. CASE job[e].state = "none"
  <2>1. job' = [job EXCEPT ![e] = [state |-> "waiting", attempts |-> 0]]
    BY <1>1 DEF Added
  <2>2. [state |-> "waiting", attempts |-> 0] \in Job
    BY BoundAssumption DEF Job
  <2>3. job'[e].state = "waiting"
    BY <1>0, <2>1
  <2> QED
    BY <1>0, <2>1, <2>2, <2>3 DEF Safe, HeldStates
<1>2. CASE job[e].state # "none"
  <2>1. job' = job
    BY <1>2 DEF Added
  <2>2. job[e].state \in HeldStates \cup {"completed"}
    BY <1>0, <1>2 DEF Job, HeldStates
  <2> QED
    BY <1>0, <2>1, <2>2 DEF Safe
<1> QED
  BY <1>1, <1>2

(* The queue takes over the application the request had been open for. *)
LEMMA EnqueueKeeps ==
    ASSUME IInv, NEW r \in Requests, Enqueue(r)
    PROVE  IInv'
<1>1. /\ UNCHANGED setup /\ UNCHANGED <<source, marked, effects, overtaken>>
      /\ At(r, "enqueue") /\ NoFault
  BY DEF Enqueue
<1>2. PICK at : at = "answer"
  OBVIOUS
<1>3. Moved(r, at)
  BY <1>2, RepliesFacts DEF Enqueue, IInv
<1>4. PICK e \in Events : e = request[r].event
  BY <1>1, RequestFacts
<1>5. /\ TypeOK /\ UNCHANGED <<mode, eventStore, kind>>
      /\ marked' \in SUBSET Events /\ effects' \in [Events -> Nat]
      /\ overtaken' \in SUBSET Events /\ effects[e] \in Nat
      /\ Open(e) \in {0, 1} /\ Held(e) \in {0, 1}
  BY <1>1, RequestFacts
<1>6. /\ job[e].state = "completed" => effects[e] > 0
      /\ MarksAtomically => effects[e] + Open(e) + Held(e) <= 1 + Causes
  BY <1>1, RequestFacts
<1>7. /\ faults' \in [FaultKind -> Nat]
      /\ MarkStranded => MarkStranded'
      /\ Causes \in Nat /\ Causes' \in Nat /\ Causes' = Causes /\ Causes' >= Causes
  BY <1>1, <1>5, NoFaultFacts
<1>8. /\ job' \in [Events -> Job]
      /\ \A x \in Events \ {e} : job'[x] = job[x]
      /\ Safe(e)'
      /\ job'[e].state = "completed" => effects'[e] > 0
  BY <1>1, <1>4, <1>5, <1>6, AddedFacts DEF Enqueue
<1>9. WorksOn(r, e) /\ Busy(e)
  BY <1>1, <1>4 DEF WorksOn, At, Busy
<1>10. MarksAtomically =>
           /\ ~Busy(e)' /\ e \in marked
           /\ \A s \in Requests : WorksOn(r, e)' /\ WorksOn(s, e)' => r = s
  BY <1>2, <1>3, <1>4, <1>9, Workers DEF WorkPlaces
<1>11. MarksAtomically => effects'[e] + Open(e)' + Held(e)' <= 1 + Causes'
  <2>1. Open(e) = 1 /\ (MarksAtomically => Open(e)' = 0) /\ Held(e)' \in {0, 1}
    BY <1>1, <1>9, <1>10 DEF Open, Held
  <2> QED
    BY <1>1, <1>5, <1>6, <1>7, <2>1
<1>12. /\ eventStore = "none" => marked' = {}
       /\ at = "marking" => eventStore = "cache"
       /\ \A x \in Events \ {e} : /\ x \in marked' <=> x \in marked
                                 /\ effects'[x] = effects[x]
  BY <1>1, <1>2 DEF IInv, MarksFit
<1> QED
  BY <1>1, <1>3, <1>4, <1>5, <1>7, <1>8, <1>10, <1>11, <1>12, MoveKept

(* An add whose answer is lost has a cause of its own. *)
LEMMA EnqueueFailsKeeps ==
    ASSUME IInv, NEW r \in Requests, EnqueueFails(r)
    PROVE  IInv'
<1>1. /\ UNCHANGED setup /\ UNCHANGED <<source, marked, effects, overtaken>> /\ At(r, "enqueue")
  BY DEF EnqueueFails
<1>2. PICK at : at = "failed"
  OBVIOUS
<1>3. Moved(r, at)
  BY <1>2, GoesFacts DEF EnqueueFails, IInv
<1>4. PICK e \in Events : e = request[r].event
  BY <1>1, RequestFacts
<1>5. /\ TypeOK /\ UNCHANGED <<mode, eventStore, kind>> /\ job \in [Events -> Job]
      /\ marked' \in SUBSET Events /\ effects' \in [Events -> Nat]
      /\ overtaken' \in SUBSET Events /\ effects[e] \in Nat
      /\ Open(e) \in {0, 1} /\ Held(e) \in {0, 1}
  BY <1>1, RequestFacts
<1>6. /\ job[e].state = "completed" => effects[e] > 0
      /\ MarksAtomically => effects[e] + Open(e) + Held(e) <= 1 + Causes
  BY <1>1, RequestFacts
<1>7. /\ faults' \in [FaultKind -> Nat]
      /\ MarkStranded => MarkStranded'
      /\ Causes \in Nat /\ Causes' \in Nat /\ Causes' >= Causes
      /\ job' = job \/ (job' = Added(e) /\ Causes' = Causes + 1)
  BY <1>4, <1>5, FaultFacts DEF EnqueueFails
<1>8. /\ job' \in [Events -> Job]
      /\ \A x \in Events \ {e} : job'[x] = job[x]
      /\ Safe(e) => Safe(e)'
      /\ job'[e].state = "completed" => effects'[e] > 0
  <2>1. CASE job' = job
    BY <1>1, <1>5, <1>6, <2>1 DEF Safe
  <2>2. CASE job' = Added(e)
    BY <1>1, <1>5, <1>6, <2>2, AddedFacts
  <2> QED
    BY <1>7, <2>1, <2>2
<1>9. WorksOn(r, e) /\ Busy(e) /\ Busy(e)' /\ ~Acknowledges(r, e)'
  BY <1>1, <1>2, <1>3, <1>4, Workers DEF WorksOn, At, Busy, WorkPlaces
<1>10. MarksAtomically =>
           /\ e \in marked'
           /\ \A s \in Requests : WorksOn(r, e)' /\ WorksOn(s, e)' => r = s
  BY <1>1, <1>3, <1>4, <1>9, Workers
<1>11. MarksAtomically => effects'[e] + Open(e)' + Held(e)' <= 1 + Causes'
  <2>1. Open(e)' = Open(e) /\ Held(e)' \in {0, 1}
    BY <1>1, <1>9 DEF Open, Held
  <2>2. job' = job => Held(e)' = Held(e)
    BY DEF Held
  <2> QED
    BY <1>1, <1>5, <1>6, <1>7, <2>1, <2>2
<1>12. /\ eventStore = "none" => marked' = {}
       /\ at = "marking" => eventStore = "cache"
       /\ \A x \in Events \ {e} : /\ x \in marked' <=> x \in marked
                                 /\ effects'[x] = effects[x]
  BY <1>1, <1>2 DEF IInv, MarksFit
<1> QED
  BY <1>1, <1>3, <1>4, <1>5, <1>7, <1>8, <1>9, <1>10, <1>11, <1>12, MoveKept
-----------------------------------------------------------------------------
(* A step of the queue changes one event's job, and may apply the event. *)
LEMMA JobKept ==
    ASSUME IInv, UNCHANGED setup, UNCHANGED <<source, request, marked, overtaken>>,
           NEW e \in Events, job' \in [Events -> Job], effects' \in [Events -> Nat],
           \A x \in Events \ {e} : job'[x] = job[x] /\ effects'[x] = effects[x],
           Safe(e) => Safe(e)', job'[e].state = "completed" => effects'[e] > 0,
           faults' \in [FaultKind -> Nat], MarkStranded => MarkStranded',
           Causes \in Nat, Causes' \in Nat, Causes' >= Causes,
           effects'[e] + Held(e)' + Causes <= effects[e] + Held(e) + Causes'
    PROVE  IInv'
<1>1. UNCHANGED <<mode, eventStore, kind>> /\ TypeOK /\ (MarksAtomically' <=> MarksAtomically)
  BY DEF setup, IInv, MarksAtomically
<1>2. \A x \in Events :
          /\ Busy(x)' <=> Busy(x)
          /\ Acknowledged(x)' <=> Acknowledged(x)
          /\ Safe(x) => Safe(x)'
          /\ Open(x)' = Open(x) /\ Open(x) \in Nat /\ Held(x)' \in Nat /\ Held(x) \in Nat
  <2>1. \A x \in Events : (Busy(x)' <=> Busy(x)) /\ (Acknowledged(x)' <=> Acknowledged(x))
    BY DEF Busy, WorksOn, Acknowledged, Acknowledges, At
  <2> QED
    BY <2>1 DEF Safe, Open, Held
<1>3. TypeOK'
  BY <1>1 DEF TypeOK
<1>4. NothingLost' /\ CompletedTookEffect'
  BY <1>1, <1>2 DEF IInv, NothingLost, CompletedTookEffect
<1>5. MarksFit' /\ OneWorks'
  BY <1>1, <1>2 DEF IInv, MarksFit, OneWorks, WorksOn, At
<1>6. Bounded'
  <2> SUFFICES ASSUME MarksAtomically, NEW x \in Events
               PROVE  effects'[x] + Open(x)' + Held(x)' <= 1 + Causes'
    BY <1>1 DEF Bounded
  <2>1. effects[x] + Open(x) + Held(x) <= 1 + Causes /\ effects[x] \in Nat /\ effects'[x] \in Nat
    BY <1>1 DEF IInv, Bounded, TypeOK
  <2>2. CASE x # e
    <3>1. Held(x)' = Held(x) /\ effects'[x] = effects[x]
      BY <2>2 DEF Held
    <3> QED
      BY <1>2, <2>1, <3>1
  <2>3. CASE x = e
    BY <1>2, <2>1, <2>3
  <2> QED
    BY <2>2, <2>3
<1> QED
  BY <1>3, <1>4, <1>5, <1>6 DEF IInv

(* A job that failed waits for another attempt or is a dead letter. *)
LEMMA AfterFailureFacts ==
    ASSUME NEW j \in Job
    PROVE  AfterFailure(j) \in Job /\ AfterFailure(j).state \in {"waiting", "failed"}
BY BoundAssumption DEF AfterFailure, Job

(* The worker takes a job, or an operator replays a dead letter. *)
LEMMA TakeJobKeeps ==
    ASSUME IInv, NEW e \in Events, TakeJob(e) \/ ReplayDeadLetter(e)
    PROVE  IInv'
<1>1. /\ UNCHANGED setup /\ UNCHANGED <<source, request, marked, overtaken, effects>>
      /\ NoFault /\ TypeOK /\ job[e].state \in HeldStates
  BY DEF TakeJob, ReplayDeadLetter, IInv, HeldStates
<1>2. PICK state \in {"active", "waiting"} : job' = [job EXCEPT ![e].state = state]
  BY DEF TakeJob, ReplayDeadLetter
<1>3. /\ job \in [Events -> Job] /\ effects' \in [Events -> Nat] /\ effects[e] \in Nat
      /\ faults' \in [FaultKind -> Nat] /\ (MarkStranded => MarkStranded')
      /\ Causes \in Nat /\ Causes' \in Nat /\ Causes' >= Causes
  BY <1>1, NoFaultFacts DEF TypeOK
<1>4. job'[e] = [job[e] EXCEPT !.state = state]
  BY <1>2, <1>3
<1>5. job'[e] \in Job /\ job'[e].state = state
  <2>1. job[e] \in Job
    BY <1>3
  <2> QED
    BY <1>4, <2>1 DEF Job
<1>6. /\ job' \in [Events -> Job]
      /\ \A x \in Events \ {e} : job'[x] = job[x] /\ effects'[x] = effects[x]
  BY <1>1, <1>2, <1>3, <1>5
<1>7. Safe(e)' /\ Held(e)' = 1 /\ Held(e) = 1
  BY <1>1, <1>5 DEF Safe, Held, HeldStates
<1>8. job'[e].state = "completed" => effects'[e] > 0
  BY <1>5
<1>9. effects'[e] + Held(e)' + Causes <= effects[e] + Held(e) + Causes'
  BY <1>1, <1>3, <1>7
<1> QED
  BY <1>1, <1>3, <1>6, <1>7, <1>8, <1>9, JobKept

(* The worker applies the event. *)
LEMMA FinishJobKeeps ==
    ASSUME IInv, NEW e \in Events, FinishJob(e)
    PROVE  IInv'
<1>1. /\ UNCHANGED setup /\ UNCHANGED <<source, request, marked, overtaken>>
      /\ NoFault /\ TypeOK /\ job[e].state = "active"
      /\ job' = [job EXCEPT ![e].state = "completed"]
      /\ effects' = [effects EXCEPT ![e] = @ + 1]
  BY DEF FinishJob, IInv, TakesEffect
<1>2. /\ job \in [Events -> Job] /\ effects \in [Events -> Nat] /\ effects[e] \in Nat
      /\ faults' \in [FaultKind -> Nat] /\ (MarkStranded => MarkStranded')
      /\ Causes \in Nat /\ Causes' = Causes /\ Causes' \in Nat /\ Causes' >= Causes
  BY <1>1, NoFaultFacts DEF TypeOK
<1>3. job'[e] = [job[e] EXCEPT !.state = "completed"]
  BY <1>1, <1>2
<1>4. job'[e] \in Job /\ job'[e].state = "completed"
  <2>1. job[e] \in Job
    BY <1>2
  <2> QED
    BY <1>3, <2>1 DEF Job
<1>5. /\ job' \in [Events -> Job] /\ effects' \in [Events -> Nat]
      /\ effects'[e] = effects[e] + 1 /\ effects'[e] > 0
      /\ \A x \in Events \ {e} : job'[x] = job[x] /\ effects'[x] = effects[x]
  BY <1>1, <1>2, <1>4
<1>6. Safe(e)' /\ Held(e)' = 0 /\ Held(e) = 1
  BY <1>1, <1>4, <1>5 DEF Safe, Held, HeldStates
<1>7. effects'[e] + Held(e)' + Causes <= effects[e] + Held(e) + Causes'
  BY <1>2, <1>5, <1>6
<1> QED
  BY <1>1, <1>2, <1>5, <1>6, <1>7, JobKept

(* The queue's handler throws, before or after its effect. *)
LEMMA FailJobKeeps ==
    ASSUME IInv, NEW e \in Events, FailJob(e)
    PROVE  IInv'
<1>1. /\ UNCHANGED setup /\ UNCHANGED <<source, request, marked, overtaken>>
      /\ TypeOK /\ job[e].state = "active"
      /\ job' = [job EXCEPT ![e] = AfterFailure(job[e])]
  BY DEF FailJob, IInv
<1>2. job \in [Events -> Job] /\ effects \in [Events -> Nat] /\ effects[e] \in Nat
  BY <1>1 DEF TypeOK
<1>3. /\ faults' \in [FaultKind -> Nat]
      /\ MarkStranded => MarkStranded'
      /\ Causes \in Nat /\ Causes' \in Nat /\ Causes' >= Causes
      /\ \/ effects' = effects
         \/ effects' = [effects EXCEPT ![e] = @ + 1] /\ Causes' = Causes + 1
  BY <1>1, FaultFacts DEF FailJob, TakesEffect
<1>4. /\ effects' \in [Events -> Nat]
      /\ \A x \in Events \ {e} : effects'[x] = effects[x]
      /\ effects'[e] - effects[e] <= Causes' - Causes
      /\ effects'[e] \in Nat
  BY <1>2, <1>3
<1>5. job'[e] \in Job /\ job'[e].state \in {"waiting", "failed"}
  BY <1>1, <1>2, AfterFailureFacts
<1>6. job' \in [Events -> Job] /\ \A x \in Events \ {e} : job'[x] = job[x]
  BY <1>1, <1>2, <1>5
<1>7. Safe(e)' /\ Held(e)' = 1 /\ Held(e) = 1
  BY <1>1, <1>5 DEF Safe, Held, HeldStates
<1>8. effects'[e] + Held(e)' + Causes <= effects[e] + Held(e) + Causes'
  BY <1>2, <1>3, <1>4, <1>7
<1>9. job'[e].state = "completed" => effects'[e] > 0
  BY <1>5
<1> QED
  BY <1>1, <1>3, <1>4, <1>6, <1>7, <1>8, <1>9, JobKept

(* The queue forgets a job that had run: the event was applied. *)
LEMMA RemoveCompletedKeeps ==
    ASSUME IInv, NEW e \in Events, RemoveCompleted(e)
    PROVE  IInv'
<1>1. /\ UNCHANGED setup /\ UNCHANGED <<source, request, marked, overtaken, effects>>
      /\ NoFault /\ TypeOK /\ job[e].state = "completed"
      /\ job' = [job EXCEPT ![e] = NoJob]
  BY DEF RemoveCompleted, IInv
<1>2. /\ job \in [Events -> Job] /\ effects' \in [Events -> Nat] /\ effects[e] \in Nat
      /\ effects[e] > 0
      /\ faults' \in [FaultKind -> Nat] /\ (MarkStranded => MarkStranded')
      /\ Causes \in Nat /\ Causes' \in Nat /\ Causes' >= Causes
  BY <1>1, NoFaultFacts DEF TypeOK, IInv, CompletedTookEffect
<1>3. NoJob \in Job /\ NoJob.state = "none"
  BY BoundAssumption DEF NoJob, Job
<1>4. /\ job' \in [Events -> Job] /\ job'[e].state = "none"
      /\ \A x \in Events \ {e} : job'[x] = job[x] /\ effects'[x] = effects[x]
  BY <1>1, <1>2, <1>3
<1>5. Safe(e)' /\ Held(e)' = 0 /\ Held(e) = 0
  BY <1>1, <1>2, <1>4 DEF Safe, Held, HeldStates
<1>6. effects'[e] + Held(e)' + Causes <= effects[e] + Held(e) + Causes'
  BY <1>1, <1>2, <1>5
<1>7. job'[e].state = "completed" => effects'[e] > 0
  BY <1>4
<1> QED
  BY <1>1, <1>2, <1>4, <1>5, <1>6, <1>7, JobKept
-----------------------------------------------------------------------------
(* A request cut off by a crash is idle. *)
LEMMA RestedIsRequest ==
    ASSUME NEW req \in Request
    PROVE  /\ [req EXCEPT !.at = "idle", !.heard = FALSE, !.status = 0] \in Request
           /\ [req EXCEPT !.at = "idle", !.heard = FALSE, !.status = 0].at = "idle"
<1>1. PICK idle : idle = [req EXCEPT !.at = "idle"]
  OBVIOUS
<1>2. PICK unheard : unheard = [idle EXCEPT !.heard = FALSE]
  OBVIOUS
<1>3. idle \in Request /\ idle.at = "idle"
  BY <1>1 DEF Request
<1>4. unheard \in Request /\ unheard.at = "idle"
  BY <1>2, <1>3, UnheardIsRequest
<1>5. /\ [unheard EXCEPT !.status = 0] \in Request
      /\ [unheard EXCEPT !.status = 0].at = "idle"
  BY <1>4 DEF Request
<1> QED
  BY <1>1, <1>2, <1>5

(* The process dies.  What it was applying may count once more; with the marks of
   a memory store gone, the source's next delivery may count again. *)
LEMMA RestartKeeps ==
    ASSUME IInv, Restart
    PROVE  IInv'
<1>1. /\ TypeOK /\ UNCHANGED <<mode, eventStore, kind>> /\ UNCHANGED <<source, overtaken>>
      /\ request \in [Requests -> Request] /\ job \in [Events -> Job]
      /\ effects \in [Events -> Nat] /\ marked \in SUBSET Events
      /\ eventStore \in {"none", "memory", "cache", "redis"}
  BY SetupAssumption DEF IInv, Restart, setup, TypeOK
<1>2. PICK late : effects' = [e \in Events |-> IF e \in late THEN effects[e] + 1 ELSE effects[e]]
  BY DEF Restart
<1>3. /\ effects' \in [Events -> Nat]
      /\ \A e \in Events : /\ effects[e] \in Nat /\ effects'[e] \in Nat
                           /\ effects'[e] >= effects[e] /\ effects'[e] <= effects[e] + 1
  BY <1>1, <1>2
<1>4. \A r \in Requests : request'[r] \in Request /\ request'[r].at = "idle"
  BY <1>1, RestedIsRequest DEF Restart
<1>5. request' \in [Requests -> Request]
  BY <1>4 DEF Restart
<1>6. \A e \in Events :
          /\ job'[e] \in Job
          /\ job'[e].state \in HeldStates <=> job[e].state \in HeldStates
          /\ job'[e].state = "completed" <=> job[e].state = "completed"
  <2> TAKE e \in Events
  <2>1. job'[e] = IF job[e].state = "active" THEN [job[e] EXCEPT !.state = "waiting"] ELSE job[e]
    BY DEF Restart
  <2>2. job[e] \in Job
    BY <1>1
  <2> QED
    BY <2>1, <2>2 DEF Job, HeldStates
<1>7. job' \in [Events -> Job]
  BY <1>6 DEF Restart
<1>8. /\ faults' \in [FaultKind -> Nat] /\ (MarkStranded => MarkStranded')
      /\ Causes \in Nat /\ Causes' \in Nat
      /\ eventStore \in {"cache", "redis"} => MarkStranded' /\ Causes' = Causes + 1
      /\ eventStore = "memory" => Causes' = Causes + 2
  BY <1>1, FaultFacts DEF Restart
<1>9. /\ eventStore = "memory" => marked' = {}
      /\ eventStore = "none" => marked' = {}
      /\ eventStore = "redis" => marked' = marked
      /\ marked' \in SUBSET Events
  BY <1>1 DEF Restart, IInv, MarksFit
<1>10. \A e \in Events, r \in Requests : ~WorksOn(r, e)' /\ ~Acknowledges(r, e)' /\ ~At(r, "marking")'
  BY <1>4 DEF WorksOn, Acknowledges, At
<1>11. \A e \in Events :
           /\ ~Busy(e)'
           /\ Safe(e) => Safe(e)'
           /\ Acknowledged(e)' => Acknowledged(e)
           /\ Held(e)' = Held(e) /\ Held(e) \in {0, 1}
  BY <1>1, <1>3, <1>6, <1>10 DEF Busy, Safe, Acknowledged, Held
<1>12. TypeOK'
  BY <1>1, <1>3, <1>5, <1>7, <1>8, <1>9 DEF TypeOK
<1>13. NothingLost'
  BY <1>1, <1>8, <1>9, <1>11 DEF IInv, NothingLost
<1>14. CompletedTookEffect'
  BY <1>3, <1>6 DEF IInv, CompletedTookEffect
<1>15. MarksFit' /\ OneWorks'
  <2>1. MarksFit'
    BY <1>1, <1>4, <1>9 DEF MarksFit, At
  <2>2. OneWorks'
    BY <1>10, <1>11 DEF OneWorks
  <2> QED
    BY <2>1, <2>2
<1>16. Bounded'
  <2> SUFFICES ASSUME MarksAtomically, NEW e \in Events
               PROVE  effects'[e] + Open(e)' + Held(e)' <= 1 + Causes'
    BY <1>1 DEF Bounded, MarksAtomically
  <2>1. effects[e] + Open(e) + Held(e) <= 1 + Causes /\ Open(e) \in {0, 1} /\ Open(e)' \in {0, 1}
    BY DEF IInv, Bounded, Open
  <2>2. CASE eventStore = "memory"
    BY <1>3, <1>8, <1>11, <2>1, <2>2
  <2>3. CASE eventStore = "redis"
    <3>1. Open(e)' <= Open(e)
      BY <1>9, <1>11, <2>3 DEF Open
    <3> QED
      BY <1>3, <1>8, <1>11, <2>1, <2>3, <3>1
  <2> QED
    BY <2>2, <2>3 DEF MarksAtomically
<1> QED
  BY <1>12, <1>13, <1>14, <1>15, <1>16 DEF IInv
-----------------------------------------------------------------------------
(* Nothing has arrived: one application of each event may come. *)
LEMMA InitHolds ==
    ASSUME Init
    PROVE  IInv
<1>1. (CHOOSE e \in Events : TRUE) \in Events
  BY EventsAssumption
<1>2. \A r \in Requests : request[r] \in Request /\ request[r].at = "idle"
  <2>1. PICK e0 \in Events : e0 = CHOOSE e \in Events : TRUE
    BY <1>1
  <2>2. PICK idle : idle = [event |-> e0, heard |-> FALSE, status |-> 0, at |-> "idle"]
    OBVIOUS
  <2>3. idle \in Request /\ idle.at = "idle"
    BY <2>2 DEF Request
  <2>4. request \in [Requests -> {idle}]
    BY <2>1, <2>2 DEF Init
  <2> QED
    BY <2>3, <2>4
<1>3. NoJob \in Job /\ NoJob.state = "none"
  BY BoundAssumption DEF NoJob, Job
<1>4. TypeOK
  <2>1. request \in [Requests -> Request]
    BY <1>2 DEF Init
  <2> QED
    BY <1>3, <2>1 DEF Init, TypeOK
<1>5. \A e \in Events :
          /\ ~Busy(e) /\ ~Acknowledged(e) /\ effects[e] = 0 /\ job[e].state = "none"
          /\ e \notin marked /\ Open(e) = 1 /\ Held(e) = 0
  BY <1>2, <1>3 DEF Init, Busy, WorksOn, Acknowledged, Acknowledges, At, Open, Held, HeldStates
<1>6. NothingLost /\ CompletedTookEffect
  BY <1>5 DEF NothingLost, CompletedTookEffect
<1>7. MarksFit
  BY <1>2 DEF Init, MarksFit, At
<1>8. OneWorks
  BY <1>5 DEF OneWorks, Busy
<1>9. Bounded
  <2>1. {"handlerLate", "enqueueLate", "restart", "durableRestart"} \subseteq FaultKind
    BY DEF FaultKind
  <2>2. Causes = 0
    BY <2>1 DEF Init, Causes
  <2> QED
    BY <1>5, <2>2 DEF Bounded
<1> QED
  BY <1>4, <1>6, <1>7, <1>8, <1>9 DEF IInv

(* A stuttering step. *)
LEMMA StutterKeeps ==
    ASSUME IInv, UNCHANGED vars
    PROVE  IInv'
<1>1. /\ TypeOK /\ UNCHANGED setup /\ UNCHANGED <<source, marked, job, effects, overtaken>>
      /\ UNCHANGED request /\ NoFault
  BY DEF IInv, vars, setup, NoFault
<1>2. /\ faults' \in [FaultKind -> Nat]
      /\ MarkStranded => MarkStranded'
      /\ Causes \in Nat /\ Causes' \in Nat /\ Causes' >= Causes
  BY <1>1, NoFaultFacts
<1>3. /\ request' \in [Requests -> Request]
      /\ \A s \in Requests, x \in Events : WorksOn(s, x)' <=> WorksOn(s, x)
      /\ \A s \in Requests, x \in Events : Acknowledges(s, x)' => Acknowledges(s, x)
      /\ \A s \in Requests : At(s, "marking")' => At(s, "marking")
  BY <1>1 DEF TypeOK, WorksOn, Acknowledges, At
<1> QED
  BY <1>1, <1>2, <1>3, PlacesKept

(* Every step keeps the invariant. *)
LEMMA StepKeeps ==
    ASSUME IInv, [Next]_vars
    PROVE  IInv'
<1>1. ASSUME NEW e \in Events, Deliver(e) \/ Redeliver(e)
      PROVE  IInv'
  BY <1>1, DeliverKeeps
<1>2. ASSUME NEW e \in Events, Work(e) \/ ReplayDeadLetter(e)
      PROVE  IInv'
  BY <1>2, TakeJobKeeps, FinishJobKeeps DEF Work
<1>3. ASSUME NEW e \in Events, FailJob(e)
      PROVE  IInv'
  BY <1>3, FailJobKeeps
<1>4. ASSUME NEW e \in Events, RemoveCompleted(e)
      PROVE  IInv'
  BY <1>4, RemoveCompletedKeeps
<1>5. ASSUME NEW r \in Requests, Serve(r)
      PROVE  IInv'
  BY <1>5, MarkIfNewNewKeeps, CacheSetKeeps, DedupedKeeps, PassesKeeps, NotForUsKeeps,
     ProcessKeeps, EnqueueKeeps, UnmarkAndFailKeeps, AnswerKeeps DEF Serve
<1>6. ASSUME NEW r \in Requests, StopsWaiting(r)
      PROVE  IInv'
  BY <1>6, StopsWaitingKeeps
<1>7. ASSUME NEW r \in Requests,
             MarkFails(r) \/ DecodeFails(r) \/ ProcessFails(r) \/ EnqueueFails(r)
      PROVE  IInv'
  BY <1>7, MarkFailsKeeps, DecodeFailsKeeps, ProcessFailsKeeps, EnqueueFailsKeeps
<1>8. CASE Restart
  BY <1>8, RestartKeeps
<1>9. CASE UNCHANGED vars
  BY <1>9, StutterKeeps
<1> QED
  BY <1>1, <1>2, <1>3, <1>4, <1>5, <1>6, <1>7, <1>8, <1>9 DEF Next

(* The inductive invariant holds. *)
LEMMA InvariantHolds == Spec => []IInv
<1>1. Init => IInv
  BY InitHolds
<1>2. IInv /\ [Next]_vars => IInv'
  BY StepKeeps
<1> QED
  BY <1>1, <1>2, PTL DEF Spec

(* The state has its types, for any events, requests and bounds. *)
THEOREM TypeCorrect == Spec => []TypeOK
<1>1. IInv => TypeOK
  BY DEF IInv
<1> QED
  BY <1>1, InvariantHolds, PTL

(* For any number of events and concurrent deliveries, an event the source has been
   answered 2xx for is applied, in the queue, a dead letter or being worked on, unless
   the answer overtook unfinished work or a mark outlived its attempt: the failure
   paths of the webhook routes give back what markIfNew took. *)
THEOREM LossNeedsOvertaking == Spec => []LostOnlyIfOvertaken
<1>1. IInv => LostOnlyIfOvertaken
  <2> SUFFICES ASSUME IInv, NEW e \in Events, Lost(e), ~MarkStranded, e \notin overtaken
               PROVE  FALSE
    BY DEF LostOnlyIfOvertaken
  <2>1. kind[e] = "work" /\ source[e] = "done" /\ effects[e] = 0
        /\ job[e].state \in {"none", "completed"}
    BY DEF Lost
  <2>2. Acknowledged(e)
    BY <2>1 DEF Acknowledged
  <2>3. Safe(e)
    BY <2>1, <2>2 DEF IInv, NothingLost
  <2> QED
    BY <2>1, <2>3 DEF Safe, HeldStates
<1> QED
  BY <1>1, InvariantHolds, PTL

(* With an atomic event store, an event is applied at most once more than failures
   with an unknown outcome account for, however many deliveries of it come, overlap
   and repeat. *)
THEOREM RepeatsBounded == Spec => []RepeatsHaveACause
<1>1. IInv => RepeatsHaveACause
  <2> SUFFICES ASSUME IInv, MarksAtomically, NEW e \in Events
               PROVE  effects[e] <= 1 + faults["handlerLate"] + faults["enqueueLate"]
                                      + 2 * faults["restart"] + faults["durableRestart"]
    BY DEF RepeatsHaveACause, MarksAtomically
  <2>1. /\ effects[e] + Open(e) + Held(e) <= 1 + Causes
        /\ effects[e] \in Nat /\ Open(e) \in {0, 1} /\ Held(e) \in {0, 1}
    BY DEF IInv, Bounded, TypeOK, Open, Held
  <2>2. \A k \in {"handlerLate", "enqueueLate", "restart", "durableRestart"} : faults[k] \in Nat
    <3>1. {"handlerLate", "enqueueLate", "restart", "durableRestart"} \subseteq FaultKind
      BY DEF FaultKind
    <3> QED
      BY <3>1 DEF IInv, TypeOK
  <2> QED
    BY <2>1, <2>2 DEF Causes
<1> QED
  BY <1>1, InvariantHolds, PTL
=============================================================================
