------------------------- MODULE SdkPurchaseProofs -------------------------
(***************************************************************************)
(* Theorems about SdkPurchase, for every set of calls, handlers and        *)
(* transactions and every sequence of users.                               *)
(*                                                                         *)
(* IInv is the inductive invariant: the types, the properties that the     *)
(* runs check, and what each rests on:                                     *)
(*   OneAtATime        for StrandedOnlyIfCrossed: who fails at the request *)
(*                     clears his own entry, because no other call runs    *)
(*   GateOpens         for ParkedIsWoken: of the gate, whoever is parked   *)
(*   ReplaysComeFirst  for ReplayAnswersNobody: of the events on their way *)
(*   AnsweredFirst     for FinishedAsAnswered: of who is about to finish   *)
(***************************************************************************)
EXTENDS SdkPurchase, FiniteSetTheorems, TLAPS

(* The call runs. *)
Active(c) == call[c].pc \notin {"idle", "settled"}

(* isBusyRef is held exactly while a call runs, and one runs at a time. *)
OneAtATime ==
    /\ \A c, d \in Calls : Active(c) /\ Active(d) => c = d
    /\ busy <=> \E c \in Calls : Active(c)

(* A closed drain gate has somebody who will open it. *)
GateOpens == mounted /\ ~drained => init[gen] \in {"connecting", "draining"}

(* The gate opens after the replays of the connection, where anybody listens. *)
ReplaysComeFirst ==
    drained /\ listening => staleRelease \/ \A event \in events : ~event.replay

(* The server has accepted a transaction, or calls it one-time and owned already. *)
Answered(tx) == tx \in recorded \/ (kind # "subscription" /\ tx \in owned)

(* What is about to be finished was answered; only consumables are declared so. *)
AnsweredFirst ==
    /\ declared => kind = "consumable"
    /\ \A h \in Handlers :
          handler[h] # Idle /\ handler[h].pc = "finishing" => Answered(handler[h].tx)

IInv ==
    /\ TypeOK /\ OneAtATime
    /\ GateOpens /\ ParkedIsWoken
    /\ ReplaysComeFirst /\ ReplayAnswersNobody
    /\ AnsweredFirst /\ FinishedAsAnswered
    /\ StrandedOnlyIfCrossed
-----------------------------------------------------------------------------
(* Generations are numbers, and each has a user. *)
LEMMA GensFacts ==
    /\ Gens \subseteq Nat /\ 1 \in Gens
    /\ \A g \in Gens : UserOf[g] \in Users
<1>1. Cardinality(DOMAIN UserOf) \in Nat
  BY UserOfAssumption, FS_CardinalityType
<1> QED
  BY <1>1, UserOfAssumption DEF Gens, Users

(* What a call that is over looks like. *)
LEMMA OverType == Over \in [pc : {"settled"}, gen : Gens]
BY GensFacts DEF Over

(* Settling touches one pending entry. *)
LEMMA SettleType ==
    ASSUME NEW e \in [Calls -> {"none", "pending", "resolved", "rejected"}], NEW c,
           NEW result \in {"resolved", "rejected"}, c \in Calls \cup {NoCall}
    PROVE  /\ Settle(e, c, result) \in [Calls -> {"none", "pending", "resolved", "rejected"}]
           /\ \A d \in Calls : d # c => Settle(e, c, result)[d] = e[d]
           /\ \A d \in Calls : Settle(e, c, result)[d] = "pending" => e[d] = "pending" /\ d # c
BY NoCallAssumption DEF Settle

-----------------------------------------------------------------------------
(* The actions of Next, by who takes them. *)
CallStep(c) ==
    \/ Tap(c) \/ Fetched(c) \/ FetchFails(c) \/ RequestReturns(c) \/ RequestFails(c)
    \/ Timeout(c) \/ EntrySettled(c) \/ CleanedUp(c) \/ Restore(c)
    \/ \E tx \in Txs : Restored(c, tx)

StoreStep ==
    \/ \E tx \in Txs : Buy(tx)
    \/ StoreError

EventStep ==
    \/ \E h \in Handlers, event \in events : Receive(h, event)
    \/ \E event \in events : ReceiveNothing(event)
    \/ \E h \in Handlers : Accepted(h) \/ AlreadyOwned(h) \/ Refused(h) \/ Finished(h)

MountStep ==
    \/ \E g \in Gens : Connected(g) \/ ConnectFails(g) \/ DrainTimer(g)
    \/ SwitchUser
    \/ Unmount

ReadStep == \E g \in Gens : MountReadAnswers(g) \/ RefreshAnswers(g)

(* Every step is one of a call, the store, an event, the mount effect or a read. *)
LEMMA NextSplit ==
    ASSUME Next
    PROVE  (\E c \in Calls : CallStep(c)) \/ StoreStep \/ EventStep \/ MountStep \/ ReadStep
BY DEF Next, CallStep, StoreStep, EventStep, MountStep, ReadStep

(* A call's flow. *)
CallType == [pc : {"idle", "parked", "fetching", "requesting", "awaiting", "cleanup",
                   "restoring", "settled"}, gen : Gens]

(* A step of a call keeps the types. *)
LEMMA CallTyped ==
    ASSUME TypeOK, NEW c \in Calls, CallStep(c)
    PROVE  TypeOK'
<1>1. /\ call \in [Calls -> CallType] /\ call[c] \in CallType
      /\ UserOf[call[c].gen] \in Users /\ gen \in Gens
      /\ entry \in [Calls -> {"none", "pending", "resolved", "rejected"}]
  BY GensFacts DEF TypeOK, CallType
<1>2. Over \in CallType
  BY OverType DEF CallType
<1>3. UNCHANGED <<kind, declared, gen, mounted, listening, init, drained, handler, paid, events,
                  staleRelease, crossed, owned>>
  BY DEF CallStep, Tap, Fetched, FetchFails, RequestReturns, RequestFails, Timeout, EntrySettled,
         CleanedUp, Restore, Restored, fixed, provider, history, store
<1>4. call' \in [Calls -> CallType]
  BY <1>1, <1>2 DEF CallStep, Tap, Fetched, FetchFails, RequestReturns, RequestFails, Timeout,
         EntrySettled, CleanedUp, Restore, Restored, Released, Move, TapGoesTo, CallType
<1>5. entry' \in [Calls -> {"none", "pending", "resolved", "rejected"}]
  BY <1>1, SettleType DEF CallStep, Tap, Fetched, FetchFails, RequestReturns, RequestFails,
         Timeout, EntrySettled, CleanedUp, Restore, Restored, Released
<1>6. busy' \in BOOLEAN
  BY DEF TypeOK, CallStep, Tap, Fetched, FetchFails, RequestReturns, RequestFails,
         Timeout, EntrySettled, CleanedUp, Restore, Restored, Released
<1>7. /\ slot' \in Calls \cup {NoCall} /\ sheet' \in Calls \cup {NoCall}
      /\ shown' \in Users \cup {"nobody"} /\ recorded' \subseteq Txs
  BY <1>1 DEF TypeOK, CallStep, Tap, Fetched, FetchFails, RequestReturns, RequestFails, Timeout,
         EntrySettled, CleanedUp, Restore, Restored, RestoredPurchase, RestoredSubscription,
         Revalidated, Listed, Write, store
<1> QED
  BY <1>1, <1>3, <1>4, <1>5, <1>6, <1>7 DEF TypeOK, CallType

(* A step of an event handler keeps the types. *)
LEMMA EventTyped ==
    ASSUME TypeOK, EventStep
    PROVE  TypeOK'
<1>1. /\ UNCHANGED <<kind, declared, gen, mounted, listening, init, drained, busy, call, sheet,
                     staleRelease>>
      /\ events' \subseteq events
  BY DEF EventStep, Receive, ReceiveNothing, Accepted, AlreadyOwned, Refused, Finished, fixed,
         provider, flow, store, history
<1>2. Match \in Calls \cup {NoCall} /\ gen \in Gens /\ events \subseteq [tx : Txs, replay : BOOLEAN]
  BY DEF TypeOK, Match
<1>3. ASSUME NEW h \in Handlers, handler[h] # Idle
      PROVE  handler[h] \in Handling /\ UserOf[handler[h].gen] \in Users
  BY <1>3, GensFacts DEF TypeOK, Handling
<1>4. handler' \in [Handlers -> Handling \cup {Idle}]
  <2>1. CASE \E h \in Handlers, event \in events : Receive(h, event)
    BY <1>2, <2>1 DEF Receive, TypeOK, Handling
  <2>2. CASE \E h \in Handlers : Accepted(h) \/ AlreadyOwned(h)
    <3> PICK h \in Handlers : Accepted(h) \/ AlreadyOwned(h)
      BY <2>2
    <3>1. handler[h] # Idle /\ handler' = [handler EXCEPT ![h].pc = "finishing"]
      BY DEF Accepted, AlreadyOwned
    <3>2. [handler[h] EXCEPT !.pc = "finishing"] \in Handling
      BY <1>3, <3>1 DEF Handling
    <3> QED
      BY <3>1, <3>2 DEF TypeOK
  <2>3. CASE \E h \in Handlers : Refused(h) \/ Finished(h)
    BY <2>3 DEF Refused, Finished, TypeOK
  <2>4. CASE \E event \in events : ReceiveNothing(event)
    BY <2>4 DEF ReceiveNothing, TypeOK
  <2> QED
    BY <2>1, <2>2, <2>3, <2>4 DEF EventStep
<1>5. entry' \in [Calls -> {"none", "pending", "resolved", "rejected"}]
  <2> entry \in [Calls -> {"none", "pending", "resolved", "rejected"}]
    BY DEF TypeOK
  <2>1. CASE \E h \in Handlers, event \in events : Receive(h, event)
    BY <2>1 DEF Receive, flow
  <2>2. CASE \E event \in events : ReceiveNothing(event)
    BY <1>2, <2>2, SettleType DEF ReceiveNothing
  <2>3. CASE \E h \in Handlers : AlreadyOwned(h)
    BY <2>3 DEF AlreadyOwned, flow
  <2>4. ASSUME NEW h \in Handlers, Accepted(h) \/ Refused(h) \/ Finished(h)
        PROVE  entry' \in [Calls -> {"none", "pending", "resolved", "rejected"}]
    <3>1. handler[h].entry \in Calls \cup {NoCall}
      BY <1>3, <2>4 DEF Accepted, Refused, Finished, Handling
    <3> QED
      BY <2>4, <3>1, SettleType DEF Accepted, Refused, Finished
  <2> QED
    BY <2>1, <2>2, <2>3, <2>4 DEF EventStep
<1>6. slot' \in Calls \cup {NoCall} /\ crossed' \subseteq Calls
  BY DEF TypeOK, EventStep, Receive, ReceiveNothing, Accepted, AlreadyOwned, Refused, Finished,
         flow, history, ClearMatched, NoteCrossing
<1>7. shown' \in Users \cup {"nobody"}
  BY <1>3 DEF TypeOK, EventStep, Receive, ReceiveNothing, Accepted, AlreadyOwned, Refused,
         Finished, Write
<1>8. recorded' \subseteq Txs /\ owned' \subseteq Txs
  BY <1>3 DEF TypeOK, EventStep, Receive, ReceiveNothing, Accepted, AlreadyOwned, Refused,
         Finished, NoAnswer, Handling, store, history
<1>9. paid' \in [Txs -> {"unbought", "unfinished", "acknowledged", "consumed"}]
  BY <1>3 DEF TypeOK, EventStep, Receive, ReceiveNothing, Accepted, AlreadyOwned, Refused,
         Finished, EndsUnfinished, FinishedAs, Handling, store
<1> QED
  BY <1>1, <1>4, <1>5, <1>6, <1>7, <1>8, <1>9 DEF TypeOK

(* What the cleanup of the effect does to the calls and their entries. *)
LEMMA CleanupFacts ==
    ASSUME TypeOK, Cleanup
    PROVE  /\ call' \in [Calls -> CallType]
           /\ entry' \in [Calls -> {"none", "pending", "resolved", "rejected"}]
           /\ slot' = NoCall /\ busy' \in BOOLEAN
           /\ \A c \in Calls : call'[c].pc = IF At(c, "parked") THEN "settled" ELSE call[c].pc
           /\ \A c \in Calls : entry'[c] = "pending" => entry[c] = "pending" /\ c # slot
<1>1. Over \in CallType /\ Over.pc = "settled"
  BY OverType DEF CallType
<1>2. /\ entry' \in [Calls -> {"none", "pending", "resolved", "rejected"}]
      /\ \A c \in Calls : entry'[c] = "pending" => entry[c] = "pending" /\ c # slot
  BY SettleType DEF TypeOK, Cleanup
<1>3. /\ call' \in [Calls -> CallType]
      /\ \A c \in Calls : call'[c].pc = IF At(c, "parked") THEN "settled" ELSE call[c].pc
  BY <1>1 DEF TypeOK, Cleanup, CallType
<1> QED
  BY <1>2, <1>3 DEF TypeOK, Cleanup

(* What opening the gate does to the calls. *)
LEMMA UnparkFacts ==
    ASSUME TypeOK
    PROVE  /\ Unpark \in [Calls -> CallType]
           /\ \A c \in Calls : Unpark[c].pc = IF At(c, "parked") THEN "fetching" ELSE call[c].pc
BY DEF Unpark, TypeOK, CallType

(* A step of the mount effect keeps the types. *)
LEMMA MountTyped ==
    ASSUME TypeOK, MountStep
    PROVE  TypeOK'
<1>1. Replays \subseteq [tx : Txs, replay : BOOLEAN]
  BY DEF Replays, Unfinished
<1>2. CASE \E g \in Gens : Connected(g)
  BY <1>2 DEF Connected, TypeOK, fixed, flow, store, history
<1>3. CASE \E g \in Gens : ConnectFails(g)
  <2>1. /\ UNCHANGED <<kind, declared, gen, mounted, busy, slot, entry, shown, handler, sheet, paid,
                       events, recorded, crossed, owned>>
        /\ call' = Unpark /\ drained' = TRUE
    BY <1>3 DEF ConnectFails, ReleaseDrain, fixed, store
  <2>2. /\ listening' \in BOOLEAN /\ staleRelease' \in BOOLEAN
        /\ init' \in [Gens -> {"none", "connecting", "draining", "done"}]
    BY <1>3 DEF ConnectFails, TypeOK
  <2>3. call' \in [Calls -> CallType]
    BY <2>1, UnparkFacts
  <2> QED
    BY <2>1, <2>2, <2>3 DEF TypeOK, CallType
<1>4. CASE \E g \in Gens : DrainTimer(g)
  <2>1. /\ UNCHANGED <<kind, declared, gen, mounted, listening, busy, slot, entry, shown, handler,
                       sheet, paid, events, recorded, staleRelease, crossed, owned>>
        /\ drained' \in {drained, TRUE} /\ call' \in {call, Unpark}
    BY <1>4 DEF DrainTimer, ReleaseDrain, fixed, store, history
  <2>2. drained' \in BOOLEAN /\ init' \in [Gens -> {"none", "connecting", "draining", "done"}]
    BY <1>4, <2>1 DEF DrainTimer, TypeOK
  <2>3. call' \in [Calls -> CallType]
    BY <2>1, UnparkFacts DEF TypeOK, CallType
  <2> QED
    BY <2>1, <2>2, <2>3 DEF TypeOK, CallType
<1>5. CASE SwitchUser
  BY <1>1, <1>5, CleanupFacts DEF SwitchUser, Rearm, TypeOK, CallType, fixed, history
<1>6. CASE Unmount
  BY <1>6, CleanupFacts DEF Unmount, TypeOK, CallType, fixed, history
<1> QED
  BY <1>2, <1>3, <1>4, <1>5, <1>6 DEF MountStep

(* Every step keeps the types. *)
LEMMA Typed ==
    ASSUME TypeOK, [Next]_vars
    PROVE  TypeOK'
<1>1. CASE StoreStep
  <2>1. ASSUME NEW tx \in Txs, Buy(tx)
        PROVE  TypeOK'
    <3>1. events' \subseteq [tx : Txs, replay : BOOLEAN]
      <4>1. PICK event : event = [tx |-> tx, replay |-> FALSE]
        OBVIOUS
      <4>2. event \in [tx : Txs, replay : BOOLEAN]
        BY <4>1
      <4>3. events \subseteq [tx : Txs, replay : BOOLEAN]
        BY DEF TypeOK
      <4>4. events' \subseteq events \cup {event}
        BY <2>1, <4>1 DEF Buy
      <4> QED
        BY <4>2, <4>3, <4>4
    <3>2. paid' \in [Txs -> {"unbought", "unfinished", "acknowledged", "consumed"}]
      BY <2>1 DEF Buy, TypeOK
    <3> QED
      BY <2>1, <3>1, <3>2 DEF Buy, TypeOK, fixed, provider, flow, history
  <2>2. CASE StoreError
    BY <2>2, SettleType DEF StoreError, TypeOK, fixed, provider, store, history
  <2> QED
    BY <1>1, <2>1, <2>2 DEF StoreStep
<1>2. CASE ReadStep
  BY <1>2, GensFacts
     DEF ReadStep, MountReadAnswers, RefreshAnswers, Write, TypeOK, fixed, provider, flow, store,
         history
<1>3. CASE UNCHANGED vars
  BY <1>3 DEF vars, TypeOK, fixed, provider, flow, store, history
<1> QED
  BY <1>1, <1>2, <1>3, NextSplit, CallTyped, EventTyped, MountTyped
-----------------------------------------------------------------------------
(* The lock goes from call to call: the cleanup, which frees it for who is parked,
   does not take it from anybody else, for nobody else can have it. *)
LEMMA LockKept ==
    ASSUME TypeOK, OneAtATime, Next
    PROVE  OneAtATime'
<1>1. ASSUME NEW c \in Calls, CallStep(c), ~Timeout(c)
      PROVE  OneAtATime'
  <2>1. \A d \in Calls : d # c => call'[d] = call[d]
    BY <1>1 DEF TypeOK, CallStep, Tap, Fetched, FetchFails, RequestReturns, RequestFails,
           EntrySettled, CleanedUp, Restore, Restored, Released, Move
  <2>2. \A d \in Calls : d # c => (Active(d)' <=> Active(d))
    BY <2>1 DEF Active
  <2>3. CASE Tap(c) \/ Restore(c)
    <3>1. ~busy /\ busy' /\ Active(c)'
      BY <2>3 DEF Tap, Restore, Active, TapGoesTo, TypeOK
    <3>2. \A d \in Calls : ~Active(d)
      BY <3>1 DEF OneAtATime
    <3> QED
      BY <2>2, <3>1, <3>2 DEF OneAtATime
  <2>4. CASE Active(c) /\ (Active(c)' <=> busy') /\ (~Active(c)' => ~busy')
    <3>1. \A d \in Calls : d # c => ~Active(d)
      BY <2>4 DEF OneAtATime
    <3> QED
      BY <2>2, <2>4, <3>1 DEF OneAtATime
  <2>5. busy => busy \in {TRUE}
    BY DEF TypeOK
  <2>6. CASE Released(c) /\ Active(c)
    <3>1. ~Active(c)' /\ ~busy'
      BY <2>6 DEF Released, Active, Over, TypeOK
    <3> QED
      BY <2>4, <2>6, <3>1
  <2>7. CASE Active(c) /\ Active(c)' /\ busy' = busy
    BY <2>4, <2>7 DEF OneAtATime
  <2>8. \/ Tap(c) \/ Restore(c) \/ (Released(c) /\ Active(c))
        \/ Active(c) /\ Active(c)' /\ busy' = busy
    BY <1>1 DEF TypeOK, CallStep, Fetched, FetchFails, RequestReturns, RequestFails,
           EntrySettled, CleanedUp, Restored, Move, Active, At
  <2> QED
    BY <2>3, <2>6, <2>7, <2>8
<1>2. CASE \/ StoreStep \/ EventStep \/ ReadStep \/ \E c \in Calls : Timeout(c)
           \/ \E g \in Gens : Connected(g)
  <2>1. UNCHANGED <<call, busy>>
    BY <1>2 DEF StoreStep, Buy, StoreError, EventStep, Receive, ReceiveNothing, Accepted,
           AlreadyOwned, Refused, Finished, ReadStep, MountReadAnswers, RefreshAnswers, Timeout,
           Connected, flow
  <2> QED
    BY <2>1 DEF OneAtATime, Active
<1>3. CASE \E g \in Gens : ConnectFails(g) \/ DrainTimer(g)
  <2>1. busy' = busy /\ (call' = call \/ call' = Unpark)
    BY <1>3 DEF ConnectFails, DrainTimer, ReleaseDrain
  <2>2. \A c \in Calls : Active(c)' <=> Active(c)
    BY <2>1, UnparkFacts DEF Active, At
  <2> QED
    BY <2>1, <2>2 DEF OneAtATime
<1>4. CASE SwitchUser \/ Unmount
  <2>1. Cleanup
    BY <1>4 DEF SwitchUser, Unmount
  <2>2. \A c \in Calls : Active(c)' <=> Active(c) /\ ~At(c, "parked")
    BY <2>1, CleanupFacts DEF Active, At
  <2>3. busy' = (busy /\ \A c \in Calls : ~At(c, "parked"))
    BY <2>1 DEF Cleanup
  <2>4. \A c \in Calls : At(c, "parked") => Active(c)
    BY DEF At, Active
  <2>5. ASSUME NEW c \in Calls, At(c, "parked")
        PROVE  \A d \in Calls : ~Active(d)'
    BY <2>2, <2>4, <2>5 DEF OneAtATime
  <2>6. busy' <=> \E c \in Calls : Active(c)'
    BY <2>2, <2>3, <2>5 DEF OneAtATime
  <2> QED
    BY <2>2, <2>6 DEF OneAtATime
<1> QED
  BY <1>1, <1>2, <1>3, <1>4, NextSplit DEF MountStep

(* The gate closes only with a new connection, and each way a connection ends opens it. *)
LEMMA GateKept ==
    ASSUME TypeOK, GateOpens, ParkedIsWoken, Next
    PROVE  GateOpens' /\ ParkedIsWoken'
<1>1. ASSUME NEW c \in Calls, CallStep(c)
      PROVE  GateOpens' /\ ParkedIsWoken'
  <2>1. UNCHANGED <<gen, mounted, init, drained>>
    BY <1>1 DEF CallStep, Tap, Fetched, FetchFails, RequestReturns, RequestFails, Timeout,
           EntrySettled, CleanedUp, Restore, Restored, provider
  <2>2. \A d \in Calls : call'[d].pc = "parked" => call[d].pc = "parked" \/ (mounted /\ ~drained)
    BY <1>1 DEF CallStep, Tap, Fetched, FetchFails, RequestReturns, RequestFails, Timeout,
           EntrySettled, CleanedUp, Restore, Restored, Released, Move, TapGoesTo, Over, TypeOK
  <2> QED
    BY <2>1, <2>2 DEF GateOpens, ParkedIsWoken, At
<1>2. CASE StoreStep \/ EventStep \/ ReadStep
  <2>1. UNCHANGED <<gen, mounted, init, drained, call>>
    BY <1>2 DEF StoreStep, Buy, StoreError, EventStep, Receive, ReceiveNothing, Accepted,
           AlreadyOwned, Refused, Finished, ReadStep, MountReadAnswers, RefreshAnswers, flow,
           provider
  <2> QED
    BY <2>1 DEF GateOpens, ParkedIsWoken, At
<1>3. ASSUME NEW g \in Gens, Connected(g)
      PROVE  GateOpens' /\ ParkedIsWoken'
  <2>1. UNCHANGED <<gen, mounted, drained, call>> /\ gen \in Gens
    BY <1>3 DEF Connected, flow, TypeOK
  <2>2. /\ init'[gen] = init[gen] \/ g = gen
        /\ g = gen /\ mounted => init'[gen] = "draining"
    BY <1>3 DEF Connected, Current, TypeOK
  <2> QED
    BY <2>1, <2>2 DEF GateOpens, ParkedIsWoken, At
<1>4. ASSUME NEW g \in Gens, ConnectFails(g) \/ DrainTimer(g)
      PROVE  GateOpens' /\ ParkedIsWoken'
  <2>1. UNCHANGED <<gen, mounted>> /\ gen \in Gens
    BY <1>4 DEF ConnectFails, DrainTimer, TypeOK
  <2>2. CASE drained' /\ call' = Unpark
    BY <2>1, <2>2, UnparkFacts DEF GateOpens, ParkedIsWoken, At
  <2>3. CASE ~Current(g) /\ UNCHANGED <<drained, call>> /\ DrainTimer(g)
    <3>1. mounted => init'[gen] = init[gen]
      BY <2>1, <2>3 DEF DrainTimer, Current, TypeOK
    <3> QED
      BY <2>1, <2>3, <3>1 DEF GateOpens, ParkedIsWoken, At
  <2> QED
    BY <1>4, <2>2, <2>3 DEF ConnectFails, DrainTimer, ReleaseDrain
<1>5. CASE SwitchUser \/ Unmount
  <2>1. \A c \in Calls : ~At(c, "parked")'
    BY <1>5, CleanupFacts DEF SwitchUser, Unmount, At
  <2>2. GateOpens'
    BY <1>5 DEF SwitchUser, Unmount, GateOpens, TypeOK
  <2> QED
    BY <2>1, <2>2 DEF ParkedIsWoken
<1> QED
  BY <1>1, <1>2, <1>3, <1>4, <1>5, NextSplit DEF MountStep
-----------------------------------------------------------------------------
(* With the gate closed no event matches an entry; when the window closes, no replay
   is left to come, and a connection that fails takes the listeners with it. *)
LEMMA ReplaysKept ==
    ASSUME TypeOK, ReplaysComeFirst, ReplayAnswersNobody, Next
    PROVE  ReplaysComeFirst' /\ ReplayAnswersNobody'
<1>1. CASE \/ \E c \in Calls : CallStep(c)
           \/ StoreError \/ ReadStep \/ \E g \in Gens : Connected(g)
  <2>1. UNCHANGED <<drained, listening, staleRelease, events, handler>>
    BY <1>1 DEF CallStep, Tap, Fetched, FetchFails, RequestReturns, RequestFails, Timeout,
           EntrySettled, CleanedUp, Restore, Restored, StoreError, ReadStep, MountReadAnswers,
           RefreshAnswers, Connected, provider, store, history
  <2> QED
    BY <2>1 DEF ReplaysComeFirst, ReplayAnswersNobody
<1>2. ASSUME NEW tx \in Txs, Buy(tx)
      PROVE  ReplaysComeFirst' /\ ReplayAnswersNobody'
  <2>1. UNCHANGED <<drained, listening, staleRelease, handler>>
    BY <1>2 DEF Buy, provider, history
  <2>2. \A event \in events' : event \in events \/ ~event.replay
    BY <1>2 DEF Buy
  <2> QED
    BY <2>1, <2>2 DEF ReplaysComeFirst, ReplayAnswersNobody
<1>3. ASSUME NEW h \in Handlers, NEW event \in events, Receive(h, event)
      PROVE  ReplaysComeFirst' /\ ReplayAnswersNobody'
  <2>1. PICK got : got = [pc |-> "validating", tx |-> event.tx, gen |-> gen, entry |-> Match,
                          replay |-> event.replay]
    OBVIOUS
  <2>2. /\ UNCHANGED <<drained, listening, staleRelease>> /\ listening
        /\ handler' = [handler EXCEPT ![h] = got] /\ events' \subseteq events
    BY <1>3, <2>1 DEF Receive, provider, history
  <2>3. got.replay /\ got.entry # NoCall => staleRelease
    BY <2>1, <2>2 DEF Match, ReplaysComeFirst
  <2> QED
    BY <2>2, <2>3 DEF ReplaysComeFirst, ReplayAnswersNobody, TypeOK
<1>4. CASE \E event \in events : ReceiveNothing(event)
  <2>1. UNCHANGED <<drained, listening, staleRelease, handler>> /\ events' \subseteq events
    BY <1>4 DEF ReceiveNothing, provider, history
  <2> QED
    BY <2>1 DEF ReplaysComeFirst, ReplayAnswersNobody
<1>5. ASSUME NEW h \in Handlers, Accepted(h) \/ AlreadyOwned(h) \/ Refused(h) \/ Finished(h)
      PROVE  ReplaysComeFirst' /\ ReplayAnswersNobody'
  <2>1. UNCHANGED <<drained, listening, staleRelease, events>>
    BY <1>5 DEF Accepted, AlreadyOwned, Refused, Finished, provider, store, history
  <2>2. CASE handler' = [handler EXCEPT ![h] = Idle]
    BY <2>1, <2>2 DEF ReplaysComeFirst, ReplayAnswersNobody, TypeOK
  <2>3. CASE Accepted(h) \/ AlreadyOwned(h)
    <3>1. handler[h] \in Handling /\ handler[h] # Idle
      BY <2>3 DEF Accepted, AlreadyOwned, TypeOK
    <3>2. PICK on : on = [handler[h] EXCEPT !.pc = "finishing"]
      OBVIOUS
    <3>3. on.entry = handler[h].entry /\ on.replay = handler[h].replay
      BY <3>1, <3>2 DEF Handling
    <3>4. handler' = [handler EXCEPT ![h] = on]
      BY <2>3, <3>2 DEF Accepted, AlreadyOwned
    <3> QED
      BY <2>1, <3>1, <3>3, <3>4 DEF ReplaysComeFirst, ReplayAnswersNobody, TypeOK
  <2> QED
    BY <1>5, <2>2, <2>3 DEF Refused, Finished
<1>6. ASSUME NEW g \in Gens, ConnectFails(g) \/ DrainTimer(g)
      PROVE  ReplaysComeFirst' /\ ReplayAnswersNobody'
  <2>1. /\ UNCHANGED <<events, handler>> /\ (staleRelease => staleRelease')
        /\ listening' => listening
    BY <1>6 DEF ConnectFails, DrainTimer, store, history, TypeOK
  <2>2. ReplaysComeFirst'
    BY <1>6, <2>1 DEF ConnectFails, DrainTimer, ReplaysComeFirst, store, history
  <2> QED
    BY <2>1, <2>2 DEF ReplayAnswersNobody
<1>7. CASE SwitchUser \/ Unmount
  <2>1. UNCHANGED <<staleRelease, handler>> /\ (drained' => ~listening')
    BY <1>7 DEF SwitchUser, Unmount, Rearm, history
  <2> QED
    BY <2>1 DEF ReplaysComeFirst, ReplayAnswersNobody
<1> QED
  BY <1>1, <1>2, <1>3, <1>4, <1>5, <1>6, <1>7, NextSplit DEF MountStep, StoreStep, EventStep

(* A handler finishes what the server has answered. *)
LEMMA FinishKept ==
    ASSUME TypeOK, AnsweredFirst, FinishedAsAnswered, Next
    PROVE  AnsweredFirst' /\ FinishedAsAnswered'
<1>1. CASE \/ \E c \in Calls : CallStep(c)
           \/ StoreError \/ ReadStep \/ MountStep \/ \E event \in events : ReceiveNothing(event)
  <2>1. UNCHANGED <<kind, declared, paid, handler, owned>> /\ recorded \subseteq recorded'
    BY <1>1 DEF CallStep, Tap, Fetched, FetchFails, RequestReturns, RequestFails, Timeout,
           EntrySettled, CleanedUp, Restore, Restored, RestoredPurchase, RestoredSubscription,
           Revalidated, StoreError, ReadStep, MountReadAnswers, RefreshAnswers, MountStep, Connected, ConnectFails, DrainTimer, SwitchUser, Unmount,
           ReceiveNothing, fixed, store, history
  <2> QED
    BY <2>1 DEF AnsweredFirst, Answered, FinishedAsAnswered, Forgotten
<1>2. ASSUME NEW tx \in Txs, Buy(tx)
      PROVE  AnsweredFirst' /\ FinishedAsAnswered'
  <2>1. UNCHANGED <<kind, declared, recorded, owned, handler>>
        /\ \A x \in Txs : paid'[x] = paid[x] \/ paid'[x] = "unfinished"
    BY <1>2 DEF Buy, fixed, history, TypeOK
  <2> QED
    BY <2>1 DEF AnsweredFirst, Answered, FinishedAsAnswered, Forgotten
<1>3. ASSUME NEW h \in Handlers, NEW event \in events, Receive(h, event)
      PROVE  AnsweredFirst' /\ FinishedAsAnswered'
  <2>1. UNCHANGED <<kind, declared, paid, recorded, owned>>
        /\ \A x \in Handlers : handler'[x] = handler[x] \/ handler'[x].pc = "validating"
    BY <1>3 DEF Receive, fixed, history, TypeOK
  <2> QED
    BY <2>1 DEF AnsweredFirst, Answered, FinishedAsAnswered, Forgotten
<1>4. ASSUME NEW h \in Handlers, Accepted(h) \/ AlreadyOwned(h)
      PROVE  AnsweredFirst' /\ FinishedAsAnswered'
  <2>1. handler[h] \in Handling
    BY <1>4 DEF Accepted, AlreadyOwned, TypeOK
  <2>2. PICK on : on = [handler[h] EXCEPT !.pc = "finishing"]
    OBVIOUS
  <2>3. on.tx = handler[h].tx /\ handler' = [handler EXCEPT ![h] = on]
    BY <1>4, <2>1, <2>2 DEF Accepted, AlreadyOwned, Handling
  <2>4. /\ UNCHANGED <<kind, declared, paid>>
        /\ recorded \subseteq recorded' /\ owned \subseteq owned'
        /\ handler[h].tx \in recorded' \/ (kind # "subscription" /\ handler[h].tx \in owned')
    BY <1>4 DEF Accepted, AlreadyOwned, fixed, store, history
  <2> QED
    BY <2>3, <2>4 DEF AnsweredFirst, Answered, FinishedAsAnswered, Forgotten, TypeOK
<1>5. ASSUME NEW h \in Handlers, Refused(h)
      PROVE  AnsweredFirst' /\ FinishedAsAnswered'
  <2>1. /\ UNCHANGED <<kind, declared, paid, owned>> /\ recorded \subseteq recorded'
        /\ \A x \in Handlers : handler'[x] = handler[x] \/ handler'[x] = Idle
    BY <1>5 DEF Refused, EndsUnfinished, NoAnswer, fixed, TypeOK
  <2> QED
    BY <2>1 DEF AnsweredFirst, Answered, FinishedAsAnswered, Forgotten
<1>6. ASSUME NEW h \in Handlers, Finished(h)
      PROVE  AnsweredFirst' /\ FinishedAsAnswered'
  <2>1. /\ UNCHANGED <<kind, declared, recorded, owned>>
        /\ \A x \in Handlers : handler'[x] = handler[x] \/ handler'[x] = Idle
    BY <1>6 DEF Finished, fixed, TypeOK
  <2>2. \A x \in Txs : \/ paid'[x] = paid[x]
                       \/ Answered(x) /\ paid'[x] = FinishedAs(handler[h].entry)
    BY <1>6 DEF Finished, TypeOK, AnsweredFirst
  <2>3. declared => FinishedAs(handler[h].entry) = "consumed"
    BY DEF FinishedAs, AnsweredFirst
  <2> QED
    BY <2>1, <2>2, <2>3 DEF AnsweredFirst, Answered, FinishedAsAnswered, Forgotten
<1> QED
  BY <1>1, <1>2, <1>3, <1>4, <1>5, <1>6, NextSplit DEF StoreStep, EventStep
-----------------------------------------------------------------------------
(* Somebody can settle the entry, or it was crossed out. *)
Reachable(c) == slot = c \/ Held(c) \/ c \in crossed

(* Whatever clears the slot settles the entry in it, or notes that it was crossed;
   RequestFails, which settles nothing, clears the slot of its own call. *)
LEMMA StrandedKept ==
    ASSUME TypeOK, OneAtATime, StrandedOnlyIfCrossed, Next
    PROVE  StrandedOnlyIfCrossed'
<1>0. /\ slot \in Calls \cup {NoCall} /\ NoCall \notin Calls
      /\ entry \in [Calls -> {"none", "pending", "resolved", "rejected"}]
      /\ \A c \in Calls : Waiting(c) => Reachable(c)
  BY NoCallAssumption DEF TypeOK, StrandedOnlyIfCrossed, Reachable
<1>1. ASSUME NEW c \in Calls, CallStep(c)
      PROVE  StrandedOnlyIfCrossed'
  <2>1. UNCHANGED <<handler, crossed>>
    BY <1>1 DEF CallStep, Tap, Fetched, FetchFails, RequestReturns, RequestFails, Timeout,
           EntrySettled, CleanedUp, Restore, Restored, history
  <2>2. \A d \in Calls : Held(d)' <=> Held(d)
    BY <2>1 DEF Held
  <2>3. CASE Timeout(c)
    <3>1. \A d \in Calls : entry'[d] = "pending" => entry[d] = "pending" /\ d # slot
      BY <1>0, <2>3, SettleType DEF Timeout
    <3>2. \A d \in Calls : Waiting(d)' => Waiting(d) /\ d # slot
      BY <2>3, <3>1 DEF Timeout, Waiting
    <3> QED
      BY <1>0, <2>1, <2>2, <3>2 DEF StrandedOnlyIfCrossed, Reachable
  <2>4. CASE Fetched(c) /\ slot = NoCall
    <3>1. /\ slot' = c /\ \A d \in Calls : d # c => entry'[d] = entry[d] /\ call'[d] = call[d]
      BY <1>0, <2>4 DEF Fetched, Move, TypeOK
    <3>2. \A d \in Calls : Waiting(d)' => Waiting(d) \/ d = c
      BY <3>1 DEF Waiting
    <3> QED
      BY <1>0, <2>1, <2>2, <2>4, <3>1, <3>2 DEF StrandedOnlyIfCrossed, Reachable
  <2>5. CASE RequestFails(c)
    <3>1. /\ At(c, "requesting") /\ call'[c].pc = "settled"
          /\ \A d \in Calls : d # c => call'[d] = call[d]
      BY <2>5 DEF RequestFails, Released, Over, TypeOK
    <3>2. ASSUME NEW d \in Calls
          PROVE  ~Waiting(d)'
      <4>1. d # c => ~Active(d)
        BY <3>1 DEF OneAtATime, Active, At
      <4> QED
        BY <3>1, <4>1 DEF Waiting, Active
    <3> QED
      BY <3>2 DEF StrandedOnlyIfCrossed
  <2>6. CASE UNCHANGED slot /\ ~(Fetched(c) /\ slot = NoCall) /\ ~Timeout(c) /\ ~RequestFails(c)
    <3>1. \A d \in Calls : entry'[d] = "pending" => entry[d] = "pending"
      BY <1>0, <1>1, <2>6 DEF CallStep, Tap, Fetched, FetchFails, RequestReturns, EntrySettled,
             CleanedUp, Restore, Restored, Released
    <3>2. \A d \in Calls : call'[d].pc \in {"requesting", "awaiting"} =>
              call[d].pc \in {"requesting", "awaiting"}
      BY <1>1, <2>6 DEF TypeOK, CallStep, Tap, Fetched, FetchFails, RequestReturns, EntrySettled,
             CleanedUp, Restore, Restored, Released, Move, At, Over, TapGoesTo
    <3>3. \A d \in Calls : Waiting(d)' => Waiting(d)
      BY <3>1, <3>2 DEF Waiting
    <3> QED
      BY <1>0, <2>1, <2>2, <2>6, <3>3 DEF StrandedOnlyIfCrossed, Reachable
  <2>7. Timeout(c) \/ RequestFails(c) \/ (Fetched(c) /\ slot = NoCall) \/ UNCHANGED slot
    BY <1>1 DEF CallStep, Tap, Fetched, FetchFails, RequestReturns, EntrySettled, CleanedUp,
           Restore, Restored
  <2> QED
    BY <2>3, <2>4, <2>5, <2>6, <2>7
<1>2. CASE ReadStep \/ \E tx \in Txs : Buy(tx)
  <2>1. UNCHANGED <<call, entry, slot, handler, crossed>>
    BY <1>2 DEF ReadStep, MountReadAnswers, RefreshAnswers, Buy, flow, history
  <2> QED
    BY <2>1 DEF StrandedOnlyIfCrossed, Waiting, Held
<1>3. CASE \/ StoreError \/ SwitchUser \/ Unmount
           \/ \E event \in events : ReceiveNothing(event)
  <2>1. /\ UNCHANGED <<handler, crossed>>
        /\ \A d \in Calls : entry'[d] = "pending" => entry[d] = "pending"
        /\ slot' = slot \/ \A d \in Calls : entry'[d] = "pending" => d # slot
    <3>1. CASE StoreError
      BY <1>0, <3>1, SettleType DEF StoreError, history
    <3>2. CASE SwitchUser \/ Unmount
      BY <3>2, CleanupFacts DEF SwitchUser, Unmount, history
    <3>3. CASE \E event \in events : ReceiveNothing(event)
      <4>1. Match \in Calls \cup {NoCall} /\ (Match # NoCall => Match = slot)
        BY <1>0 DEF Match
      <4> QED
        BY <1>0, <3>3, <4>1, SettleType DEF ReceiveNothing, ClearMatched, history
    <3> QED
      BY <1>3, <3>1, <3>2, <3>3
  <2>2. \A d \in Calls : call'[d].pc = call[d].pc \/ call'[d].pc = "settled"
    BY <1>3, CleanupFacts DEF StoreError, SwitchUser, Unmount, ReceiveNothing
  <2>3. \A d \in Calls : Waiting(d)' => Waiting(d) /\ (slot' = slot \/ d # slot)
    BY <2>1, <2>2 DEF Waiting
  <2>4. \A d \in Calls : Held(d)' <=> Held(d)
    BY <2>1 DEF Held
  <2> QED
    BY <1>0, <2>1, <2>3, <2>4 DEF StrandedOnlyIfCrossed, Reachable
<1>4. CASE \E g \in Gens : Connected(g) \/ ConnectFails(g) \/ DrainTimer(g)
  <2>1. UNCHANGED <<handler, crossed, slot, entry>> /\ (call' = call \/ call' = Unpark)
    BY <1>4 DEF Connected, ConnectFails, DrainTimer, ReleaseDrain, flow, history
  <2>2. \A d \in Calls : Waiting(d)' => Waiting(d)
    BY <2>1, UnparkFacts DEF Waiting, At
  <2> QED
    BY <1>0, <2>1, <2>2 DEF StrandedOnlyIfCrossed, Reachable, Held
<1>5. ASSUME NEW h \in Handlers, NEW event \in events, Receive(h, event)
      PROVE  StrandedOnlyIfCrossed'
  <2>1. /\ UNCHANGED <<call, entry, slot, crossed>> /\ handler[h] = Idle
        /\ \A x \in Handlers : x # h => handler'[x] = handler[x]
    BY <1>5 DEF Receive, flow, history, TypeOK
  <2>2. \A d \in Calls : Held(d) => Held(d)'
    BY <2>1 DEF Held
  <2>3. \A d \in Calls : Waiting(d)' => Waiting(d)
    BY <2>1 DEF Waiting
  <2> QED
    BY <1>0, <2>1, <2>2, <2>3 DEF StrandedOnlyIfCrossed, Reachable
<1>6. ASSUME NEW h \in Handlers, Accepted(h) \/ AlreadyOwned(h)
      PROVE  StrandedOnlyIfCrossed'
  <2>1. handler[h] \in Handling /\ handler[h].entry \in Calls \cup {NoCall}
    BY <1>6 DEF Accepted, AlreadyOwned, TypeOK, Handling
  <2>2. PICK on : on = [handler[h] EXCEPT !.pc = "finishing"]
    OBVIOUS
  <2>3. /\ on.entry = handler[h].entry /\ handler' = [handler EXCEPT ![h] = on]
        /\ on # Idle
    BY <1>6, <2>1, <2>2 DEF Accepted, AlreadyOwned, Handling, Idle
  <2>4. \A d \in Calls : Held(d) => Held(d)'
    BY <2>3 DEF Held, TypeOK
  <2>5. UNCHANGED <<call, slot, crossed>>
        /\ \A d \in Calls : entry'[d] = "pending" => entry[d] = "pending"
    BY <1>0, <1>6, <2>1, SettleType DEF Accepted, AlreadyOwned, flow, history
  <2>6. \A d \in Calls : Waiting(d)' => Waiting(d)
    BY <2>5 DEF Waiting
  <2> QED
    BY <1>0, <2>4, <2>5, <2>6 DEF StrandedOnlyIfCrossed, Reachable
<1>7. ASSUME NEW h \in Handlers, Refused(h) \/ Finished(h)
      PROVE  StrandedOnlyIfCrossed'
  <2>1. PICK matched \in Calls \cup {NoCall} : matched = handler[h].entry
    BY <1>7 DEF Refused, Finished, TypeOK, Handling
  <2>2. /\ UNCHANGED call /\ handler' = [handler EXCEPT ![h] = Idle]
        /\ ClearMatched(matched) /\ NoteCrossing(matched)
        /\ \A d \in Calls : entry'[d] = "pending" => entry[d] = "pending" /\ d # matched
    BY <1>0, <1>7, <2>1, SettleType DEF Refused, Finished
  <2>3. \A d \in Calls : Waiting(d)' => Waiting(d) /\ d # matched
    BY <2>2 DEF Waiting
  <2>4. \A d \in Calls : d # matched /\ Held(d) => Held(d)'
    BY <2>1, <2>2 DEF Held, TypeOK
  <2>5. \A d \in Calls : d # matched /\ (slot = d \/ d \in crossed) => slot' = d \/ d \in crossed'
    BY <1>0, <2>2 DEF ClearMatched, NoteCrossing
  <2> QED
    BY <1>0, <2>3, <2>4, <2>5 DEF StrandedOnlyIfCrossed, Reachable
<1> QED
  BY <1>1, <1>2, <1>3, <1>4, <1>5, <1>6, <1>7, NextSplit DEF MountStep, StoreStep, EventStep
-----------------------------------------------------------------------------
(* The app starts. *)
LEMMA InitHolds == Init => IInv
<1> SUFFICES ASSUME Init PROVE IInv
  OBVIOUS
<1>1. TypeOK
  <2>1. Replays \subseteq [tx : Txs, replay : BOOLEAN]
    BY DEF Replays, Unfinished
  <2>2. gen \in Gens /\ kind \in Kinds
    BY GensFacts DEF Init
  <2> QED
    BY <2>1, <2>2 DEF Init, TypeOK
<1>2. OneAtATime
  BY DEF Init, OneAtATime, Active
<1>3. GateOpens /\ ParkedIsWoken
  BY GensFacts DEF Init, GateOpens, ParkedIsWoken, At
<1>4. ReplaysComeFirst /\ ReplayAnswersNobody /\ StrandedOnlyIfCrossed
  BY DEF Init, ReplaysComeFirst, ReplayAnswersNobody, StrandedOnlyIfCrossed, Waiting
<1>5. AnsweredFirst /\ FinishedAsAnswered
  BY DEF Init, AnsweredFirst, FinishedAsAnswered, Forgotten
<1> QED
  BY <1>1, <1>2, <1>3, <1>4, <1>5 DEF IInv

(* Every step keeps the invariant. *)
LEMMA StepKeeps ==
    ASSUME IInv, [Next]_vars
    PROVE  IInv'
<1>1. TypeOK'
  BY Typed DEF IInv
<1>2. CASE Next
  BY <1>1, <1>2, LockKept, GateKept, ReplaysKept, FinishKept, StrandedKept DEF IInv
<1>3. CASE UNCHANGED vars
  BY <1>1, <1>3
     DEF IInv, vars, fixed, provider, flow, store, history, OneAtATime, Active, GateOpens,
         ParkedIsWoken, At, ReplaysComeFirst, ReplayAnswersNobody, AnsweredFirst,
         Answered, FinishedAsAnswered, Forgotten, StrandedOnlyIfCrossed, Waiting, Held
<1> QED
  BY <1>2, <1>3

(* The inductive invariant holds. *)
LEMMA InvariantHolds == Spec => []IInv
<1>1. Init => IInv
  BY InitHolds
<1>2. IInv /\ [Next]_vars => IInv'
  BY StepKeeps
<1> QED
  BY <1>1, <1>2, PTL DEF Spec

(* The state has its types, for any calls, handlers, transactions and users. *)
THEOREM TypeCorrect == Spec => []TypeOK
<1>1. IInv => TypeOK
  BY DEF IInv
<1> QED
  BY <1>1, InvariantHolds, PTL

(* For any number of calls and events at one time, a caller whose promise is pending
   can be answered by an event, an error or its timer, unless the handler of an
   earlier call's purchase cleared his entry (purchaseFlow.ts, clearInFlight). *)
THEOREM StrandedNeedsCrossing == Spec => []StrandedOnlyIfCrossed
<1>1. IInv => StrandedOnlyIfCrossed
  BY DEF IInv
<1> QED
  BY <1>1, InvariantHolds, PTL

(* Nobody is parked at the drain gate for good: the current generation's connection
   or drain timer is under way and will open it. *)
THEOREM ParkedWakes == Spec => []ParkedIsWoken
<1>1. IInv => ParkedIsWoken
  BY DEF IInv
<1> QED
  BY <1>1, InvariantHolds, PTL

(* A replay of an old transaction never answers a fresh tap, for any number of replays
   and user switches, unless the failed connection of an earlier generation opened
   the drain gate. *)
THEOREM ReplayIsSilent == Spec => []ReplayAnswersNobody
<1>1. IInv => ReplayAnswersNobody
  BY DEF IInv
<1> QED
  BY <1>1, InvariantHolds, PTL

(* A transaction is finished at the store only when the server has recorded it or, if it
   is a one-time purchase, called it owned already; a subscription only when it was
   recorded; and a declared consumable is consumed. *)
THEOREM FinishNeedsAnswer == Spec => []FinishedAsAnswered
<1>1. IInv => FinishedAsAnswered
  BY DEF IInv
<1> QED
  BY <1>1, InvariantHolds, PTL

(* isBusyRef is never left set with no call running, nor are there ever two: every
   return, throw, cancellation and user switch on the way gives it back once. *)
THEOREM LockIsHeldByACall == Spec => []OneAtATime
<1>1. IInv => OneAtATime
  BY DEF IInv
<1> QED
  BY <1>1, InvariantHolds, PTL

(* What an answer writes is about the user who is there when it comes. *)
THEOREM WritesAreOwn == Spec => NoForeignWrite
<1>1. [Next]_vars => [shown' # shown => shown' = UserOf[gen]]_vars
  <2> SUFFICES ASSUME Next PROVE shown' # shown => shown' = UserOf[gen]
    OBVIOUS
  <2>1. CASE ReadStep
    BY <2>1 DEF ReadStep, MountReadAnswers, RefreshAnswers, Write, Current, CurrentUser
  <2>2. CASE \E h \in Handlers : Accepted(h)
    BY <2>2 DEF Accepted, Write, Current
  <2>3. CASE \E c \in Calls, tx \in Txs : Restored(c, tx)
    BY <2>3 DEF Restored, RestoredPurchase, RestoredSubscription, Write, CurrentUser
  <2>4. CASE /\ ~ReadStep /\ ~\E h \in Handlers : Accepted(h)
             /\ ~\E c \in Calls, tx \in Txs : Restored(c, tx)
    BY <2>4, NextSplit
       DEF CallStep, Tap, Fetched, FetchFails, RequestReturns, RequestFails, Timeout, EntrySettled,
           CleanedUp, Restore, StoreStep, Buy, StoreError, EventStep, Receive, ReceiveNothing,
           AlreadyOwned, Refused, Finished, MountStep, Connected, ConnectFails, DrainTimer, SwitchUser, Unmount
  <2> QED
    BY <2>1, <2>2, <2>3, <2>4
<1> QED
  BY <1>1, PTL DEF Spec, NoForeignWrite
=============================================================================
