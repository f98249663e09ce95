------------------------------ MODULE ReadsProofs ------------------------------
(***************************************************************************)
(* Theorems about what the server tells of its stores, for any snapshots,  *)
(* processes, windows, delays and lifetimes the models assume: the routes  *)
(* that tell of access (EntitlementReads) and those that count (Metrics),  *)
(* over a table that is being migrated (PostgresSubscriptionStore), and    *)
(* the caches of results (ResultCaches).                                   *)
(*                                                                         *)
(* IInv is the inductive invariant of ReadsSpec:                           *)
(*   StoreInv    the types of the store, and what the clock says of every  *)
(*               query under way and of what a process remembers           *)
(*   AccessInv   what a request has read so far covers what has granted    *)
(*               access all along (ReadSound), and what it would tell of   *)
(*               was there (ToldSound)                                     *)
(*   MetricsInv  every cached count is of the question its key stands for, *)
(*               and was taken during the work that this question began    *)
(*                                                                         *)
(* CachesInv is that of CachesSpec:                                        *)
(*   CachesTypeOK  the types                                               *)
(*   Private       the metrics and key caches are private                  *)
(*   EntriesSound  how far the claim of an entry may be off                *)
(*   CallsSound    how much time a caller may have taken, and how far what *)
(*                 it holds may be off; what it is answered is not stale   *)
(*   OneWorks      the registered caller is at work and the only one       *)
(***************************************************************************)
EXTENDS Metrics, ResultCaches, FiniteSetTheorems, FunctionTheorems, TLAPS

-----------------------------------------------------------------------------
(* The Postgres store while its table gets the columns of 0.28. *)

(* What the clock says of a query under way and of what a process remembers. *)
StoreTimes ==
    /\ HaveColumns => columns <= now
    /\ \A j \in Jobs : jobs[j] # Free =>
          /\ jobs[j].since <= now /\ now <= jobs[j].since + Delay
          /\ jobs[j].at = "undefinedColumn" => jobs[j].since <= columns
          /\ jobs[j].at = "legacy" => jobs[j].since < columns + Window + Delay
    /\ \A p \in Processes : remembers[p] > 0 => now + remembers[p] <= columns + Window + Delay

StoreInv == StoreTypeOK /\ StoreTimes

-----------------------------------------------------------------------------
(* Shapes of the queries. *)
LEMMA StoreFacts ==
    ASSUME StoreTypeOK
    PROVE  /\ now \in Nat /\ now <= MaxTime /\ columns \in Nat /\ columns <= MaxTime + 1
           /\ Never \in Nat /\ Never = MaxTime + 1 /\ MaxTime \in Nat
           /\ Window \in Nat /\ Window > 0 /\ Delay \in Nat /\ Delay > 0 /\ saves \in Nat
           /\ \A p \in Processes : remembers[p] \in Nat /\ remembers[p] <= Window
BY TimeAssumption DEF StoreTypeOK, Never

(* What a provider says of a subscription is typed. *)
LEMMA SnapshotKeys ==
    ASSUME NEW tx \in Txs, NEW k \in DOMAIN Snapshot[tx]
    PROVE  /\ k \in Nat \ {0} /\ Snapshot[tx][k].status \in Status
           /\ Snapshot[tx][k].expires \in Nat /\ Snapshot[tx][k].grace \in Nat
BY SnapshotAssumption

(* A query in flight is one of save() or of initSchema(). *)
LEMMA JobShape ==
    ASSUME StoreTypeOK, NEW j \in Jobs, jobs[j] # Free
    PROVE  /\ jobs[j].at \in {"guarded", "saved", "undefinedColumn", "legacy"} =>
                 /\ jobs[j] \in SaveJob /\ jobs[j].tx \in Txs
                 /\ jobs[j].of \in DOMAIN Snapshot[jobs[j].tx] /\ jobs[j].process \in Processes
           /\ jobs[j].at \in {"ddl", "ddlDone"} => jobs[j] \in SchemaJob /\ jobs[j].process \in Processes
           /\ jobs[j].since \in Nat
           /\ jobs[j] \in SaveJob \cup SchemaJob
<1>1. jobs[j] \in SaveJob \cup SchemaJob
  BY DEF StoreTypeOK
<1>2. jobs[j] \in SaveJob => jobs[j].of \in DOMAIN Snapshot[jobs[j].tx]
  BY DEF StoreTypeOK
<1> QED
  BY <1>1, <1>2 DEF SaveJob, SchemaJob

(* A query somewhere on its way is in flight. *)
LEMMA BusyAt ==
    ASSUME NEW j, jobs[j].at \in {"guarded", "saved", "undefinedColumn", "legacy", "ddl", "ddlDone"}
    PROVE  jobs[j] # Free
BY DEF Free

(* What a query must be for StoreInv to go on. *)
JobSound(job, time, added) ==
    job # Free =>
        /\ job.since <= time /\ time <= job.since + Delay
        /\ job.at = "undefinedColumn" => job.since <= added
        /\ job.at = "legacy" => job.since < added + Window + Delay

JobTyped(job) ==
    /\ job \in SaveJob \cup SchemaJob \cup {Free}
    /\ job \in SaveJob => job.of \in DOMAIN Snapshot[job.tx]

(* One query goes on; neither the clock nor the columns change. *)
LEMMA JobGoesOn ==
    ASSUME StoreInv, UNCHANGED <<now, columns>>, NEW j \in Jobs, NEW job,
           jobs' = [jobs EXCEPT ![j] = job], JobTyped(job), JobSound(job, now, columns),
           rows' \in Tables, saves' \in 0..MaxSaves,
           remembers' \in [Processes -> 0..Window],
           \A p \in Processes : remembers'[p] > 0 => now + remembers'[p] <= columns + Window + Delay
    PROVE  StoreInv'
<1>1. jobs' \in [Jobs -> SaveJob \cup SchemaJob \cup {Free}]
  BY DEF StoreInv, StoreTypeOK, JobTyped
<1>2. \A i \in Jobs : jobs'[i] = IF i = j THEN job ELSE jobs[i]
  BY DEF StoreInv, StoreTypeOK
<1>3. \A i \in Jobs : jobs'[i] \in SaveJob => jobs'[i].of \in DOMAIN Snapshot[jobs'[i].tx]
  BY <1>2 DEF StoreInv, StoreTypeOK, JobTyped
<1>4. StoreTypeOK'
  BY <1>1, <1>3 DEF StoreInv, StoreTypeOK, Never
<1>5. \A i \in Jobs : JobSound(jobs'[i], now, columns)
  BY <1>2 DEF StoreInv, StoreTimes, JobSound
<1> QED
  BY <1>4, <1>5 DEF StoreInv, StoreTimes, JobSound, HaveColumns, Never

(* An empty table, and no query yet. *)
LEMMA StoreStarts == StoreInit => StoreInv
<1> SUFFICES ASSUME StoreInit PROVE StoreInv
  OBVIOUS
<1>1. NoRow \in Row
  BY DEF NoRow, Row, NoTime
<1>2. rows \in Tables
  BY <1>1 DEF StoreInit, Tables, NoRow
<1>3. \A j \in Jobs : jobs[j] = Free
  BY DEF StoreInit
<1>4. Free \notin SaveJob
  BY DEF Free, SaveJob
<1>5. jobs \in [Jobs -> SaveJob \cup SchemaJob \cup {Free}]
  BY DEF StoreInit
<1>6. StoreTypeOK
  BY <1>2, <1>3, <1>4, <1>5, TimeAssumption DEF StoreInit, StoreTypeOK, Never
<1> QED
  BY <1>3, <1>6, TimeAssumption DEF StoreInv, StoreTimes, StoreInit, HaveColumns, Never

(* A query of save() begins. *)
LEMMA SaveSound ==
    ASSUME StoreInv, NEW j \in Jobs, NEW p \in Processes, NEW tx \in Txs,
           NEW k \in DOMAIN Snapshot[tx], Save(j, p, tx, k)
    PROVE  StoreInv'
<1>1. PICK job : job = [at |-> IF remembers[p] > 0 THEN "legacy" ELSE "guarded",
                        process |-> p, tx |-> tx, of |-> k, since |-> now]
  OBVIOUS
<1>2. job \in SaveJob /\ job.tx = tx /\ job.of = k /\ job.since = now
      /\ (job.at = "legacy" => remembers[p] > 0) /\ job.at # "undefinedColumn"
  BY <1>1, StoreFacts, SnapshotKeys DEF SaveJob, StoreInv
<1>3. now < columns + Window + Delay \/ ~(remembers[p] > 0)
  BY StoreFacts DEF StoreInv, StoreTimes
<1>4. JobTyped(job) /\ JobSound(job, now, columns)
  BY <1>2, <1>3, StoreFacts DEF JobTyped, JobSound, StoreInv
<1>5. saves' \in 0..MaxSaves
  BY StoreFacts, TimeAssumption DEF Save, StoreInv, StoreTypeOK
<1> QED
  BY <1>1, <1>4, <1>5, JobGoesOn DEF Save, StoreInv, StoreTypeOK, StoreTimes

(* initSchema() begins. *)
LEMMA InitSchemaSound ==
    ASSUME StoreInv, NEW j \in Jobs, NEW p \in Processes, InitSchema(j, p)
    PROVE  StoreInv'
<1>1. PICK job : job = [at |-> "ddl", process |-> p, since |-> now]
  OBVIOUS
<1>2. job \in SchemaJob /\ job \notin SaveJob /\ job.since = now /\ job.at = "ddl"
  BY <1>1, StoreFacts DEF SchemaJob, SaveJob, StoreInv
<1>4. JobTyped(job) /\ JobSound(job, now, columns)
  BY <1>2, StoreFacts DEF JobTyped, JobSound, StoreInv
<1> QED
  BY <1>1, <1>4, JobGoesOn DEF InitSchema, StoreInv, StoreTypeOK, StoreTimes

(* A query of save() that goes on to its next step. *)
LEMMA NextAt ==
    ASSUME StoreInv, NEW j \in Jobs, NEW at \in {"saved", "undefinedColumn"},
           jobs[j].at = "guarded", at = "undefinedColumn" => columns = Never
    PROVE  JobTyped([jobs[j] EXCEPT !.at = at]) /\ JobSound([jobs[j] EXCEPT !.at = at], now, columns)
<1>1. jobs[j] \in SaveJob /\ jobs[j].of \in DOMAIN Snapshot[jobs[j].tx] /\ jobs[j].since \in Nat
      /\ jobs[j].since <= now /\ now <= jobs[j].since + Delay
  BY BusyAt, JobShape DEF StoreInv, StoreTimes
<1>2. PICK job : job = [jobs[j] EXCEPT !.at = at]
  OBVIOUS
<1>3. job \in SaveJob /\ job.at = at /\ job.since = jobs[j].since /\ job.tx = jobs[j].tx /\ job.of = jobs[j].of
  BY <1>1, <1>2 DEF SaveJob
<1> QED
  BY <1>1, <1>2, <1>3, StoreFacts DEF JobTyped, JobSound, StoreInv

(* The guarded statement. *)
LEMMA RunGuardedSound ==
    ASSUME StoreInv, NEW j \in Jobs, RunGuarded(j)
    PROVE  StoreInv'
<1>1. jobs[j].at = "guarded" /\ UNCHANGED <<now, columns, remembers, saves>>
  BY DEF RunGuarded
<1>2. PICK tx, k : tx \in Txs /\ tx = jobs[j].tx /\ k = jobs[j].of /\ k \in DOMAIN Snapshot[tx]
  BY <1>1, BusyAt, JobShape DEF StoreInv
<1>3. rows' \in Tables
  <2>1. PICK row : row = [of |-> k, asOf |-> k, grace |-> Snapshot[tx][k].grace]
    OBVIOUS
  <2>2. row \in Row /\ row.of = k /\ row.asOf = k
    BY <1>2, <2>1, SnapshotKeys DEF Row
  <2>3. rows' = rows \/ rows' = [rows EXCEPT ![tx] = row]
    BY <1>2, <2>1 DEF RunGuarded
  <2> QED
    BY <1>2, <2>2, <2>3 DEF StoreInv, StoreTypeOK, Tables
<1>4. PICK at \in {"saved", "undefinedColumn"} :
         /\ jobs' = [jobs EXCEPT ![j] = [jobs[j] EXCEPT !.at = at]]
         /\ at = "undefinedColumn" => columns = Never
  BY DEF RunGuarded, HaveColumns
<1> QED
  BY <1>1, <1>3, <1>4, NextAt, JobGoesOn DEF StoreInv, StoreTypeOK, StoreTimes

(* A query is over. *)
LEMMA DoneSound ==
    ASSUME StoreInv, NEW j \in Jobs, Done(j), UNCHANGED <<now, columns, saves>>, rows' \in Tables,
           remembers' \in [Processes -> 0..Window],
           \A p \in Processes : remembers'[p] \in {remembers[p], 0}
    PROVE  StoreInv'
<1>1. JobTyped(Free) /\ JobSound(Free, now, columns)
  BY DEF JobTyped, JobSound, SaveJob, Free
<1>2. \A p \in Processes : remembers'[p] > 0 => now + remembers'[p] <= columns + Window + Delay
  BY DEF StoreInv, StoreTimes
<1> QED
  BY <1>1, <1>2, JobGoesOn DEF Done, StoreInv, StoreTypeOK

(* The reply that the columns are missing. *)
LEMMA ColumnsMissingSound ==
    ASSUME StoreInv, NEW j \in Jobs, ColumnsMissing(j)
    PROVE  StoreInv'
<1>1. /\ jobs[j].at = "undefinedColumn" /\ UNCHANGED <<now, columns, rows, saves>>
      /\ jobs' = [jobs EXCEPT ![j] = [jobs[j] EXCEPT !.at = "legacy", !.since = now]]
      /\ remembers' = [remembers EXCEPT ![jobs[j].process] = Window]
  BY DEF ColumnsMissing, Goto, StoreInv, StoreTypeOK
<1>2. /\ jobs[j] \in SaveJob /\ jobs[j].of \in DOMAIN Snapshot[jobs[j].tx]
      /\ jobs[j].since \in Nat /\ jobs[j].since <= columns /\ now <= jobs[j].since + Delay
  BY <1>1, BusyAt, JobShape DEF StoreInv, StoreTimes
<1>3. now <= columns + Delay
  BY <1>2, StoreFacts DEF StoreInv
<1>4. PICK job : job = [jobs[j] EXCEPT !.at = "legacy", !.since = now]
  OBVIOUS
<1>5. /\ job \in SaveJob /\ job.at = "legacy" /\ job.since = now
      /\ job.tx = jobs[j].tx /\ job.of = jobs[j].of
  BY <1>2, <1>4, StoreFacts DEF SaveJob, StoreInv
<1>6. JobTyped(job) /\ JobSound(job, now, columns)
  BY <1>2, <1>3, <1>5, StoreFacts DEF JobTyped, JobSound, StoreInv
<1>7. /\ remembers' \in [Processes -> 0..Window]
      /\ \A p \in Processes : remembers'[p] > 0 => now + remembers'[p] <= columns + Window + Delay
  <2>1. \A p \in Processes : remembers'[p] \in {remembers[p], Window}
    BY <1>1 DEF StoreInv, StoreTypeOK
  <2>2. remembers' \in [Processes -> 0..Window]
    <3>1. Window \in 0..Window
      BY StoreFacts DEF StoreInv
    <3> QED
      BY <1>1, <3>1 DEF StoreInv, StoreTypeOK
  <2> QED
    BY <1>3, <2>1, <2>2, StoreFacts DEF StoreInv, StoreTimes
<1> QED
  BY <1>1, <1>4, <1>6, <1>7, JobGoesOn DEF StoreInv, StoreTypeOK

(* The statement of 0.27. *)
LEMMA RunLegacySound ==
    ASSUME StoreInv, NEW j \in Jobs, RunLegacy(j)
    PROVE  StoreInv'
<1>1. jobs[j].at = "legacy" /\ Done(j) /\ UNCHANGED <<now, columns, remembers, saves>>
      /\ rows' = [rows EXCEPT ![jobs[j].tx].of = jobs[j].of]
  BY DEF RunLegacy
<1>2. PICK tx, k : tx \in Txs /\ tx = jobs[j].tx /\ k = jobs[j].of /\ k \in DOMAIN Snapshot[tx]
  BY <1>1, BusyAt, JobShape DEF StoreInv
<1>3. PICK row : row = [rows[tx] EXCEPT !.of = k]
  OBVIOUS
<1>4. row \in Row /\ row.of = k /\ row.asOf = rows[tx].asOf
  BY <1>2, <1>3, SnapshotKeys DEF StoreInv, StoreTypeOK, Tables, Row
<1>5. rows' = [rows EXCEPT ![tx] = row]
  BY <1>1, <1>2, <1>3 DEF StoreInv, StoreTypeOK, Tables
<1>6. rows' \in Tables
  BY <1>2, <1>4, <1>5 DEF StoreInv, StoreTypeOK, Tables
<1> QED
  BY <1>1, <1>6, DoneSound DEF StoreInv, StoreTypeOK

(* The columns are added: whatever was learnt before is from before. *)
LEMMA AddColumnsSound ==
    ASSUME StoreInv, AddColumns, UNCHANGED <<now, rows, remembers, saves>>,
           \/ UNCHANGED jobs
           \/ \E j \in Jobs : jobs[j].at = "ddl" /\ jobs' = [jobs EXCEPT ![j].at = "ddlDone"]
    PROVE  StoreInv'
<1>1. columns' = IF columns # Never THEN columns ELSE now
  BY DEF AddColumns, HaveColumns
<1>2. columns' \in 0..Never
  BY <1>1, StoreFacts DEF StoreInv
<1>3. \A i \in Jobs : JobTyped(jobs[i]) /\ JobSound(jobs[i], now, columns')
  <2> SUFFICES ASSUME NEW i \in Jobs PROVE JobTyped(jobs[i]) /\ JobSound(jobs[i], now, columns')
    OBVIOUS
  <2>1. JobTyped(jobs[i])
    BY DEF StoreInv, StoreTypeOK, JobTyped
  <2>2. jobs[i] # Free => jobs[i].since \in Nat
    BY JobShape DEF StoreInv
  <2> QED
    BY <1>1, <2>1, <2>2, StoreFacts DEF StoreInv, StoreTimes, JobSound
<1>4. \A i \in Jobs : JobTyped(jobs'[i]) /\ JobSound(jobs'[i], now, columns')
  <2>1. ASSUME NEW j \in Jobs, jobs[j].at = "ddl", jobs' = [jobs EXCEPT ![j].at = "ddlDone"],
               NEW i \in Jobs
        PROVE  JobTyped(jobs'[i]) /\ JobSound(jobs'[i], now, columns')
    <3>1. CASE i # j
      BY <1>3, <2>1, <3>1 DEF StoreInv, StoreTypeOK
    <3>2. CASE i = j
      <4>1. jobs[j] \in SchemaJob /\ jobs[j] # Free
        BY <2>1, BusyAt, JobShape DEF StoreInv
      <4>2. jobs'[j] = [jobs[j] EXCEPT !.at = "ddlDone"]
        BY <2>1 DEF StoreInv, StoreTypeOK
      <4>3. jobs'[j] \in SchemaJob /\ jobs'[j] \notin SaveJob /\ jobs'[j].at = "ddlDone"
            /\ jobs'[j].since = jobs[j].since
        BY <4>1, <4>2 DEF SchemaJob, SaveJob
      <4> QED
        BY <1>3, <3>2, <4>1, <4>3 DEF JobTyped, JobSound
    <3> QED
      BY <3>1, <3>2
  <2> QED
    BY <1>3, <2>1
<1>5. jobs' \in [Jobs -> SaveJob \cup SchemaJob \cup {Free}]
  <2>1. DOMAIN jobs' = Jobs /\ jobs' = [i \in Jobs |-> jobs'[i]]
    BY DEF StoreInv, StoreTypeOK
  <2> QED
    BY <1>4, <2>1 DEF JobTyped
<1>6. StoreTypeOK'
  BY <1>2, <1>4, <1>5 DEF StoreInv, StoreTypeOK, JobTyped, Never
<1>7. StoreTimes'
  <2>1. HaveColumns' => columns' <= now
    BY <1>1, StoreFacts DEF StoreInv, StoreTimes, HaveColumns, Never
  <2>2. \A p \in Processes : remembers[p] > 0 => now + remembers[p] <= columns' + Window + Delay
    BY <1>1, StoreFacts DEF StoreInv, StoreTimes
  <2> QED
    BY <1>4, <2>1, <2>2 DEF StoreTimes, JobSound
<1> QED
  BY <1>6, <1>7 DEF StoreInv

(* The clock ticks: no query outlasts Delay, and what is remembered runs out. *)
LEMMA TickSound ==
    ASSUME StoreInv, Tick
    PROVE  StoreInv'
<1>1. /\ now' = now + 1 /\ now < MaxTime /\ UNCHANGED <<columns, rows, jobs, saves>>
      /\ \A j \in Jobs : jobs[j] # Free => now < jobs[j].since + Delay
      /\ remembers' = [p \in Processes |-> Remembering(remembers[p])]
  BY DEF Tick
<1>2. \A p \in Processes : /\ remembers'[p] \in 0..Window
                           /\ remembers'[p] > 0 => remembers[p] > 0 /\ remembers'[p] = remembers[p] - 1
  <2>1. SUFFICES ASSUME NEW p \in Processes
                 PROVE  /\ remembers'[p] \in 0..Window
                        /\ remembers'[p] > 0 => remembers[p] > 0 /\ remembers'[p] = remembers[p] - 1
    OBVIOUS
  <2>2. PICK left \in Nat : left = remembers[p] /\ left <= Window
    BY StoreFacts DEF StoreInv
  <2>3. remembers'[p] = IF left = 0 THEN 0 ELSE left - 1
    BY <1>1, <2>2 DEF Remembering
  <2> QED
    BY <2>2, <2>3, StoreFacts DEF StoreInv
<1>3. remembers' \in [Processes -> 0..Window]
  <2>1. remembers' = [p \in Processes |-> remembers'[p]]
    BY <1>1
  <2> QED
    BY <1>2, <2>1
<1>4. StoreTypeOK'
  BY <1>1, <1>3, StoreFacts DEF StoreInv, StoreTypeOK, Never
<1>5. \A j \in Jobs : jobs[j] # Free => jobs[j].since <= now' /\ now' <= jobs[j].since + Delay
  BY <1>1, StoreFacts, JobShape DEF StoreInv, StoreTimes
<1>6. \A p \in Processes : remembers'[p] > 0 => now' + remembers'[p] <= columns + Window + Delay
  BY <1>1, <1>2, StoreFacts DEF StoreInv, StoreTimes
<1>7. HaveColumns => columns <= now'
  BY <1>1, StoreFacts DEF StoreInv, StoreTimes
<1> QED
  BY <1>1, <1>4, <1>5, <1>6, <1>7 DEF StoreInv, StoreTimes, HaveColumns, Never

(* Whatever happens to the store. *)
LEMMA StoreSteps ==
    ASSUME StoreInv, StoreNext \/ UNCHANGED storeVars
    PROVE  StoreInv'
<1>1. ASSUME NEW j \in Jobs, ColumnsSeen(j) \/ SchemaReady(j) \/ QueryFails(j) PROVE StoreInv'
  <2>1. Done(j) /\ UNCHANGED <<now, columns, rows, saves>>
    BY <1>1 DEF ColumnsSeen, SchemaReady, QueryFails
  <2>2. remembers' = remembers \/ remembers' = [remembers EXCEPT ![jobs[j].process] = 0]
    BY <1>1 DEF ColumnsSeen, SchemaReady, QueryFails
  <2>3. /\ remembers' \in [Processes -> 0..Window]
        /\ \A p \in Processes : remembers'[p] \in {remembers[p], 0}
    BY <2>2, StoreFacts DEF StoreInv, StoreTypeOK
  <2> QED
    BY <2>1, <2>3, DoneSound DEF StoreInv, StoreTypeOK
<1>2. CASE UNCHANGED storeVars
  BY <1>2 DEF storeVars, StoreInv, StoreTypeOK, StoreTimes, HaveColumns, Never
<1>3. ASSUME NEW j \in Jobs, RunDdl(j) PROVE StoreInv'
  BY <1>3, AddColumnsSound DEF RunDdl
<1>4. CASE ApplySchemaByHand
  BY <1>4, AddColumnsSound DEF ApplySchemaByHand
<1> QED
  BY <1>1, <1>2, <1>3, <1>4, SaveSound, InitSchemaSound, RunGuardedSound, ColumnsMissingSound,
     RunLegacySound, TickSound DEF StoreNext
-----------------------------------------------------------------------------
(* The routes that tell of access. *)

(* What a route has read off the table of what granted access all along. *)
ReadOff(granting) ==
    \/ granting = Purchase
    \/ \E tx \in Txs : /\ granting = <<tx, request.subs[tx]>>
                       /\ request.route = "status" => tx \in WithoutReplaced(request.subs)

(* What the subscriptions read would have the route tell at that time. *)
LaterOn(time) ==
    IF request.route = "status" THEN Entitling(request.subs, time) \cap WithoutReplaced(request.subs)
    ELSE Entitling(request.subs, time)

(* The single route knows that the user owns the product, if it must. *)
KnowsPurchase ==
    /\ Has("purchases") => Has("subscriptions")
    /\ /\ seen.throughout # {} /\ ~seen.removed /\ Has("subscriptions")
       /\ Entitling(request.subs, request.started) = {}
       => bought /\ (Has("purchases") => request.purchases)

ReadSound ==
    request.at = "reading" =>
        /\ seen.throughout \subseteq Granting(request.route)
        /\ request.route # "entitlement" /\ Has("subscriptions") =>
              \A granting \in seen.throughout : ReadOff(granting)
        /\ request.route = "entitlements" /\ Has("purchases") /\ Purchase \in seen.throughout =>
              request.purchases
        /\ request.route = "entitlement" => KnowsPurchase

ToldSound ==
    request.at = "reading" =>
        /\ request.purchases => seen.ever
        /\ request.route = "entitlement" /\ Entitling(request.subs, request.started) # {} => seen.ever
        /\ request.route # "entitlement" =>
              \A time \in now..MaxTime : LaterOn(time) # {} => seen.ever

Typed ==
    /\ bought \in BOOLEAN
    /\ changes \in 0..MaxPurchases
    /\ request.at = "reading" => request \in Reads /\ request.started <= now
    /\ request.at = "answered" => request \in Answers

AccessInv == Typed /\ ReadSound /\ ToldSound /\ EntitledIsTold /\ ToldWasEntitled

-----------------------------------------------------------------------------
(* Access that is there later was there before: it only ends. *)
LEMMA EntitledBefore ==
    ASSUME NEW table \in Tables, NEW tx \in Txs, NEW before \in Nat, NEW after \in Nat,
           before <= after, Entitles(table, tx, after)
    PROVE  Entitles(table, tx, before)
<1>1. table[tx].of # 0 /\ table[tx].grace \in Nat /\ table[tx].of \in DOMAIN Snapshot[tx]
  BY DEF Tables, Row, Entitles
<1>2. PICK data : data = Snapshot[tx][table[tx].of]
  OBVIOUS
<1>3. data.expires \in Nat
  BY <1>1, <1>2, SnapshotKeys
<1> QED
  BY <1>1, <1>2, <1>3 DEF Entitles, IsSubscriptionEntitled

(* The same, of all rows at once. *)
LEMMA EntitlingBefore ==
    ASSUME NEW table \in Tables, NEW before \in Nat, NEW after \in Nat, before <= after
    PROVE  Entitling(table, after) \subseteq Entitling(table, before)
BY EntitledBefore DEF Entitling

(* What the history variable notes while a request is in progress. *)
LEMMA Watched ==
    ASSUME Watch, request.at \in {"reading", "answered"}, request'.at \in {"reading", "answered"}
    PROVE  /\ seen'.throughout \subseteq seen.throughout
           /\ request.at = "reading" => seen'.throughout \subseteq Granting(request.route)'
           /\ seen.removed => seen'.removed
           /\ ~seen'.removed /\ request'.route = "entitlement" /\ bought => bought'
           /\ seen.ever => seen'.ever
           /\ request'.at = "reading" /\ EntitledAsAsked(request)' => seen'.ever
<1>1. request # Idle
  BY DEF Idle
<1>2. seen' = [throughout |-> IF seen.throughout = {} THEN {}
                              ELSE seen.throughout \cap Granting(request.route)',
               removed |-> seen.removed \/ (request'.route = "entitlement" /\ bought /\ ~bought'),
               ever |-> seen.ever \/ (request'.at = "reading" /\ EntitledAsAsked(request)')]
  BY <1>1 DEF Watch
<1> QED
  BY <1>2

(* What grants access, taken apart. *)
LEMMA GrantingIs ==
    ASSUME NEW granting
    PROVE  /\ granting \in Granting("status") =>
                 \E tx \in Txs : /\ granting = <<tx, rows[tx]>> /\ tx \in Entitling(rows, now)
                                /\ tx \in WithoutReplaced(rows)
           /\ granting \in Granting("entitlements") =>
                 \/ granting = Purchase /\ bought
                 \/ \E tx \in Txs : granting = <<tx, rows[tx]>> /\ tx \in Entitling(rows, now)
           /\ granting \in Granting("entitlement") => Entitling(rows, now) # {} \/ bought
<1>1. \A tx \in Entitling(rows, now) : tx \in Txs
  BY DEF Entitling
<1>2. Purchase[1] \notin WithoutReplaced(rows)
  BY NoTxAssumption DEF Purchase, WithoutReplaced
<1> QED
  BY <1>1, <1>2 DEF Granting

(* The purchase grants access only while the user owns it. *)
LEMMA PurchaseGrants ==
    ASSUME Purchase \in Granting("entitlements")
    PROVE  bought
<1>1. ASSUME NEW tx \in Entitling(rows, now) PROVE <<tx, rows[tx]>> # Purchase
  BY NoTxAssumption DEF Entitling, Purchase
<1> QED
  BY <1>1 DEF Granting
-----------------------------------------------------------------------------
(* The answer stands, whatever changes. *)
LEMMA AnsweredKeeps ==
    ASSUME AccessInv, Watch, request.at = "answered", UNCHANGED request,
           bought' \in BOOLEAN, changes' \in 0..MaxPurchases
    PROVE  AccessInv'
<1>1. /\ seen'.throughout \subseteq seen.throughout
      /\ seen.removed => seen'.removed
      /\ seen.ever => seen'.ever
  <2>1. request.at \in {"reading", "answered"} /\ request'.at \in {"reading", "answered"}
    OBVIOUS
  <2>2. seen'.throughout \subseteq seen.throughout
    BY <2>1, Watched
  <2>3. seen.removed => seen'.removed
    BY <2>1, Watched
  <2>4. seen.ever => seen'.ever
    BY <2>1, Watched
  <2> QED
    BY <2>2, <2>3, <2>4
<1>2. Typed'
  BY DEF AccessInv, Typed
<1>3. EntitledIsTold' /\ ToldWasEntitled'
  BY <1>1 DEF AccessInv, EntitledIsTold, ToldWasEntitled
<1> QED
  BY <1>2, <1>3 DEF AccessInv, ReadSound, ToldSound

(* The stores change, or the clock, under a request that reads. *)
LEMMA ReadingKeeps ==
    ASSUME StoreInv, AccessInv, StoreInv', Watch, request.at = "reading", UNCHANGED request,
           now <= now', bought' \in BOOLEAN, changes' \in 0..MaxPurchases
    PROVE  AccessInv'
<1>1. /\ seen'.throughout \subseteq seen.throughout
      /\ seen'.throughout \subseteq Granting(request.route)'
      /\ seen.removed => seen'.removed
      /\ ~seen'.removed /\ request.route = "entitlement" /\ bought => bought'
      /\ seen.ever => seen'.ever
  BY Watched
<1>2. now \in Nat /\ now' \in Nat /\ request \in Reads /\ request.started \in Nat /\ request.started <= now
  BY StoreFacts DEF StoreInv, StoreTypeOK, AccessInv, Typed, Reads
<1>3. Typed'
  BY <1>2 DEF AccessInv, Typed
<1>4. ReadSound'
  <2>1. \A granting : ReadOff(granting)' <=> ReadOff(granting)
    BY DEF ReadOff, WithoutReplaced
  <2>2. /\ Has("subscriptions")' <=> Has("subscriptions")
        /\ Has("purchases")' <=> Has("purchases")
        /\ Entitling(request.subs, request.started)' = Entitling(request.subs, request.started)
    BY DEF Has, Entitling, Entitles
  <2>3. request.route = "entitlement" => KnowsPurchase'
    <3> SUFFICES ASSUME request.route = "entitlement" PROVE KnowsPurchase'
      OBVIOUS
    <3>1. KnowsPurchase
      BY DEF AccessInv, ReadSound
    <3>2. seen'.throughout # {} => seen.throughout # {}
      BY <1>1
    <3>3. ~seen'.removed /\ bought => ~seen.removed /\ bought'
      BY <1>1
    <3> QED
      BY <1>1, <2>2, <3>1, <3>2, <3>3 DEF KnowsPurchase
  <2> QED
    BY <1>1, <2>1, <2>2, <2>3 DEF AccessInv, ReadSound
<1>5. ToldSound'
  <2>1. Entitling(request.subs, request.started)' = Entitling(request.subs, request.started)
    BY DEF Entitling, Entitles
  <2>2. \A time : LaterOn(time)' = LaterOn(time)
    BY DEF LaterOn, WithoutReplaced, Entitling, Entitles
  <2>3. \A time \in now'..MaxTime : time \in now..MaxTime
    BY <1>2, StoreFacts DEF StoreInv
  <2> QED
    BY <1>1, <2>1, <2>2, <2>3 DEF AccessInv, ToldSound
<1> QED
  BY <1>3, <1>4, <1>5 DEF AccessInv, EntitledIsTold, ToldWasEntitled

(* No request to read. *)
LEMMA ElsewhereHolds ==
    ASSUME request.at \notin {"reading", "answered"}, bought \in BOOLEAN, changes \in 0..MaxPurchases
    PROVE  AccessInv
BY DEF AccessInv, Typed, ReadSound, ToldSound, EntitledIsTold, ToldWasEntitled

(* The same, of the next state. *)
LEMMA ElsewhereKeeps ==
    ASSUME request'.at \notin {"reading", "answered"}, bought' \in BOOLEAN, changes' \in 0..MaxPurchases
    PROVE  AccessInv'
BY DEF AccessInv, Typed, ReadSound, ToldSound, EntitledIsTold, ToldWasEntitled

(* The stores change, or the clock, whatever is being done. *)
LEMMA RequestStays ==
    ASSUME StoreInv, AccessInv, StoreInv', Watch, UNCHANGED request,
           now <= now', bought' \in BOOLEAN, changes' \in 0..MaxPurchases
    PROVE  AccessInv'
BY AnsweredKeeps, ReadingKeeps, ElsewhereKeeps

(* A request comes. *)
LEMMA ArriveKeeps ==
    ASSUME StoreInv, AccessInv, StoreInv', Watch, NEW route \in Routes, Arrive(route)
    PROVE  AccessInv'
<1>1. /\ request = Idle /\ UNCHANGED <<storeVars, bought, changes>>
      /\ request' = [at |-> "reading", route |-> route, started |-> now, has |-> {},
                     subs |-> [tx \in Txs |-> NoRow], purchases |-> FALSE]
  BY DEF Arrive
<1>2. now \in Nat
  BY StoreFacts DEF StoreInv
<1>3. [tx \in Txs |-> NoRow] \in Tables
  BY DEF Tables, Row, NoRow, NoTime
<1>4. request' \in Reads /\ request'.started = now /\ request'.at = "reading" /\ request'.route = route
      /\ request'.has = {} /\ request'.subs = [tx \in Txs |-> NoRow] /\ ~request'.purchases
  BY <1>1, <1>2, <1>3 DEF Reads
<1>5. Typed'
  BY <1>1, <1>2, <1>4 DEF AccessInv, Typed, storeVars
<1>6. seen'.throughout = Granting(request.route)'
  BY <1>1, <1>4 DEF Watch
<1>7. ~Has("subscriptions")' /\ ~Has("purchases")'
  BY <1>4 DEF Has
<1>8. ReadSound'
  BY <1>6, <1>7 DEF ReadSound, KnowsPurchase
<1>9. ToldSound'
  <2>1. Entitling(request.subs, request.started)' = {} /\ \A time : LaterOn(time)' = {}
    BY <1>4 DEF LaterOn, Entitling, Entitles, NoRow
  <2> QED
    BY <1>4, <2>1 DEF ToldSound
<1> QED
  BY <1>4, <1>5, <1>8, <1>9 DEF AccessInv, EntitledIsTold, ToldWasEntitled

(* Nothing but the request changes: what grants access is the same. *)
LEMMA SameGranting ==
    ASSUME UNCHANGED <<storeVars, bought>>, request'.route = request.route
    PROVE  /\ Granting(request.route)' = Granting(request.route)
           /\ \A time : Entitling(rows, time)' = Entitling(rows, time)
BY DEF Granting, storeVars, Entitling, Entitles, WithoutReplaced

(* The subscriptions are read. *)
LEMMA ReadSubscriptionsKeeps ==
    ASSUME StoreInv, AccessInv, Watch, ReadSubscriptions
    PROVE  AccessInv'
<1>1. /\ request.at = "reading" /\ ~Has("subscriptions") /\ UNCHANGED <<storeVars, bought, changes>>
      /\ request' = [request EXCEPT !.subs = rows, !.has = request.has \cup {"subscriptions"}]
  BY DEF ReadSubscriptions, Reading
<1>2. request \in Reads /\ request.started \in Nat /\ request.started <= now /\ now \in Nat
      /\ rows \in Tables /\ now <= MaxTime /\ MaxTime \in Nat
  BY <1>1, StoreFacts DEF AccessInv, Typed, Reads, StoreInv, StoreTypeOK
<1>3. /\ request' \in Reads /\ request'.at = "reading" /\ request'.route = request.route
      /\ request'.started = request.started /\ request'.subs = rows
      /\ request'.purchases = request.purchases
      /\ request'.has = request.has \cup {"subscriptions"}
  BY <1>1, <1>2 DEF Reads
<1>4. /\ seen'.throughout \subseteq seen.throughout
      /\ seen'.throughout \subseteq Granting(request.route)
      /\ seen.ever => seen'.ever
      /\ EntitledAsAsked(request)' => seen'.ever
  BY <1>1, <1>3, Watched, SameGranting
<1>5. Typed'
  BY <1>1, <1>2, <1>3 DEF AccessInv, Typed, storeVars
<1>6. Entitling(rows, now) \subseteq Entitling(rows, request.started)
  BY <1>2, EntitlingBefore
<1>7. ReadSound'
  <2>1. seen'.throughout \subseteq Granting(request.route)'
    BY <1>1, <1>3, <1>4, SameGranting
  <2>2. ASSUME request.route # "entitlement", NEW granting \in seen'.throughout
        PROVE  ReadOff(granting)'
    <3>1. request.route \in {"status", "entitlements"} /\ granting \in Granting(request.route)
      BY <1>2, <1>4, <2>2 DEF Reads, Routes
    <3>2. WithoutReplaced(rows) = WithoutReplaced(request.subs)'
      BY <1>3 DEF WithoutReplaced
    <3> QED
      BY <1>3, <3>1, <3>2, GrantingIs DEF ReadOff
  <2>3. request.route = "entitlements" /\ Has("purchases")' /\ Purchase \in seen'.throughout =>
              request'.purchases
    BY <1>3, <1>1, <1>4 DEF AccessInv, ReadSound, Has
  <2>4. request.route = "entitlement" => KnowsPurchase'
    <3> SUFFICES ASSUME request.route = "entitlement" PROVE KnowsPurchase'
      OBVIOUS
    <3>1. ~Has("purchases")' /\ Has("subscriptions")'
      BY <1>1, <1>3 DEF AccessInv, ReadSound, KnowsPurchase, Has
    <3>2. Entitling(request.subs, request.started)' = Entitling(rows, request.started)
      BY <1>3 DEF Entitling, Entitles
    <3>3. seen'.throughout # {} => Entitling(rows, now) # {} \/ bought
      BY <1>4, GrantingIs
    <3> QED
      BY <1>1, <1>6, <3>1, <3>2, <3>3 DEF KnowsPurchase
  <2> QED
    BY <1>3, <2>1, <2>2, <2>3, <2>4 DEF ReadSound
<1>8. ToldSound'
  <2>1. request'.purchases => seen'.ever
    BY <1>1, <1>3, <1>4 DEF AccessInv, ToldSound
  <2>2. request.route = "entitlement" /\ Entitling(request.subs, request.started)' # {} => seen'.ever
    <3>1. Entitling(request.subs, request.started)' = Entitling(rows, request.started)'
      BY <1>1, <1>3 DEF Entitling, Entitles, storeVars
    <3> QED
      BY <1>3, <1>4, <3>1 DEF EntitledAsAsked
  <2>3. ASSUME request.route # "entitlement", NEW time \in now..MaxTime, LaterOn(time)' # {}
        PROVE  seen'.ever
    <3>1. Entitling(rows, time) \subseteq Entitling(rows, now)
      BY <1>2, EntitlingBefore
    <3>2. LaterOn(time)' = IF request.route = "status"
                           THEN Entitling(rows, time) \cap WithoutReplaced(rows)
                           ELSE Entitling(rows, time)
      BY <1>3 DEF LaterOn, Entitling, Entitles, WithoutReplaced
    <3>3. PICK tx \in Entitling(rows, now) : request.route = "status" => tx \in WithoutReplaced(rows)
      BY <2>3, <3>1, <3>2
    <3>4. <<tx, rows[tx]>> \in Granting(request.route)
      BY <1>2, <2>3, <3>3 DEF Granting, Reads, Routes
    <3>5. Granting(request.route)' # {}
      BY <1>1, <1>3, <3>4, SameGranting
    <3> QED
      BY <1>3, <1>4, <2>3, <3>5 DEF EntitledAsAsked
  <2> QED
    BY <1>1, <1>3, <2>1, <2>2, <2>3 DEF ToldSound, storeVars
<1> QED
  BY <1>3, <1>5, <1>7, <1>8 DEF AccessInv, EntitledIsTold, ToldWasEntitled

(* The purchases are read. *)
LEMMA ReadPurchasesKeeps ==
    ASSUME StoreInv, AccessInv, Watch, ReadPurchases
    PROVE  AccessInv'
<1>1. /\ request.at = "reading" /\ ~Has("purchases") /\ UNCHANGED <<storeVars, bought, changes>>
      /\ request' = [request EXCEPT !.purchases = bought, !.has = request.has \cup {"purchases"}]
      /\ \/ request.route = "entitlements"
         \/ /\ request.route = "entitlement" /\ Has("subscriptions")
            /\ Entitling(request.subs, request.started) = {}
  BY DEF ReadPurchases, MayReadPurchases, Reading
<1>2. request \in Reads /\ request.started <= now /\ bought \in BOOLEAN
  BY <1>1 DEF AccessInv, Typed
<1>3. /\ request' \in Reads /\ request'.at = "reading" /\ request'.route = request.route
      /\ request'.started = request.started /\ request'.subs = request.subs
      /\ request'.purchases = bought
      /\ request'.has = request.has \cup {"purchases"}
  BY <1>1, <1>2 DEF Reads
<1>4. /\ seen'.throughout \subseteq seen.throughout
      /\ seen'.throughout \subseteq Granting(request.route)
      /\ seen.removed => seen'.removed
      /\ seen.ever => seen'.ever
      /\ EntitledAsAsked(request)' => seen'.ever
  BY <1>1, <1>3, Watched, SameGranting
<1>5. Typed'
  BY <1>1, <1>2, <1>3 DEF AccessInv, Typed, storeVars
<1>6. \A time : Entitling(request.subs, time)' = Entitling(request.subs, time)
  BY <1>3 DEF Entitling, Entitles
<1>7. ReadSound'
  <2>1. seen'.throughout \subseteq Granting(request.route)'
    BY <1>1, <1>3, <1>4, SameGranting
  <2>2. \A granting : ReadOff(granting)' <=> ReadOff(granting)
    BY <1>3 DEF ReadOff, WithoutReplaced
  <2>3. Has("subscriptions")' <=> Has("subscriptions")
    BY <1>3 DEF Has
  <2>4. request.route = "entitlements" /\ Purchase \in seen'.throughout => request'.purchases
    BY <1>3, <1>4, PurchaseGrants
  <2>5. request.route = "entitlement" => KnowsPurchase'
    <3> SUFFICES ASSUME request.route = "entitlement" PROVE KnowsPurchase'
      OBVIOUS
    <3>1. KnowsPurchase /\ Has("subscriptions") /\ Entitling(request.subs, request.started) = {}
      BY <1>1 DEF AccessInv, ReadSound
    <3>2. seen'.throughout # {} /\ ~seen'.removed => bought
      BY <1>4, <3>1 DEF KnowsPurchase
    <3> QED
      BY <1>1, <1>3, <2>3, <3>1, <3>2 DEF KnowsPurchase
  <2> QED
    BY <1>1, <1>3, <1>4, <2>1, <2>2, <2>3, <2>4, <2>5 DEF ReadSound, AccessInv
<1>8. ToldSound'
  <2>1. request'.purchases => seen'.ever
    <3>1. bought => EntitledAsAsked(request)'
      <4>1. bought => Purchase \in Granting("entitlements")
        BY DEF Granting
      <4> QED
        BY <1>1, <1>3, <4>1, SameGranting DEF EntitledAsAsked
    <3> QED
      BY <1>3, <1>4, <3>1
  <2>2. \A time : LaterOn(time)' = LaterOn(time)
    BY <1>3, <1>6 DEF LaterOn, WithoutReplaced
  <2>3. Entitling(request.subs, request.started)' = Entitling(request.subs, request.started)
    BY <1>3 DEF Entitling, Entitles
  <2> QED
    BY <1>1, <1>3, <1>4, <2>1, <2>2, <2>3 DEF ToldSound, AccessInv, storeVars
<1> QED
  BY <1>3, <1>5, <1>7, <1>8 DEF AccessInv, EntitledIsTold, ToldWasEntitled

(* What every answer may use. *)
LEMMA Answering ==
    ASSUME StoreInv, AccessInv, Watch, request.at = "reading", NEW active, Tell(active)
    PROVE  /\ request' = [at |-> "answered", route |-> request.route, active |-> active]
           /\ seen'.throughout \subseteq seen.throughout
           /\ seen'.throughout \subseteq Granting(request.route)
           /\ seen.removed => seen'.removed
           /\ seen.ever => seen'.ever
           /\ active \in BOOLEAN => Typed'
           /\ now \in now..MaxTime /\ now \in Nat /\ request \in Reads
<1>1. /\ request' = [at |-> "answered", route |-> request.route, active |-> active]
      /\ UNCHANGED <<storeVars, bought, changes>>
  BY DEF Tell
<1>2. request'.at = "answered" /\ request'.route = request.route
  BY <1>1
<1>3. now \in now..MaxTime /\ now \in Nat /\ request \in Reads
  BY StoreFacts DEF StoreInv, AccessInv, Typed
<1>4. active \in BOOLEAN => request' \in Answers
  BY <1>1, <1>3 DEF Reads, Answers
<1>5. active \in BOOLEAN => Typed'
  BY <1>1, <1>2, <1>4 DEF AccessInv, Typed
<1> QED
  BY <1>1, <1>2, <1>3, <1>5, Watched, SameGranting

(* An answer is right if it is active whenever it must, and only if it may. *)
LEMMA AnswerKeeps ==
    ASSUME Typed', request'.at = "answered",
           seen'.throughout # {} /\ ~seen'.removed => request'.active,
           request'.active => seen'.ever
    PROVE  AccessInv'
BY DEF AccessInv, ReadSound, ToldSound, EntitledIsTold, ToldWasEntitled

(* What the route read still grants, if it did all along. *)
LEMMA StillGrants ==
    ASSUME AccessInv, request.at = "reading", Has("subscriptions"),
           request.route \in {"status", "entitlements"},
           NEW granting \in seen.throughout, granting # Purchase
    PROVE  \E tx \in Entitling(request.subs, now) :
              request.route = "status" => tx \in WithoutReplaced(request.subs)
<1>1. PICK tx \in Txs : /\ granting = <<tx, request.subs[tx]>>
                        /\ request.route = "status" => tx \in WithoutReplaced(request.subs)
  BY DEF AccessInv, ReadSound, ReadOff
<1>2. PICK other \in Txs : granting = <<other, rows[other]>> /\ other \in Entitling(rows, now)
  BY GrantingIs DEF AccessInv, ReadSound
<1>3. tx = other /\ request.subs[tx] = rows[tx]
  BY <1>1, <1>2
<1> QED
  BY <1>1, <1>2, <1>3 DEF Entitling, Entitles

(* /status answers from the rows it read. *)
LEMMA AnswerStatusKeeps ==
    ASSUME StoreInv, AccessInv, Watch, AnswerStatus
    PROVE  AccessInv'
<1>1. request.at = "reading" /\ request.route = "status" /\ Has("subscriptions")
      /\ Tell(ActiveByStatus(request.subs))
  BY DEF AnswerStatus, Reading
<1>2. PICK active : active = ActiveByStatus(request.subs)
  OBVIOUS
<1>3. active \in BOOLEAN
  BY <1>2 DEF ActiveByStatus
<1>4. seen'.throughout # {} => active
  <2> SUFFICES ASSUME NEW granting \in seen'.throughout PROVE active
    OBVIOUS
  <2>1. granting \in seen.throughout /\ granting \in Granting("status")
    BY <1>1, Answering
  <2>2. granting # Purchase
    BY <2>1, GrantingIs, NoTxAssumption DEF Purchase
  <2> QED
    BY <1>1, <1>2, <2>1, <2>2, StillGrants DEF ActiveByStatus
<1>5. active => seen'.ever
  <2>1. active => LaterOn(now) # {}
    BY <1>1, <1>2 DEF ActiveByStatus, LaterOn
  <2> QED
    BY <1>1, <2>1, Answering DEF AccessInv, ToldSound
<1> QED
  BY <1>1, <1>2, <1>3, <1>4, <1>5, Answering, AnswerKeeps

(* /entitlements answers from both reads. *)
LEMMA AnswerEntitlementsKeeps ==
    ASSUME StoreInv, AccessInv, Watch, AnswerEntitlements
    PROVE  AccessInv'
<1>1. request.at = "reading" /\ request.route = "entitlements"
      /\ Has("subscriptions") /\ Has("purchases")
      /\ Tell(Entitling(request.subs, now) # {} \/ request.purchases)
  BY DEF AnswerEntitlements, Reading, BatchTime
<1>2. PICK active : active = (Entitling(request.subs, now) # {} \/ request.purchases)
  OBVIOUS
<1>3. active \in BOOLEAN
  BY <1>2
<1>4. seen'.throughout # {} => active
  <2> SUFFICES ASSUME NEW granting \in seen'.throughout PROVE active
    OBVIOUS
  <2>1. granting \in seen.throughout
    BY <1>1, Answering
  <2>2. CASE granting = Purchase
    BY <1>1, <1>2, <2>1, <2>2 DEF AccessInv, ReadSound
  <2>3. CASE granting # Purchase
    BY <1>1, <1>2, <2>1, <2>3, StillGrants
  <2> QED
    BY <2>2, <2>3
<1>5. active => seen'.ever
  <2>1. Entitling(request.subs, now) = LaterOn(now)
    BY <1>1 DEF LaterOn
  <2> QED
    BY <1>1, <1>2, <2>1, Answering DEF AccessInv, ToldSound
<1>6. Tell(active)
  BY <1>1, <1>2
<1>7. Typed' /\ request'.at = "answered" /\ request'.active = active
  BY <1>1, <1>3, <1>6, Answering
<1> QED
  BY <1>4, <1>5, <1>7, AnswerKeeps

(* /entitlement answers as of its arrival. *)
LEMMA AnswerEntitlementKeeps ==
    ASSUME StoreInv, AccessInv, Watch, AnswerEntitlement
    PROVE  AccessInv'
<1>1. request.at = "reading" /\ request.route = "entitlement" /\ Has("subscriptions")
      /\ (Entitling(request.subs, request.started) # {} \/ Has("purchases"))
      /\ Tell(Entitling(request.subs, request.started) # {} \/ request.purchases)
  BY DEF AnswerEntitlement, Reading
<1>2. PICK active : active = (Entitling(request.subs, request.started) # {} \/ request.purchases)
  OBVIOUS
<1>3. active \in BOOLEAN
  BY <1>2
<1>4. seen'.throughout # {} /\ ~seen'.removed => active
  <2>1. seen'.throughout # {} /\ ~seen'.removed => seen.throughout # {} /\ ~seen.removed
    BY <1>1, Answering
  <2>2. KnowsPurchase
    BY <1>1 DEF AccessInv, ReadSound
  <2> QED
    BY <1>1, <1>2, <2>1, <2>2 DEF KnowsPurchase
<1>5. active => seen'.ever
  BY <1>1, <1>2, Answering DEF AccessInv, ToldSound
<1>6. Tell(active)
  BY <1>1, <1>2
<1>7. Typed' /\ request'.at = "answered" /\ request'.active = active
  BY <1>1, <1>3, <1>6, Answering
<1> QED
  BY <1>4, <1>5, <1>7, AnswerKeeps
-----------------------------------------------------------------------------
(* Division: days and the grid of the cache keys. *)
LEMMA Division ==
    ASSUME NEW a \in Nat, NEW n \in Nat \ {0}
    PROVE  /\ a \div n \in Nat /\ (a \div n) * n <= a /\ a < (a \div n) * n + n
OBVIOUS

(* The quotient is the only such number. *)
LEMMA Quotient ==
    ASSUME NEW a \in Nat, NEW n \in Nat \ {0}, NEW q \in Nat, q * n <= a, a < q * n + n
    PROVE  a \div n = q
OBVIOUS

(* A cell is known by where it starts. *)
LEMMA Cancel ==
    ASSUME NEW a \in Nat, NEW b \in Nat, NEW n \in Nat \ {0}, a * n < b * n
    PROVE  a < b
OBVIOUS

(* A day may be a whole number of TTLs, as it is for the default of 30 seconds. *)
LEMMA DayInTtls ==
    ASSUME Day % Ttl = 0
    PROVE  \E m \in Nat \ {0} : Day = m * Ttl
<1>1. Day \in Nat \ {0} /\ Ttl \in Nat \ {0} /\ Day % Ttl = 0
  BY MetricsAssumption
<1>2. Day = (Day \div Ttl) * Ttl + (Day % Ttl)
  BY <1>1
<1>3. PICK m : m = Day \div Ttl
  OBVIOUS
<1>4. m \in Nat /\ Day = m * Ttl
  BY <1>1, <1>2, <1>3
<1>5. m # 0
  BY <1>1, <1>4
<1> QED
  BY <1>4, <1>5

(* Times the keys do not tell apart are near. *)
LEMMA SameCell ==
    ASSUME NEW a \in Nat, NEW b \in Nat, QuantizeToWindow(a) = QuantizeToWindow(b)
    PROVE  Near(a, b)
<1>1. Ttl \in Nat \ {0}
  BY MetricsAssumption
<1>2. PICK q \in Nat : q = a \div Ttl /\ q * Ttl <= a /\ a < q * Ttl + Ttl
  BY <1>1, Division
<1>3. q * Ttl <= b /\ b < q * Ttl + Ttl
  BY <1>1, <1>2, Division DEF QuantizeToWindow
<1>4. PICK cell \in Nat : cell = q * Ttl
  BY <1>1
<1> QED
  BY <1>1, <1>2, <1>3, <1>4 DEF Near

(* If a day is a whole number of TTLs, they are of one day. *)
LEMMA SameDay ==
    ASSUME Day % Ttl = 0,
           NEW a \in Nat, NEW b \in Nat, QuantizeToWindow(a) = QuantizeToWindow(b)
    PROVE  UtcDay(a) = UtcDay(b)
<1>1. Day \in Nat \ {0} /\ Ttl \in Nat \ {0}
  BY MetricsAssumption
<1>2. PICK q \in Nat : q = a \div Ttl /\ q * Ttl <= a /\ a < q * Ttl + Ttl
  BY <1>1, Division
<1>3. q * Ttl <= b /\ b < q * Ttl + Ttl
  BY <1>1, <1>2, Division DEF QuantizeToWindow
<1>4. PICK m \in Nat \ {0} : Day = m * Ttl
  BY DayInTtls
<1>5. PICK d \in Nat : d = a \div Day /\ d * Day <= a /\ a < d * Day + Day
  BY <1>1, Division
<1>6. d * m <= q
  <2>1. (d * m) * Ttl = d * Day
    BY <1>1, <1>4
  <2>2. (d * m) * Ttl < (q + 1) * Ttl
    BY <1>1, <1>2, <1>5, <2>1
  <2>3. d * m < q + 1
    BY <1>1, <2>2, Cancel
  <2> QED
    BY <2>3
<1>7. q + 1 <= (d + 1) * m
  <2>1. ((d + 1) * m) * Ttl = d * Day + Day
    BY <1>1, <1>4
  <2>2. q * Ttl < ((d + 1) * m) * Ttl
    BY <1>1, <1>2, <1>5, <2>1
  <2>3. q < (d + 1) * m
    BY <1>1, <2>2, Cancel
  <2> QED
    BY <2>3
<1>8. d * Day <= b
  <2>1. (d * m) * Ttl <= q * Ttl
    BY <1>1, <1>6
  <2> QED
    BY <1>1, <1>3, <1>4, <2>1
<1>9. b < d * Day + Day
  <2>1. (q + 1) * Ttl <= ((d + 1) * m) * Ttl
    BY <1>1, <1>7
  <2>2. ((d + 1) * m) * Ttl = d * Day + Day
    BY <1>1, <1>4
  <2> QED
    BY <1>1, <1>3, <2>1, <2>2
<1> QED
  BY <1>1, <1>5, <1>8, <1>9, Quotient DEF UtcDay

(* A daily series has every day of its window: the loop stops at none of them. *)
LEMMA EveryDay ==
    ASSUME NEW from \in Nat, NEW to \in Nat
    PROVE  DaysOf(from, to) = UtcDay(from)..UtcDay(to)
<1>1. Day \in Nat \ {0}
  BY MetricsAssumption
<1>2. UtcDay(from) \in Nat /\ UtcDay(to) \in Nat /\ UtcDay(to) * Day <= to
  BY <1>1, Division DEF UtcDay
<1>3. ASSUME NEW d \in UtcDay(from)..UtcDay(to) PROVE d * Day <= to
  <2>1. d \in Nat /\ d <= UtcDay(to)
    BY <1>2
  <2>2. d * Day <= UtcDay(to) * Day
    BY <1>1, <1>2, <2>1
  <2> QED
    BY <1>1, <1>2, <2>1, <2>2
<1> QED
  BY <1>3 DEF DaysOf

(* Days begin at their multiples. *)
LEMMA DayBegins ==
    ASSUME NEW d \in Nat, NEW t \in Nat
    PROVE  (d <= UtcDay(t) => d * Day <= t) /\ (UtcDay(t) < d => t < d * Day)
<1>1. Day \in Nat \ {0}
  BY MetricsAssumption
<1>2. PICK q \in Nat : q = UtcDay(t) /\ q * Day <= t /\ t < q * Day + Day
  BY <1>1, Division DEF UtcDay
<1>3. ASSUME d <= q PROVE d * Day <= t
  <2>1. d * Day <= q * Day
    BY <1>1, <1>3
  <2> QED
    BY <1>1, <1>2, <2>1
<1>4. ASSUME q < d PROVE t < d * Day
  <2>1. (q + 1) * Day <= d * Day
    BY <1>1, <1>4
  <2>2. (q + 1) * Day = q * Day + Day
    BY <1>1
  <2> QED
    BY <1>1, <1>2, <2>1, <2>2
<1> QED
  BY <1>2, <1>3, <1>4

(* Windows with near ends touch the same days, but for days at their edges. *)
LEMMA DaysNear ==
    ASSUME NEW v, NEW w, v[1] \in Nat, v[2] \in Nat, w[1] \in Nat, w[2] \in Nat,
           Near(v[1], w[1]), Near(v[2], w[2]), NEW d \in Days(v) \cup Days(w)
    PROVE  d \in Days(v) \cap Days(w) \/ AtTheEdge(d, w)
<1>1. /\ Day \in Nat \ {0} /\ Ttl \in Nat \ {0}
      /\ UtcDay(v[1]) \in Nat /\ UtcDay(v[2]) \in Nat
      /\ UtcDay(w[1]) \in Nat /\ UtcDay(w[2]) \in Nat
  BY MetricsAssumption, Division DEF UtcDay
<1>2. d \in Nat /\ d + 1 \in Nat /\ d * Day \in Nat /\ (d + 1) * Day \in Nat
  BY <1>1 DEF Days
<1>3. CASE d < UtcDay(w[1])
  <2>1. d + 1 <= UtcDay(w[1]) /\ UtcDay(v[1]) < d + 1
    BY <1>1, <1>2, <1>3 DEF Days
  <2>2. (d + 1) * Day <= w[1] /\ v[1] < (d + 1) * Day
    BY <1>2, <2>1, DayBegins
  <2> QED
    BY <1>1, <1>2, <2>2 DEF Near, AtTheEdge
<1>4. CASE UtcDay(w[2]) < d
  <2>1. d <= UtcDay(v[2])
    BY <1>1, <1>2, <1>4 DEF Days
  <2>2. w[2] < d * Day /\ d * Day <= v[2]
    BY <1>2, <1>4, <2>1, DayBegins
  <2> QED
    BY <1>1, <1>2, <2>2 DEF Near, AtTheEdge
<1>5. CASE d \in Days(w) /\ d < UtcDay(v[1])
  <2>1. d + 1 <= UtcDay(v[1]) /\ UtcDay(w[1]) < d + 1
    BY <1>1, <1>2, <1>5 DEF Days
  <2>2. (d + 1) * Day <= v[1] /\ w[1] < (d + 1) * Day
    BY <1>2, <2>1, DayBegins
  <2> QED
    BY <1>1, <1>2, <2>2 DEF Near, AtTheEdge
<1>6. CASE d \in Days(w) /\ UtcDay(v[2]) < d
  <2>1. d <= UtcDay(w[2])
    BY <1>1, <1>2, <1>6 DEF Days
  <2>2. v[2] < d * Day /\ d * Day <= w[2]
    BY <1>2, <1>6, <2>1, DayBegins
  <2> QED
    BY <1>1, <1>2, <2>2 DEF Near, AtTheEdge
<1> QED
  BY <1>1, <1>2, <1>3, <1>4, <1>5, <1>6 DEF Days
-----------------------------------------------------------------------------
(* The routes that count. *)

IsQuestion(asked) ==
    \/ asked.route \in WindowedRoutes /\ asked.window \in Windows /\ asked.groupBy \in GroupBys
    \/ /\ asked.route = "active" /\ asked.groupBy = "none"
       /\ asked.window[1] \in Nat /\ asked.window[2] = asked.window[1]

KeyOf(asked) == IF asked.route = "active" THEN ActiveKey(asked.window[1])
                ELSE RangeKey(asked.route, asked.window, asked.groupBy)

HasDays(counts, asked) ==
    asked.groupBy = "day" => DOMAIN counts.buckets = DaysOf(asked.window[1], asked.window[2])

(* Counts were taken during the work that a question began. *)
TakenFor(of, taken, ended) ==
    /\ of.time \in Nat /\ taken \in Nat /\ ended \in Nat
    /\ of.time <= taken /\ taken <= ended
    /\ of.route = "active" => of.window[1] = taken

(* An entry is of the question its key stands for, and as old as it says. *)
CountsSound(e) ==
    /\ IsQuestion(e.of) /\ e.key = KeyOf(e.of)
    /\ HasDays(e.counts, e.of)
    /\ TakenFor(e.of, e.taken, e.ended)
    /\ e.expires = e.ended + Ttl

CacheSound == \A e \in cache : CountsSound(e)

Asking ==
    request.at \in {"scanning", "scanned", "halves"} =>
        /\ IsQuestion(request.asked) /\ request.key = KeyOf(request.asked)
        /\ request.asked.time \in Nat /\ request.asked.time <= now
        /\ request.at = "scanning" => request.asked.route # "active"
        /\ request.at = "scanned" => /\ HasDays(request.counts, request.asked)
                                     /\ TakenFor(request.asked, request.taken, now)
        /\ request.at = "halves" => /\ request.asked.route = "active"
                                    /\ request.asked.window[1] = request.asked.time

MetricsInv ==
    /\ CacheSound /\ Asking /\ AnswersTheQuestion
    /\ Day % Ttl = 0 => DaysAsAsked

(* Either window is one of times. *)
LEMMA QuestionTimes ==
    ASSUME NEW asked, IsQuestion(asked)
    PROVE  asked.window[1] \in Nat /\ asked.window[2] \in Nat
BY MetricsAssumption DEF IsQuestion

(* Questions with one key are of one kind, and of near times. *)
LEMMA SameKey ==
    ASSUME NEW a, NEW b, IsQuestion(a), IsQuestion(b), KeyOf(a) = KeyOf(b)
    PROVE  /\ a.route = b.route /\ a.groupBy = b.groupBy
           /\ Near(a.window[1], b.window[1]) /\ Near(a.window[2], b.window[2])
           /\ Day % Ttl = 0 => Days(a.window) = Days(b.window)
<1>1. /\ a.window[1] \in Nat /\ a.window[2] \in Nat
      /\ b.window[1] \in Nat /\ b.window[2] \in Nat
  BY QuestionTimes
<1>2. a.route = b.route /\ a.groupBy = b.groupBy
  BY DEF IsQuestion, KeyOf, ActiveKey, RangeKey, WindowedRoutes
<1>3. /\ QuantizeToWindow(a.window[1]) = QuantizeToWindow(b.window[1])
      /\ QuantizeToWindow(a.window[2]) = QuantizeToWindow(b.window[2])
  BY <1>2 DEF IsQuestion, KeyOf, ActiveKey, RangeKey, WindowedRoutes
<1> QED
  BY <1>1, <1>2, <1>3, SameCell, SameDay DEF Days

(* What is told to a question from counts taken for another of the same key. *)
LEMMA ToldAnswers ==
    ASSUME request'.at = "told", IsQuestion(request'.asked), IsQuestion(request'.of),
           KeyOf(request'.of) = KeyOf(request'.asked), HasDays(request'.counts, request'.of),
           TakenFor(request'.of, request'.taken, request'.ended),
           request'.asked.time <= request'.ended + Ttl,
           request'.asked.route = "active" => request'.asked.time <= request'.taken + Ttl
    PROVE  Asking' /\ AnswersTheQuestion' /\ (Day % Ttl = 0 => DaysAsAsked')
<1>1. /\ request'.of.route = request'.asked.route /\ request'.of.groupBy = request'.asked.groupBy
      /\ Near(request'.of.window[1], request'.asked.window[1])
      /\ Near(request'.of.window[2], request'.asked.window[2])
      /\ Day % Ttl = 0 => Days(request'.of.window) = Days(request'.asked.window)
  BY SameKey
<1>2. /\ request'.of.window[1] \in Nat /\ request'.of.window[2] \in Nat
      /\ request'.asked.window[1] \in Nat /\ request'.asked.window[2] \in Nat
  BY QuestionTimes
<1>3. request'.asked.groupBy = "day" => DOMAIN request'.counts.buckets = Days(request'.of.window)
  BY <1>1, <1>2, EveryDay DEF HasDays, Days
<1>4. \A d \in Days(request'.of.window) \cup Days(request'.asked.window) :
         \/ d \in Days(request'.of.window) \cap Days(request'.asked.window)
         \/ AtTheEdge(d, request'.asked.window)
  BY <1>1, <1>2, DaysNear
<1>5. Asking'
  BY DEF Asking
<1>6. AnswersTheQuestion'
  BY <1>1, <1>3, <1>4 DEF AnswersTheQuestion, TakenFor
<1>7. Day % Ttl = 0 => DaysAsAsked'
  BY <1>1, <1>3 DEF DaysAsAsked
<1> QED
  BY <1>5, <1>6, <1>7

(* A question comes: a fresh entry under its key answers it. *)
LEMMA AskKeeps ==
    ASSUME StoreInv, MetricsInv, UNCHANGED now, NEW asked, IsQuestion(asked), asked.time = now,
           NEW first, first.at \in {"scanning", "halves"}, first.asked = asked,
           first.key = KeyOf(asked), Ask(KeyOf(asked), asked, first),
           first.at = "scanning" => asked.route # "active",
           first.at = "halves" => asked.route = "active" /\ asked.window[1] = now
    PROVE  MetricsInv'
<1>1. now \in Nat /\ Ttl \in Nat
  BY StoreFacts, MetricsAssumption DEF StoreInv
<1>2. cache' \subseteq cache
  BY DEF Ask, Got
<1>3. CacheSound'
  <2>1. \A e : CountsSound(e)' <=> CountsSound(e)
    BY DEF CountsSound
  <2> QED
    BY <1>2, <2>1 DEF MetricsInv, CacheSound
<1>4. CASE request' = first
  <2>1. Asking'
    BY <1>1, <1>4 DEF Asking
  <2>2. AnswersTheQuestion' /\ DaysAsAsked'
    BY <1>4 DEF AnswersTheQuestion, DaysAsAsked
  <2> QED
    BY <1>3, <2>1, <2>2 DEF MetricsInv
<1>5. ASSUME NEW e \in Hits(KeyOf(asked)), request' = Told(asked, e)
      PROVE  MetricsInv'
  <2>1. /\ request'.at = "told" /\ request'.asked = asked /\ request'.counts = e.counts
        /\ request'.of = e.of /\ request'.taken = e.taken /\ request'.ended = e.ended
    BY <1>5 DEF Told
  <2>2. /\ e \in cache /\ KeyOf(e.of) = KeyOf(asked) /\ e.expires >= now
        /\ IsQuestion(e.of) /\ HasDays(e.counts, e.of) /\ TakenFor(e.of, e.taken, e.ended)
        /\ e.expires = e.ended + Ttl
    BY DEF Hits, Fresh, MetricsInv, CacheSound, CountsSound
  <2>3. asked.time <= e.ended + Ttl
    BY <1>1, <2>2 DEF TakenFor
  <2>4. asked.route = "active" => asked.time <= e.taken + Ttl
    <3>1. SUFFICES ASSUME asked.route = "active"
                   PROVE  asked.time <= e.taken + Ttl
      OBVIOUS
    <3>2. e.of.route = "active" /\ Near(e.of.window[1], asked.window[1])
      BY <2>2, <3>1, SameKey
    <3>3. e.of.window[1] = e.taken /\ asked.window[1] = now
      BY <2>2, <3>1, <3>2 DEF TakenFor
    <3> QED
      BY <1>1, <2>2, <3>2, <3>3 DEF Near, TakenFor
  <2> QED
    BY <1>3, <2>1, <2>2, <2>3, <2>4, ToldAnswers DEF MetricsInv
<1> QED
  BY <1>4, <1>5 DEF Ask, MetricsInv

(* A windowed route is asked. *)
LEMMA AskRangeKeeps ==
    ASSUME StoreInv, MetricsInv, UNCHANGED now, NEW route \in WindowedRoutes,
           NEW window \in Windows, NEW groupBy \in GroupBys, AskRange(route, window, groupBy)
    PROVE  MetricsInv'
<1>1. PICK asked : asked = Asked(route, window, groupBy)
  OBVIOUS
<1>2. /\ asked.route = route /\ asked.window = window /\ asked.groupBy = groupBy /\ asked.time = now
      /\ route # "active"
  BY <1>1 DEF Asked, WindowedRoutes
<1>3. IsQuestion(asked) /\ KeyOf(asked) = RangeKey(route, window, groupBy)
  BY <1>2 DEF IsQuestion, KeyOf
<1>4. PICK first : first = [at |-> "scanning", asked |-> asked, key |-> KeyOf(asked)]
  OBVIOUS
<1>5. first.at = "scanning" /\ first.asked = asked /\ first.key = KeyOf(asked)
  BY <1>4
<1>6. Ask(KeyOf(asked), asked, first)
  BY <1>1, <1>3, <1>4 DEF AskRange
<1> QED
  BY <1>2, <1>3, <1>5, <1>6, AskKeeps

(* /metrics/active is asked. *)
LEMMA AskActiveKeeps ==
    ASSUME StoreInv, MetricsInv, UNCHANGED now, AskActive
    PROVE  MetricsInv'
<1>0. now \in Nat
  BY StoreFacts DEF StoreInv
<1>1. PICK asked : asked = Asked("active", <<now, now>>, "none")
  OBVIOUS
<1>2. /\ asked.route = "active" /\ asked.window = <<now, now>> /\ asked.groupBy = "none"
      /\ asked.time = now
  BY <1>1 DEF Asked
<1>3. IsQuestion(asked) /\ KeyOf(asked) = ActiveKey(now) /\ asked.window[1] = now
  BY <1>0, <1>2 DEF IsQuestion, KeyOf
<1>4. PICK first : first = [at |-> "halves", asked |-> asked, key |-> KeyOf(asked),
                            halves |-> [h \in {} |-> {}]]
  OBVIOUS
<1>5. first.at = "halves" /\ first.asked = asked /\ first.key = KeyOf(asked)
  BY <1>4
<1>6. Ask(KeyOf(asked), asked, first)
  BY <1>1, <1>3, <1>4 DEF AskActive
<1> QED
  BY <1>2, <1>3, <1>5, <1>6, AskKeeps

(* What is told from counts just taken, and the entry it leaves. *)
LEMMA TellAndCacheKeeps ==
    ASSUME StoreInv, MetricsInv, UNCHANGED now, NEW counts, NEW taken,
           request.at \in {"scanned", "halves"}, HasDays(counts, request.asked),
           TakenFor(request.asked, taken, now), TellAndCache(counts, taken)
    PROVE  MetricsInv'
<1>1. PICK asked : asked = request.asked
  OBVIOUS
<1>2. /\ IsQuestion(asked) /\ request.key = KeyOf(asked) /\ HasDays(counts, asked)
      /\ TakenFor(asked, taken, now) /\ now \in Nat /\ Ttl \in Nat
  BY <1>1, StoreFacts, MetricsAssumption DEF MetricsInv, Asking, StoreInv
<1>3. PICK put : put = [key |-> request.key, of |-> request.asked, counts |-> counts,
                        taken |-> taken, ended |-> now, expires |-> now + Ttl]
  OBVIOUS
<1>4. /\ put.key = KeyOf(asked) /\ put.of = asked /\ put.counts = counts
      /\ put.taken = taken /\ put.ended = now /\ put.expires = now + Ttl
  BY <1>1, <1>2, <1>3
<1>5. cache' = Put(put) /\ request' = Told(asked, put)
  BY <1>1, <1>3 DEF TellAndCache
<1>6. CacheSound'
  <2>1. \A e : CountsSound(e)' <=> CountsSound(e)
    BY DEF CountsSound
  <2>2. CountsSound(put)
    BY <1>2, <1>4 DEF CountsSound
  <2>3. \A e \in cache' : e \in cache \/ e = put
    BY <1>5 DEF Put
  <2> QED
    BY <2>1, <2>2, <2>3 DEF MetricsInv, CacheSound
<1>7. /\ request'.at = "told" /\ request'.asked = asked /\ request'.counts = counts
      /\ request'.of = asked /\ request'.taken = taken /\ request'.ended = now
  BY <1>4, <1>5 DEF Told
<1>8. asked.time <= now + Ttl /\ asked.time <= taken + Ttl
  BY <1>2 DEF TakenFor
<1> QED
  BY <1>2, <1>6, <1>7, <1>8, ToldAnswers DEF MetricsInv

(* Both paths fill the series from the same days. *)
LEMMA Series ==
    ASSUME NEW records, NEW route, NEW window
    PROVE  /\ DOMAIN AggregateRange(records, route, window, "day").buckets = DaysOf(window[1], window[2])
           /\ DOMAIN AggregateViaSql(records, route, window, "day").buckets = DaysOf(window[1], window[2])
<1>1. ASSUME NEW total, NEW byProduct, NEW byPlatform, NEW buckets
      PROVE  [total |-> total, byProduct |-> byProduct, byPlatform |-> byPlatform,
              buckets |-> buckets].buckets = buckets
  OBVIOUS
<1>2. DOMAIN AggregateRange(records, route, window, "day").buckets = DaysOf(window[1], window[2])
  BY <1>1, Zenon DEF AggregateRange
<1>3. DOMAIN AggregateViaSql(records, route, window, "day").buckets = DaysOf(window[1], window[2])
  BY <1>1, Zenon DEF AggregateViaSql, RangeOf
<1> QED
  BY <1>2, <1>3

(* The counts of a window are taken. *)
LEMMA ScanKeeps ==
    ASSUME StoreInv, MetricsInv, UNCHANGED now, Scan
    PROVE  MetricsInv'
<1>1. PICK records : records = IF request.asked.route = "purchases-started" THEN Purchases ELSE Subscriptions
  OBVIOUS
<1>2. PICK asked : asked = request.asked
  OBVIOUS
<1>3. PICK counts \in {AggregateRange(records, asked.route, asked.window, asked.groupBy),
                       AggregateViaSql(records, asked.route, asked.window, asked.groupBy)} :
         /\ request.at = "scanning" /\ UNCHANGED cache
         /\ request' = [at |-> "scanned", asked |-> asked, key |-> request.key,
                        counts |-> counts, taken |-> now]
  BY <1>1, <1>2 DEF Scan
<1>4. HasDays(counts, asked)
  BY <1>3, Series DEF HasDays
<1>5. /\ IsQuestion(asked) /\ request.key = KeyOf(asked) /\ asked.route # "active"
      /\ asked.time \in Nat /\ asked.time <= now /\ now \in Nat
  BY <1>2, <1>3, StoreFacts DEF StoreInv, MetricsInv, Asking
<1>6. /\ request'.at = "scanned" /\ request'.asked = asked /\ request'.key = request.key
      /\ request'.counts = counts /\ request'.taken = now
  BY <1>3
<1>7. Asking'
  BY <1>4, <1>5, <1>6 DEF Asking, TakenFor
<1>8. AnswersTheQuestion' /\ DaysAsAsked'
  BY <1>6 DEF AnswersTheQuestion, DaysAsAsked
<1>9. CacheSound'
  <2>1. \A e : CountsSound(e)' <=> CountsSound(e)
    BY DEF CountsSound
  <2> QED
    BY <1>3, <2>1 DEF MetricsInv, CacheSound
<1> QED
  BY <1>7, <1>8, <1>9 DEF MetricsInv

(* They arrive. *)
LEMMA ScanReturnsKeeps ==
    ASSUME StoreInv, MetricsInv, UNCHANGED now, ScanReturns
    PROVE  MetricsInv'
<1>1. request.at = "scanned" /\ TellAndCache(request.counts, request.taken)
  BY DEF ScanReturns
<1>2. HasDays(request.counts, request.asked) /\ TakenFor(request.asked, request.taken, now)
  BY <1>1 DEF MetricsInv, Asking
<1> QED
  BY <1>1, <1>2, TellAndCacheKeeps

(* The two halves are put together. *)
LEMMA ComposeKeeps ==
    ASSUME StoreInv, MetricsInv, UNCHANGED now, Compose
    PROVE  MetricsInv'
<1>1. PICK counts : request.at = "halves" /\ TellAndCache(counts, request.asked.time)
  BY DEF Compose
<1>2. now \in Nat
  BY StoreFacts DEF StoreInv
<1>3. HasDays(counts, request.asked) /\ TakenFor(request.asked, request.asked.time, now)
  BY <1>1, <1>2 DEF MetricsInv, Asking, IsQuestion, HasDays, TakenFor, WindowedRoutes
<1> QED
  BY <1>1, <1>3, TellAndCacheKeeps

(* One half is in. *)
LEMMA ReadHalfKeeps ==
    ASSUME StoreInv, MetricsInv, UNCHANGED now, NEW half, ReadHalf(half)
    PROVE  MetricsInv'
<1>1. PICK halves : /\ request.at = "halves" /\ UNCHANGED cache
                    /\ request' = [request EXCEPT !.halves = halves]
  BY DEF ReadHalf
<1>2. request'.at = request.at /\ request'.asked = request.asked /\ request'.key = request.key
  BY <1>1
<1>3. Asking'
  BY <1>1, <1>2 DEF MetricsInv, Asking
<1>4. AnswersTheQuestion' /\ DaysAsAsked'
  BY <1>1, <1>2 DEF AnswersTheQuestion, DaysAsAsked
<1>5. CacheSound'
  <2>1. \A e : CountsSound(e)' <=> CountsSound(e)
    BY DEF CountsSound
  <2> QED
    BY <1>1, <2>1 DEF MetricsInv, CacheSound
<1> QED
  BY <1>3, <1>4, <1>5 DEF MetricsInv

(* What the routes that count do not take part in. *)
LEMMA MetricsStand ==
    ASSUME StoreInv, MetricsInv, StoreInv', now <= now', UNCHANGED cache,
           UNCHANGED request \/ request'.at \notin {"scanning", "scanned", "halves", "told"}
    PROVE  MetricsInv'
<1>1. CacheSound'
  <2>1. \A e : CountsSound(e)' <=> CountsSound(e)
    BY DEF CountsSound
  <2> QED
    BY <2>1 DEF MetricsInv, CacheSound
<1>2. now \in Nat /\ now' \in Nat
  BY StoreFacts DEF StoreInv, StoreTypeOK
<1>3. Asking'
  BY <1>2 DEF MetricsInv, Asking, TakenFor
<1>4. AnswersTheQuestion' /\ (Day % Ttl = 0 => DaysAsAsked')
  BY DEF MetricsInv, AnswersTheQuestion, DaysAsAsked
<1> QED
  BY <1>1, <1>3, <1>4 DEF MetricsInv
-----------------------------------------------------------------------------
IInv == StoreInv /\ AccessInv /\ MetricsInv

(* The initial state has the invariant. *)
LEMMA Starts == ReadsInit => IInv
<1> SUFFICES ASSUME ReadsInit PROVE IInv
  OBVIOUS
<1>1. StoreInv
  BY StoreStarts DEF ReadsInit, Init
<1>2. request.at = "idle" /\ bought = FALSE /\ changes = 0 /\ cache = {}
  BY DEF ReadsInit, Init, Idle
<1>3. request.at \notin {"reading", "answered"} /\ bought \in BOOLEAN /\ changes \in 0..MaxPurchases
  <2>1. bought \in BOOLEAN
    BY <1>2, Zenon
  <2>2. changes \in 0..MaxPurchases
    BY <1>2, NoTxAssumption
  <2>3. request.at \notin {"reading", "answered"}
    BY <1>2
  <2> QED
    BY <2>1, <2>2, <2>3
<1>4. AccessInv
  BY <1>3, ElsewhereHolds
<1>5. MetricsInv
  BY <1>2 DEF MetricsInv, CacheSound, Asking, AnswersTheQuestion, DaysAsAsked
<1> QED
  BY <1>1, <1>5, <1>4 DEF IInv

(* The clock never goes back. *)
LEMMA ClockGoesOn ==
    ASSUME StoreInv, StoreNext \/ UNCHANGED storeVars
    PROVE  now <= now'
<1>1. now \in Nat
  BY StoreFacts DEF StoreInv
<1>2. now' = now \/ now' = now + 1
  BY DEF StoreNext, storeVars, Save, InitSchema, RunGuarded, ColumnsSeen, ColumnsMissing, RunLegacy,
     QueryFails, RunDdl, SchemaReady, ApplySchemaByHand, Tick
<1> QED
  BY <1>1, <1>2

(* The routes that tell of access. *)
LEMMA RouteKeeps ==
    ASSUME IInv, RouteNext, Watch, UNCHANGED metricsVars
    PROVE  IInv'
<1>0. StoreInv /\ AccessInv /\ MetricsInv /\ UNCHANGED cache /\ bought \in BOOLEAN
      /\ changes \in 0..MaxPurchases
  BY DEF IInv, metricsVars, AccessInv, Typed
<1>1. UNCHANGED storeVars
  BY DEF RouteNext, BuyOrRefund, Arrive, ReadSubscriptions, ReadPurchases, AnswerStatus,
     AnswerEntitlement, AnswerEntitlements, Tell, StoreError, Return
<1>2. StoreInv' /\ now <= now'
  BY <1>0, <1>1, StoreSteps, ClockGoesOn
<1>3. CASE BuyOrRefund
  <2>1. bought' \in BOOLEAN /\ changes' \in 0..MaxPurchases /\ UNCHANGED request
    BY <1>0, <1>3, NoTxAssumption DEF BuyOrRefund
  <2> QED
    BY <1>0, <1>2, <2>1, RequestStays, MetricsStand DEF IInv
<1>4. ASSUME NEW route \in Routes, Arrive(route) PROVE IInv'
  <2>1. request'.at = "reading"
    BY <1>4 DEF Arrive
  <2> QED
    BY <1>0, <1>2, <1>4, <2>1, ArriveKeeps, MetricsStand DEF IInv
<1>5. CASE ReadSubscriptions \/ ReadPurchases
  <2>1. request'.at = "reading"
    <3>1. request.at = "reading" /\ request \in Reads
      BY <1>0, <1>5 DEF ReadSubscriptions, ReadPurchases, MayReadPurchases, Reading, AccessInv, Typed
    <3> QED
      BY <1>5, <3>1 DEF ReadSubscriptions, ReadPurchases, Reads
  <2> QED
    BY <1>0, <1>2, <1>5, <2>1, ReadSubscriptionsKeeps, ReadPurchasesKeeps, MetricsStand DEF IInv
<1>6. CASE AnswerStatus \/ AnswerEntitlement \/ AnswerEntitlements
  <2>1. request'.at = "answered"
    BY <1>6 DEF AnswerStatus, AnswerEntitlement, AnswerEntitlements, Tell
  <2> QED
    BY <1>0, <1>2, <1>6, <2>1, AnswerStatusKeeps, AnswerEntitlementKeeps, AnswerEntitlementsKeeps,
       MetricsStand DEF IInv
<1>7. CASE StoreError \/ Return
  <2>1. request'.at = "idle" /\ UNCHANGED <<bought, changes>>
    BY <1>7 DEF StoreError, Return, Idle
  <2> QED
    BY <1>0, <1>2, <2>1, ElsewhereKeeps, MetricsStand DEF IInv
<1> QED
  BY <1>3, <1>4, <1>5, <1>6, <1>7 DEF RouteNext

(* The routes that count. *)
LEMMA CountKeeps ==
    ASSUME IInv, MetricsNext, Watch, UNCHANGED <<storeVars, bought, changes>>
    PROVE  IInv'
<1>0. StoreInv /\ AccessInv /\ MetricsInv /\ UNCHANGED now /\ bought' \in BOOLEAN
      /\ changes' \in 0..MaxPurchases
  BY DEF IInv, storeVars, AccessInv, Typed
<1>2. StoreInv' /\ now <= now'
  BY <1>0, StoreSteps, ClockGoesOn
<1>3. MetricsInv'
  <2>1. CASE EndMetrics
    <3>1. request'.at = "idle" /\ UNCHANGED cache
      BY <2>1 DEF EndMetrics, Idle
    <3> QED
      BY <1>0, <1>2, <3>1, MetricsStand
  <2> QED
    BY <1>0, <2>1, AskRangeKeeps, AskActiveKeeps, ScanKeeps, ScanReturnsKeeps, ComposeKeeps,
       ReadHalfKeeps
       DEF MetricsNext
<1>4. request'.at \notin {"reading", "answered"}
  <2>1. \A asked, e : Told(asked, e).at = "told"
    BY DEF Told
  <2>2. ASSUME NEW key, NEW asked, NEW first, first.at \in {"scanning", "halves"}, Ask(key, asked, first)
        PROVE  request'.at \notin {"reading", "answered"}
    BY <2>1, <2>2 DEF Ask
  <2>3. ASSUME NEW route \in WindowedRoutes, NEW window \in Windows, NEW groupBy \in GroupBys,
               AskRange(route, window, groupBy)
        PROVE  request'.at \notin {"reading", "answered"}
    <3>1. PICK asked, key, first : first.at = "scanning" /\ Ask(key, asked, first)
      BY <2>3 DEF AskRange
    <3> QED
      BY <2>2, <3>1
  <2>4. CASE AskActive
    <3>1. PICK asked, key, first : first.at = "halves" /\ Ask(key, asked, first)
      BY <2>4 DEF AskActive
    <3> QED
      BY <2>2, <3>1
  <2>5. ASSUME NEW half, ReadHalf(half) PROVE request'.at \notin {"reading", "answered"}
    <3>1. PICK halves : request.at = "halves" /\ request' = [request EXCEPT !.halves = halves]
      BY <2>5 DEF ReadHalf
    <3>2. request'.at = request.at
      BY <3>1
    <3> QED
      BY <3>1, <3>2
  <2>6. CASE ScanReturns \/ Compose
    <3>1. PICK counts, taken : TellAndCache(counts, taken)
      BY <2>6 DEF ScanReturns, Compose
    <3> QED
      BY <2>1, <3>1 DEF TellAndCache
  <2>7. CASE Scan
    BY <2>7 DEF Scan
  <2>8. CASE EndMetrics
    BY <2>8 DEF EndMetrics, Idle
  <2> QED
    BY <2>3, <2>4, <2>5, <2>6, <2>7, <2>8 DEF MetricsNext
<1> QED
  BY <1>0, <1>2, <1>3, <1>4, ElsewhereKeeps DEF IInv

(* Every step keeps it. *)
LEMMA Steps == IInv /\ [ReadsNext]_readsVars => IInv'
<1> SUFFICES ASSUME IInv, [ReadsNext]_readsVars PROVE IInv'
  OBVIOUS
<1>1. CASE RouteNext /\ Watch /\ UNCHANGED metricsVars
  BY <1>1, RouteKeeps
<1>2. CASE StoreNext /\ UNCHANGED <<bought, changes, request>> /\ Watch /\ UNCHANGED metricsVars
  <2>1. StoreInv /\ AccessInv /\ MetricsInv /\ UNCHANGED <<cache, request>> /\ bought' \in BOOLEAN
        /\ changes' \in 0..MaxPurchases
    BY <1>2 DEF IInv, metricsVars, AccessInv, Typed
  <2>2. StoreInv' /\ now <= now'
    BY <1>2, <2>1, StoreSteps, ClockGoesOn
  <2> QED
    BY <1>2, <2>1, <2>2, RequestStays, MetricsStand DEF IInv
<1>3. CASE MetricsNext /\ UNCHANGED <<storeVars, bought, changes>> /\ Watch
  BY <1>3, CountKeeps
<1>4. CASE UNCHANGED readsVars
  <2>1. UNCHANGED <<storeVars, bought, changes, request, seen, cache>>
    BY <1>4 DEF readsVars, vars, readVars, metricsVars
  <2>2. StoreInv /\ AccessInv /\ MetricsInv
    BY DEF IInv
  <2>3. StoreInv' /\ now <= now'
    BY <2>1, <2>2, StoreSteps, ClockGoesOn
  <2>4. AccessInv'
    <3>1. \A granting : ReadOff(granting)' <=> ReadOff(granting)
      BY <2>1 DEF ReadOff, WithoutReplaced
    <3>2. KnowsPurchase' <=> KnowsPurchase
      BY <2>1 DEF KnowsPurchase, Has, Entitling, Entitles
    <3>3. Granting(request.route)' = Granting(request.route)
      BY <2>1, SameGranting
    <3>4. ReadSound'
      BY <2>1, <2>2, <3>1, <3>2, <3>3 DEF AccessInv, ReadSound, Has
    <3>5. /\ \A time : LaterOn(time)' = LaterOn(time)
          /\ Entitling(request.subs, request.started)' = Entitling(request.subs, request.started)
      BY <2>1 DEF LaterOn, WithoutReplaced, Entitling, Entitles
    <3>6. ToldSound'
      BY <2>1, <2>2, <3>5 DEF AccessInv, ToldSound, storeVars
    <3> QED
      BY <2>1, <2>2, <3>4, <3>6 DEF AccessInv, Typed, EntitledIsTold, ToldWasEntitled, storeVars
  <2>5. MetricsInv'
    BY <2>1, <2>2, <2>3, MetricsStand
  <2> QED
    BY <2>3, <2>4, <2>5 DEF IInv
<1> QED
  BY <1>1, <1>2, <1>3, <1>4 DEF ReadsNext, Next

(* The inductive invariant holds. *)
LEMMA Invariance == ReadsSpec => []IInv
<1> QED
  BY Starts, Steps, PTL DEF ReadsSpec

(* Every variable of the stores, and of the requests for access, keeps its type. *)
THEOREM ReadsTypeCorrect == ReadsSpec => []TypeOK
<1>1. IInv => TypeOK
  BY DEF IInv, StoreInv, AccessInv, Typed, TypeOK
<1> QED
  BY <1>1, Invariance, PTL

(* Whatever is saved, migrated, bought or refunded while a request reads, and whatever
   time it takes: access that was there from its arrival to its answer, as its route
   understands it, is told (routes/status.ts, routes/entitlements.ts).  The single route
   may read its two stores at different times only because it reads the purchases last. *)
THEOREM EntitledIsAlwaysTold == ReadsSpec => []EntitledIsTold
<1>1. IInv => EntitledIsTold
  BY DEF IInv, AccessInv
<1> QED
  BY <1>1, Invariance, PTL

(* No route tells of access that was never there while the request was in progress: what
   it read was there when it read it, and access only ends with time. *)
THEOREM NobodyToldOfNothing == ReadsSpec => []ToldWasEntitled
<1>1. IInv => ToldWasEntitled
  BY DEF IInv, AccessInv
<1> QED
  BY <1>1, Invariance, PTL

(* Whatever the TTL, and however long a scan takes: what a metrics route tells, cached or
   not, is of the route it was asked for, of a window with ends less than a TTL away,
   from work that ended at most a TTL before, with the days of the window asked for but
   for some at its very edges (metrics-cache.ts, routes/metrics.ts). *)
THEOREM CountsAnswerTheQuestion == ReadsSpec => []AnswersTheQuestion
<1>1. IInv => AnswersTheQuestion
  BY DEF IInv, MetricsInv
<1> QED
  BY <1>1, Invariance, PTL

(* If a day is a whole number of TTLs, as it is for the default of 30 seconds, the daily
   series has exactly the days of the window asked for: then no two windows of one key
   touch different days. *)
THEOREM WholeDaysAsAsked ==
    ASSUME Day % Ttl = 0
    PROVE  ReadsSpec => []DaysAsAsked
<1>1. IInv => DaysAsAsked
  BY DEF IInv, MetricsInv
<1> QED
  BY <1>1, Invariance, PTL

(* A legacy statement makes a row claim more than it holds. *)
LEMMA OnlyLegacyClaims ==
    ASSUME IInv, [ReadsNext]_readsVars, NEW tx \in Txs, ~ClaimsNewer(rows[tx]), ClaimsNewer(rows'[tx])
    PROVE  \E j \in Jobs : RunLegacy(j)
<1>0. StoreTypeOK /\ StoreInv
  BY DEF IInv, StoreInv
<1>1. rows' # rows
  BY DEF ClaimsNewer
<1>2. StoreNext
  BY <1>1 DEF ReadsNext, Next, RouteNext, BuyOrRefund, Arrive, ReadSubscriptions, ReadPurchases,
     AnswerStatus, AnswerEntitlement, AnswerEntitlements, Tell, StoreError, Return, storeVars,
     readsVars, vars
<1>3. ASSUME NEW j \in Jobs, RunGuarded(j) PROVE FALSE
  <2>1. jobs[j].at = "guarded"
    BY <1>3 DEF RunGuarded
  <2>2. PICK of, k : of = jobs[j].tx /\ k = jobs[j].of /\ of \in Txs /\ k \in DOMAIN Snapshot[of]
    BY <1>0, <2>1, BusyAt, JobShape
  <2>3. PICK row : row = [of |-> k, asOf |-> k, grace |-> Snapshot[of][k].grace]
    OBVIOUS
  <2>4. rows' = [rows EXCEPT ![of] = row]
    BY <1>1, <1>3, <2>2, <2>3 DEF RunGuarded
  <2>5. rows'[tx] = rows[tx] \/ rows'[tx] = row
    BY <1>0, <2>4 DEF StoreTypeOK, Tables
  <2>6. k \in Nat /\ row.of = k /\ row.asOf = k
    BY <2>2, <2>3, SnapshotKeys
  <2> QED
    BY <2>5, <2>6 DEF ClaimsNewer
<1>4. ASSUME NEW j \in Jobs, rows' # rows,
             \/ \E p \in Processes : \/ \E other \in Txs : \E k \in DOMAIN Snapshot[other] : Save(j, p, other, k)
                                    \/ InitSchema(j, p)
             \/ ColumnsSeen(j) \/ ColumnsMissing(j) \/ QueryFails(j) \/ RunDdl(j) \/ SchemaReady(j)
      PROVE  FALSE
  BY <1>4 DEF Save, InitSchema, ColumnsSeen, ColumnsMissing, QueryFails, RunDdl, SchemaReady
<1>5. ~ApplySchemaByHand /\ ~Tick
  BY <1>1 DEF ApplySchemaByHand, Tick
<1> QED
  BY <1>1, <1>2, <1>3, <1>4, <1>5 DEF StoreNext

(* However many processes and queries: once the columns have been there for the minute a
   process remembers and two queries, no save falls back on the statement of 0.27, which
   leaves a row claiming a newer snapshot than it holds (stores/postgres.ts, save). *)
THEOREM FallbackIsBrief == ReadsSpec => FallbackEnds
<1>1. IInv /\ [ReadsNext]_readsVars =>
         [(\E tx \in Txs : ~ClaimsNewer(rows[tx]) /\ ClaimsNewer(rows'[tx])) =>
             now < columns + Window + 2 * Delay]_vars
  <2> SUFFICES ASSUME IInv, [ReadsNext]_readsVars, NEW tx \in Txs,
                      ~ClaimsNewer(rows[tx]), ClaimsNewer(rows'[tx])
               PROVE  now < columns + Window + 2 * Delay
    OBVIOUS
  <2>1. PICK j \in Jobs : RunLegacy(j)
    BY OnlyLegacyClaims
  <2>2. jobs[j].at = "legacy" /\ jobs[j] # Free
    BY <2>1, BusyAt DEF RunLegacy
  <2>3. /\ jobs[j].since \in Nat /\ now <= jobs[j].since + Delay
        /\ jobs[j].since < columns + Window + Delay
    BY <2>2, JobShape DEF IInv, StoreInv, StoreTimes
  <2> QED
    BY <2>3, StoreFacts DEF IInv, StoreInv
<1> QED
  BY <1>1, Invariance, PTL DEF ReadsSpec, FallbackEnds
-----------------------------------------------------------------------------
(* GROUP BY and the loop over its groups against the reduction. *)

(* GROUP BY G: the groups of P with the number of records of each; those records. *)
GroupsBy(records, G, P) ==
    {[group |-> g, n |-> Cardinality({r \in records : G[r] = g})] : g \in P}

RecordsIn(records, G, P) == {r \in records : G[r] \in P}

Keys(records, G) == {G[r] : r \in records}

(* Which group an entry counts. *)
LEMMA GroupOf ==
    ASSUME NEW records, NEW G, NEW P, NEW e \in GroupsBy(records, G, P)
    PROVE  e.group \in P
<1>1. PICK g \in P : e = [group |-> g, n |-> Cardinality({r \in records : G[r] = g})]
  BY DEF GroupsBy
<1> QED
  BY <1>1

(* The groups of P, counted together, are the records that fall in one of them. *)
LEMMA GroupsPartition ==
    ASSUME NEW records, IsFiniteSet(records), NEW G, NEW P,
           P \subseteq Keys(records, G)
    PROVE  CountIn(GroupsBy(records, G, P)) = Cardinality(RecordsIn(records, G, P))
<1> DEFINE S(g) == {r \in records : G[r] = g}
           Entry(g) == [group |-> g, n |-> Cardinality(S(g))]
           groups == {Entry(g) : g \in P}
           target == {r \in records : G[r] \in P}
           pairs == UNION {{e} \X (1..e.n) : e \in groups}
           b == [g \in P |-> CHOOSE f : f \in Bijection(1..Cardinality(S(g)), S(g))]
           F == [q \in pairs |-> b[q[1].group][q[2]]]
<1>1. \A g \in P : b[g] \in Bijection(1..Cardinality(S(g)), S(g))
  <2> SUFFICES ASSUME NEW g \in P PROVE b[g] \in Bijection(1..Cardinality(S(g)), S(g))
    OBVIOUS
  <2>1. S(g) \in SUBSET records
    OBVIOUS
  <2>2. IsFiniteSet(S(g))
    BY <2>1, FS_Subset
  <2>3. ExistsBijection(1..Cardinality(S(g)), S(g))
    BY <2>2, FS_CardinalityType
  <2>4. \E f : f \in Bijection(1..Cardinality(S(g)), S(g))
    BY <2>3 DEF ExistsBijection
  <2> QED
    BY <2>4
<1>2. \A g \in P :
          /\ \A i \in 1..Cardinality(S(g)) : b[g][i] \in records /\ G[b[g][i]] = g
          /\ \A i \in 1..Cardinality(S(g)) : \A j \in 1..Cardinality(S(g)) : b[g][i] = b[g][j] => i = j
          /\ \A r \in S(g) : \E i \in 1..Cardinality(S(g)) : b[g][i] = r
  <2> SUFFICES ASSUME NEW g \in P
               PROVE  /\ \A i \in 1..Cardinality(S(g)) : b[g][i] \in records /\ G[b[g][i]] = g
                      /\ \A i \in 1..Cardinality(S(g)) : \A j \in 1..Cardinality(S(g)) :
                             b[g][i] = b[g][j] => i = j
                      /\ \A r \in S(g) : \E i \in 1..Cardinality(S(g)) : b[g][i] = r
    OBVIOUS
  <2>1. PICK f : f = b[g]
    OBVIOUS
  <2>2. PICK n : n = Cardinality(S(g))
    OBVIOUS
  <2>3. f \in Bijection(1..n, S(g))
    BY <1>1, <2>1, <2>2
  <2>4. f \in Injection(1..n, S(g)) /\ f \in Surjection(1..n, S(g)) /\ f \in [1..n -> S(g)]
    BY <2>3, Fun_BijectionProperties
  <2>5. \A i \in 1..n : \A j \in 1..n : f[i] = f[j] => i = j
    BY <2>4, Fun_InjectionProperties
  <2>6. \A r \in S(g) : \E i \in 1..n : f[i] = r
    <3>1. PICK T : T = S(g)
      OBVIOUS
    <3>2. f \in Surjection(1..n, T)
      BY <2>4, <3>1
    <3>3. \A r \in T : \E i \in 1..n : f[i] = r
      BY <3>2 DEF Surjection
    <3> QED
      BY <3>1, <3>3
  <2>7. \A i \in 1..n : f[i] \in records /\ G[f[i]] = g
    BY <2>4
  <2> HIDE DEF b, S
  <2> QED
    BY <2>1, <2>2, <2>5, <2>6, <2>7
<1>3. \A q \in pairs : \E g \in P, i \in Nat :
          i \in 1..Cardinality(S(g)) /\ q = <<Entry(g), i>> /\ q[1].group = g /\ q[2] = i
  <2> SUFFICES ASSUME NEW q \in pairs
               PROVE  \E g \in P, i \in Nat :
                          i \in 1..Cardinality(S(g)) /\ q = <<Entry(g), i>> /\ q[1].group = g /\ q[2] = i
    OBVIOUS
  <2>1. PICK e \in groups : q \in {e} \X (1..e.n)
    OBVIOUS
  <2>2. PICK g \in P : e = Entry(g)
    OBVIOUS
  <2>3. e.group = g /\ e.n = Cardinality(S(g))
    BY <2>2
  <2>4. q = <<e, q[2]>> /\ q[2] \in 1..e.n /\ q[1] = e
    BY <2>1
  <2>5. q[2] \in Nat
    BY <2>4
  <2> HIDE DEF Entry, S, pairs, groups
  <2> QED
    BY <2>2, <2>3, <2>4, <2>5
<1>4. \A g \in P : \A i \in 1..Cardinality(S(g)) : <<Entry(g), i>> \in pairs /\ F[<<Entry(g), i>>] = b[g][i]
  <2> SUFFICES ASSUME NEW g \in P, NEW i \in 1..Cardinality(S(g))
               PROVE  <<Entry(g), i>> \in pairs /\ F[<<Entry(g), i>>] = b[g][i]
    OBVIOUS
  <2>1. Entry(g) \in groups /\ Entry(g).group = g /\ Entry(g).n = Cardinality(S(g))
    OBVIOUS
  <2>2. <<Entry(g), i>> \in {Entry(g)} \X (1..Entry(g).n)
    BY <2>1
  <2>3. <<Entry(g), i>> \in pairs
    BY <2>1, <2>2
  <2> HIDE DEF b
  <2> QED
    BY <2>1, <2>3
<1>5. F \in Bijection(pairs, target)
  <2> HIDE DEF b, Entry, pairs, F
  <2>1. \A q \in pairs : F[q] \in target
    <3> SUFFICES ASSUME NEW q \in pairs PROVE F[q] \in target
      OBVIOUS
    <3>1. PICK g \in P, i \in Nat : i \in 1..Cardinality(S(g)) /\ q = <<Entry(g), i>>
      BY <1>3
    <3>2. F[q] = b[g][i] /\ b[g][i] \in records /\ G[b[g][i]] = g
      BY <3>1, <1>4, <1>2
    <3> QED
      BY <3>2
  <2>2. \A q, p \in pairs : F[q] = F[p] => q = p
    <3> SUFFICES ASSUME NEW q \in pairs, NEW p \in pairs, F[q] = F[p] PROVE q = p
      OBVIOUS
    <3>1. PICK g \in P, i \in Nat : i \in 1..Cardinality(S(g)) /\ q = <<Entry(g), i>>
      BY <1>3
    <3>2. PICK h \in P, j \in Nat : j \in 1..Cardinality(S(h)) /\ p = <<Entry(h), j>>
      BY <1>3
    <3>3. F[q] = b[g][i] /\ G[F[q]] = g /\ F[p] = b[h][j] /\ G[F[p]] = h
      BY <3>1, <3>2, <1>4, <1>2
    <3>4. g = h
      BY <3>3
    <3>5. i = j
      <4> HIDE DEF S
      <4> QED
        BY <3>1, <3>2, <3>3, <3>4, <1>2
    <3> QED
      BY <3>1, <3>2, <3>4, <3>5
  <2>3. \A r \in target : \E q \in pairs : F[q] = r
    <3> SUFFICES ASSUME NEW r \in target PROVE \E q \in pairs : F[q] = r
      OBVIOUS
    <3>1. G[r] \in P /\ r \in S(G[r])
      OBVIOUS
    <3>2. PICK i \in 1..Cardinality(S(G[r])) : b[G[r]][i] = r
      BY <3>1, <1>2
    <3> QED
      BY <3>1, <3>2, <1>4
  <2>4. F \in [pairs -> target]
    BY <2>1 DEF F
  <2> QED
    BY <2>2, <2>3, <2>4, Fun_IsBij
<1>6. target \in SUBSET records
  OBVIOUS
<1>7. IsFiniteSet(target)
  BY <1>6, FS_Subset
<1>8. ExistsBijection(target, pairs)
  <2> HIDE DEF F, pairs, target
  <2>1. ExistsBijection(pairs, target)
    BY <1>5 DEF ExistsBijection
  <2> QED
    BY <2>1, Fun_ExistsBijSymmetric
<1>9. Cardinality(pairs) = Cardinality(target)
  <2> HIDE DEF pairs, target
  <2> QED
    BY <1>7, <1>8, FS_Bijection
<1> QED
  BY <1>9 DEF CountIn, GroupsBy, RecordsIn

(* All groups together are all records. *)
LEMMA AllGroups ==
    ASSUME NEW records, IsFiniteSet(records), NEW G
    PROVE  CountIn(GroupsBy(records, G, Keys(records, G))) = Cardinality(records)
<1>1. RecordsIn(records, G, Keys(records, G)) = records
  BY DEF RecordsIn, Keys
<1> QED
  BY <1>1, GroupsPartition

(* The rows of the groups with k in a column; the records themselves. *)
GroupedIn(groups, C, k) == CountIn({e \in groups : C[e.group] = k})

TalliedIn(records, G, C, k) == Cardinality({r \in records : C[G[r]] = k})

(* Either way the same number. *)
LEMMA ColumnCounts ==
    ASSUME NEW records, IsFiniteSet(records), NEW G, NEW C, NEW k
    PROVE  GroupedIn(GroupsBy(records, G, Keys(records, G)), C, k) = TalliedIn(records, G, C, k)
<1> DEFINE Entry(g) == [group |-> g, n |-> Cardinality({r \in records : G[r] = g})]
           P == {g \in Keys(records, G) : C[g] = k}
<1>1. CountIn(GroupsBy(records, G, P)) = Cardinality(RecordsIn(records, G, P))
  <2>1. P \subseteq Keys(records, G)
    OBVIOUS
  <2> HIDE DEF P
  <2> QED
    BY <2>1, GroupsPartition
<1>2. RecordsIn(records, G, P) = {r \in records : C[G[r]] = k}
  BY DEF RecordsIn, Keys
<1>3. {e \in GroupsBy(records, G, Keys(records, G)) : C[e.group] = k} = GroupsBy(records, G, P)
  <2>1. \A Q : GroupsBy(records, G, Q) = {Entry(g) : g \in Q}
    BY DEF GroupsBy
  <2>2. \A g : Entry(g).group = g
    OBVIOUS
  <2> HIDE DEF Entry
  <2> QED
    BY <2>1, <2>2
<1> QED
  BY <1>1, <1>2, <1>3 DEF GroupedIn, TalliedIn

(* Summed and Tally of a column. *)
SummedBy(groups, C) == [k \in {C[e.group] : e \in groups} |-> GroupedIn(groups, C, k)]

TalliedBy(records, G, C) == [k \in {C[G[r]] : r \in records} |-> TalliedIn(records, G, C, k)]

(* Either way the same counts. *)
LEMMA ColumnSums ==
    ASSUME NEW records, IsFiniteSet(records), NEW G, NEW C
    PROVE  SummedBy(GroupsBy(records, G, Keys(records, G)), C) = TalliedBy(records, G, C)
<1> DEFINE groups == GroupsBy(records, G, Keys(records, G))
<1>1. {C[e.group] : e \in groups} = {C[G[r]] : r \in records}
  <2> DEFINE Entry(g) == [group |-> g, n |-> Cardinality({r \in records : G[r] = g})]
  <2>1. groups = {Entry(g) : g \in {G[r] : r \in records}}
    BY DEF GroupsBy, Keys
  <2>2. \A g : Entry(g).group = g
    OBVIOUS
  <2> HIDE DEF Entry, groups
  <2> QED
    BY <2>1, <2>2
<1>2. \A k : GroupedIn(groups, C, k) = TalliedIn(records, G, C, k)
  BY ColumnCounts
<1> HIDE DEF groups
<1>3. SummedBy(groups, C) = TalliedBy(records, G, C)
  BY <1>1, <1>2 DEF SummedBy, TalliedBy
<1> QED
  BY <1>3 DEF groups

(* The counts by product of the loop over the groups, and of the reduction. *)
ProductsOf(groups) == Summed(groups, LAMBDA g : g.product)

ProductsTally(records) == Tally(records, LAMBDA r : r.product)

(* Both loops count alike by product. *)
LEMMA ProductsSum ==
    ASSUME NEW records, IsFiniteSet(records), NEW G, \A r \in records : G[r].product = r.product
    PROVE  ProductsOf(GroupsBy(records, G, Keys(records, G))) = ProductsTally(records)
<1> DEFINE groups == GroupsBy(records, G, Keys(records, G))
           C == [g \in Keys(records, G) |-> g.product]
<1>1. \A e \in groups : e.group \in Keys(records, G)
  BY GroupOf
<1>2. SummedBy(groups, C) = TalliedBy(records, G, C)
  BY ColumnSums
<1> HIDE DEF groups
<1>3. \A e \in groups : C[e.group] = e.group.product
  BY <1>1
<1>4. \A r \in records : C[G[r]] = r.product
  BY DEF Keys
<1> HIDE DEF C
<1>5. ProductsOf(groups) = SummedBy(groups, C)
  <2>1. {C[e.group] : e \in groups} = {e.group.product : e \in groups}
    BY <1>3
  <2>2. \A k : {e \in groups : C[e.group] = k} = {e \in groups : e.group.product = k}
    BY <1>3
  <2>3. \A k : GroupedIn(groups, C, k) = CountIn({e \in groups : e.group.product = k})
    BY <2>2 DEF GroupedIn
  <2> QED
    BY <2>1, <2>3 DEF ProductsOf, Summed, SummedBy
<1>6. ProductsTally(records) = TalliedBy(records, G, C)
  <2>1. {C[G[r]] : r \in records} = {r.product : r \in records}
    BY <1>4
  <2>2. \A k : {r \in records : C[G[r]] = k} = {r \in records : r.product = k}
    BY <1>4
  <2>3. \A k : TalliedIn(records, G, C, k) = Cardinality({r \in records : r.product = k})
    BY <2>2 DEF TalliedIn
  <2> QED
    BY <2>1, <2>3 DEF ProductsTally, Tally, TalliedBy
<1> QED
  BY <1>2, <1>5, <1>6 DEF groups

(* By platform. *)
PlatformsOf(groups) == Summed(groups, LAMBDA g : g.platform)

PlatformsTally(records) == Tally(records, LAMBDA r : r.platform)

(* Both loops count alike by platform. *)
LEMMA PlatformsSum ==
    ASSUME NEW records, IsFiniteSet(records), NEW G, \A r \in records : G[r].platform = r.platform
    PROVE  PlatformsOf(GroupsBy(records, G, Keys(records, G))) = PlatformsTally(records)
<1> DEFINE groups == GroupsBy(records, G, Keys(records, G))
           C == [g \in Keys(records, G) |-> g.platform]
<1>1. \A e \in groups : e.group \in Keys(records, G)
  BY GroupOf
<1>2. SummedBy(groups, C) = TalliedBy(records, G, C)
  BY ColumnSums
<1> HIDE DEF groups
<1>3. \A e \in groups : C[e.group] = e.group.platform
  BY <1>1
<1>4. \A r \in records : C[G[r]] = r.platform
  BY DEF Keys
<1> HIDE DEF C
<1>5. PlatformsOf(groups) = SummedBy(groups, C)
  <2>1. {C[e.group] : e \in groups} = {e.group.platform : e \in groups}
    BY <1>3
  <2>2. \A k : {e \in groups : C[e.group] = k} = {e \in groups : e.group.platform = k}
    BY <1>3
  <2>3. \A k : GroupedIn(groups, C, k) = CountIn({e \in groups : e.group.platform = k})
    BY <2>2 DEF GroupedIn
  <2> QED
    BY <2>1, <2>3 DEF PlatformsOf, Summed, SummedBy
<1>6. PlatformsTally(records) = TalliedBy(records, G, C)
  <2>1. {C[G[r]] : r \in records} = {r.platform : r \in records}
    BY <1>4
  <2>2. \A k : {r \in records : C[G[r]] = k} = {r \in records : r.platform = k}
    BY <1>4
  <2>3. \A k : TalliedIn(records, G, C, k) = Cardinality({r \in records : r.platform = k})
    BY <2>2 DEF TalliedIn
  <2> QED
    BY <2>1, <2>3 DEF PlatformsTally, Tally, TalliedBy
<1> QED
  BY <1>2, <1>5, <1>6 DEF groups

(* aggregateNonConsumable. *)
LEMMA NonConsumableSame ==
    ASSUME NEW records, IsFiniteSet(records)
    PROVE  SqlAggregateNonConsumable(records) = AggregateNonConsumablePurchases(records)
<1> DEFINE counted == {r \in records : IsNonConsumable(r)}
           G == [r \in counted |-> [product |-> r.product, platform |-> r.platform]]
           groups == GroupsBy(counted, G, Keys(counted, G))
<1>1. IsFiniteSet(counted)
  <2>1. counted \in SUBSET records
    OBVIOUS
  <2> QED
    BY <2>1, FS_Subset
<1>2. SelectNonConsumable(records) = groups
  <2> DEFINE Group(r) == [product |-> r.product, platform |-> r.platform]
  <2>1. \A r \in counted : G[r] = Group(r)
    OBVIOUS
  <2> HIDE DEF counted, G, Group
  <2>2. \A g : {r \in counted : Group(r) = g} = {r \in counted : G[r] = g}
    BY <2>1
  <2>3. {Group(r) : r \in counted} = Keys(counted, G)
    BY <2>1 DEF Keys
  <2>4. Grouped(counted, Group) = groups
    <3> DEFINE Entry(g) == [group |-> g, n |-> Cardinality({r \in counted : Group(r) = g})]
               EntryBy(g) == [group |-> g, n |-> Cardinality({r \in counted : G[r] = g})]
    <3>1. \A g : Entry(g) = EntryBy(g)
      BY <2>2
    <3>2. Grouped(counted, Group) = {Entry(g) : g \in {Group(r) : r \in counted}}
      BY DEF Grouped
    <3>3. groups = {EntryBy(g) : g \in Keys(counted, G)}
      BY DEF GroupsBy
    <3> HIDE DEF Entry, EntryBy, groups
    <3>4. Grouped(counted, Group) = {Entry(g) : g \in Keys(counted, G)}
      BY <2>3, <3>2
    <3> QED
      BY <3>1, <3>3, <3>4
  <2> QED
    BY <2>4 DEF SelectNonConsumable, counted, Group
<1>3. NonConsumableOf(groups)
          = [total |-> CountIn(groups), byProduct |-> ProductsOf(groups), byPlatform |-> PlatformsOf(groups)]
  BY DEF NonConsumableOf, ProductsOf, PlatformsOf
<1>4. AggregateNonConsumablePurchases(records)
          = [total |-> Cardinality(counted), byProduct |-> ProductsTally(counted),
             byPlatform |-> PlatformsTally(counted)]
  BY DEF AggregateNonConsumablePurchases, ProductsTally, PlatformsTally
<1>5. \A r \in counted : G[r].product = r.product /\ G[r].platform = r.platform
  OBVIOUS
<1> HIDE DEF counted, G
<1>6. CountIn(groups) = Cardinality(counted)
  BY <1>1, AllGroups
<1>7. ProductsOf(groups) = ProductsTally(counted) /\ PlatformsOf(groups) = PlatformsTally(counted)
  BY <1>1, <1>5, ProductsSum, PlatformsSum
<1> HIDE DEF groups
<1> QED
  BY <1>2, <1>3, <1>4, <1>6, <1>7 DEF SqlAggregateNonConsumable

(* The comparison with GREATEST is isSubscriptionEntitled. *)
LEMMA ActiveSame ==
    ASSUME NEW r, r.expires \in Nat, r.grace \in Nat, NEW time \in Nat
    PROVE  SqlActive(r, time) <=> IsSubscriptionEntitled(r.status, r.expires > time, r.grace > time)
BY DEF SqlActive, IsSubscriptionEntitled, NoTime

(* Those in a billing grace period. *)
InGrace(groups) == CountIn({g \in groups : g.group.status = "grace_period"})

InGraceTally(records) == Cardinality({r \in records : r.status = "grace_period"})

(* Both loops count alike who is in grace. *)
LEMMA GraceSum ==
    ASSUME NEW records, IsFiniteSet(records), NEW G, \A r \in records : G[r].status = r.status
    PROVE  InGrace(GroupsBy(records, G, Keys(records, G))) = InGraceTally(records)
<1> DEFINE groups == GroupsBy(records, G, Keys(records, G))
           C == [g \in Keys(records, G) |-> g.status]
<1>1. \A e \in groups : e.group \in Keys(records, G)
  BY GroupOf
<1>2. GroupedIn(groups, C, "grace_period") = TalliedIn(records, G, C, "grace_period")
  BY ColumnCounts
<1> HIDE DEF groups
<1>3. {e \in groups : C[e.group] = "grace_period"} = {e \in groups : e.group.status = "grace_period"}
  BY <1>1
<1>4. {r \in records : C[G[r]] = "grace_period"} = {r \in records : r.status = "grace_period"}
  BY DEF Keys
<1> HIDE DEF C
<1> QED
  BY <1>2, <1>3, <1>4 DEF GroupedIn, TalliedIn, InGrace, InGraceTally, groups

(* aggregateActive. *)
LEMMA ActiveCountsSame ==
    ASSUME NEW records, IsFiniteSet(records), NEW time \in Nat,
           \A r \in records : r.expires \in Nat /\ r.grace \in Nat
    PROVE  SqlAggregateActive(records, time) = AggregateActiveSubscriptions(records, time)
<1> DEFINE counted == {r \in records : SqlActive(r, time)}
           G == [r \in counted |-> [product |-> r.product, platform |-> r.platform, status |-> r.status]]
           groups == GroupsBy(counted, G, Keys(counted, G))
<1>1. IsFiniteSet(counted)
  <2>1. counted \in SUBSET records
    OBVIOUS
  <2> QED
    BY <2>1, FS_Subset
<1>2. ActiveSubscriptions(records, time) = counted
  BY ActiveSame DEF ActiveSubscriptions
<1>3. SelectActive(records, time) = groups
  <2> DEFINE Group(r) == [product |-> r.product, platform |-> r.platform, status |-> r.status]
  <2>1. \A r \in counted : G[r] = Group(r)
    OBVIOUS
  <2> HIDE DEF counted, G, Group
  <2>2. \A g : {r \in counted : Group(r) = g} = {r \in counted : G[r] = g}
    BY <2>1
  <2>3. {Group(r) : r \in counted} = Keys(counted, G)
    BY <2>1 DEF Keys
  <2>4. Grouped(counted, Group) = groups
    <3> DEFINE Entry(g) == [group |-> g, n |-> Cardinality({r \in counted : Group(r) = g})]
               EntryBy(g) == [group |-> g, n |-> Cardinality({r \in counted : G[r] = g})]
    <3>1. \A g : Entry(g) = EntryBy(g)
      BY <2>2
    <3>2. Grouped(counted, Group) = {Entry(g) : g \in {Group(r) : r \in counted}}
      BY DEF Grouped
    <3>3. groups = {EntryBy(g) : g \in Keys(counted, G)}
      BY DEF GroupsBy
    <3> HIDE DEF Entry, EntryBy, groups
    <3>4. Grouped(counted, Group) = {Entry(g) : g \in Keys(counted, G)}
      BY <2>3, <3>2
    <3> QED
      BY <3>1, <3>3, <3>4
  <2> QED
    BY <2>4 DEF SelectActive, counted, Group
<1>4. ActiveOf(groups)
          = [active |-> CountIn(groups), gracePeriod |-> InGrace(groups),
             byProduct |-> ProductsOf(groups), byPlatform |-> PlatformsOf(groups)]
  BY DEF ActiveOf, ProductsOf, PlatformsOf, InGrace
<1>5. \A r \in counted : /\ G[r].product = r.product /\ G[r].platform = r.platform
                         /\ G[r].status = r.status
  OBVIOUS
<1> HIDE DEF counted, G
<1>6. AggregateActiveSubscriptions(records, time)
          = [active |-> Cardinality(counted), gracePeriod |-> InGraceTally(counted),
             byProduct |-> ProductsTally(counted), byPlatform |-> PlatformsTally(counted)]
  <2> DEFINE all == ActiveSubscriptions(records, time)
  <2>1. AggregateActiveSubscriptions(records, time)
            = [active |-> Cardinality(all), gracePeriod |-> InGraceTally(all),
               byProduct |-> ProductsTally(all), byPlatform |-> PlatformsTally(all)]
    BY DEF AggregateActiveSubscriptions, ProductsTally, PlatformsTally, InGraceTally
  <2> HIDE DEF all
  <2>2. all = counted
    BY <1>2 DEF all
  <2> QED
    BY <2>1, <2>2
<1>7. CountIn(groups) = Cardinality(counted)
  BY <1>1, AllGroups
<1>8. ProductsOf(groups) = ProductsTally(counted) /\ PlatformsOf(groups) = PlatformsTally(counted)
      /\ InGrace(groups) = InGraceTally(counted)
  BY <1>1, <1>5, ProductsSum, PlatformsSum, GraceSum
<1> HIDE DEF groups
<1> QED
  BY <1>3, <1>4, <1>6, <1>7, <1>8 DEF SqlAggregateActive

(* The day series: a day that no group has counts nothing. *)
DailyOf(groups, days) == LET perDay == Summed(groups, LAMBDA g : g.day)
                         IN [d \in days |-> CountOf(perDay, d)]

DailyTally(records, route, days) ==
    [d \in days |-> Cardinality({r \in records : UtcDay(Anchor(route, r)) = d})]

DaysAsked(window, groupBy) == IF groupBy = "day" THEN DaysOf(window[1], window[2]) ELSE {}

(* Both loops count alike by day. *)
LEMMA DaysSum ==
    ASSUME NEW records, IsFiniteSet(records), NEW G, NEW route, NEW days,
           days # {} => \A r \in records : G[r].day = SqlDay(Anchor(route, r))
    PROVE  DailyOf(GroupsBy(records, G, Keys(records, G)), days) = DailyTally(records, route, days)
<1> DEFINE groups == GroupsBy(records, G, Keys(records, G))
           C == [g \in Keys(records, G) |-> g.day]
           perDay == Summed(groups, LAMBDA g : g.day)
<1>1. \A e \in groups : e.group \in Keys(records, G)
  BY GroupOf
<1>2. \A k : GroupedIn(groups, C, k) = TalliedIn(records, G, C, k)
  BY ColumnCounts
<1> HIDE DEF groups
<1>3. \A e \in groups : C[e.group] = e.group.day
  BY <1>1
<1>4. \A r \in records : C[G[r]] = G[r].day
  BY DEF Keys
<1> HIDE DEF C
<1>5. \A k : {e \in groups : C[e.group] = k} = {e \in groups : e.group.day = k}
  BY <1>3
<1>6. perDay = [k \in {e.group.day : e \in groups} |-> GroupedIn(groups, C, k)]
  <2>1. \A k : GroupedIn(groups, C, k) = CountIn({e \in groups : e.group.day = k})
    BY <1>5 DEF GroupedIn
  <2> QED
    BY <2>1 DEF Summed
<1>7. \A k : k \notin {e.group.day : e \in groups} => GroupedIn(groups, C, k) = 0
  <2> SUFFICES ASSUME NEW k, k \notin {e.group.day : e \in groups} PROVE GroupedIn(groups, C, k) = 0
    OBVIOUS
  <2>1. {e \in groups : C[e.group] = k} = {}
    BY <1>5
  <2>2. {r \in records : C[G[r]] = k} = {}
    <3> SUFFICES ASSUME NEW r \in records, C[G[r]] = k PROVE FALSE
      OBVIOUS
    <3>1. [group |-> G[r], n |-> Cardinality({s \in records : G[s] = G[r]})] \in groups
      BY DEF groups, GroupsBy, Keys
    <3>2. PICK e \in groups : e.group = G[r]
      BY <3>1
    <3> QED
      BY <2>1, <3>2
  <2>3. TalliedIn(records, G, C, k) = 0
    BY <2>2, FS_EmptySet DEF TalliedIn
  <2> QED
    BY <1>2, <2>3
<1> HIDE DEF perDay
<1>8. \A d : CountOf(perDay, d) = TalliedIn(records, G, C, d)
  BY <1>2, <1>6, <1>7 DEF CountOf
<1>9. ASSUME NEW d \in days
      PROVE  TalliedIn(records, G, C, d) = Cardinality({r \in records : UtcDay(Anchor(route, r)) = d})
  <2>1. {r \in records : C[G[r]] = d} = {r \in records : UtcDay(Anchor(route, r)) = d}
    BY <1>4 DEF SqlDay, UtcDay
  <2> QED
    BY <2>1 DEF TalliedIn
<1> QED
  BY <1>8, <1>9 DEF DailyOf, DailyTally, perDay, groups

(* aggregateViaSql. *)
LEMMA RangeSame ==
    ASSUME NEW records, IsFiniteSet(records), NEW route, NEW window, NEW groupBy
    PROVE  AggregateViaSql(records, route, window, groupBy)
               = AggregateRange(records, route, window, groupBy)
<1> DEFINE counted == {r \in records : Within(route, r, window) /\ Include(route, r)}
           Group(r) == [product |-> r.product, platform |-> r.platform,
                        day |-> IF groupBy = "day" THEN SqlDay(Anchor(route, r)) ELSE 0]
           G == [r \in counted |-> Group(r)]
           groups == GroupsBy(counted, G, Keys(counted, G))
           days == DaysAsked(window, groupBy)
<1>1. IsFiniteSet(counted)
  <2>1. counted \in SUBSET records
    OBVIOUS
  <2> QED
    BY <2>1, FS_Subset
<1>2. SelectRange(records, route, window, groupBy) = groups
  <2>1. \A r \in counted : G[r] = Group(r)
    OBVIOUS
  <2> HIDE DEF counted, G, Group
  <2>2. \A g : {r \in counted : Group(r) = g} = {r \in counted : G[r] = g}
    BY <2>1
  <2>3. {Group(r) : r \in counted} = Keys(counted, G)
    BY <2>1 DEF Keys
  <2>4. Grouped(counted, Group) = groups
    <3> DEFINE Entry(g) == [group |-> g, n |-> Cardinality({r \in counted : Group(r) = g})]
               EntryBy(g) == [group |-> g, n |-> Cardinality({r \in counted : G[r] = g})]
    <3>1. \A g : Entry(g) = EntryBy(g)
      BY <2>2
    <3>2. Grouped(counted, Group) = {Entry(g) : g \in {Group(r) : r \in counted}}
      BY DEF Grouped
    <3>3. groups = {EntryBy(g) : g \in Keys(counted, G)}
      BY DEF GroupsBy
    <3> HIDE DEF Entry, EntryBy, groups
    <3>4. Grouped(counted, Group) = {Entry(g) : g \in Keys(counted, G)}
      BY <2>3, <3>2
    <3> QED
      BY <3>1, <3>3, <3>4
  <2> QED
    BY <2>4 DEF SelectRange, counted, Group
<1>3. RangeOf(groups, window, groupBy)
          = [total |-> CountIn(groups), byProduct |-> ProductsOf(groups),
             byPlatform |-> PlatformsOf(groups), buckets |-> DailyOf(groups, days)]
  BY DEF RangeOf, ProductsOf, PlatformsOf, DailyOf, DaysAsked
<1>4. AggregateRange(records, route, window, groupBy)
          = [total |-> Cardinality(counted), byProduct |-> ProductsTally(counted),
             byPlatform |-> PlatformsTally(counted), buckets |-> DailyTally(counted, route, days)]
  <2> DEFINE all == {r \in records : Include(route, r) /\ Within(route, r, window)}
  <2>1. AggregateRange(records, route, window, groupBy)
            = [total |-> Cardinality(all), byProduct |-> ProductsTally(all),
               byPlatform |-> PlatformsTally(all), buckets |-> DailyTally(all, route, days)]
    BY DEF AggregateRange, ProductsTally, PlatformsTally, DailyTally, DaysAsked
  <2>2. all = counted
    OBVIOUS
  <2> HIDE DEF all, counted, days
  <2> QED
    BY <2>1, <2>2
<1>5. \A r \in counted : /\ G[r].product = r.product /\ G[r].platform = r.platform
                         /\ groupBy = "day" => G[r].day = SqlDay(Anchor(route, r))
  OBVIOUS
<1>6. days # {} => groupBy = "day"
  BY DEF DaysAsked
<1> HIDE DEF counted, G, Group, days
<1>7. CountIn(groups) = Cardinality(counted)
  BY <1>1, AllGroups
<1>8. ProductsOf(groups) = ProductsTally(counted) /\ PlatformsOf(groups) = PlatformsTally(counted)
      /\ DailyOf(groups, days) = DailyTally(counted, route, days)
  BY <1>1, <1>5, <1>6, ProductsSum, PlatformsSum, DaysSum
<1> HIDE DEF groups
<1> QED
  BY <1>2, <1>3, <1>4, <1>7, <1>8 DEF AggregateViaSql

(* Whatever the rows, grouping in SQL counts what the reduction counts. *)
LEMMA SqlCountsAreRight ==
    ASSUME StoreTypeOK
    PROVE  SqlMatchesReduction
<1>1. IsFiniteSet(Subscriptions) /\ \A r \in Subscriptions : r.expires \in Nat /\ r.grace \in Nat
  <2> DEFINE present == {t \in Txs : rows[t].of # 0}
             Record(tx) == LET data == Snapshot[tx][rows[tx].of]
                           IN [id |-> tx, product |-> data.product, platform |-> data.platform,
                               status |-> data.status, purchased |-> data.purchased,
                               expires |-> data.expires, grace |-> rows[tx].grace]
             f == [tx \in present |-> Record(tx)]
  <2>1. IsFiniteSet(present)
    <3>1. present \in SUBSET Txs
      OBVIOUS
    <3> QED
      BY <3>1, TxsAssumption, FS_Subset
  <2>2. Subscriptions = {Record(tx) : tx \in present}
    BY DEF Subscriptions
  <2>3. \A tx \in present : Record(tx).expires \in Nat /\ Record(tx).grace \in Nat
    BY SnapshotAssumption DEF StoreTypeOK, Tables, Row
  <2> HIDE DEF present, Record
  <2>4. f \in [present -> Subscriptions] /\ \A r \in Subscriptions : \E tx \in present : f[tx] = r
    BY <2>2
  <2>5. f \in Surjection(present, Subscriptions)
    BY <2>4 DEF Surjection
  <2> HIDE DEF f
  <2>6. IsFiniteSet(Subscriptions)
    BY <2>1, <2>5, FS_Surjection
  <2> QED
    BY <2>2, <2>3, <2>6
<1>2. IsFiniteSet(Purchases)
  <2>1. IsFiniteSet({Coins}) /\ IsFiniteSet({Lifetime}) /\ IsFiniteSet({})
    BY FS_Singleton, FS_EmptySet
  <2>2. IsFiniteSet({Coins} \cup {Lifetime}) /\ IsFiniteSet({Coins} \cup {})
    BY <2>1, FS_Union
  <2> QED
    BY <2>2 DEF Purchases
<1>3. \A time \in 0..MaxTime : time \in Nat
  OBVIOUS
<1> QED
  BY <1>1, <1>2, <1>3, RangeSame, ActiveCountsSame, NonConsumableSame DEF SqlMatchesReduction

(* Over any rows, windows and times, the GROUP BY statements of stores/postgres.ts and the
   loops over their groups give the counts of metrics-aggregate.ts. *)
THEOREM SqlMatchesTheReduction == ReadsSpec => []SqlMatchesReduction
<1>1. IInv => SqlMatchesReduction
  BY SqlCountsAreRight DEF IInv, StoreInv
<1> QED
  BY <1>1, Invariance, PTL
-----------------------------------------------------------------------------
(* The caches of results. *)

(* The metrics and the key cache are never shared. *)
Private == kind \notin Tokens => ~shared

(* An entry claims no more than a delay beyond the end of its result, and a
   private cache drops it by then. *)
EntrySound(held) ==
    /\ kind \in Tokens => held.claimed <= held.result.end + RoundTrip
    /\ kind = "metrics" => held.evict <= held.result.end + RoundTrip
    /\ kind = "key" => held.evict < held.result.end

EntriesSound == \A a \in Servers \cup {"redis"} : entry[a] # None => EntrySound(entry[a])

(* Where a caller remembers since when. *)
Waits == {"getting", "got", "working", "obtained", "setting", "set"}

(* Time passes in a round trip, and no more of it than a delay. *)
InTime(call) ==
    /\ call.at \in Waits => call.since <= clock /\ clock <= call.since + RoundTrip
    /\ call.at \in {"getting", "got", "setting", "set"} /\ ~shared => clock = call.since

(* What a caller holds is good for no less than it takes it for. *)
HoldsSound(call) ==
    /\ call.at = "got" /\ call.hit # None =>
          /\ EntrySound(call.hit)
          /\ kind \notin Tokens => clock <= call.hit.evict
    /\ call.at = "obtained" =>
          /\ kind \in Tokens => call.since + ResultLifetime <= call.result.end
          /\ kind = "metrics" => call.result.end = call.since + ResultLifetime
    /\ call.at \in {"setting", "set"} =>
          kind # "key" /\ call.since + ResultLifetime <= call.result.end + RoundTrip
    /\ call.at = "setting" => call.claimed = call.since + ResultLifetime

(* NothingStale, of one caller. *)
NotStale(call) ==
    call.at = "answered" =>
        /\ kind \in Tokens => clock < call.result.end
        /\ kind = "key" /\ call.from = "cache" => clock < call.result.end
        /\ kind = "metrics" => clock <= call.result.end + RoundTrip

CallSound(call) == InTime(call) /\ HoldsSound(call) /\ NotStale(call)

CallsSound == \A c \in Callers : CallSound(calls[c])

(* Where a caller does the work for its process. *)
Busy == {"working", "obtained", "setting", "set"}

(* One caller of a process works, the one that is registered, and those that
   joined wait for it.  The key cache has no work in progress. *)
OneWorks ==
    /\ \A c \in Callers : calls[c].at \in Busy /\ kind # "key" => inflight[Process[c]] = c
    /\ \A p \in Servers : inflight[p] # None =>
          kind # "key" /\ Process[inflight[p]] = p /\ calls[inflight[p]].at \in Busy
    /\ \A c \in Callers : At(c, "joined") => inflight[Process[c]] = calls[c].on

CachesInv == CachesTypeOK /\ Private /\ EntriesSound /\ CallsSound /\ OneWorks
-----------------------------------------------------------------------------
(* The constants in numbers. *)
LEMMA Bounds ==
    /\ ResultLifetime \in Nat /\ Margin \in Nat /\ RoundTrip \in Nat
    /\ 2 * RoundTrip <= Margin /\ Margin < ResultLifetime
    /\ None \notin Callers /\ \A c \in Callers : Process[c] \in Servers
BY ConstantAssumption DEF Servers

(* What a caller remembers has its type. *)
LEMMA CallShape ==
    ASSUME NEW call \in CallStates
    PROVE  /\ call.at \in Waits => call.since \in Nat
           /\ call.at = "got" => call.hit \in Entries
           /\ call.at \in {"obtained", "setting", "set", "answered"} =>
                  call.result \in Results /\ call.result.end \in Nat
           /\ call.at = "setting" => call.claimed \in Nat
           /\ call.at = "joined" => call.on \in Callers
           /\ call.at = "answered" => call.from \in {"cache", "work"}
<1>1. CASE call \in [at : {"idle", "failed"}]
  BY <1>1 DEF Waits
<1>2. CASE call \in [at : {"getting", "working"}, since : Nat]
  BY <1>2 DEF Waits
<1>3. CASE call \in [at : {"got"}, since : Nat, hit : Entries]
  BY <1>3 DEF Waits
<1>4. CASE call \in [at : {"obtained", "set"}, since : Nat, result : Results]
  BY <1>4 DEF Waits, Results
<1>5. CASE call \in [at : {"setting"}, since : Nat, result : Results, claimed : Nat]
  BY <1>5 DEF Waits, Results
<1>6. CASE call \in [at : {"joined"}, on : Callers]
  BY <1>6 DEF Waits
<1>7. CASE call \in [at : {"answered"}, result : Results, from : {"cache", "work"}]
  BY <1>7 DEF Waits, Results
<1> QED
  BY <1>1, <1>2, <1>3, <1>4, <1>5, <1>6, <1>7 DEF CallStates

(* What an adapter holds has its type. *)
LEMMA EntryShape ==
    ASSUME NEW held \in Entries, held # None
    PROVE  /\ held.result \in Results /\ held.result.end \in Nat
           /\ held.claimed \in Nat /\ held.evict \in Nat
BY DEF Entries, Results

(* What a step of one caller may do without disturbing the others. *)
CallStep ==
    /\ UNCHANGED <<kind, shared, clock>>
    /\ faults' \in Nat /\ made' \in Nat
    /\ entry' \in [Servers \cup {"redis"} -> Entries]
    /\ EntriesSound'

(* One caller goes on. *)
LEMMA BecomeKeeps ==
    ASSUME CachesInv, CallStep, NEW c \in Callers, NEW call \in CallStates, CallSound(call),
           calls' = [calls EXCEPT ![c] = call], OneWorks',
           inflight' \in [Servers -> Callers \cup {None}]
    PROVE  CachesInv'
<1>1. CachesTypeOK'
  BY DEF CachesInv, CachesTypeOK, CallStep
<1>2. \A d \in Callers : CallSound(calls'[d])
  BY DEF CachesInv, CachesTypeOK, CallsSound
<1>3. CallsSound'
  BY <1>2 DEF CallStep, CallsSound, CallSound, InTime, HoldsSound, NotStale, EntrySound
<1>4. Private'
  BY DEF CachesInv, Private, CallStep
<1> QED
  BY <1>1, <1>3, <1>4 DEF CachesInv, CallStep

(* One caller goes on, and does not begin or end work or join any. *)
LEMMA GoesOnKeeps ==
    ASSUME CachesInv, CallStep, NEW c \in Callers, NEW call \in CallStates, CallSound(call),
           calls' = [calls EXCEPT ![c] = call], UNCHANGED inflight,
           calls[c].at \in Busy <=> call.at \in Busy, ~At(c, "joined"),
           call.at = "joined" => kind # "key" /\ inflight[Process[c]] = call.on
    PROVE  CachesInv'
<1>1. \A d \in Callers : (calls'[d].at \in Busy <=> calls[d].at \in Busy)
  BY DEF CachesInv, CachesTypeOK
<1>2. \A d \in Callers : d # c => calls'[d] = calls[d]
  BY DEF CachesInv, CachesTypeOK
<1>3. calls'[c] = call
  BY DEF CachesInv, CachesTypeOK
<1>4. \A p \in Servers : inflight[p] \in Callers \cup {None}
  BY DEF CachesInv, CachesTypeOK
<1>5. OneWorks'
  BY <1>1, <1>2, <1>3, <1>4 DEF CachesInv, OneWorks, CallStep, At
<1>6. inflight' \in [Servers -> Callers \cup {None}]
  BY DEF CachesInv, CachesTypeOK
<1> QED
  BY <1>5, <1>6, BecomeKeeps

(* Work ends: the caller and those that joined it end alike. *)
LEMMA EndKeeps ==
    ASSUME CachesInv, CallStep, NEW c \in Callers, NEW call \in CallStates, CallSound(call),
           call.at \in {"answered", "failed"},
           calls[c].at \in Busy, SettleAll(c, call), inflight' = Forgotten(c)
    PROVE  CachesInv'
<1>1. /\ calls \in [Callers -> CallStates] /\ inflight \in [Servers -> Callers \cup {None}]
      /\ CallsSound /\ OneWorks
  BY DEF CachesInv, CachesTypeOK
<1>2. \A d \in Callers :
          calls'[d] = IF d = c \/ (At(d, "joined") /\ calls[d].on = c) THEN call ELSE calls[d]
  BY DEF SettleAll, Joined
<1>3. calls' \in [Callers -> CallStates]
  BY <1>1 DEF SettleAll
<1>4. inflight' \in [Servers -> Callers \cup {None}]
  BY <1>1 DEF Forgotten
<1>5. CachesTypeOK' /\ Private'
  BY <1>3, <1>4 DEF CachesInv, CachesTypeOK, Private, CallStep
<1>6. CallsSound'
  <2>1. \A d \in Callers : CallSound(calls'[d])
    BY <1>1, <1>2 DEF CallsSound
  <2> QED
    BY <2>1 DEF CallStep, CallsSound, CallSound, InTime, HoldsSound, NotStale, EntrySound
<1>7. \A p \in Servers : inflight'[p] = IF p = Process[c] THEN None ELSE inflight[p]
  BY <1>1, Bounds DEF Forgotten
<1>8. call.at \notin Busy /\ call.at # "joined"
  BY DEF Busy
<1>9. ASSUME NEW d \in Callers, calls'[d].at \in Busy, kind # "key"
      PROVE  inflight'[Process[d]] = d
  <2>1. d # c /\ calls[d].at \in Busy
    BY <1>2, <1>8, <1>9
  <2>2. inflight[Process[d]] = d /\ inflight[Process[c]] = c
    BY <1>1, <1>9, <2>1 DEF OneWorks
  <2> QED
    BY <1>7, <2>1, <2>2, Bounds
<1>10. ASSUME NEW p \in Servers, inflight'[p] # None
       PROVE  kind # "key" /\ Process[inflight'[p]] = p /\ calls'[inflight'[p]].at \in Busy
  <2>1. p # Process[c] /\ inflight'[p] = inflight[p] /\ inflight[p] \in Callers
    BY <1>1, <1>7, <1>10
  <2>2. kind # "key" /\ Process[inflight[p]] = p /\ calls[inflight[p]].at \in Busy
    BY <1>1, <1>10, <2>1 DEF OneWorks
  <2>3. calls'[inflight[p]] = calls[inflight[p]]
    BY <1>2, <2>1, <2>2 DEF Busy, At
  <2> QED
    BY <2>1, <2>2, <2>3
<1>11. ASSUME NEW d \in Callers, At(d, "joined")'
       PROVE  inflight'[Process[d]] = calls'[d].on
  <2>1. d # c /\ calls'[d] = calls[d] /\ At(d, "joined") /\ calls[d].on # c
    BY <1>2, <1>8, <1>11 DEF At
  <2>2. inflight[Process[d]] = calls[d].on /\ calls[d].on \in Callers
    BY <1>1, <2>1, CallShape DEF OneWorks, At
  <2>3. kind # "key"
    BY <1>1, <2>2, Bounds DEF OneWorks
  <2>4. inflight[Process[c]] = c
    BY <1>1, <2>3 DEF OneWorks
  <2> QED
    BY <1>7, <2>1, <2>2, <2>4, Bounds
<1>12. OneWorks'
  BY <1>9, <1>10, <1>11 DEF OneWorks, CallStep
<1> QED
  BY <1>5, <1>6, <1>12 DEF CachesInv, CallStep
-----------------------------------------------------------------------------
(* What every step may use. *)
LEMMA Facts ==
    ASSUME CachesInv, NEW c \in Callers
    PROVE  /\ clock \in Nat /\ faults \in Nat /\ made \in Nat /\ kind \in Kinds
           /\ entry \in [Servers \cup {"redis"} -> Entries]
           /\ calls[c] \in CallStates /\ CallSound(calls[c])
           /\ EntriesSound /\ Private /\ OneWorks
           /\ Adapter(c) \in Servers \cup {"redis"} /\ Process[c] \in Servers
           /\ inflight[Process[c]] \in Callers \cup {None}
BY Bounds DEF CachesInv, CachesTypeOK, CallsSound, Adapter

(* The adapters are left alone. *)
LEMMA NoEntryWritten ==
    ASSUME CachesInv, UNCHANGED <<kind, shared, clock, entry>>, faults' \in Nat, made' \in Nat
    PROVE  CallStep
BY DEF CachesInv, CachesTypeOK, CallStep, EntriesSound, EntrySound

(* A call comes. *)
LEMMA CallKeeps ==
    ASSUME CachesInv, NEW c \in Callers, Call(c)
    PROVE  CachesInv'
<1>1. PICK call : call = [at |-> "getting", since |-> clock]
  OBVIOUS
<1>2. /\ At(c, "idle") /\ calls' = [calls EXCEPT ![c] = call] /\ UNCHANGED inflight
      /\ UNCHANGED <<kind, shared, clock, entry, faults>> /\ made' = made + 1
  BY <1>1 DEF Call, Become
<1>3. call \in CallStates /\ call.at = "getting" /\ call.since = clock
  BY <1>1, Facts DEF CallStates
<1>4. CallSound(call)
  BY <1>3, Facts, Bounds DEF CallSound, InTime, HoldsSound, NotStale
<1>5. CallStep
  BY <1>2, Facts, NoEntryWritten
<1> QED
  BY <1>2, <1>3, <1>4, <1>5, GoesOnKeeps DEF At, Busy

(* The adapter answers with an entry it has not evicted, or with nothing. *)
LEMMA GetKeeps ==
    ASSUME CachesInv, NEW c \in Callers, Get(c)
    PROVE  CachesInv'
<1>1. PICK a, hit : a = Adapter(c) /\ hit = IF entry[a] # None /\ ~Evicted(entry[a])
                                            THEN entry[a] ELSE None
  OBVIOUS
<1>2. PICK call : call = [at |-> "got", since |-> calls[c].since, hit |-> hit]
  OBVIOUS
<1>3. /\ At(c, "getting") /\ calls' = [calls EXCEPT ![c] = call]
      /\ UNCHANGED <<kind, shared, clock, inflight, faults, made>>
      /\ entry' = entry \/ entry' = [entry EXCEPT ![a] = None]
  BY <1>1, <1>2 DEF Get, Become
<1>4. hit \in Entries /\ None \in Entries /\ calls[c].since \in Nat
  BY <1>1, <1>3, Facts, CallShape DEF Entries, At, Waits
<1>5. call \in CallStates /\ call.at = "got" /\ call.since = calls[c].since /\ call.hit = hit
  BY <1>2, <1>4 DEF CallStates
<1>6. hit # None => EntrySound(hit) /\ clock <= hit.evict
  <2>1. hit # None => hit = entry[a] /\ ~(hit.evict < clock)
    BY <1>1 DEF Evicted
  <2>2. hit # None => hit.evict \in Nat
    BY <1>4, EntryShape
  <2> QED
    BY <1>1, <2>1, <2>2, Facts DEF EntriesSound
<1>7. CallSound(call)
  <2>1. InTime(call)
    BY <1>3, <1>5, Facts DEF CallSound, InTime, At, Waits
  <2> QED
    BY <1>5, <1>6, <2>1 DEF CallSound, HoldsSound, NotStale
<1>8. CallStep
  <2>1. /\ entry' \in [Servers \cup {"redis"} -> Entries]
        /\ \A b \in Servers \cup {"redis"} : entry'[b] \in {entry[b], None}
    BY <1>3, <1>4, Facts
  <2>2. EntriesSound'
    BY <1>3, <2>1, Facts DEF EntriesSound, EntrySound
  <2> QED
    BY <1>3, <2>1, <2>2, Facts DEF CallStep
<1> QED
  BY <1>3, <1>5, <1>7, <1>8, GoesOnKeeps DEF At, Busy

(* An entry is handed out: of a token more than the margin is left by the claim, and
   the claim and the clock are off by a delay each; a count and a key are private. *)
LEMMA HitKeeps ==
    ASSUME CachesInv, NEW c \in Callers, Hit(c)
    PROVE  CachesInv'
<1>1. PICK held : held = calls[c].hit
  OBVIOUS
<1>2. PICK call : call = Answered(held.result, "cache")
  OBVIOUS
<1>3. /\ At(c, "got") /\ held # None /\ calls' = [calls EXCEPT ![c] = call]
      /\ kind = "apple" => held.claimed > calls[c].since + Margin
      /\ kind = "google" => held.claimed > clock + Margin
      /\ UNCHANGED <<kind, shared, clock, entry, inflight, faults, made>>
  BY <1>1, <1>2 DEF Hit, FreshHit, Become
<1>4. held \in Entries /\ calls[c].since \in Nat
  BY <1>1, <1>3, Facts, CallShape DEF At, Waits
<1>5. held.result \in Results /\ held.result.end \in Nat /\ held.claimed \in Nat /\ held.evict \in Nat
  BY <1>3, <1>4, EntryShape
<1>6. /\ call \in CallStates /\ call.at = "answered" /\ call.result = held.result
  BY <1>2, <1>5 DEF CallStates, Answered
<1>7. /\ EntrySound(held) /\ calls[c].since <= clock /\ clock <= calls[c].since + RoundTrip
      /\ kind \notin Tokens => clock <= held.evict
  BY <1>1, <1>3, Facts DEF CallSound, InTime, HoldsSound, At, Waits
<1>8. kind \in Tokens => clock < held.result.end
  BY <1>3, <1>4, <1>5, <1>7, Facts, Bounds DEF EntrySound, Tokens
<1>9. kind = "key" => clock < held.result.end
  BY <1>5, <1>7, Facts DEF EntrySound, Tokens
<1>10. kind = "metrics" => clock <= held.result.end + RoundTrip
  BY <1>5, <1>7, Facts, Bounds DEF EntrySound, Tokens
<1>11. CallSound(call)
  BY <1>6, <1>8, <1>9, <1>10 DEF CallSound, InTime, HoldsSound, NotStale, Waits
<1>12. CallStep
  BY <1>3, Facts, NoEntryWritten
<1> QED
  BY <1>3, <1>6, <1>11, <1>12, GoesOnKeeps DEF At, Busy

(* A caller joins the one registered in its process. *)
LEMMA JoinKeeps ==
    ASSUME CachesInv, NEW c \in Callers, Join(c)
    PROVE  CachesInv'
<1>1. PICK call : call = [at |-> "joined", on |-> inflight[Process[c]]]
  OBVIOUS
<1>2. /\ At(c, "got") /\ kind # "key" /\ inflight[Process[c]] # None
      /\ calls' = [calls EXCEPT ![c] = call]
      /\ UNCHANGED <<kind, shared, clock, entry, inflight, faults, made>>
  BY <1>1 DEF Join, Become
<1>3. call \in CallStates /\ call.at = "joined" /\ call.on = inflight[Process[c]]
  BY <1>1, <1>2, Facts DEF CallStates
<1>4. CallSound(call)
  BY <1>3 DEF CallSound, InTime, HoldsSound, NotStale, Waits
<1>5. CallStep
  BY <1>2, Facts, NoEntryWritten
<1> QED
  BY <1>2, <1>3, <1>4, <1>5, GoesOnKeeps DEF At, Busy

(* Nobody is registered, so nobody in the process works and nobody has joined. *)
LEMMA WorkKeeps ==
    ASSUME CachesInv, NEW c \in Callers, Work(c)
    PROVE  CachesInv'
<1>1. PICK call : call = [at |-> "working", since |-> clock]
  OBVIOUS
<1>2. /\ At(c, "got")
      /\ kind = "key" \/ inflight[Process[c]] = None
      /\ inflight' = Registered(c) /\ calls' = [calls EXCEPT ![c] = call]
      /\ UNCHANGED <<kind, shared, clock, entry, faults, made>>
  BY <1>1 DEF Work, Become
<1>3. call \in CallStates /\ call.at = "working" /\ call.since = clock
  BY <1>1, Facts DEF CallStates
<1>4. CallSound(call)
  BY <1>3, Facts, Bounds DEF CallSound, InTime, HoldsSound, NotStale
<1>5. CallStep
  BY <1>2, Facts, NoEntryWritten
<1>6. /\ calls \in [Callers -> CallStates] /\ inflight \in [Servers -> Callers \cup {None}]
      /\ OneWorks /\ Process[c] \in Servers
  BY Facts DEF CachesInv, CachesTypeOK
<1>7. inflight' \in [Servers -> Callers \cup {None}]
  BY <1>2, <1>6 DEF Registered
<1>8. OneWorks'
  <2>1. /\ \A d \in Callers : d # c => calls'[d] = calls[d]
        /\ calls'[c] = call
    BY <1>2, <1>6
  <2>2. CASE kind = "key"
    BY <1>2, <1>3, <1>6, <2>1, <2>2 DEF OneWorks, Registered, At
  <2>3. CASE kind # "key"
    <3>1. /\ inflight[Process[c]] = None
          /\ \A p \in Servers : inflight'[p] = IF p = Process[c] THEN c ELSE inflight[p]
      BY <1>2, <1>6, <2>3 DEF Registered
    <3>2. \A d \in Callers : calls[d].at \in Busy => Process[d] # Process[c]
      BY <1>6, <2>3, <3>1, Bounds DEF OneWorks
    <3>3. \A d \in Callers : At(d, "joined") => Process[d] # Process[c]
      BY <1>6, <3>1, CallShape, Bounds DEF OneWorks, At
    <3>4. \A p \in Servers : p # Process[c] /\ inflight[p] # None => inflight[p] # c
      BY <1>6 DEF OneWorks
    <3> QED
      BY <1>2, <1>3, <1>6, <2>1, <2>3, <3>1, <3>2, <3>3, <3>4, Bounds DEF OneWorks, Busy, At
  <2> QED
    BY <2>2, <2>3
<1> QED
  BY <1>2, <1>3, <1>4, <1>5, <1>7, <1>8, BecomeKeeps

(* The result is here. *)
LEMMA ObtainKeeps ==
    ASSUME CachesInv, NEW c \in Callers, Obtain(c)
    PROVE  CachesInv'
<1>1. PICK end \in EndOfResult(c) :
          Become(c, [at |-> "obtained", since |-> calls[c].since, result |-> Result(App[c], end)])
  BY DEF Obtain
<1>2. PICK result, call :
          /\ result = Result(App[c], end)
          /\ call = [at |-> "obtained", since |-> calls[c].since, result |-> result]
          /\ calls' = [calls EXCEPT ![c] = call]
  BY <1>1 DEF Become
<1>3. At(c, "working") /\ UNCHANGED <<kind, shared, clock, entry, inflight, faults, made>>
  BY DEF Obtain
<1>4. /\ calls[c].since \in Nat /\ clock \in Nat
      /\ calls[c].since <= clock /\ clock <= calls[c].since + RoundTrip
  BY <1>3, Facts, CallShape DEF CallSound, InTime, At, Waits
<1>5. /\ end \in Nat
      /\ kind \in Tokens => end = clock + ResultLifetime
      /\ kind = "metrics" => end = calls[c].since + ResultLifetime
  BY <1>1, <1>2, <1>4, Facts, Bounds DEF EndOfResult, Kinds, Tokens
<1>6. result \in Results /\ result.end = end
  BY <1>1, <1>2, <1>5 DEF Result, Results
<1>7. call \in CallStates /\ call.at = "obtained" /\ call.since = calls[c].since
      /\ call.result = result
  BY <1>1, <1>2, <1>4, <1>6 DEF CallStates
<1>8. InTime(call) /\ HoldsSound(call) /\ NotStale(call)
  BY <1>4, <1>5, <1>6, <1>7, Bounds DEF InTime, HoldsSound, NotStale, Tokens
<1>9. CallStep
  BY <1>3, Facts, NoEntryWritten
<1> QED
  BY <1>1, <1>2, <1>3, <1>7, <1>8, <1>9, GoesOnKeeps DEF At, Busy, CallSound

(* The claim counts from now, a delay after the result was made at the most. *)
LEMMA StoreKeeps ==
    ASSUME CachesInv, NEW c \in Callers, Store(c)
    PROVE  CachesInv'
<1>1. PICK result, call :
          /\ result = calls[c].result
          /\ call = [at |-> "setting", since |-> clock, result |-> result,
                     claimed |-> clock + ResultLifetime]
  OBVIOUS
<1>2. /\ At(c, "obtained") /\ kind # "key" /\ calls' = [calls EXCEPT ![c] = call]
      /\ UNCHANGED <<kind, shared, clock, entry, inflight, faults, made>>
  BY <1>1 DEF Store, Become
<1>3. /\ calls[c].since \in Nat /\ clock \in Nat /\ kind \in Kinds
      /\ calls[c].since <= clock /\ clock <= calls[c].since + RoundTrip
      /\ result \in Results /\ result.end \in Nat
      /\ kind \in Tokens => calls[c].since + ResultLifetime <= result.end
      /\ kind = "metrics" => result.end = calls[c].since + ResultLifetime
  BY <1>1, <1>2, Facts, CallShape DEF CallSound, InTime, HoldsSound, At, Waits
<1>4. clock + ResultLifetime <= result.end + RoundTrip
  BY <1>2, <1>3, Bounds DEF Kinds
<1>5. clock + ResultLifetime \in Nat
  BY <1>3, Bounds
<1>6. call \in CallStates /\ call.at = "setting" /\ call.since = clock
      /\ call.result = result /\ call.claimed = clock + ResultLifetime
  BY <1>1, <1>3, <1>5 DEF CallStates
<1>7. InTime(call) /\ HoldsSound(call) /\ NotStale(call)
  BY <1>2, <1>3, <1>4, <1>6, Bounds DEF InTime, HoldsSound, NotStale
<1>8. CallStep
  BY <1>2, Facts, NoEntryWritten
<1> QED
  BY <1>2, <1>6, <1>7, <1>8, GoesOnKeeps DEF At, Busy, CallSound

(* The adapter has the entry. *)
LEMMA SetKeeps ==
    ASSUME CachesInv, NEW c \in Callers, Set(c)
    PROVE  CachesInv'
<1>1. PICK result, call, held :
          /\ result = calls[c].result
          /\ call = [at |-> "set", since |-> calls[c].since, result |-> result]
          /\ held = [result |-> result, claimed |-> calls[c].claimed,
                     evict |-> clock + (IF kind \in Tokens THEN ResultLifetime - Margin ELSE ResultLifetime)]
  OBVIOUS
<1>2. /\ At(c, "setting") /\ calls' = [calls EXCEPT ![c] = call]
      /\ entry' = [entry EXCEPT ![Adapter(c)] = held]
      /\ UNCHANGED <<kind, shared, clock, inflight, faults, made>>
  BY <1>1 DEF Set, Become
<1>3. /\ calls[c].since \in Nat /\ clock \in Nat /\ kind \in Kinds /\ calls[c].claimed \in Nat
      /\ calls[c].since <= clock /\ clock <= calls[c].since + RoundTrip
      /\ result \in Results /\ result.end \in Nat /\ kind # "key"
      /\ calls[c].since + ResultLifetime <= result.end + RoundTrip
      /\ calls[c].claimed = calls[c].since + ResultLifetime
      /\ ~shared => clock = calls[c].since
      /\ kind \notin Tokens => ~shared
  BY <1>1, <1>2, Facts, CallShape DEF CallSound, InTime, HoldsSound, At, Waits, Private
<1>4. call \in CallStates /\ call.at = "set" /\ call.since = calls[c].since
      /\ call.result = result
  BY <1>1, <1>3 DEF CallStates
<1>5. CallSound(call)
  BY <1>3, <1>4 DEF CallSound, InTime, HoldsSound, NotStale
<1>6. /\ held.result = result /\ held.claimed = calls[c].claimed /\ held.evict \in Nat
      /\ kind \notin Tokens => held.evict = clock + ResultLifetime
  BY <1>1, <1>3, Bounds
<1>7. held \in Entries
  BY <1>1, <1>3, <1>6 DEF Entries
<1>8. EntrySound(held)
  BY <1>3, <1>6, Bounds DEF EntrySound, Tokens
<1>9. CallStep
  BY <1>2, <1>7, <1>8, Facts DEF CallStep, EntriesSound, EntrySound
<1> QED
  BY <1>2, <1>4, <1>5, <1>9, GoesOnKeeps DEF At, Busy

(* The worker answers, and those that joined: two delays after the result was made, and
   two delays are no more than the margin, which is less than the lifetime. *)
LEMMA SettleKeeps ==
    ASSUME CachesInv, NEW c \in Callers, Settle(c)
    PROVE  CachesInv'
<1>1. PICK result, call : result = calls[c].result /\ call = Answered(result, "work")
  OBVIOUS
<1>2. /\ At(c, "set") /\ SettleAll(c, call) /\ inflight' = Forgotten(c)
      /\ UNCHANGED <<kind, shared, clock, entry, faults, made>>
  BY <1>1 DEF Settle
<1>3. /\ calls[c].since \in Nat /\ clock \in Nat /\ kind \in Kinds
      /\ calls[c].since <= clock /\ clock <= calls[c].since + RoundTrip
      /\ result \in Results /\ result.end \in Nat /\ kind # "key"
      /\ calls[c].since + ResultLifetime <= result.end + RoundTrip
      /\ ~shared => clock = calls[c].since
      /\ kind \notin Tokens => ~shared
  BY <1>1, <1>2, Facts, CallShape DEF CallSound, InTime, HoldsSound, At, Waits, Private
<1>4. call \in CallStates /\ call.at = "answered" /\ call.result = result
  BY <1>1, <1>3 DEF CallStates, Answered
<1>5. kind \in Tokens => clock < result.end
  BY <1>3, Bounds
<1>6. kind = "metrics" => clock <= result.end + RoundTrip
  BY <1>3, Bounds DEF Tokens
<1>7. CallSound(call)
  BY <1>3, <1>4, <1>5, <1>6 DEF CallSound, InTime, HoldsSound, NotStale, Waits
<1>8. CallStep
  BY <1>2, Facts, NoEntryWritten
<1> QED
  BY <1>2, <1>4, <1>7, <1>8, EndKeeps DEF At, Busy

(* The key cache remembers a key no longer than its chain is good. *)
LEMMA RememberKeyKeeps ==
    ASSUME CachesInv, NEW c \in Callers, RememberKey(c)
    PROVE  CachesInv'
<1>1. PICK result, call, ceiling, held :
          /\ result = calls[c].result /\ call = Answered(result, "work")
          /\ ceiling = KeyCeiling(c)
          /\ held = [result |-> result, claimed |-> ceiling, evict |-> ceiling - 1]
  OBVIOUS
<1>2. /\ At(c, "obtained") /\ kind = "key" /\ calls' = [calls EXCEPT ![c] = call]
      /\ \/ entry' = entry
         \/ ceiling > calls[c].since /\ entry' = [entry EXCEPT ![Adapter(c)] = held]
      /\ UNCHANGED <<kind, shared, clock, inflight, faults, made>>
  BY <1>1 DEF RememberKey, Become
<1>3. calls[c].since \in Nat /\ result \in Results /\ result.end \in Nat
  BY <1>1, <1>2, Facts, CallShape DEF At, Waits
<1>4. ceiling \in Nat /\ ceiling <= result.end
  BY <1>1, <1>3, Bounds DEF KeyCeiling
<1>5. /\ call \in CallStates /\ call.at = "answered" /\ call.result = result
      /\ call.from = "work"
  BY <1>1, <1>3 DEF CallStates, Answered
<1>6. CallSound(call)
  BY <1>2, <1>5 DEF CallSound, InTime, HoldsSound, NotStale, Waits, Tokens
<1>7. ASSUME ceiling > calls[c].since
      PROVE  held \in Entries /\ EntrySound(held)
  <2>1. ceiling - 1 \in Nat /\ ceiling - 1 < result.end
    BY <1>3, <1>4, <1>7
  <2> QED
    BY <1>1, <1>2, <1>3, <1>4, <2>1 DEF Entries, EntrySound, Tokens
<1>8. entry' \in [Servers \cup {"redis"} -> Entries] /\ EntriesSound'
  <2>1. CASE entry' = entry
    BY <1>2, <2>1, Facts DEF EntriesSound, EntrySound
  <2>2. CASE ceiling > calls[c].since /\ entry' = [entry EXCEPT ![Adapter(c)] = held]
    BY <1>2, <1>7, <2>2, Facts DEF EntriesSound, EntrySound
  <2> QED
    BY <1>2, <2>1, <2>2
<1>9. CallStep
  BY <1>2, <1>8, Facts DEF CallStep
<1>10. OneWorks'
  <2>1. /\ calls \in [Callers -> CallStates] /\ OneWorks
    BY DEF CachesInv, CachesTypeOK
  <2> QED
    BY <1>2, <1>5, <2>1 DEF OneWorks, At, Busy
<1>11. inflight' \in [Servers -> Callers \cup {None}]
  BY <1>2 DEF CachesInv, CachesTypeOK
<1> QED
  BY <1>2, <1>5, <1>6, <1>9, <1>10, <1>11, BecomeKeeps

(* The adapter or the work fails. *)
LEMMA FailKeeps ==
    ASSUME CachesInv, NEW c \in Callers, Fail(c)
    PROVE  CachesInv'
<1>1. PICK call : call = [at |-> "failed"]
  OBVIOUS
<1>2. UNCHANGED <<kind, shared, clock, entry, made>> /\ faults' = faults + 1
  BY DEF Fail
<1>3. call \in CallStates /\ call.at = "failed"
  BY <1>1 DEF CallStates
<1>4. CallSound(call)
  BY <1>3 DEF CallSound, InTime, HoldsSound, NotStale, Waits
<1>5. CallStep
  BY <1>2, Facts, NoEntryWritten
<1>6. CASE At(c, "getting") /\ Become(c, call) /\ UNCHANGED inflight
  BY <1>3, <1>4, <1>5, <1>6, GoesOnKeeps DEF At, Busy, Become
<1>7. CASE /\ calls[c].at \in {"working", "setting", "set"}
           /\ SettleAll(c, call) /\ inflight' = Forgotten(c)
  BY <1>3, <1>4, <1>5, <1>7, EndKeeps DEF Busy
<1> QED
  BY <1>1, <1>6, <1>7 DEF Fail

(* The caller has its answer. *)
LEMMA ReturnKeeps ==
    ASSUME CachesInv, NEW c \in Callers, ReturnCall(c)
    PROVE  CachesInv'
<1>1. PICK call : call = NotCalling
  OBVIOUS
<1>2. /\ calls[c].at \in {"answered", "failed"} /\ calls' = [calls EXCEPT ![c] = call]
      /\ UNCHANGED <<kind, shared, clock, entry, inflight, faults, made>>
  BY <1>1 DEF ReturnCall, Become
<1>3. call \in CallStates /\ call.at = "idle"
  BY <1>1 DEF CallStates, NotCalling
<1>4. CallSound(call)
  BY <1>3 DEF CallSound, InTime, HoldsSound, NotStale, Waits
<1>5. CallStep
  BY <1>2, Facts, NoEntryWritten
<1> QED
  BY <1>2, <1>3, <1>4, <1>5, GoesOnKeeps DEF At, Busy

(* Time passes where round trips are on their way. *)
LEMMA TimePassesKeeps ==
    ASSUME CachesInv, TimePasses
    PROVE  CachesInv'
<1>1. /\ clock' = clock + 1 /\ UNCHANGED <<kind, shared, entry, inflight, calls, faults, made>>
      /\ \A c \in Callers : MayTakeTime(c)
  BY DEF TimePasses
<1>2. CachesTypeOK' /\ Private' /\ EntriesSound' /\ OneWorks'
  BY <1>1 DEF CachesInv, CachesTypeOK, Private, EntriesSound, EntrySound, OneWorks, At
<1>3. ASSUME NEW c \in Callers
      PROVE  CallSound(calls[c])'
  <2>1. PICK call \in CallStates : call = calls[c]
    BY Facts
  <2>2. CASE call.at \in {"idle", "joined"}
    BY <1>1, <2>1, <2>2 DEF CallSound, InTime, HoldsSound, NotStale, Waits
  <2>3. CASE /\ call.at \in {"working", "obtained"} \/ shared
             /\ call.at \in Waits /\ clock < call.since + RoundTrip
    <3>1. call.since \in Nat /\ clock \in Nat /\ call.since <= clock
      BY <2>1, <2>3, CallShape, Facts DEF CallSound, InTime
    <3>2. call.since <= clock' /\ clock' <= call.since + RoundTrip
      BY <1>1, <2>3, <3>1, Bounds
    <3>3. InTime(call)'
      BY <1>1, <2>3, <3>2 DEF InTime
    <3>4. HoldsSound(call)'
      BY <1>1, <2>1, <2>3, Facts DEF CallSound, HoldsSound, EntrySound, Private
    <3> QED
      BY <1>1, <2>1, <2>3, <3>3, <3>4 DEF CallSound, NotStale, Waits
  <2> QED
    BY <1>1, <2>1, <2>2, <2>3 DEF MayTakeTime, Waits
<1> QED
  BY <1>1, <1>2, <1>3 DEF CachesInv, CallsSound
-----------------------------------------------------------------------------
(* Nobody has called. *)
LEMMA CachesStart == CachesInit => CachesInv
<1> SUFFICES ASSUME CachesInit PROVE CachesInv
  OBVIOUS
<1>1. NotCalling \in CallStates /\ NotCalling.at = "idle" /\ None \in Entries
  BY DEF NotCalling, CallStates, Entries
<1>2. CachesTypeOK
  BY <1>1 DEF CachesInit, CachesTypeOK
<1>3. Private /\ EntriesSound
  BY DEF CachesInit, Private, EntriesSound
<1>4. CallSound(NotCalling)
  BY <1>1 DEF CallSound, InTime, HoldsSound, NotStale, Waits
<1>5. CallsSound
  BY <1>4 DEF CachesInit, CallsSound
<1>6. OneWorks
  BY <1>1 DEF CachesInit, OneWorks, At, Busy
<1> QED
  BY <1>2, <1>3, <1>5, <1>6 DEF CachesInv

(* Every step keeps the invariant. *)
LEMMA CachesStep ==
    ASSUME CachesInv, [CachesNext]_cacheVars
    PROVE  CachesInv'
<1>1. ASSUME NEW c \in Callers, Call(c) \/ Progress(c) \/ Fail(c)
      PROVE  CachesInv'
  BY <1>1, CallKeeps, GetKeeps, HitKeeps, JoinKeeps, WorkKeeps, ObtainKeeps, StoreKeeps, SetKeeps,
     SettleKeeps, RememberKeyKeeps, FailKeeps, ReturnKeeps DEF Progress
<1>2. CASE UNCHANGED cacheVars
  <2>1. UNCHANGED <<kind, shared, clock, entry, inflight, calls, faults, made>>
    BY <1>2 DEF cacheVars
  <2>2. CachesTypeOK' /\ Private' /\ EntriesSound' /\ OneWorks'
    BY <2>1 DEF CachesInv, CachesTypeOK, Private, EntriesSound, EntrySound, OneWorks, At
  <2>3. CallsSound'
    BY <2>1 DEF CachesInv, CallsSound, CallSound, InTime, HoldsSound, NotStale, EntrySound
  <2> QED
    BY <2>2, <2>3 DEF CachesInv
<1> QED
  BY <1>1, <1>2, TimePassesKeeps DEF CachesNext

(* The inductive invariant holds. *)
LEMMA CachesInvariance == CachesSpec => []CachesInv
<1>1. CachesInit => CachesInv
  BY CachesStart
<1>2. CachesInv /\ [CachesNext]_cacheVars => CachesInv'
  BY CachesStep
<1> QED
  BY <1>1, <1>2, PTL DEF CachesSpec

(* The state has its types, for any callers, processes, lifetimes and delays. *)
THEOREM CachesTypeCorrect == CachesSpec => []CachesTypeOK
<1>1. CachesInv => CachesTypeOK
  BY DEF CachesInv
<1> QED
  BY <1>1, CachesInvariance, PTL

(* Whatever the callers, processes and failures, nobody is handed a token that has ended,
   a cached key whose chain has ended, or a count older than the TTL and a scan: the
   margin of 60 s makes good for two round trips of up to 30 s each. *)
THEOREM NothingStaleHolds == CachesSpec => []NothingStale
<1>1. CachesInv => NothingStale
  <2> SUFFICES ASSUME CachesInv, NEW c \in Callers, At(c, "answered")
               PROVE  LET result == calls[c].result
                      IN CASE kind \in Tokens -> clock < result.end
                           [] kind = "key" -> calls[c].from = "cache" => clock < result.end
                           [] kind = "metrics" -> clock <= result.end + RoundTrip
    BY DEF NothingStale
  <2>1. NotStale(calls[c]) /\ kind \in Kinds /\ calls[c].at = "answered"
    BY Facts DEF CallSound, At
  <2> QED
    BY <2>1 DEF NotStale, Kinds, Tokens
<1> QED
  BY <1>1, CachesInvariance, PTL

(* At most one caller of a process does the work at a time, and who joined waits for the
   one that is registered, which is still at it: a failure or an answer strands nobody
   on work that has ended (the finally of makeAppleApiJwt, getCachedAccessToken and
   createMetricsCache). *)
THEOREM WorkIsShared == CachesSpec => []OneWorks
<1>1. CachesInv => OneWorks
  BY DEF CachesInv
<1> QED
  BY <1>1, CachesInvariance, PTL
=============================================================================
