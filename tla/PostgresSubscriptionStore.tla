---------------------- MODULE PostgresSubscriptionStore ----------------------
(***************************************************************************)
(* PostgresSubscriptionStore.save (packages/server/src/stores/postgres.ts) *)
(* while a table of version 0.27 gets the columns of 0.28 (state_as_of,    *)
(* grace_period_expires_at; stores/schema.ts): several server processes,   *)
(* each with its own memory of having found the columns missing, save over *)
(* one table.                                                              *)
(*                                                                         *)
(* A query is two steps, the statement and its reply, since a process      *)
(* learns what the statement met only later.  A snapshot of a subscription *)
(* is the number of the store event it was taken at; Snapshot says what it *)
(* contains.                                                               *)
(***************************************************************************)
EXTENDS Lifecycle, FiniteSets

CONSTANTS
    Txs,         \* originalTransactionIds of one user
    Snapshot,    \* Snapshot[tx][k]: what the provider says of tx at its k-th event
    Processes,   \* server processes
    Jobs,        \* queries in flight at a time
    Window,      \* the 60 seconds for which a process remembers, in ticks
    Delay,       \* bound: the longest a query takes, in ticks
    MaxSaves,    \* bound on the calls of save()
    MaxTime      \* bound on the clock

ASSUME SnapshotAssumption ==
    \A tx \in Txs : \A k \in DOMAIN Snapshot[tx] :
        /\ k \in Nat \ {0}
        /\ Snapshot[tx][k].status \in Status
        /\ Snapshot[tx][k].expires \in Nat
        /\ Snapshot[tx][k].grace \in Nat
ASSUME TimeAssumption == Window \in Nat \ {0} /\ Delay \in Nat \ {0}
                         /\ MaxSaves \in Nat /\ MaxTime \in Nat

VARIABLES
    now,       \* the clock
    columns,   \* when the 0.28 columns were added, or Never
    rows,      \* the table: per tx the snapshot it was written from, state_as_of, grace_period_expires_at
    remembers, \* per process, ticks left of columnsMissingSince's minute; 0: undefined or over
    jobs,      \* the queries in flight
    saves      \* calls of save() so far

storeVars == <<now, columns, rows, remembers, jobs, saves>>

Never == MaxTime + 1

NoRow == [of |-> 0, asOf |-> NoTime, grace |-> 0]

Free == [at |-> "free"]

Row == [of : Nat, asOf : Nat, grace : Nat]

(* What the table may hold. *)
Tables == {table \in [Txs -> Row] :
               \A tx \in Txs : /\ table[tx].of \in DOMAIN Snapshot[tx] \cup {0}
                              /\ table[tx].asOf \in DOMAIN Snapshot[tx] \cup {NoTime}}

(* A query of save() or of initSchema(), and since when it runs. *)
SaveJob == [at : {"guarded", "saved", "undefinedColumn", "legacy"},
            process : Processes, tx : Txs, of : Nat, since : Nat]

SchemaJob == [at : {"ddl", "ddlDone"}, process : Processes, since : Nat]

StoreTypeOK ==
    /\ now \in 0..MaxTime
    /\ columns \in 0..Never
    /\ rows \in Tables
    /\ remembers \in [Processes -> 0..Window]
    /\ jobs \in [Jobs -> SaveJob \cup SchemaJob \cup {Free}]
    /\ \A j \in Jobs : jobs[j] \in SaveJob => jobs[j].of \in DOMAIN Snapshot[jobs[j].tx]
    /\ saves \in 0..MaxSaves

StoreInit ==
    /\ now = 0
    /\ columns = Never
    /\ rows = [tx \in Txs |-> NoRow]
    /\ remembers = [p \in Processes |-> 0]
    /\ jobs = [j \in Jobs |-> Free]
    /\ saves = 0

HaveColumns == columns # Never

Goto(j, at) == jobs' = [jobs EXCEPT ![j].at = at, ![j].since = now]

Done(j) == jobs' = [jobs EXCEPT ![j] = Free]

-----------------------------------------------------------------------------
(* save() *)

(* Mutant of Remembering: once missing, missing for the life of the process. *)
RememberingForever(left) == Window

(* Date.now() - columnsMissingSince runs on. *)
Remembering(left) == IF left = 0 THEN 0 ELSE left - 1

Save(j, p, tx, k) ==
    /\ jobs[j] = Free
    /\ saves < MaxSaves
    /\ saves' = saves + 1
    /\ jobs' = [jobs EXCEPT ![j] = [at |-> IF remembers[p] > 0 THEN "legacy" ELSE "guarded",
                                    process |-> p, tx |-> tx, of |-> k, since |-> now]]
    /\ UNCHANGED <<now, columns, rows, remembers>>

(* SAVE_SUBSCRIPTION_SQL. *)
RunGuarded(j) ==
    LET tx == jobs[j].tx
        k == jobs[j].of
        stored == rows[tx]
    IN /\ jobs[j].at = "guarded"
       /\ rows' = IF HaveColumns /\ ~IsStaleSnapshot(stored.asOf, k)
                  THEN [rows EXCEPT ![tx] = [of |-> k, asOf |-> k, grace |-> Snapshot[tx][k].grace]]
                  ELSE rows
       /\ jobs' = [jobs EXCEPT ![j].at = IF HaveColumns THEN "saved" ELSE "undefinedColumn"]
       /\ UNCHANGED <<now, columns, remembers, saves>>

(* The reply: the columns are there, or 42703 and the 0.27 statement next. *)
ColumnsSeen(j) ==
    /\ jobs[j].at = "saved"
    /\ remembers' = [remembers EXCEPT ![jobs[j].process] = 0]
    /\ Done(j)
    /\ UNCHANGED <<now, columns, rows, saves>>

ColumnsMissing(j) ==
    /\ jobs[j].at = "undefinedColumn"
    /\ remembers' = [remembers EXCEPT ![jobs[j].process] = Window]
    /\ Goto(j, "legacy")
    /\ UNCHANGED <<now, columns, rows, saves>>

(* SAVE_SUBSCRIPTION_SQL_LEGACY: no guard, and the 0.28 columns of an existing
   row keep what they hold. *)
RunLegacy(j) ==
    /\ jobs[j].at = "legacy"
    /\ rows' = [rows EXCEPT ![jobs[j].tx].of = jobs[j].of]
    /\ Done(j)
    /\ UNCHANGED <<now, columns, remembers, saves>>

(* Any other error, before or after the statement took effect: save throws. *)
QueryFails(j) ==
    /\ jobs[j] # Free
    /\ Done(j)
    /\ UNCHANGED <<now, columns, rows, remembers, saves>>

-----------------------------------------------------------------------------
(* The migration: initSchema() of a process, or sql/schema.sql by hand. *)

InitSchema(j, p) ==
    /\ jobs[j] = Free
    /\ ~HaveColumns
    /\ jobs' = [jobs EXCEPT ![j] = [at |-> "ddl", process |-> p, since |-> now]]
    /\ UNCHANGED <<now, columns, rows, remembers, saves>>

AddColumns == columns' = IF HaveColumns THEN columns ELSE now

RunDdl(j) ==
    /\ jobs[j].at = "ddl"
    /\ AddColumns
    /\ jobs' = [jobs EXCEPT ![j].at = "ddlDone"]
    /\ UNCHANGED <<now, rows, remembers, saves>>

SchemaReady(j) ==
    /\ jobs[j].at = "ddlDone"
    /\ remembers' = [remembers EXCEPT ![jobs[j].process] = 0]
    /\ Done(j)
    /\ UNCHANGED <<now, columns, rows, saves>>

ApplySchemaByHand ==
    /\ ~HaveColumns
    /\ AddColumns
    /\ UNCHANGED <<now, rows, remembers, jobs, saves>>

(* A tick; no query takes longer than Delay. *)
Tick ==
    /\ now < MaxTime
    /\ \A j \in Jobs : jobs[j] # Free => now < jobs[j].since + Delay
    /\ now' = now + 1
    /\ remembers' = [p \in Processes |-> Remembering(remembers[p])]
    /\ UNCHANGED <<columns, rows, jobs, saves>>

StoreNext ==
    \/ \E j \in Jobs :
        \/ \E p \in Processes : \/ \E tx \in Txs : \E k \in DOMAIN Snapshot[tx] : Save(j, p, tx, k)
                                \/ InitSchema(j, p)
        \/ RunGuarded(j) \/ ColumnsSeen(j) \/ ColumnsMissing(j) \/ RunLegacy(j)
        \/ QueryFails(j) \/ RunDdl(j) \/ SchemaReady(j)
    \/ ApplySchemaByHand
    \/ Tick

-----------------------------------------------------------------------------
(* isSubscriptionEntitled of a row as SELECT * returns it. *)
Entitles(table, tx, time) ==
    LET row == table[tx]
        data == Snapshot[tx][row.of]
    IN row.of # 0 /\ IsSubscriptionEntitled(data.status, data.expires > time, row.grace > time)
=============================================================================
