------------------------------- MODULE Metrics -------------------------------
(***************************************************************************)
(* The counts of GET /onesub/metrics/... (packages/server/src), over the   *)
(* stores of EntitlementReads:                                             *)
(*                                                                         *)
(*   metrics-aggregate.ts  the reduction of a store's records              *)
(*   stores/postgres.ts    aggregateActive, aggregateNonConsumable,        *)
(*                         aggregateViaSql: the same counts by GROUP BY    *)
(*   routes/metrics.ts     the four routes                                 *)
(*   metrics-cache.ts      the keys their answers are cached under         *)
(*                                                                         *)
(* One request at a time, in one process: how requests share the work of   *)
(* one key is the matter of ResultCaches.  What was counted, and when, is  *)
(* kept next to each answer.                                               *)
(***************************************************************************)
EXTENDS EntitlementReads

CONSTANTS
    Lifetime,      \* the record of the non-consumable, when bought
    Coins,         \* the record of a consumable the user has always had
    Windows,       \* the windows <<from, to>> asked for
    Day,           \* ticks per UTC day
    Ttl,           \* metricsCacheTtlSeconds, also the grid of the keys
    MaxAsks        \* bound on the requests

ASSUME TxsAssumption == IsFiniteSet(Txs)
ASSUME MetricsAssumption ==
    /\ Day \in Nat \ {0} /\ Ttl \in Nat \ {0}
    /\ MaxAsks \in Nat
    /\ \A w \in Windows : w[1] \in Nat /\ w[2] \in Nat

VARIABLES
    cache,     \* the entries of the metrics cache
    asks       \* metrics requests so far

metricsVars == <<cache, asks>>

readsVars == <<vars, metricsVars>>

WindowedRoutes == {"started", "expired", "purchases-started"}

GroupBys == {"none", "day"}

ReadsInit ==
    /\ Init
    /\ cache = {}
    /\ asks = 0

(* listAll() of the subscription store. *)
Subscriptions ==
    {LET data == Snapshot[tx][rows[tx].of]
     IN [id |-> tx, product |-> data.product, platform |-> data.platform,
         status |-> data.status, purchased |-> data.purchased, expires |-> data.expires,
         grace |-> rows[tx].grace] : tx \in {t \in Txs : rows[t].of # 0}}

(* listAll() of the purchase store. *)
Purchases == {Coins} \cup (IF bought THEN {Lifetime} ELSE {})

-----------------------------------------------------------------------------
(* metrics-aggregate.ts *)

UtcDay(t) == t \div Day

(* bump, over a set of records. *)
Tally(records, Key(_)) ==
    [k \in {Key(r) : r \in records} |-> Cardinality({r \in records : Key(r) = k})]

(* emptyDailyBuckets: from the midnight before from, as long as not after to. *)
DaysOf(from, to) == {d \in UtcDay(from)..UtcDay(to) : d * Day <= to}

IsEnded(r) == r.status \in {"expired", "canceled"}

IsNonConsumable(r) == r.type = "non_consumable"

(* The record's place in time, and whether it counts at all. *)
Anchor(route, r) == IF route = "expired" THEN r.expires ELSE r.purchased

Include(route, r) == CASE route = "started" -> TRUE
                       [] route = "expired" -> IsEnded(r)
                       [] route = "purchases-started" -> IsNonConsumable(r)

Within(route, r, window) == Anchor(route, r) >= window[1] /\ Anchor(route, r) <= window[2]

AggregateRange(records, route, window, groupBy) ==
    LET counted == {r \in records : Include(route, r) /\ Within(route, r, window)}
    IN [total |-> Cardinality(counted),
        byProduct |-> Tally(counted, LAMBDA r : r.product),
        byPlatform |-> Tally(counted, LAMBDA r : r.platform),
        buckets |-> [d \in IF groupBy = "day" THEN DaysOf(window[1], window[2]) ELSE {} |->
                        Cardinality({r \in counted : UtcDay(Anchor(route, r)) = d})]]

ActiveSubscriptions(records, time) ==
    {r \in records : IsSubscriptionEntitled(r.status, r.expires > time, r.grace > time)}

AggregateActiveSubscriptions(records, time) ==
    LET counted == ActiveSubscriptions(records, time)
    IN [active |-> Cardinality(counted),
        gracePeriod |-> Cardinality({r \in counted : r.status = "grace_period"}),
        byProduct |-> Tally(counted, LAMBDA r : r.product),
        byPlatform |-> Tally(counted, LAMBDA r : r.platform)]

AggregateNonConsumablePurchases(records) ==
    LET counted == {r \in records : IsNonConsumable(r)}
    IN [total |-> Cardinality(counted),
        byProduct |-> Tally(counted, LAMBDA r : r.product),
        byPlatform |-> Tally(counted, LAMBDA r : r.platform)]

CountOf(counts, k) == IF k \in DOMAIN counts THEN counts[k] ELSE 0

(* { ...a }, and the counts of b added to it. *)
Merged(a, b) == [k \in DOMAIN a \cup DOMAIN b |-> CountOf(a, k) + CountOf(b, k)]

ComposeActiveResponse(s, p) ==
    [total |-> s.active + p.total,
     activeSubscriptions |-> s.active,
     gracePeriodSubscriptions |-> s.gracePeriod,
     nonConsumablePurchases |-> p.total,
     byProduct |-> s.byProduct,
     byProductPurchases |-> p.byProduct,
     byPlatform |-> Merged(s.byPlatform, p.byPlatform)]

-----------------------------------------------------------------------------
(* stores/postgres.ts: SELECT ..., COUNT of rows ... GROUP BY, and the loop over the
   groups it returns. *)

(* Mutant of SqlDay: date_trunc in the time zone of the session, a tick west. *)
SqlDayOfSession(t) == ((t + Day - 1) \div Day) - 1

(* date_trunc('day', ... AT TIME ZONE 'UTC'). *)
SqlDay(t) == t \div Day

(* GROUP BY: each group with its number of rows. *)
Grouped(records, Group(_)) ==
    {[group |-> g, n |-> Cardinality({r \in records : Group(r) = g})]
        : g \in {Group(r) : r \in records}}

(* Their rows together: as many as the disjoint union of sets that large. *)
CountIn(groups) == Cardinality(UNION {{g} \X (1..g.n) : g \in groups})

Summed(groups, Column(_)) ==
    [k \in {Column(g.group) : g \in groups} |-> CountIn({g \in groups : Column(g.group) = k})]

(* aggregateViaSql: what the statement selects, and the loop over its groups. *)
SelectRange(records, route, window, groupBy) ==
    Grouped({r \in records : Within(route, r, window) /\ Include(route, r)}, LAMBDA r :
        [product |-> r.product, platform |-> r.platform,
         day |-> IF groupBy = "day" THEN SqlDay(Anchor(route, r)) ELSE 0])

RangeOf(groups, window, groupBy) ==
    LET perDay == Summed(groups, LAMBDA g : g.day)
    IN [total |-> CountIn(groups),
        byProduct |-> Summed(groups, LAMBDA g : g.product),
        byPlatform |-> Summed(groups, LAMBDA g : g.platform),
        buckets |-> [d \in IF groupBy = "day" THEN DaysOf(window[1], window[2]) ELSE {} |->
                        CountOf(perDay, d)]]

AggregateViaSql(records, route, window, groupBy) ==
    RangeOf(SelectRange(records, route, window, groupBy), window, groupBy)

(* GREATEST(expires_at, COALESCE(grace_period_expires_at, expires_at)) > $2 *)
SqlActive(r, time) ==
    /\ r.status \in EntitledStatus
    /\ (IF r.grace # NoTime /\ r.grace > r.expires THEN r.grace
        ELSE r.expires) > time

SelectActive(records, time) ==
    Grouped({r \in records : SqlActive(r, time)}, LAMBDA r :
        [product |-> r.product, platform |-> r.platform, status |-> r.status])

ActiveOf(groups) ==
    [active |-> CountIn(groups),
     gracePeriod |-> CountIn({g \in groups : g.group.status = "grace_period"}),
     byProduct |-> Summed(groups, LAMBDA g : g.product),
     byPlatform |-> Summed(groups, LAMBDA g : g.platform)]

SqlAggregateActive(records, time) == ActiveOf(SelectActive(records, time))

SelectNonConsumable(records) ==
    Grouped({r \in records : IsNonConsumable(r)}, LAMBDA r :
        [product |-> r.product, platform |-> r.platform])

NonConsumableOf(groups) ==
    [total |-> CountIn(groups),
     byProduct |-> Summed(groups, LAMBDA g : g.product),
     byPlatform |-> Summed(groups, LAMBDA g : g.platform)]

SqlAggregateNonConsumable(records) == NonConsumableOf(SelectNonConsumable(records))

-----------------------------------------------------------------------------
(* The routes *)

QuantizeToWindow(t) == (t \div Ttl) * Ttl

(* Mutant of RangeKey: the day series and the totals share an entry. *)
RangeKeyWithoutGroupBy(route, window, groupBy) ==
    <<route, QuantizeToWindow(window[1]), QuantizeToWindow(window[2]), "none">>

RangeKey(route, window, groupBy) ==
    <<route, QuantizeToWindow(window[1]), QuantizeToWindow(window[2]), groupBy>>

ActiveKey(time) == <<"active", QuantizeToWindow(time), 0, "none">>

Fresh(entry) == entry.expires >= now

Hits(key) == {entry \in cache : entry.key = key /\ Fresh(entry)}

(* get evicts the entry it finds too old. *)
Got(key) == {entry \in cache : entry.key = key => Fresh(entry)}

Put(entry) == {e \in cache : e.key # entry.key} \cup {entry}

(* The answer to what was asked, and of it: the question the counts were taken
   for, when they were taken, and when they were put into the cache. *)
Told(asked, entry) ==
    [at |-> "told", asked |-> asked, counts |-> entry.counts, of |-> entry.of,
     taken |-> entry.taken, ended |-> entry.ended]

Asked(route, window, groupBy) ==
    [route |-> route, window |-> window, groupBy |-> groupBy, time |-> now]

Ask(key, asked, first) ==
    /\ request = Idle
    /\ asks < MaxAsks
    /\ asks' = asks + 1
    /\ cache' = Got(key)
    /\ \/ \E entry \in Hits(key) : request' = Told(asked, entry)
       \/ Hits(key) = {} /\ request' = first

(* A window that ends before it starts is refused. *)
AskRange(route, window, groupBy) ==
    LET key == RangeKey(route, window, groupBy)
        asked == Asked(route, window, groupBy)
    IN /\ window[1] <= window[2]
       /\ Ask(key, asked, [at |-> "scanning", asked |-> asked, key |-> key])

(* What is told is cached under the key it was asked for, and its lifetime
   counted from here, when the awaited work is over. *)
TellAndCache(counts, taken) ==
    LET entry == [key |-> request.key, of |-> request.asked, counts |-> counts,
                  taken |-> taken, ended |-> now, expires |-> now + Ttl]
    IN /\ cache' = Put(entry)
       /\ request' = Told(request.asked, entry)

(* The store is read.  Either path: a Postgres store groups in SQL, the others
   reduce listAll(). *)
Scan ==
    LET asked == request.asked
        records == IF asked.route = "purchases-started" THEN Purchases ELSE Subscriptions
    IN /\ request.at = "scanning"
       /\ \E counts \in {AggregateRange(records, asked.route, asked.window, asked.groupBy),
                         AggregateViaSql(records, asked.route, asked.window, asked.groupBy)} :
             request' = [at |-> "scanned", asked |-> asked, key |-> request.key,
                         counts |-> counts, taken |-> now]
       /\ UNCHANGED <<cache, asks>>

(* What it answered arrives, some time after it was read. *)
ScanReturns ==
    /\ request.at = "scanned"
    /\ TellAndCache(request.counts, request.taken)
    /\ UNCHANGED asks

(* GET /onesub/metrics/active: both halves are asked for at once, and answered
   each at its time. *)
AskActive ==
    LET key == ActiveKey(now)
        asked == Asked("active", <<now, now>>, "none")
    IN Ask(key, asked, [at |-> "halves", asked |-> asked, key |-> key,
                        halves |-> [h \in {} |-> {}]])

(* The statement of aggregateActive names a column of 0.28. *)
ActiveCounts ==
    {AggregateActiveSubscriptions(Subscriptions, request.asked.time)}
        \cup (IF HaveColumns THEN {SqlAggregateActive(Subscriptions, request.asked.time)} ELSE {})

ReadHalf(half) ==
    /\ request.at = "halves"
    /\ half \notin DOMAIN request.halves
    /\ \E counts \in IF half = "subscriptions" THEN ActiveCounts
                     ELSE {AggregateNonConsumablePurchases(Purchases),
                           SqlAggregateNonConsumable(Purchases)} :
          request' = [request EXCEPT !.halves =
                         [h \in DOMAIN request.halves \cup {half} |->
                             IF h = half THEN counts ELSE request.halves[h]]]
    /\ UNCHANGED <<cache, asks>>

Compose ==
    /\ request.at = "halves"
    /\ DOMAIN request.halves = {"subscriptions", "purchases"}
    /\ TellAndCache(ComposeActiveResponse(request.halves["subscriptions"],
                                          request.halves["purchases"]),
                    request.asked.time)
    /\ UNCHANGED asks

(* A store throws: 500, and nothing is cached; or the client has its answer. *)
EndMetrics ==
    /\ request.at \in {"scanning", "scanned", "halves", "told"}
    /\ request' = Idle
    /\ UNCHANGED <<cache, asks>>

MetricsNext ==
    \/ \E route \in WindowedRoutes : \E window \in Windows : \E groupBy \in GroupBys :
          AskRange(route, window, groupBy)
    \/ Scan
    \/ ScanReturns
    \/ AskActive
    \/ \E half \in {"subscriptions", "purchases"} : ReadHalf(half)
    \/ Compose
    \/ EndMetrics

ReadsNext ==
    \/ Next /\ UNCHANGED metricsVars
    \/ MetricsNext /\ UNCHANGED <<storeVars, bought, changes>> /\ Watch

ReadsSpec == ReadsInit /\ [][ReadsNext]_readsVars

-----------------------------------------------------------------------------
(* Properties *)

Quiet == request = Idle /\ asks = 0 /\ \A j \in Jobs : jobs[j] = Free

(* metrics-aggregate.ts is what the numbers mean: over any rows, the GROUP BY
   of Postgres gives the counts the reduction gives, whichever window is asked
   for, whatever the time zone of the database session, and whoever is in a
   billing grace period.  A matter of the stores alone, it is looked at while
   nobody asks and nothing is being written. *)
SqlMatchesReduction ==
    Quiet =>
        /\ \A window \in Windows : \A groupBy \in GroupBys :
              /\ \A route \in {"started", "expired"} :
                    AggregateViaSql(Subscriptions, route, window, groupBy)
                        = AggregateRange(Subscriptions, route, window, groupBy)
              /\ AggregateViaSql(Purchases, "purchases-started", window, groupBy)
                    = AggregateRange(Purchases, "purchases-started", window, groupBy)
        /\ \A time \in 0..MaxTime :
              SqlAggregateActive(Subscriptions, time) = AggregateActiveSubscriptions(Subscriptions, time)
        /\ SqlAggregateNonConsumable(Purchases) = AggregateNonConsumablePurchases(Purchases)

Near(a, b) == a < b + Ttl /\ b < a + Ttl

Days(window) == UtcDay(window[1])..UtcDay(window[2])

(* A day that ends within a TTL of the window's start, or starts within one of
   its end. *)
AtTheEdge(d, window) == Near((d + 1) * Day, window[1]) \/ Near(d * Day, window[2])

(* The answer tells of what was asked: the counts are those of the same route
   for a window whose ends are less than a TTL away; they were read during
   work that ended at most a TTL before the question, and those of the active
   route are at most a TTL old themselves.  A daily series has a day for every
   day of the window it is of, which are those of the window asked for but for
   days at the very edge of it. *)
AnswersTheQuestion ==
    request.at = "told" =>
        LET asked == request.asked
            of == request.of
        IN /\ of.route = asked.route
           /\ Near(of.window[1], asked.window[1]) /\ Near(of.window[2], asked.window[2])
           /\ of.time <= request.taken /\ request.taken <= request.ended
           /\ asked.time <= request.ended + Ttl
           /\ asked.route = "active" => asked.time <= request.taken + Ttl
           /\ asked.groupBy = "day" =>
                 /\ DOMAIN request.counts.buckets = Days(of.window)
                 /\ \A d \in Days(of.window) \cup Days(asked.window) :
                       \/ d \in Days(of.window) \cap Days(asked.window)
                       \/ AtTheEdge(d, asked.window)

(* "So the counts always describe a real window, at most one TTL stale"
   (metrics-cache.ts:72-73): read a TTL before the question at the earliest. *)
AtMostATtlOld == request.at = "told" => request.asked.time <= request.taken + Ttl

(* "One entry per UTC day in the window, zero-filled" (shared/src/types.ts:685),
   the window being the from and to that the answer echoes. *)
DaysAsAsked ==
    request.at = "told" /\ request.asked.groupBy = "day" =>
        DOMAIN request.counts.buckets = Days(request.asked.window)
=============================================================================
