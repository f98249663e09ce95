# onesub in TLA+

A specification of [onesub](../src/README.md), a self-hosted server that keeps
the subscriptions and purchases of mobile apps: TLA+ modules for the parts whose
correctness depends on order, overlap and failure, model-checked with TLC on
small instances, and theorems about them checked by TLAPS for every instance.

Paths below are relative to `src/packages/server/src/` unless they start with
another package's name.

## 1. The system

A device buys in the App Store or on Google Play and posts the receipt to the
server; the stores report what happens to the purchase later by webhook. Both
write the same record, and reads are answered from that record alone.

```
 device ── POST /onesub/validate ──────► routes/validate.ts ──┐
        ── POST /onesub/purchase/... ──► routes/purchase.ts ──┤   SubscriptionStore
 App Store ── notification ──┐                                ├─► PurchaseStore
 Google Play ── RTDN ────────┴─► idempotency gate ─► process* ┘   (memory, Redis, Postgres)
                                 webhook-events.ts     ▲
                                        └─► queue ─────┘  webhook-queue.ts
 host app ── status, entitlements, metrics ──────────────────────► reads
```

| Component | State it keeps | Operations | What is hard about it | What makes it correct |
|---|---|---|---|---|
| Lifecycle rules (`lifecycle.ts`, `shared/src/constants.ts`, `types.ts`) | none | `isStaleSnapshot`, `laterStateAsOf`, `isSubscriptionEntitled`, `withoutReplaced` | every writer must apply them, in the right place | newest snapshot wins |
| Apple processing (`routes/webhook-apple.ts`, `providers/apple.ts`) | none of its own: reads, awaits, writes the record | `processAppleNotification`, decoding, Status API | late, repeated and overlapping notifications; billing grace; refunds and their reversal; unknown transactions | processed state is not rolled back; lost access stays lost; after all notifications the record says what Apple says |
| Google processing (`routes/webhook-google.ts`, `providers/google.ts`) | same | `processGoogleNotification` for RTDNs and voided purchases, live Play reads | an RTDN carries no state; the read may be answered before or after other events; Play may be down | the record mirrors Play; a refund is final |
| Validate route (`routes/validate.ts`) | same | `POST /onesub/validate` | a receipt is an old and partial view; lookups may fail; accounts | receipts do not undo refunds, end grace or move a bound purchase |
| Subscription stores (`store.ts`, `stores/redis.ts`, `stores/postgres.ts`) | one row per transaction; user and global indexes; side keys | `save`, `getAllByUserId`, `listAll`, `listFiltered` | several keys in several round trips; rows of old versions; rebinding to another user | one atomic upsert guarded by time; indexes agree with rows; all stores alike |
| Webhook delivery (`routes/webhook.ts`, `webhook-events.ts`, `webhook-queue.ts`) | marks of seen events; jobs and dead letters | gate, `markIfNew`/`unmark`, `enqueue`, worker, replay | at-least-once delivery, timeouts, lost answers, crashes, ambiguous failures | no event is acknowledged and lost; none is processed twice without cause |
| Purchase route and stores (`routes/purchase.ts`, `stores/*`) | one-time purchases; non-consumable claims; in-process locks | validate, restore, reassign, delete | claims over several keys; two copies of one request; transfer between users | one owner per transaction; one copy of a non-consumable per user |
| Admin routes (`routes/admin.ts`) | test overrides | grant, transfer, reset, resync, dead-letter replay | racing the webhooks | same as the stores |
| Read routes (`routes/status.ts`, `entitlements.ts`, `metrics.ts`, `metrics-aggregate.ts`) | none | queries | replaced Google tokens; SQL and in-process aggregates must agree | one definition of "active" |
| Caches (`cache.ts`, `metrics-cache.ts`, `providers/verified-key-cache.ts`) | tokens, keys, metrics | single-flight fetches | awaits between check and use | bounded staleness |
| SDK (`sdk/src/purchaseFlow.ts`, `OneSubProvider.tsx`, `api.ts`) | in-flight entries by product, busy flag, drain gate, one generation of listeners per user | subscribe, purchaseProduct, restore, purchase events | replayed transactions, timeouts, a call that ends beside the handler that answers it, the user changing meanwhile | a purchase is finished only after the server accepted it; each caller hears of its own purchase, and is heard |
| Catalogue (`providers/src/apple.ts`, `google.ts`, `retry.ts`; `mcp-server/src/tools/`) | products at both app stores | create, rename, delete | each is a chain of requests without a transaction; refused, repeated and unanswered requests; two calls at once | what stood before is not replaced; a failure leaves nothing behind; "configured" is true |
| CLI, dashboard, Unity | none | UI, scaffolding | - | not part of this project |

## 2. Modules

| Module | Models | State and actions |
|---|---|---|
| `Lifecycle` | `lifecycle.ts`, `shared/src/constants.ts` | operators only |
| `AppleSubscription` | one App Store subscription: `processAppleNotification`, `POST /onesub/validate` for Apple, and the pure functions they call | `hist` Apple's states, `record` the row, `work` what each handler is doing, `applied` what was processed. One action per stretch of code between two awaits: lookup, Status API, save |
| `GoogleSubscription` | one Play purchase token: `processGoogleNotification`, `POST /onesub/validate` for Google | the same, with a Play read that is stamped when it is sent (`stamp`) and answered later |
| `SubscriptionTable` | what `SubscriptionStore.save` promises | abstract specification: a table, one guarded upsert |
| `RedisClients` | what the two stores of `stores/redis.ts` share | the clients and the ids of keys; constants only |
| `RedisSubscriptionStore` | the subscription store of `stores/redis.ts` | the five kinds of keys; EXISTS, GET and EVAL are steps, and a client may fail between them |
| `InMemorySubscriptionStore` | `store.ts` | the map, the lists by user and the write order |
| `SubscriptionStores` | composition of the two stores | the in-memory store does each save at the moment Redis runs its script |
| `PostgresSubscriptionStore` | `stores/postgres.ts`, `schema.ts` | the table, its columns before and after the 0.28 migration, what each process remembers of them, queries in flight; a query is a statement and, later, its reply |
| `EntitlementReads` | `routes/status.ts`, `routes/entitlements.ts`, `withoutReplaced` | extends the store above with a purchase store and one request at a time, each read of a store a step; history variables say what was true meanwhile |
| `Metrics` | `metrics-aggregate.ts`, the aggregate queries of `stores/postgres.ts`, `routes/metrics.ts`, the keys of `metrics-cache.ts` | extends `EntitlementReads` with metrics requests and their cache; the scan is a step and the answer with its `cache.set` another; the reduction and the `GROUP BY` are operators over the same rows |
| `ResultCaches` | `cache.ts`, `RedisCacheAdapter`, `makeAppleApiJwt`, `getCachedAccessToken`, `createMetricsCache`, `VerifiedKeyCache` | what is cached, the work in progress of each process, and callers that await the adapter, the work and the adapter again |
| `WebhookDelivery` | the gate and the queue of both webhook routes | requests, marks, jobs, and what the source knows; processing itself is one step that counts |
| `PurchaseTable` | what a `PurchaseStore` promises | abstract specification: owners of transactions, pending calls, one step of effect per call |
| `RedisPurchaseStore` | the purchase store of `stores/redis.ts` | five kinds of keys; every GET, SET NX, compare-and-set, SMEMBERS and MULTI of save, reassign, delete and reset is a step, and a call may fail or die between any two |
| `InMemoryPurchaseStore`, `PostgresPurchaseStore` | the purchase stores of `store.ts` and `stores/postgres.ts` | operators: what one call or one SQL statement answers and leaves. Postgres saves by INSERT, and SELECT on a conflict |
| `PurchaseRoute` | `routes/purchase.ts` over these two, with the refund webhooks, the admin routes and a restart | each request is the await it is in; `tail` and `ahead` are the lock on a transaction, `due` the tokens it asked Google to consume |
| `SdkPurchase` | `sdk/src/purchaseFlow.ts`, `OneSubProvider.tsx`, `api.ts` | the Provider's refs, its generations, two host calls, two handlers of store events, the server's answers: accepted, refused, or owned already |
| `Catalogue` | `providers/src/*.ts`, `mcp-server/src/tools/create-product.ts`, `manage-product.ts` | the products at both stores; a call is the request it is waiting for |
| `MC*` | - | event sets, constraints and symmetry for TLC |
| `AppleSubscriptionProofs`, `GoogleSubscriptionProofs`, `RedisStoresProofs`, `PurchaseRouteProofs`, `WebhookDeliveryProofs`, `SdkPurchaseProofs`, `CatalogueProofs`, `ReadsProofs` | - | theorems about the modules they are named after, section 5; `RedisStoresProofs` is about both Redis stores and `SubscriptionStores`, `ReadsProofs` about the Postgres store, `EntitlementReads`, `Metrics` and `ResultCaches` |

How they fit: `AppleSubscription` and `GoogleSubscription` use `save()` as one
atomic step (`Saved`). `SubscriptionTable` states that step, and Redis is
shown to implement it, by proof; the in-memory store answers as Redis does, by proof
too.
Postgres does it in one statement, and `PostgresSubscriptionStore` is about the
one time it does not: a migration. `WebhookDelivery` justifies the `Deliver`
actions of the two: a notification may arrive any number of times, in any order,
and overlap itself (in the modes where that can happen), so no assumption about
the gate is made there. `EntitlementReads` and `Metrics` put the readers over the
Postgres store. `RedisPurchaseStore` implements `PurchaseTable`; `PurchaseRoute`
runs over the two stores whose calls are one or two steps, so that the route's own
awaits can be followed.

Names follow the code. A definition that begins with "Mutant of" or "A mistake"
is not part of the model: it is a plausible bug against which the run's
properties have been tried.

### Abstractions worth knowing

- **Apple time.** The t-th event at Apple has the time t, which is its
  notification's `signedDate`; "now" is the last one. An expiry date is a billing
  period, and it has passed when the period has lapsed. Hence a moment between two
  events at which a period has run out without an event is represented by the
  next event's state; status derived from the clock is derived in the step that
  decodes.
- **Google time.** Event t has the time 2t and the server's clock shows 2t+1
  after it, so a read between two events is newer than the first. The two clocks
  agree; skew is not modelled.
- **One subscription per model.** Transactions do not interact in this code,
  except for `linkedPurchaseToken`, whose owner is the constant `LinkedUser`.
- **Product.** A subscription has one product, so the comparison of product ids
  in `keepsStoredAppleState` for records without times is true.
- **Notification types** with the same effect are one type (`REFUND` stands for
  `REVOKE` too, `DID_RENEW` for `DID_RECOVER` and `OFFER_REDEEMED`).
- **Failing calls.** `Throw` ends a handler before its write: a store error, a
  crash. What happens then is `WebhookDelivery`'s subject.
- **InProcessWebhookQueue** runs the handler inside `enqueue()`; it is the inline
  mode.
- **Marks do not expire**: they are kept for 7 days, the sources retry for 3.
- **The Redis sorted sets** have no scores in the model; no property is about the
  order of a listing. The in-memory stores' orders are modelled. Their lists have a
  transaction at most once (proved), so `filter` removes the first match.
- **One product.** The purchase models are about one product, the only scope of a
  claim; the SDK's in-flight entries are by product too.
- **Postgres** runs each statement at once.
- **The clock** ticks in `PostgresSubscriptionStore` and `ResultCaches`, and a round
  trip takes at most `Delay` ticks in the first and `RoundTrip` in the second. Where
  the code adds seconds to milliseconds the model has ticks.
- **Chains of replaced tokens** have two tokens in the runs; `withoutReplaced` is
  defined for any set.
- **Catalogue** knows whether a price was set, not which; listings are one version
  number per product, besides en-US. The code sets no availability for a one-time
  product at Apple, and what Apple makes of that is outside the model.
- **Left out of small functions**: `snapshotTimeFromEpochMs` refuses a time too far in
  the future, and a metrics TTL of 0 switches the cache off; no run has either.

## 3. Runs

`tlc -workers 2 -config <run>.cfg <module>`, with the module `PROJECT.json` names.
The passing runs are exhaustive for their bounds.

| Run | Bounds | Shows |
|---|---|---|
| `AppleOverlap` | 2 handlers, 4 events of 9 types, 2 refunds; receipts of 1 user among renewals, lapses and one refund | `Converged`: when everything is processed, the record says what Apple says. `ProcessedIsRemembered`, `LossSticks`: however webhooks and receipts overlap, nothing processed is rolled back and lost access stays lost |
| `AppleAccount` | 2 handlers, 2 users, bound purchase, 3 events of all 9 types, `until_expiry`, failing lookups | `BoundToAccount`, and the step property `SnapshotTimeKept` |
| `GoogleSubscription` | 2 handlers, 3 events of all 13 types, 2 users, bound purchase, failing lookups and reads; tokens posted among 5 of the types | `Converged` (finding 11 apart), `RtdnNeverRevives`, `BoundToAccount`, `ProcessedIsRemembered` |
| `SubscriptionStores` | 2 clients, 2 transactions, 2 users, 3 times, every initial database | `IndexAgreement`, `SameAnswers` of Redis and memory, and Redis implements `SubscriptionTable` (`ImplementsSubscriptionTable`) |
| `WebhookDelivery` | 1 event, 2 deliveries at a time, 2 modes, 4 event stores, 3 faults of 13 kinds, 2 attempts | `LostOnlyIfOvertaken`, `RepeatsHaveACause`, and the liveness property `EventuallyHandled` |
| `PurchaseStores` | 2 clients, 2 transactions, 2 users, consumable or not, every initial database including rows older than the claims; calls about one transaction do not overlap | `IndexesAgree`, `OneCopyUndisturbed`, and Redis implements `PurchaseTable` (`ImplementsPurchaseTable`) |
| `PurchaseRoute` | 3 requests, 2 transactions, 2 users, 2 platforms, 2 stores, 1 refund, 1 operator action, 1 restart | `GrantedOnce`, `RefundStaysRemoved`, `OneCopy`, `NoneConsumedUnrecorded`, `LineMoves`, and the step property `ValidMeansRecorded` |
| `SdkPurchase` | 2 calls, 2 handlers, 2 transactions, 3 kinds of product, 2 users one after the other, failing connections | `StrandedOnlyIfCrossed`, `ParkedIsWoken`, `ReplayAnswersNobody`, `FinishedAsAnswered`, and the step property `NoForeignWrite` |
| `Catalogue` | 2 tool calls out of 7 requests, 1 repetition of a request, 1 lost answer, 1 edit in the console | `StandingProductKept`, `NothingLeftBehind`, `ConfiguredMeansSellable`, and the liveness property `EveryCallEnds` |
| `Reads` | 2 processes, 2 tokens of which one replaced the other, 3 saves, 2 changes of the purchase store, 2 metrics requests, 4 instants; a day of 3 instants and a TTL of 2 | `EntitledIsTold`, `ToldWasEntitled`, `SqlMatchesReduction`, `AnswersTheQuestion`, and the step property `FallbackEnds` |
| `ResultCaches` | 3 callers in 2 processes, 4 kinds of result, private or shared adapter, 1 failure, 3 calls, 6 instants | `NothingStale`, and the liveness property `EveryCallEnds` |
| `AppleRefundUndone` | expected violation of `LossSticks` | finding 1 |

Further configurations reproduce other findings, one each; they are expected to
violate the property they name and are run by hand: `AppleUntilExpiry`,
`AppleClientUser` (module `MCAppleSubscription`), `GoogleRefundRace`,
`GoogleCanceled` (`MCGoogleSubscription`), `WebhookOvertaken` (`WebhookDelivery`),
`PurchaseClaimRetry` (`MCPurchaseStores`), `SdkAlreadyOwned` (`MCSdkPurchase`),
`CatalogueOverwrite` (`MCCatalogue`), `MetricsAge`, `MetricsDays` (`MCReads`). The
remaining ones fail in the passing runs' own bounds, when the INVARIANTS of the
configuration are replaced by the property of the finding.

Most modules have a type invariant, which documents the range of the variables. It is
proved of every specification that a run checks; the routine runs spend their time on
the other properties.

**Why the bounds are enough.** Two handlers make every overlap of a read with a
foreign write; a third adds only longer chains of the same. Four Apple events
reach purchase, lapse or refund, recovery, and one more that is late. Three Google
events reach a state, its change and the refund of it, and each may be delivered
repeatedly. The constraints `PostedAmongRenewals` and `PostedAmongAccessEvents`
keep a receipt from being processed beside certain event types, which are all
delivered as notifications; Apple's meet receipts in `AppleAccount`. The
subscription stores have no counter: two transactions and two users show that a
rebind does not touch what it should not, three times give older, equal and newer.
In `WebhookDelivery` the events do not interact, so one suffices; three faults
allow a failure, the failure of its handling, and one more.

In `PurchaseStores` two transactions of one product are what a claim is about, and two
users what a transfer is; no operation involves a third. In `PurchaseRoute` the third
request is the one that overtakes: it comes when the first holds the lock and the second
waits. In `SdkPurchase` two calls are one that ends and one that takes its place;
`KindsApart` has three kinds of product and, to keep the run short, a consumable only
where the host has declared it, and an answer "owned already" once, about a
non-consumable that is not recorded. In `Catalogue` two calls can be the same request,
so that a repetition by hand after a lost answer is among the behaviours. The clock of
`Reads` reaches one window and two round trips past the migration, and past every
expiry; the ends of the windows asked for lie on and beside the boundaries of a day and
of the cache's grid, and the grid does not divide the day. Its constraints keep three
questions apart that share no state but the rows: the migration, a request beside
changing stores, and counts asked for twice. In `ResultCaches` the clock goes past the
end of a result, and a third process would only repeat the second.

`Exclusive` in `PurchaseStores` excludes two overlapping calls about one
transaction. Within a process the route's lock sees to that, up to its timeout;
the store itself does not, and without it a purchase can be indexed under two users.

**Fairness.** `WebhookDelivery` assumes weak fairness of a delivery (the source
retries until it hears a 2xx, `routes/webhook.ts`), of each request handler (the
event loop resumes it: every outbound call has a timeout, `http.ts`), and of the
queue's worker. `Catalogue` assumes it of each call: a request is answered or given
up after 30 seconds (`AbortSignal.timeout`), and then the next line runs.
`ResultCaches` assumes it of each caller, for the same reason; the clock may stop.
Nothing is assumed of faults, of operators, of the clock, or of a source hearing an
answer. `CHECK_DEADLOCK FALSE` is used where the system may stop once the bounded
history is exhausted and nothing is left to process.

`SnapshotTimeKept`, `ImplementsSubscriptionTable`, `ImplementsPurchaseTable`,
`ValidMeansRecorded`, `NoForeignWrite` and `FallbackEnds` are properties of steps and
need no fairness.

## 4. Findings

Each is what a comment, doc or test of the repository says, and a run of the model
in which the code does something else.

1. **A refund can be undone by two old receipts** (`routes/validate.ts:195`). A
   revoked receipt of an older period rewinds `expiresAt`; a pre-refund receipt of
   the later period then counts as a renewal. Contradicts `validate.ts:180-181`.
   `LossSticks` holds with one refund (`AppleOverlap`) and fails with two
   (`AppleRefundUndone`).
2. **`until_expiry` cuts access when the refund overtakes the renewal**
   (`routes/webhook-apple.ts:184`), against `:193-194`.
3. **A webhook overwrites a client's userId** (`routes/webhook-apple.ts:212`): the
   record of an unknown transaction is saved without a second lookup, against
   `:170-171`.
4. **A validate request revives a refunded Google subscription**
   (`routes/validate.ts:130`): it takes over the refund's time for state it read
   before the refund, against docs/ARCHITECTURE.md:329.
5. **An acknowledged notification is lost** (`routes/webhook-apple.ts:265`): a
   retry is deduplicated while the first delivery is still running, which then
   fails, against `:345-347`.
6. **A transfer and a purchase give a user two copies** (`stores/redis.ts:362`):
   the transfer's claim looks abandoned while the row is still the old owner's,
   against `:297-299` (`OneCopyUnlessFailed` in `PurchaseStores`).
7. **A crash hides an old copy from the retry** (`stores/redis.ts:226`): the claim
   is there, the search for copies older than claims is not repeated, against
   `:227-228` (`PurchaseClaimRetry`).
8. **A call of the SDK is never answered** (`sdk/src/purchaseFlow.ts:312`): the
   handler of one purchase deletes the in-flight entry of the next, against
   `:353-357` (`NobodyStranded` in `SdkPurchase`).
9. **Create replaces what another create made** (`providers/src/google.ts:457`),
   against `:429-432` (`CatalogueOverwrite`).
10. **Two apps of one team share an App Store token** (`providers/apple.ts:622`)
    that names one of them, against README.md:277 (`TokenOfOwnApp` in `ResultCaches`).
11. **Switching auto-renew off ends access at once** (`providers/google.ts:547`):
    Play's `CANCELED` state, with paid time left, is stored as status `canceled`, which
    grants nothing; a test pins the mapping. `shared/src/types.ts:18` and README.md:145
    reserve `canceled` for refunded or revoked (`GoogleCanceled`). `Converged` therefore
    asks nothing about access in that phase.
12. **A transaction is finished after a 409** (`sdk/src/purchaseFlow.ts:263`): the
    server calls a one-time purchase owned already and records nothing, and the SDK
    finishes the transaction, against "ONLY after the server returns 2xx"
    (`sdk/src/OneSubProvider.tsx:150`; `SdkAlreadyOwned`). The route of this commit
    restores instead of answering 409; README.md:250 and docs/RECEIPT-ERRORS.md:109-114
    still describe the 409. `FinishedAsAnswered` allows exactly this.
13. **A metrics answer may be a TTL and a scan old** (`metrics-cache.ts:90`): the entry's
    life begins when the scan has ended, against `:72-73` (`MetricsAge`).
14. **A daily series may lack a day** (`metrics-cache.ts:74`): if the TTL does not divide a
    day, windows that touch different days share a key, against
    `shared/src/types.ts:685` (`MetricsDays`). The default of 30 seconds is safe, by
    proof.
15. **A replay may answer a fresh tap** (`sdk/src/OneSubProvider.tsx:406`): a connection
    that fails after its user has left opens the gate of the next one, against
    `:281-283` (`NoReplayAnswers` in `SdkPurchase`).

Read, not run: "Only one node mints per TTL window" (`providers/apple.ts:600`) is true
of a window that is warm, not of two nodes that find it cold.

## 5. Proofs

`tlapm <module>`; every obligation is proved by Z3, Zenon or LS4. Each theorem is for
every value of the constants its module admits, unless it says otherwise: any number of
handlers, clients, callers, users, transactions and events. Each inductive invariant has
also been an INVARIANT of a TLC run before it was proved.

**`AppleSubscriptionProofs`.** Both refund policies, with or without an
`appAccountToken`. `TypeCorrect`, `NewestSnapshotWins` (`ProcessedIsRemembered`),
`AccountOwnsPurchase` (`BoundToAccount`), `GraceEndsWithGrace` (`GraceOnlyInGrace`,
assuming no sandbox override), `SnapshotTimeMonotone` (`SnapshotTimeKept`) follow from
`IInv`. `ProcessedIsRemembered` is not inductive: between a lookup and a save the record
a handler holds must itself be no older than its notification, whatever others write
meanwhile. `IInv` adds that (`JobSound`), the types with "a busy handler serves something
that exists" (`JobTimes`), the dates of periods (`HistoryDated`, which bounds a receipt's
time from below) and the soundness of the stored record.

`LossIsFinal` (`LossSticks`) and `RecordConverges` (`Converged`) need a second invariant,
`FInv`. For the first: a refund *stands* while paid or grace time would still be running,
and since then no snapshot, stored or held by a handler, may grant what it took
(`LeavesRefund`). The hard case is an old receipt that met a record newer than the
refund: it is not newer in period and signed before, so `keepsStoredAppleState` keeps
what is stored. For the second: a record that no receipt has named a user for agrees with
Apple at its own `stateAsOf`, in its access too when that is the present (`SaysApple`).
`HistorySound` says which histories exist, `DecodedSound` what a decoded status may be.
`LossIsFinal` assumes `RefundIsFinal`: one refund and no sandbox override, or the policy
`until_expiry`; finding 1 is what happens with two. `RecordConverges` assumes the policy
`immediate` (finding 2) and that lookups of the validate route do not fail (a write
without a time lets an older notification follow).

**`GoogleSubscriptionProofs`.** `TypeCorrect`, `ProcessedStays`
(`ProcessedIsRemembered`), `AccountOwnsPurchase` (`BoundToAccount`), `RefundIsFinal`
(`RtdnNeverRevives`), and `RecordConverges` (`Converged`, assuming the refund policy
`immediate`). A record, stored or held, is judged at *its time* (`Current`): one that
grants access is from before every refund, and one whose time is not before the latest
event mirrors Play. A job carries the stamp of its read (`JobsSound`), and the guard lets
the time of a stored record only grow, so a late save is refused or still current. Once
nothing is pending and every event has been processed, the record's time is not before
the latest event, and being current is being right, but for access in the phase
`CANCELED` (finding 11).

**`RedisStoresProofs`**, the subscription store. `SubscriptionsTypeCorrect`,
`IndexesFollowRows` (`IndexAgreement`), `SideKeyIsRowTime` (`AsOfAgrees`) and
`RedisImplementsTable` (the refinement of `SubscriptionTable`) follow from
`SubscriptionInv`. `IndexAgreement` needs two strengthenings: the owner key names the
row's owner or is missing (`OwnerKeysRight`), and a client about to run the script for a
row without an owner key has read its owner, which stays right until the script runs
because any other script writes the owner key (`JobsSound`).

Of the composition in `SubscriptionStores`: `StoresAnswerAlike` (`SameAnswers`) and
`ListsNewestFirst` (`ListsInOrder`), for the in-memory store that is given each save when
Redis runs its script. `MemoryInv` says that the rows are the same, that the order of
writes has every row once (`WrittenOnce`), and that a user's list has his rows, as they
are, in that order (`ListOf`). That no list has a transaction twice follows from the
order, and is why taking one entry out is enough. A save changes three sequences at most;
`KeepsOthers` is what each of them keeps, and the lemmas about it are about any sequence.

**`RedisStoresProofs`**, the purchase store. `TypeCorrect`; and, assuming `Exclusive`
(calls about one transaction do not overlap), `ListedForOwner` (`IndexesAgree`),
`RedisImplementsPurchaseTable` (the refinement of `PurchaseTable`, whose one step of
effect is the compare-and-set or the MULTI of each call) and `OneCopyWhileQuiet`
(`OneCopyUndisturbed`). The indexes follow from `RowInv`, which says for each step of each
call what it has read of its own transaction and what of that still stands. The one copy
needs `ClaimInv` besides, which speaks of the states where no call has failed and no two
calls about one user have overlapped, unless both were saves (`Quiet`): a claim is for a
row of its user or one on its way to that user, and a user with a claim has no copy but
the claim's, or the search for one is still on.

**`PurchaseRouteProofs`.** `TypeCorrect`, `GrantedOnceHolds`, `RefundHolds`
(`RefundStaysRemoved`), `OneCopyHolds`, `ConsumedIsRecorded` (`NoneConsumedUnrecorded`),
`LineNeverStuck` (`LineMoves`), the step property `ValidHasARow` (`ValidMeansRecorded`)
and `ListsKeepUp` (the in-memory store's lists follow its map). `IInv` has the order of
the line (`InOrder`: whoever waits, waits for others in the same line, who do not wait
for it), the section behind it (`Serial`: on a transaction nobody has overtaken, of any two
requests one waits for the other, and whoever is past the lock waits for nobody, so one is
inside) and a `Ledger` of what each request in the section knows about grants, consumption
and refunds.

**`WebhookDeliveryProofs`.** `TypeCorrect`, `LossNeedsOvertaking`
(`LostOnlyIfOvertaken`), `RepeatsBounded` (`RepeatsHaveACause`). `NothingLost`: unless a
fault has stranded a mark, an event that is marked and that nobody works on has had its
effect or is held by the queue (waiting, active or failed), and so has one whose 2xx the
source has heard or is about to hear, if it was not overtaken. The bound on repetitions
is a potential: effects so far, plus one for an event that may still pass the gate
(`Open`), plus one for a job that may still run (`Held`), never exceed one plus the
faults that cause repetition (`Causes`).

**`SdkPurchaseProofs`.** `TypeCorrect`, `StrandedNeedsCrossing`
(`StrandedOnlyIfCrossed`), `ParkedWakes` (`ParkedIsWoken`), `ReplayIsSilent`
(`ReplayAnswersNobody`), `FinishNeedsAnswer` (`FinishedAsAnswered`), `LockIsHeldByACall`
(`OneAtATime`) and the step property `WritesAreOwn` (`NoForeignWrite`). `IInv` is these
together with the discipline of the busy flag (`OneAtATime`), of the drain gate
(`GateOpens`, `ReplaysComeFirst`) and of finishing (`AnsweredFirst`); none of the checked
properties is inductive without them.

**`CatalogueProofs`.** `TypeCorrect`, `StandingIsKept` (`StandingProductKept`),
`FailureLeavesNothing` (`NothingLeftBehind`) and `ConfiguredIsSellable`
(`ConfiguredMeansSellable`), for any requests, any number of calls, repetitions, lost
answers and edits in a console. A call remembers little of what it has done, so `IInv`
ties its step and its answer so far to what stands in the stores: whoever made an App
Store product is at work on it, has said so, or never learned of it (`MadeKnowingly`);
a subscription's price comes after its availability, and the answer after the price
(`AppleConfigured`); a
Play product is of a call about that product, and of none that saw it stand
(`PlayMadeByItsCall`, `StoodIsThere`).

**`ReadsProofs`**, the reads over the Postgres store. `ReadsTypeCorrect`,
`EntitledIsAlwaysTold` (`EntitledIsTold`), `NobodyToldOfNothing` (`ToldWasEntitled`),
`CountsAnswerTheQuestion` (`AnswersTheQuestion`), `WholeDaysAsAsked` (`DaysAsAsked`, if
a day is a whole number of TTLs), `SqlMatchesTheReduction` (`SqlMatchesReduction`) and
the step property `FallbackIsBrief` (`FallbackEnds`), for any snapshots of any
subscriptions, processes, queries in flight and windows of time. `IInv` has three parts.

- `StoreInv`: the types, and what the clock says (`StoreTimes`). A process remembers
  missing columns no longer than a window and one delay after they appear, a statement of
  0.27 is sent within that and its reply comes a delay later; `FallbackIsBrief` is the sum.
- `AccessInv`: what a request has read so far still covers whatever has granted access
  since it came (`ReadSound`), and what it would tell of has been there (`ToldSound`).
  Nothing grants access anew by the passing of time (`LaterOn`), so rows read early are at
  worst too generous about an earlier moment of the same request.
- `MetricsInv`: a cached count is of the question its key stands for, read before its
  work ended, and its life is counted from that end. Two windows of one key lie less
  than a TTL apart, so their days differ at the edges at most, and not at all if a day
  is a whole number of TTLs.

`SqlMatchesTheReduction` is about the queries rather than the steps. The groups of a
`GROUP BY` partition the rows it counts: the rows of all groups are in bijection with the
pairs of a group and a place in it, so the loop over groups that adds up `n` arrives at
the count of rows (`GroupsPartition`). The `WHERE` clauses admit the rows that
`isSubscriptionEntitled` and the windows of the reduction do.

**`ReadsProofs`**, the caches. `CachesTypeCorrect`, `NothingStaleHolds` (`NothingStale`)
and `WorkIsShared` (`OneWorks`: of one process at most one caller fetches, and those that
joined wait for it) follow from `CachesInv`. The end a caller has for a result is computed
from a clock read one round trip early, and the answer comes one round trip late;
`EntriesSound` and `CallsSound` carry the two delays, and twice `RoundTrip` is within the
safety margin. The margin is strictly less than the lifetime, as `ResultCaches` assumes:
with the two equal a token would leave the cache the moment it is stored. In the code the
margin is 60 seconds of 20 minutes or an hour.

**Assumptions.** Those the modules name: sentinels are not values, times are naturals,
bounds are positive, there are events, snapshots have a status and times, and the
transactions of the Redis purchase store, of the metrics and of the two subscription
stores side by side are finitely many, as are the generations of the SDK's users. Each
is evaluated by TLC in the runs. Besides them, only the hypotheses named above.

**Proved, and in no run**: every type invariant, `GraceOnlyInGrace`, `AsOfAgrees`,
`ListsInOrder`, the purchase lists' `Memory!ListsAgree`, `OneAtATime`, `OneWorks`. TLC
has found no violation of any of them.

**Model-checked only**: liveness under fairness (`EventuallyHandled`, the two
`EveryCallEnds`), which is out of the prover's reach, as are ENABLED and induction over
data. Every other property of the passing runs is a theorem.

## 6. Plan

1. *Done:* every component of section 1 except the last has a module.
2. *Done:* the proofs of section 5, which state every safety property that the runs
   check.
3. **More of the code**: the Redis stores' reads in two round trips; the answer of
   the validate route beside the record it wrote; the admin route that resyncs an
   Apple subscription (`routes/admin.ts`), which reads the record before it asks
   Apple and saves without a second look; a second clock for Google. Each would be a
   refinement of a module here, and the theorems above say what it has to keep.

### Not modelled

Transport, logging, tracing, error wording and OpenAPI (no state); configuration
parsing and app routing (constants of the models); certificate chains and
signatures (a receipt is genuine in the models); Apple's consumption reports and
transaction history; acknowledgement of Google subscriptions; paging and filters of
listings; prices and regions of catalogue products; the other MCP tools, which only
read; the CLI, the dashboard, the Unity packages and the paywall components.
