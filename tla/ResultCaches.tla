---------------------------- MODULE ResultCaches ----------------------------
(***************************************************************************)
(* The caches that keep the result of expensive work, under one key:       *)
(*                                                                         *)
(*   "apple"    providers/apple.ts   makeAppleApiJwt: a JWT for the App    *)
(*              Store Server API, signed here                              *)
(*   "google"   providers/google.ts  getCachedAccessToken: an OAuth token  *)
(*              asked of Google                                            *)
(*   "metrics"  metrics-cache.ts     createMetricsCache().resolve: a scan  *)
(*              of the store, behind the routes of routes/metrics.ts       *)
(*   "key"      providers/verified-key-cache.ts  resolve: the key of a     *)
(*              certificate chain, after verifying it                      *)
(*                                                                         *)
(* over a CacheAdapter (cache.ts, and RedisCacheAdapter of                 *)
(* stores/redis.ts).  The first three join work that their process has in  *)
(* progress already.  The awaits are where callers interleave: the         *)
(* adapter's get, the work itself, the adapter's set.                      *)
(***************************************************************************)
EXTENDS Naturals, FiniteSets

CONSTANTS
    Callers,
    Process,         \* Process[c]: the server process caller c runs in
    App,             \* App[c]: the app it serves; all share one App Store Connect key
    None,
    ResultLifetime,  \* how long a result is good for, in ticks
    Margin,          \* a token is renewed this long before its end
    RoundTrip,       \* bound: the longest a round trip takes
    MaxFaults,       \* bound on failures
    MaxCalls,        \* bound on the calls made
    LastTick         \* bound on the clock

ASSUME ConstantAssumption ==
    /\ ResultLifetime \in Nat /\ Margin \in 1..(ResultLifetime - 1)
    /\ RoundTrip \in Nat /\ 2 * RoundTrip <= Margin
    /\ MaxFaults \in Nat /\ MaxCalls \in Nat /\ LastTick \in Nat
    /\ DOMAIN Process = Callers /\ DOMAIN App = Callers /\ None \notin Callers

VARIABLES
    kind,     \* which cache it is
    shared,   \* the adapter is Redis, one for every process
    clock,
    entry,    \* what each adapter holds under the key
    inflight, \* per process, the caller whose work is in progress
    calls,    \* what each caller is doing
    faults,
    made      \* calls made so far

cacheVars == <<kind, shared, clock, entry, inflight, calls, faults, made>>

Tokens == {"apple", "google"}

Kinds == Tokens \cup {"metrics", "key"}

Servers == {Process[c] : c \in Callers}

NotCalling == [at |-> "idle"]

(* The adapter a caller uses: the metrics and key caches are private. *)
Adapter(c) == IF shared THEN "redis" ELSE Process[c]

(* A result: whose it is, and when it is no good any more: a token ends at
   Apple or Google, a chain at its notAfter, and a count is good for as long
   after the start of its scan. *)
Result(app, end) == [app |-> app, end |-> end]

Results == [app : {App[c] : c \in Callers}, end : Nat]

Entries == [result : Results, claimed : Nat, evict : Nat] \cup {None}

(* What a caller remembers at each of its awaits. *)
CallStates ==
         [at : {"idle", "failed"}]
    \cup [at : {"getting", "working"}, since : Nat]
    \cup [at : {"got"}, since : Nat, hit : Entries]
    \cup [at : {"obtained", "set"}, since : Nat, result : Results]
    \cup [at : {"setting"}, since : Nat, result : Results, claimed : Nat]
    \cup [at : {"joined"}, on : Callers]
    \cup [at : {"answered"}, result : Results, from : {"cache", "work"}]

CachesTypeOK ==
    /\ kind \in Kinds
    /\ shared \in BOOLEAN
    /\ clock \in Nat
    /\ entry \in [Servers \cup {"redis"} -> Entries]
    /\ inflight \in [Servers -> Callers \cup {None}]
    /\ calls \in [Callers -> CallStates]
    /\ faults \in Nat /\ made \in Nat

CachesInit ==
    /\ kind \in Kinds
    /\ shared \in BOOLEAN /\ (shared => kind \in Tokens)
    /\ clock = 0
    /\ entry = [a \in Servers \cup {"redis"} |-> None]
    /\ inflight = [p \in Servers |-> None]
    /\ calls = [c \in Callers |-> NotCalling]
    /\ faults = 0
    /\ made = 0

At(c, at) == calls[c].at = at

Joined(c) == {d \in Callers : At(d, "joined") /\ calls[d].on = c}

Become(c, state) == calls' = [calls EXCEPT ![c] = state]

Answered(result, from) == [at |-> "answered", result |-> result, from |-> from]

(* The caller that did the work and those that joined it end alike. *)
SettleAll(c, state) ==
    calls' = [d \in Callers |-> IF d = c \/ d \in Joined(c) THEN state ELSE calls[d]]

-----------------------------------------------------------------------------
(* A call: get *)

Call(c) ==
    /\ At(c, "idle")
    /\ made < MaxCalls
    /\ made' = made + 1
    /\ Become(c, [at |-> "getting", since |-> clock])
    /\ UNCHANGED <<kind, shared, clock, entry, inflight, faults>>

(* Mutant of Evicted: only the sweep looks at the time. *)
EvictedBySweepOnly(held) == FALSE

(* InMemoryCacheAdapter.get, EX of Redis, and the ceiling of a key entry. *)
Evicted(held) == held.evict < clock

Get(c) ==
    /\ At(c, "getting")
    /\ LET a == Adapter(c)
           hit == entry[a] # None /\ ~Evicted(entry[a])
       IN /\ Become(c, [at |-> "got", since |-> calls[c].since,
                        hit |-> IF hit THEN entry[a] ELSE None])
          /\ entry' = IF hit THEN entry ELSE [entry EXCEPT ![a] = None]
    /\ UNCHANGED <<kind, shared, clock, inflight, faults, made>>

(* More than the margin is left: makeAppleApiJwt goes by the time before the
   get, getCachedAccessToken by the time after it. *)
FreshHit(c) ==
    LET held == calls[c].hit
    IN /\ held # None
       /\ kind = "apple" => held.claimed > calls[c].since + Margin
       /\ kind = "google" => held.claimed > clock + Margin

Hit(c) ==
    /\ At(c, "got")
    /\ FreshHit(c)
    /\ Become(c, Answered(calls[c].hit.result, "cache"))
    /\ UNCHANGED <<kind, shared, clock, entry, inflight, faults, made>>

(* Somebody in this process is at it. *)
Join(c) ==
    /\ At(c, "got")
    /\ ~FreshHit(c)
    /\ kind # "key"
    /\ inflight[Process[c]] # None
    /\ Become(c, [at |-> "joined", on |-> inflight[Process[c]]])
    /\ UNCHANGED <<kind, shared, clock, entry, inflight, faults, made>>

-----------------------------------------------------------------------------
(* The work *)

(* inflight.set; the key cache has none. *)
Registered(c) == IF kind = "key" THEN inflight ELSE [inflight EXCEPT ![Process[c]] = c]

Work(c) ==
    /\ At(c, "got")
    /\ ~FreshHit(c)
    /\ kind = "key" \/ inflight[Process[c]] = None
    /\ inflight' = Registered(c)
    /\ Become(c, [at |-> "working", since |-> clock])
    /\ UNCHANGED <<kind, shared, clock, entry, faults, made>>

(* The JWT is signed, or Google grants a token, for a lifetime; the scan has
   read the store since it began; the chain is about to run out, or good for long. *)
EndOfResult(c) ==
    CASE kind \in Tokens -> {clock + ResultLifetime}
      [] kind = "metrics" -> {calls[c].since + ResultLifetime}
      [] kind = "key" -> {clock + 1, clock + 2 * ResultLifetime}

Obtain(c) ==
    /\ At(c, "working")
    /\ \E end \in EndOfResult(c) :
          Become(c, [at |-> "obtained", since |-> calls[c].since,
                     result |-> Result(App[c], end)])
    /\ UNCHANGED <<kind, shared, clock, entry, inflight, faults, made>>

(* The result is here: expiresAt of a token is counted from now. *)
Store(c) ==
    /\ At(c, "obtained")
    /\ kind # "key"
    /\ Become(c, [at |-> "setting", since |-> clock, result |-> calls[c].result,
                  claimed |-> clock + ResultLifetime])
    /\ UNCHANGED <<kind, shared, clock, entry, inflight, faults, made>>

Set(c) ==
    /\ At(c, "setting")
    /\ entry' = [entry EXCEPT ![Adapter(c)] =
                    [result |-> calls[c].result, claimed |-> calls[c].claimed,
                     evict |-> clock + (IF kind \in Tokens THEN ResultLifetime - Margin
                                        ELSE ResultLifetime)]]
    /\ Become(c, [at |-> "set", since |-> calls[c].since, result |-> calls[c].result])
    /\ UNCHANGED <<kind, shared, clock, inflight, faults, made>>

(* Mutant of Forgotten: only work that succeeded is. *)
ForgottenIfSet(c) == IF At(c, "set") THEN [inflight EXCEPT ![Process[c]] = None] ELSE inflight

(* finally: the work is no longer in progress, whichever way it ended. *)
Forgotten(c) == [inflight EXCEPT ![Process[c]] = None]

Settle(c) ==
    /\ At(c, "set")
    /\ SettleAll(c, Answered(calls[c].result, "work"))
    /\ inflight' = Forgotten(c)
    /\ UNCHANGED <<kind, shared, clock, entry, faults, made>>

(* A key lives an hour from the time of the call (no
   time passes between the call and the work), and never beyond its chain. *)
KeyCeiling(c) == LET ttl == calls[c].since + ResultLifetime
                 IN IF ttl < calls[c].result.end THEN ttl ELSE calls[c].result.end

(* The key cache writes without awaiting; what is over already it does not
   remember.  Its entries end at the ceiling, not after it. *)
RememberKey(c) ==
    /\ At(c, "obtained")
    /\ kind = "key"
    /\ entry' = IF KeyCeiling(c) > calls[c].since
                THEN [entry EXCEPT ![Adapter(c)] =
                         [result |-> calls[c].result, claimed |-> KeyCeiling(c),
                          evict |-> KeyCeiling(c) - 1]]
                ELSE entry
    /\ Become(c, Answered(calls[c].result, "work"))
    /\ UNCHANGED <<kind, shared, clock, inflight, faults, made>>

(* The adapter or the work fails: the caller does, and with it those that
   joined, though a token may have been obtained and even stored. *)
Fail(c) ==
    /\ faults < MaxFaults
    /\ faults' = faults + 1
    /\ \/ /\ kind # "key"
          /\ At(c, "getting")
          /\ Become(c, [at |-> "failed"])
          /\ UNCHANGED inflight
       \/ /\ calls[c].at \in {"working", "setting", "set"}
          /\ SettleAll(c, [at |-> "failed"])
          /\ inflight' = Forgotten(c)
    /\ UNCHANGED <<kind, shared, clock, entry, made>>

ReturnCall(c) ==
    /\ calls[c].at \in {"answered", "failed"}
    /\ Become(c, NotCalling)
    /\ UNCHANGED <<kind, shared, clock, entry, inflight, faults, made>>

(* Only round trips take time: the work, and an adapter that is Redis. *)
MayTakeTime(c) ==
    \/ calls[c].at \in {"idle", "joined"}
    \/ /\ \/ calls[c].at \in {"working", "obtained"}
          \/ shared /\ calls[c].at \in {"getting", "got", "setting", "set"}
       /\ clock < calls[c].since + RoundTrip

TimePasses ==
    /\ clock < LastTick
    /\ \A c \in Callers : MayTakeTime(c)
    /\ clock' = clock + 1
    /\ UNCHANGED <<kind, shared, entry, inflight, calls, faults, made>>

Progress(c) == Get(c) \/ Hit(c) \/ Join(c) \/ Work(c) \/ Obtain(c) \/ Store(c) \/ Set(c)
               \/ Settle(c) \/ RememberKey(c) \/ ReturnCall(c)

CachesNext ==
    \/ \E c \in Callers : Call(c) \/ Progress(c) \/ Fail(c)
    \/ TimePasses

(* The event loop runs on and round trips are answered (fetchWithTimeout). *)
CachesSpec == CachesInit /\ [][CachesNext]_cacheVars /\ \A c \in Callers : WF_cacheVars(Progress(c))

-----------------------------------------------------------------------------
(* Properties *)

(* Nobody is handed what is no good any more: a token that has ended, counting
   from when it was granted and not from when the answer was in; from the
   cache, a key whose chain has ended; or a count whose scan began longer ago
   than the TTL and a scan together. *)
NothingStale ==
    \A c \in Callers :
        At(c, "answered") =>
            LET result == calls[c].result
            IN CASE kind \in Tokens -> clock < result.end
                 [] kind = "key" -> calls[c].from = "cache" => clock < result.end
                 [] kind = "metrics" -> clock <= result.end + RoundTrip

(* Every call ends, also for those that joined work which failed and those
   that come after it: when no more calls come (MaxCalls), all callers are done
   for good. *)
EveryCallEnds == <>[](\A c \in Callers : At(c, "idle"))

(* README.md: one server isolates the credentials of several Apple bundle ids.
   makeAppleApiJwt puts the bundle id into the JWT and keys it by issuerId and
   keyId only. *)
TokenOfOwnApp ==
    \A c \in Callers :
        kind = "apple" /\ At(c, "answered") => calls[c].result.app = App[c]
=============================================================================
