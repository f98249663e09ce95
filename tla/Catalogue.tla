------------------------------ MODULE Catalogue ------------------------------
(****************************************************************************)
(* Creating, renaming and deleting store products through the MCP server:   *)
(* packages/mcp-server/src/tools/create-product.ts and manage-product.ts    *)
(* over packages/providers/src/apple.ts, google.ts and retry.ts.            *)
(*                                                                          *)
(* A tool call is a chain of HTTP requests to App Store Connect and to      *)
(* Google Play, with no transaction around it.  Several calls run at once   *)
(* and so does the person in the console; a request may be refused, be      *)
(* answered 429 or 503 (and is then repeated), or lose its answer to the    *)
(* 30 second timeout after the store has, or has not, done what it asked.   *)
(*                                                                          *)
(* Every subscription has one display name here, so all of them want the    *)
(* same Apple subscription group; a group is known by the call that made it.*)
(* Prices, currencies and extra regions are left out, except for whether    *)
(* the primary price was set; paging is: a listing is read in one step.     *)
(****************************************************************************)
EXTENDS Naturals, FiniteSets

CONSTANTS
    Calls,        \* tool calls
    Pids,         \* product ids
    Requests,     \* what a call may ask: [op, kind, pid, stores]
    MaxRetries,   \* MAX_RETRIES of retry.ts
    MaxFaults,    \* bound: answers lost, and 503s given after the effect
    MaxEdits,     \* bound: translations written in the Play console
    None

Kinds == {"subscription", "one_time"}
Items == Kinds \X Pids
Stores == {"apple", "google"}
RequestSet == [op : {"create", "update", "delete"}, kind : Kinds, pid : Pids,
               stores : SUBSET Stores]

VARIABLES
    group,   \* Apple's subscription group: the call that made it, or None
    apple,   \* [Pids -> App Store product or None]
    google,  \* [Items -> Play product or None]
    call,    \* [Calls -> progress of the call]
    unaware, \* calls a store has obeyed without the call learning of it
    stood,   \* [Calls -> what has existed ever since the call began]
    faults

vars == <<group, apple, google, call, unaware, stood, faults>>

AppleProduct == [kind : Kinds, group : Calls \cup {None}, offered : BOOLEAN,
                 priced : BOOLEAN, by : Calls]
\* `other' is the version of the listings in the languages other than en-US
PlayProduct == [by : Calls, active : BOOLEAN, other : 0..MaxEdits]

ASSUME BoundsAssumption ==
    MaxRetries \in Nat /\ MaxFaults \in Nat /\ MaxEdits \in Nat
ASSUME RequestsAssumption == Requests \subseteq RequestSet
ASSUME NoneAssumption ==
    None \notin Calls /\ None \notin RequestSet /\ None \notin AppleProduct /\ None \notin PlayProduct

Steps == {"idle", "find", "group", "post", "rollback", "plan", "point",
          "price", "iap", "list", "lookup", "rename", "remove",
          "playPost", "activate", "check", "upsert", "read", "patch",
          "playRemove", "done"}

Progress == [at : Steps, attempt : 0..MaxRetries, req : Requests \cup {None},
             held : Calls \cup {None}, seen : 0..MaxEdits,
             apple : {"none", "ok", "unpriced", "duplicate", "failed"},
             google : {"none", "ok", "inactive", "failed"}]

TypeOK ==
    /\ group \in Calls \cup {None}
    /\ apple \in [Pids -> AppleProduct \cup {None}]
    /\ google \in [Items -> PlayProduct \cup {None}]
    /\ call \in [Calls -> Progress]
    /\ unaware \in SUBSET Calls
    /\ stood \in [Calls -> SUBSET (Items \cup ({"group"} \X (Calls \cup {None})))]
    /\ faults \in 0..MaxFaults

Idle == [at |-> "idle", attempt |-> 0, req |-> None, held |-> None, seen |-> 0,
         apple |-> "none", google |-> "none"]

Init ==
    /\ group = None
    /\ apple = [p \in Pids |-> None]
    /\ google = [i \in Items |-> None]
    /\ call = [c \in Calls |-> Idle]
    /\ unaware = {}
    /\ stood = [c \in Calls |-> {}]
    /\ faults = 0

Pid(c) == call[c].req.pid
Item(c) == <<call[c].req.kind, call[c].req.pid>>

\* The Play products and the Apple group that exist.
Existing(g, p) == {i \in Items : p[i] # None} \cup {<<"group", g>>}

-----------------------------------------------------------------------------
(* One HTTP request: appleRequest and playRequest.                          *)

Answers == {"ok", "refused", "busy", "lost"}

Reads == [hit : {FALSE}, ans : Answers]

\* The answers to a write the store would, or would not, carry out.
Writes(legal) ==
    [hit : {FALSE}, ans : Answers \ {"ok"}]
        \cup (IF legal THEN [hit : {TRUE}, ans : Answers \ {"refused"}] ELSE {})

\* Mutant of MayRepeat: the attempts are not counted.
MayRepeatForever(c, r) == r.ans = "busy"

\* 429 and 503 are worth MAX_RETRIES more attempts, other answers none.
MayRepeat(c, r) == r.ans = "busy" /\ call[c].attempt < MaxRetries

\* The call after answer r: the same request again, or one of the two
\* continuations.
Continue(c, r, good, bad) ==
    /\ call' = [call EXCEPT ![c] =
         IF MayRepeat(c, r)
         THEN [call[c] EXCEPT !.attempt = (call[c].attempt + 1) % (MaxRetries + 1)]
         ELSE [(IF r.ans = "ok" THEN good ELSE bad) EXCEPT !.attempt = 0]]
    /\ unaware' = IF r.hit /\ r.ans # "ok" THEN unaware \cup {c} ELSE unaware
    /\ faults' = IF r.ans = "lost" \/ (r.hit /\ r.ans = "busy")
                 THEN faults + 1 ELSE faults
    /\ faults' <= MaxFaults

-----------------------------------------------------------------------------
(* runCreateProduct and runManageProduct: Apple first, then Google.         *)

PlayStart(q) ==
    IF "google" \notin q.stores THEN "done"
    ELSE CASE q.op = "create" /\ q.kind = "subscription" -> "playPost"
           [] q.op = "create" /\ q.kind = "one_time" -> "check"
           [] q.op = "update" -> "read"
           [] q.op = "delete" -> "playRemove"

AppleStart(q) ==
    IF "apple" \notin q.stores THEN PlayStart(q)
    ELSE CASE q.op = "create" /\ q.kind = "subscription" -> "find"
           [] q.op = "create" /\ q.kind = "one_time" -> "iap"
           [] OTHER -> "lookup"

Begin(c) ==
    /\ call[c].at = "idle"
    /\ \E q \in Requests :
         call' = [call EXCEPT ![c] = [@ EXCEPT !.req = q, !.at = AppleStart(q)]]
    /\ UNCHANGED <<group, apple, google, unaware, faults>>

At(c, step) == [call[c] EXCEPT !.at = step]

\* A duplicate id has the existing products listed for the answer.
AppleEnds(c, outcome) ==
    [call[c] EXCEPT !.apple = outcome,
                    !.at = IF outcome = "duplicate" THEN "list"
                           ELSE PlayStart(call[c].req)]

PlayEnds(c, outcome) == [call[c] EXCEPT !.google = outcome, !.at = "done"]

\* The answer of the tool: what buildCreateOutput says at the end.
Says(c, what) ==
    LET q == call[c].req
        failed == call[c].apple \in {"duplicate", "failed"} \/ call[c].google = "failed"
        complete == /\ "apple" \in q.stores => call[c].apple = "ok"
                    /\ "google" \in q.stores => call[c].google = "ok"
    IN  /\ call[c].at = "done"
        /\ what = CASE complete -> "configured"
                    [] ~complete /\ failed -> "failed"
                    [] OTHER -> "incomplete"

-----------------------------------------------------------------------------
(* App Store Connect: createSubscription.                                   *)

\* findSubscriptionGroupByName
GroupToUse == group

FindGroup(c) ==
    /\ call[c].at = "find"
    /\ \E r \in Reads :
         Continue(c, r,
             IF GroupToUse = None THEN At(c, "group")
             ELSE [At(c, "post") EXCEPT !.held = GroupToUse],
             AppleEnds(c, "failed"))
    /\ UNCHANGED <<group, apple, google>>

\* A name already taken is refused, and that refusal translates to DUPLICATE.
PostGroup(c) ==
    /\ call[c].at = "group"
    /\ \E r \in Writes(group = None) :
         /\ group' = IF r.hit THEN c ELSE group
         /\ Continue(c, r, [At(c, "post") EXCEPT !.held = c],
                     AppleEnds(c, IF group # None /\ r.ans = "refused"
                                  THEN "duplicate" ELSE "failed"))
    /\ UNCHANGED <<apple, google>>

\* Mutant of AfterFailedPost: a group the call made is not taken back.
LeaveTheGroup(c, outcome) == AppleEnds(c, outcome)

\* The group the call itself created is rolled back; one it found is not.
AfterFailedPost(c, outcome) ==
    IF call[c].held = c THEN [At(c, "rollback") EXCEPT !.apple = outcome]
    ELSE AppleEnds(c, outcome)

PostSubscription(c) ==
    /\ call[c].at = "post"
    /\ \E r \in Writes(group = call[c].held /\ apple[Pid(c)] = None) :
         /\ apple' = IF r.hit
                     THEN [apple EXCEPT ![Pid(c)] =
                             [kind |-> "subscription", group |-> call[c].held,
                              offered |-> FALSE, priced |-> FALSE, by |-> c]]
                     ELSE apple
         /\ Continue(c, r, At(c, "plan"),
                AfterFailedPost(c, IF apple[Pid(c)] # None /\ r.ans = "refused"
                                   THEN "duplicate" ELSE "failed"))
    /\ UNCHANGED <<group, google>>

\* Best effort: whatever the store answers, the outcome is the failed POST's.
\* The store deletes only a group without subscriptions.
RollBack(c) ==
    /\ call[c].at = "rollback"
    /\ \E r \in Writes(group = c /\ \A p \in Pids : apple[p] # None => apple[p].group # c) :
         /\ group' = IF r.hit THEN None ELSE group
         /\ Continue(c, r, AppleEnds(c, call[c].apple),
                     [AppleEnds(c, call[c].apple) EXCEPT !.held = None])
    /\ UNCHANGED <<apple, google>>

\* A configuration request about the product the call has just created.
Mine(c) == apple[Pid(c)] # None /\ apple[Pid(c)].by = c

\* createSubscription declares where its product is sold; of a one-time product
\* createOneTimePurchase declares nothing, and what Apple makes of that is not
\* modelled.
Available(product) == product.kind = "subscription" => product.offered

DeclareAvailability(c) ==
    /\ call[c].at = "plan"
    /\ \E r \in Writes(Mine(c)) :
         /\ apple' = IF r.hit THEN [apple EXCEPT ![Pid(c)].offered = TRUE] ELSE apple
         /\ Continue(c, r, At(c, "point"), AppleEnds(c, "unpriced"))
    /\ UNCHANGED <<group, google>>

\* setPrice first looks for the exact price point; an unsupported currency and
\* a price between two points leave the product without a price.
FindPricePoint(c) ==
    /\ call[c].at = "point"
    /\ \E r \in Reads, exact \in BOOLEAN :
         Continue(c, r, IF exact THEN At(c, "price") ELSE AppleEnds(c, "unpriced"),
                  AppleEnds(c, "unpriced"))
    /\ UNCHANGED <<group, apple, google>>

\* Mutant of PriceFailed: the error of the POST is not looked at.
PriceFailedSilently(c) == AppleEnds(c, "ok")

PriceFailed(c) == AppleEnds(c, "unpriced")

SetPrice(c) ==
    /\ call[c].at = "price"
    /\ \E r \in Writes(Mine(c)) :
         /\ apple' = IF r.hit THEN [apple EXCEPT ![Pid(c)].priced = TRUE] ELSE apple
         /\ Continue(c, r, AppleEnds(c, "ok"), PriceFailed(c))
    /\ UNCHANGED <<group, google>>

-----------------------------------------------------------------------------
(* App Store Connect: createOneTimePurchase, updateProduct, deleteProduct.  *)

PostInAppPurchase(c) ==
    /\ call[c].at = "iap"
    /\ \E r \in Writes(apple[Pid(c)] = None) :
         /\ apple' = IF r.hit
                     THEN [apple EXCEPT ![Pid(c)] =
                             [kind |-> "one_time", group |-> None,
                              offered |-> FALSE, priced |-> FALSE, by |-> c]]
                     ELSE apple
         /\ Continue(c, r, At(c, "point"),
                AppleEnds(c, IF apple[Pid(c)] # None /\ r.ans = "refused"
                             THEN "duplicate" ELSE "failed"))
    /\ UNCHANGED <<group, google>>

\* The list of what exists only illustrates the answer: its failure is ignored.
ListExisting(c) ==
    /\ call[c].at = "list"
    /\ call' = [call EXCEPT ![c] = At(c, PlayStart(call[c].req))]
    /\ UNCHANGED <<group, apple, google, unaware, faults>>

IsThere(c) == apple[Pid(c)] # None /\ apple[Pid(c)].kind = call[c].req.kind

LookUp(c) ==
    /\ call[c].at = "lookup"
    /\ \E r \in Reads :
         Continue(c, r,
             CASE ~IsThere(c) -> AppleEnds(c, "failed")
               [] IsThere(c) /\ call[c].req.op = "update" -> At(c, "rename")
               [] IsThere(c) /\ call[c].req.op = "delete" -> At(c, "remove"),
             AppleEnds(c, "failed"))
    /\ UNCHANGED <<group, apple, google>>

\* The display name is not kept in the model.
Rename(c) ==
    /\ call[c].at = "rename"
    /\ \E r \in Writes(IsThere(c)) :
         Continue(c, r, AppleEnds(c, "ok"), AppleEnds(c, "failed"))
    /\ UNCHANGED <<group, apple, google>>

\* 409: an approved product is not deleted.
Remove(c) ==
    /\ call[c].at = "remove"
    /\ \E r \in Writes(IsThere(c)) :
         /\ apple' = IF r.hit THEN [apple EXCEPT ![Pid(c)] = None] ELSE apple
         /\ Continue(c, r, AppleEnds(c, "ok"), AppleEnds(c, "failed"))
    /\ UNCHANGED <<group, google>>

-----------------------------------------------------------------------------
(* Google Play.                                                             *)

New(c) == [by |-> c, active |-> FALSE, other |-> 0]

PlayPostSubscription(c) ==
    /\ call[c].at = "playPost"
    /\ \E r \in Writes(google[Item(c)] = None) :
         /\ google' = IF r.hit THEN [google EXCEPT ![Item(c)] = New(c)] ELSE google
         /\ Continue(c, r, At(c, "activate"), PlayEnds(c, "failed"))
    /\ UNCHANGED <<group, apple>>

\* The answer must name the base plan as ACTIVE; an answer that does not counts
\* as a failure, and a failure leaves the product created.
Activate(c) ==
    /\ call[c].at = "activate"
    /\ \E r \in Writes(google[Item(c)] # None) :
         /\ google' = IF r.hit THEN [google EXCEPT ![Item(c)].active = TRUE] ELSE google
         /\ Continue(c, r, PlayEnds(c, "ok"), PlayEnds(c, "inactive"))
    /\ UNCHANGED <<group, apple>>

\* Mutant of Absent: create goes ahead whatever the GET has found.
AbsentOrNot(c) == TRUE

\* 404 of the GET
Absent(c) == google[Item(c)] = None

\* "create" must refuse an existing product: the write that follows is an upsert.
CheckAbsent(c) ==
    /\ call[c].at = "check"
    /\ \E r \in Reads :
         Continue(c, r, IF Absent(c) THEN At(c, "upsert") ELSE PlayEnds(c, "failed"),
                  PlayEnds(c, "failed"))
    /\ UNCHANGED <<group, apple, google>>

\* PATCH with allowMissing: replaces listings and purchase options.  The default
\* language is read in between, by an edit that is abandoned again.
Upsert(c) ==
    /\ call[c].at = "upsert"
    /\ \E r \in Writes(TRUE) :
         /\ google' = IF r.hit THEN [google EXCEPT ![Item(c)] = New(c)] ELSE google
         /\ Continue(c, r, PlayEnds(c, "ok"), PlayEnds(c, "failed"))
    /\ UNCHANGED <<group, apple>>

ReadListings(c) ==
    /\ call[c].at = "read"
    /\ \E r \in Reads :
         Continue(c, r,
             IF Absent(c) THEN PlayEnds(c, "failed")
             ELSE [At(c, "patch") EXCEPT !.seen = google[Item(c)].other],
             PlayEnds(c, "failed"))
    /\ UNCHANGED <<group, apple, google>>

\* The new en-US title among the listings as they were read.
Merged(c) == call[c].seen

PatchListings(c) ==
    /\ call[c].at = "patch"
    /\ \E r \in Writes(google[Item(c)] # None) :
         /\ google' = IF r.hit THEN [google EXCEPT ![Item(c)].other = Merged(c)]
                      ELSE google
         /\ Continue(c, r, PlayEnds(c, "ok"), PlayEnds(c, "failed"))
    /\ UNCHANGED <<group, apple>>

PlayRemove(c) ==
    /\ call[c].at = "playRemove"
    /\ \E r \in Writes(google[Item(c)] # None) :
         /\ google' = IF r.hit THEN [google EXCEPT ![Item(c)] = None] ELSE google
         /\ Continue(c, r, PlayEnds(c, "ok"), PlayEnds(c, "failed"))
    /\ UNCHANGED <<group, apple>>

\* Somebody translates a product in the Play console.
Translate(i) ==
    /\ google[i] # None
    /\ google[i].other < MaxEdits
    /\ google' = [google EXCEPT ![i].other = @ + 1]
    /\ UNCHANGED <<group, apple, call, unaware, faults>>

-----------------------------------------------------------------------------

Step(c) ==
    \/ FindGroup(c) \/ PostGroup(c) \/ PostSubscription(c) \/ RollBack(c)
    \/ DeclareAvailability(c) \/ FindPricePoint(c) \/ SetPrice(c)
    \/ PostInAppPurchase(c) \/ ListExisting(c)
    \/ LookUp(c) \/ Rename(c) \/ Remove(c)
    \/ PlayPostSubscription(c) \/ Activate(c)
    \/ CheckAbsent(c) \/ Upsert(c)
    \/ ReadListings(c) \/ PatchListings(c) \/ PlayRemove(c)

\* What a call has seen standing all along shrinks with every step; a call that
\* begins starts from all there is.
Watch ==
    stood' = [c \in Calls |->
                IF call[c].at = "idle" THEN Existing(group', google')
                ELSE stood[c] \cap Existing(group', google')]

Next ==
    /\ \/ \E c \in Calls : Begin(c) \/ Step(c)
       \/ \E i \in Items : Translate(i)
    /\ Watch

\* A request is answered or times out: a call never stops half way.
Fairness == \A c \in Calls : WF_vars(Step(c) /\ Watch)

Spec == Init /\ [][Next]_vars /\ Fairness

-----------------------------------------------------------------------------
(* Safety                                                                   *)

\* A Play product that has stood since before a create call began is not the
\* work of that call: create refuses it (google.ts, the GET before the upsert,
\* and Play's own refusal of a second subscription).  Two creates at once can
\* still replace each other's one-time product.
StandingProductKept ==
    \A c \in Calls : call[c].req # None /\ call[c].req.op = "create"
        /\ Item(c) \in stood[c] => google[Item(c)].by # c

\* Two create calls of one one-time product, checked and written in turns:
\* neither may replace what the other created.  (Does not hold.)
NeverReplaces ==
    [][\A i \in Items : google[i] # None /\ google'[i] # None
         => google'[i].by = google[i].by]_vars

\* An Apple create that fails leaves neither the product nor an empty group of
\* its own behind, so that repeating it starts clean; unless a store obeyed
\* without the call learning of it, or the rollback was refused or failed
\* (apple.ts, "Roll back the group we just created so a retry starts clean").
NothingLeftBehind ==
    \A c \in Calls :
        /\ call[c].at # "rollback"
        /\ call[c].apple \in {"duplicate", "failed"}
        /\ call[c].req.op = "create"
        /\ c \notin unaware
        => /\ \A p \in Pids : apple[p] # None => apple[p].by # c
           /\ group = c => call[c].held # c

\* "All platforms configured" is never said of an App Store product without its
\* price, an App Store subscription without its availability, or a Play
\* subscription whose base plan is not active, as long as the product is still
\* the one this call created.
ConfiguredMeansSellable ==
    \A c \in Calls : Says(c, "configured") /\ call[c].req.op = "create" =>
        /\ "apple" \in call[c].req.stores /\ Mine(c)
             => apple[Pid(c)].priced /\ Available(apple[Pid(c)])
        /\ /\ "google" \in call[c].req.stores
           /\ call[c].req.kind = "subscription"
           /\ google[Item(c)] # None
           /\ google[Item(c)].by = c
           => google[Item(c)].active

\* Liveness: however often the stores answer 429 or 503, every call ends.
EveryCallEnds ==
    \A c \in Calls : call[c].at # "idle" ~> call[c].at = "done"
=============================================================================
