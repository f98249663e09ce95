--------------------------- MODULE CatalogueProofs ---------------------------
(***************************************************************************)
(* Theorems about Catalogue, for any tool calls, product ids and requests, *)
(* any number of attempts, faults and edits.                               *)
(*                                                                         *)
(* IInv is the inductive invariant:                                        *)
(*   TypeOK             the types                                          *)
(*   Fits               what a call was asked for, and what has come of it *)
(*                      so far, agree with the step it is at               *)
(*   MadeKnowingly      whoever made an App Store product, or the group,   *)
(*                      is at work on it, has said so, or a store obeyed   *)
(*                      it without its learning so                         *)
(*   AppleConfigured    availability before price, price before "ok"       *)
(*   PlayMadeByItsCall  a Play product was made by a call about that item  *)
(*   StoodIsThere       what has stood since a call began is there still,  *)
(*                      is not its work, and not what it is about to write *)
(*   PlayActivated      "ok" of a subscription means an active base plan   *)
(***************************************************************************)
EXTENDS Catalogue, TLAPS

(* Where a call configures the App Store product it has made. *)
Configuring == {"plan", "point", "price"}

(* Where nothing has come of the App Store half of a call yet. *)
ApplePhase == {"idle", "find", "group", "post", "plan", "point", "price", "iap", "lookup",
               "rename", "remove"}

(* Where a call can be, by what was asked for and by what has come of it. *)
Fits(q) ==
    /\ q.at = "idle" <=> q.req = None
    /\ q.at \in ApplePhase => q.apple = "none"
    /\ q.at = "rollback" => q.apple \in {"duplicate", "failed"}
    /\ q.at = "list" => q.apple = "duplicate"
    /\ q.at # "done" => q.google = "none"
    /\ q.at \in {"find", "group", "post", "plan", "rollback", "playPost", "activate"}
           => q.req.op = "create" /\ q.req.kind = "subscription"
    /\ q.at \in {"iap", "check", "upsert"} => q.req.op = "create" /\ q.req.kind = "one_time"
    /\ q.at \in {"lookup", "rename", "remove", "read", "patch", "playRemove"}
           => q.req.op # "create"

(* The call has been asked for something. *)
Begun(c) == call[c].req # None

(* Whoever has made an App Store product, or the group, is at work on it, has
   said so, or does not know. *)
MadeKnowingly ==
    /\ \A p \in Pids, c \in Calls : apple[p] # None /\ apple[p].by = c =>
           /\ Begun(c) /\ p = Pid(c)
           /\ c \in unaware \/ call[c].at \in Configuring \/ call[c].apple \in {"ok", "unpriced"}
    /\ \A c \in Calls : group = c =>
           \/ c \in unaware \/ call[c].held # c
           \/ call[c].at \in {"post", "rollback"} \cup Configuring
           \/ call[c].apple \in {"ok", "unpriced"}

(* The product a call has made gets its availability, a subscription that is,
   then its price. *)
AppleConfigured ==
    \A c \in Calls : Begun(c) /\ call[c].req.op = "create" /\ Mine(c) =>
        /\ call[c].at \in {"point", "price"} => Available(apple[Pid(c)])
        /\ call[c].apple = "ok" => apple[Pid(c)].priced /\ Available(apple[Pid(c)])

(* A call writes no Play product but the one it is about. *)
PlayMadeByItsCall ==
    \A i \in Items, c \in Calls :
        google[i] # None /\ google[i].by = c => Begun(c) /\ i = Item(c)

(* What has stood is there, and is not what the call made: about to write, it
   has found nothing. *)
StoodIsThere ==
    /\ \A c \in Calls : stood[c] \subseteq Existing(group, google)
    /\ \A c \in Calls : Begun(c) /\ Item(c) \in stood[c] =>
           call[c].at # "upsert" /\ google[Item(c)].by # c

(* A subscription a call made, and called complete, has an active base plan. *)
PlayActivated ==
    \A c \in Calls :
        /\ Begun(c) /\ call[c].req.op = "create" /\ call[c].req.kind = "subscription"
        /\ call[c].google = "ok" /\ google[Item(c)] # None /\ google[Item(c)].by = c
        => google[Item(c)].active

AppleInv == MadeKnowingly /\ AppleConfigured

PlayInv == PlayMadeByItsCall /\ StoodIsThere /\ PlayActivated

IInv == TypeOK /\ (\A c \in Calls : Fits(call[c])) /\ AppleInv /\ PlayInv
-----------------------------------------------------------------------------
(* A call is well formed, and about one of the products. *)
LEMMA Typed ==
    ASSUME IInv, NEW c \in Calls
    PROVE  /\ call[c] \in Progress /\ Fits(call[c])
           /\ Begun(c) => call[c].req \in Requests /\ call[c].req \in RequestSet
           /\ Begun(c) => Pid(c) \in Pids /\ Item(c) \in Items
           /\ call[c].at # "idle" => Begun(c)
<1>1. call[c] \in Progress /\ Fits(call[c])
  BY DEF IInv, TypeOK
<1>2. Begun(c) => call[c].req \in Requests /\ call[c].req \in RequestSet
  BY <1>1, RequestsAssumption DEF Begun, Progress
<1>3. Begun(c) => Pid(c) \in Pids /\ call[c].req.kind \in Kinds
  BY <1>2 DEF Pid, RequestSet
<1>4. Begun(c) => Item(c) \in Items
  BY <1>3 DEF Item, Items, Pid
<1>5. call[c].at # "idle" => Begun(c)
  BY <1>1 DEF Fits, Begun
<1> QED
  BY <1>1, <1>2, <1>3, <1>4, <1>5

(* The count of attempts stays within its bound. *)
LEMMA Remainder ==
    ASSUME NEW n \in Nat, NEW m \in Nat
    PROVE  n % (m + 1) \in 0..m
OBVIOUS

(* A call, but for the count of its attempts. *)
Same(x, y) ==
    /\ x.at = y.at /\ x.req = y.req /\ x.held = y.held /\ x.seen = y.seen
    /\ x.apple = y.apple /\ x.google = y.google

Answer == [hit : BOOLEAN, ans : Answers]

(* After an answer a call is where it was, for another attempt, or goes on. *)
LEMMA Continued ==
    ASSUME IInv, NEW c \in Calls, NEW r \in Answer, NEW good \in Progress, NEW bad \in Progress,
           Continue(c, r, good, bad)
    PROVE  /\ call' \in [Calls -> Progress]
           /\ \A d \in Calls : d # c => call'[d] = call[d]
           /\ \/ r.ans = "busy" /\ Same(call'[c], call[c])
              \/ r.ans = "ok" /\ Same(call'[c], good)
              \/ r.ans # "ok" /\ Same(call'[c], bad)
           /\ unaware \subseteq unaware' /\ unaware' \in SUBSET Calls
           /\ r.hit /\ r.ans # "ok" => c \in unaware'
           /\ faults' \in 0..MaxFaults
<1>1. call \in [Calls -> Progress] /\ call[c] \in Progress /\ unaware \in SUBSET Calls
      /\ faults \in 0..MaxFaults
  BY DEF IInv, TypeOK
<1>2. MaxRetries \in Nat /\ MaxFaults \in Nat
  BY BoundsAssumption
<1> DEFINE x == IF MayRepeat(c, r)
                THEN [call[c] EXCEPT !.attempt = (call[c].attempt + 1) % (MaxRetries + 1)]
                ELSE [(IF r.ans = "ok" THEN good ELSE bad) EXCEPT !.attempt = 0]
<1>3. call' = [call EXCEPT ![c] = x]
  BY <1>1 DEF Continue
<1>4. MayRepeat(c, r) =>
         /\ r.ans = "busy"
         /\ (call[c].attempt + 1) % (MaxRetries + 1) \in 0..MaxRetries
  <2>1. SUFFICES ASSUME MayRepeat(c, r)
                 PROVE  (call[c].attempt + 1) % (MaxRetries + 1) \in 0..MaxRetries
    BY DEF MayRepeat
  <2>2. call[c].attempt + 1 \in Nat /\ MaxRetries + 1 \in Nat /\ MaxRetries + 1 > 0
    BY <1>1, <1>2 DEF Progress
  <2> QED
    BY <2>2, <1>2, Remainder
<1>5. x \in Progress
  BY <1>1, <1>2, <1>3, <1>4 DEF Progress
<1>6. \/ r.ans = "busy" /\ Same(x, call[c])
      \/ r.ans = "ok" /\ Same(x, good)
      \/ r.ans # "ok" /\ Same(x, bad)
  BY <1>1, <1>3, <1>4 DEF Progress, Same
<1>7. call' \in [Calls -> Progress] /\ call'[c] = x /\ \A d \in Calls : d # c => call'[d] = call[d]
  <2> HIDE DEF x
  <2> QED
    BY <1>1, <1>3, <1>5
<1>8. faults' \in 0..MaxFaults
  BY <1>1, <1>2 DEF Continue
<1> QED
  BY <1>1, <1>6, <1>7, <1>8 DEF Continue

(* Going on, to where a call of its kind may be. *)
LEMMA GoesOn ==
    ASSUME IInv, NEW c \in Calls, NEW r \in Answer, Begun(c),
           NEW good \in Progress, Fits(good), good.req = call[c].req,
           NEW bad \in Progress, Fits(bad), bad.req = call[c].req,
           Continue(c, r, good, bad)
    PROVE  /\ call' \in [Calls -> Progress]
           /\ \A d \in Calls : d # c => call'[d] = call[d]
           /\ \A d \in Calls : Fits(call'[d])
           /\ call'[c].req = call[c].req
           /\ \/ r.ans = "busy" /\ Same(call'[c], call[c])
              \/ r.ans = "ok" /\ Same(call'[c], good)
              \/ r.ans # "ok" /\ Same(call'[c], bad)
           /\ unaware \subseteq unaware' /\ unaware' \in SUBSET Calls
           /\ r.hit /\ r.ans # "ok" => c \in unaware'
           /\ faults' \in 0..MaxFaults
<1>1. /\ call' \in [Calls -> Progress]
      /\ \A d \in Calls : d # c => call'[d] = call[d]
      /\ \/ r.ans = "busy" /\ Same(call'[c], call[c])
         \/ r.ans = "ok" /\ Same(call'[c], good)
         \/ r.ans # "ok" /\ Same(call'[c], bad)
      /\ unaware \subseteq unaware' /\ unaware' \in SUBSET Calls
      /\ r.hit /\ r.ans # "ok" => c \in unaware'
      /\ faults' \in 0..MaxFaults
  BY Continued
<1>2. \A d \in Calls : Fits(call[d])
  BY DEF IInv
<1>3. Fits(call'[c])
  BY <1>1, <1>2 DEF Same, Fits
<1>4. call'[c].req = call[c].req
  BY <1>1 DEF Same
<1> QED
  BY <1>1, <1>2, <1>3, <1>4

(* Where a call goes after Apple, and after Google. *)
LEMMA Ends ==
    ASSUME IInv, NEW c \in Calls, Begun(c), call[c].at # "done"
    PROVE  /\ \A outcome \in {"ok", "unpriced", "duplicate", "failed"} :
                 LET q == AppleEnds(c, outcome)
                 IN /\ q \in Progress /\ Fits(q) /\ q.req = call[c].req
                    /\ q.at \in {"list", "done", "playPost", "check", "read", "playRemove"}
                    /\ q.apple = outcome /\ q.held = call[c].held /\ q.google = "none"
           /\ \A outcome \in {"ok", "inactive", "failed"} :
                 LET q == PlayEnds(c, outcome)
                 IN /\ q \in Progress /\ q.req = call[c].req /\ q.at = "done" /\ Fits(q)
                    /\ q.apple = call[c].apple /\ q.held = call[c].held /\ q.google = outcome
<1>1. call[c] \in Progress /\ Fits(call[c]) /\ call[c].req \in RequestSet
  BY Typed
<1>2. call[c].req # None /\ call[c].google = "none"
  BY <1>1 DEF Fits, Begun
<1>3. LET at == PlayStart(call[c].req)
          q == call[c].req
      IN /\ at \in {"done", "playPost", "check", "read", "playRemove"}
         /\ at = "playPost" => q.op = "create" /\ q.kind = "subscription"
         /\ at = "check" => q.op = "create" /\ q.kind = "one_time"
         /\ at \in {"read", "playRemove"} => q.op # "create"
  BY <1>1 DEF PlayStart, RequestSet, Kinds
<1>4. ASSUME NEW outcome \in {"ok", "unpriced", "duplicate", "failed"}
      PROVE  LET q == AppleEnds(c, outcome)
             IN /\ q \in Progress /\ Fits(q) /\ q.req = call[c].req
                /\ q.at \in {"list", "done", "playPost", "check", "read", "playRemove"}
                /\ q.apple = outcome /\ q.held = call[c].held /\ q.google = "none"
  <2> DEFINE q == AppleEnds(c, outcome)
             at == IF outcome = "duplicate" THEN "list" ELSE PlayStart(call[c].req)
  <2>1. q = [call[c] EXCEPT !.apple = outcome, !.at = at]
    BY DEF AppleEnds
  <2>2. /\ at \in {"list", "done", "playPost", "check", "read", "playRemove"}
        /\ at = "list" => outcome = "duplicate"
        /\ at = "playPost" => call[c].req.op = "create" /\ call[c].req.kind = "subscription"
        /\ at = "check" => call[c].req.op = "create" /\ call[c].req.kind = "one_time"
        /\ at \in {"read", "playRemove"} => call[c].req.op # "create"
    BY <1>3
  <2> HIDE DEF at
  <2>3. /\ q \in Progress /\ q.req = call[c].req /\ q.at = at /\ q.apple = outcome
        /\ q.held = call[c].held /\ q.google = "none"
    BY <1>1, <1>2, <2>1, <2>2 DEF Progress, Steps
  <2> HIDE DEF q
  <2>4. Fits(q)
    BY <1>2, <2>2, <2>3 DEF Fits, ApplePhase
  <2> QED
    BY <2>2, <2>3, <2>4 DEF q
<1>5. ASSUME NEW outcome \in {"ok", "inactive", "failed"}
      PROVE  LET q == PlayEnds(c, outcome)
             IN /\ q \in Progress /\ q.req = call[c].req /\ q.at = "done" /\ Fits(q)
                /\ q.apple = call[c].apple /\ q.held = call[c].held /\ q.google = outcome
  BY <1>1, <1>2 DEF PlayEnds, Progress, Steps, Fits, ApplePhase
<1> QED
  BY <1>4, <1>5

(* What a step leaves of the history of standing products. *)
LEMMA Watched ==
    ASSUME IInv, Watch, group' \in Calls \cup {None}
    PROVE  /\ stood' \in [Calls -> SUBSET (Items \cup ({"group"} \X (Calls \cup {None})))]
           /\ \A c \in Calls : stood'[c] \subseteq Existing(group', google')
           /\ \A c \in Calls : Begun(c) => stood'[c] \subseteq stood[c]
<1>1. \A c \in Calls : Begun(c) => call[c].at # "idle"
  BY DEF IInv, Fits, Begun
<1>2. Existing(group', google') \in SUBSET (Items \cup ({"group"} \X (Calls \cup {None})))
  BY DEF Existing
<1>3. stood \in [Calls -> SUBSET (Items \cup ({"group"} \X (Calls \cup {None})))]
  BY DEF IInv, TypeOK
<1> HIDE DEF Existing
<1> QED
  BY <1>1, <1>2, <1>3 DEF Watch

(* A step of one call that leaves App Store Connect as it is. *)
LEMMA AppleUntouched ==
    ASSUME IInv, NEW c \in Calls, TypeOK', UNCHANGED <<group, apple>>,
           unaware \subseteq unaware', \A d \in Calls : d # c => call'[d] = call[d],
           Begun(c) => call'[c].req = call[c].req,
           call[c].at \in Configuring \/ call[c].apple \in {"ok", "unpriced"}
               => call'[c].at \in Configuring \/ call'[c].apple \in {"ok", "unpriced"},
           (\/ call[c].held # c
            \/ call[c].at \in {"post", "rollback"} \cup Configuring
            \/ call[c].apple \in {"ok", "unpriced"})
               => \/ call'[c].held # c
                  \/ call'[c].at \in {"post", "rollback"} \cup Configuring
                  \/ call'[c].apple \in {"ok", "unpriced"},
           call'[c].at \in {"point", "price"} => call[c].at \in {"point", "price"} \/ ~Begun(c),
           call'[c].apple = "ok" => \/ call[c].apple = "ok" \/ ~Begun(c)
                                    \/ call[c].req.op # "create"
    PROVE  AppleInv'
<1>1. \A d \in Calls : Begun(d) => Begun(d)' /\ call'[d].req = call[d].req /\ Pid(d)' = Pid(d)
  BY DEF Begun, Pid
<1>2. \A p \in Pids : apple[p] # None => apple[p].by \in Calls
  BY DEF IInv, TypeOK, AppleProduct
<1>3. group # None => group \in Calls
  BY DEF IInv, TypeOK
<1>4. MadeKnowingly'
  <2>1. ASSUME NEW p \in Pids, NEW d \in Calls, apple[p] # None, apple[p].by = d
        PROVE  /\ Begun(d)' /\ p = Pid(d)'
               /\ \/ d \in unaware' \/ call'[d].at \in Configuring
                  \/ call'[d].apple \in {"ok", "unpriced"}
    <3>1. /\ Begun(d) /\ p = Pid(d)
          /\ d \in unaware \/ call[d].at \in Configuring \/ call[d].apple \in {"ok", "unpriced"}
      BY <2>1 DEF IInv, AppleInv, MadeKnowingly
    <3> QED
      BY <1>1, <3>1
  <2>2. ASSUME NEW d \in Calls, group = d
        PROVE  \/ d \in unaware' \/ call'[d].held # d
               \/ call'[d].at \in {"post", "rollback"} \cup Configuring
               \/ call'[d].apple \in {"ok", "unpriced"}
    <3>1. \/ d \in unaware \/ call[d].held # d
          \/ call[d].at \in {"post", "rollback"} \cup Configuring
          \/ call[d].apple \in {"ok", "unpriced"}
      BY <2>2 DEF IInv, AppleInv, MadeKnowingly
    <3> QED
      BY <3>1
  <2> QED
    BY <2>1, <2>2 DEF MadeKnowingly
<1>5. ASSUME NEW d \in Calls, Begun(d)', call'[d].req.op = "create", Mine(d)'
      PROVE  /\ call'[d].at \in {"point", "price"} => Available(apple'[Pid(d)'])
             /\ call'[d].apple = "ok" => apple'[Pid(d)'].priced /\ Available(apple'[Pid(d)'])
  <2>1. Begun(d)
    <3>1. apple[Pid(d)'] # None /\ apple[Pid(d)'].by = d
      BY <1>5 DEF Mine
    <3>2. Pid(d)' \in Pids
      BY <1>5, RequestsAssumption DEF TypeOK, Progress, RequestSet, Begun, Pid
    <3> QED
      BY <3>1, <3>2 DEF IInv, AppleInv, MadeKnowingly
  <2>2. Pid(d)' = Pid(d) /\ Mine(d) /\ call[d].req.op = "create"
    BY <1>1, <1>5, <2>1 DEF Mine
  <2> QED
    BY <2>1, <2>2 DEF IInv, AppleInv, AppleConfigured
<1> QED
  BY <1>4, <1>5 DEF AppleInv, AppleConfigured

(* A step of one call that leaves the Play products as they are. *)
LEMMA PlayUntouched ==
    ASSUME IInv, NEW c \in Calls, TypeOK', UNCHANGED google, Watch,
           \A d \in Calls : d # c => call'[d] = call[d],
           Begun(c) => call'[c].req = call[c].req,
           call'[c].at = "upsert" => Begun(c) /\ (call[c].at = "upsert" \/ google[Item(c)] = None),
           call'[c].google = "ok" => \/ call[c].google = "ok" \/ ~Begun(c)
                                     \/ call[c].req.op # "create"
                                     \/ call[c].req.kind # "subscription"
    PROVE  PlayInv'
<1>1. \A d \in Calls : Begun(d) => Begun(d)' /\ call'[d].req = call[d].req /\ Item(d)' = Item(d)
  BY DEF Begun, Item
<1>2. \A i \in Items : google[i] # None => google[i].by \in Calls
  BY DEF IInv, TypeOK, PlayProduct
<1>3. PlayMadeByItsCall'
  BY <1>1, <1>2 DEF IInv, PlayInv, PlayMadeByItsCall
<1>4. \A d \in Calls : /\ stood'[d] \subseteq Existing(group', google')
                       /\ Begun(d) => stood'[d] \subseteq stood[d]
  BY Watched DEF TypeOK
<1>5. \A d \in Calls : Begun(d)' => Item(d)' \in Items
  BY RequestsAssumption DEF TypeOK, Progress, RequestSet, Begun, Item, Items
<1>6. \A d \in Calls : Begun(d)' /\ Item(d)' \in stood'[d] => google[Item(d)'] # None
  BY <1>4, <1>5 DEF Existing, Items, Kinds
<1>7. ASSUME NEW d \in Calls, Begun(d)', Item(d)' \in stood'[d]
      PROVE  call'[d].at # "upsert" /\ google[Item(d)'].by # d
  <2>1. google[Item(d)'] # None /\ Item(d)' \in Items
    BY <1>5, <1>6, <1>7
  <2>2. CASE Begun(d)
    BY <1>1, <1>4, <1>7, <2>1, <2>2 DEF IInv, PlayInv, StoodIsThere
  <2>3. CASE ~Begun(d)
    BY <2>1, <2>3, <1>7 DEF IInv, PlayInv, PlayMadeByItsCall, Begun
  <2> QED
    BY <2>2, <2>3
<1>8. ASSUME NEW d \in Calls, Begun(d)', call'[d].req.op = "create",
             call'[d].req.kind = "subscription", call'[d].google = "ok",
             google[Item(d)'] # None, google[Item(d)'].by = d
      PROVE  google[Item(d)'].active
  <2>1. Begun(d)
    BY <1>5, <1>8 DEF IInv, PlayInv, PlayMadeByItsCall
  <2> QED
    BY <1>1, <1>8, <2>1 DEF IInv, PlayInv, PlayActivated
<1> QED
  BY <1>3, <1>4, <1>7, <1>8 DEF PlayInv, StoodIsThere, PlayActivated
-----------------------------------------------------------------------------
(* Nothing has been asked for, and nothing made. *)
LEMMA InitInv == Init => IInv
<1> SUFFICES ASSUME Init PROVE IInv
  OBVIOUS
<1>1. Idle \in Progress /\ Fits(Idle)
  BY BoundsAssumption DEF Idle, Progress, Steps, Fits, ApplePhase
<1>2. TypeOK /\ \A c \in Calls : call[c] = Idle
  BY <1>1, BoundsAssumption DEF Init, TypeOK
<1>3. \A c \in Calls : ~Begun(c) /\ call[c].google = "none"
  BY <1>2 DEF Begun, Idle
<1>4. AppleInv
  BY <1>3, NoneAssumption DEF Init, AppleInv, MadeKnowingly, AppleConfigured
<1>5. PlayInv
  BY <1>3 DEF Init, PlayInv, PlayMadeByItsCall, StoodIsThere, PlayActivated
<1> QED
  BY <1>1, <1>2, <1>4, <1>5 DEF IInv

(* A call begins. *)
LEMMA BeginKeeps ==
    ASSUME IInv, NEW c \in Calls, Begin(c), Watch
    PROVE  IInv'
<1>1. PICK q \in Requests : call' = [call EXCEPT ![c] = [@ EXCEPT !.req = q, !.at = AppleStart(q)]]
  BY DEF Begin
<1>2. call[c] \in Progress /\ Fits(call[c]) /\ call[c].at = "idle" /\ ~Begun(c)
  BY Typed DEF Begin, Fits, Begun
<1>3. q \in RequestSet /\ q # None
  BY RequestsAssumption, NoneAssumption
<1>4. LET at == AppleStart(q)
      IN /\ at \in {"find", "iap", "lookup", "done", "playPost", "check", "read", "playRemove"}
         /\ at \in {"find", "playPost"} => q.op = "create" /\ q.kind = "subscription"
         /\ at \in {"iap", "check"} => q.op = "create" /\ q.kind = "one_time"
         /\ at \in {"lookup", "read", "playRemove"} => q.op # "create"
  BY <1>3 DEF AppleStart, PlayStart, RequestSet, Kinds
<1>5. call[c].apple = "none" /\ call[c].google = "none"
  BY <1>2 DEF Fits, ApplePhase
<1>6. /\ call'[c] \in Progress /\ call'[c].req = q /\ call'[c].at = AppleStart(q)
      /\ call'[c].apple = "none" /\ call'[c].google = "none" /\ call'[c].held = call[c].held
      /\ \A d \in Calls : d # c => call'[d] = call[d]
      /\ call' \in [Calls -> Progress]
  <2>1. call \in [Calls -> Progress]
    BY DEF IInv, TypeOK
  <2>2. call'[c] = [call[c] EXCEPT !.req = q, !.at = AppleStart(q)]
    BY <1>1, <2>1
  <2>3. /\ call'[c] \in Progress /\ call'[c].req = q /\ call'[c].at = AppleStart(q)
        /\ call'[c].apple = "none" /\ call'[c].google = "none" /\ call'[c].held = call[c].held
    BY <1>2, <1>4, <1>5, <2>2 DEF Progress, Steps
  <2> QED
    BY <1>1, <2>1, <2>3
<1>7. Fits(call'[c])
  BY <1>3, <1>4, <1>6 DEF Fits, ApplePhase
<1>8. \A d \in Calls : Fits(call'[d])
  BY <1>6, <1>7 DEF IInv
<1>9. TypeOK'
  BY <1>6, Watched DEF Begin, IInv, TypeOK
<1>10. AppleInv'
  BY <1>2, <1>4, <1>5, <1>6, <1>9, AppleUntouched DEF Begin, Configuring
<1>11. PlayInv'
  BY <1>2, <1>4, <1>6, <1>9, PlayUntouched DEF Begin
<1> QED
  BY <1>8, <1>9, <1>10, <1>11 DEF IInv

(* What the answers to a request may be. *)
LEMMA AnswersAre ==
    /\ \A r \in Reads : r \in Answer /\ r.hit = FALSE
    /\ \A legal \in BOOLEAN : \A r \in Writes(legal) :
           r \in Answer /\ (r.hit => legal) /\ (r.ans = "ok" => r.hit)
BY DEF Reads, Writes, Answer, Answers

(* Steps that only read, and that change nothing in either store. *)
LEMMA ReadKeeps ==
    ASSUME IInv, NEW c \in Calls, Watch,
           \/ FindGroup(c) \/ FindPricePoint(c) \/ ListExisting(c) \/ LookUp(c) \/ Rename(c)
           \/ CheckAbsent(c) \/ ReadListings(c)
    PROVE  IInv'
<1>1. /\ call[c] \in Progress /\ Fits(call[c]) /\ Begun(c) /\ call[c].at # "done"
      /\ call[c].req \in RequestSet /\ call[c].req # None /\ call[c].google = "none"
  BY Typed DEF FindGroup, FindPricePoint, ListExisting, LookUp, Rename, CheckAbsent, ReadListings,
               Begun, Fits
<1>2. UNCHANGED <<group, apple, google>>
  BY DEF FindGroup, FindPricePoint, ListExisting, LookUp, Rename, CheckAbsent, ReadListings
<1> DEFINE Harmless(q) ==
             /\ q \in Progress /\ Fits(q) /\ q.req = call[c].req
             /\ call[c].at = "point" => q.at = "price" \/ q.apple = "unpriced"
             /\ call[c].at # "point" => q.at \notin {"point", "price"}
             /\ q.held # call[c].held => q.at = "post"
             /\ q.apple = "ok" => call[c].apple = "ok" \/ call[c].req.op # "create"
             /\ call[c].apple \in {"ok", "unpriced"} => q.apple = call[c].apple
             /\ q.at = "upsert" => google[Item(c)] = None
             /\ q.google # "ok"
<1>3. ASSUME NEW r \in Answer, NEW good, NEW bad, Harmless(good), Harmless(bad),
             Continue(c, r, good, bad),
             call[c].at \notin {"post", "rollback", "plan", "price"}
      PROVE  IInv'
  <2>1. /\ call' \in [Calls -> Progress]
        /\ \A d \in Calls : d # c => call'[d] = call[d]
        /\ \A d \in Calls : Fits(call'[d])
        /\ call'[c].req = call[c].req
        /\ Same(call'[c], call[c]) \/ Same(call'[c], good) \/ Same(call'[c], bad)
        /\ unaware \subseteq unaware' /\ unaware' \in SUBSET Calls
        /\ faults' \in 0..MaxFaults
    BY <1>1, <1>3, GoesOn
  <2>2. TypeOK'
    BY <1>2, <2>1, Watched DEF IInv, TypeOK
  <2>3. /\ call[c].at \in Configuring \/ call[c].apple \in {"ok", "unpriced"}
             => call'[c].at \in Configuring \/ call'[c].apple \in {"ok", "unpriced"}
        /\ call'[c].held # call[c].held => call'[c].at = "post"
        /\ call'[c].at \in {"point", "price"} => call[c].at \in {"point", "price"}
        /\ call'[c].apple = "ok" => call[c].apple = "ok" \/ call[c].req.op # "create"
        /\ call'[c].at = "upsert" => call[c].at = "upsert" \/ google[Item(c)] = None
        /\ call'[c].google = "ok" => call[c].google = "ok"
    BY <1>1, <1>3, <2>1 DEF Same, Configuring
  <2>4. AppleInv'
    BY <1>1, <1>2, <1>3, <2>1, <2>2, <2>3, AppleUntouched DEF Configuring
  <2>5. PlayInv'
    BY <1>1, <1>2, <2>1, <2>2, <2>3, PlayUntouched
  <2> QED
    BY <2>1, <2>2, <2>4, <2>5 DEF IInv
<1>4. /\ \A outcome \in {"ok", "unpriced", "duplicate", "failed"} :
            LET q == AppleEnds(c, outcome)
            IN /\ q \in Progress /\ Fits(q) /\ q.req = call[c].req
               /\ q.at \in {"list", "done", "playPost", "check", "read", "playRemove"}
               /\ q.apple = outcome /\ q.held = call[c].held /\ q.google = "none"
      /\ \A outcome \in {"ok", "inactive", "failed"} :
            LET q == PlayEnds(c, outcome)
            IN /\ q \in Progress /\ q.req = call[c].req /\ q.at = "done" /\ Fits(q)
               /\ q.apple = call[c].apple /\ q.held = call[c].held /\ q.google = outcome
  BY <1>1, Ends
<1>5. ASSUME call[c].apple = "none"
      PROVE  /\ \A outcome \in {"duplicate", "failed", "unpriced"} :
                    call[c].at # "point" \/ outcome = "unpriced" => Harmless(AppleEnds(c, outcome))
             /\ call[c].req.op # "create" /\ call[c].at # "point" => Harmless(AppleEnds(c, "ok"))
  BY <1>1, <1>4, <1>5
<1>6. call[c].at # "point" => Harmless(PlayEnds(c, "failed"))
  BY <1>1, <1>4
<1>7. \A step \in Steps : LET q == At(c, step)
                          IN /\ q \in Progress /\ q.req = call[c].req /\ q.at = step
                             /\ q.apple = call[c].apple /\ q.google = call[c].google
                             /\ q.held = call[c].held
  BY <1>1 DEF At, Progress
<1> HIDE DEF Harmless
<1>8. CASE FindGroup(c)
  <2> DEFINE good == IF GroupToUse = None THEN At(c, "group")
                     ELSE [At(c, "post") EXCEPT !.held = GroupToUse]
  <2>1. PICK r \in Reads : Continue(c, r, good, AppleEnds(c, "failed"))
    BY <1>8 DEF FindGroup
  <2>2. call[c].at = "find" /\ call[c].apple = "none"
    BY <1>1, <1>8 DEF FindGroup, Fits, ApplePhase
  <2>3. /\ good \in Progress /\ good.req = call[c].req /\ good.at \in {"group", "post"}
        /\ good.apple = "none" /\ good.google = "none"
        /\ good.held # call[c].held => good.at = "post"
    <3>1. group \in Calls \cup {None}
      BY DEF IInv, TypeOK
    <3>2. CASE group = None
      BY <1>1, <1>7, <2>2, <3>2 DEF GroupToUse, Steps
    <3>3. CASE group # None
      <4>1. good = [At(c, "post") EXCEPT !.held = group]
        BY <3>3 DEF GroupToUse
      <4>2. At(c, "post") \in Progress /\ At(c, "post").req = call[c].req
            /\ At(c, "post").at = "post" /\ At(c, "post").apple = "none"
            /\ At(c, "post").google = "none"
        BY <1>1, <1>7, <2>2 DEF Steps
      <4> HIDE DEF good
      <4> QED
        BY <3>1, <4>1, <4>2 DEF Progress
    <3> QED
      BY <3>2, <3>3
  <2> HIDE DEF good
  <2>4. Fits(good)
    BY <1>1, <2>2, <2>3 DEF Fits, ApplePhase
  <2>5. Harmless(good)
    BY <2>2, <2>3, <2>4 DEF Harmless
  <2> QED
    BY <1>3, <1>5, <2>1, <2>2, <2>5, AnswersAre
<1>9. CASE FindPricePoint(c)
  <2>1. PICK r \in Reads, exact \in BOOLEAN :
           Continue(c, r, IF exact THEN At(c, "price") ELSE AppleEnds(c, "unpriced"),
                    AppleEnds(c, "unpriced"))
    BY <1>9 DEF FindPricePoint
  <2>2. call[c].apple = "none" /\ call[c].at = "point"
    BY <1>1, <1>9 DEF FindPricePoint, Fits, ApplePhase
  <2>3. At(c, "price") \in Progress /\ Fits(At(c, "price"))
    BY <1>1, <1>7, <2>2 DEF Fits, ApplePhase, Steps
  <2>4. Harmless(At(c, "price"))
    BY <1>1, <1>7, <2>2, <2>3 DEF Harmless, Steps
  <2>5. CASE exact
    BY <1>3, <1>5, <2>1, <2>2, <2>4, <2>5, AnswersAre
  <2>6. CASE ~exact
    BY <1>3, <1>5, <2>1, <2>2, <2>6, AnswersAre
  <2> QED
    BY <2>5, <2>6
<1>10. CASE LookUp(c)
  <2> DEFINE good == CASE ~IsThere(c) -> AppleEnds(c, "failed")
                       [] IsThere(c) /\ call[c].req.op = "update" -> At(c, "rename")
                       [] IsThere(c) /\ call[c].req.op = "delete" -> At(c, "remove")
  <2>1. PICK r \in Reads : Continue(c, r, good, AppleEnds(c, "failed"))
    BY <1>10 DEF LookUp
  <2>2. call[c].apple = "none" /\ call[c].at = "lookup" /\ call[c].req.op \in {"update", "delete"}
    BY <1>1, <1>10 DEF LookUp, Fits, ApplePhase, RequestSet
  <2>3. \A step \in {"rename", "remove"} : At(c, step) \in Progress /\ Fits(At(c, step))
    BY <1>1, <1>7, <2>2 DEF Fits, ApplePhase, Steps
  <2>4. \A step \in {"rename", "remove"} : Harmless(At(c, step))
    BY <1>1, <1>7, <2>2, <2>3 DEF Harmless, Steps
  <2>5. good \in {AppleEnds(c, "failed"), At(c, "rename"), At(c, "remove")}
    BY <2>2
  <2> HIDE DEF good
  <2>6. Harmless(good) /\ Harmless(AppleEnds(c, "failed"))
    BY <1>5, <2>2, <2>4, <2>5
  <2> QED
    BY <1>3, <2>1, <2>2, <2>6, AnswersAre
<1>11. CASE Rename(c)
  <2>1. PICK r \in Writes(IsThere(c)) : Continue(c, r, AppleEnds(c, "ok"), AppleEnds(c, "failed"))
    BY <1>11 DEF Rename
  <2>2. call[c].apple = "none" /\ call[c].at = "rename" /\ call[c].req.op # "create"
    BY <1>1, <1>11 DEF Rename, Fits, ApplePhase
  <2>3. r \in Answer
    BY AnswersAre DEF IsThere
  <2> QED
    BY <1>3, <1>5, <2>1, <2>2, <2>3
<1>12. CASE CheckAbsent(c)
  <2>1. PICK r \in Reads :
           Continue(c, r, IF Absent(c) THEN At(c, "upsert") ELSE PlayEnds(c, "failed"),
                    PlayEnds(c, "failed"))
    BY <1>12 DEF CheckAbsent
  <2>2. call[c].at = "check"
    BY <1>12 DEF CheckAbsent
  <2>3. CASE Absent(c)
    <3>1. At(c, "upsert") \in Progress /\ Fits(At(c, "upsert"))
      BY <1>1, <1>7, <2>2 DEF Fits, ApplePhase, Steps
    <3>2. Harmless(At(c, "upsert"))
      BY <1>1, <1>7, <2>2, <2>3, <3>1 DEF Harmless, Steps, Absent
    <3> QED
      BY <1>3, <1>6, <2>1, <2>2, <2>3, <3>2, AnswersAre
  <2>4. CASE ~Absent(c)
    BY <1>3, <1>6, <2>1, <2>2, <2>4, AnswersAre
  <2> QED
    BY <2>3, <2>4
<1>13. CASE ReadListings(c)
  <2> DEFINE good == IF Absent(c) THEN PlayEnds(c, "failed")
                     ELSE [At(c, "patch") EXCEPT !.seen = google[Item(c)].other]
  <2>1. PICK r \in Reads : Continue(c, r, good, PlayEnds(c, "failed"))
    BY <1>13 DEF ReadListings
  <2>2. call[c].at = "read"
    BY <1>13 DEF ReadListings
  <2>3. Harmless(good)
    <3>1. CASE Absent(c)
      BY <1>6, <2>2, <3>1
    <3>2. CASE ~Absent(c)
      <4>1. google[Item(c)].other \in 0..MaxEdits
        BY <1>1, <3>2, Typed DEF Absent, IInv, TypeOK, PlayProduct
      <4>2. At(c, "patch") \in Progress
        BY <1>7 DEF Steps
      <4>3. good = [At(c, "patch") EXCEPT !.seen = google[Item(c)].other]
        BY <3>2
      <4>4. /\ good \in Progress /\ good.req = call[c].req /\ good.at = "patch"
            /\ good.apple = call[c].apple /\ good.google = "none" /\ good.held = call[c].held
        BY <1>1, <1>7, <4>1, <4>2, <4>3 DEF Progress, Steps
      <4> HIDE DEF good
      <4> QED
        BY <1>1, <2>2, <4>4 DEF Fits, ApplePhase, Harmless
    <3> QED
      BY <3>1, <3>2
  <2> HIDE DEF good
  <2> QED
    BY <1>3, <1>6, <2>1, <2>2, <2>3, AnswersAre
<1>14. CASE ListExisting(c)
  <2>1. call' = [call EXCEPT ![c] = At(c, PlayStart(call[c].req))] /\ UNCHANGED <<unaware, faults>>
    BY <1>14 DEF ListExisting
  <2>2. call[c].at = "list" /\ call[c].apple = "duplicate"
    BY <1>1, <1>14 DEF ListExisting, Fits
  <2>3. LET at == PlayStart(call[c].req)
        IN /\ at \in {"done", "playPost", "check", "read", "playRemove"}
           /\ at = "playPost" => call[c].req.op = "create" /\ call[c].req.kind = "subscription"
           /\ at = "check" => call[c].req.op = "create" /\ call[c].req.kind = "one_time"
           /\ at \in {"read", "playRemove"} => call[c].req.op # "create"
    BY <1>1 DEF PlayStart, RequestSet, Kinds
  <2>4. /\ call'[c] = At(c, PlayStart(call[c].req)) /\ call'[c] \in Progress
        /\ \A d \in Calls : d # c => call'[d] = call[d]
        /\ call' \in [Calls -> Progress]
    BY <1>7, <2>1, <2>3 DEF IInv, TypeOK, Steps
  <2>5. /\ call'[c].req = call[c].req /\ call'[c].at = PlayStart(call[c].req)
        /\ call'[c].apple = "duplicate" /\ call'[c].google = "none" /\ call'[c].held = call[c].held
    BY <1>1, <1>7, <2>2, <2>3, <2>4 DEF Steps
  <2>6. Fits(call'[c])
    BY <1>1, <2>3, <2>5 DEF Fits, ApplePhase
  <2>7. \A d \in Calls : Fits(call'[d])
    BY <2>4, <2>6 DEF IInv
  <2>8. TypeOK'
    BY <1>2, <2>1, <2>4, Watched DEF IInv, TypeOK
  <2>9. AppleInv'
    BY <1>1, <1>2, <2>1, <2>2, <2>3, <2>4, <2>5, <2>8, AppleUntouched DEF Configuring
  <2>10. PlayInv'
    BY <1>1, <1>2, <2>3, <2>4, <2>5, <2>8, PlayUntouched
  <2> QED
    BY <2>7, <2>8, <2>9, <2>10 DEF IInv
<1> QED
  BY <1>8, <1>9, <1>10, <1>11, <1>12, <1>13, <1>14
-----------------------------------------------------------------------------
(* Where a call goes from App Store Connect: not yet to a write at Play. *)
Onward(c, q) ==
    /\ q \in Progress /\ Fits(q) /\ q.req = call[c].req
    /\ q.at # "upsert" /\ q.google = "none"

(* What a write at App Store Connect does to all but its products. *)
LEMMA AppleWrite ==
    ASSUME IInv, NEW c \in Calls, Begun(c), NEW r \in Answer,
           NEW good, Onward(c, good), NEW bad, Onward(c, bad), call[c].at # "upsert",
           Continue(c, r, good, bad), Watch, UNCHANGED google,
           group' \in Calls \cup {None}, apple' \in [Pids -> AppleProduct \cup {None}]
    PROVE  /\ \A d \in Calls : Fits(call'[d])
           /\ TypeOK' /\ PlayInv'
           /\ \A d \in Calls : d # c => call'[d] = call[d]
           /\ call'[c].req = call[c].req
           /\ \/ r.ans = "busy" /\ Same(call'[c], call[c])
              \/ r.ans = "ok" /\ Same(call'[c], good)
              \/ r.ans # "ok" /\ Same(call'[c], bad)
           /\ unaware \subseteq unaware'
           /\ r.hit /\ r.ans # "ok" => c \in unaware'
<1>1. /\ call' \in [Calls -> Progress]
      /\ \A d \in Calls : d # c => call'[d] = call[d]
      /\ \A d \in Calls : Fits(call'[d])
      /\ call'[c].req = call[c].req
      /\ \/ r.ans = "busy" /\ Same(call'[c], call[c])
         \/ r.ans = "ok" /\ Same(call'[c], good)
         \/ r.ans # "ok" /\ Same(call'[c], bad)
      /\ unaware \subseteq unaware' /\ unaware' \in SUBSET Calls
      /\ r.hit /\ r.ans # "ok" => c \in unaware'
      /\ faults' \in 0..MaxFaults
  BY GoesOn DEF Onward
<1>2. TypeOK'
  BY <1>1, Watched DEF IInv, TypeOK
<1>3. call'[c].at # "upsert" /\ (call'[c].google = "ok" => call[c].google = "ok")
  BY <1>1 DEF Same, Onward
<1>4. PlayInv'
  BY <1>1, <1>2, <1>3, PlayUntouched
<1> QED
  BY <1>1, <1>2, <1>4

(* Where the calls stand in the App Store, for a step of c. *)
LEMMA AppleActor ==
    ASSUME IInv, NEW c \in Calls, call[c].at \in ApplePhase \cup {"rollback"}, ~(call[c].at = "idle")
    PROVE  /\ call[c] \in Progress /\ Fits(call[c]) /\ Begun(c) /\ call[c].req \in RequestSet
           /\ Pid(c) \in Pids /\ call[c].google = "none" /\ call[c].req # None
           /\ call[c].at # "rollback" => call[c].apple = "none"
           /\ \A outcome \in {"ok", "unpriced", "duplicate", "failed"} :
                 /\ Onward(c, AppleEnds(c, outcome))
                 /\ AppleEnds(c, outcome).apple = outcome
                 /\ AppleEnds(c, outcome).held = call[c].held
                 /\ AppleEnds(c, outcome).at
                       \in {"list", "done", "playPost", "check", "read", "playRemove"}
           /\ \A step \in ApplePhase \cup {"rollback"} :
                 LET q == At(c, step)
                 IN /\ q \in Progress /\ q.req = call[c].req /\ q.at = step
                    /\ q.apple = call[c].apple /\ q.google = "none" /\ q.held = call[c].held
<1>1. call[c] \in Progress /\ Fits(call[c]) /\ Begun(c) /\ call[c].req \in RequestSet /\ Pid(c) \in Pids
  BY Typed
<1>2. call[c].google = "none" /\ (call[c].at # "rollback" => call[c].apple = "none") /\ call[c].at # "done"
      /\ call[c].req # None
  BY <1>1 DEF Fits, ApplePhase, Begun
<1>3. \A step \in ApplePhase \cup {"rollback"} :
         LET q == At(c, step)
         IN /\ q \in Progress /\ q.req = call[c].req /\ q.at = step
            /\ q.apple = call[c].apple /\ q.google = "none" /\ q.held = call[c].held
  BY <1>1, <1>2 DEF At, Progress, Steps, ApplePhase
<1> QED
  BY <1>1, <1>2, <1>3, Ends DEF Onward

(* A step of c that changes nothing in the App Store but what c has made. *)
LEMMA AppleChanged ==
    ASSUME IInv, NEW c \in Calls, TypeOK', Begun(c), call'[c].req = call[c].req,
           unaware \subseteq unaware', \A d \in Calls : d # c => call'[d] = call[d],
           \A p \in Pids : apple'[p] # None /\ apple'[p].by # c => apple'[p] = apple[p],
           \A p \in Pids : apple'[p] # None /\ apple'[p].by = c => p = Pid(c),
           Mine(c)' => \/ c \in unaware' \/ call'[c].at \in Configuring
                       \/ call'[c].apple \in {"ok", "unpriced"},
           group' \in {group, c, None},
           group' = c => \/ c \in unaware' \/ call'[c].held # c
                         \/ call'[c].at \in {"post", "rollback"} \cup Configuring
                         \/ call'[c].apple \in {"ok", "unpriced"},
           Mine(c)' /\ call[c].req.op = "create" =>
               /\ call'[c].at \in {"point", "price"} => Available(apple'[Pid(c)])
               /\ call'[c].apple = "ok" => apple'[Pid(c)].priced /\ Available(apple'[Pid(c)])
    PROVE  AppleInv'
<1>1. \A d \in Calls : (Begun(d)' <=> Begun(d)) /\ call'[d].req = call[d].req /\ Pid(d)' = Pid(d)
  BY DEF Begun, Pid
<1>2. \A p \in Pids : apple'[p] # None => apple'[p].by \in Calls
  BY DEF TypeOK, AppleProduct
<1>3. \A d \in Calls : Begun(d) => Pid(d) \in Pids
  BY Typed
<1>4. group' # None => group' \in Calls
  BY DEF TypeOK
<1>5. ASSUME NEW p \in Pids, NEW d \in Calls, apple'[p] # None, apple'[p].by = d
      PROVE  /\ Begun(d)' /\ p = Pid(d)'
             /\ \/ d \in unaware' \/ call'[d].at \in Configuring
                \/ call'[d].apple \in {"ok", "unpriced"}
  <2>1. CASE d = c
    <3>1. p = Pid(c) /\ Begun(c)' /\ p = Pid(c)'
      BY <1>1, <1>5, <2>1
    <3>2. Mine(c)'
      BY <1>5, <2>1, <3>1 DEF Mine
    <3> QED
      BY <2>1, <3>1, <3>2
  <2>2. CASE d # c
    <3>1. apple[p] # None /\ apple[p].by = d
      BY <1>5, <2>2
    <3>2. /\ Begun(d) /\ p = Pid(d)
          /\ d \in unaware \/ call[d].at \in Configuring \/ call[d].apple \in {"ok", "unpriced"}
      BY <3>1 DEF IInv, AppleInv, MadeKnowingly
    <3> QED
      BY <1>1, <2>2, <3>2
  <2> QED
    BY <2>1, <2>2
<1>6. ASSUME NEW d \in Calls, group' = d
      PROVE  \/ d \in unaware' \/ call'[d].held # d
             \/ call'[d].at \in {"post", "rollback"} \cup Configuring
             \/ call'[d].apple \in {"ok", "unpriced"}
  <2>1. CASE d = c
    BY <1>6, <2>1
  <2>2. CASE d # c
    <3>1. group = d
      BY <1>6, <2>2, NoneAssumption
    <3>2. \/ d \in unaware \/ call[d].held # d
          \/ call[d].at \in {"post", "rollback"} \cup Configuring
          \/ call[d].apple \in {"ok", "unpriced"}
      BY <3>1 DEF IInv, AppleInv, MadeKnowingly
    <3> QED
      BY <2>2, <3>2
  <2> QED
    BY <2>1, <2>2
<1>7. ASSUME NEW d \in Calls, Begun(d)', call'[d].req.op = "create", Mine(d)'
      PROVE  /\ call'[d].at \in {"point", "price"} => Available(apple'[Pid(d)'])
             /\ call'[d].apple = "ok" => apple'[Pid(d)'].priced /\ Available(apple'[Pid(d)'])
  <2>1. CASE d = c
    BY <1>1, <1>7, <2>1
  <2>2. CASE d # c
    <3>1. Mine(d) /\ apple'[Pid(d)] = apple[Pid(d)]
      BY <1>1, <1>3, <1>7, <2>2 DEF Mine
    <3> QED
      BY <1>1, <1>7, <2>2, <3>1 DEF IInv, AppleInv, AppleConfigured
  <2> QED
    BY <2>1, <2>2
<1> QED
  BY <1>5, <1>6, <1>7 DEF AppleInv, MadeKnowingly, AppleConfigured

(* A group is made: its call holds it, or a store obeyed without the answer. *)
LEMMA PostGroupKeeps ==
    ASSUME IInv, NEW c \in Calls, PostGroup(c), Watch
    PROVE  IInv'
<1>1. call[c].at = "group" /\ UNCHANGED <<apple, google>>
  BY DEF PostGroup
<1>2. /\ call[c] \in Progress /\ Fits(call[c]) /\ Begun(c) /\ Pid(c) \in Pids
      /\ call[c].google = "none" /\ call[c].apple = "none" /\ call[c].req # None
  BY <1>1, AppleActor DEF ApplePhase
<1> DEFINE good == [At(c, "post") EXCEPT !.held = c]
<1>3. PICK r \in Writes(group = None), outcome \in {"duplicate", "failed"} :
         /\ group' = IF r.hit THEN c ELSE group
         /\ Continue(c, r, good, AppleEnds(c, outcome))
  BY DEF PostGroup
<1>4. /\ good \in Progress /\ good.req = call[c].req /\ good.at = "post" /\ good.held = c
      /\ good.apple = "none" /\ good.google = "none"
  <2>1. LET q == At(c, "post") IN q \in Progress /\ q.req = call[c].req /\ q.at = "post"
                                  /\ q.apple = "none" /\ q.google = "none"
    BY <1>1, <1>2, AppleActor DEF ApplePhase
  <2> QED
    BY <2>1 DEF Progress
<1> HIDE DEF good
<1>5. Onward(c, good)
  BY <1>1, <1>2, <1>4 DEF Onward, Fits, ApplePhase
<1>6. /\ Onward(c, AppleEnds(c, outcome)) /\ AppleEnds(c, outcome).apple = outcome
      /\ AppleEnds(c, outcome).held = call[c].held
      /\ AppleEnds(c, outcome).at \notin Configuring
  BY <1>1, AppleActor DEF ApplePhase, Configuring
<1>7. r \in Answer /\ (r.hit => group = None) /\ (r.ans = "ok" => r.hit)
  BY AnswersAre
<1>8. group' \in Calls \cup {None} /\ apple' \in [Pids -> AppleProduct \cup {None}]
  BY <1>1, <1>3 DEF IInv, TypeOK
<1>9. /\ \A d \in Calls : Fits(call'[d])
      /\ TypeOK' /\ PlayInv'
      /\ \A d \in Calls : d # c => call'[d] = call[d]
      /\ call'[c].req = call[c].req
      /\ \/ r.ans = "busy" /\ Same(call'[c], call[c])
         \/ r.ans = "ok" /\ Same(call'[c], good)
         \/ r.ans # "ok" /\ Same(call'[c], AppleEnds(c, outcome))
      /\ unaware \subseteq unaware'
      /\ r.hit /\ r.ans # "ok" => c \in unaware'
  BY <1>1, <1>2, <1>3, <1>5, <1>6, <1>7, <1>8, AppleWrite
<1>10. CASE r.hit
  <2>1. group' = c
    BY <1>3, <1>10
  <2>2. c \in unaware' \/ call'[c].at = "post"
    BY <1>4, <1>9, <1>10 DEF Same
  <2>3. \A p \in Pids : apple[p] # None /\ apple[p].by = c => p = Pid(c) /\ c \in unaware
    BY <1>1, <1>2 DEF IInv, AppleInv, MadeKnowingly, Configuring
  <2>4. call'[c].at \notin {"point", "price"} /\ call'[c].apple # "ok"
    BY <1>1, <1>2, <1>4, <1>6, <1>9 DEF Same, Configuring
  <2>5. Mine(c)' => c \in unaware'
    BY <1>1, <1>9, <2>3, Typed DEF Mine, Pid
  <2>6. AppleInv'
    BY <1>1, <1>2, <1>9, <2>1, <2>2, <2>3, <2>4, <2>5, AppleChanged
  <2> QED
    BY <1>9, <2>6 DEF IInv
<1>11. CASE ~r.hit
  <2>1. group' = group
    BY <1>3, <1>11
  <2>2. AppleInv'
    BY <1>1, <1>2, <1>4, <1>6, <1>7, <1>9, <1>11, <2>1, AppleUntouched DEF Same, Configuring
  <2> QED
    BY <1>9, <2>2 DEF IInv
<1> QED
  BY <1>10, <1>11

(* What a call at work on its product knows of the products it has made. *)
LEMMA OwnProducts ==
    ASSUME IInv, NEW c \in Calls
    PROVE  /\ \A p \in Pids : apple[p] # None /\ apple[p].by = c => p = Pid(c)
           /\ Mine(c) => \/ c \in unaware \/ call[c].at \in Configuring
                         \/ call[c].apple \in {"ok", "unpriced"} \/ Pid(c) \notin Pids
BY DEF IInv, AppleInv, MadeKnowingly, Mine

(* A subscription is made, or its call goes on to take its group back. *)
LEMMA PostSubscriptionKeeps ==
    ASSUME IInv, NEW c \in Calls, PostSubscription(c), Watch
    PROVE  IInv'
<1>1. call[c].at = "post" /\ UNCHANGED <<group, google>>
  BY DEF PostSubscription
<1>2. /\ call[c] \in Progress /\ Fits(call[c]) /\ Begun(c) /\ Pid(c) \in Pids
      /\ call[c].google = "none" /\ call[c].apple = "none" /\ call[c].req # None
  BY <1>1, AppleActor DEF ApplePhase
<1> DEFINE new == [kind |-> "subscription", group |-> call[c].held,
                   offered |-> FALSE, priced |-> FALSE, by |-> c]
           legal == group = call[c].held /\ apple[Pid(c)] = None
<1>3. PICK r \in Writes(legal), outcome \in {"duplicate", "failed"} :
         /\ apple' = IF r.hit THEN [apple EXCEPT ![Pid(c)] = new] ELSE apple
         /\ Continue(c, r, At(c, "plan"), AfterFailedPost(c, outcome))
  BY DEF PostSubscription
<1> DEFINE good == At(c, "plan")
           bad == AfterFailedPost(c, outcome)
<1>4. /\ good \in Progress /\ good.req = call[c].req /\ good.at = "plan"
      /\ good.held = call[c].held /\ good.apple = "none" /\ good.google = "none"
  BY <1>1, <1>2, AppleActor DEF ApplePhase
<1>5. /\ Onward(c, AppleEnds(c, outcome)) /\ AppleEnds(c, outcome).apple = outcome
      /\ AppleEnds(c, outcome).held = call[c].held
      /\ AppleEnds(c, outcome).at \notin Configuring
  BY <1>1, AppleActor DEF ApplePhase, Configuring
<1>6. /\ Onward(c, bad) /\ bad.apple = outcome /\ bad.held = call[c].held
      /\ bad.at \notin Configuring /\ (call[c].held = c => bad.at = "rollback")
  <2>1. CASE call[c].held = c
    <3>1. LET q == At(c, "rollback")
          IN /\ q \in Progress /\ q.req = call[c].req /\ q.at = "rollback"
             /\ q.held = call[c].held /\ q.google = "none"
      BY <1>1, AppleActor DEF ApplePhase
    <3>2. bad = [At(c, "rollback") EXCEPT !.apple = outcome]
      BY <2>1 DEF AfterFailedPost
    <3>3. /\ bad \in Progress /\ bad.req = call[c].req /\ bad.at = "rollback"
          /\ bad.held = call[c].held /\ bad.google = "none" /\ bad.apple = outcome
      BY <3>1, <3>2 DEF Progress
    <3> HIDE DEF bad
    <3> QED
      BY <1>1, <1>2, <3>3 DEF Onward, Fits, ApplePhase, Configuring
  <2>2. CASE call[c].held # c
    BY <1>5, <2>2 DEF AfterFailedPost
  <2> QED
    BY <2>1, <2>2
<1> HIDE DEF good, bad, legal
<1>7. Onward(c, good)
  BY <1>1, <1>2, <1>4 DEF Onward, Fits, ApplePhase
<1>8. r \in Answer /\ (r.hit => legal) /\ (r.ans = "ok" => r.hit)
  BY AnswersAre DEF legal
<1>9. /\ new \in AppleProduct /\ new # None /\ new.by = c
      /\ apple \in [Pids -> AppleProduct \cup {None}]
  <2>1. call[c].held \in Calls \cup {None}
    BY <1>2 DEF Progress
  <2>2. new \in AppleProduct
    BY <2>1 DEF AppleProduct, Kinds
  <2>3. new # None
    <3> HIDE DEF new
    <3> QED
      BY <2>2, NoneAssumption
  <2> QED
    BY <2>2, <2>3 DEF IInv, TypeOK
<1> HIDE DEF new
<1>10. group' \in Calls \cup {None} /\ apple' \in [Pids -> AppleProduct \cup {None}]
  BY <1>1, <1>2, <1>3, <1>9 DEF IInv, TypeOK
<1>11. /\ \A d \in Calls : Fits(call'[d])
       /\ TypeOK' /\ PlayInv'
       /\ \A d \in Calls : d # c => call'[d] = call[d]
       /\ call'[c].req = call[c].req
       /\ \/ r.ans = "busy" /\ Same(call'[c], call[c])
          \/ r.ans = "ok" /\ Same(call'[c], good)
          \/ r.ans # "ok" /\ Same(call'[c], bad)
       /\ unaware \subseteq unaware'
       /\ r.hit /\ r.ans # "ok" => c \in unaware'
  BY <1>1, <1>2, <1>3, <1>6, <1>7, <1>8, <1>10, AppleWrite DEF good, bad
<1>12. /\ call'[c].held = call[c].held
       /\ call'[c].at \in {"post", "plan"} \/ (call[c].held = c => call'[c].at = "rollback")
       /\ call'[c].at \notin {"point", "price"} /\ call'[c].apple # "ok"
       /\ r.hit => c \in unaware' \/ call'[c].at = "plan"
  BY <1>1, <1>2, <1>4, <1>6, <1>11 DEF Same, Configuring
<1>13. Pid(c)' = Pid(c)
  BY <1>11 DEF Pid
<1>14. /\ \A p \in Pids : apple'[p] # None /\ apple'[p].by # c => apple'[p] = apple[p]
       /\ \A p \in Pids : apple'[p] # None /\ apple'[p].by = c => p = Pid(c)
  BY <1>2, <1>3, <1>9, OwnProducts
<1>15. Mine(c)' => c \in unaware' \/ call'[c].at \in Configuring
  <2>1. CASE r.hit
    BY <1>12, <2>1 DEF Configuring
  <2>2. CASE ~r.hit
    BY <1>1, <1>2, <1>3, <1>11, <1>13, <2>2, OwnProducts DEF Mine, Configuring
  <2> QED
    BY <2>1, <2>2
<1>16. AppleInv'
  BY <1>1, <1>2, <1>11, <1>12, <1>14, <1>15, AppleChanged DEF Configuring
<1> QED
  BY <1>11, <1>16 DEF IInv

(* The group is taken back, or the call lets go of it. *)
LEMMA RollBackKeeps ==
    ASSUME IInv, NEW c \in Calls, RollBack(c), Watch
    PROVE  IInv'
<1>1. call[c].at = "rollback" /\ UNCHANGED <<apple, google>>
  BY DEF RollBack
<1>2. /\ call[c] \in Progress /\ Fits(call[c]) /\ Begun(c) /\ Pid(c) \in Pids
      /\ call[c].google = "none" /\ call[c].apple \in {"duplicate", "failed"}
      /\ call[c].req # None
  BY <1>1, AppleActor DEF Fits
<1> DEFINE legal == group = c /\ \A p \in Pids : apple[p] # None => apple[p].group # c
           good == AppleEnds(c, call[c].apple)
           bad == [AppleEnds(c, call[c].apple) EXCEPT !.held = None]
<1>3. PICK r \in Writes(legal) :
         /\ group' = IF r.hit THEN None ELSE group
         /\ Continue(c, r, good, bad)
  BY DEF RollBack
<1>4. /\ Onward(c, good) /\ good.apple = call[c].apple /\ good.held = call[c].held
      /\ good.at \in {"list", "done", "playPost", "check", "read", "playRemove"}
  BY <1>1, <1>2, AppleActor
<1>5. /\ bad \in Progress /\ bad.req = call[c].req /\ bad.at = good.at
      /\ bad.apple = call[c].apple /\ bad.google = "none" /\ bad.held = None
  <2> HIDE DEF good
  <2> QED
    BY <1>4 DEF Onward, Progress, good
<1> HIDE DEF good, bad, legal
<1>6. Onward(c, bad)
  BY <1>4, <1>5 DEF Onward, Fits, ApplePhase
<1>7. r \in Answer /\ (r.hit => legal) /\ (r.ans = "ok" => r.hit)
  BY AnswersAre DEF legal
<1>8. group' \in Calls \cup {None} /\ apple' \in [Pids -> AppleProduct \cup {None}]
  BY <1>1, <1>3 DEF IInv, TypeOK
<1>9. /\ \A d \in Calls : Fits(call'[d])
      /\ TypeOK' /\ PlayInv'
      /\ \A d \in Calls : d # c => call'[d] = call[d]
      /\ call'[c].req = call[c].req
      /\ \/ r.ans = "busy" /\ Same(call'[c], call[c])
         \/ r.ans = "ok" /\ Same(call'[c], good)
         \/ r.ans # "ok" /\ Same(call'[c], bad)
      /\ unaware \subseteq unaware'
      /\ r.hit /\ r.ans # "ok" => c \in unaware'
  BY <1>1, <1>2, <1>3, <1>4, <1>6, <1>7, <1>8, AppleWrite
<1>10. /\ call'[c].at \notin Configuring /\ call'[c].apple \in {"duplicate", "failed"}
       /\ r.ans = "ok" \/ call'[c].at = "rollback" \/ call'[c].held = None
  BY <1>1, <1>2, <1>4, <1>5, <1>9 DEF Same, Configuring
<1>11. Pid(c)' = Pid(c)
  BY <1>9 DEF Pid
<1>12. Mine(c)' => c \in unaware'
  BY <1>1, <1>2, <1>9, <1>11, OwnProducts DEF Mine, Configuring
<1>13. None # c
  BY NoneAssumption
<1>14. group' = c => call'[c].held # c \/ call'[c].at = "rollback"
  BY <1>3, <1>7, <1>10, <1>13
<1>15. \A p \in Pids : apple'[p] # None /\ apple'[p].by = c => p = Pid(c)
  BY <1>1, OwnProducts
<1>16. AppleInv'
  <2>1. group' \in {group, c, None} /\ \A p \in Pids : apple'[p] = apple[p]
    BY <1>1, <1>3
  <2> QED
    BY <1>2, <1>9, <1>10, <1>12, <1>14, <1>15, <2>1, AppleChanged DEF Configuring
<1> QED
  BY <1>9, <1>16 DEF IInv

(* A subscription is offered before it gets a price. *)
LEMMA DeclareAvailabilityKeeps ==
    ASSUME IInv, NEW c \in Calls, DeclareAvailability(c), Watch
    PROVE  IInv'
<1>1. call[c].at = "plan" /\ UNCHANGED <<group, google>>
  BY DEF DeclareAvailability
<1>2. /\ call[c] \in Progress /\ Fits(call[c]) /\ Begun(c) /\ Pid(c) \in Pids
      /\ call[c].google = "none" /\ call[c].apple = "none" /\ call[c].req # None
  BY <1>1, AppleActor DEF ApplePhase
<1> DEFINE good == At(c, "point")
           bad == AppleEnds(c, "unpriced")
<1>3. PICK r \in Writes(Mine(c)) :
         /\ apple' = IF r.hit THEN [apple EXCEPT ![Pid(c)].offered = TRUE] ELSE apple
         /\ Continue(c, r, good, bad)
  BY DEF DeclareAvailability
<1>4. /\ good \in Progress /\ good.req = call[c].req /\ good.at = "point"
      /\ good.apple = "none" /\ good.google = "none"
  BY <1>1, <1>2, AppleActor DEF ApplePhase
<1>5. /\ Onward(c, bad) /\ bad.apple = "unpriced"
      /\ bad.at \in {"list", "done", "playPost", "check", "read", "playRemove"}
  BY <1>1, AppleActor DEF ApplePhase
<1> HIDE DEF good, bad
<1>6. Onward(c, good)
  BY <1>1, <1>2, <1>4 DEF Onward, Fits, ApplePhase
<1>7. Mine(c) \in BOOLEAN /\ r \in Answer /\ (r.hit => Mine(c)) /\ (r.ans = "ok" => r.hit)
  BY AnswersAre DEF Mine
<1>8. apple \in [Pids -> AppleProduct \cup {None}]
  BY DEF IInv, TypeOK
<1>9. /\ apple' \in [Pids -> AppleProduct \cup {None}]
      /\ \A p \in Pids : p # Pid(c) => apple'[p] = apple[p]
      /\ apple'[Pid(c)] = None <=> apple[Pid(c)] = None
      /\ apple[Pid(c)] # None => apple'[Pid(c)].by = apple[Pid(c)].by
      /\ r.hit => Available(apple'[Pid(c)])
      /\ ~r.hit => apple' = apple
  <2>1. CASE r.hit
    <3>1. apple[Pid(c)] \in AppleProduct
      BY <1>2, <1>7, <1>8, <2>1 DEF Mine
    <3> DEFINE new == [apple[Pid(c)] EXCEPT !.offered = TRUE]
    <3>2. new \in AppleProduct /\ new.by = apple[Pid(c)].by /\ Available(new)
      BY <3>1 DEF AppleProduct, Available
    <3>3. apple' = [apple EXCEPT ![Pid(c)] = new]
      BY <1>3, <2>1
    <3> HIDE DEF new
    <3> QED
      BY <1>2, <1>8, <2>1, <3>1, <3>2, <3>3, NoneAssumption
  <2>2. CASE ~r.hit
    BY <1>3, <1>8, <2>2
  <2> QED
    BY <2>1, <2>2
<1>10. /\ \A d \in Calls : Fits(call'[d])
       /\ TypeOK' /\ PlayInv'
       /\ \A d \in Calls : d # c => call'[d] = call[d]
       /\ call'[c].req = call[c].req
       /\ \/ r.ans = "busy" /\ Same(call'[c], call[c])
          \/ r.ans = "ok" /\ Same(call'[c], good)
          \/ r.ans # "ok" /\ Same(call'[c], bad)
       /\ unaware \subseteq unaware'
       /\ r.hit /\ r.ans # "ok" => c \in unaware'
  <2>1. group' \in Calls \cup {None}
    BY <1>1 DEF IInv, TypeOK
  <2> QED
    BY <1>1, <1>2, <1>3, <1>5, <1>6, <1>7, <1>9, <2>1, AppleWrite
<1>11. /\ call'[c].at \in Configuring \/ call'[c].apple = "unpriced"
       /\ call'[c].at \in {"point", "price"} => r.hit
       /\ call'[c].apple # "ok"
  BY <1>1, <1>2, <1>4, <1>5, <1>7, <1>10 DEF Same, Configuring
<1>12. Pid(c)' = Pid(c)
  BY <1>10 DEF Pid
<1>13. /\ \A p \in Pids : apple'[p] # None /\ apple'[p].by # c => apple'[p] = apple[p]
       /\ \A p \in Pids : apple'[p] # None /\ apple'[p].by = c => p = Pid(c)
  BY <1>2, <1>7, <1>9, OwnProducts DEF Mine
<1>14. AppleInv'
  BY <1>1, <1>2, <1>9, <1>10, <1>11, <1>13, AppleChanged
<1> QED
  BY <1>10, <1>14 DEF IInv

(* Only an available product of its own is priced. *)
LEMMA SetPriceKeeps ==
    ASSUME IInv, NEW c \in Calls, SetPrice(c), Watch
    PROVE  IInv'
<1>1. call[c].at = "price" /\ UNCHANGED <<group, google>>
  BY DEF SetPrice
<1>2. /\ call[c] \in Progress /\ Fits(call[c]) /\ Begun(c) /\ Pid(c) \in Pids
      /\ call[c].google = "none" /\ call[c].apple = "none" /\ call[c].req # None
  BY <1>1, AppleActor DEF ApplePhase
<1> DEFINE good == AppleEnds(c, "ok")
           bad == AppleEnds(c, "unpriced")
<1>3. PICK r \in Writes(Mine(c)) :
         /\ apple' = IF r.hit THEN [apple EXCEPT ![Pid(c)].priced = TRUE] ELSE apple
         /\ Continue(c, r, good, bad)
  BY DEF SetPrice, PriceFailed
<1>4. /\ Onward(c, good) /\ good.apple = "ok"
      /\ good.at \in {"list", "done", "playPost", "check", "read", "playRemove"}
  BY <1>1, AppleActor DEF ApplePhase
<1>5. /\ Onward(c, bad) /\ bad.apple = "unpriced"
      /\ bad.at \in {"list", "done", "playPost", "check", "read", "playRemove"}
  BY <1>1, AppleActor DEF ApplePhase
<1> HIDE DEF good, bad
<1>6. Mine(c) \in BOOLEAN /\ r \in Answer /\ (r.hit => Mine(c)) /\ (r.ans = "ok" => r.hit)
  BY AnswersAre DEF Mine
<1>7. apple \in [Pids -> AppleProduct \cup {None}]
  BY DEF IInv, TypeOK
<1>8. /\ apple' \in [Pids -> AppleProduct \cup {None}]
      /\ \A p \in Pids : p # Pid(c) => apple'[p] = apple[p]
      /\ apple'[Pid(c)] = None <=> apple[Pid(c)] = None
      /\ apple[Pid(c)] # None => /\ apple'[Pid(c)].by = apple[Pid(c)].by
                                 /\ Available(apple[Pid(c)]) => Available(apple'[Pid(c)])
      /\ r.hit => apple'[Pid(c)].priced
      /\ ~r.hit => apple' = apple
  <2>1. CASE r.hit
    <3>1. apple[Pid(c)] \in AppleProduct
      BY <1>2, <1>6, <1>7, <2>1 DEF Mine
    <3> DEFINE new == [apple[Pid(c)] EXCEPT !.priced = TRUE]
    <3>2. new \in AppleProduct /\ new.by = apple[Pid(c)].by /\ new.priced
          /\ (Available(apple[Pid(c)]) => Available(new))
      BY <3>1 DEF AppleProduct, Available
    <3>3. apple' = [apple EXCEPT ![Pid(c)] = new]
      BY <1>3, <2>1
    <3> HIDE DEF new
    <3> QED
      BY <1>2, <1>7, <2>1, <3>1, <3>2, <3>3, NoneAssumption
  <2>2. CASE ~r.hit
    BY <1>3, <1>7, <2>2
  <2> QED
    BY <2>1, <2>2
<1>9. /\ \A d \in Calls : Fits(call'[d])
      /\ TypeOK' /\ PlayInv'
      /\ \A d \in Calls : d # c => call'[d] = call[d]
      /\ call'[c].req = call[c].req
      /\ \/ r.ans = "busy" /\ Same(call'[c], call[c])
         \/ r.ans = "ok" /\ Same(call'[c], good)
         \/ r.ans # "ok" /\ Same(call'[c], bad)
      /\ unaware \subseteq unaware'
      /\ r.hit /\ r.ans # "ok" => c \in unaware'
  <2>1. group' \in Calls \cup {None}
    BY <1>1 DEF IInv, TypeOK
  <2> QED
    BY <1>1, <1>2, <1>3, <1>4, <1>5, <1>6, <1>8, <2>1, AppleWrite
<1>10. /\ call'[c].at \in Configuring \/ call'[c].apple \in {"ok", "unpriced"}
       /\ call'[c].apple = "ok" => r.hit
  BY <1>1, <1>2, <1>4, <1>5, <1>6, <1>9 DEF Same, Configuring
<1>11. Pid(c)' = Pid(c)
  BY <1>9 DEF Pid
<1>12. /\ \A p \in Pids : apple'[p] # None /\ apple'[p].by # c => apple'[p] = apple[p]
       /\ \A p \in Pids : apple'[p] # None /\ apple'[p].by = c => p = Pid(c)
  BY <1>2, <1>6, <1>8, OwnProducts DEF Mine
<1>13. Mine(c)' /\ call[c].req.op = "create" => Available(apple'[Pid(c)])
  BY <1>1, <1>2, <1>8, <1>11 DEF Mine, IInv, AppleInv, AppleConfigured
<1>14. AppleInv'
  BY <1>1, <1>2, <1>8, <1>9, <1>10, <1>12, <1>13, AppleChanged
<1> QED
  BY <1>9, <1>14 DEF IInv

(* Of a one-time product no availability is declared. *)
LEMMA PostInAppPurchaseKeeps ==
    ASSUME IInv, NEW c \in Calls, PostInAppPurchase(c), Watch
    PROVE  IInv'
<1>1. call[c].at = "iap" /\ UNCHANGED <<group, google>>
  BY DEF PostInAppPurchase
<1>2. /\ call[c] \in Progress /\ Fits(call[c]) /\ Begun(c) /\ Pid(c) \in Pids
      /\ call[c].google = "none" /\ call[c].apple = "none" /\ call[c].req # None
  BY <1>1, AppleActor DEF ApplePhase
<1> DEFINE new == [kind |-> "one_time", group |-> None,
                   offered |-> FALSE, priced |-> FALSE, by |-> c]
           legal == apple[Pid(c)] = None
           good == At(c, "point")
<1>3. PICK r \in Writes(legal), outcome \in {"duplicate", "failed"} :
         /\ apple' = IF r.hit THEN [apple EXCEPT ![Pid(c)] = new] ELSE apple
         /\ Continue(c, r, good, AppleEnds(c, outcome))
  BY DEF PostInAppPurchase
<1> DEFINE bad == AppleEnds(c, outcome)
<1>4. /\ good \in Progress /\ good.req = call[c].req /\ good.at = "point"
      /\ good.held = call[c].held /\ good.apple = "none" /\ good.google = "none"
  BY <1>1, <1>2, AppleActor DEF ApplePhase
<1>5. /\ Onward(c, bad) /\ bad.apple = outcome /\ bad.held = call[c].held
      /\ bad.at \in {"list", "done", "playPost", "check", "read", "playRemove"}
  BY <1>1, AppleActor DEF ApplePhase
<1> HIDE DEF good, bad, legal
<1>6. Onward(c, good)
  BY <1>1, <1>2, <1>4 DEF Onward, Fits, ApplePhase
<1>7. r \in Answer /\ (r.hit => legal) /\ (r.ans = "ok" => r.hit)
  BY AnswersAre DEF legal
<1>8. new \in AppleProduct /\ new # None /\ new.by = c /\ Available(new)
  <2>1. new \in AppleProduct
    BY DEF AppleProduct, Kinds
  <2>2. new # None
    <3> HIDE DEF new
    <3> QED
      BY <2>1, NoneAssumption
  <2>3. Available(new)
    BY DEF Available
  <2> QED
    BY <2>1, <2>2, <2>3
<1> HIDE DEF new
<1>9. group' \in Calls \cup {None} /\ apple' \in [Pids -> AppleProduct \cup {None}]
      /\ apple \in [Pids -> AppleProduct \cup {None}]
  BY <1>1, <1>2, <1>3, <1>8 DEF IInv, TypeOK
<1>10. /\ \A d \in Calls : Fits(call'[d])
       /\ TypeOK' /\ PlayInv'
       /\ \A d \in Calls : d # c => call'[d] = call[d]
       /\ call'[c].req = call[c].req
       /\ \/ r.ans = "busy" /\ Same(call'[c], call[c])
          \/ r.ans = "ok" /\ Same(call'[c], good)
          \/ r.ans # "ok" /\ Same(call'[c], bad)
       /\ unaware \subseteq unaware'
       /\ r.hit /\ r.ans # "ok" => c \in unaware'
  BY <1>1, <1>2, <1>3, <1>5, <1>6, <1>7, <1>9, AppleWrite DEF bad
<1>11. /\ call'[c].held = call[c].held /\ call'[c].apple # "ok"
       /\ call'[c].at \in {"point", "price"} => r.hit
       /\ r.hit => c \in unaware' \/ call'[c].at = "point"
  BY <1>1, <1>2, <1>4, <1>5, <1>7, <1>10 DEF Same
<1>12. Pid(c)' = Pid(c)
  BY <1>10 DEF Pid
<1>13. /\ \A p \in Pids : apple'[p] # None /\ apple'[p].by # c => apple'[p] = apple[p]
       /\ \A p \in Pids : apple'[p] # None /\ apple'[p].by = c => p = Pid(c)
       /\ r.hit => Available(apple'[Pid(c)])
  BY <1>2, <1>3, <1>8, <1>9, OwnProducts
<1>14. Mine(c)' => c \in unaware' \/ call'[c].at \in Configuring
  <2>1. CASE r.hit
    BY <1>11, <2>1 DEF Configuring
  <2>2. CASE ~r.hit
    BY <1>1, <1>2, <1>3, <1>10, <1>12, <2>2, OwnProducts DEF Mine, Configuring
  <2> QED
    BY <2>1, <2>2
<1>15. group = c => c \in unaware' \/ call'[c].held # c
  BY <1>1, <1>2, <1>10, <1>11 DEF IInv, AppleInv, MadeKnowingly, Configuring
<1>16. AppleInv'
  BY <1>1, <1>2, <1>10, <1>11, <1>13, <1>14, <1>15, AppleChanged DEF Configuring
<1> QED
  BY <1>10, <1>16 DEF IInv

(* A product that goes is nobody's any more. *)
LEMMA RemoveKeeps ==
    ASSUME IInv, NEW c \in Calls, Remove(c), Watch
    PROVE  IInv'
<1>1. call[c].at = "remove" /\ UNCHANGED <<group, google>>
  BY DEF Remove
<1>2. /\ call[c] \in Progress /\ Fits(call[c]) /\ Begun(c) /\ Pid(c) \in Pids
      /\ call[c].google = "none" /\ call[c].apple = "none" /\ call[c].req # None
      /\ call[c].req.op # "create"
  BY <1>1, AppleActor DEF ApplePhase, Fits
<1> DEFINE good == AppleEnds(c, "ok")
           bad == AppleEnds(c, "failed")
<1>3. PICK r \in Writes(IsThere(c)) :
         /\ apple' = IF r.hit THEN [apple EXCEPT ![Pid(c)] = None] ELSE apple
         /\ Continue(c, r, good, bad)
  BY DEF Remove
<1>4. /\ Onward(c, good) /\ good.held = call[c].held
      /\ good.at \in {"list", "done", "playPost", "check", "read", "playRemove"}
      /\ Onward(c, bad) /\ bad.held = call[c].held
      /\ bad.at \in {"list", "done", "playPost", "check", "read", "playRemove"}
  BY <1>1, AppleActor DEF ApplePhase
<1> HIDE DEF good, bad
<1>5. r \in Answer
  BY AnswersAre DEF IsThere
<1>6. group' \in Calls \cup {None} /\ apple' \in [Pids -> AppleProduct \cup {None}]
  BY <1>1, <1>3 DEF IInv, TypeOK
<1>7. /\ \A d \in Calls : Fits(call'[d])
      /\ TypeOK' /\ PlayInv'
      /\ \A d \in Calls : d # c => call'[d] = call[d]
      /\ call'[c].req = call[c].req
      /\ \/ r.ans = "busy" /\ Same(call'[c], call[c])
         \/ r.ans = "ok" /\ Same(call'[c], good)
         \/ r.ans # "ok" /\ Same(call'[c], bad)
      /\ unaware \subseteq unaware'
      /\ r.hit /\ r.ans # "ok" => c \in unaware'
  BY <1>1, <1>2, <1>3, <1>4, <1>5, <1>6, AppleWrite
<1>8. call'[c].held = call[c].held /\ call'[c].at \notin Configuring
  BY <1>1, <1>4, <1>7 DEF Same, Configuring
<1>9. \A p \in Pids : apple'[p] # None => apple'[p] = apple[p]
  BY <1>2, <1>3 DEF IInv, TypeOK
<1>10. Mine(c)' => Mine(c)
  BY <1>2, <1>7, <1>9 DEF Mine, Pid
<1>11. Mine(c)' => c \in unaware'
  BY <1>1, <1>2, <1>7, <1>10, OwnProducts DEF Configuring
<1>12. group = c => c \in unaware' \/ call'[c].held # c
  BY <1>1, <1>2, <1>7, <1>8 DEF IInv, AppleInv, MadeKnowingly, Configuring
<1>13. \A p \in Pids : apple'[p] # None /\ apple'[p].by = c => p = Pid(c)
  BY <1>9, OwnProducts
<1>14. AppleInv'
  BY <1>1, <1>2, <1>7, <1>9, <1>11, <1>12, <1>13, AppleChanged
<1> QED
  BY <1>7, <1>14 DEF IInv
-----------------------------------------------------------------------------
(* A call at work at Google Play, about to go on to q. *)
PlayOnward(c, q) ==
    /\ q \in Progress /\ Fits(q) /\ q.req = call[c].req
    /\ q.at \in {"activate", "done"} /\ q.apple = call[c].apple /\ q.held = call[c].held

Writing == {"playPost", "activate", "upsert", "patch", "playRemove"}

(* What a write at Google Play does to all but its products. *)
LEMMA PlayWrite ==
    ASSUME IInv, NEW c \in Calls, call[c].at \in Writing, NEW r \in Answer,
           NEW good, PlayOnward(c, good), NEW bad, PlayOnward(c, bad),
           Continue(c, r, good, bad), Watch, UNCHANGED <<group, apple>>,
           google' \in [Items -> PlayProduct \cup {None}]
    PROVE  /\ \A d \in Calls : Fits(call'[d])
           /\ TypeOK' /\ AppleInv'
           /\ \A d \in Calls : d # c => call'[d] = call[d]
           /\ call'[c].req = call[c].req
           /\ \/ r.ans = "busy" /\ Same(call'[c], call[c])
              \/ r.ans = "ok" /\ Same(call'[c], good)
              \/ r.ans # "ok" /\ Same(call'[c], bad)
<1>1. Begun(c) /\ call[c] \in Progress
  BY Typed DEF Writing
<1>2. /\ call' \in [Calls -> Progress]
      /\ \A d \in Calls : d # c => call'[d] = call[d]
      /\ \A d \in Calls : Fits(call'[d])
      /\ call'[c].req = call[c].req
      /\ \/ r.ans = "busy" /\ Same(call'[c], call[c])
         \/ r.ans = "ok" /\ Same(call'[c], good)
         \/ r.ans # "ok" /\ Same(call'[c], bad)
      /\ unaware \subseteq unaware' /\ unaware' \in SUBSET Calls
      /\ faults' \in 0..MaxFaults
  BY <1>1, GoesOn DEF PlayOnward
<1>3. TypeOK'
  BY <1>2, Watched DEF IInv, TypeOK
<1>4. /\ call'[c].apple = call[c].apple /\ call'[c].held = call[c].held
      /\ call'[c].at \in Writing \cup {"activate", "done"}
  BY <1>2 DEF Same, PlayOnward
<1>5. AppleInv'
  BY <1>1, <1>2, <1>3, <1>4, AppleUntouched DEF Writing, Configuring
<1> QED
  BY <1>2, <1>3, <1>5

(* Where a call at work at Google Play stands. *)
LEMMA PlayActor ==
    ASSUME IInv, NEW c \in Calls, call[c].at \in Writing
    PROVE  /\ call[c] \in Progress /\ Fits(call[c]) /\ Begun(c) /\ call[c].req \in RequestSet
           /\ Item(c) \in Items /\ call[c].google = "none" /\ call[c].req # None
           /\ \A outcome \in {"ok", "inactive", "failed"} :
                 LET q == PlayEnds(c, outcome)
                 IN PlayOnward(c, q) /\ q.at = "done" /\ q.google = outcome
           /\ Item(c) \in stood[c] => google[Item(c)] # None
<1>1. /\ call[c] \in Progress /\ Fits(call[c]) /\ Begun(c) /\ call[c].req \in RequestSet
      /\ Item(c) \in Items
  BY Typed DEF Writing
<1>2. call[c].google = "none" /\ call[c].req # None /\ call[c].at # "done"
  BY <1>1 DEF Fits, Begun, Writing
<1>3. Item(c) \in stood[c] => google[Item(c)] # None
  BY <1>1 DEF IInv, PlayInv, StoodIsThere, Existing, Items, Kinds
<1> QED
  BY <1>1, <1>2, <1>3, Ends DEF PlayOnward

(* A step of c that changes nothing at Google Play but its item. *)
LEMMA PlayChanged ==
    ASSUME IInv, NEW c \in Calls, TypeOK', Begun(c), call'[c].req = call[c].req, Watch,
           \A d \in Calls : d # c => call'[d] = call[d],
           \A i \in Items : i # Item(c) => google'[i] = google[i],
           call'[c].at = "upsert" => call[c].at = "upsert",
           google'[Item(c)] # None /\ google'[Item(c)].by # c =>
               /\ google[Item(c)] # None /\ google'[Item(c)].by = google[Item(c)].by
               /\ google[Item(c)].active => google'[Item(c)].active,
           google'[Item(c)] # None /\ google'[Item(c)].by = c =>
               \/ google[Item(c)] # None /\ google[Item(c)].by = c
               \/ Item(c) \notin stood[c],
           /\ call[c].req.op = "create" /\ call[c].req.kind = "subscription"
           /\ call'[c].google = "ok" /\ google'[Item(c)] # None /\ google'[Item(c)].by = c
           => google'[Item(c)].active
    PROVE  PlayInv'
<1>1. \A d \in Calls : (Begun(d)' <=> Begun(d)) /\ call'[d].req = call[d].req /\ Item(d)' = Item(d)
  BY DEF Begun, Item
<1>2. \A d \in Calls : Begun(d) => Item(d) \in Items
  BY Typed
<1>3. \A d \in Calls : /\ stood'[d] \subseteq Existing(group', google')
                       /\ Begun(d) => stood'[d] \subseteq stood[d]
  BY Watched DEF TypeOK
<1>4. \A d \in Calls : Begun(d) /\ Item(d) \in stood'[d] => google'[Item(d)] # None
  BY <1>2, <1>3 DEF Existing, Items, Kinds
<1>5. ASSUME NEW i \in Items, NEW d \in Calls, google'[i] # None, google'[i].by = d
      PROVE  Begun(d)' /\ i = Item(d)'
  <2>1. CASE i # Item(c)
    BY <1>1, <1>5, <2>1 DEF IInv, PlayInv, PlayMadeByItsCall
  <2>2. CASE i = Item(c) /\ d = c
    BY <1>1, <2>2
  <2>3. CASE i = Item(c) /\ d # c
    <3>1. google[i] # None /\ google[i].by = d
      BY <1>5, <2>3
    <3> QED
      BY <1>1, <3>1 DEF IInv, PlayInv, PlayMadeByItsCall
  <2> QED
    BY <2>1, <2>2, <2>3
<1>6. ASSUME NEW d \in Calls, Begun(d), Item(d) \in stood'[d]
      PROVE  call'[d].at # "upsert" /\ google'[Item(d)].by # d
  <2>1. /\ call[d].at # "upsert" /\ google[Item(d)].by # d
        /\ google'[Item(d)] # None /\ Item(d) \in stood[d]
    BY <1>3, <1>4, <1>6 DEF IInv, PlayInv, StoodIsThere
  <2>2. CASE Item(d) # Item(c)
    BY <1>2, <1>6, <2>1, <2>2
  <2>3. CASE d = c
    BY <2>1, <2>3
  <2>4. CASE Item(d) = Item(c) /\ d # c
    BY <2>1, <2>4
  <2> QED
    BY <2>2, <2>3, <2>4
<1>7. ASSUME NEW d \in Calls, Begun(d), call[d].req.op = "create",
             call[d].req.kind = "subscription", call'[d].google = "ok",
             google'[Item(d)] # None, google'[Item(d)].by = d
      PROVE  google'[Item(d)].active
  <2>1. CASE d = c
    BY <1>7, <2>1
  <2>2. CASE d # c /\ Item(d) # Item(c)
    BY <1>2, <1>7, <2>2 DEF IInv, PlayInv, PlayActivated
  <2>3. CASE d # c /\ Item(d) = Item(c)
    <3>1. google[Item(d)] # None /\ google[Item(d)].by = d /\ call[d].google = "ok"
      BY <1>7, <2>3
    <3>2. google[Item(d)].active
      BY <1>7, <3>1 DEF IInv, PlayInv, PlayActivated
    <3> QED
      BY <1>7, <2>3, <3>2
  <2> QED
    BY <2>1, <2>2, <2>3
<1> QED
  BY <1>1, <1>3, <1>5, <1>6, <1>7
     DEF PlayInv, PlayMadeByItsCall, StoodIsThere, PlayActivated

(* Play refuses a second subscription. *)
LEMMA PlayPostSubscriptionKeeps ==
    ASSUME IInv, NEW c \in Calls, PlayPostSubscription(c), Watch
    PROVE  IInv'
<1>1. call[c].at = "playPost" /\ UNCHANGED <<group, apple>>
  BY DEF PlayPostSubscription
<1>2. /\ call[c] \in Progress /\ Fits(call[c]) /\ Begun(c) /\ Item(c) \in Items
      /\ call[c].google = "none" /\ call[c].req # None
      /\ Item(c) \in stood[c] => google[Item(c)] # None
  BY <1>1, PlayActor DEF Writing
<1> DEFINE legal == google[Item(c)] = None
           good == At(c, "activate")
           bad == PlayEnds(c, "failed")
<1>3. PICK r \in Writes(legal) :
         /\ google' = IF r.hit THEN [google EXCEPT ![Item(c)] = New(c)] ELSE google
         /\ Continue(c, r, good, bad)
  BY DEF PlayPostSubscription
<1>4. /\ good \in Progress /\ good.req = call[c].req /\ good.at = "activate"
      /\ good.held = call[c].held /\ good.apple = call[c].apple /\ good.google = "none"
  BY <1>2 DEF At, Progress, Steps
<1>5. PlayOnward(c, bad) /\ bad.at = "done" /\ bad.google = "failed"
  BY <1>1, PlayActor DEF Writing
<1> HIDE DEF legal, good, bad
<1>6. PlayOnward(c, good)
  BY <1>1, <1>2, <1>4 DEF PlayOnward, Fits, ApplePhase
<1>7. r \in Answer /\ (r.hit => legal)
  BY AnswersAre DEF legal
<1>8. New(c) \in PlayProduct /\ New(c).by = c
  BY BoundsAssumption DEF New, PlayProduct
<1>9. google' \in [Items -> PlayProduct \cup {None}] /\ google \in [Items -> PlayProduct \cup {None}]
  BY <1>2, <1>3, <1>8 DEF IInv, TypeOK
<1>10. /\ \A d \in Calls : Fits(call'[d])
       /\ TypeOK' /\ AppleInv'
       /\ \A d \in Calls : d # c => call'[d] = call[d]
       /\ call'[c].req = call[c].req
       /\ \/ r.ans = "busy" /\ Same(call'[c], call[c])
          \/ r.ans = "ok" /\ Same(call'[c], good)
          \/ r.ans # "ok" /\ Same(call'[c], bad)
  BY <1>1, <1>3, <1>5, <1>6, <1>7, <1>9, PlayWrite DEF Writing
<1>11. call'[c].at # "upsert" /\ call'[c].google # "ok"
  BY <1>1, <1>2, <1>4, <1>5, <1>10 DEF Same
<1>12. /\ \A i \in Items : i # Item(c) => google'[i] = google[i]
       /\ r.hit => google'[Item(c)] = New(c) /\ google[Item(c)] = None
       /\ ~r.hit => google'[Item(c)] = google[Item(c)]
  BY <1>2, <1>3, <1>7, <1>9 DEF legal
<1>13. PlayInv'
  BY <1>1, <1>2, <1>8, <1>10, <1>11, <1>12, PlayChanged
<1> QED
  BY <1>10, <1>13 DEF IInv

(* An answer of "ok" names an active base plan. *)
LEMMA ActivateKeeps ==
    ASSUME IInv, NEW c \in Calls, Activate(c), Watch
    PROVE  IInv'
<1>1. call[c].at = "activate" /\ UNCHANGED <<group, apple>>
  BY DEF Activate
<1>2. /\ call[c] \in Progress /\ Fits(call[c]) /\ Begun(c) /\ Item(c) \in Items
      /\ call[c].google = "none" /\ call[c].req # None
  BY <1>1, PlayActor DEF Writing
<1> DEFINE good == PlayEnds(c, "ok")
           bad == PlayEnds(c, "inactive")
<1>3. PICK r \in Writes(google[Item(c)] # None) :
         /\ google' = IF r.hit THEN [google EXCEPT ![Item(c)].active = TRUE] ELSE google
         /\ Continue(c, r, good, bad)
  BY DEF Activate
<1>4. /\ PlayOnward(c, good) /\ good.at = "done" /\ good.google = "ok"
      /\ PlayOnward(c, bad) /\ bad.at = "done" /\ bad.google = "inactive"
  BY <1>1, PlayActor DEF Writing
<1> HIDE DEF good, bad
<1>5. r \in Answer /\ (r.hit => google[Item(c)] # None) /\ (r.ans = "ok" => r.hit)
  BY AnswersAre
<1>6. google \in [Items -> PlayProduct \cup {None}]
  BY DEF IInv, TypeOK
<1>7. /\ google' \in [Items -> PlayProduct \cup {None}]
      /\ \A i \in Items : i # Item(c) => google'[i] = google[i]
      /\ google'[Item(c)] # None => /\ google[Item(c)] # None
                                    /\ google'[Item(c)].by = google[Item(c)].by
                                    /\ google'[Item(c)].active = (google[Item(c)].active \/ r.hit)
  <2>1. CASE r.hit
    <3>1. google[Item(c)] \in PlayProduct
      BY <1>2, <1>5, <1>6, <2>1
    <3> DEFINE new == [google[Item(c)] EXCEPT !.active = TRUE]
    <3>2. new \in PlayProduct /\ new.by = google[Item(c)].by /\ new.active = TRUE
      BY <3>1 DEF PlayProduct
    <3>3. google' = [google EXCEPT ![Item(c)] = new]
      BY <1>3, <2>1
    <3> HIDE DEF new
    <3> QED
      BY <1>2, <1>5, <1>6, <2>1, <3>2, <3>3
  <2>2. CASE ~r.hit
    <3>1. google' = google
      BY <1>3, <2>2
    <3>2. google[Item(c)] # None => google[Item(c)].active \in BOOLEAN
      BY <1>2, <1>6 DEF PlayProduct
    <3> QED
      BY <1>6, <2>2, <3>1, <3>2
  <2> QED
    BY <2>1, <2>2 DEF Answer
<1>8. /\ \A d \in Calls : Fits(call'[d])
      /\ TypeOK' /\ AppleInv'
      /\ \A d \in Calls : d # c => call'[d] = call[d]
      /\ call'[c].req = call[c].req
      /\ \/ r.ans = "busy" /\ Same(call'[c], call[c])
         \/ r.ans = "ok" /\ Same(call'[c], good)
         \/ r.ans # "ok" /\ Same(call'[c], bad)
  BY <1>1, <1>3, <1>4, <1>5, <1>7, PlayWrite DEF Writing
<1>9. call'[c].at # "upsert" /\ (call'[c].google = "ok" => r.hit)
  BY <1>1, <1>2, <1>4, <1>5, <1>8 DEF Same
<1>10. PlayInv'
  BY <1>2, <1>7, <1>8, <1>9, PlayChanged
<1> QED
  BY <1>8, <1>10 DEF IInv

(* The upsert replaces only what was not there when its call began. *)
LEMMA UpsertKeeps ==
    ASSUME IInv, NEW c \in Calls, Upsert(c), Watch
    PROVE  IInv'
<1>1. call[c].at = "upsert" /\ UNCHANGED <<group, apple>>
  BY DEF Upsert
<1>2. /\ call[c] \in Progress /\ Fits(call[c]) /\ Begun(c) /\ Item(c) \in Items
      /\ call[c].google = "none" /\ call[c].req # None /\ call[c].req.kind = "one_time"
      /\ Item(c) \notin stood[c]
  BY <1>1, PlayActor DEF Writing, Fits, IInv, PlayInv, StoodIsThere
<1> DEFINE good == PlayEnds(c, "ok")
           bad == PlayEnds(c, "failed")
<1>3. PICK r \in Writes(TRUE) :
         /\ google' = IF r.hit THEN [google EXCEPT ![Item(c)] = New(c)] ELSE google
         /\ Continue(c, r, good, bad)
  BY DEF Upsert
<1>4. /\ PlayOnward(c, good) /\ good.at = "done" /\ good.google = "ok"
      /\ PlayOnward(c, bad) /\ bad.at = "done" /\ bad.google = "failed"
  BY <1>1, PlayActor DEF Writing
<1> HIDE DEF good, bad
<1>5. r \in Answer
  BY AnswersAre
<1>6. New(c) \in PlayProduct /\ New(c).by = c
  BY BoundsAssumption DEF New, PlayProduct
<1>7. google' \in [Items -> PlayProduct \cup {None}] /\ google \in [Items -> PlayProduct \cup {None}]
  BY <1>2, <1>3, <1>6 DEF IInv, TypeOK
<1>8. /\ \A d \in Calls : Fits(call'[d])
      /\ TypeOK' /\ AppleInv'
      /\ \A d \in Calls : d # c => call'[d] = call[d]
      /\ call'[c].req = call[c].req
  BY <1>1, <1>3, <1>4, <1>5, <1>7, PlayWrite DEF Writing
<1>9. /\ \A i \in Items : i # Item(c) => google'[i] = google[i]
      /\ google'[Item(c)] \in {New(c), google[Item(c)]}
  BY <1>2, <1>3, <1>7
<1>10. PlayInv'
  BY <1>1, <1>2, <1>6, <1>8, <1>9, PlayChanged
<1> QED
  BY <1>8, <1>10 DEF IInv

(* New listings change neither the maker nor the base plan. *)
LEMMA PatchListingsKeeps ==
    ASSUME IInv, NEW c \in Calls, PatchListings(c), Watch
    PROVE  IInv'
<1>1. call[c].at = "patch" /\ UNCHANGED <<group, apple>>
  BY DEF PatchListings
<1>2. /\ call[c] \in Progress /\ Fits(call[c]) /\ Begun(c) /\ Item(c) \in Items
      /\ call[c].google = "none" /\ call[c].req # None /\ call[c].req.op # "create"
  BY <1>1, PlayActor DEF Writing, Fits
<1> DEFINE good == PlayEnds(c, "ok")
           bad == PlayEnds(c, "failed")
<1>3. PICK r \in Writes(google[Item(c)] # None) :
         /\ google' = IF r.hit THEN [google EXCEPT ![Item(c)].other = Merged(c)] ELSE google
         /\ Continue(c, r, good, bad)
  BY DEF PatchListings
<1>4. /\ PlayOnward(c, good) /\ good.at = "done" /\ good.google = "ok"
      /\ PlayOnward(c, bad) /\ bad.at = "done" /\ bad.google = "failed"
  BY <1>1, PlayActor DEF Writing
<1> HIDE DEF good, bad
<1>5. r \in Answer /\ (r.hit => google[Item(c)] # None)
  BY AnswersAre
<1>6. google \in [Items -> PlayProduct \cup {None}]
  BY DEF IInv, TypeOK
<1>7. /\ google' \in [Items -> PlayProduct \cup {None}]
      /\ \A i \in Items : i # Item(c) => google'[i] = google[i]
      /\ google'[Item(c)] # None => /\ google[Item(c)] # None
                                    /\ google'[Item(c)].by = google[Item(c)].by
                                    /\ google'[Item(c)].active = google[Item(c)].active
  <2>1. CASE r.hit
    <3>1. google[Item(c)] \in PlayProduct /\ Merged(c) \in 0..MaxEdits
      BY <1>2, <1>5, <1>6, <2>1 DEF Merged, Progress
    <3> DEFINE new == [google[Item(c)] EXCEPT !.other = Merged(c)]
    <3>2. new \in PlayProduct /\ new.by = google[Item(c)].by /\ new.active = google[Item(c)].active
      BY <3>1 DEF PlayProduct
    <3>3. google' = [google EXCEPT ![Item(c)] = new]
      BY <1>3, <2>1
    <3> HIDE DEF new
    <3> QED
      BY <1>2, <1>5, <1>6, <2>1, <3>2, <3>3
  <2>2. CASE ~r.hit
    BY <1>3, <1>6, <2>2
  <2> QED
    BY <2>1, <2>2
<1>8. /\ \A d \in Calls : Fits(call'[d])
      /\ TypeOK' /\ AppleInv'
      /\ \A d \in Calls : d # c => call'[d] = call[d]
      /\ call'[c].req = call[c].req
      /\ Same(call'[c], call[c]) \/ Same(call'[c], good) \/ Same(call'[c], bad)
  BY <1>1, <1>3, <1>4, <1>5, <1>7, PlayWrite DEF Writing
<1>9. call'[c].at # "upsert"
  BY <1>1, <1>4, <1>8 DEF Same
<1>10. PlayInv'
  BY <1>2, <1>7, <1>8, <1>9, PlayChanged
<1> QED
  BY <1>8, <1>10 DEF IInv

(* Nor does a deletion elsewhere. *)
LEMMA PlayRemoveKeeps ==
    ASSUME IInv, NEW c \in Calls, PlayRemove(c), Watch
    PROVE  IInv'
<1>1. call[c].at = "playRemove" /\ UNCHANGED <<group, apple>>
  BY DEF PlayRemove
<1>2. /\ call[c] \in Progress /\ Fits(call[c]) /\ Begun(c) /\ Item(c) \in Items
      /\ call[c].google = "none" /\ call[c].req # None /\ call[c].req.op # "create"
  BY <1>1, PlayActor DEF Writing, Fits
<1> DEFINE good == PlayEnds(c, "ok")
           bad == PlayEnds(c, "failed")
<1>3. PICK r \in Writes(google[Item(c)] # None) :
         /\ google' = IF r.hit THEN [google EXCEPT ![Item(c)] = None] ELSE google
         /\ Continue(c, r, good, bad)
  BY DEF PlayRemove
<1>4. /\ PlayOnward(c, good) /\ good.at = "done" /\ good.google = "ok"
      /\ PlayOnward(c, bad) /\ bad.at = "done" /\ bad.google = "failed"
  BY <1>1, PlayActor DEF Writing
<1> HIDE DEF good, bad
<1>5. r \in Answer
  BY AnswersAre
<1>6. /\ google' \in [Items -> PlayProduct \cup {None}]
      /\ \A i \in Items : google'[i] # None => google'[i] = google[i]
      /\ \A i \in Items : i # Item(c) => google'[i] = google[i]
  BY <1>2, <1>3 DEF IInv, TypeOK
<1>7. /\ \A d \in Calls : Fits(call'[d])
      /\ TypeOK' /\ AppleInv'
      /\ \A d \in Calls : d # c => call'[d] = call[d]
      /\ call'[c].req = call[c].req
      /\ Same(call'[c], call[c]) \/ Same(call'[c], good) \/ Same(call'[c], bad)
  BY <1>1, <1>3, <1>4, <1>5, <1>6, PlayWrite DEF Writing
<1>8. call'[c].at # "upsert"
  BY <1>1, <1>4, <1>7 DEF Same
<1>9. PlayInv'
  BY <1>2, <1>6, <1>7, <1>8, PlayChanged
<1> QED
  BY <1>7, <1>9 DEF IInv

(* A translation in the console leaves makers and base plans alone. *)
LEMMA TranslateKeeps ==
    ASSUME IInv, NEW i \in Items, Translate(i), Watch
    PROVE  IInv'
<1>1. google[i] # None /\ google[i].other < MaxEdits
      /\ UNCHANGED <<group, apple, call, unaware, faults>>
  BY DEF Translate
<1>2. google[i] \in PlayProduct /\ google \in [Items -> PlayProduct \cup {None}]
  BY <1>1 DEF IInv, TypeOK
<1> DEFINE new == [google[i] EXCEPT !.other = @ + 1]
<1>3. new \in PlayProduct /\ new.by = google[i].by /\ new.active = google[i].active
  BY <1>1, <1>2, BoundsAssumption DEF PlayProduct
<1>4. google' = [google EXCEPT ![i] = new]
  BY <1>2 DEF Translate
<1> HIDE DEF new
<1>5. /\ google' \in [Items -> PlayProduct \cup {None}]
      /\ \A j \in Items : google'[j] # None => /\ google[j] # None
                                             /\ google'[j].by = google[j].by
                                             /\ google'[j].active = google[j].active
  BY <1>1, <1>2, <1>3, <1>4
<1>6. group' \in Calls \cup {None}
  BY <1>1 DEF IInv, TypeOK
<1>7. /\ stood' \in [Calls -> SUBSET (Items \cup ({"group"} \X (Calls \cup {None})))]
      /\ \A d \in Calls : stood'[d] \subseteq Existing(group', google')
      /\ \A d \in Calls : Begun(d) => stood'[d] \subseteq stood[d]
  BY <1>6, Watched
<1>8. TypeOK'
  BY <1>1, <1>5, <1>7 DEF IInv, TypeOK
<1>9. AppleInv'
  BY <1>1 DEF IInv, AppleInv, MadeKnowingly, AppleConfigured, Begun, Pid, Mine
<1>10. \A d \in Calls : (Begun(d)' <=> Begun(d)) /\ Item(d)' = Item(d) /\ call'[d] = call[d]
  BY <1>1 DEF Begun, Item
<1>11. \A d \in Calls : Begun(d) => Item(d) \in Items
  BY Typed
<1>12. ASSUME NEW d \in Calls, Begun(d), Item(d) \in stood'[d]
       PROVE  call[d].at # "upsert" /\ google'[Item(d)].by # d
  <2>1. google'[Item(d)] # None /\ Item(d) \in stood[d] /\ Item(d) \in Items
    BY <1>7, <1>11, <1>12 DEF Existing, Items, Kinds
  <2> QED
    BY <1>5, <1>12, <2>1 DEF IInv, PlayInv, StoodIsThere
<1>13. PlayInv'
  <2>1. PlayMadeByItsCall'
    BY <1>5, <1>10 DEF IInv, PlayInv, PlayMadeByItsCall
  <2>2. StoodIsThere'
    BY <1>7, <1>10, <1>12 DEF StoodIsThere
  <2>3. PlayActivated'
    BY <1>1, <1>5, <1>10, <1>11 DEF IInv, PlayInv, PlayActivated
  <2> QED
    BY <2>1, <2>2, <2>3 DEF PlayInv
<1> QED
  BY <1>1, <1>8, <1>9, <1>13 DEF IInv

(* The invariant is inductive. *)
LEMMA NextKeeps ==
    ASSUME IInv, [Next]_vars
    PROVE  IInv'
<1>1. CASE Next
  <2>1. Watch
    BY <1>1 DEF Next
  <2>2. CASE \E i \in Items : Translate(i)
    BY <2>1, <2>2, TranslateKeeps
  <2>3. CASE \E c \in Calls : Begin(c)
    BY <2>1, <2>3, BeginKeeps
  <2>4. CASE \E c \in Calls : Step(c)
    <3>1. PICK c \in Calls : Step(c)
      BY <2>4
    <3> QED
      BY <2>1, <3>1, ReadKeeps, PostGroupKeeps, PostSubscriptionKeeps, RollBackKeeps,
         DeclareAvailabilityKeeps, SetPriceKeeps, PostInAppPurchaseKeeps, RemoveKeeps,
         PlayPostSubscriptionKeeps, ActivateKeeps, UpsertKeeps, PatchListingsKeeps,
         PlayRemoveKeeps DEF Step
  <2> QED
    BY <1>1, <2>2, <2>3, <2>4 DEF Next
<1>2. CASE UNCHANGED vars
  BY <1>2 DEF vars, IInv, TypeOK, AppleInv, MadeKnowingly, AppleConfigured, PlayInv,
              PlayMadeByItsCall, StoodIsThere, PlayActivated, Begun, Pid, Item, Mine, Existing
<1> QED
  BY <1>1, <1>2

LEMMA Invariance == Spec => []IInv
<1>1. Init => IInv
  BY InitInv
<1>2. IInv /\ [Next]_vars => IInv'
  BY NextKeeps
<1> QED
  BY <1>1, <1>2, PTL DEF Spec

(* What it is for. *)
LEMMA IInvSafe ==
    ASSUME IInv
    PROVE  TypeOK /\ StandingProductKept /\ NothingLeftBehind /\ ConfiguredMeansSellable
<1>1. TypeOK
  BY DEF IInv
<1>2. StandingProductKept
  BY DEF IInv, PlayInv, StoodIsThere, StandingProductKept, Begun
<1>3. NothingLeftBehind
  <2> SUFFICES ASSUME NEW c \in Calls, call[c].at # "rollback",
                      call[c].apple \in {"duplicate", "failed"}, c \notin unaware
               PROVE  /\ \A p \in Pids : apple[p] # None => apple[p].by # c
                      /\ group = c => call[c].held # c
    BY DEF NothingLeftBehind
  <2>1. call[c].at \notin {"post", "rollback"} \cup Configuring
    BY DEF IInv, Fits, ApplePhase, Configuring
  <2> QED
    BY <2>1 DEF IInv, AppleInv, MadeKnowingly
<1>4. ConfiguredMeansSellable
  <2> SUFFICES ASSUME NEW c \in Calls, Says(c, "configured"), call[c].req.op = "create"
               PROVE  /\ "apple" \in call[c].req.stores /\ Mine(c)
                           => apple[Pid(c)].priced /\ Available(apple[Pid(c)])
                      /\ /\ "google" \in call[c].req.stores
                         /\ call[c].req.kind = "subscription"
                         /\ google[Item(c)] # None
                         /\ google[Item(c)].by = c
                         => google[Item(c)].active
    BY DEF ConfiguredMeansSellable
  <2>1. Begun(c)
    BY Typed DEF Says
  <2>2. /\ "apple" \in call[c].req.stores => call[c].apple = "ok"
        /\ "google" \in call[c].req.stores => call[c].google = "ok"
    BY DEF Says
  <2> QED
    BY <2>1, <2>2 DEF IInv, AppleInv, AppleConfigured, PlayInv, PlayActivated
<1> QED
  BY <1>1, <1>2, <1>3, <1>4

(* Every variable keeps its type: the attempts of one request stay within
   MAX_RETRIES (retry.ts), the faults within their bound. *)
THEOREM TypeCorrect == Spec => []TypeOK
BY Invariance, IInvSafe, PTL

(* A Play product that has stood since before a create call began is never
   that call's work, whatever other calls and the console do between its GET
   and its upsert (google.ts, createOneTimePurchase). *)
THEOREM StandingIsKept == Spec => []StandingProductKept
BY Invariance, IInvSafe, PTL

(* An App Store create that fails leaves no product and no group of its own,
   unless a store obeyed without an answer, or the rollback did not get through
   (apple.ts, createSubscription). *)
THEOREM FailureLeavesNothing == Spec => []NothingLeftBehind
BY Invariance, IInvSafe, PTL

(* What create-product.ts calls configured can be sold: an App Store product
   has its price, an App Store subscription its availability too, a Play
   subscription its active base plan, as long as the product is the one the
   call made. *)
THEOREM ConfiguredIsSellable == Spec => []ConfiguredMeansSellable
BY Invariance, IInvSafe, PTL
=============================================================================
