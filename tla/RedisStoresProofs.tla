-------------------------- MODULE RedisStoresProofs --------------------------
(***************************************************************************)
(* Theorems about the two stores of stores/redis.ts, for every set of      *)
(* clients and users and every finite set of transactions:                 *)
(* RedisPurchaseStore, RedisSubscriptionStore, and the latter beside the   *)
(* in-memory store (SubscriptionStores).                                   *)
(*                                                                         *)
(* IInv is the inductive invariant of the purchase store, in two halves.   *)
(* RowInv is about rows and indexes, and holds however many calls fail:    *)
(*   Typed         the types, and the steps that fit an operation          *)
(*   IndexesAgree  the run's property                                      *)
(*   Apart         calls that overlap are about different transactions     *)
(*   RowsSound     what a call has read of its row is still so             *)
(* ClaimInv is about the claims, while no call has failed and none that    *)
(* move or delete a user's purchase have overlapped others of that user:   *)
(*   UsersApart    such calls are about different users                    *)
(*   ClaimsSound   what a call has read of a claim, or of the copies of    *)
(*                 its user, is still good enough for its next step        *)
(*   OneIndexed    no user's set has two transactions                      *)
(*   ClaimsKept    a claim is for a row of its user, or one on its way to  *)
(*                 him, and for the one copy his set has, or a search of   *)
(*                 the set is going on                                     *)
(*                                                                         *)
(* SubscriptionInv is that of the subscription store, and with MemoryInv   *)
(* that of the two stores side by side:                                    *)
(*   WrittenOnce   the order of writes has every row once                  *)
(*   ListOf        a user's list has his rows, in the order of writes      *)
(***************************************************************************)
EXTENDS RedisPurchaseStore, SubscriptionStores, FiniteSetTheorems, SequenceTheorems,
        WellFoundedInduction, TLAPS

(* What a step can be for an operation. *)
OpFits(w) ==
    /\ w.pc \in {"insert", "owner", "undo", "index"} => w.op = "save"
    /\ w.pc \in ClaimSteps => w.op \in {"save", "reassign"}
    /\ w.pc \in {"lookup", "release", "unclaim"} => w.op \in {"reassign", "delete"}
    /\ w.pc = "move" => w.op = "reassign"
    /\ w.pc = "remove" => w.op = "delete"
    /\ w.pc \in {"members", "clear"} => w.op = "reset"
    /\ w.created => w.op = "save" /\ w.pc \in ClaimSteps \cup {"index", "undo"}
    /\ w.pc = "undo" => w.created /\ w.answer # "ok"
    /\ w.op \in {"reassign", "delete"} /\ w.pc # "lookup" => w.from \in Users

Typed == TypeOK /\ \A c \in Clients : Working(c) => OpFits(call[c])

(* A client in the middle of a call has one. *)
LEMMA WorkingCall ==
    ASSUME TypeOK, NEW c \in Clients, Working(c)
    PROVE  call[c] \in Call
<1>1. call[c] \in Call \cup {Idle(answer) : answer \in Answers}
  BY DEF TypeOK
<1>2. \A answer : call[c] # Idle(answer)
  BY DEF Working, At, Idle
<1> QED
  BY <1>1, <1>2

(* Only a call in progress makes a step or fails. *)
LEMMA StepWorks ==
    ASSUME NEW c \in Clients, Step(c) \/ Fail(c)
    PROVE  Working(c)
BY DEF Step, Fail, Working, At, Insert, ReadOwner, WriteIndexes, Undo, TakeClaim, Scan,
       ReadLegacy, Backfill, ReadHolder, Reclaim, ReadHolderRow, TakeOver, Lookup, ReadClaim,
       Unclaim, Move, Remove, ReadMembers, Clear

(* A step of a call changes that call only, and what it is about never. *)
Continues(c) ==
    /\ call' \in [Clients -> Call \cup {Idle(answer) : answer \in Answers}]
    /\ \A d \in Clients : d # c => call'[d] = call[d]
    /\ Working(c)' => /\ OpFits(call'[c])
                      /\ call'[c].op = call[c].op
                      /\ call'[c].tx = call[c].tx
                      /\ call'[c].user = call[c].user

(* A call may go on with other data about the same transaction, or end. *)
LEMMA ContinuesBy ==
    ASSUME TypeOK, NEW c \in Clients, NEW w, call' = [call EXCEPT ![c] = w],
           \/ w \in {Idle(answer) : answer \in Answers}
           \/ /\ w \in Call /\ OpFits(w)
              /\ w.op = call[c].op /\ w.tx = call[c].tx /\ w.user = call[c].user
    PROVE  Continues(c)
<1>1. call'[c] = w
  BY DEF TypeOK
<1>2. (\E answer \in Answers : w = Idle(answer)) => ~Working(c)'
  BY <1>1 DEF Working, At, Idle
<1> QED
  BY <1>1, <1>2 DEF Continues, TypeOK

(* It may go on with another step and nothing else. *)
LEMMA GoContinues ==
    ASSUME Typed, NEW c \in Clients, Working(c),
           NEW pc \in Steps, call' = [call EXCEPT ![c].pc = pc],
           OpFits([call[c] EXCEPT !.pc = pc])
    PROVE  Continues(c)
<1> DEFINE w == [call[c] EXCEPT !.pc = pc]
<1>1. call[c] \in Call
  BY WorkingCall DEF Typed
<1>2. w \in Call /\ w.op = call[c].op /\ w.tx = call[c].tx /\ w.user = call[c].user
  BY <1>1 DEF Call
<1>3. call' = [call EXCEPT ![c] = w]
  OBVIOUS
<1> QED
  BY <1>2, <1>3, ContinuesBy DEF Typed

(* It may end with an answer. *)
LEMMA AnswerContinues ==
    ASSUME Typed, NEW c \in Clients, NEW answer \in Answers, Answer(c, answer)
    PROVE  Continues(c)
BY ContinuesBy DEF Answer, Typed

(* It may give up its claim and delete its row. *)
LEMMA ThrowContinues ==
    ASSUME Typed, NEW c \in Clients, NEW answer \in Answers, Throw(c, answer),
           call[c].pc \in ClaimSteps, answer # "ok"
    PROVE  Continues(c)
<1>0. call[c] \in Call /\ OpFits(call[c])
  BY WorkingCall DEF Typed, Working, At, ClaimSteps
<1>1. CASE call[c].created
  <2> DEFINE w == [call[c] EXCEPT !.pc = "undo", !.answer = answer]
  <2>1. w \in Call /\ w.op = call[c].op /\ w.tx = call[c].tx /\ w.user = call[c].user
    BY <1>0 DEF Call, Steps
  <2>2. OpFits(w)
    BY <1>0, <1>1 DEF Call, OpFits, ClaimSteps
  <2>3. call' = [call EXCEPT ![c] = w]
    BY <1>1 DEF Throw
  <2> QED
    BY <2>1, <2>2, <2>3, ContinuesBy DEF Typed
<1>2. CASE ~call[c].created
  BY <1>2, AnswerContinues DEF Throw
<1> QED
  BY <1>1, <1>2

(* Every step, and every failure, is one of these. *)
LEMMA StepContinues ==
    ASSUME Typed, NEW c \in Clients, Step(c) \/ Fail(c)
    PROVE  Continues(c)
<1>0. call[c] \in Call /\ OpFits(call[c]) /\ Working(c)
  BY StepWorks, WorkingCall DEF Typed
<1> USE DEF Go, At, Answers
<1>1. CASE Insert(c)
  <2>1. CASE record[call[c].tx] = NoUser
    <3> DEFINE w == [call[c] EXCEPT !.created = TRUE,
                       !.pc = IF type = "non_consumable" THEN "claim" ELSE "index"]
    <3>1. w \in Call /\ w.op = call[c].op /\ w.tx = call[c].tx /\ w.user = call[c].user
      BY <1>0 DEF Call, Steps
    <3>2. OpFits(w)
      BY <1>0, <1>1 DEF Call, OpFits, ClaimSteps, Insert
    <3>3. call' = [call EXCEPT ![c] = w]
      BY <1>0, <1>1, <2>1 DEF Insert, ThenClaim, Call
    <3> QED
      BY <3>1, <3>2, <3>3, ContinuesBy DEF Typed
  <2>2. CASE record[call[c].tx] # NoUser
    <3>1. OpFits([call[c] EXCEPT !.pc = "owner"])
      BY <1>0, <1>1 DEF Call, OpFits, ClaimSteps, Insert
    <3> QED
      BY <1>0, <1>1, <2>2, <3>1, GoContinues DEF Insert, Steps
  <2> QED
    BY <2>1, <2>2
<1>2. CASE ReadOwner(c)
  <2> DEFINE pc == IF type = "non_consumable" THEN "claim" ELSE "index"
  <2>1. CASE BelongsToOther(call[c].tx, call[c].user)
    BY <1>2, <2>1, AnswerContinues DEF ReadOwner
  <2>2. CASE ~BelongsToOther(call[c].tx, call[c].user)
    <3>1. OpFits([call[c] EXCEPT !.pc = pc])
      BY <1>0, <1>2 DEF Call, OpFits, ClaimSteps, ReadOwner
    <3>2. call' = [call EXCEPT ![c].pc = pc]
      BY <1>2, <2>2 DEF ReadOwner, ThenClaim
    <3> QED
      BY <1>0, <3>1, <3>2, GoContinues DEF Steps
  <2> QED
    BY <2>1, <2>2
<1>3. CASE WriteIndexes(c)
  BY <1>3, AnswerContinues DEF WriteIndexes
<1>4. CASE Undo(c)
  BY <1>4, <1>0, AnswerContinues DEF Undo, Call
<1>5. ASSUME Claimed(c), call[c].pc \in ClaimSteps PROVE Continues(c)
  <2> DEFINE pc == IF call[c].op = "save" THEN "index" ELSE "release"
  <2>1. OpFits([call[c] EXCEPT !.pc = pc])
    BY <1>0, <1>5 DEF Call, OpFits, ClaimSteps
  <2> QED
    BY <1>0, <1>5, <2>1, GoContinues DEF Claimed, Steps
<1>6. ASSUME NEW pc \in ClaimSteps, call[c].pc \in ClaimSteps, Go(c, pc) PROVE Continues(c)
  <2>1. OpFits([call[c] EXCEPT !.pc = pc])
    BY <1>0, <1>6 DEF Call, OpFits, ClaimSteps
  <2> QED
    BY <1>0, <1>6, <2>1, GoContinues DEF ClaimSteps, Steps
<1>7. CASE TakeClaim(c)
  BY <1>6, <1>7 DEF TakeClaim, ClaimSteps
<1>8. CASE Scan(c)
  <2> DEFINE others == productSet[call[c].user] \ {call[c].tx}
             w == [call[c] EXCEPT !.pc = "legacy", !.ids = others]
  <2>1. CASE others = {}
    BY <1>5, <1>8, <2>1 DEF Scan, ClaimSteps
  <2>2. CASE others # {}
    <3>1. call' = [call EXCEPT ![c] = w]
      BY <1>8, <2>2 DEF Scan
    <3>2. others \in SUBSET Txs
      BY <1>0 DEF Typed, TypeOK, Call
    <3>3. w \in Call /\ w.op = call[c].op /\ w.tx = call[c].tx /\ w.user = call[c].user
      BY <1>0, <3>2 DEF Call, Steps
    <3>4. OpFits(w)
      BY <1>0, <1>8 DEF Call, OpFits, ClaimSteps, Scan
    <3> QED
      BY <3>1, <3>3, <3>4, ContinuesBy DEF Typed
  <2> QED
    BY <2>1, <2>2
<1>9. CASE ReadLegacy(c)
  <2>1. CASE LegacyCopies(call[c].ids) = {}
    BY <1>5, <1>9, <2>1 DEF ReadLegacy, ClaimSteps
  <2>2. CASE LegacyCopies(call[c].ids) # {}
    <3>1. PICK tx \in LegacyCopies(call[c].ids) :
                call' = [call EXCEPT ![c].pc = "backfill", ![c].holder = tx]
      BY <1>9, <2>2 DEF ReadLegacy
    <3> DEFINE w == [call[c] EXCEPT !.pc = "backfill", !.holder = tx]
    <3>2. call' = [call EXCEPT ![c] = w]
      BY <3>1
    <3>3. tx \in Txs
      BY DEF LegacyCopies, Recorded
    <3>4. w \in Call /\ w.op = call[c].op /\ w.tx = call[c].tx /\ w.user = call[c].user
      BY <1>0, <3>3 DEF Call, Steps
    <3>5. OpFits(w)
      BY <1>0, <1>9 DEF Call, OpFits, ClaimSteps, ReadLegacy
    <3> QED
      BY <3>2, <3>4, <3>5, ContinuesBy DEF Typed
  <2> QED
    BY <2>1, <2>2
<1>10. CASE Backfill(c)
  BY <1>10, ThrowContinues DEF Backfill, Refused, ClaimSteps
<1>11. CASE ReadHolder(c)
  <2> DEFINE holder == claim[call[c].user]
             w == [call[c] EXCEPT !.pc = "holderRow", !.holder = holder]
  <2>1. CASE holder = call[c].tx
    BY <1>5, <1>11, <2>1 DEF ReadHolder, ClaimSteps
  <2>2. CASE holder # call[c].tx /\ holder = NoTx
    BY <1>6, <1>11, <2>2 DEF ReadHolder, ClaimSteps
  <2>3. CASE holder # call[c].tx /\ holder # NoTx
    <3>1. call' = [call EXCEPT ![c] = w]
      BY <1>11, <2>3 DEF ReadHolder
    <3>2. holder \in Txs
      BY <1>0, <2>3 DEF Typed, TypeOK, Call
    <3>3. w \in Call /\ w.op = call[c].op /\ w.tx = call[c].tx /\ w.user = call[c].user
      BY <1>0, <3>2 DEF Call, Steps
    <3>4. OpFits(w)
      BY <1>0, <1>11 DEF Call, OpFits, ClaimSteps, ReadHolder
    <3> QED
      BY <3>1, <3>3, <3>4, ContinuesBy DEF Typed
  <2> QED
    BY <2>1, <2>2, <2>3
<1>12. ASSUME LostAttempt(c), call[c].pc \in ClaimSteps PROVE Continues(c)
  <2> DEFINE w == [call[c] EXCEPT !.pc = "holder", !.attempts = @ + 1]
  <2>1. CASE call[c].attempts < 2
    <3>1. call' = [call EXCEPT ![c] = w]
      BY <1>12, <2>1 DEF LostAttempt
    <3>2. call[c].attempts + 1 \in 0..2
      BY <1>0, <2>1 DEF Call
    <3>3. w \in Call /\ w.op = call[c].op /\ w.tx = call[c].tx /\ w.user = call[c].user
      BY <1>0, <3>2 DEF Call, Steps
    <3>4. OpFits(w)
      BY <1>0, <1>12 DEF Call, OpFits, ClaimSteps
    <3> QED
      BY <3>1, <3>3, <3>4, ContinuesBy DEF Typed
  <2>2. CASE ~(call[c].attempts < 2)
    BY <1>12, <2>2, ThrowContinues DEF LostAttempt
  <2> QED
    BY <2>1, <2>2
<1>13. CASE Reclaim(c)
  BY <1>5, <1>12, <1>13 DEF Reclaim, ClaimSteps
<1>14. CASE ReadHolderRow(c)
  BY <1>6, <1>14, ThrowContinues DEF ReadHolderRow, Refused, ClaimSteps
<1>15. CASE TakeOver(c)
  BY <1>5, <1>12, <1>15 DEF TakeOver, ClaimSteps
<1>16. CASE Lookup(c)
  <2> DEFINE from == record[call[c].tx]
             pc == IF type = "non_consumable"
                   THEN IF call[c].op = "reassign" THEN "claim" ELSE "release"
                   ELSE IF call[c].op = "reassign" THEN "move" ELSE "remove"
             w == [call[c] EXCEPT !.from = from, !.pc = pc]
  <2>1. CASE from = NoUser \/ (call[c].op = "reassign" /\ from = call[c].user)
    BY <1>16, <2>1, AnswerContinues DEF Lookup
  <2>2. CASE ~(from = NoUser \/ (call[c].op = "reassign" /\ from = call[c].user))
    <3>1. call' = [call EXCEPT ![c] = w]
      BY <1>0, <1>16, <2>2 DEF Lookup, Call
    <3>2. from \in Users
      BY <1>0, <2>2 DEF Typed, TypeOK, Call
    <3>3. w \in Call /\ w.op = call[c].op /\ w.tx = call[c].tx /\ w.user = call[c].user
      BY <1>0, <3>2 DEF Call, Steps
    <3>4. OpFits(w)
      BY <1>0, <1>16, <3>2 DEF Call, OpFits, ClaimSteps, Lookup
    <3> QED
      BY <3>1, <3>3, <3>4, ContinuesBy DEF Typed
  <2> QED
    BY <2>1, <2>2
<1>17. ASSUME Released(c), call[c].pc \in {"release", "unclaim"} PROVE Continues(c)
  <2> DEFINE pc == IF call[c].op = "reassign" THEN "move" ELSE "remove"
  <2>1. OpFits([call[c] EXCEPT !.pc = pc])
    BY <1>0, <1>17 DEF Call, OpFits, ClaimSteps
  <2> QED
    BY <1>0, <1>17, <2>1, GoContinues DEF Released, Steps
<1>18. CASE ReadClaim(c)
  <2>1. OpFits([call[c] EXCEPT !.pc = "unclaim"])
    BY <1>0, <1>18 DEF Call, OpFits, ClaimSteps, ReadClaim
  <2> QED
    BY <1>0, <1>17, <1>18, <2>1, GoContinues DEF ReadClaim, Steps
<1>19. CASE Unclaim(c)
  BY <1>17, <1>19 DEF Unclaim
<1>20. CASE Move(c) \/ Remove(c) \/ Clear(c)
  BY <1>20, AnswerContinues DEF Move, Remove, Clear
<1>21. CASE ReadMembers(c)
  <2> DEFINE ids == productSet[call[c].user]
             w == [call[c] EXCEPT !.pc = "clear", !.ids = ids]
  <2>1. CASE ids = {}
    BY <1>21, <2>1, AnswerContinues DEF ReadMembers
  <2>2. CASE ids # {}
    <3>1. call' = [call EXCEPT ![c] = w]
      BY <1>21, <2>2 DEF ReadMembers
    <3>2. ids \in SUBSET Txs
      BY <1>0 DEF Typed, TypeOK, Call
    <3>3. w \in Call /\ w.op = call[c].op /\ w.tx = call[c].tx /\ w.user = call[c].user
      BY <1>0, <3>2 DEF Call, Steps
    <3>4. OpFits(w)
      BY <1>0, <1>21 DEF Call, OpFits, ClaimSteps, ReadMembers
    <3> QED
      BY <3>1, <3>3, <3>4, ContinuesBy DEF Typed
  <2> QED
    BY <2>1, <2>2
<1>22. CASE Fail(c)
  BY <1>22, AnswerContinues, ThrowContinues DEF Fail
<1> QED
  BY <1>1, <1>2, <1>3, <1>4, <1>7, <1>8, <1>9, <1>10, <1>11, <1>13, <1>14, <1>15, <1>16,
     <1>18, <1>19, <1>20, <1>21, <1>22 DEF Step
-----------------------------------------------------------------------------
(* Calls that overlap are about different transactions, and a reset is about a
   user no other call takes a purchase from or gives one to. *)
Apart ==
    \A c, d \in Clients : c # d /\ Working(c) /\ Working(d) =>
        /\ call[c].op # "reset" /\ call[d].op # "reset" => call[c].tx # call[d].tx
        /\ call[c].op = "reset" =>
               /\ call[d].user # call[c].user
               /\ call[d].op # "reset" =>
                      call[d].from # call[c].user /\ record[call[d].tx] # call[c].user

(* What a call has read is still so. *)
RowSound(w) ==
    /\ w.pc = "owner" => record[w.tx] # NoUser
    /\ w.op = "save" /\ w.pc \in ClaimSteps \cup {"index", "undo"} => record[w.tx] = w.user
    /\ w.created => \A user \in Users : w.tx \notin productSet[user]
    /\ w.op \in {"reassign", "delete"} /\ w.pc # "lookup" =>
           record[w.tx] = w.from /\ (w.op = "reassign" => w.from # w.user)
    /\ w.pc = "clear" => w.ids = productSet[w.user]

RowsSound == \A c \in Clients : Working(c) => RowSound(call[c])

RowInv == Typed /\ IndexesAgree /\ Apart /\ RowsSound

RowAction(c) ==
    Insert(c) \/ WriteIndexes(c) \/ Undo(c) \/ Move(c) \/ Remove(c) \/ Clear(c)

rows == <<record, userIndex, productSet, allSet>>

(* The six actions that write rows or indexes are all that do. *)
LEMMA OtherActions ==
    ASSUME NEW c \in Clients, Step(c) \/ Fail(c), ~RowAction(c)
    PROVE  UNCHANGED rows
BY DEF Step, Fail, RowAction, rows, keys, KeepsRows, ReadOwner, TakeClaim, Scan, ReadLegacy,
       Backfill, ReadHolder, Reclaim, ReadHolderRow, TakeOver, Lookup, ReadClaim, Unclaim,
       ReadMembers

(* The types of a call in progress, field by field. *)
LEMMA WorkingTyped ==
    ASSUME Typed, NEW c \in Clients, Working(c)
    PROVE  /\ call[c] \in Call /\ OpFits(call[c])
           /\ call[c].tx \in Txs /\ call[c].user \in Users
           /\ call[c].from \in Users \cup {NoUser} /\ call[c].ids \in SUBSET Txs
           /\ call[c].holder \in Txs \cup {NoTx}
           /\ call[c].op \in Operations /\ call[c].created \in BOOLEAN
           /\ call[c].answer \in Answers
BY WorkingCall DEF Typed, Call

(* A step keeps the types. *)
LEMMA StepTyped ==
    ASSUME Typed, NEW c \in Clients, Step(c) \/ Fail(c)
    PROVE  Typed'
<1>0. Working(c) /\ Continues(c)
  BY StepWorks, StepContinues
<1>1. /\ call[c].tx \in Txs /\ call[c].user \in Users /\ call[c].ids \in SUBSET Txs
      /\ call[c].from \in Users \cup {NoUser} /\ call[c].holder \in Txs \cup {NoTx}
      /\ call[c].pc \in {"move", "remove", "unclaim"} => call[c].from \in Users
  BY <1>0, WorkingTyped DEF OpFits
<1>2. /\ record' \in [Txs -> Users \cup {NoUser}]
      /\ userIndex' \in [Users -> SUBSET Txs]
      /\ productSet' \in [Users -> SUBSET Txs]
      /\ allSet' \in SUBSET Txs
  <2>1. CASE UNCHANGED rows
    BY <2>1 DEF rows, Typed, TypeOK
  <2>2. CASE Insert(c)
    BY <1>1, <2>2 DEF Insert, Typed, TypeOK
  <2>3. CASE WriteIndexes(c)
    BY <1>1, <2>3 DEF WriteIndexes, Indexed, Typed, TypeOK
  <2>4. CASE Undo(c)
    BY <1>1, <2>4 DEF Undo, Typed, TypeOK
  <2>5. CASE Move(c)
    BY <1>1, <2>5 DEF Move, Moved, Indexed, At, Typed, TypeOK
  <2>6. CASE Remove(c)
    BY <1>1, <2>6 DEF Remove, At, Typed, TypeOK
  <2>7. CASE Clear(c)
    BY <1>1, <2>7 DEF Clear, Typed, TypeOK
  <2> QED
    BY <2>1, <2>2, <2>3, <2>4, <2>5, <2>6, <2>7, OtherActions DEF RowAction
<1>3. claim' \in [Users -> Txs \cup {NoTx}]
  <2>1. CASE UNCHANGED claim
    BY <2>1 DEF Typed, TypeOK
  <2>2. CASE TakeClaim(c) \/ Backfill(c) \/ Reclaim(c) \/ TakeOver(c)
    BY <1>1, <2>2 DEF TakeClaim, Backfill, Reclaim, TakeOver, SetClaim, Typed, TypeOK
  <2>3. CASE Unclaim(c)
    BY <1>1, <2>3 DEF Unclaim, SetClaim, Typed, TypeOK, At
  <2>4. CASE Clear(c)
    BY <1>1, <2>4 DEF Clear, ClearedClaim, Typed, TypeOK
  <2> QED
    BY <2>1, <2>2, <2>3, <2>4
       DEF Step, Fail, keys, Insert, ReadOwner, WriteIndexes, Undo, Scan, ReadLegacy, ReadHolder,
           ReadHolderRow, Lookup, ReadClaim, Move, Remove, ReadMembers
<1>4. type' \in Types /\ noted' \in SUBSET Notes
  BY DEF Step, Fail, KeepsRows, Insert, ReadOwner, WriteIndexes, Undo, TakeClaim, Scan,
         ReadLegacy, Backfill, ReadHolder, Reclaim, ReadHolderRow, TakeOver, Lookup, ReadClaim,
         Unclaim, Move, Remove, ReadMembers, Clear, Typed, TypeOK, Notes
<1>5. \A d \in Clients : Working(d)' => OpFits(call[d])'
  BY <1>0 DEF Continues, Typed, OpFits, Working, At
<1> QED
  BY <1>0, <1>2, <1>3, <1>4, <1>5 DEF Typed, TypeOK, Continues

(* No step of one call touches what another has read: the row of its
   transaction, the sets that transaction is in, the set a reset is to delete. *)
LEMMA Undisturbed ==
    ASSUME RowInv, NEW c \in Clients, NEW d \in Clients, c # d, Working(d), Step(c) \/ Fail(c)
    PROVE  /\ call[d].op # "reset" =>
                  /\ record'[call[d].tx] = record[call[d].tx]
                  /\ \A user \in Users : call[d].tx \in productSet'[user]
                                             => call[d].tx \in productSet[user]
           /\ call[d].op = "reset" => productSet'[call[d].user] = productSet[call[d].user]
<1>0. Working(c) /\ TypeOK
  BY StepWorks DEF RowInv, Typed
<1>1. /\ call[c].tx \in Txs /\ call[c].user \in Users /\ call[c].ids \in SUBSET Txs
      /\ call[d].tx \in Txs /\ call[d].user \in Users
      /\ OpFits(call[c])
      /\ RowSound(call[c])
  BY <1>0, WorkingTyped DEF RowInv, RowsSound
<1>2. /\ call[c].op # "reset" /\ call[d].op # "reset" => call[c].tx # call[d].tx
      /\ call[c].op = "reset" => call[d].user # call[c].user
      /\ call[c].op = "reset" /\ call[d].op # "reset" => record[call[d].tx] # call[c].user
      /\ call[d].op = "reset" => call[c].user # call[d].user
      /\ call[d].op = "reset" /\ call[c].op # "reset" => call[c].from # call[d].user
  BY <1>0 DEF RowInv, Apart
<1>3. CASE UNCHANGED rows
  BY <1>3 DEF rows
<1>4. CASE Insert(c)
  BY <1>0, <1>1, <1>2, <1>4 DEF Insert, At, OpFits, TypeOK
<1>5. CASE WriteIndexes(c)
  BY <1>0, <1>1, <1>2, <1>5 DEF WriteIndexes, Indexed, At, OpFits, TypeOK
<1>6. CASE Undo(c)
  BY <1>0, <1>1, <1>2, <1>6 DEF Undo, At, OpFits, TypeOK
<1>7. CASE Move(c)
  BY <1>0, <1>1, <1>2, <1>7 DEF Move, Moved, Indexed, At, OpFits, TypeOK
<1>8. CASE Remove(c)
  BY <1>0, <1>1, <1>2, <1>8 DEF Remove, At, OpFits, TypeOK
<1>9. CASE Clear(c)
  <2>1. call[c].op = "reset" /\ call[c].ids = productSet[call[c].user]
    BY <1>1, <1>9 DEF Clear, At, OpFits, RowSound
  <2>2. productSet[call[c].user] \subseteq OwnedBy(call[c].user)
    BY <1>1 DEF RowInv, IndexesAgree
  <2>3. call[d].op # "reset" => call[d].tx \notin call[c].ids
    BY <1>2, <2>1, <2>2 DEF OwnedBy
  <2> QED
    BY <1>0, <1>1, <1>2, <1>9, <2>1, <2>3 DEF Clear, TypeOK
<1> QED
  BY <1>3, <1>4, <1>5, <1>6, <1>7, <1>8, <1>9, OtherActions DEF RowAction

(* What the call itself goes on with. *)
LEMMA ActorSound ==
    ASSUME RowInv, NEW c \in Clients, Step(c) \/ Fail(c), Working(c)'
    PROVE  /\ RowSound(call[c])'
           /\ call'[c].from \in {call[c].from, record[call[c].tx]}
           /\ call[c].op # "reset" => record'[call[c].tx] \in {record[call[c].tx], call[c].user}
<1>0. Working(c) /\ TypeOK /\ Typed /\ Typed'
  BY StepWorks, StepTyped DEF RowInv, Typed
<1>1. /\ call[c] \in Call /\ call'[c] \in Call
      /\ call[c].tx \in Txs /\ call[c].user \in Users
      /\ OpFits(call[c]) /\ OpFits(call'[c])
      /\ RowSound(call[c])
      /\ call'[c].op = call[c].op /\ call'[c].tx = call[c].tx /\ call'[c].user = call[c].user
  <2>1. call'[c] \in Call
    BY <1>0 DEF Typed, TypeOK, Working, At, Idle
  <2> QED
  BY <1>0, <2>1, WorkingTyped, StepContinues DEF RowInv, RowsSound, Continues
<1>2. ~(WriteIndexes(c) \/ Undo(c) \/ Move(c) \/ Remove(c) \/ Clear(c))
  BY <1>0 DEF WriteIndexes, Undo, Move, Remove, Clear, Answer, Idle, Working, At, Typed, TypeOK
<1>3. CASE Insert(c)
  <2>1. CASE record[call[c].tx] = NoUser
    <3>1. record'[call[c].tx] = call[c].user /\ call[c].op = "save"
      BY <1>0, <1>1, <1>3, <2>1 DEF Insert, TypeOK, At, OpFits
    <3>2. call'[c].pc \in {"claim", "index"} /\ call'[c].from = call[c].from
      <4>1. call'[c] = [call[c] EXCEPT !.created = TRUE,
                          !.pc = IF type = "non_consumable" THEN "claim" ELSE "index"]
        BY <1>0, <1>1, <1>3, <2>1 DEF Insert, ThenClaim, TypeOK, Call
      <4> QED
        BY <1>1, <4>1 DEF Call
    <3>3. \A user \in Users : call[c].tx \notin productSet[user]
      BY <1>1, <2>1, NoUserAssumption DEF RowInv, IndexesAgree, OwnedBy
    <3>4. productSet' = productSet
      BY <1>3 DEF Insert
    <3> QED
      BY <1>1, <3>1, <3>2, <3>3, <3>4 DEF RowSound
  <2>2. CASE record[call[c].tx] # NoUser
    <3>1. /\ UNCHANGED record /\ call[c].op = "save"
          /\ call'[c].pc = "owner" /\ call'[c].from = call[c].from
          /\ ~call'[c].created
      BY <1>0, <1>1, <1>3, <2>2 DEF Insert, Go, TypeOK, At, OpFits, Call, ClaimSteps
    <3> QED
      BY <1>1, <2>2, <3>1 DEF RowSound, ClaimSteps
  <2> QED
    BY <2>1, <2>2
<1>4. CASE UNCHANGED rows /\ ~Insert(c)
  <2>1. CASE ReadOwner(c)
    <3>1. record[call[c].tx] = call[c].user
      BY <1>0, <1>1, <2>1 DEF ReadOwner, BelongsToOther, Answer, Idle, Working, At, TypeOK,
                             RowSound
    <3>2. call'[c].pc \in {"claim", "index"} /\ call'[c].from = call[c].from
          /\ call[c].op = "save" /\ ~call'[c].created
      BY <1>0, <1>1, <2>1 DEF ReadOwner, ThenClaim, Answer, Idle, Working, At, TypeOK, Call,
                             OpFits, ClaimSteps
    <3> QED
      BY <1>1, <1>4, <3>1, <3>2 DEF RowSound, rows, ClaimSteps
  <2>2. CASE Lookup(c)
    <3>1. /\ record[call[c].tx] # NoUser
          /\ call[c].op = "reassign" => record[call[c].tx] # call[c].user
          /\ call'[c].from = record[call[c].tx]
          /\ call[c].op \in {"reassign", "delete"}
          /\ call'[c].pc \notin {"owner", "clear"}
      <4> DEFINE from == record[call[c].tx]
      <4>1. from # NoUser /\ ~(call[c].op = "reassign" /\ from = call[c].user)
        BY <1>0, <2>2 DEF Lookup, Answer, Idle, Working, At, TypeOK
      <4>2. PICK pc \in {"claim", "release", "move", "remove"} :
                call'[c] = [call[c] EXCEPT !.from = from, !.pc = pc]
        BY <1>0, <1>1, <2>2, <4>1 DEF Lookup, TypeOK, Call
      <4>3. call'[c].from = from /\ call'[c].pc = pc
        BY <1>1, <4>2 DEF Call
      <4>4. call[c].op \in {"reassign", "delete"}
        BY <1>1, <2>2 DEF Lookup, At, OpFits
      <4> QED
        BY <4>1, <4>3, <4>4
    <3> QED
      BY <1>1, <1>4, <3>1 DEF RowSound, rows, OpFits
  <2>3. CASE ReadMembers(c)
    <3>1. /\ call'[c].pc = "clear" /\ call'[c].ids = productSet[call[c].user]
          /\ call[c].op = "reset" /\ call'[c].from = call[c].from
      BY <1>0, <1>1, <2>3 DEF ReadMembers, Answer, Idle, Working, At, TypeOK, Call, OpFits
    <3> QED
      BY <1>1, <1>4, <3>1 DEF RowSound, rows, OpFits
  <2>4. CASE ~(ReadOwner(c) \/ Lookup(c) \/ ReadMembers(c))
    <3>1. /\ call'[c].from = call[c].from
          /\ call'[c].created => call[c].created
          /\ call[c].pc \in ClaimSteps \cup {"release", "unclaim"}
          /\ call'[c].pc \notin {"owner", "clear"}
      <4> DEFINE Same == /\ call'[c].from = call[c].from
                         /\ call'[c].created => call[c].created
                         /\ call'[c].pc \notin {"owner", "clear"}
      <4>1. ASSUME NEW pc \in Steps \ {"owner", "clear"}, Go(c, pc) PROVE Same
        BY <1>0, <1>1, <4>1 DEF Go, TypeOK, Call
      <4>2. ASSUME NEW answer \in Answers, Throw(c, answer) PROVE Same
        BY <1>0, <1>1, <4>2 DEF Throw, Answer, Idle, Working, At, TypeOK, Call
      <4>3. ASSUME LostAttempt(c) PROVE Same
        <5>1. CASE call[c].attempts < 2
          BY <1>0, <1>1, <4>3, <5>1 DEF LostAttempt, TypeOK, Call
        <5> QED
          BY <4>2, <4>3, <5>1 DEF LostAttempt, Answers
      <4>4. CASE Scan(c)
        BY <1>0, <1>1, <4>1, <4>4 DEF Scan, Claimed, Steps, TypeOK, Call, At, ClaimSteps
      <4>5. CASE ReadLegacy(c)
        BY <1>0, <1>1, <4>1, <4>5 DEF ReadLegacy, Claimed, Steps, TypeOK, Call, At, ClaimSteps
      <4>6. CASE ReadHolder(c)
        BY <1>0, <1>1, <4>1, <4>6 DEF ReadHolder, Claimed, Steps, TypeOK, Call, At, ClaimSteps
      <4>7. CASE TakeClaim(c) \/ Reclaim(c) \/ TakeOver(c)
        BY <4>1, <4>3, <4>7 DEF TakeClaim, Reclaim, TakeOver, Claimed, Steps, At, ClaimSteps
      <4>8. CASE Backfill(c) \/ ReadHolderRow(c)
        BY <4>1, <4>2, <4>8 DEF Backfill, ReadHolderRow, Refused, Steps, At, ClaimSteps, Answers
      <4>9. CASE ReadClaim(c) \/ Unclaim(c)
        BY <4>1, <4>9 DEF ReadClaim, Unclaim, Released, Steps, At
      <4>10. CASE Fail(c)
        BY <1>0, <4>2, <4>10 DEF Fail, Answers, Answer, Idle, Working, At, TypeOK
      <4> QED
        BY <1>2, <1>4, <2>4, <4>4, <4>5, <4>6, <4>7, <4>8, <4>9, <4>10
           DEF Step, Scan, ReadLegacy, ReadHolder, TakeClaim, Reclaim, TakeOver, Backfill,
               ReadHolderRow, ReadClaim, Unclaim, Fail, At, ClaimSteps
    <3> QED
      BY <1>1, <1>4, <3>1 DEF RowSound, rows, OpFits, ClaimSteps
  <2> QED
    BY <2>1, <2>2, <2>3, <2>4
<1> QED
  BY <1>2, <1>3, <1>4, OtherActions DEF RowAction

(* A step keeps overlapping calls apart and what they have read good. *)
LEMMA StepKeepsApart ==
    ASSUME RowInv, NEW c \in Clients, Step(c) \/ Fail(c)
    PROVE  Apart' /\ RowsSound'
<1>0. Working(c) /\ TypeOK /\ Continues(c) /\ Typed /\ Typed'
  BY StepWorks, StepTyped, StepContinues DEF RowInv, Typed
<1>1. \A d \in Clients : d # c => call'[d] = call[d] /\ (Working(d)' <=> Working(d))
  BY <1>0 DEF Continues, Working, At
<1>2. Working(c)' => /\ call'[c].op = call[c].op /\ call'[c].tx = call[c].tx
                     /\ call'[c].user = call[c].user
                     /\ call'[c].from \in {call[c].from, record[call[c].tx]}
                     /\ call[c].op # "reset" =>
                            record'[call[c].tx] \in {record[call[c].tx], call[c].user}
                     /\ RowSound(call[c])'
  BY <1>0, ActorSound DEF Continues
<1>3. RowsSound'
  <2> SUFFICES ASSUME NEW d \in Clients, Working(d)' PROVE RowSound(call[d])'
    BY DEF RowsSound
  <2>1. CASE d = c
    BY <1>2, <2>1
  <2>2. CASE d # c
    <3>1. Working(d) /\ call'[d] = call[d] /\ RowSound(call[d])
      BY <1>1, <2>2 DEF RowInv, RowsSound
    <3>2. OpFits(call[d]) /\ call[d].op \in Operations
      BY <1>0, <3>1, WorkingTyped
    <3> QED
      BY <2>2, <3>1, <3>2, Undisturbed DEF RowSound, OpFits, ClaimSteps
  <2> QED
    BY <2>1, <2>2
<1>4. Apart'
  <2> SUFFICES ASSUME NEW d \in Clients, NEW e \in Clients, d # e, Working(d)', Working(e)'
               PROVE  /\ call'[d].op # "reset" /\ call'[e].op # "reset"
                             => call'[d].tx # call'[e].tx
                      /\ call'[d].op = "reset" =>
                             /\ call'[e].user # call'[d].user
                             /\ call'[e].op # "reset" =>
                                    /\ call'[e].from # call'[d].user
                                    /\ record'[call'[e].tx] # call'[d].user
    BY DEF Apart
  <2>1. Working(d) /\ Working(e)
    BY <1>0, <1>1
  <2>2. /\ call[d].op # "reset" /\ call[e].op # "reset" => call[d].tx # call[e].tx
        /\ call[d].op = "reset" =>
               /\ call[e].user # call[d].user
               /\ call[e].op # "reset" =>
                      call[e].from # call[d].user /\ record[call[e].tx] # call[d].user
    BY <2>1 DEF RowInv, Apart
  <2>3. CASE e = c
    BY <1>1, <1>2, <2>2, <2>3
  <2>4. CASE e # c
    <3>1. call'[e] = call[e]
      BY <1>1, <2>4
    <3>2. call[e].op # "reset" => record'[call[e].tx] = record[call[e].tx]
      BY <2>1, <2>4, Undisturbed
    <3> QED
      BY <1>1, <1>2, <2>2, <3>1, <3>2
  <2> QED
    BY <2>3, <2>4
<1> QED
  BY <1>3, <1>4

(* A step keeps the indexes in step with the rows. *)
LEMMA StepKeepsIndexes ==
    ASSUME RowInv, NEW c \in Clients, Step(c) \/ Fail(c)
    PROVE  IndexesAgree'
<1> DEFINE w == call[c]
<1>0. Working(c) /\ TypeOK /\ Typed
  BY StepWorks DEF RowInv, Typed
<1>1. /\ w.tx \in Txs /\ w.user \in Users /\ w.ids \in SUBSET Txs
      /\ OpFits(w) /\ RowSound(w)
  BY <1>0, WorkingTyped DEF RowInv, RowsSound
<1>2. /\ productSet = userIndex
      /\ \A user \in Users, tx \in Txs : tx \in productSet[user] => record[tx] = user
      /\ \A tx \in allSet : \E user \in Users : tx \in userIndex[user]
  BY DEF RowInv, IndexesAgree, OwnedBy
<1>3. /\ productSet \in [Users -> SUBSET Txs] /\ record \in [Txs -> Users \cup {NoUser}]
      /\ userIndex \in [Users -> SUBSET Txs] /\ allSet \in SUBSET Txs
  BY <1>0 DEF TypeOK
<1> DEFINE Agree == /\ productSet' = userIndex'
                    /\ \A user \in Users, tx \in Txs : tx \in productSet'[user] => record'[tx] = user
                    /\ \A tx \in allSet' : \E user \in Users : tx \in userIndex'[user]
<1>4. Agree => IndexesAgree'
  <2>1. Typed'
    BY <1>0, StepTyped
  <2>2. productSet' \in [Users -> SUBSET Txs]
    BY <2>1 DEF Typed, TypeOK
  <2> QED
    BY <2>2 DEF IndexesAgree, OwnedBy
<1>5. CASE UNCHANGED rows
  BY <1>2, <1>4, <1>5 DEF rows
<1>6. CASE Insert(c)
  BY <1>1, <1>2, <1>3, <1>4, <1>6, NoUserAssumption DEF Insert
<1>7. CASE WriteIndexes(c)
  <2>1. record[w.tx] = w.user
    BY <1>1, <1>7 DEF WriteIndexes, At, OpFits, RowSound
  <2>2. /\ userIndex' = [userIndex EXCEPT ![w.user] = @ \cup {w.tx}]
        /\ productSet' = [productSet EXCEPT ![w.user] = @ \cup {w.tx}]
        /\ allSet' = allSet \cup {w.tx} /\ record' = record
    BY <1>7 DEF WriteIndexes, Indexed
  <2> QED
    BY <1>1, <1>2, <1>3, <1>4, <2>1, <2>2
<1>8. CASE Undo(c)
  <2>1. \A user \in Users : w.tx \notin productSet[user]
    BY <1>1, <1>8 DEF Undo, At, OpFits, RowSound
  <2>2. record' = [record EXCEPT ![w.tx] = NoUser] /\ UNCHANGED <<userIndex, productSet, allSet>>
    BY <1>8 DEF Undo
  <2> QED
    BY <1>1, <1>2, <1>3, <1>4, <2>1, <2>2
<1>9. CASE Move(c)
  <2>1. record[w.tx] = w.from /\ w.from \in Users /\ w.from # w.user
    BY <1>1, <1>9 DEF Move, At, OpFits, RowSound
  <2>2. /\ record' = [record EXCEPT ![w.tx] = w.user]
        /\ productSet' = [[productSet EXCEPT ![w.from] = @ \ {w.tx}] EXCEPT ![w.user] = @ \cup {w.tx}]
        /\ userIndex' = [[userIndex EXCEPT ![w.from] = @ \ {w.tx}] EXCEPT ![w.user] = @ \cup {w.tx}]
        /\ allSet' = allSet
    BY <1>9 DEF Move, Moved, Indexed
  <2>3. \A user \in Users : productSet'[user] = IF user = w.user THEN productSet[user] \cup {w.tx}
                                               ELSE IF user = w.from THEN productSet[user] \ {w.tx}
                                               ELSE productSet[user]
    BY <1>1, <1>3, <2>1, <2>2
  <2>4. productSet' = userIndex'
    BY <1>2, <2>2
  <2>5. \A user \in Users, tx \in Txs : tx \in productSet'[user] => record'[tx] = user
    BY <1>1, <1>2, <1>3, <2>1, <2>2, <2>3
  <2>6. \A tx \in allSet' : \E user \in Users : tx \in userIndex'[user]
    BY <1>1, <1>2, <1>3, <2>1, <2>2, <2>3, <2>4
  <2> QED
    BY <1>4, <2>4, <2>5, <2>6
<1>10. CASE Remove(c)
  <2>1. record[w.tx] = w.from /\ w.from \in Users
    BY <1>1, <1>10 DEF Remove, At, OpFits, RowSound
  <2>2. /\ record' = [record EXCEPT ![w.tx] = NoUser]
        /\ productSet' = [productSet EXCEPT ![w.from] = @ \ {w.tx}]
        /\ userIndex' = [userIndex EXCEPT ![w.from] = @ \ {w.tx}]
        /\ allSet' = allSet \ {w.tx}
    BY <1>10 DEF Remove
  <2> QED
    BY <1>1, <1>2, <1>3, <1>4, <2>1, <2>2
<1>11. CASE Clear(c)
  <2>1. w.ids = productSet[w.user]
    BY <1>1, <1>11 DEF Clear, At, RowSound
  <2>2. /\ record' = [tx \in Txs |-> IF tx \in w.ids THEN NoUser ELSE record[tx]]
        /\ userIndex' = [userIndex EXCEPT ![w.user] = @ \ w.ids]
        /\ productSet' = [productSet EXCEPT ![w.user] = {}]
        /\ allSet' = allSet \ w.ids
    BY <1>11 DEF Clear
  <2>3. productSet' = userIndex'
    BY <1>1, <1>2, <1>3, <2>1, <2>2
  <2>4. \A user \in Users, tx \in Txs : tx \in productSet'[user] => record'[tx] = user
    BY <1>1, <1>2, <1>3, <2>1, <2>2
  <2>5. \A tx \in allSet' : \E user \in Users : tx \in userIndex'[user]
    BY <1>1, <1>2, <1>3, <2>1, <2>2
  <2> QED
    BY <1>4, <2>3, <2>4, <2>5
<1> QED
  BY <1>5, <1>6, <1>7, <1>8, <1>9, <1>10, <1>11, OtherActions DEF RowAction

(* A call starts with its request and nothing read. *)
LEMMA StartBegins ==
    ASSUME Typed, NEW c \in Clients, NEW op \in Operations, NEW tx \in Txs,
           NEW user \in Users, Start(c, op, tx, user)
    PROVE  /\ Typed'
           /\ ~Working(c) /\ UNCHANGED keys
           /\ Working(c)' /\ call'[c] \in Call /\ OpFits(call'[c])
           /\ call'[c].pc \in {"insert", "lookup", "members"}
           /\ call'[c].op = op /\ call'[c].tx = tx /\ call'[c].user = user
           /\ call'[c].from = NoUser /\ ~call'[c].created
           /\ \A d \in Clients : d # c => call'[d] = call[d] /\ (Working(d)' <=> Working(d))
<1>0. TypeOK /\ ~Working(c) /\ UNCHANGED <<keys, type>>
  BY DEF Typed, Start
<1> DEFINE w == [pc |-> FirstStep(op), op |-> op, tx |-> tx, user |-> user, from |-> NoUser,
                 holder |-> NoTx, ids |-> {}, created |-> FALSE, attempts |-> 0, answer |-> "ok"]
<1>1. /\ FirstStep(op) \in {"insert", "lookup", "members"}
      /\ op = "save" => FirstStep(op) = "insert"
      /\ op \in {"reassign", "delete"} => FirstStep(op) = "lookup"
      /\ op = "reset" => FirstStep(op) = "members"
  BY DEF FirstStep, Operations
<1>2. w \in Call /\ OpFits(w)
  BY <1>1 DEF Call, OpFits, Steps, Operations, Answers, ClaimSteps
<1>3. call' = [call EXCEPT ![c] = w]
  BY DEF Start
<1>4. call'[c] = w /\ \A d \in Clients : d # c => call'[d] = call[d]
  BY <1>0, <1>3 DEF TypeOK
<1>5. Typed'
  <2>1. call' \in [Clients -> Call \cup {Idle(answer) : answer \in Answers}]
    BY <1>0, <1>2, <1>3 DEF TypeOK
  <2>2. noted' \in SUBSET Notes
    BY <1>0 DEF Start, TypeOK, Notes
  <2>3. \A d \in Clients : Working(d)' => OpFits(call[d])'
    BY <1>0, <1>2, <1>4 DEF Typed, Working, At, OpFits
  <2> QED
    BY <1>0, <2>1, <2>2, <2>3 DEF Typed, TypeOK, keys
<1> QED
  BY <1>0, <1>1, <1>2, <1>4, <1>5 DEF Working, At

(* So does the start of a call, which may not overlap one it is not apart from. *)
LEMMA StartKeeps ==
    ASSUME RowInv, Exclusive, NEW c \in Clients, NEW op \in Operations, NEW tx \in Txs,
           NEW user \in Users, Start(c, op, tx, user)
    PROVE  RowInv'
<1>0. Typed /\ TypeOK /\ ~Working(c) /\ UNCHANGED <<keys, type>>
  BY DEF RowInv, Typed, Start
<1>1. /\ OpFits(call'[c]) /\ call'[c].pc \in {"insert", "lookup", "members"}
      /\ ~call'[c].created
  BY <1>0, StartBegins
<1>2. /\ call'[c].op = op /\ call'[c].tx = tx /\ call'[c].user = user
      /\ call'[c].from = NoUser
      /\ \A d \in Clients : d # c => call'[d] = call[d]
  BY <1>0, StartBegins
<1>3. Typed'
  BY <1>0, StartBegins
<1>4. IndexesAgree'
  BY <1>0 DEF RowInv, IndexesAgree, OwnedBy, keys
<1>5. RowsSound'
  <2> SUFFICES ASSUME NEW d \in Clients, Working(d)' PROVE RowSound(call[d])'
    BY DEF RowsSound
  <2>1. CASE d = c
    BY <1>1, <1>2, <2>1 DEF RowSound, OpFits, ClaimSteps
  <2>2. CASE d # c
    BY <1>0, <1>2, <2>2 DEF RowInv, RowsSound, RowSound, Working, At, keys
  <2> QED
    BY <2>1, <2>2
<1>6. \A d \in Clients : Working(d) => ~SameTransaction(op, tx, user, call[d])
  BY DEF Start, MayStart
<1>7. Apart'
  <2> SUFFICES ASSUME NEW d \in Clients, NEW e \in Clients, d # e, Working(d)', Working(e)'
               PROVE  /\ call'[d].op # "reset" /\ call'[e].op # "reset"
                             => call'[d].tx # call'[e].tx
                      /\ call'[d].op = "reset" =>
                             /\ call'[e].user # call'[d].user
                             /\ call'[e].op # "reset" =>
                                    /\ call'[e].from # call'[d].user
                                    /\ record'[call'[e].tx] # call'[d].user
    BY DEF Apart
  <2>1. CASE d # c /\ e # c
    BY <1>0, <1>2, <2>1 DEF RowInv, Apart, Working, At, keys
  <2>2. CASE d = c
    <3>1. Working(e) /\ call'[e] = call[e]
      BY <1>2, <2>2 DEF Working, At
    <3> QED
      BY <1>0, <1>2, <1>6, <2>2, <3>1 DEF SameTransaction, keys
  <2>3. CASE e = c
    <3>1. Working(d) /\ call'[d] = call[d]
      BY <1>2, <2>3 DEF Working, At
    <3>2. call[d].user \in Users
      BY <1>0, <3>1, WorkingTyped
    <3> QED
      BY <1>0, <1>2, <1>6, <2>3, <3>1, <3>2, NoUserAssumption DEF SameTransaction, keys
  <2> QED
    BY <2>1, <2>2, <2>3
<1> QED
  BY <1>3, <1>4, <1>5, <1>7 DEF RowInv

(* The databases the store may open on. *)
LEMMA InitRows == Init => RowInv
<1> SUFFICES ASSUME Init PROVE RowInv
  OBVIOUS
<1>1. \A c \in Clients : ~Working(c)
  BY DEF Init, Idle, Working, At
<1>2. \A user \in Users : userIndex[user] = OwnedBy(user) /\ productSet[user] = OwnedBy(user)
  BY DEF Init
<1>3. TypeOK
  <2>1. userIndex \in [Users -> SUBSET Txs] /\ productSet \in [Users -> SUBSET Txs]
        /\ allSet \in SUBSET Txs
    BY DEF Init, OwnedBy, Recorded
  <2>2. call \in [Clients -> Call \cup {Idle(answer) : answer \in Answers}]
    BY DEF Init, Answers
  <2> QED
    BY <2>1, <2>2 DEF Init, TypeOK, Notes
<1>4. IndexesAgree
  <2>1. ASSUME NEW tx \in allSet PROVE \E user \in Users : tx \in userIndex[user]
    <3>1. tx \in Txs /\ record[tx] \in Users
      BY <2>1, <1>3 DEF Init, Recorded, TypeOK
    <3> QED
      BY <1>2, <3>1 DEF OwnedBy
  <2> QED
    BY <1>2, <2>1 DEF Init, IndexesAgree
<1> QED
  BY <1>1, <1>3, <1>4 DEF RowInv, Typed, Apart, RowsSound

(* RowInv is inductive... *)
LEMMA NextRows == ASSUME Exclusive PROVE RowInv /\ [Next]_vars => RowInv'
<1> SUFFICES ASSUME RowInv, [Next]_vars PROVE RowInv'
  OBVIOUS
<1>1. ASSUME NEW c \in Clients, Step(c) \/ Fail(c) PROVE RowInv'
  BY <1>1, StepTyped, StepKeepsApart, StepKeepsIndexes DEF RowInv
<1>2. CASE UNCHANGED vars
  BY <1>2 DEF vars, keys, RowInv, Typed, TypeOK, IndexesAgree, OwnedBy, Apart, RowsSound,
              RowSound, OpFits, Working, At
<1> QED
  BY <1>1, <1>2, StartKeeps DEF Next

(* ...and holds throughout. *)
LEMMA RowsInductive == ASSUME Exclusive PROVE Spec => []RowInv
BY InitRows, NextRows, PTL DEF Spec

(* Every variable keeps its type, whatever overlaps and whatever fails. *)
THEOREM TypeCorrect == Spec => []TypeOK
<1>1. Init => Typed
  BY InitRows DEF RowInv
<1>2. Typed /\ [Next]_vars => Typed'
  <2> SUFFICES ASSUME Typed, [Next]_vars PROVE Typed'
    OBVIOUS
  <2>1. CASE UNCHANGED vars
    BY <2>1 DEF vars, keys, Typed, TypeOK, OpFits, Working, At
  <2> QED
    BY <2>1, StartBegins, StepTyped DEF Next
<1>3. Typed => TypeOK
  BY DEF Typed
<1> QED
  BY <1>1, <1>2, <1>3, PTL DEF Spec

(* As long as calls about one transaction do not overlap, the user and product
   sets, the list of everything and the rows agree: a purchase is listed for
   its owner alone, wherever savePurchase, reassignPurchase, deletePurchases or
   deletePurchaseByTransactionId is cut short (redis.ts). *)
THEOREM ListedForOwner == ASSUME Exclusive PROVE Spec => []IndexesAgree
<1>1. RowInv => IndexesAgree
  BY DEF RowInv
<1> QED
  BY <1>1, RowsInductive, PTL
-----------------------------------------------------------------------------
ListedOwners == [tx \in Txs |-> ListedOwner(tx)]

PendingCalls == [c \in Clients |-> Request(c)]

(* A transaction is listed for the user whose set it is in. *)
ListedByIndex ==
    /\ ListedOwners \in [Txs -> Users \cup {NoUser}]
    /\ \A tx \in Txs, user \in Users : ListedOwners[tx] = user <=> tx \in productSet[user]

(* The listings are the sets, whatever calls are in progress. *)
LEMMA ListedIsIndexed == RowInv => ListedByIndex
<1> SUFFICES ASSUME RowInv PROVE ListedByIndex
  OBVIOUS
<1>1. /\ \A user \in Users, tx \in Txs : tx \in productSet[user] => record[tx] = user
      /\ \A user \in Users : productSet[user] \subseteq Txs
  BY DEF RowInv, IndexesAgree, OwnedBy, Typed, TypeOK
<1>2. \A user \in Users : Listing(user) = productSet[user]
  BY <1>1, NoUserAssumption DEF Listing
<1> SUFFICES ASSUME NEW tx \in Txs
             PROVE  /\ ListedOwner(tx) \in Users \cup {NoUser}
                    /\ \A user \in Users : ListedOwner(tx) = user <=> tx \in productSet[user]
  BY DEF ListedOwners, ListedByIndex
<1>3. CASE \E user \in Users : tx \in Listing(user)
  <2>1. ListedOwner(tx) = CHOOSE user \in Users : tx \in Listing(user)
    BY <1>3 DEF ListedOwner
  <2>2. ListedOwner(tx) \in Users /\ tx \in Listing(ListedOwner(tx))
    BY <1>3, <2>1
  <2> QED
    BY <1>1, <1>2, <2>2
<1>4. CASE ~\E user \in Users : tx \in Listing(user)
  BY <1>2, <1>4, NoUserAssumption DEF ListedOwner
<1> QED
  BY <1>3, <1>4

(* The listings after a step, from the sets. *)
LEMMA ListedAfter ==
    ASSUME RowInv', NEW owner \in [Txs -> Users \cup {NoUser}],
           \A tx \in Txs, user \in Users : owner[tx] = user <=> tx \in productSet'[user]
    PROVE  ListedOwners' = owner
<1>1. ListedByIndex'
  BY ListedIsIndexed, PTL
<1> QED
  BY <1>1 DEF ListedByIndex

(* What the callers see of a step: nothing, or one answer. *)
LEMMA PendingAfter ==
    ASSUME Typed, NEW c \in Clients, Step(c) \/ Fail(c)
    PROVE  /\ PendingCalls[c] = [op |-> call[c].op, tx |-> call[c].tx, user |-> call[c].user]
           /\ call[c].op \in Operations /\ call[c].tx \in Txs /\ call[c].user \in Users
           /\ Working(c)' => PendingCalls' = PendingCalls
           /\ ~Working(c)' =>
                  /\ call'[c].answer \in Answers
                  /\ PendingCalls' = [PendingCalls EXCEPT ![c] = [answer |-> call'[c].answer]]
<1>1. Working(c) /\ Continues(c)
  BY StepWorks, StepContinues
<1>2. \A d \in Clients : d # c => Request(d)' = Request(d)
  BY <1>1 DEF Continues, Request, Working, At
<1>3. Request(c) = [op |-> call[c].op, tx |-> call[c].tx, user |-> call[c].user]
  BY <1>1 DEF Request
<1>4. Working(c)' => Request(c)' = Request(c)
  BY <1>1 DEF Continues, Request
<1>5. ~Working(c)' => /\ Request(c)' = [answer |-> call'[c].answer]
                      /\ call'[c].answer \in Answers
  <2> SUFFICES ASSUME ~Working(c)' PROVE call'[c].answer \in Answers
    BY DEF Request
  <2>1. call'[c].pc = "idle"
    BY DEF Working, At
  <2>2. call'[c] \in Call \cup {Idle(answer) : answer \in Answers}
    BY <1>1 DEF Continues
  <2> QED
    BY <2>1, <2>2 DEF Call, Steps, Idle
<1>6. PendingCalls' = [d \in Clients |-> Request(d)']
  BY DEF PendingCalls
<1>7. Working(c)' => PendingCalls' = PendingCalls
  BY <1>2, <1>4, <1>6 DEF PendingCalls
<1>8. ~Working(c)' => PendingCalls' = [PendingCalls EXCEPT ![c] = [answer |-> call'[c].answer]]
  BY <1>2, <1>5, <1>6 DEF PendingCalls
<1> QED
  BY <1>1, <1>3, <1>5, <1>7, <1>8, WorkingTyped DEF PendingCalls

(* What the callers of the abstract table see, one call at a time. *)
LEMMA AnsweredIs ==
    ASSUME NEW c \in Clients, NEW answer \in Answers,
           PendingCalls' = [PendingCalls EXCEPT ![c] = [answer |-> answer]]
    PROVE  /\ [answer |-> answer] \in Table!Answer
           /\ Table!Answered(c, [answer |-> answer])
BY DEF Answers, Table!Answer, Table!Answered, PendingCalls

(* A step that leaves the sets alone is refused, fails, or is no more than a
   step on the way. *)
LEMMA NoEffectOrStutter ==
    ASSUME RowInv, RowInv', NEW c \in Clients, Step(c) \/ Fail(c),
           ~(WriteIndexes(c) \/ Move(c) \/ Remove(c) \/ Clear(c))
    PROVE  /\ ListedOwners' = ListedOwners
           /\ PendingCalls' = PendingCalls \/ Table!NoEffect(c)
<1>0. Typed /\ TypeOK /\ Working(c) /\ OpFits(call[c]) /\ call[c].answer \in Answers
  BY StepWorks, WorkingTyped DEF RowInv, Typed
<1>1. productSet' = productSet
  BY OtherActions DEF RowAction, Insert, Undo, rows
<1>2. ListedOwners' = ListedOwners
  <2>1. ListedByIndex
    BY ListedIsIndexed
  <2> QED
    BY <1>1, <2>1, ListedAfter DEF ListedByIndex
<1>3. ASSUME ~Working(c)' PROVE Table!NoEffect(c)
  <2> DEFINE answer == call'[c].answer
  <2>1. answer = "ok" => call[c].op = "reassign"
    <3>1. ASSUME NEW a \in Answers \ {"ok"}, Answer(c, a) PROVE answer # "ok"
      BY <1>0, <3>1 DEF Answer, Idle, TypeOK
    <3>2. ASSUME NEW pc \in Steps, Go(c, pc) PROVE FALSE
      <4>1. call[c] \in Call
        BY <1>0, WorkingTyped
      <4>2. call'[c].pc = pc /\ pc # "idle"
        BY <1>0, <3>2, <4>1 DEF Go, TypeOK, Call, Steps
      <4> QED
        BY <1>3, <4>2 DEF Working, At
    <3>3. ASSUME NEW a \in Answers \ {"ok"}, Throw(c, a) PROVE answer # "ok"
      <4>1. CASE call[c].created
        <5>1. call[c] \in Call
          BY <1>0, WorkingTyped
        <5>2. call'[c].pc = "undo"
          BY <1>0, <3>3, <4>1, <5>1 DEF Throw, TypeOK, Call
        <5> QED
          BY <1>3, <5>2 DEF Working, At
      <4> QED
        BY <3>1, <3>3, <4>1 DEF Throw
    <3>4. ASSUME NEW w, w.pc # "idle", call' = [call EXCEPT ![c] = w] PROVE FALSE
      BY <1>0, <1>3, <3>4 DEF TypeOK, Working, At
    <3>5. call[c] \in Call
      BY <1>0, WorkingTyped
    <3>6. CASE Insert(c) \/ ReadOwner(c)
      <4>1. ASSUME NEW w \in Call, ThenClaim(c, w) PROVE FALSE
        <5> DEFINE v == [w EXCEPT !.pc = IF type = "non_consumable" THEN "claim" ELSE "index"]
        <5>1. v.pc # "idle"
          BY <4>1 DEF Call
        <5>2. call' = [call EXCEPT ![c] = v]
          BY <4>1 DEF ThenClaim
        <5> QED
          BY <3>4, <5>1, <5>2
      <4>2. [call[c] EXCEPT !.created = TRUE] \in Call
        BY <3>5 DEF Call
      <4> QED
        BY <3>1, <3>2, <3>5, <3>6, <4>1, <4>2 DEF Insert, ReadOwner, Steps, Answers
    <3>7. CASE Undo(c)
      BY <1>0, <3>1, <3>7 DEF Undo, At, OpFits
    <3>8. ASSUME Claimed(c) \/ Released(c) PROVE FALSE
      BY <3>2, <3>8 DEF Claimed, Released, Steps
    <3>9. ASSUME LostAttempt(c) PROVE answer # "ok"
      <4>1. CASE call[c].attempts < 2
        <5> DEFINE w == [call[c] EXCEPT !.pc = "holder", !.attempts = @ + 1]
        <5>1. w.pc # "idle"
          BY <3>5 DEF Call
        <5> QED
          BY <3>4, <3>9, <4>1, <5>1 DEF LostAttempt
      <4> QED
        BY <3>3, <3>9, <4>1 DEF LostAttempt, Answers
    <3>10. CASE TakeClaim(c) \/ Reclaim(c) \/ TakeOver(c)
      BY <3>2, <3>8, <3>9, <3>10 DEF TakeClaim, Reclaim, TakeOver, Steps
    <3>11. CASE Backfill(c) \/ ReadHolderRow(c)
      BY <3>2, <3>3, <3>11 DEF Backfill, ReadHolderRow, Refused, Steps, Answers
    <3>12. CASE Scan(c)
      <4> DEFINE w == [call[c] EXCEPT !.pc = "legacy",
                                      !.ids = productSet[call[c].user] \ {call[c].tx}]
      <4>1. w.pc # "idle"
        BY <3>5 DEF Call
      <4> QED
        BY <3>4, <3>8, <3>12, <4>1 DEF Scan
    <3>13. CASE ReadLegacy(c)
      <4>1. PICK tx : call' = [call EXCEPT ![c] = [call[c] EXCEPT !.pc = "backfill", !.holder = tx]]
        BY <3>8, <3>13 DEF ReadLegacy
      <4> DEFINE w == [call[c] EXCEPT !.pc = "backfill", !.holder = tx]
      <4>2. w.pc # "idle"
        BY <3>5 DEF Call
      <4> QED
        BY <3>4, <4>1, <4>2
    <3>14. CASE ReadHolder(c)
      <4> DEFINE w == [call[c] EXCEPT !.pc = "holderRow", !.holder = claim[call[c].user]]
      <4>1. w.pc # "idle"
        BY <3>5 DEF Call
      <4> QED
        BY <3>2, <3>4, <3>8, <3>14, <4>1 DEF ReadHolder, Steps
    <3>15. CASE Lookup(c)
      <4>1. CASE record[call[c].tx] # NoUser /\ ~(call[c].op = "reassign" /\ record[call[c].tx] = call[c].user)
        <5>1. PICK pc \in Steps :
                  call' = [call EXCEPT ![c] = [[call[c] EXCEPT !.from = record[call[c].tx]] EXCEPT !.pc = pc]]
          BY <3>15, <4>1 DEF Lookup, Steps
        <5> DEFINE w == [[call[c] EXCEPT !.from = record[call[c].tx]] EXCEPT !.pc = pc]
        <5>2. w.pc # "idle"
          BY <3>5 DEF Call, Steps
        <5> QED
          BY <3>4, <5>1, <5>2
      <4> QED
        BY <3>1, <3>15, <4>1 DEF Lookup, Answers
    <3>16. CASE ReadClaim(c) \/ Unclaim(c)
      BY <3>2, <3>8, <3>16 DEF ReadClaim, Unclaim, Steps
    <3>17. CASE ReadMembers(c)
      <4> DEFINE w == [call[c] EXCEPT !.pc = "clear", !.ids = productSet[call[c].user]]
      <4>1. w.pc # "idle"
        BY <3>5 DEF Call
      <4> QED
        BY <3>1, <3>4, <3>17, <4>1 DEF ReadMembers, Answers
    <3>18. CASE Fail(c)
      BY <3>1, <3>3, <3>18 DEF Fail, Answers
    <3> QED
      BY <3>6, <3>7, <3>10, <3>11, <3>12, <3>13, <3>14, <3>15, <3>16, <3>17, <3>18 DEF Step
  <2>2. /\ PendingCalls[c] = [op |-> call[c].op, tx |-> call[c].tx, user |-> call[c].user]
        /\ call[c].op \in Operations /\ call[c].tx \in Txs /\ call[c].user \in Users
        /\ answer \in Answers
        /\ PendingCalls' = [PendingCalls EXCEPT ![c] = [answer |-> answer]]
    BY <1>0, <1>3, PendingAfter
  <2>3. [answer |-> answer] \in Table!Answer /\ Table!Answered(c, [answer |-> answer])
    BY <2>2, AnsweredIs
  <2>4. PendingCalls[c] \in Table!Request /\ PendingCalls[c].op = call[c].op
    BY <2>2 DEF Table!Request, Table!Operations, Operations
  <2>5. [answer |-> answer] = Table!Ok => Table!Waiting(c, "reassign")
    <3>1. [answer |-> answer] = Table!Ok => answer = "ok"
      BY DEF Table!Ok
    <3> QED
      BY <2>1, <2>4, <3>1 DEF Table!Waiting, PendingCalls
  <2> QED
    BY <1>2, <2>3, <2>4, <2>5 DEF Table!NoEffect, PendingCalls, ListedOwners
<1> QED
  BY <1>0, <1>2, <1>3, PendingAfter

(* The four steps that change the sets are the effects the table promises. *)
LEMMA Effects ==
    ASSUME RowInv, RowInv', NEW c \in Clients, WriteIndexes(c) \/ Move(c) \/ Remove(c) \/ Clear(c)
    PROVE  \/ Table!SavePurchase(c) \/ Table!ReassignPurchase(c)
           \/ Table!DeletePurchaseByTransactionId(c) \/ Table!DeletePurchases(c)
<1> DEFINE w == call[c]
<1>0. /\ Step(c) /\ Working(c) /\ Typed /\ TypeOK
      /\ w.tx \in Txs /\ w.user \in Users /\ w.op \in Operations
      /\ OpFits(w) /\ RowSound(w)
  <2>1. Step(c) /\ Working(c) /\ Typed /\ TypeOK
    BY StepWorks DEF Step, RowInv, Typed
  <2> QED
    BY <2>1, WorkingTyped DEF RowInv, RowsSound
<1>1. /\ PendingCalls' = [PendingCalls EXCEPT ![c] = Table!Ok]
      /\ PendingCalls[c] = [op |-> w.op, tx |-> w.tx, user |-> w.user]
  <2>1. call'[c] = Idle("ok")
    BY <1>0 DEF WriteIndexes, Move, Remove, Clear, Answer, TypeOK
  <2>2. ~Working(c)' /\ call'[c].answer = "ok"
    BY <2>1 DEF Idle, Working, At
  <2> QED
    BY <1>0, <2>2, PendingAfter DEF Table!Ok
<1>2. /\ PendingCalls[c] \in Table!Request
      /\ PendingCalls[c].op = w.op /\ PendingCalls[c].tx = w.tx /\ PendingCalls[c].user = w.user
  BY <1>0, <1>1 DEF Table!Request, Table!Operations, Operations
<1>3. ListedByIndex
  BY ListedIsIndexed
<1>4. /\ ListedOwners \in [Txs -> Users \cup {NoUser}]
      /\ \A tx \in Txs, user \in Users : ListedOwners[tx] = user <=> tx \in productSet[user]
      /\ productSet \in [Users -> SUBSET Txs]
  BY <1>0, <1>3 DEF ListedByIndex, TypeOK
<1>5. \A user \in Users, tx \in Txs : tx \in productSet[user] => record[tx] = user
  BY DEF RowInv, IndexesAgree, OwnedBy
<1>6. CASE WriteIndexes(c)
  <2>1. w.op = "save" /\ record[w.tx] = w.user
    BY <1>0, <1>6 DEF WriteIndexes, At, OpFits, RowSound
  <2>2. productSet' = [productSet EXCEPT ![w.user] = @ \cup {w.tx}]
    BY <1>6 DEF WriteIndexes, Indexed
  <2>3. ListedOwners[w.tx] \in {NoUser, w.user}
    BY <1>0, <1>4, <1>5, <2>1
  <2> DEFINE owner == [ListedOwners EXCEPT ![w.tx] = w.user]
  <2>4. owner \in [Txs -> Users \cup {NoUser}]
    BY <1>0, <1>4
  <2>5. \A tx \in Txs, user \in Users : owner[tx] = user <=> tx \in productSet'[user]
    BY <1>0, <1>4, <2>2, <2>3, NoUserAssumption
  <2>6. ListedOwners' = owner
    BY <2>4, <2>5, ListedAfter
  <2>7. Table!SavePurchase(c)
    BY <1>1, <1>2, <2>1, <2>3, <2>6
       DEF Table!SavePurchase, Table!Waiting, Table!Answered, PendingCalls, ListedOwners
  <2> QED
    BY <2>7
<1>7. CASE Move(c)
  <2>1. w.op = "reassign" /\ record[w.tx] = w.from /\ w.from \in Users /\ w.from # w.user
    BY <1>0, <1>7 DEF Move, At, OpFits, RowSound
  <2>2. productSet' = [[productSet EXCEPT ![w.from] = @ \ {w.tx}] EXCEPT ![w.user] = @ \cup {w.tx}]
    BY <1>7 DEF Move, Moved, Indexed
  <2>3. \A user \in Users : productSet'[user] = IF user = w.user THEN productSet[user] \cup {w.tx}
                                               ELSE IF user = w.from THEN productSet[user] \ {w.tx}
                                               ELSE productSet[user]
    BY <1>0, <1>4, <2>1, <2>2
  <2> DEFINE owner == [ListedOwners EXCEPT ![w.tx] = w.user]
  <2>4. owner \in [Txs -> Users \cup {NoUser}]
    BY <1>0, <1>4
  <2>5. \A tx \in Txs, user \in Users : owner[tx] = user <=> tx \in productSet'[user]
    <3> SUFFICES ASSUME NEW tx \in Txs, NEW user \in Users
                 PROVE  owner[tx] = user <=> tx \in productSet'[user]
      OBVIOUS
    <3>1. CASE tx = w.tx
      <4>1. owner[tx] = w.user /\ (tx \in productSet[user] => user = w.from)
        BY <1>0, <1>4, <1>5, <2>1, <3>1
      <4> QED
        BY <2>3, <3>1, <4>1
    <3>2. CASE tx # w.tx
      <4>1. owner[tx] = ListedOwners[tx]
        BY <1>4, <3>2
      <4>2. tx \in productSet'[user] <=> tx \in productSet[user]
        BY <2>3, <3>2
      <4> QED
        BY <1>4, <4>1, <4>2
    <3> QED
      BY <3>1, <3>2
  <2>6. ListedOwners' = owner
    BY <2>4, <2>5, ListedAfter
  <2>7. Table!ReassignPurchase(c)
    BY <1>1, <1>2, <2>1, <2>6
       DEF Table!ReassignPurchase, Table!Waiting, Table!Answered, PendingCalls, ListedOwners
  <2> QED
    BY <2>7
<1>8. CASE Remove(c)
  <2>1. w.op = "delete" /\ record[w.tx] = w.from /\ w.from \in Users
    BY <1>0, <1>8 DEF Remove, At, OpFits, RowSound
  <2>2. productSet' = [productSet EXCEPT ![w.from] = @ \ {w.tx}]
    BY <1>8 DEF Remove
  <2> DEFINE owner == [ListedOwners EXCEPT ![w.tx] = NoUser]
  <2>4. owner \in [Txs -> Users \cup {NoUser}]
    BY <1>0, <1>4
  <2>5. \A tx \in Txs, user \in Users : owner[tx] = user <=> tx \in productSet'[user]
    BY <1>0, <1>4, <1>5, <2>1, <2>2, NoUserAssumption
  <2>6. ListedOwners' = owner
    BY <2>4, <2>5, ListedAfter
  <2>7. Table!DeletePurchaseByTransactionId(c)
    BY <1>1, <1>2, <2>1, <2>6
       DEF Table!DeletePurchaseByTransactionId, Table!Waiting, Table!Answered, PendingCalls,
           ListedOwners
  <2> QED
    BY <2>7
<1>9. CASE Clear(c)
  <2>1. w.op = "reset"
    BY <1>0, <1>9 DEF Clear, At, OpFits
  <2>2. productSet' = [productSet EXCEPT ![w.user] = {}]
    BY <1>9 DEF Clear
  <2> DEFINE owner == [tx \in Txs |-> IF ListedOwners[tx] = w.user THEN NoUser
                                      ELSE ListedOwners[tx]]
  <2>4. owner \in [Txs -> Users \cup {NoUser}]
    BY <1>4
  <2>5. \A tx \in Txs, user \in Users : owner[tx] = user <=> tx \in productSet'[user]
    BY <1>0, <1>4, <2>2, NoUserAssumption
  <2>6. ListedOwners' = owner
    BY <2>4, <2>5, ListedAfter
  <2>7. Table!DeletePurchases(c)
    BY <1>1, <1>2, <2>1, <2>6
       DEF Table!DeletePurchases, Table!Waiting, Table!Answered, PendingCalls, ListedOwners
  <2> QED
    BY <2>7
<1> QED
  BY <1>6, <1>7, <1>8, <1>9

(* The start of a call is the request the table sees. *)
LEMMA StartIsCall ==
    ASSUME RowInv, RowInv', NEW c \in Clients, NEW op \in Operations, NEW tx \in Txs,
           NEW user \in Users, Start(c, op, tx, user)
    PROVE  Table!Call(c)
<1>0. TypeOK /\ ~Working(c) /\ productSet' = productSet
  BY DEF RowInv, Typed, Start, keys
<1>1. ListedOwners' = ListedOwners
  <2>1. ListedByIndex
    BY ListedIsIndexed
  <2> QED
    BY <1>0, <2>1, ListedAfter DEF ListedByIndex
<1>2. /\ Working(c)' /\ call'[c].op = op /\ call'[c].tx = tx /\ call'[c].user = user
      /\ \A d \in Clients : d # c => call'[d] = call[d]
  BY <1>0 DEF Start, TypeOK, Working, At, FirstStep, Operations
<1>3. PendingCalls' = [PendingCalls EXCEPT ![c] = [op |-> op, tx |-> tx, user |-> user]]
  <2>1. PendingCalls' = [d \in Clients |-> Request(d)']
    BY DEF PendingCalls
  <2>2. Request(c)' = [op |-> op, tx |-> tx, user |-> user]
    BY <1>2 DEF Request
  <2>3. \A d \in Clients : d # c => Request(d)' = Request(d)
    BY <1>2 DEF Request, Working, At
  <2> QED
    BY <2>1, <2>2, <2>3 DEF PendingCalls
<1>4. PendingCalls[c] \in Table!Answer
  <2>1. call[c].pc = "idle" /\ call[c] \in Call \cup {Idle(answer) : answer \in Answers}
    BY <1>0 DEF TypeOK, Working, At
  <2>2. call[c].answer \in Answers
    BY <2>1 DEF Call, Steps, Idle
  <2>3. PendingCalls[c] = [answer |-> call[c].answer]
    BY <1>0 DEF PendingCalls, Request
  <2> QED
    BY <2>2, <2>3 DEF Table!Answer, Answers
<1>5. [op |-> op, tx |-> tx, user |-> user] \in Table!Request
  BY DEF Table!Request, Table!Operations, Operations
<1> QED
  BY <1>1, <1>3, <1>4, <1>5 DEF Table!Call, PendingCalls, ListedOwners

(* As long as calls about one transaction do not overlap, the round trips of
   redis.ts do what PurchaseTable promises: one change to the listings for a
   call that succeeds, none for one that is refused, fails or dies. *)
THEOREM RedisImplementsPurchaseTable == ASSUME Exclusive PROVE Spec => ImplementsPurchaseTable
<1>1. Init => Table!Init
  <2> SUFFICES ASSUME Init PROVE Table!Init
    OBVIOUS
  <2>1. ListedByIndex
    BY InitRows, ListedIsIndexed
  <2>2. PendingCalls = [c \in Clients |-> Table!Ok]
    BY DEF Init, PendingCalls, Request, Working, At, Idle, Table!Ok
  <2>3. Table!Ok \in Table!Answer
    BY DEF Table!Ok, Table!Answer
  <2>4. PendingCalls \in [Clients -> Table!Request \cup Table!Answer]
    BY <2>2, <2>3
  <2> QED
    BY <2>1, <2>2, <2>4 DEF Table!Init, Table!TypeOK, ListedByIndex, ListedOwners, PendingCalls
<1>2. RowInv /\ RowInv' /\ [Next]_vars => [Table!Next]_<<ListedOwners, PendingCalls>>
  <2> SUFFICES ASSUME RowInv, RowInv', [Next]_vars
               PROVE  [Table!Next]_<<ListedOwners, PendingCalls>>
    OBVIOUS
  <2>1. ASSUME NEW c \in Clients, Step(c) \/ Fail(c)
        PROVE  Table!Next \/ (ListedOwners' = ListedOwners /\ PendingCalls' = PendingCalls)
    BY <2>1, Effects, NoEffectOrStutter DEF Table!Next
  <2>2. ASSUME NEW c \in Clients, NEW op \in Operations, NEW tx \in Txs, NEW user \in Users,
               Start(c, op, tx, user)
        PROVE  Table!Next
    BY <2>2, StartIsCall DEF Table!Next
  <2>3. CASE UNCHANGED vars
    BY <2>3 DEF vars, keys, ListedOwners, PendingCalls, ListedOwner, Listing, Request, Working,
                At
  <2> QED
    BY <2>1, <2>2, <2>3 DEF Next
<1>3. RowInv /\ [Next]_vars => RowInv'
  BY NextRows
<1> QED
  BY <1>1, <1>2, <1>3, RowsInductive, PTL
     DEF Spec, ImplementsPurchaseTable, Table!Spec, ListedOwners, PendingCalls
-----------------------------------------------------------------------------
(* No call has failed, and no two about one user have overlapped but saves. *)
Quiet == type = "non_consumable" /\ noted = {}

(* The users whose copies a call may change. *)
Touches(w) == {w.user} \cup (IF w.op \in {"reassign", "delete"} THEN {record[w.tx]} ELSE {})

UsersApart ==
    \A c, d \in Clients : c # d /\ Working(c) /\ Working(d) =>
        \/ call[c].op = "save" /\ call[d].op = "save"
        \/ Touches(call[c]) \cap Touches(call[d]) \cap Users = {}

(* Looking for a copy from before claims, with the claim in hand. *)
Searching(w) == w.pc \in {"scan", "legacy", "backfill"}

HasClaim(w) ==
    \/ Searching(w)
    \/ w.op = "save" /\ w.pc = "index"
    \/ w.op = "reassign" /\ w.pc \in {"release", "unclaim", "move"}

(* The claim names a copy the user has. *)
Settled(user) == claim[user] \in productSet[user]

ClaimSound(w) ==
    /\ w.pc # "reclaim"
    /\ HasClaim(w) => claim[w.user] = w.tx
    /\ HasClaim(w) /\ ~Searching(w) => productSet[w.user] \subseteq {w.tx}
    /\ w.pc \in {"legacy", "backfill"} =>
           w.ids # {} /\ w.ids \subseteq productSet[w.user] \ {w.tx}
    /\ w.pc = "backfill" => w.holder \in w.ids
    /\ w.created /\ ~HasClaim(w) => claim[w.user] # w.tx
    /\ w.pc \in {"holder", "holderRow", "takeOver"} => claim[w.user] # NoTx
    /\ w.pc = "holderRow" =>
           Settled(w.user) \/ (claim[w.user] = w.holder /\ record[w.holder] = w.user)
    /\ w.pc = "takeOver" => Settled(w.user) /\ claim[w.user] # w.holder
    /\ w.pc \in {"move", "remove"} => claim[w.from] # w.tx

ClaimsSound == \A c \in Clients : Working(c) => ClaimSound(call[c])

OneIndexed == \A user \in Users : \A tx, other \in productSet[user] : tx = other

(* A claim is for a row of the user, or for one that is on its way to him. *)
ClaimOfOwner(user) ==
    \/ record[claim[user]] = user
    \/ \E c \in Clients : /\ Working(c) /\ HasClaim(call[c])
                          /\ call[c].op = "reassign" /\ call[c].user = user

(* A user with a claim has no copy but the claim's, or the search for one is on. *)
ClaimOfCopy(user) ==
    \/ productSet[user] \subseteq {claim[user]}
    \/ \E c \in Clients : Working(c) /\ Searching(call[c]) /\ call[c].user = user

ClaimsKept == \A user \in Users : claim[user] # NoTx => ClaimOfOwner(user) /\ ClaimOfCopy(user)

ClaimInv == Quiet => UsersApart /\ ClaimsSound /\ OneIndexed /\ ClaimsKept

IInv == RowInv /\ ClaimInv

(* The facts about a client in the middle of a call. *)
LEMMA WorkingFacts ==
    ASSUME RowInv, ClaimInv, Quiet, NEW c \in Clients, Working(c)
    PROVE  /\ call[c] \in Call /\ OpFits(call[c])
           /\ call[c].tx \in Txs /\ call[c].user \in Users /\ call[c].op \in Operations
           /\ RowSound(call[c]) /\ ClaimSound(call[c])
BY WorkingTyped DEF RowInv, RowsSound, ClaimInv, ClaimsSound

(* Which steps write claims, and what. *)
LEMMA ClaimWrites ==
    ASSUME RowInv, ClaimInv, Quiet, NEW c \in Clients, Step(c)
    PROVE  \/ claim' = claim
           \/ TakeClaim(c) /\ claim[call[c].user] = NoTx
                /\ claim' = [claim EXCEPT ![call[c].user] = call[c].tx]
           \/ Backfill(c) /\ claim' = [claim EXCEPT ![call[c].user] = call[c].holder]
           \/ Unclaim(c) /\ claim' = [claim EXCEPT ![call[c].from] = NoTx]
           \/ Clear(c) /\ claim' = [claim EXCEPT ![call[c].user] = NoTx]
<1>1. Working(c) /\ ClaimSound(call[c])
  BY StepWorks, WorkingFacts
<1>2. ~Reclaim(c)
  BY <1>1 DEF Reclaim, At, ClaimSound
<1>3. TakeOver(c) => claim' = claim
  BY <1>1 DEF TakeOver, At, ClaimSound
<1>4. TakeClaim(c) \/ Backfill(c) \/ Unclaim(c) \/ Clear(c) => Step(c)
  BY DEF Step
<1>5. CASE TakeClaim(c) \/ Backfill(c) \/ Unclaim(c) \/ Clear(c)
  BY <1>5 DEF TakeClaim, Backfill, Unclaim, Clear, SetClaim, ClearedClaim
<1> QED
  BY <1>2, <1>3, <1>5 DEF Step, keys, Insert, ReadOwner, WriteIndexes, Undo, Scan, ReadLegacy,
      ReadHolder, ReadHolderRow, Lookup, ReadClaim, Move, Remove, ReadMembers

(* While a call is about a user, another leaves the user's copies where they
   are, and of the user's claim it does no more than take a free one or put an
   old copy in the place of its own. *)
LEMMA UserUndisturbed ==
    ASSUME RowInv, ClaimInv, Quiet, NEW c \in Clients, NEW d \in Clients, c # d,
           Working(d), Step(c), NEW user \in Touches(call[d]) \cap Users
    PROVE  /\ productSet[user] \subseteq productSet'[user]
           /\ \/ claim'[user] = claim[user]
              \/ /\ TakeClaim(c) /\ call[c].user = user /\ claim[user] = NoTx
                 /\ claim'[user] = call[c].tx
              \/ /\ Backfill(c) /\ call[c].user = user /\ claim'[user] = call[c].holder
<1>0. Working(c) /\ TypeOK
  BY StepWorks DEF Step, RowInv, Typed
<1>1. /\ OpFits(call[c]) /\ RowSound(call[c]) /\ ClaimSound(call[c])
      /\ call[c].tx \in Txs /\ call[c].user \in Users
  BY <1>0, WorkingFacts
<1>2. \/ call[c].op = "save" /\ call[d].op = "save"
      \/ user \notin Touches(call[c])
  BY <1>0 DEF ClaimInv, UsersApart
<1>3. productSet[user] \subseteq productSet'[user]
  <2>1. CASE UNCHANGED rows
    BY <2>1 DEF rows
  <2>2. CASE Insert(c) \/ Undo(c)
    BY <2>2 DEF Insert, Undo
  <2>3. CASE WriteIndexes(c)
    BY <1>0, <1>1, <2>3 DEF WriteIndexes, Indexed, TypeOK
  <2>4. CASE Move(c)
    <3>1. call[c].from # user
      BY <1>1, <1>2, <2>4 DEF Move, At, OpFits, RowSound, Touches
    <3> QED
      BY <1>0, <1>1, <2>4, <3>1 DEF Move, Moved, Indexed, TypeOK
  <2>5. CASE Remove(c)
    <3>1. call[c].from # user
      BY <1>1, <1>2, <2>5 DEF Remove, At, OpFits, RowSound, Touches
    <3> QED
      BY <1>0, <1>1, <2>5, <3>1 DEF Remove, TypeOK
  <2>6. CASE Clear(c)
    <3>1. call[c].user # user
      BY <1>1, <1>2, <2>6 DEF Clear, At, OpFits, RowSound, Touches
    <3> QED
      BY <1>0, <1>1, <2>6, <3>1 DEF Clear, TypeOK
  <2> QED
    BY <2>1, <2>2, <2>3, <2>4, <2>5, <2>6, OtherActions DEF RowAction
<1>4. CASE Unclaim(c)
  <2>1. call[c].from # user
    BY <1>1, <1>2, <1>4 DEF Unclaim, At, OpFits, RowSound, Touches
  <2> QED
    BY <1>0, <1>3, <1>4, <2>1 DEF Unclaim, SetClaim, TypeOK
<1>5. CASE Clear(c)
  <2>1. call[c].user # user
    BY <1>1, <1>2, <1>5 DEF Clear, At, OpFits, RowSound, Touches
  <2> QED
    BY <1>0, <1>3, <1>5, <2>1 DEF Clear, ClearedClaim, TypeOK
<1> QED
  BY <1>0, <1>1, <1>3, <1>4, <1>5, ClaimWrites DEF TypeOK

(* Two calls cannot both hold the claim of one user. *)
LEMMA OneHolder ==
    ASSUME RowInv, ClaimInv, Quiet, NEW c \in Clients, NEW d \in Clients, c # d,
           Working(c), Working(d), HasClaim(call[c]), HasClaim(call[d])
    PROVE  call[c].user # call[d].user
<1>1. call[c].op # "reset" /\ call[d].op # "reset"
  BY WorkingFacts DEF HasClaim, Searching, OpFits, ClaimSteps
<1>2. claim[call[c].user] = call[c].tx /\ claim[call[d].user] = call[d].tx
  BY WorkingFacts DEF ClaimSound
<1>3. call[c].tx # call[d].tx
  BY <1>1 DEF RowInv, Apart
<1> QED
  BY <1>2, <1>3

(* A user's copies grow by one the claim holder adds for itself. *)
LEMMA CopiesGrow ==
    ASSUME RowInv, ClaimInv, Quiet, NEW c \in Clients, Step(c), NEW user \in Users
    PROVE  \/ productSet'[user] \subseteq productSet[user]
           \/ /\ WriteIndexes(c) \/ Move(c)
              /\ call[c].user = user /\ HasClaim(call[c]) /\ claim[user] = call[c].tx
              /\ productSet'[user] \subseteq {call[c].tx}
<1>0. Working(c) /\ TypeOK
  BY StepWorks DEF Step, RowInv, Typed
<1>1. /\ OpFits(call[c]) /\ ClaimSound(call[c]) /\ RowSound(call[c])
      /\ call[c].tx \in Txs /\ call[c].user \in Users
  BY <1>0, WorkingFacts
<1>2. CASE UNCHANGED rows
  BY <1>2 DEF rows
<1>3. CASE Insert(c) \/ Undo(c)
  BY <1>3 DEF Insert, Undo
<1>4. CASE WriteIndexes(c)
  <2>1. HasClaim(call[c]) /\ ~Searching(call[c])
    BY <1>1, <1>4 DEF WriteIndexes, At, OpFits, HasClaim, Searching
  <2>2. claim[call[c].user] = call[c].tx /\ productSet[call[c].user] \subseteq {call[c].tx}
    BY <1>1, <2>1 DEF ClaimSound
  <2> QED
    BY <1>0, <1>1, <1>4, <2>1, <2>2 DEF WriteIndexes, Indexed, TypeOK
<1>5. CASE Move(c)
  <2>1. HasClaim(call[c]) /\ ~Searching(call[c]) /\ call[c].from \in Users
    BY <1>1, <1>5 DEF Move, At, OpFits, HasClaim, Searching
  <2>2. claim[call[c].user] = call[c].tx /\ productSet[call[c].user] \subseteq {call[c].tx}
    BY <1>1, <2>1 DEF ClaimSound
  <2> QED
    BY <1>0, <1>1, <1>5, <2>1, <2>2 DEF Move, Moved, Indexed, TypeOK
<1>6. CASE Remove(c)
  BY <1>0, <1>6 DEF Remove, TypeOK
<1>7. CASE Clear(c)
  BY <1>0, <1>7 DEF Clear, TypeOK
<1> QED
  BY <1>2, <1>3, <1>4, <1>5, <1>6, <1>7, OtherActions DEF RowAction

(* A step that leaves a claim alone leaves the claimed row with its owner. *)
LEMMA ClaimedRowStays ==
    ASSUME RowInv, ClaimInv, Quiet, NEW c \in Clients, Step(c), NEW user \in Users,
           claim'[user] = claim[user], claim[user] \in Txs, record[claim[user]] = user
    PROVE  record'[claim[user]] = user
<1>0. Working(c) /\ TypeOK
  BY StepWorks DEF Step, RowInv, Typed
<1>1. /\ OpFits(call[c]) /\ ClaimSound(call[c]) /\ RowSound(call[c])
      /\ call[c].tx \in Txs /\ call[c].user \in Users
  BY <1>0, WorkingFacts
<1>2. CASE UNCHANGED rows
  BY <1>2 DEF rows
<1>3. CASE Insert(c)
  BY <1>0, <1>3, NoUserAssumption DEF Insert, TypeOK
<1>4. CASE Undo(c)
  <2>1. call[c].created /\ record[call[c].tx] = call[c].user /\ ~HasClaim(call[c])
    BY <1>1, <1>4 DEF Undo, At, OpFits, RowSound, HasClaim, Searching
  <2>2. claim[call[c].user] # call[c].tx
    BY <1>1, <2>1 DEF ClaimSound
  <2> QED
    BY <1>0, <1>4, <2>1, <2>2 DEF Undo, TypeOK
<1>5. CASE WriteIndexes(c)
  BY <1>5 DEF WriteIndexes
<1>6. CASE Move(c) \/ Remove(c)
  <2>1. record[call[c].tx] = call[c].from /\ claim[call[c].from] # call[c].tx
    BY <1>1, <1>6 DEF Move, Remove, At, OpFits, RowSound, ClaimSound
  <2> QED
    BY <1>0, <1>6, <2>1 DEF Move, Remove, TypeOK
<1>7. CASE Clear(c)
  <2>1. call[c].ids \subseteq OwnedBy(call[c].user)
    BY <1>1, <1>7 DEF Clear, At, RowSound, RowInv, IndexesAgree
  <2>2. claim'[call[c].user] = NoTx
    BY <1>0, <1>1, <1>7 DEF Clear, ClearedClaim, TypeOK
  <2>3. user # call[c].user
    BY <2>2, NoTxAssumption
  <2> QED
    BY <1>0, <1>7, <2>1, <2>3 DEF Clear, OwnedBy, TypeOK
<1> QED
  BY <1>2, <1>3, <1>4, <1>5, <1>6, <1>7, OtherActions DEF RowAction

(* What another call knows of the claims survives a step. *)
LEMMA OthersSound ==
    ASSUME RowInv, ClaimInv, Quiet, NEW c \in Clients, NEW d \in Clients, c # d,
           Working(d), Step(c)
    PROVE  ClaimSound(call[d])'
<1> DEFINE w == call[d]
<1>0. /\ Working(c) /\ TypeOK /\ call'[d] = w
  BY StepWorks, StepContinues DEF Step, RowInv, Typed, Continues
<1>1. /\ OpFits(call[c]) /\ ClaimSound(call[c]) /\ RowSound(call[c])
      /\ call[c].tx \in Txs /\ call[c].user \in Users
      /\ OpFits(w) /\ ClaimSound(w) /\ RowSound(w)
      /\ w.tx \in Txs /\ w.user \in Users /\ w.op \in Operations
  BY <1>0, WorkingFacts
<1>2. w.user \in Touches(w) \cap Users
  BY <1>1 DEF Touches
<1>3. TakeClaim(c) \/ Backfill(c) => call[c].op # "reset"
  BY <1>1 DEF TakeClaim, Backfill, At, OpFits, ClaimSteps
<1>4. w.op # "reset" /\ call[c].op # "reset" => call[c].tx # w.tx
  BY <1>0 DEF RowInv, Apart
<1>5. ASSUME Backfill(c)
      PROVE  /\ call[c].holder \in productSet[call[c].user] \ {call[c].tx}
             /\ claim[call[c].user] = call[c].tx
             /\ HasClaim(call[c])
  BY <1>1, <1>5 DEF Backfill, At, ClaimSound, HasClaim, Searching
<1>6. productSet[w.user] \subseteq productSet'[w.user]
  BY <1>2, UserUndisturbed
<1>7. \/ claim'[w.user] = claim[w.user]
      \/ /\ TakeClaim(c) /\ call[c].user = w.user /\ claim[w.user] = NoTx
         /\ claim'[w.user] = call[c].tx
      \/ /\ Backfill(c) /\ call[c].user = w.user /\ claim'[w.user] = call[c].holder
  BY <1>2, UserUndisturbed
<1>8. HasClaim(w) => claim'[w.user] = w.tx
  <2> SUFFICES ASSUME HasClaim(w) PROVE claim'[w.user] = w.tx
    OBVIOUS
  <2>1. claim[w.user] = w.tx
    BY <1>1 DEF ClaimSound
  <2>2. ~(Backfill(c) /\ call[c].user = w.user)
    BY <1>0, <1>5, OneHolder
  <2> QED
    BY <1>1, <1>7, <2>1, <2>2, NoTxAssumption
<1>9. HasClaim(w) /\ ~Searching(w) => productSet'[w.user] \subseteq {w.tx}
  <2> SUFFICES ASSUME HasClaim(w), ~Searching(w) PROVE productSet'[w.user] \subseteq {w.tx}
    OBVIOUS
  <2>1. productSet[w.user] \subseteq {w.tx}
    BY <1>1 DEF ClaimSound
  <2>2. ~(HasClaim(call[c]) /\ call[c].user = w.user)
    BY <1>0, OneHolder
  <2> QED
    BY <1>1, <2>1, <2>2, CopiesGrow
<1>10. w.created /\ ~HasClaim(w) => claim'[w.user] # w.tx
  <2> SUFFICES ASSUME w.created, ~HasClaim(w) PROVE claim'[w.user] # w.tx
    OBVIOUS
  <2>1. w.op # "reset" /\ w.tx \notin productSet[w.user] /\ claim[w.user] # w.tx
    BY <1>1 DEF OpFits, RowSound, ClaimSound
  <2> QED
    BY <1>3, <1>4, <1>5, <1>7, <2>1
<1>11. w.pc \in {"holder", "holderRow", "takeOver"} => claim'[w.user] # NoTx
  <2>1. Backfill(c) => call[c].holder \in Txs
    BY <1>0, <1>1, <1>5 DEF TypeOK
  <2> QED
    BY <1>1, <1>7, <2>1, NoTxAssumption DEF ClaimSound
<1>12. w.pc \in {"holderRow", "takeOver"} /\ Settled(w.user) => Settled(w.user)'
  <2> SUFFICES ASSUME w.pc \in {"holderRow", "takeOver"}, Settled(w.user)
               PROVE  claim'[w.user] \in productSet'[w.user]
    BY <1>0 DEF Settled
  <2>1. claim[w.user] # NoTx
    BY <1>1 DEF ClaimSound
  <2> QED
    BY <1>5, <1>6, <1>7, <2>1 DEF Settled
<1>13. w.pc = "holderRow" =>
           Settled(w.user)' \/ (claim'[w.user] = w.holder /\ record'[w.holder] = w.user)
  <2> SUFFICES ASSUME w.pc = "holderRow"
               PROVE  \/ Settled(w.user)'
                      \/ claim'[w.user] = w.holder /\ record'[w.holder] = w.user
    OBVIOUS
  <2>1. claim[w.user] # NoTx /\ claim[w.user] \in Txs \cup {NoTx}
    BY <1>0, <1>1 DEF ClaimSound, TypeOK
  <2>2. CASE Settled(w.user)
    BY <1>12, <2>2
  <2>3. CASE ~Settled(w.user)
    <3>1. claim[w.user] = w.holder /\ record[w.holder] = w.user
      BY <1>1, <2>3 DEF ClaimSound
    <3>2. CASE claim'[w.user] = claim[w.user]
      BY <1>1, <2>1, <3>1, <3>2, ClaimedRowStays
    <3>3. CASE claim'[w.user] # claim[w.user]
      <4>1. claim'[w.user] \in productSet'[w.user]
        BY <1>5, <1>6, <1>7, <2>1, <3>3
      <4> QED
        BY <1>0, <4>1 DEF Settled
    <3> QED
      BY <3>2, <3>3
  <2> QED
    BY <2>2, <2>3
<1>14. w.pc = "takeOver" => Settled(w.user)' /\ claim'[w.user] # w.holder
  <2> SUFFICES ASSUME w.pc = "takeOver"
               PROVE  Settled(w.user)' /\ claim'[w.user] # w.holder
    OBVIOUS
  <2>1. Settled(w.user) /\ claim[w.user] # w.holder /\ claim[w.user] # NoTx
    BY <1>1 DEF ClaimSound
  <2>2. ~(Backfill(c) /\ call[c].user = w.user)
    BY <1>1, <1>5, <2>1 DEF ClaimInv, OneIndexed, Settled
  <2> QED
    BY <1>7, <1>12, <2>1, <2>2
<1>15. w.pc \in {"move", "remove"} => claim'[w.from] # w.tx
  <2> SUFFICES ASSUME w.pc \in {"move", "remove"} PROVE claim'[w.from] # w.tx
    OBVIOUS
  <2>1. /\ w.op \in {"reassign", "delete"} /\ record[w.tx] = w.from /\ w.from \in Users
        /\ claim[w.from] # w.tx
    BY <1>1 DEF OpFits, RowSound, ClaimSound
  <2>2. w.from \in Touches(w) \cap Users
    BY <2>1 DEF Touches
  <2>3. ~(Backfill(c) /\ call[c].user = w.from)
    <3>1. w.from \notin Touches(call[c])
      BY <1>0, <2>1, <2>2 DEF ClaimInv, UsersApart
    <3> QED
      BY <3>1 DEF Touches
  <2> QED
    BY <1>3, <1>4, <2>1, <2>2, <2>3, UserUndisturbed
<1>16. w.pc \in {"legacy", "backfill"} =>
           w.ids # {} /\ w.ids \subseteq productSet'[w.user] \ {w.tx}
  BY <1>1, <1>6 DEF ClaimSound
<1> QED
  BY <1>0, <1>1, <1>8, <1>9, <1>10, <1>11, <1>13, <1>14, <1>15, <1>16
     DEF ClaimSound, HasClaim, Searching, Settled

(* What the call itself goes on with: its place, its row of fields, the claim. *)
LEMMA CallGoesOn ==
    ASSUME RowInv, ClaimInv, Quiet, NEW c \in Clients, Step(c), Working(c)'
    PROVE  /\ call[c] \in Call /\ call'[c] \in Call
           /\ call'[c].op = call[c].op /\ call'[c].tx = call[c].tx
           /\ call'[c].user = call[c].user
           /\ \A pc \in Steps : Go(c, pc) =>
                  /\ call'[c].pc = pc /\ call'[c].created = call[c].created
                  /\ call'[c].from = call[c].from
           /\ \A answer \in Answers : Throw(c, answer) =>
                  call[c].created /\ call'[c].pc = "undo"
           /\ LostAttempt(c) => \/ call'[c].pc = "holder"
                                     /\ call'[c].created = call[c].created
                                \/ call[c].created /\ call'[c].pc = "undo"
<1>0. Working(c) /\ TypeOK /\ Typed /\ Continues(c)
  BY StepWorks, StepContinues DEF RowInv, Typed
<1>1. call[c] \in Call
  BY <1>0, WorkingTyped
<1>2. call'[c] \in Call
  BY <1>0 DEF Continues, Working, At, Idle
<1>3. ASSUME NEW pc \in Steps, Go(c, pc)
      PROVE  /\ call'[c].pc = pc /\ call'[c].created = call[c].created
             /\ call'[c].from = call[c].from
  BY <1>0, <1>1, <1>3 DEF Go, TypeOK, Call
<1>4. ASSUME NEW answer \in Answers, Throw(c, answer)
      PROVE  call[c].created /\ call'[c].pc = "undo"
  BY <1>0, <1>1, <1>4 DEF Throw, Answer, Idle, Working, At, TypeOK, Call
<1>5. ASSUME LostAttempt(c)
      PROVE  \/ call'[c].pc = "holder" /\ call'[c].created = call[c].created
             \/ call[c].created /\ call'[c].pc = "undo"
  <2>1. CASE call[c].attempts < 2
    BY <1>0, <1>1, <1>5, <2>1 DEF LostAttempt, TypeOK, Call
  <2>2. CASE ~(call[c].attempts < 2)
    BY <1>4, <1>5, <2>2 DEF LostAttempt, Answers
  <2> QED
    BY <2>1, <2>2
<1> QED
  BY <1>0, <1>1, <1>2, <1>3, <1>4, <1>5 DEF Continues

(* The claim a save or a transfer finds held by another transaction. *)
LEMMA ClaimFound ==
    ASSUME RowInv, ClaimInv, Quiet, NEW c \in Clients, Working(c), ~HasClaim(call[c]),
           call[c].op # "reset", claim[call[c].user] # NoTx
    PROVE  /\ call[c].op # "delete" => record[claim[call[c].user]] = call[c].user
           /\ claim[call[c].user] = call[c].tx =>
                  /\ record[call[c].tx] = call[c].user
                  /\ productSet[call[c].user] \subseteq {call[c].tx}
<1> DEFINE user == call[c].user
<1>1. /\ OpFits(call[c]) /\ call[c].user \in Users /\ call[c].op \in Operations
      /\ ClaimOfOwner(user) /\ ClaimOfCopy(user)
  BY WorkingFacts DEF ClaimInv, ClaimsKept
<1>2. ASSUME NEW e \in Clients, Working(e), HasClaim(call[e]), call[e].user = user
      PROVE  /\ claim[user] = call[e].tx /\ e # c /\ call[e].op # "reset"
             /\ call[e].tx # call[c].tx
  <2>1. ClaimSound(call[e]) /\ OpFits(call[e])
    BY <1>2, WorkingFacts
  <2>2. claim[user] = call[e].tx /\ e # c /\ call[e].op # "reset"
    BY <1>2, <2>1 DEF ClaimSound, HasClaim, Searching, OpFits, ClaimSteps
  <2> QED
    BY <1>2, <2>2 DEF RowInv, Apart
<1>3. call[c].op # "delete" => record[claim[user]] = user
  <2> SUFFICES ASSUME call[c].op # "delete",
                      NEW e \in Clients, Working(e), HasClaim(call[e]),
                      call[e].op = "reassign", call[e].user = user
               PROVE  FALSE
    BY <1>1 DEF ClaimOfOwner
  <2>1. user \in Touches(call[e]) \cap Touches(call[c]) \cap Users
    BY <1>1 DEF Touches
  <2> QED
    BY <1>2, <2>1 DEF ClaimInv, UsersApart
<1>4. ASSUME claim[user] = call[c].tx
      PROVE  record[call[c].tx] = user /\ productSet[user] \subseteq {call[c].tx}
  BY <1>1, <1>2, <1>4 DEF ClaimOfOwner, ClaimOfCopy, HasClaim
<1> QED
  BY <1>3, <1>4

(* What the call itself knows of the claims once it has made the step. *)
LEMMA OwnSound ==
    ASSUME RowInv, ClaimInv, Quiet, NEW c \in Clients, Step(c), Working(c)'
    PROVE  ClaimSound(call[c])'
<1> DEFINE w == call[c]
           v == call'[c]
           u == w.user
<1>0. Working(c) /\ TypeOK /\ Typed /\ type = "non_consumable"
  BY StepWorks DEF Step, RowInv, Typed, Quiet
<1>1. /\ OpFits(w) /\ ClaimSound(w) /\ RowSound(w)
      /\ w.tx \in Txs /\ u \in Users /\ w.op \in Operations
      /\ w \in Call /\ v \in Call /\ v.op = w.op /\ v.tx = w.tx /\ v.user = u
      /\ OpFits(v)
  BY <1>0, WorkingFacts, CallGoesOn, StepContinues DEF Continues
<1>2. ~(WriteIndexes(c) \/ Undo(c) \/ Move(c) \/ Remove(c) \/ Clear(c))
  BY <1>0 DEF WriteIndexes, Undo, Move, Remove, Clear, Answer, Idle, Working, At, TypeOK
<1>3. productSet' = productSet
  BY <1>2, OtherActions DEF RowAction, Insert, rows
(* The call is at a step that has no claim in hand. *)
<1>4. ASSUME v.pc \in {"owner", "claim", "insert", "lookup", "members", "clear", "undo",
                       "holder"},
             v.created => claim'[u] # w.tx,
             v.pc = "holder" => claim'[u] # NoTx
      PROVE  ClaimSound(call[c])'
  BY <1>1, <1>4 DEF ClaimSound, HasClaim, Searching
(* The call has the claim, and no other copy is listed for its user. *)
<1>5. ASSUME v.pc \in {"index", "release"},
             v.pc = "release" \/ w.op = "save",
             w.op \in {"save", "reassign"},
             claim'[u] = w.tx, productSet[u] \subseteq {w.tx}
      PROVE  ClaimSound(call[c])'
  BY <1>1, <1>3, <1>5 DEF ClaimSound, HasClaim, Searching, OpFits
<1>6. ASSUME Claimed(c), w.pc \in ClaimSteps
      PROVE  /\ v.pc \in {"index", "release"}
             /\ v.pc = "release" \/ w.op = "save"
             /\ w.op \in {"save", "reassign"}
  <2>1. w.op \in {"save", "reassign"}
    BY <1>1, <1>6 DEF OpFits
  <2> QED
    BY <1>6, <2>1, CallGoesOn DEF Claimed, Steps
<1>7. CASE Insert(c)
  <2>1. claim' = claim
    BY <1>7 DEF Insert
  <2>2. CASE record[w.tx] = NoUser
    <3>1. v.pc = "claim"
      <4>1. v = [w EXCEPT !.created = TRUE, !.pc = "claim"]
        BY <1>0, <1>1, <1>7, <2>2 DEF Insert, ThenClaim, TypeOK, Call
      <4> QED
        BY <1>1, <4>1 DEF Call
    <3>2. ~HasClaim(w) /\ w.op = "save"
      BY <1>1, <1>7 DEF Insert, At, HasClaim, Searching, OpFits
    <3>3. claim[u] # w.tx
      <4> SUFFICES ASSUME claim[u] = w.tx PROVE FALSE
        OBVIOUS
      <4>1. record[w.tx] = u
        BY <1>0, <1>1, <3>2, ClaimFound, NoTxAssumption
      <4> QED
        BY <1>1, <2>2, <4>1, NoUserAssumption
    <3> QED
      BY <1>4, <2>1, <3>1, <3>3
  <2>3. CASE record[w.tx] # NoUser
    <3>1. v.pc = "owner"
      BY <1>7, <2>3, CallGoesOn DEF Insert, Steps
    <3>2. ~v.created
      BY <1>1, <3>1 DEF OpFits, ClaimSteps
    <3> QED
      BY <1>4, <3>1, <3>2
  <2> QED
    BY <2>2, <2>3
<1>8. CASE ReadOwner(c)
  <2>1. v.pc = "claim" /\ ~v.created
    <3>1. ThenClaim(c, w)
      BY <1>0, <1>8 DEF ReadOwner, Answer, Idle, Working, At, TypeOK
    <3>2. v = [w EXCEPT !.pc = "claim"]
      BY <1>0, <3>1 DEF ThenClaim, TypeOK
    <3>3. ~w.created
      BY <1>1, <1>8 DEF ReadOwner, At, OpFits, ClaimSteps
    <3> QED
      BY <1>1, <3>2, <3>3 DEF Call
  <2> QED
    BY <1>4, <2>1
<1>9. CASE TakeClaim(c)
  <2>1. CASE claim[u] = NoTx
    <3>1. v.pc = "scan" /\ claim'[u] = w.tx
      BY <1>0, <1>1, <1>9, <2>1, CallGoesOn DEF TakeClaim, SetClaim, Steps, TypeOK
    <3> QED
      BY <1>1, <3>1 DEF ClaimSound, HasClaim, Searching
  <2>2. CASE claim[u] # NoTx
    <3>1. v.pc = "holder" /\ claim' = claim /\ v.created = w.created
      BY <1>9, <2>2, CallGoesOn DEF TakeClaim, Steps
    <3>2. w.created => claim[u] # w.tx
      BY <1>1, <1>9 DEF TakeClaim, At, ClaimSound, HasClaim, Searching
    <3> QED
      BY <1>4, <2>2, <3>1, <3>2
  <2> QED
    BY <2>1, <2>2
<1>10. CASE Scan(c)
  <2>1. claim' = claim /\ claim[u] = w.tx /\ w.pc \in ClaimSteps
    BY <1>1, <1>10 DEF Scan, keys, At, ClaimSound, HasClaim, Searching, ClaimSteps
  <2> DEFINE others == productSet[u] \ {w.tx}
  <2>2. CASE others = {}
    BY <1>5, <1>6, <1>10, <2>1, <2>2 DEF Scan
  <2>3. CASE others # {}
    <3>1. v = [w EXCEPT !.pc = "legacy", !.ids = others]
      BY <1>0, <1>10, <2>3 DEF Scan, TypeOK
    <3>2. v.pc = "legacy" /\ v.ids = others
      BY <1>1, <3>1 DEF Call
    <3> QED
      BY <1>1, <1>3, <2>1, <2>3, <3>2 DEF ClaimSound, HasClaim, Searching
  <2> QED
    BY <2>2, <2>3
<1>11. CASE ReadLegacy(c)
  <2>1. /\ claim' = claim /\ claim[u] = w.tx
        /\ w.ids # {} /\ w.ids \subseteq productSet[u] \ {w.tx}
    BY <1>1, <1>11 DEF ReadLegacy, keys, At, ClaimSound, HasClaim, Searching
  <2>2. LegacyCopies(w.ids) # {}
    BY <1>1, <2>1, NoUserAssumption DEF LegacyCopies, Recorded, RowInv, IndexesAgree, OwnedBy
  <2>3. PICK tx \in LegacyCopies(w.ids) :
            call' = [call EXCEPT ![c].pc = "backfill", ![c].holder = tx]
    BY <1>11, <2>2 DEF ReadLegacy
  <2>4. v = [w EXCEPT !.pc = "backfill", !.holder = tx]
    BY <1>0, <2>3 DEF TypeOK
  <2>5. v.pc = "backfill" /\ v.holder = tx /\ v.ids = w.ids
    BY <1>1, <2>4 DEF Call
  <2> QED
    BY <1>1, <1>3, <2>1, <2>3, <2>5 DEF ClaimSound, HasClaim, Searching, LegacyCopies
<1>12. CASE Backfill(c)
  <2>1. claim'[u] # w.tx
    BY <1>0, <1>1, <1>12 DEF Backfill, SetClaim, At, ClaimSound, TypeOK
  <2>2. v.pc = "undo"
    BY <1>12, CallGoesOn DEF Backfill, Refused, Answers
  <2> QED
    BY <1>4, <2>1, <2>2
<1>13. CASE ReadHolder(c)
  <2>1. /\ claim' = claim /\ claim[u] # NoTx /\ w.pc \in ClaimSteps /\ ~HasClaim(w)
        /\ w.op \in {"save", "reassign"}
        /\ w.created => claim[u] # w.tx
    BY <1>1, <1>13 DEF ReadHolder, keys, At, ClaimSound, HasClaim, Searching, ClaimSteps, OpFits
  <2>2. /\ record[claim[u]] = u
        /\ claim[u] = w.tx => productSet[u] \subseteq {w.tx}
    BY <1>0, <2>1, ClaimFound
  <2>3. CASE claim[u] = w.tx
    BY <1>5, <1>6, <1>13, <2>1, <2>2, <2>3 DEF ReadHolder
  <2>4. CASE claim[u] # w.tx
    <3>1. v = [w EXCEPT !.pc = "holderRow", !.holder = claim[u]]
      BY <1>0, <1>13, <2>1, <2>4 DEF ReadHolder, TypeOK
    <3>2. v.pc = "holderRow" /\ v.holder = claim[u]
      BY <1>1, <3>1 DEF Call
    <3>3. record' = record
      BY <1>13 DEF ReadHolder, keys
    <3> QED
      BY <1>1, <2>1, <2>2, <2>4, <3>2, <3>3 DEF ClaimSound, HasClaim, Searching
  <2> QED
    BY <2>3, <2>4
<1>14. ~Reclaim(c)
  BY <1>1 DEF Reclaim, At, ClaimSound
<1>15. CASE ReadHolderRow(c)
  <2>1. /\ claim' = claim /\ claim[u] # NoTx
        /\ w.created => claim[u] # w.tx
        /\ Settled(u) \/ (claim[u] = w.holder /\ record[w.holder] = u)
    BY <1>1, <1>15 DEF ReadHolderRow, keys, At, ClaimSound, HasClaim, Searching
  <2>2. CASE record[w.holder] = u
    BY <1>4, <1>15, <2>1, <2>2, CallGoesOn DEF ReadHolderRow, HeldByUser, Refused, Answers
  <2>3. CASE record[w.holder] # u
    <3>1. v.pc = "takeOver" /\ v.created = w.created /\ v.holder = w.holder
      <4>1. Go(c, "takeOver")
        BY <1>15, <2>3 DEF ReadHolderRow, HeldByUser
      <4> QED
        BY <1>0, <1>1, <4>1 DEF Go, TypeOK, Call
    <3>2. Settled(u) /\ claim[u] # w.holder
      BY <1>1, <2>1, <2>3 DEF Settled, RowInv, IndexesAgree, OwnedBy
    <3> QED
      BY <1>1, <1>3, <1>15, <2>1, <3>1, <3>2
         DEF ClaimSound, HasClaim, Searching, Settled, ReadHolderRow, keys
  <2> QED
    BY <2>2, <2>3
<1>16. CASE TakeOver(c)
  <2>1. /\ claim[u] # w.holder /\ claim[u] # NoTx
        /\ w.created => claim[u] # w.tx
    BY <1>1, <1>16 DEF TakeOver, At, ClaimSound, HasClaim, Searching
  <2>2. LostAttempt(c) /\ claim' = claim
    BY <1>16, <2>1 DEF TakeOver
  <2> QED
    BY <1>4, <2>1, <2>2, CallGoesOn
<1>17. CASE Lookup(c)
  <2> DEFINE from == record[w.tx]
             pc == IF w.op = "reassign" THEN "claim" ELSE "release"
  <2>1. v = [w EXCEPT !.from = from, !.pc = pc]
    <3>1. from # NoUser /\ ~(w.op = "reassign" /\ from = u)
      BY <1>0, <1>17 DEF Lookup, Answer, Idle, Working, At, TypeOK
    <3> QED
      BY <1>0, <1>1, <1>17, <3>1 DEF Lookup, TypeOK, Call
  <2>2. v.pc = pc
    BY <1>1, <2>1 DEF Call
  <2>3. ~v.created /\ w.op \in {"reassign", "delete"}
    BY <1>1, <1>17 DEF Lookup, At, OpFits
  <2> QED
    BY <1>1, <2>1, <2>2, <2>3 DEF ClaimSound, HasClaim, Searching
(* Only a transfer holds the claim of the user it moves the purchase to. *)
<1>18. ASSUME w.pc \in {"release", "unclaim"}, v.pc \in {"unclaim", "move", "remove"},
              w.op = "reassign" => claim'[u] = claim[u],
              v.pc \in {"move", "remove"} => claim'[v.from] # w.tx
       PROVE  ClaimSound(call[c])'
  <2>1. w.op \in {"reassign", "delete"} /\ ~v.created
    BY <1>1, <1>18 DEF OpFits
  <2>2. w.op = "reassign" => claim'[u] = w.tx /\ productSet[u] \subseteq {w.tx}
    BY <1>1, <1>18 DEF ClaimSound, HasClaim, Searching
  <2> QED
    BY <1>1, <1>3, <1>18, <2>1, <2>2 DEF ClaimSound, HasClaim, Searching
<1>19. CASE ReadClaim(c)
  <2>1. w.pc = "release" /\ claim' = claim
    BY <1>19 DEF ReadClaim, At, keys
  <2>2. CASE claim[w.from] = w.tx
    BY <1>18, <1>19, <2>1, <2>2, CallGoesOn DEF ReadClaim, HoldsClaim, Steps
  <2>3. CASE claim[w.from] # w.tx
    BY <1>18, <1>19, <2>1, <2>3, CallGoesOn DEF ReadClaim, HoldsClaim, Released, Steps
  <2> QED
    BY <2>2, <2>3
<1>20. CASE Unclaim(c)
  <2>1. /\ w.pc = "unclaim" /\ w.from \in Users
        /\ w.op = "reassign" => w.from # u
        /\ claim' = [claim EXCEPT ![w.from] = NoTx]
    BY <1>1, <1>20 DEF Unclaim, SetClaim, At, OpFits, RowSound
  <2>2. v.pc \in {"move", "remove"} /\ v.from = w.from
    BY <1>20, CallGoesOn DEF Unclaim, Released, Steps
  <2>3. claim'[w.from] = NoTx /\ (w.op = "reassign" => claim'[u] = claim[u])
    BY <1>0, <1>1, <2>1 DEF TypeOK
  <2> QED
    BY <1>1, <1>18, <2>1, <2>2, <2>3, NoTxAssumption
<1>21. CASE ReadMembers(c)
  <2>1. v.pc = "clear"
    <3>1. productSet[u] # {}
      BY <1>0, <1>21 DEF ReadMembers, Answer, Idle, Working, At, TypeOK
    <3>2. v = [w EXCEPT !.pc = "clear", !.ids = productSet[u]]
      BY <1>0, <1>21, <3>1 DEF ReadMembers, TypeOK
    <3> QED
      BY <1>1, <3>2 DEF Call
  <2>2. ~v.created
    BY <1>1, <2>1 DEF OpFits, ClaimSteps
  <2> QED
    BY <1>4, <2>1, <2>2
<1> QED
  BY <1>2, <1>7, <1>8, <1>9, <1>10, <1>11, <1>12, <1>13, <1>14, <1>15, <1>16, <1>17, <1>19,
     <1>20, <1>21 DEF Step

(* A call keeps the claim it holds until it lists its copy or gives way to an
   old one, and the search it is in until it has found no other. *)
LEMMA ClaimStays ==
    ASSUME RowInv, ClaimInv, Quiet, NEW c \in Clients, Step(c), HasClaim(call[c])
    PROVE  \/ WriteIndexes(c) \/ Move(c) \/ Backfill(c)
           \/ Working(c)' /\ HasClaim(call[c])'
                /\ (Searching(call[c]) => \/ Searching(call[c])'
                                          \/ productSet[call[c].user] \subseteq {call[c].tx})
<1> SUFFICES ASSUME ~(WriteIndexes(c) \/ Move(c) \/ Backfill(c))
             PROVE  /\ Working(c)' /\ HasClaim(call[c])'
                    /\ Searching(call[c]) => \/ Searching(call[c])'
                                             \/ productSet[call[c].user] \subseteq {call[c].tx}
  OBVIOUS
<1> DEFINE w == call[c]
<1>0. Working(c) /\ TypeOK /\ w \in Call /\ OpFits(w) /\ ClaimSound(w)
  BY StepWorks, WorkingFacts DEF RowInv, Typed
<1>1. Scan(c) \/ ReadLegacy(c) \/ ReadClaim(c) \/ Unclaim(c)
  BY DEF Step, HasClaim, Searching, At, Insert, ReadOwner, WriteIndexes, Undo, TakeClaim, Scan,
         ReadLegacy, Backfill, ReadHolder, Reclaim, ReadHolderRow, TakeOver, Lookup, ReadClaim,
         Unclaim, Move, Remove, ReadMembers, Clear
<1>2. ASSUME NEW pc \in {"index", "release", "unclaim", "move"}, Go(c, pc),
             (pc = "index") <=> (w.op = "save"), w.op \in {"save", "reassign"}
      PROVE  Working(c)' /\ HasClaim(call[c])'
  <2>1. call'[c].pc = pc /\ call'[c].op = w.op
    BY <1>0, <1>2 DEF Go, TypeOK, Call
  <2> QED
    BY <1>2, <2>1 DEF Working, At, HasClaim
<1>3. CASE Scan(c)
  <2>1. w.op \in {"save", "reassign"}
    BY <1>0, <1>3 DEF Scan, At, OpFits, ClaimSteps
  <2> DEFINE others == productSet[w.user] \ {w.tx}
  <2>2. CASE others = {}
    BY <1>2, <1>3, <2>1, <2>2 DEF Scan, Claimed
  <2>3. CASE others # {}
    <3>1. call'[c] = [w EXCEPT !.pc = "legacy", !.ids = others]
      BY <1>0, <1>3, <2>3 DEF Scan, TypeOK
    <3>2. call'[c].pc = "legacy"
      BY <1>0, <3>1 DEF Call
    <3> QED
      BY <3>2 DEF Working, At, HasClaim, Searching
  <2> QED
    BY <2>2, <2>3
<1>4. CASE ReadLegacy(c)
  <2>1. w.ids # {} /\ w.ids \subseteq productSet[w.user] /\ w.user \in Users
    BY <1>0, <1>4 DEF ReadLegacy, At, ClaimSound, Call
  <2>2. LegacyCopies(w.ids) # {}
    BY <1>0, <2>1, NoUserAssumption DEF LegacyCopies, Recorded, RowInv, IndexesAgree, OwnedBy,
                                        Call
  <2>3. PICK tx \in LegacyCopies(w.ids) :
            call' = [call EXCEPT ![c].pc = "backfill", ![c].holder = tx]
    BY <1>4, <2>2 DEF ReadLegacy
  <2>4. call'[c] = [w EXCEPT !.pc = "backfill", !.holder = tx]
    BY <1>0, <2>3 DEF TypeOK
  <2>5. call'[c].pc = "backfill"
    BY <1>0, <2>4 DEF Call
  <2> QED
    BY <2>5 DEF Working, At, HasClaim, Searching
<1>5. CASE ReadClaim(c) \/ Unclaim(c)
  <2>1. w.op = "reassign" /\ ~Searching(w)
    BY <1>5 DEF ReadClaim, Unclaim, At, HasClaim, Searching
  <2> QED
    BY <1>2, <1>5, <2>1 DEF ReadClaim, Unclaim, Released
<1> QED
  BY <1>1, <1>3, <1>4, <1>5

(* A step keeps a user's set to one copy and the claim to that copy. *)
LEMMA StepKeepsClaims ==
    ASSUME RowInv, ClaimInv, Quiet, NEW c \in Clients, Step(c)
    PROVE  OneIndexed' /\ ClaimsKept'
<1>0. Working(c) /\ TypeOK /\ Continues(c) /\ Typed'
  BY StepWorks, StepContinues, StepTyped DEF RowInv, Typed
<1>1. /\ OpFits(call[c]) /\ ClaimSound(call[c]) /\ RowSound(call[c])
      /\ call[c].tx \in Txs /\ call[c].user \in Users
  BY <1>0, WorkingFacts
<1>2. OneIndexed'
  BY CopiesGrow DEF ClaimInv, OneIndexed
<1>3. \A d \in Clients : d # c => call'[d] = call[d] /\ (Working(d)' <=> Working(d))
  BY <1>0 DEF Continues, Working, At
<1>4. Working(c)' => call'[c].op = call[c].op /\ call'[c].user = call[c].user
  BY <1>0 DEF Continues
<1>5. ASSUME NEW user \in Users, claim'[user] # NoTx
      PROVE  ClaimOfOwner(user)' /\ ClaimOfCopy(user)'
  <2>1. CASE claim'[user] = claim[user]
    <3>1. /\ ClaimOfOwner(user) /\ ClaimOfCopy(user) /\ claim[user] \in Txs
      BY <1>0, <1>5, <2>1 DEF ClaimInv, ClaimsKept, TypeOK
    <3>2. ~(Backfill(c) /\ call[c].user = user)
      <4> SUFFICES ASSUME Backfill(c), call[c].user = user PROVE FALSE
        OBVIOUS
      <4>1. claim'[user] = call[c].holder
        BY <1>0, <1>1 DEF Backfill, SetClaim, TypeOK
      <4>2. claim[user] = call[c].tx /\ call[c].holder # call[c].tx
        BY <1>1 DEF Backfill, At, ClaimSound, HasClaim, Searching
      <4> QED
        BY <2>1, <4>1, <4>2
    <3>3. ClaimOfOwner(user)'
      <4>1. CASE record[claim[user]] = user
        BY <2>1, <3>1, <4>1, ClaimedRowStays DEF ClaimOfOwner
      <4>2. ASSUME NEW e \in Clients, Working(e), HasClaim(call[e]), call[e].op = "reassign",
                   call[e].user = user
            PROVE  ClaimOfOwner(user)'
        <5>1. CASE e # c
          BY <1>3, <4>2, <5>1 DEF ClaimOfOwner, HasClaim, Searching
        <5>2. CASE e = c /\ Move(c)
          <6>1. record'[call[c].tx] = user /\ claim[user] = call[c].tx
            BY <1>0, <1>1, <4>2, <5>2 DEF Move, TypeOK, ClaimSound
          <6> QED
            BY <2>1, <6>1 DEF ClaimOfOwner
        <5>3. CASE e = c /\ ~Move(c)
          <6>1. ~WriteIndexes(c)
            BY <1>1, <4>2, <5>3 DEF WriteIndexes, At, OpFits
          <6>2. Working(c)' /\ HasClaim(call[c])'
            BY <3>2, <4>2, <5>3, <6>1, ClaimStays
          <6> QED
            BY <1>4, <4>2, <5>3, <6>2 DEF ClaimOfOwner
        <5> QED
          BY <5>1, <5>2, <5>3
      <4> QED
        BY <3>1, <4>1, <4>2 DEF ClaimOfOwner
    <3>4. ClaimOfCopy(user)'
      <4>1. CASE productSet[user] \subseteq {claim[user]}
        <5>1. productSet'[user] \subseteq {claim[user]}
          BY <4>1, CopiesGrow
        <5> QED
          BY <2>1, <5>1 DEF ClaimOfCopy
      <4>2. ASSUME NEW e \in Clients, Working(e), Searching(call[e]), call[e].user = user
            PROVE  ClaimOfCopy(user)'
        <5>1. CASE e # c
          BY <1>3, <4>2, <5>1 DEF ClaimOfCopy, Searching
        <5>2. CASE e = c
          <6>1. HasClaim(call[c]) /\ ~WriteIndexes(c) /\ ~Move(c)
            BY <1>1, <4>2, <5>2 DEF WriteIndexes, Move, At, HasClaim, Searching
          <6>2. /\ Working(c)'
                /\ Searching(call[c])' \/ productSet[user] \subseteq {call[c].tx}
            BY <3>2, <4>2, <5>2, <6>1, ClaimStays
          <6>3. claim[user] = call[c].tx
            BY <1>1, <4>2, <5>2, <6>1 DEF ClaimSound
          <6>4. CASE Searching(call[c])'
            BY <1>4, <4>2, <5>2, <6>2, <6>4 DEF ClaimOfCopy
          <6> QED
            BY <4>1, <6>2, <6>3, <6>4
        <5> QED
          BY <5>1, <5>2
      <4> QED
        BY <3>1, <4>1, <4>2 DEF ClaimOfCopy
    <3> QED
      BY <3>3, <3>4
  <2>2. CASE claim'[user] # claim[user]
    <3>1. \/ TakeClaim(c) /\ claim[call[c].user] = NoTx /\ user = call[c].user
               /\ claim'[user] = call[c].tx
          \/ Backfill(c) /\ user = call[c].user /\ claim'[user] = call[c].holder
      BY <1>0, <1>1, <1>5, <2>2, ClaimWrites, NoTxAssumption DEF TypeOK
    <3>2. CASE TakeClaim(c) /\ claim[call[c].user] = NoTx /\ user = call[c].user
                 /\ claim'[user] = call[c].tx
      <4>1. call[c] \in Call
        BY <1>0, WorkingFacts
      <4>2. call'[c].pc = "scan" /\ Working(c)' /\ Searching(call[c])' /\ HasClaim(call[c])'
        <5>1. call'[c] = [call[c] EXCEPT !.pc = "scan"]
          BY <1>0, <3>2 DEF TakeClaim, Go, TypeOK
        <5>2. call'[c].pc = "scan"
          BY <4>1, <5>1 DEF Call
        <5> QED
          BY <5>2 DEF Working, At, Searching, HasClaim
      <4>3. call[c].op \in {"save", "reassign"}
        BY <1>1, <3>2 DEF TakeClaim, At, OpFits, ClaimSteps
      <4>4. call[c].op = "save" => record'[claim'[user]] = user
        BY <1>1, <3>2 DEF TakeClaim, At, RowSound, ClaimSteps, KeepsRows
      <4> QED
        BY <1>4, <3>2, <4>2, <4>3, <4>4 DEF ClaimOfOwner, ClaimOfCopy
    <3>3. CASE Backfill(c) /\ user = call[c].user /\ claim'[user] = call[c].holder
      <4>1. call[c].holder \in productSet[user]
        BY <1>1, <3>3 DEF Backfill, At, ClaimSound
      <4>2. productSet' = productSet /\ record' = record
        BY <3>3 DEF Backfill, KeepsRows
      <4> QED
        BY <3>3, <4>1, <4>2
           DEF ClaimOfOwner, ClaimOfCopy, ClaimInv, OneIndexed, RowInv, IndexesAgree, OwnedBy
    <3> QED
      BY <3>1, <3>2, <3>3
  <2> QED
    BY <2>1, <2>2
<1> QED
  BY <1>2, <1>5 DEF ClaimsKept

(* A step moves no call to another user's purchases. *)
LEMMA StepKeepsUsersApart ==
    ASSUME RowInv, ClaimInv, Quiet, NEW c \in Clients, Step(c)
    PROVE  UsersApart'
<1>0. Working(c) /\ Continues(c)
  BY StepWorks, StepContinues DEF RowInv
<1>1. ASSUME NEW d \in Clients, Working(d)'
      PROVE  /\ Working(d) /\ call'[d].op = call[d].op
             /\ Touches(call[d])' \subseteq Touches(call[d])
  <2>1. CASE d = c
    BY <1>0, <1>1, <2>1, ActorSound DEF Continues, Touches
  <2>2. CASE d # c
    <3>1. Working(d) /\ call'[d] = call[d]
      BY <1>0, <1>1, <2>2 DEF Continues, Working, At
    <3> QED
      BY <2>2, <3>1, Undisturbed DEF Touches
  <2> QED
    BY <2>1, <2>2
<1> QED
  BY <1>1 DEF ClaimInv, UsersApart

(* A call that starts has read nothing, and is noted when it is not apart. *)
LEMMA StartKeepsClaims ==
    ASSUME RowInv, ClaimInv, NEW c \in Clients, NEW op \in Operations, NEW tx \in Txs,
           NEW user \in Users, Start(c, op, tx, user)
    PROVE  ClaimInv'
<1> SUFFICES ASSUME Quiet' PROVE UsersApart' /\ ClaimsSound' /\ OneIndexed' /\ ClaimsKept'
  BY DEF ClaimInv
<1>0. /\ TypeOK /\ ~Working(c) /\ UNCHANGED <<keys, type>>
      /\ UNCHANGED record /\ UNCHANGED claim /\ UNCHANGED productSet
  BY DEF RowInv, Typed, Start, keys
<1>1. /\ Quiet
      /\ \A d \in Clients : Working(d) => ~SameUser(op, tx, user, call[d])
  BY DEF Quiet, Start
<1>2. /\ call'[c].op = op /\ call'[c].tx = tx /\ call'[c].user = user
      /\ call'[c].pc \in {"insert", "lookup", "members"} /\ ~call'[c].created
      /\ \A d \in Clients : d # c => call'[d] = call[d] /\ (Working(d)' <=> Working(d))
  BY StartBegins DEF RowInv
<1>3. UsersApart'
  <2>1. ASSUME NEW d \in Clients, d # c, Working(d)
        PROVE  \/ op = "save" /\ call[d].op = "save"
               \/ Touches(call[c])' \cap Touches(call[d]) \cap Users = {}
    <3>1. ~SameUser(op, tx, user, call[d])
      BY <1>1, <2>1
    <3> QED
      BY <1>0, <1>2, <3>1 DEF SameUser, Touches
  <2>2. \A d \in Clients : d # c => Touches(call[d])' = Touches(call[d])
    BY <1>0, <1>2 DEF Touches
  <2> QED
    BY <1>1, <1>2, <2>1, <2>2 DEF ClaimInv, UsersApart
<1>4. ClaimsSound'
  <2> SUFFICES ASSUME NEW d \in Clients, Working(d)' PROVE ClaimSound(call[d])'
    BY DEF ClaimsSound
  <2>1. CASE d = c
    BY <1>2, <2>1 DEF ClaimSound, HasClaim, Searching
  <2>2. CASE d # c
    BY <1>0, <1>1, <1>2, <2>2
       DEF ClaimInv, ClaimsSound, ClaimSound, HasClaim, Searching, Settled
  <2> QED
    BY <2>1, <2>2
<1>5. OneIndexed'
  BY <1>0, <1>1 DEF ClaimInv, OneIndexed
<1>6. ClaimsKept'
  BY <1>0, <1>1, <1>2
     DEF ClaimInv, ClaimsKept, ClaimOfOwner, ClaimOfCopy, HasClaim, Searching
<1> QED
  BY <1>3, <1>4, <1>5, <1>6

(* The databases the store may open on have one copy a user. *)
LEMMA InitClaims == Init => ClaimInv
<1> SUFFICES ASSUME Init, Quiet PROVE UsersApart /\ ClaimsSound /\ OneIndexed /\ ClaimsKept
  BY DEF ClaimInv
<1>1. \A c \in Clients : ~Working(c)
  BY DEF Init, Idle, Working, At
<1>2. \A user \in Users : productSet[user] = OwnedBy(user)
  BY DEF Init
<1>3. OneIndexed
  <2> SUFFICES ASSUME NEW user \in Users, NEW tx \in OwnedBy(user),
                      NEW other \in OwnedBy(user), tx # other
               PROVE  FALSE
    BY <1>2 DEF OneIndexed
  <2>1. IsFiniteSet(OwnedBy(user)) /\ IsFiniteSet({tx, other})
    BY TxsAssumption, FS_Subset, FS_Singleton, FS_AddElement DEF OwnedBy
  <2>2. Cardinality({tx, other}) = 2
    <3>1. IsFiniteSet({other}) /\ Cardinality({other}) = 1
      BY FS_Singleton
    <3>2. Cardinality({other} \cup {tx}) = 2
      BY <3>1, FS_AddElement
    <3>3. {other} \cup {tx} = {tx, other}
      OBVIOUS
    <3> QED
      BY <3>2, <3>3
  <2>3. Cardinality({tx, other}) <= Cardinality(OwnedBy(user))
    BY <2>1, FS_Subset
  <2>4. Cardinality(OwnedBy(user)) <= 1 /\ Cardinality(OwnedBy(user)) \in Nat
    BY <2>1, FS_CardinalityType DEF Init, Quiet
  <2> QED
    BY <2>2, <2>3, <2>4
<1>4. ClaimsKept
  BY <1>2, <1>3 DEF Init, ClaimsKept, ClaimOfOwner, ClaimOfCopy, OneIndexed, OwnedBy
<1> QED
  BY <1>1, <1>3, <1>4 DEF UsersApart, ClaimsSound

(* IInv is inductive. *)
LEMMA NextClaims == ASSUME Exclusive PROVE IInv /\ [Next]_vars => IInv'
<1> SUFFICES ASSUME RowInv, ClaimInv, [Next]_vars PROVE RowInv' /\ ClaimInv'
  BY DEF IInv
<1>1. RowInv'
  BY NextRows
<1>2. ASSUME NEW c \in Clients, Step(c) PROVE ClaimInv'
  <2> SUFFICES ASSUME Quiet' PROVE UsersApart' /\ ClaimsSound' /\ OneIndexed' /\ ClaimsKept'
    BY DEF ClaimInv
  <2>1. Quiet
    BY <1>2 DEF Quiet, Step, KeepsRows, Insert, ReadOwner, WriteIndexes, Undo, TakeClaim, Scan,
       ReadLegacy, Backfill, ReadHolder, Reclaim, ReadHolderRow, TakeOver, Lookup, ReadClaim,
       Unclaim, Move, Remove, ReadMembers, Clear
  <2>2. ClaimsSound'
    <3> SUFFICES ASSUME NEW d \in Clients, Working(d)' PROVE ClaimSound(call[d])'
      BY DEF ClaimsSound
    <3>1. CASE d = c
      BY <1>2, <2>1, <3>1, OwnSound
    <3>2. CASE d # c
      <4>1. Continues(c)
        BY <1>2, StepContinues DEF RowInv
      <4>2. Working(d)
        BY <3>2, <4>1 DEF Continues, Working, At
      <4> QED
        BY <1>2, <2>1, <3>2, <4>2, OthersSound
    <3> QED
      BY <3>1, <3>2
  <2> QED
    BY <1>2, <2>1, <2>2, StepKeepsClaims, StepKeepsUsersApart
<1>3. ASSUME NEW c \in Clients, Fail(c) PROVE ClaimInv'
  BY <1>3 DEF Fail, ClaimInv, Quiet
<1>4. CASE UNCHANGED vars
  BY <1>1, <1>4 DEF vars, keys, ClaimInv, Quiet, UsersApart, Touches, ClaimsSound, ClaimSound, HasClaim,
              Searching, Settled, OneIndexed, ClaimsKept, ClaimOfOwner, ClaimOfCopy, Working, At
<1>5. ASSUME NEW c \in Clients, NEW op \in Operations, NEW tx \in Txs, NEW user \in Users,
             Start(c, op, tx, user)
      PROVE  ClaimInv'
  BY <1>5, StartKeepsClaims
<1>6. CASE Next
  BY <1>1, <1>2, <1>3, <1>5, <1>6 DEF Next
<1> QED
  BY <1>1, <1>4, <1>6

(* While nothing fails, and a user's purchases are moved or deleted by one call
   at a time, claimNonConsumable leaves no user with two copies of a
   non-consumable: not by saves that race, nor over rows from before the claims,
   nor over the claims that moves and deletions leave behind (redis.ts). *)
THEOREM OneCopyWhileQuiet == ASSUME Exclusive PROVE Spec => []OneCopyUndisturbed
<1>1. IInv => OneCopyUndisturbed
  <2> SUFFICES ASSUME IInv, noted = {}, type = "non_consumable", NEW user \in Users
               PROVE  Cardinality(Copies(user)) <= 1
    BY DEF OneCopyUndisturbed, OneCopyEach
  <2>1. \A tx, other \in productSet[user] : tx = other
    BY DEF IInv, ClaimInv, Quiet, OneIndexed
  <2>2. Copies(user) \subseteq productSet[user]
    BY DEF Copies, Listing
  <2>3. CASE Copies(user) = {}
    BY <2>3, FS_EmptySet
  <2>4. CASE Copies(user) # {}
    <3>1. PICK tx \in Copies(user) : TRUE
      BY <2>4
    <3>2. Copies(user) = {tx}
      BY <2>1, <2>2, <3>1
    <3> QED
      BY <3>2, FS_Singleton
  <2> QED
    BY <2>3, <2>4
<1>2. Init => IInv
  BY InitRows, InitClaims DEF IInv
<1> QED
  BY <1>1, <1>2, NextClaims, PTL DEF Spec
-----------------------------------------------------------------------------
(***************************************************************************)
(* Theorems about RedisSubscriptionStore and SubscriptionStores, for any   *)
(* clients, transactions, users and times that satisfy what the model      *)
(* assumes of them: the indexes and the side keys stay in step with the    *)
(* rows, save() implements the table of SubscriptionTable, and the two     *)
(* stores answer alike.                                                    *)
(*                                                                         *)
(* The argument.  IndexAgreement is not inductive by itself: it holds      *)
(* across the script because the script removes the transaction from the   *)
(* set of the row's owner, whether it learns that owner from the owner key *)
(* (OwnerKeysRight) or from what the client read before (JobsSound, which  *)
(* survives other clients' scripts because those write the owner key).     *)
(***************************************************************************)
(* An owner key names the row's owner, or is missing. *)
OwnerKeysRight ==
    \A tx \in Txs : ownerKey[tx] \in {Owner(tx), NoUser}

(* A client about to run the script knows the owner of a row without a key. *)
KnowsOwner(c) ==
    \/ ownerKey[work[c].tx] # NoUser
    \/ work[c].legacyOwner = Owner(work[c].tx)

JobsSound == \A c \in Clients : SaveAt(c, "eval") => KnowsOwner(c)

SubscriptionInv == SubscriptionTypeOK /\ IndexAgreement /\ AsOfAgrees /\ OwnerKeysRight /\ JobsSound
-----------------------------------------------------------------------------
(* A client in the middle of a save holds a whole job. *)
LEMMA BusyJob ==
    ASSUME SubscriptionTypeOK, NEW c \in Clients, ~SaveAt(c, "idle")
    PROVE  work[c] \in Job
<1>1. work[c] \in Job \cup {NoSave}
  BY DEF SubscriptionTypeOK
<1>2. work[c] # NoSave
  BY DEF SaveAt, NoSave
<1> QED
  BY <1>1, <1>2

(* What the script takes for the previous owner is the owner of the row. *)
LEMMA PreviousOwnerRight ==
    ASSUME SubscriptionInv, NEW c \in Clients, SaveAt(c, "eval")
    PROVE  PreviousOwner(ownerKey[work[c].tx], work[c].legacyOwner) = Owner(work[c].tx)
<1>1. work[c] \in Job
  BY BusyJob DEF SubscriptionInv, SaveAt
<1>2. work[c].tx \in Txs
  BY <1>1 DEF Job
<1>3. ownerKey[work[c].tx] \in {Owner(work[c].tx), NoUser}
  BY <1>2 DEF SubscriptionInv, OwnerKeysRight
<1>4. \/ ownerKey[work[c].tx] # NoUser
      \/ work[c].legacyOwner = Owner(work[c].tx)
  BY DEF SubscriptionInv, JobsSound, KnowsOwner
<1> QED
  BY <1>3, <1>4 DEF PreviousOwner

(* A row that is not NoRow is a row. *)
LEMMA RowsAreRows ==
    ASSUME SubscriptionTypeOK, NEW tx \in Txs
    PROVE  /\ Exists(tx) <=> subscription[tx] \in Row
           /\ Owner(tx) \in Users \cup {NoUser}
           /\ AsOf(tx) \in Nat
<1>1. subscription[tx] \in Row \cup {NoRow}
  BY DEF SubscriptionTypeOK
<1>2. NoRow \notin Row
  BY NoRowAssumption DEF Row
<1> QED
  BY <1>1, <1>2, TimesAssumption DEF Exists, Owner, AsOf, Row, NoTime
-----------------------------------------------------------------------------
LEMMA SubscriptionsInit == SubscriptionInit => SubscriptionInv
<1> SUFFICES ASSUME SubscriptionInit PROVE SubscriptionInv
  OBVIOUS
<1>1. SubscriptionTypeOK
  <2>1. /\ subscription \in [Txs -> Row \cup {NoRow}]
        /\ ownerKey \in [Txs -> Users \cup {NoUser}]
        /\ work \in [Clients -> Job \cup {NoSave}]
    BY DEF SubscriptionInit
  <2>2. userSet \in [Users -> SUBSET Txs] /\ subscriptions \in SUBSET Txs
    BY DEF SubscriptionInit, SubscriptionsOf
  <2>3. \A tx \in Txs : (IF Exists(tx) THEN subscription[tx].asOf ELSE NoTime) \in Times
    BY <2>1, TimesAssumption DEF Exists, Row
  <2>4. asOfKey \in [Txs -> Times]
    BY <2>3 DEF SubscriptionInit, AsOf
  <2> QED
    BY <2>1, <2>2, <2>4 DEF SubscriptionTypeOK
<1>2. IndexAgreement
  BY DEF SubscriptionInit, IndexAgreement
<1>3. AsOfAgrees
  BY DEF SubscriptionInit, AsOfAgrees
<1>4. OwnerKeysRight
  BY DEF SubscriptionInit, OwnerKeysRight
<1>5. JobsSound
  BY DEF SubscriptionInit, JobsSound, SaveAt, NoSave
<1> QED
  BY <1>1, <1>2, <1>3, <1>4, <1>5 DEF SubscriptionInv

(* Steps that leave the keys alone. *)
LEMMA KeysUntouched ==
    ASSUME SubscriptionInv, UNCHANGED subscriptionKeys, SubscriptionTypeOK', JobsSound'
    PROVE  SubscriptionInv'
<1>1. \A tx : (Exists(tx) <=> Exists(tx)') /\ Owner(tx)' = Owner(tx) /\ AsOf(tx)' = AsOf(tx)
  BY DEF subscriptionKeys, Exists, Owner, AsOf
<1>2. \A user : SubscriptionsOf(user)' = SubscriptionsOf(user)
  BY <1>1 DEF SubscriptionsOf
<1>3. IndexAgreement'
  BY <1>1, <1>2 DEF SubscriptionInv, IndexAgreement, subscriptionKeys
<1>4. AsOfAgrees' /\ OwnerKeysRight'
  BY <1>1 DEF SubscriptionInv, AsOfAgrees, OwnerKeysRight, subscriptionKeys
<1> QED
  BY <1>3, <1>4 DEF SubscriptionInv

(* The script keeps rows, indexes and side keys in step. *)
LEMMA EvalKeeps ==
    ASSUME SubscriptionInv, NEW c \in Clients, Eval(c)
    PROVE  SubscriptionInv'
<1>0. PICK tx \in Txs, row \in Row : work[c].tx = tx /\ work[c].row = row
  BY BusyJob DEF SubscriptionInv, Eval, SaveAt, Job
<1>1. row.user \in Users /\ row.asOf \in Times
  BY DEF Row
<1>2. work' = [work EXCEPT ![c] = NoSave]
  BY DEF Eval
<1>3. work' \in [Clients -> Job \cup {NoSave}]
  BY <1>2 DEF SubscriptionInv, SubscriptionTypeOK
<1>4. CASE ScriptRefuses(asOfKey[tx], row.asOf)
  <2>1. UNCHANGED subscriptionKeys
    BY <1>0, <1>4 DEF Eval, Script
  <2>2. SubscriptionTypeOK'
    BY <1>3, <2>1 DEF SubscriptionInv, SubscriptionTypeOK, subscriptionKeys
  <2>3. JobsSound'
    <3> SUFFICES ASSUME NEW d \in Clients, SaveAt(d, "eval")'
                 PROVE  KnowsOwner(d)'
      BY DEF JobsSound
    <3>1. d # c /\ work'[d] = work[d]
      BY <1>2 DEF SaveAt, NoSave, SubscriptionInv, SubscriptionTypeOK
    <3> QED
      BY <3>1, <2>1 DEF SubscriptionInv, JobsSound, KnowsOwner, SaveAt, subscriptionKeys, Owner, Exists
  <2> QED
    BY <2>1, <2>2, <2>3, KeysUntouched
<1>5. CASE ~ScriptRefuses(asOfKey[tx], row.asOf)
  <2>1. /\ subscription' = [subscription EXCEPT ![tx] = row]
        /\ ownerKey' = [ownerKey EXCEPT ![tx] = row.user]
        /\ asOfKey' = [asOfKey EXCEPT ![tx] = row.asOf]
        /\ userSet' = Reindexed(userSet, tx, PreviousOwner(ownerKey[tx], work[c].legacyOwner),
                                row.user)
        /\ subscriptions' = subscriptions \cup {tx}
    BY <1>0, <1>5 DEF Eval, Script, AsOfWritten
  <2>2. userSet' = Reindexed(userSet, tx, Owner(tx), row.user)
    BY <1>0, <2>1, PreviousOwnerRight DEF Eval
  <2>3. SubscriptionTypeOK'
    <3>1. userSet' \in [Users -> SUBSET Txs]
      BY <2>2, <1>1 DEF Reindexed, SubscriptionInv, SubscriptionTypeOK
    <3> QED
      BY <1>1, <1>3, <2>1, <3>1 DEF SubscriptionInv, SubscriptionTypeOK
  <2>4. /\ Exists(tx)' /\ Owner(tx)' = row.user /\ AsOf(tx)' = row.asOf
        /\ \A other \in Txs : other # tx => /\ Exists(other)' <=> Exists(other)
                                            /\ Owner(other)' = Owner(other)
                                            /\ AsOf(other)' = AsOf(other)
    <3>1. subscription'[tx] = row /\ row # NoRow
      BY <1>1, <2>1, NoRowAssumption DEF SubscriptionInv, SubscriptionTypeOK, Row
    <3>2. \A other \in Txs : other # tx => subscription'[other] = subscription[other]
      BY <2>1 DEF SubscriptionInv, SubscriptionTypeOK
    <3> QED
      BY <3>1, <3>2 DEF Exists, Owner, AsOf
  <2>5. IndexAgreement'
    <3>1. ASSUME NEW user \in Users PROVE userSet'[user] = SubscriptionsOf(user)'
      <4>1. userSet[user] = SubscriptionsOf(user)
        BY DEF SubscriptionInv, IndexAgreement
      <4>2. userSet'[user] = IF user = row.user THEN userSet[user] \cup {tx}
                             ELSE IF user = Owner(tx) THEN userSet[user] \ {tx}
                             ELSE userSet[user]
        BY <2>2 DEF Reindexed
      <4>3. SubscriptionsOf(user)' = {t \in Txs : Owner(t)' = user}
        BY DEF SubscriptionsOf
      <4>4. \A t \in Txs : t # tx => (t \in userSet'[user] <=> Owner(t)' = user)
        BY <4>1, <4>2, <2>4 DEF SubscriptionsOf
      <4>5. tx \in userSet'[user] <=> Owner(tx)' = user
        BY <4>1, <4>2, <2>4, <1>1 DEF SubscriptionsOf
      <4>6. userSet'[user] \subseteq Txs
        BY <2>3 DEF SubscriptionTypeOK
      <4> QED
        BY <4>3, <4>4, <4>5, <4>6
    <3>2. subscriptions' = {t \in Txs : Exists(t)'}
      <4>1. subscriptions = {t \in Txs : Exists(t)}
        BY DEF SubscriptionInv, IndexAgreement
      <4> QED
        BY <4>1, <2>1, <2>4, <1>1
    <3> QED
      BY <3>1, <3>2 DEF IndexAgreement
  <2>6. AsOfAgrees'
    BY <1>1, <2>1, <2>4 DEF AsOfAgrees, SubscriptionInv, SubscriptionTypeOK
  <2>7. OwnerKeysRight'
    BY <1>1, <2>1, <2>4 DEF OwnerKeysRight, SubscriptionInv, SubscriptionTypeOK
  <2>8. JobsSound'
    <3> SUFFICES ASSUME NEW d \in Clients, SaveAt(d, "eval")'
                 PROVE  KnowsOwner(d)'
      BY DEF JobsSound
    <3>1. d # c /\ work'[d] = work[d] /\ SaveAt(d, "eval")
      BY <1>2 DEF SaveAt, NoSave, SubscriptionInv, SubscriptionTypeOK
    <3>2. work[d] \in Job /\ work[d].tx \in Txs
      BY <3>1, BusyJob DEF SubscriptionInv, SaveAt, Job
    <3>3. CASE work[d].tx = tx
      <4>1. ownerKey'[tx] = row.user /\ row.user # NoUser
        BY <1>1, <2>1, NoUserAssumption DEF SubscriptionInv, SubscriptionTypeOK
      <4> QED
        BY <3>1, <3>3, <4>1 DEF KnowsOwner
    <3>4. CASE work[d].tx # tx
      <4>1. PICK other \in Txs : work[d].tx = other
        BY <3>2
      <4>2. ownerKey'[other] = ownerKey[other] /\ Owner(other)' = Owner(other)
        BY <4>1, <3>4, <2>1, <2>4 DEF SubscriptionInv, SubscriptionTypeOK
      <4>3. KnowsOwner(d)
        BY <3>1 DEF SubscriptionInv, JobsSound
      <4> QED
        BY <3>1, <4>1, <4>2, <4>3 DEF KnowsOwner, Owner, Exists
    <3> QED
      BY <3>3, <3>4
  <2> QED
    BY <2>3, <2>5, <2>6, <2>7, <2>8 DEF SubscriptionInv
<1> QED
  BY <1>4, <1>5

(* The round trips before the script change nothing but their own client. *)
LEMMA RoundTripKeeps ==
    ASSUME SubscriptionInv, NEW c \in Clients,
           \/ \E tx \in Txs, row \in Row : StartSave(c, tx, row)
           \/ CheckOwnerKey(c)
           \/ ReadLegacyOwner(c)
           \/ SaveFails(c)
    PROVE  SubscriptionInv'
<1>1. UNCHANGED subscriptionKeys
  BY DEF StartSave, CheckOwnerKey, ReadLegacyOwner, SaveFails
<1>2. \A tx : Owner(tx)' = Owner(tx)
  BY <1>1 DEF Owner, Exists, subscriptionKeys
<1>3. \A d \in Clients : d # c => work'[d] = work[d]
  BY DEF StartSave, CheckOwnerKey, ReadLegacyOwner, SaveFails, SubscriptionInv, SubscriptionTypeOK
<1>4. /\ work' \in [Clients -> Job \cup {NoSave}]
      /\ SaveAt(c, "eval")' => KnowsOwner(c)'
  <2>1. ASSUME NEW tx \in Txs, NEW row \in Row, StartSave(c, tx, row)
        PROVE  work' \in [Clients -> Job \cup {NoSave}] /\ ~SaveAt(c, "eval")'
    BY <2>1 DEF StartSave, SaveAt, Job, SubscriptionInv, SubscriptionTypeOK
  <2>2. CASE CheckOwnerKey(c)
    <3>1. work[c] \in Job
      BY <2>2, BusyJob DEF CheckOwnerKey, SaveAt, SubscriptionInv
    <3>2. \/ work' = [work EXCEPT ![c].pc = "get"]
          \/ ownerKey[work[c].tx] # NoUser /\ work' = [work EXCEPT ![c].pc = "eval"]
      BY <2>2 DEF CheckOwnerKey
    <3>3. work' \in [Clients -> Job \cup {NoSave}] /\ work'[c].tx = work[c].tx
      BY <3>1, <3>2 DEF SubscriptionInv, SubscriptionTypeOK, Job
    <3>4. SaveAt(c, "eval")' => ownerKey[work[c].tx] # NoUser
      BY <3>1, <3>2 DEF SaveAt, SubscriptionInv, SubscriptionTypeOK, Job
    <3> QED
      BY <3>3, <3>4, <1>1 DEF subscriptionKeys, KnowsOwner
  <2>3. CASE ReadLegacyOwner(c)
    <3>1. work[c] \in Job /\ work[c].tx \in Txs
      BY <2>3, BusyJob DEF ReadLegacyOwner, SaveAt, SubscriptionInv, Job
    <3>2. Owner(work[c].tx) \in Users \cup {NoUser}
      BY <3>1, RowsAreRows DEF SubscriptionInv
    <3>3. work' = [work EXCEPT ![c] = [work[c] EXCEPT !.pc = "eval",
                                          !.legacyOwner = Owner(work[c].tx)]]
      BY <2>3, <3>1 DEF ReadLegacyOwner, LegacyOwner, SubscriptionInv, SubscriptionTypeOK, Job
    <3>4. /\ work' \in [Clients -> Job \cup {NoSave}]
          /\ work'[c].tx = work[c].tx
          /\ work'[c].legacyOwner = Owner(work[c].tx)
      BY <3>1, <3>2, <3>3 DEF SubscriptionInv, SubscriptionTypeOK, Job
    <3> QED
      BY <3>4, <1>1 DEF KnowsOwner, Owner, Exists, subscriptionKeys
  <2>4. CASE SaveFails(c)
    BY <2>4 DEF SaveFails, SaveAt, NoSave, SubscriptionInv, SubscriptionTypeOK
  <2> QED
    BY <2>1, <2>2, <2>3, <2>4
<1>5. SubscriptionTypeOK'
  BY <1>1, <1>4 DEF SubscriptionInv, SubscriptionTypeOK, subscriptionKeys
<1>6. JobsSound'
  <2> SUFFICES ASSUME NEW d \in Clients, SaveAt(d, "eval")'
               PROVE  KnowsOwner(d)'
    BY DEF JobsSound
  <2>1. CASE d = c
    BY <2>1, <1>4
  <2>2. CASE d # c
    BY <2>2, <1>1, <1>3 DEF SubscriptionInv, JobsSound, KnowsOwner, SaveAt, subscriptionKeys, Owner, Exists
  <2> QED
    BY <2>1, <2>2
<1> QED
  BY <1>1, <1>5, <1>6, KeysUntouched

LEMMA SubscriptionsStep == SubscriptionInv /\ [SubscriptionNext]_subscriptionVars => SubscriptionInv'
<1> SUFFICES ASSUME SubscriptionInv, [SubscriptionNext]_subscriptionVars PROVE SubscriptionInv'
  OBVIOUS
<1>1. ASSUME NEW c \in Clients, ClientNext(c) PROVE SubscriptionInv'
  BY <1>1, EvalKeeps, RoundTripKeeps DEF ClientNext
<1>2. CASE UNCHANGED subscriptionVars
  <2>1. UNCHANGED subscriptionKeys /\ SubscriptionTypeOK'
    BY <1>2 DEF subscriptionVars, subscriptionKeys, SubscriptionInv, SubscriptionTypeOK
  <2>2. JobsSound'
    BY <1>2 DEF subscriptionVars, SubscriptionInv, JobsSound, KnowsOwner, SaveAt, Owner, Exists
  <2> QED
    BY <2>1, <2>2, KeysUntouched
<1> QED
  BY <1>1, <1>2 DEF SubscriptionNext

LEMMA SubscriptionsInvariance == SubscriptionSpec => []SubscriptionInv
<1>1. SubscriptionInit => SubscriptionInv
  BY SubscriptionsInit
<1>2. SubscriptionInv /\ [SubscriptionNext]_subscriptionVars => SubscriptionInv'
  BY SubscriptionsStep
<1> QED
  BY <1>1, <1>2, PTL DEF SubscriptionSpec
-----------------------------------------------------------------------------
(* Every variable keeps its type. *)
THEOREM SubscriptionsTypeCorrect == SubscriptionSpec => []SubscriptionTypeOK
<1>0. SubscriptionSpec => []SubscriptionInv
  BY SubscriptionsInvariance
<1>1. SubscriptionInv => SubscriptionTypeOK
  BY DEF SubscriptionInv
<1> QED
  BY <1>1, <1>0, PTL

(* A transaction is in the set of the user its row names and of no other,
   through overlapping saves and rows of old versions: save() in
   stores/redis.ts never leaves a rebound subscription live on two accounts. *)
THEOREM IndexesFollowRows == SubscriptionSpec => []IndexAgreement
<1>0. SubscriptionSpec => []SubscriptionInv
  BY SubscriptionsInvariance
<1>1. SubscriptionInv => IndexAgreement
  BY DEF SubscriptionInv
<1> QED
  BY <1>1, <1>0, PTL

(* The side key the script compares is always the time of the row itself. *)
THEOREM SideKeyIsRowTime == SubscriptionSpec => []AsOfAgrees
<1>0. SubscriptionSpec => []SubscriptionInv
  BY SubscriptionsInvariance
<1>1. SubscriptionInv => AsOfAgrees
  BY DEF SubscriptionInv
<1> QED
  BY <1>1, <1>0, PTL
-----------------------------------------------------------------------------
(* The script compares as the table and the in-memory store do: with the row. *)
LEMMA ScriptGuard ==
    ASSUME SubscriptionInv, NEW c \in Clients, Eval(c)
    PROVE  LET tx == work[c].tx
               row == work[c].row
           IN  /\ tx \in Txs /\ row \in Row
               /\ ScriptRefuses(asOfKey[tx], row.asOf)
                    <=> subscription[tx] # NoRow /\ IsStaleSnapshot(subscription[tx].asOf, row.asOf)
<1> DEFINE tx == work[c].tx
           row == work[c].row
<1>1. work[c] \in Job /\ tx \in Txs /\ row \in Row /\ row.asOf \in Times
  BY BusyJob DEF SubscriptionInv, Eval, SaveAt, Job, Row
<1>2. asOfKey[tx] = AsOf(tx)
  BY <1>1 DEF SubscriptionInv, AsOfAgrees
<1>3. Exists(tx) => subscription[tx] \in Row
  BY <1>1, RowsAreRows DEF SubscriptionInv
<1>4. ScriptRefuses(asOfKey[tx], row.asOf)
        <=> subscription[tx] # NoRow /\ IsStaleSnapshot(subscription[tx].asOf, row.asOf)
  <2>1. CASE Exists(tx)
    <3>1. subscription[tx].asOf \in Nat /\ row.asOf \in Nat
      BY <1>1, <1>3, <2>1, TimesAssumption DEF Row
    <3>2. asOfKey[tx] = subscription[tx].asOf
      BY <1>2, <2>1 DEF AsOf
    <3> QED
      BY <2>1, <3>1, <3>2 DEF ScriptRefuses, IsStaleSnapshot, Exists, NoTime
  <2>2. CASE ~Exists(tx)
    BY <1>2, <2>2 DEF AsOf, ScriptRefuses, Exists
  <2> QED
    BY <2>1, <2>2
<1> QED
  BY <1>1, <1>4

(* A script run is an atomic, guarded upsert of the rows. *)
LEMMA EvalUpserts ==
    ASSUME SubscriptionInv, NEW c \in Clients, Eval(c)
    PROVE  Rows!Save(work[c].tx, work[c].row)
<1> DEFINE tx == work[c].tx
           row == work[c].row
<1>4. ScriptRefuses(asOfKey[tx], row.asOf)
        <=> subscription[tx] # NoRow /\ IsStaleSnapshot(subscription[tx].asOf, row.asOf)
  BY ScriptGuard
<1>5. IF ScriptRefuses(asOfKey[tx], row.asOf) THEN subscription' = subscription
      ELSE subscription' = [subscription EXCEPT ![tx] = row]
  BY DEF Eval, Script, subscriptionKeys
<1> QED
  BY <1>4, <1>5 DEF Rows!Save, Rows!Upserted, Rows!IsStaleSnapshot, IsStaleSnapshot, Rows!NoTime, NoTime

(* save() of the Redis store implements the promise of SubscriptionStore: the
   rows change by one atomic, guarded upsert per script, and by nothing else. *)
THEOREM RedisImplementsTable == SubscriptionSpec => ImplementsSubscriptionTable
<1>0. SubscriptionSpec => []SubscriptionInv
  BY SubscriptionsInvariance
<1>1. SubscriptionInit => Rows!Init
  BY DEF SubscriptionInit, Rows!Init, Rows!TypeOK, Rows!Row, Row
<1>2. SubscriptionInv /\ [SubscriptionNext]_subscriptionVars => [Rows!Next]_subscription
  <2> SUFFICES ASSUME SubscriptionInv, [SubscriptionNext]_subscriptionVars PROVE [Rows!Next]_subscription
    OBVIOUS
  <2>1. ASSUME NEW c \in Clients, Eval(c) PROVE Rows!Next
    <3>1. work[c] \in Job
      BY <2>1, BusyJob DEF SubscriptionInv, Eval, SaveAt
    <3>2. work[c].tx \in Txs /\ work[c].row \in Rows!Row
      BY <3>1 DEF Job, Row, Rows!Row
    <3> QED
      BY <2>1, <3>2, EvalUpserts DEF Rows!Next
  <2>2. ASSUME NEW c \in Clients, ClientNext(c), ~Eval(c) PROVE UNCHANGED subscription
    BY <2>2 DEF ClientNext, StartSave, CheckOwnerKey, ReadLegacyOwner, SaveFails, subscriptionKeys
  <2>3. CASE UNCHANGED subscriptionVars
    BY <2>3 DEF subscriptionVars
  <2> QED
    BY <2>1, <2>2, <2>3 DEF SubscriptionNext
<1> QED
  BY <1>0, <1>1, <1>2, PTL DEF SubscriptionSpec, ImplementsSubscriptionTable, Rows!Spec
-----------------------------------------------------------------------------
(* Beside the in-memory store.  A step of both is a step of the Redis store. *)
LEMMA BothSteps == BothNext => SubscriptionNext
BY DEF BothNext, SaveInBoth, RedisOnly, SubscriptionNext, ClientNext

(* The full listing of the Redis store goes over the global set, that of the
   in-memory store over the rows. *)
LEMMA FullListings ==
    ASSUME SubscriptionInv, subscription = byTransactionId
    PROVE  FullListing = Memory!FullListing
<1>1. subscriptions = {tx \in Txs : Exists(tx)}
  BY DEF SubscriptionInv, IndexAgreement
<1> QED
  BY <1>1 DEF FullListing, Memory!FullListing, Exists
-----------------------------------------------------------------------------
(* The orders of the in-memory store. *)

Entries == [tx : Txs, row : Row]

(* In the sequence w, a comes before b. *)
Before(w, a, b) == \E i, j \in 1..Len(w) : i < j /\ w[i] = a /\ w[j] = b

(* The list of a user, as ListedInOrder has it. *)
ListOf(list, w, table, user) ==
    /\ \A i \in 1..Len(list) : LET tx == list[i].tx IN
          table[tx] # NoRow /\ table[tx].user = user /\ list[i].row = table[tx]
    /\ \A tx \in Txs : table[tx] # NoRow /\ table[tx].user = user =>
          \E i \in 1..Len(list) : list[i].tx = tx
    /\ \A i, j \in 1..Len(list) : i < j => Before(w, list[i].tx, list[j].tx)

(* What has been written, each transaction once. *)
WrittenOnce(w, table) ==
    /\ w \in Seq(Txs)
    /\ \A tx \in Txs : table[tx] # NoRow <=> \E i \in 1..Len(w) : w[i] = tx
    /\ \A i, j \in 1..Len(w) : w[i] = w[j] => i = j

MemoryInv ==
    /\ subscription = byTransactionId
    /\ WrittenOnce(written, byTransactionId)
    /\ byUserId \in [Users -> Seq(Entries)]
    /\ \A user \in Users : ListOf(byUserId[user], written, byTransactionId, user)

(* A user's list is in order, as the store has it and as these proofs do. *)
LEMMA InOrderIsListOf ==
    ASSUME NEW user \in Users, byUserId[user] \in Seq(Entries)
    PROVE  Memory!ListedInOrder(user) <=> ListOf(byUserId[user], written, byTransactionId, user)
<1>1. PICK list : list = byUserId[user]
  OBVIOUS
<1>2. PICK owned : owned = {tx \in Txs : byTransactionId[tx] # NoRow /\ byTransactionId[tx].user = user}
  OBVIOUS
<1>3. PICK listed : listed = {list[i].tx : i \in 1..Len(list)}
  OBVIOUS
<1>4. \A i \in 1..Len(list) : list[i].tx \in Txs
  <2>1. \A i \in 1..Len(list) : list[i] \in Entries
    BY <1>1
  <2> QED
    BY <2>1 DEF Entries
<1>5. \A a, b : Memory!Newer(a, b) <=> Before(written, a, b)
  BY DEF Memory!Newer, Before
<1>6. listed = owned <=>
         /\ \A i \in 1..Len(list) : byTransactionId[list[i].tx] # NoRow
                                     /\ byTransactionId[list[i].tx].user = user
         /\ \A tx \in Txs : byTransactionId[tx] # NoRow /\ byTransactionId[tx].user = user =>
               \E i \in 1..Len(list) : list[i].tx = tx
  BY <1>2, <1>3, <1>4
<1>7. Memory!ListedInOrder(user) <=>
         /\ listed = owned
         /\ \A i \in 1..Len(list) : list[i].row = byTransactionId[list[i].tx]
         /\ \A i, j \in 1..Len(list) : i < j => Before(written, list[i].tx, list[j].tx)
  BY <1>1, <1>2, <1>3, <1>5 DEF Memory!ListedInOrder
<1> QED
  BY <1>1, <1>6, <1>7 DEF ListOf

(* The sequence rest is s without what is in M, in the same order. *)
KeepsOthers(s, rest, M) ==
    /\ \A k \in 1..Len(rest) : rest[k] \notin M /\ \E i \in 1..Len(s) : s[i] = rest[k]
    /\ \A k, l \in 1..Len(rest) : k < l => Before(s, rest[k], rest[l])
    /\ \A i \in 1..Len(s) : s[i] \notin M => \E k \in 1..Len(rest) : rest[k] = s[i]
    /\ \A i, j \in 1..Len(s) : i < j /\ s[i] \notin M /\ s[j] \notin M => Before(rest, s[i], s[j])

(* A set of numbers has a least one, as Min needs. *)
LEMMA LeastExists ==
    ASSUME NEW S \in SUBSET Nat, S # {}
    PROVE  \E i \in S : \A j \in S : i <= j
<1>1. PICK i \in S : \A j \in S : ~ (<<j, i>> \in OpToRel(<, Nat))
  BY WFMin, NatLessThanWellFounded
<1>2. \A j \in S : ~(j < i)
  BY <1>1 DEF OpToRel
<1> QED
  BY <1>2

(* A sequence without its i-th element has the others, one place earlier
   behind it. *)
LEMMA RemovedAt ==
    ASSUME NEW S, NEW s \in Seq(S), NEW i \in 1..Len(s)
    PROVE  /\ Memory!RemoveAt(s, i) \in Seq(S)
           /\ Len(Memory!RemoveAt(s, i)) = Len(s) - 1
           /\ \A k \in 1..Len(s)-1 : Memory!RemoveAt(s, i)[k] = IF k < i THEN s[k] ELSE s[k+1]
<1>1. PICK a : a = SubSeq(s, 1, i - 1)
  OBVIOUS
<1>2. PICK b : b = SubSeq(s, i + 1, Len(s))
  OBVIOUS
<1>3. a \in Seq(S) /\ Len(a) = i - 1 /\ \A k \in 1..i-1 : a[k] = s[k]
  BY <1>1
<1>4. b \in Seq(S) /\ Len(b) = Len(s) - i /\ \A k \in 1..Len(s)-i : b[k] = s[i + k]
  BY <1>2
<1>5. PICK t : t = a \o b
  OBVIOUS
<1>6. /\ t \in Seq(S) /\ Len(t) = Len(a) + Len(b)
      /\ \A k \in 1..Len(a) + Len(b) : t[k] = IF k <= Len(a) THEN a[k] ELSE b[k - Len(a)]
  BY <1>3, <1>4, <1>5, ConcatProperties
<1>7. Memory!RemoveAt(s, i) = t
  BY <1>1, <1>2, <1>5 DEF Memory!RemoveAt
<1>8. ASSUME NEW k \in 1..Len(s)-1
      PROVE  t[k] = IF k < i THEN s[k] ELSE s[k+1]
  <2>0. /\ k \in 1..Len(a) + Len(b) /\ i \in Nat /\ Len(s) \in Nat /\ k \in Nat
        /\ Len(a) = i - 1
    BY <1>3, <1>4
  <2>1. CASE k < i
    <3>1. k <= Len(a) /\ k \in 1..i-1
      BY <2>0, <2>1
    <3> QED
      BY <1>3, <1>6, <2>0, <2>1, <3>1
  <2>2. CASE k >= i
    <3>1. /\ ~(k <= Len(a)) /\ k - Len(a) \in 1..Len(s)-i
          /\ i + (k - Len(a)) = k + 1 /\ ~(k < i)
      BY <2>0, <2>2
    <3> QED
      BY <1>4, <1>6, <2>0, <3>1
  <2> QED
    BY <2>0, <2>1, <2>2
<1> QED
  BY <1>3, <1>4, <1>6, <1>7, <1>8

(* Without the one element in M, the others keep their order. *)
LEMMA RemovedKeepsOthers ==
    ASSUME NEW S, NEW s \in Seq(S), NEW M, NEW i \in 1..Len(s), s[i] \in M,
           \A k \in 1..Len(s) : k # i => s[k] \notin M
    PROVE  KeepsOthers(s, Memory!RemoveAt(s, i), M)
<1>1. PICK rest : rest = Memory!RemoveAt(s, i)
  OBVIOUS
<1>2. /\ rest \in Seq(S) /\ Len(rest) = Len(s) - 1
      /\ \A k \in 1..Len(s)-1 : rest[k] = IF k < i THEN s[k] ELSE s[k+1]
  BY <1>1, RemovedAt
<1>3. i \in Nat /\ Len(s) \in Nat /\ 1 <= i /\ i <= Len(s)
  OBVIOUS
<1>4. \A k \in 1..Len(rest) : \E j \in 1..Len(s) :
         j # i /\ rest[k] = s[j] /\ j = IF k < i THEN k ELSE k + 1
  <2> TAKE k \in 1..Len(rest)
  <2>1. CASE k < i
    BY <1>2, <1>3, <2>1
  <2>2. CASE ~(k < i)
    BY <1>2, <1>3, <2>2
  <2> QED
    BY <2>1, <2>2
<1>5. \A j \in 1..Len(s) : j # i => \E k \in 1..Len(rest) :
         rest[k] = s[j] /\ k = IF j < i THEN j ELSE j - 1
  <2> TAKE j \in 1..Len(s)
  <2>1. CASE j < i
    BY <1>2, <1>3, <2>1
  <2>2. CASE j > i
    <3>1. j - 1 \in 1..Len(s)-1 /\ ~(j - 1 < i) /\ (j - 1) + 1 = j /\ ~(j < i)
      BY <1>3, <2>2
    <3> QED
      BY <1>2, <3>1
  <2> QED
    BY <1>3, <2>1, <2>2
<1>6. \A k \in 1..Len(rest) : rest[k] \notin M /\ \E j \in 1..Len(s) : s[j] = rest[k]
  BY <1>4
<1>7. ASSUME NEW k \in 1..Len(rest), NEW l \in 1..Len(rest), k < l
      PROVE  Before(s, rest[k], rest[l])
  <2>1. PICK m \in 1..Len(s) : rest[k] = s[m] /\ m = IF k < i THEN k ELSE k + 1
    BY <1>4
  <2>2. PICK n \in 1..Len(s) : rest[l] = s[n] /\ n = IF l < i THEN l ELSE l + 1
    BY <1>4
  <2>3. m < n
    BY <1>3, <1>7, <2>1, <2>2
  <2> QED
    BY <2>1, <2>2, <2>3 DEF Before
<1>8. \A j \in 1..Len(s) : s[j] \notin M => \E k \in 1..Len(rest) : rest[k] = s[j]
  BY <1>5
<1>9. ASSUME NEW m \in 1..Len(s), NEW n \in 1..Len(s), m < n, s[m] \notin M, s[n] \notin M
      PROVE  Before(rest, s[m], s[n])
  <2>0. m # i /\ n # i
    BY <1>9
  <2>1. PICK k \in 1..Len(rest) : rest[k] = s[m] /\ k = IF m < i THEN m ELSE m - 1
    BY <1>5, <2>0
  <2>2. PICK l \in 1..Len(rest) : rest[l] = s[n] /\ l = IF n < i THEN n ELSE n - 1
    BY <1>5, <2>0
  <2>3. k < l
    BY <1>3, <1>9, <2>0, <2>1, <2>2
  <2> QED
    BY <2>1, <2>2, <2>3 DEF Before
<1> QED
  BY <1>1, <1>6, <1>7, <1>8, <1>9 DEF KeepsOthers

(* A sequence that has nothing of M is itself without M. *)
LEMMA NothingRemoved ==
    ASSUME NEW S, NEW s \in Seq(S), NEW M, \A i \in 1..Len(s) : s[i] \notin M
    PROVE  KeepsOthers(s, s, M)
BY DEF KeepsOthers, Before

(* Rows of one transaction. *)
About(tx) == {entry \in Entries : entry.tx = tx}

(* The filter of save() takes a transaction out of a list that has it at most
   once. *)
LEMMA WithoutKeepsOthers ==
    ASSUME NEW list \in Seq(Entries), NEW tx \in Txs,
           \A i, j \in 1..Len(list) : list[i].tx = list[j].tx => i = j
    PROVE  /\ Memory!Without(list, tx) \in Seq(Entries)
           /\ KeepsOthers(list, Memory!Without(list, tx), About(tx))
<1>0. \A i \in 1..Len(list) : list[i] \in About(tx) <=> list[i].tx = tx
  BY DEF About
<1>1. CASE \E i \in 1..Len(list) : list[i].tx = tx
  <2> DEFINE I == {i \in 1..Len(list) : list[i].tx = tx}
  <2>1. Memory!Without(list, tx) = Memory!RemoveAt(list, Memory!Min(I))
    BY <1>1 DEF Memory!Without, Memory!RemoveFirstMatch, Memory!SelectInSeq
  <2>2. I \in SUBSET Nat /\ I # {}
    BY <1>1
  <2>3. PICK i \in I : \A j \in I : i <= j
    BY <2>2, LeastExists
  <2>4. Memory!Min(I) \in I
    BY <2>3 DEF Memory!Min
  <2>5. PICK k : k = Memory!Min(I)
    OBVIOUS
  <2>6. k \in 1..Len(list) /\ list[k].tx = tx /\ Memory!Without(list, tx) = Memory!RemoveAt(list, k)
    BY <2>1, <2>4, <2>5
  <2> HIDE DEF I
  <2>7. list[k] \in About(tx) /\ \A j \in 1..Len(list) : j # k => list[j] \notin About(tx)
    BY <1>0, <2>6
  <2> QED
    BY <2>6, <2>7, RemovedAt, RemovedKeepsOthers
<1>2. CASE ~\E i \in 1..Len(list) : list[i].tx = tx
  <2>1. Memory!Without(list, tx) = list
    BY <1>2 DEF Memory!Without, Memory!RemoveFirstMatch
  <2> QED
    BY <1>0, <1>2, <2>1, NothingRemoved
<1> QED
  BY <1>1, <1>2

(* A new writeSeq takes a transaction out of the order of writes. *)
LEMMA RemoveFirstKeepsOthers ==
    ASSUME NEW w \in Seq(Txs), NEW tx \in Txs,
           \A i, j \in 1..Len(w) : w[i] = w[j] => i = j
    PROVE  /\ Memory!RemoveFirst(w, tx) \in Seq(Txs)
           /\ KeepsOthers(w, Memory!RemoveFirst(w, tx), {tx})
<1>1. CASE \E i \in 1..Len(w) : w[i] = tx
  <2> DEFINE I == {i \in 1..Len(w) : w[i] = tx}
  <2>1. Memory!RemoveFirst(w, tx) = Memory!RemoveAt(w, Memory!Min(I))
    BY <1>1 DEF Memory!RemoveFirst, Memory!SelectInSeq
  <2>2. I \in SUBSET Nat /\ I # {}
    BY <1>1
  <2>3. PICK i \in I : \A j \in I : i <= j
    BY <2>2, LeastExists
  <2>4. Memory!Min(I) \in I
    BY <2>3 DEF Memory!Min
  <2>5. PICK k : k = Memory!Min(I)
    OBVIOUS
  <2>6. k \in 1..Len(w) /\ w[k] = tx /\ Memory!RemoveFirst(w, tx) = Memory!RemoveAt(w, k)
    BY <2>1, <2>4, <2>5
  <2> HIDE DEF I
  <2>7. PICK M : M = {tx}
    OBVIOUS
  <2>8. w[k] \in M /\ \A j \in 1..Len(w) : j # k => w[j] \notin M
    BY <2>6, <2>7
  <2>9. Memory!RemoveAt(w, k) \in Seq(Txs) /\ KeepsOthers(w, Memory!RemoveAt(w, k), M)
    BY <2>6, <2>8, RemovedAt, RemovedKeepsOthers
  <2> QED
    BY <2>6, <2>7, <2>9
<1>2. CASE ~\E i \in 1..Len(w) : w[i] = tx
  <2>1. Memory!RemoveFirst(w, tx) = w
    BY <1>2 DEF Memory!RemoveFirst
  <2> QED
    BY <1>2, <2>1, NothingRemoved
<1> QED
  BY <1>1, <1>2

(* A save puts what it writes in front. *)
LEMMA PutInFront ==
    ASSUME NEW S, NEW e \in S, NEW rest \in Seq(S)
    PROVE  LET t == <<e>> \o rest
           IN  /\ t \in Seq(S) /\ Len(t) = Len(rest) + 1 /\ t[1] = e
               /\ \A k \in 1..Len(rest) : k + 1 \in 1..Len(t) /\ t[k + 1] = rest[k]
               /\ \A k \in 1..Len(t) : k = 1 \/ (k - 1 \in 1..Len(rest) /\ t[k] = rest[k - 1])
<1>1. PICK t : t = <<e>> \o rest
  OBVIOUS
<1>2. <<e>> \in Seq(S) /\ Len(<<e>>) = 1 /\ <<e>>[1] = e
  OBVIOUS
<1>3. /\ t \in Seq(S) /\ Len(t) = 1 + Len(rest)
      /\ \A k \in 1..1 + Len(rest) : t[k] = IF k <= 1 THEN <<e>>[k] ELSE rest[k - 1]
  BY <1>1, <1>2, ConcatProperties
<1>4. Len(rest) \in Nat
  OBVIOUS
<1>5. t[1] = e
  BY <1>2, <1>3, <1>4
<1>6. ASSUME NEW k \in 1..Len(rest)
      PROVE  k + 1 \in 1..Len(t) /\ t[k + 1] = rest[k]
  <2>1. k + 1 \in 1..1 + Len(rest) /\ ~(k + 1 <= 1) /\ (k + 1) - 1 = k
    BY <1>4
  <2> QED
    BY <1>3, <2>1
<1>7. ASSUME NEW k \in 1..Len(t)
      PROVE  k = 1 \/ (k - 1 \in 1..Len(rest) /\ t[k] = rest[k - 1])
  <2>1. CASE k > 1
    <3>1. k \in 1..1 + Len(rest) /\ ~(k <= 1) /\ k - 1 \in 1..Len(rest)
      BY <1>3, <1>4, <2>1
    <3> QED
      BY <1>3, <3>1
  <2> QED
    BY <1>3, <1>4, <2>1
<1> QED
  BY <1>1, <1>3, <1>4, <1>5, <1>6, <1>7

(* The order of writes after a save that is not refused: the transaction first,
   the others as they were. *)
LEMMA WrittenNext ==
    ASSUME NEW w, NEW table, WrittenOnce(w, table), NEW tx \in Txs, NEW row, row # NoRow,
           table \in [Txs -> Row \cup {NoRow}]
    PROVE  LET new == <<tx>> \o Memory!RemoveFirst(w, tx)
           IN  /\ WrittenOnce(new, [table EXCEPT ![tx] = row])
               /\ \A a, b \in Txs : a # tx /\ b # tx /\ Before(w, a, b) => Before(new, a, b)
               /\ \A a \in Txs : a # tx /\ table[a] # NoRow => Before(new, tx, a)
<1>1. PICK rest : rest = Memory!RemoveFirst(w, tx)
  OBVIOUS
<1>2. PICK new : new = <<tx>> \o rest
  OBVIOUS
<1>3. PICK M : M = {tx}
  OBVIOUS
<1>4. w \in Seq(Txs) /\ rest \in Seq(Txs) /\ KeepsOthers(w, rest, M)
  BY <1>1, <1>3, RemoveFirstKeepsOthers DEF WrittenOnce
<1>5. /\ new \in Seq(Txs) /\ Len(new) = Len(rest) + 1 /\ new[1] = tx
      /\ \A k \in 1..Len(rest) : k + 1 \in 1..Len(new) /\ new[k + 1] = rest[k]
      /\ \A k \in 1..Len(new) : k = 1 \/ (k - 1 \in 1..Len(rest) /\ new[k] = rest[k - 1])
  BY <1>2, <1>4, PutInFront
<1>6. Len(rest) \in Nat /\ 1 \in 1..Len(new)
  BY <1>4, <1>5
<1>7. \A k \in 1..Len(rest) : rest[k] \in Txs /\ rest[k] # tx
  BY <1>3, <1>4 DEF KeepsOthers
<1>8. ASSUME NEW k \in 1..Len(rest), NEW l \in 1..Len(rest), k < l
      PROVE  rest[k] # rest[l]
  <2>1. Before(w, rest[k], rest[l])
    BY <1>4, <1>8 DEF KeepsOthers
  <2>2. PICK i \in 1..Len(w), j \in 1..Len(w) : i < j /\ w[i] = rest[k] /\ w[j] = rest[l]
    BY <2>1 DEF Before
  <2> QED
    BY <2>2 DEF WrittenOnce
<1>9. ASSUME NEW a \in Txs
      PROVE  [table EXCEPT ![tx] = row][a] # NoRow <=> \E i \in 1..Len(new) : new[i] = a
  <2>1. CASE a = tx
    BY <1>5, <1>6, <2>1
  <2>2. CASE a # tx
    <3>1. table[a] # NoRow <=> \E i \in 1..Len(w) : w[i] = a
      BY DEF WrittenOnce
    <3>2. (\E i \in 1..Len(w) : w[i] = a) <=> \E k \in 1..Len(rest) : rest[k] = a
      BY <1>3, <1>4, <2>2 DEF KeepsOthers
    <3>3. (\E k \in 1..Len(rest) : rest[k] = a) <=> \E i \in 1..Len(new) : new[i] = a
      <4>1. ASSUME NEW k \in 1..Len(rest), rest[k] = a PROVE \E i \in 1..Len(new) : new[i] = a
        <5>1. k + 1 \in 1..Len(new) /\ new[k + 1] = a
          BY <1>5, <4>1
        <5> QED
          BY <5>1
      <4>2. ASSUME NEW i \in 1..Len(new), new[i] = a PROVE \E k \in 1..Len(rest) : rest[k] = a
        BY <1>5, <2>2, <4>2
      <4> QED
        BY <4>1, <4>2
    <3> QED
      BY <2>2, <3>1, <3>2, <3>3
  <2> QED
    BY <2>1, <2>2
<1>10. ASSUME NEW i \in 1..Len(new), NEW j \in 1..Len(new), i < j
       PROVE  new[i] # new[j]
  <2>1. j # 1 /\ j - 1 \in 1..Len(rest) /\ new[j] = rest[j - 1]
    BY <1>5, <1>6, <1>10
  <2>2. CASE i = 1
    BY <1>5, <1>7, <2>1, <2>2
  <2>3. CASE i # 1
    <3>1. i - 1 \in 1..Len(rest) /\ new[i] = rest[i - 1] /\ i - 1 < j - 1
      BY <1>5, <1>6, <1>10, <2>3
    <3> QED
      BY <1>8, <2>1, <3>1
  <2> QED
    BY <2>2, <2>3
<1>11. \A i, j \in 1..Len(new) : new[i] = new[j] => i = j
  <2> SUFFICES ASSUME NEW i \in 1..Len(new), NEW j \in 1..Len(new), i # j PROVE new[i] # new[j]
    OBVIOUS
  <2>1. i < j \/ j < i
    BY <1>6
  <2> QED
    BY <1>10, <2>1
<1>12. WrittenOnce(new, [table EXCEPT ![tx] = row])
  BY <1>5, <1>9, <1>11 DEF WrittenOnce
<1>13. ASSUME NEW a \in Txs, NEW b \in Txs, a # tx, b # tx, Before(w, a, b)
       PROVE  Before(new, a, b)
  <2>0. PICK i \in 1..Len(w), j \in 1..Len(w) : i < j /\ w[i] = a /\ w[j] = b
    BY <1>13 DEF Before
  <2>1. Before(rest, a, b)
    BY <1>3, <1>4, <1>13, <2>0 DEF KeepsOthers
  <2>2. PICK k \in 1..Len(rest), l \in 1..Len(rest) : k < l /\ rest[k] = a /\ rest[l] = b
    BY <2>1 DEF Before
  <2>3. k + 1 \in 1..Len(new) /\ l + 1 \in 1..Len(new) /\ k + 1 < l + 1
    BY <1>5, <1>6, <2>2
  <2> QED
    BY <1>5, <2>2, <2>3 DEF Before
<1>14. ASSUME NEW a \in Txs, a # tx, table[a] # NoRow
       PROVE  Before(new, tx, a)
  <2>1. PICK k \in 1..Len(rest) : rest[k] = a
    BY <1>3, <1>4, <1>14 DEF KeepsOthers, WrittenOnce
  <2>2. k + 1 \in 1..Len(new) /\ new[k + 1] = a /\ 1 < k + 1
    BY <1>5, <1>6, <2>1
  <2> QED
    BY <1>5, <1>6, <2>2 DEF Before
<1> QED
  BY <1>1, <1>2, <1>12, <1>13, <1>14

(* Who is not written to keeps his other rows, in order. *)
LEMMA OtherRowsKept ==
    ASSUME NEW list \in Seq(Entries), NEW rest \in Seq(Entries), NEW w, NEW table, NEW user,
           NEW tx \in Txs, ListOf(list, w, table, user), KeepsOthers(list, rest, About(tx))
    PROVE  /\ \A k \in 1..Len(rest) :
                 LET other == rest[k].tx
                 IN  /\ other \in Txs \ {tx} /\ table[other] # NoRow /\ table[other].user = user
                     /\ rest[k].row = table[other]
           /\ \A other \in Txs \ {tx} : table[other] # NoRow /\ table[other].user = user =>
                 \E k \in 1..Len(rest) : rest[k].tx = other
           /\ \A k, l \in 1..Len(rest) : k < l => Before(w, rest[k].tx, rest[l].tx)
<1>1. \A entry \in Entries : entry.tx \in Txs /\ (entry \in About(tx) <=> entry.tx = tx)
  BY DEF Entries, About
<1>2. \A k \in 1..Len(rest) : rest[k] \in Entries
  OBVIOUS
<1>3. \A i \in 1..Len(list) : list[i] \in Entries
  OBVIOUS
<1>4. ASSUME NEW k \in 1..Len(rest)
      PROVE  LET other == rest[k].tx
             IN  /\ other \in Txs \ {tx} /\ table[other] # NoRow /\ table[other].user = user
                 /\ rest[k].row = table[other]
  <2>1. PICK i \in 1..Len(list) : list[i] = rest[k]
    BY DEF KeepsOthers
  <2>2. rest[k] \notin About(tx)
    BY DEF KeepsOthers
  <2> QED
    BY <1>1, <1>2, <2>1, <2>2 DEF ListOf
<1>5. ASSUME NEW other \in Txs \ {tx}, table[other] # NoRow, table[other].user = user
      PROVE  \E k \in 1..Len(rest) : rest[k].tx = other
  <2>1. PICK i \in 1..Len(list) : list[i].tx = other
    BY <1>5 DEF ListOf
  <2>2. list[i] \notin About(tx)
    BY <1>1, <1>3, <2>1
  <2> QED
    BY <2>1, <2>2 DEF KeepsOthers
<1>6. ASSUME NEW k \in 1..Len(rest), NEW l \in 1..Len(rest), k < l
      PROVE  Before(w, rest[k].tx, rest[l].tx)
  <2>1. PICK i \in 1..Len(list), j \in 1..Len(list) : i < j /\ list[i] = rest[k] /\ list[j] = rest[l]
    BY <1>6 DEF KeepsOthers, Before
  <2>2. Before(w, list[i].tx, list[j].tx)
    BY <2>1 DEF ListOf
  <2> QED
    BY <2>1, <2>2
<1> QED
  BY <1>4, <1>5, <1>6

(* The list of a user after a save to another: without the transaction, if it
   was there. *)
LEMMA ListWithout ==
    ASSUME NEW list \in Seq(Entries), NEW rest \in Seq(Entries), NEW w, NEW new, NEW table,
           NEW user, NEW tx \in Txs, NEW row, table \in [Txs -> Row \cup {NoRow}],
           ListOf(list, w, table, user), KeepsOthers(list, rest, About(tx)), row.user # user,
           \A a, b \in Txs : a # tx /\ b # tx /\ Before(w, a, b) => Before(new, a, b)
    PROVE  ListOf(rest, new, [table EXCEPT ![tx] = row], user)
<1>1. PICK after : after = [table EXCEPT ![tx] = row]
  OBVIOUS
<1>2. after[tx] = row /\ \A other \in Txs \ {tx} : after[other] = table[other]
  BY <1>1
<1>3. /\ \A k \in 1..Len(rest) :
            LET other == rest[k].tx
            IN  /\ other \in Txs \ {tx} /\ table[other] # NoRow /\ table[other].user = user
                /\ rest[k].row = table[other]
      /\ \A other \in Txs \ {tx} : table[other] # NoRow /\ table[other].user = user =>
            \E k \in 1..Len(rest) : rest[k].tx = other
      /\ \A k, l \in 1..Len(rest) : k < l => Before(w, rest[k].tx, rest[l].tx)
  BY OtherRowsKept
<1>4. \A k, l \in 1..Len(rest) : k < l => Before(new, rest[k].tx, rest[l].tx)
  BY <1>3
<1>5. ListOf(rest, new, after, user)
  BY <1>2, <1>3, <1>4 DEF ListOf
<1> QED
  BY <1>1, <1>5

(* The list of the user a save is for: the row in front of his others. *)
LEMMA ListWith ==
    ASSUME NEW list \in Seq(Entries), NEW rest \in Seq(Entries), NEW w, NEW new, NEW table,
           NEW tx \in Txs, NEW row \in Row, table \in [Txs -> Row \cup {NoRow}], row # NoRow,
           ListOf(list, w, table, row.user), KeepsOthers(list, rest, About(tx)),
           \A a, b \in Txs : a # tx /\ b # tx /\ Before(w, a, b) => Before(new, a, b),
           \A a \in Txs : a # tx /\ table[a] # NoRow => Before(new, tx, a)
    PROVE  /\ <<Memory!Entry(tx, row)>> \o rest \in Seq(Entries)
           /\ ListOf(<<Memory!Entry(tx, row)>> \o rest, new, [table EXCEPT ![tx] = row], row.user)
<1>0. PICK user : user = row.user
  OBVIOUS
<1>1. PICK after : after = [table EXCEPT ![tx] = row]
  OBVIOUS
<1>2. after[tx] = row /\ \A other \in Txs \ {tx} : after[other] = table[other]
  BY <1>1
<1>3. /\ \A k \in 1..Len(rest) :
            LET other == rest[k].tx
            IN  /\ other \in Txs \ {tx} /\ table[other] # NoRow /\ table[other].user = user
                /\ rest[k].row = table[other]
      /\ \A other \in Txs \ {tx} : table[other] # NoRow /\ table[other].user = user =>
            \E k \in 1..Len(rest) : rest[k].tx = other
      /\ \A k, l \in 1..Len(rest) : k < l => Before(w, rest[k].tx, rest[l].tx)
  BY <1>0, OtherRowsKept
<1>4. PICK e : e = Memory!Entry(tx, row)
  OBVIOUS
<1>5. e \in Entries /\ e.tx = tx /\ e.row = row
  BY <1>4 DEF Entries, Memory!Entry
<1>6. PICK t : t = <<e>> \o rest
  OBVIOUS
<1>7. /\ t \in Seq(Entries) /\ Len(t) = Len(rest) + 1 /\ t[1] = e
      /\ \A k \in 1..Len(rest) : k + 1 \in 1..Len(t) /\ t[k + 1] = rest[k]
      /\ \A k \in 1..Len(t) : k = 1 \/ (k - 1 \in 1..Len(rest) /\ t[k] = rest[k - 1])
  BY <1>5, <1>6, PutInFront
<1>8. Len(rest) \in Nat /\ 1 \in 1..Len(t)
  BY <1>7
<1>9. ASSUME NEW i \in 1..Len(t)
      PROVE  LET other == t[i].tx
             IN  after[other] # NoRow /\ after[other].user = user /\ t[i].row = after[other]
  <2>1. CASE i = 1
    BY <1>0, <1>2, <1>5, <1>7, <2>1
  <2>2. CASE i - 1 \in 1..Len(rest) /\ t[i] = rest[i - 1]
    BY <1>2, <1>3, <2>2
  <2> QED
    BY <1>7, <2>1, <2>2
<1>10. ASSUME NEW other \in Txs, after[other] # NoRow, after[other].user = user
       PROVE  \E i \in 1..Len(t) : t[i].tx = other
  <2>1. CASE other = tx
    BY <1>5, <1>7, <1>8, <2>1
  <2>2. CASE other # tx
    <3>1. PICK k \in 1..Len(rest) : rest[k].tx = other
      BY <1>2, <1>3, <1>10, <2>2
    <3>2. k + 1 \in 1..Len(t) /\ t[k + 1] = rest[k]
      BY <1>7
    <3> QED
      BY <3>1, <3>2
  <2> QED
    BY <2>1, <2>2
<1>11. ASSUME NEW i \in 1..Len(t), NEW j \in 1..Len(t), i < j
       PROVE  Before(new, t[i].tx, t[j].tx)
  <2>1. j - 1 \in 1..Len(rest) /\ t[j] = rest[j - 1]
    BY <1>7, <1>8, <1>11
  <2>2. rest[j - 1].tx \in Txs \ {tx} /\ table[rest[j - 1].tx] # NoRow
    BY <1>3, <2>1
  <2>3. CASE i = 1
    BY <1>5, <1>7, <2>1, <2>2, <2>3
  <2>4. CASE i # 1
    <3>1. i - 1 \in 1..Len(rest) /\ t[i] = rest[i - 1] /\ i - 1 < j - 1
      BY <1>7, <1>8, <1>11, <2>4
    <3>2. Before(w, rest[i - 1].tx, rest[j - 1].tx) /\ rest[i - 1].tx \in Txs \ {tx}
      BY <1>3, <2>1, <3>1
    <3> QED
      BY <2>1, <2>2, <3>1, <3>2
  <2> QED
    BY <2>3, <2>4
<1>12. ListOf(t, new, after, user)
  BY <1>9, <1>10, <1>11 DEF ListOf
<1> QED
  BY <1>0, <1>1, <1>4, <1>6, <1>7, <1>12

(* The in-memory store is given each save when Redis runs its script. *)
LEMMA SaveInBothKeeps ==
    ASSUME SubscriptionInv, MemoryInv, NEW c \in Clients, SaveInBoth(c)
    PROVE  MemoryInv'
<1> DEFINE tx == work[c].tx
           row == work[c].row
           table == byTransactionId
<1>1. /\ tx \in Txs /\ row \in Row
      /\ ScriptRefuses(asOfKey[tx], row.asOf) <=> Memory!Refuses(table[tx], row.asOf)
  BY ScriptGuard DEF SaveInBoth, MemoryInv, Memory!Refuses, Memory!IsStaleSnapshot,
     IsStaleSnapshot, Memory!NoTime, NoTime
<1>2. table \in [Txs -> Row \cup {NoRow}] /\ row # NoRow
  BY <1>1, NoRowAssumption DEF SubscriptionInv, SubscriptionTypeOK, MemoryInv, Row
<1>3. CASE Memory!Refuses(table[tx], row.asOf)
  <2>1. UNCHANGED <<subscription, byTransactionId, byUserId, written>>
    BY <1>1, <1>3 DEF SaveInBoth, Eval, Script, subscriptionKeys, Memory!Save, Memory!vars
  <2> QED
    BY <2>1 DEF MemoryInv
<1>4. CASE ~Memory!Refuses(table[tx], row.asOf)
  <2>1. /\ subscription' = [subscription EXCEPT ![tx] = row]
        /\ table' = [table EXCEPT ![tx] = row]
        /\ byUserId' = Memory!Relisted(byUserId, tx, row)
        /\ written' = <<tx>> \o Memory!RemoveFirst(written, tx)
    BY <1>1, <1>4 DEF SaveInBoth, Eval, Script, subscriptionKeys, Memory!Save
  <2>2. /\ WrittenOnce(written', table')
        /\ \A a, b \in Txs : a # tx /\ b # tx /\ Before(written, a, b) => Before(written', a, b)
        /\ \A a \in Txs : a # tx /\ table[a] # NoRow => Before(written', tx, a)
    BY <1>1, <1>2, <2>1, WrittenNext DEF MemoryInv
  <2> HIDE DEF tx, row
  <2>3. ASSUME NEW user \in Users
        PROVE  byUserId'[user] \in Seq(Entries) /\ ListOf(byUserId'[user], written', table', user)
    <3> DEFINE list == byUserId[user]
               rest == Memory!Without(list, tx)
    <3>1. list \in Seq(Entries) /\ ListOf(list, written, table, user)
      BY DEF MemoryInv
    <3>2. ASSUME NEW i \in 1..Len(list), NEW j \in 1..Len(list), i < j
          PROVE  list[i].tx # list[j].tx
      <4>1. Before(written, list[i].tx, list[j].tx)
        BY <3>1, <3>2 DEF ListOf
      <4> QED
        BY <4>1 DEF Before, MemoryInv, WrittenOnce
    <3>3. \A i, j \in 1..Len(list) : list[i].tx = list[j].tx => i = j
      <4> SUFFICES ASSUME NEW i \in 1..Len(list), NEW j \in 1..Len(list), i # j
                   PROVE  list[i].tx # list[j].tx
        OBVIOUS
      <4>1. i < j \/ j < i
        OBVIOUS
      <4> QED
        BY <3>2, <4>1
    <3>4. rest \in Seq(Entries) /\ KeepsOthers(list, rest, About(tx))
      BY <1>1, <3>1, <3>3, WithoutKeepsOthers
    <3>5. /\ user = row.user => byUserId'[user] = <<Memory!Entry(tx, row)>> \o rest
          /\ user # row.user /\ table[tx] # NoRow /\ table[tx].user = user => byUserId'[user] = rest
          /\ user # row.user /\ ~(table[tx] # NoRow /\ table[tx].user = user) => byUserId'[user] = list
      BY <2>1 DEF Memory!Relisted
    <3> HIDE DEF list, rest
    <3>6. CASE user = row.user
      <4>1. ListOf(list, written, table, row.user)
        BY <3>1, <3>6
      <4>2. /\ <<Memory!Entry(tx, row)>> \o rest \in Seq(Entries)
            /\ ListOf(<<Memory!Entry(tx, row)>> \o rest, written', [table EXCEPT ![tx] = row], row.user)
        BY <1>1, <1>2, <2>2, <3>1, <3>4, <4>1, ListWith
      <4> QED
        BY <2>1, <3>5, <3>6, <4>2
    <3>7. ASSUME NEW now \in Seq(Entries), KeepsOthers(list, now, About(tx)), user # row.user,
                 byUserId'[user] = now
          PROVE  byUserId'[user] \in Seq(Entries) /\ ListOf(byUserId'[user], written', table', user)
      <4>1. ListOf(now, written', [table EXCEPT ![tx] = row], user)
        BY <1>1, <1>2, <2>2, <3>1, <3>7, ListWithout
      <4> QED
        BY <2>1, <3>7, <4>1
    <3>8. ASSUME ~(table[tx] # NoRow /\ table[tx].user = user)
          PROVE  KeepsOthers(list, list, About(tx))
      <4>1. \A i \in 1..Len(list) : list[i].tx # tx
        BY <3>1, <3>8 DEF ListOf
      <4>2. \A i \in 1..Len(list) : list[i] \notin About(tx)
        BY <4>1 DEF About
      <4> QED
        BY <3>1, <4>2, NothingRemoved
    <3> QED
      BY <3>1, <3>4, <3>5, <3>6, <3>7, <3>8
  <2>4. byUserId' \in [Users -> Seq(Entries)]
    <3>1. DOMAIN byUserId' = Users /\ byUserId' = [user \in Users |-> byUserId'[user]]
      BY <2>1 DEF Memory!Relisted
    <3> QED
      BY <2>3, <3>1
  <2>5. subscription' = table'
    BY <2>1 DEF MemoryInv
  <2> QED
    BY <2>2, <2>3, <2>4, <2>5 DEF MemoryInv
<1> QED
  BY <1>3, <1>4

(* The stores open in step. *)
LEMMA MemoryOpens ==
    ASSUME BothInit
    PROVE  MemoryInv
<1>1. SubscriptionTypeOK /\ subscription = byTransactionId
  BY SubscriptionsInit DEF BothInit, SubscriptionInv
<1>2. ASSUME NEW S PROVE Seqs!Cardinality(S) = Cardinality(S)
  BY DEF Seqs!Cardinality, Cardinality
<1>3. ASSUME NEW S, NEW s \in Seqs!SetToSeqs(S), IsFiniteSet(S)
      PROVE  /\ s \in Seq(S)
             /\ \A x \in S : \E i \in 1..Len(s) : s[i] = x
             /\ \A i, j \in 1..Len(s) : s[i] = s[j] => i = j
  <2>1. PICK n \in Nat : n = Cardinality(S)
    BY <1>3, FS_CardinalityType
  <2>2. /\ s \in [1..n -> S]
        /\ \A i, j \in 1..n : s[i] = s[j] => i = j
    BY <1>2, <1>3, <2>1 DEF Seqs!SetToSeqs
  <2>3. s \in Seq(S) /\ Len(s) = n
    BY <2>2
  <2>4. s \in Injection(1..n, S)
    BY <2>2 DEF Injection, IsInjective
  <2>5. IsFiniteSet(1..n) /\ Cardinality(1..n) = n
    BY FS_Interval
  <2>6. s \in Surjection(1..n, S)
    BY <1>3, <2>1, <2>4, <2>5, FS_Injection
  <2> QED
    BY <2>2, <2>3, <2>6 DEF Surjection
<1>4. WrittenOnce(written, byTransactionId)
  <2>1. PICK S : S = {tx \in Txs : Exists(tx)}
    OBVIOUS
  <2>2. IsFiniteSet(S) /\ written \in Seqs!SetToSeqs(S)
    BY <2>1, TxsAssumption, FS_Subset DEF BothInit
  <2>3. /\ written \in Seq(S)
        /\ \A x \in S : \E i \in 1..Len(written) : written[i] = x
        /\ \A i, j \in 1..Len(written) : written[i] = written[j] => i = j
    BY <1>3, <2>2
  <2>4. written \in Seq(Txs) /\ \A i \in 1..Len(written) : written[i] \in S
    BY <2>1, <2>3
  <2>5. \A tx \in Txs : tx \in S <=> byTransactionId[tx] # NoRow
    BY <1>1, <2>1 DEF Exists
  <2> QED
    BY <2>3, <2>4, <2>5 DEF WrittenOnce
<1>5. ASSUME NEW list \in Lists PROVE list \in Seq(Entries)
  <2>1. PICK listed \in SUBSET {tx \in Txs : Exists(tx)} :
           list \in Seqs!SetToSeqs({Memory!Entry(tx, byTransactionId[tx]) : tx \in listed})
    BY DEF Lists
  <2>2. PICK S : S = {Memory!Entry(tx, byTransactionId[tx]) : tx \in listed}
    OBVIOUS
  <2>3. S \subseteq Entries
    BY <1>1, <2>1, <2>2 DEF Entries, Memory!Entry, SubscriptionTypeOK, Exists
  <2>4. IsFiniteSet(S)
    <3>1. PICK f : f = [tx \in listed |-> Memory!Entry(tx, byTransactionId[tx])]
      OBVIOUS
    <3>2. f \in Surjection(listed, S)
      BY <2>2, <3>1 DEF Surjection
    <3>3. IsFiniteSet(listed)
      <4>1. listed \in SUBSET Txs
        BY <2>1
      <4> QED
        BY <4>1, TxsAssumption, FS_Subset
    <3> QED
      BY <3>2, <3>3, FS_Surjection
  <2>5. list \in Seq(S)
    BY <1>3, <2>1, <2>2, <2>4
  <2> QED
    BY <2>3, <2>5
<1>6. byUserId \in [Users -> Seq(Entries)]
  BY <1>5 DEF BothInit
<1>7. ASSUME NEW user \in Users
      PROVE  ListOf(byUserId[user], written, byTransactionId, user)
  BY <1>6, InOrderIsListOf DEF BothInit
<1> QED
  BY <1>1, <1>4, <1>6, <1>7 DEF MemoryInv

(* Rows and lists stay in step with Redis, save by save. *)
LEMMA BothInvariance == BothSpec => [](SubscriptionInv /\ MemoryInv)
<1> DEFINE Both == SubscriptionInv /\ MemoryInv
<1>1. BothInit => Both
  BY SubscriptionsInit, MemoryOpens DEF BothInit
<1>2. Both /\ [BothNext]_bothVars => Both'
  <2> SUFFICES ASSUME Both, [BothNext]_bothVars PROVE Both'
    OBVIOUS
  <2>1. SubscriptionInv'
    BY BothSteps, SubscriptionsStep DEF bothVars
  <2>2. ASSUME NEW c \in Clients, RedisOnly(c)
        PROVE  UNCHANGED <<subscription, byTransactionId, byUserId, written>>
    BY <2>2 DEF RedisOnly, StartSave, CheckOwnerKey, ReadLegacyOwner, SaveFails, subscriptionKeys
  <2>3. ASSUME UNCHANGED bothVars
        PROVE  UNCHANGED <<subscription, byTransactionId, byUserId, written>>
    BY <2>3 DEF bothVars, subscriptionVars
  <2>4. ASSUME UNCHANGED <<subscription, byTransactionId, byUserId, written>>
        PROVE  MemoryInv'
    BY <2>4 DEF MemoryInv
  <2>5. MemoryInv'
    BY <2>2, <2>3, <2>4, SaveInBothKeeps DEF BothNext
  <2> QED
    BY <2>1, <2>5
<1> QED
  BY <1>1, <1>2, PTL DEF BothSpec

(* Given the same saves, the Redis store and the in-memory store answer every
   read with the same rows (stores/redis.ts, store.ts: the rows, getAllByUserId
   and listAll), though one guards by a side key and keeps sets of ids, and the
   other guards by the row and keeps copies of it in lists. *)
THEOREM StoresAnswerAlike == BothSpec => []SameAnswers
<1>0. BothSpec => [](SubscriptionInv /\ MemoryInv)
  BY BothInvariance
<1>1. SubscriptionInv /\ MemoryInv => SameAnswers
  <2> SUFFICES ASSUME SubscriptionInv, MemoryInv PROVE SameAnswers
    OBVIOUS
  <2>1. SameRows
    BY FullListings DEF SameRows, MemoryInv
  <2>2. ASSUME NEW user \in Users
        PROVE  UserListing(user) = Memory!UserListing(user)
    <3>1. userSet[user] = {tx \in Txs : Exists(tx) /\ subscription[tx].user = user}
      BY NoUserAssumption DEF SubscriptionInv, IndexAgreement, SubscriptionsOf, Owner
    <3>2. ListOf(byUserId[user], written, subscription, user) /\ byUserId[user] \in Seq(Entries)
      BY DEF MemoryInv
    <3>3. ASSUME NEW tx \in userSet[user], Exists(tx)
          PROVE  \E i \in 1..Len(byUserId[user]) : byUserId[user][i].row = subscription[tx]
      BY <3>1, <3>2, <3>3 DEF ListOf, Exists
    <3>4. ASSUME NEW i \in 1..Len(byUserId[user])
          PROVE  \E tx \in userSet[user] : Exists(tx) /\ byUserId[user][i].row = subscription[tx]
      <4>1. byUserId[user][i] \in Entries
        BY <3>2
      <4>2. byUserId[user][i].tx \in Txs
        BY <4>1 DEF Entries
      <4> QED
        BY <3>1, <3>2, <4>2 DEF ListOf, Exists
    <3> QED
      BY <3>3, <3>4 DEF UserListing, Memory!UserListing
  <2> QED
    BY <2>1, <2>2 DEF SameAnswers
<1> QED
  BY <1>0, <1>1, PTL

(* getByUserId of the in-memory store answers the user's first row in
   listFiltered: each list has its user's rows, each once and as they are, in the
   order of writing (store.ts: save and listFiltered keep two orders). *)
THEOREM ListsNewestFirst == BothSpec => []ListsInOrder
<1>0. BothSpec => [](SubscriptionInv /\ MemoryInv)
  BY BothInvariance
<1>1. MemoryInv => ListsInOrder
  BY InOrderIsListOf DEF MemoryInv, ListsInOrder
<1> QED
  BY <1>0, <1>1, PTL
=============================================================================
