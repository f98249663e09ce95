------------------------- MODULE PurchaseRouteProofs -------------------------
(***************************************************************************)
(* Theorems about PurchaseRoute, for every set of requests, users and      *)
(* transactions, and over either store.                                    *)
(*                                                                         *)
(* IInv is the inductive invariant:                                        *)
(*   TypeOK    the types                                                   *)
(*   Lists     in memory, each user's list is his rows, newest first       *)
(*   InOrder   who is in line waits only for others in the same line, who  *)
(*             do not wait for him                                         *)
(*   Serial    where nobody overtook, the line is total, and whoever is    *)
(*             past the lock waits for nobody: there is one of these       *)
(*   Ledger    what requests know of the row they looked at; what has been *)
(*             granted or is consumed has a row; what was refunded and can *)
(*             still come back is excused                                  *)
(*   OneCopy   no user has two copies of a non-consumable                  *)
(***************************************************************************)
EXTENDS PurchaseRoute, SequenceTheorems, WellFoundedInduction, TLAPS

(* A request between its post and its answer. *)
Active == [pc : Holding \cup {"owned", "receipt"}, tx : Txs, user : Users, spent : BOOLEAN,
           gone : BOOLEAN]

Answered == [pc : {"answered"}, answer : Answers]

(* A request between its post and its answer has all its fields. *)
LEMMA RunningIsActive ==
    ASSUME TypeOK, NEW r \in Requests, Running(r)
    PROVE  request[r] \in Active
<1>1. request[r] \in {Idle} \cup Active \cup Answered
  BY DEF TypeOK, Active, Answered
<1> QED
  BY <1>1 DEF Running, Idle, Answered

(* A set of numbers has a least one: what Min and the first older purchase need. *)
LEMMA LeastExists ==
    ASSUME NEW S \in SUBSET Nat, S # {}
    PROVE  \E i \in S : \A j \in S : i <= j
<1>1. PICK i \in S : \A j \in S : ~ (<<j, i>> \in OpToRel(<, Nat))
  BY WFMin, NatLessThanWellFounded
<1>2. \A j \in S : ~(j < i)
  BY <1>1 DEF OpToRel
<1> QED
  BY <1>2

(* Without its i-th element, a sequence keeps the others in order. *)
LEMMA RemovedAt ==
    ASSUME NEW S, NEW s \in Seq(S), NEW i \in 1..Len(s)
    PROVE  /\ Memory!RemoveAt(s, i) \in Seq(S)
           /\ Len(Memory!RemoveAt(s, i)) = Len(s) - 1
           /\ \A k \in 1..Len(s)-1 : Memory!RemoveAt(s, i)[k] = IF k < i THEN s[k] ELSE s[k+1]
<1>1. PICK a : a = SubSeq(s, 1, i - 1)
  OBVIOUS
<1>2. PICK b : b = SubSeq(s, i + 1, Len(s))
  OBVIOUS
<1>3. a \in Seq(S) /\ Len(a) = i - 1 /\ \A k \in 1..i-1 : a[k] = s[k]
  BY <1>1
<1>4. b \in Seq(S) /\ Len(b) = Len(s) - i /\ \A k \in 1..Len(s)-i : b[k] = s[i + k]
  BY <1>2
<1>5. PICK t : t = a \o b
  OBVIOUS
<1>6. /\ t \in Seq(S) /\ Len(t) = Len(a) + Len(b)
      /\ \A k \in 1..Len(a) + Len(b) : t[k] = IF k <= Len(a) THEN a[k] ELSE b[k - Len(a)]
  BY <1>3, <1>4, <1>5, ConcatProperties
<1>7. Memory!RemoveAt(s, i) = t
  BY <1>1, <1>2, <1>5 DEF Memory!RemoveAt
<1>8. ASSUME NEW k \in 1..Len(s)-1
      PROVE  t[k] = IF k < i THEN s[k] ELSE s[k+1]
  <2>0. /\ k \in 1..Len(a) + Len(b) /\ i \in Nat /\ Len(s) \in Nat /\ k \in Nat
        /\ Len(a) = i - 1
    BY <1>3, <1>4
  <2>1. CASE k < i
    <3>1. k <= Len(a) /\ k \in 1..i-1
      BY <2>0, <2>1
    <3>2. t[k] = a[k]
      BY <1>6, <2>0, <3>1
    <3> QED
      BY <1>3, <2>1, <3>1, <3>2
  <2>2. CASE k >= i
    <3>1. ~(k <= Len(a)) /\ k - Len(a) \in 1..Len(s)-i
      BY <2>0, <2>2
    <3>2. t[k] = b[k - Len(a)]
      BY <1>6, <2>0, <3>1
    <3>3. i + (k - Len(a)) = k + 1
      BY <2>0
    <3>4. b[k - Len(a)] = s[k + 1]
      BY <1>4, <3>1, <3>3
    <3>5. ~(k < i)
      BY <2>0, <2>2
    <3> QED
      BY <3>2, <3>4, <3>5
  <2> QED
    BY <2>1, <2>2
<1> QED
  BY <1>3, <1>4, <1>6, <1>7, <1>8

(* With one element more before the i-th, a sequence keeps the others in order. *)
LEMMA InsertedAt ==
    ASSUME NEW S, NEW s \in Seq(S), NEW i \in 1..Len(s), NEW e \in S
    PROVE  /\ Memory!InsertAt(s, i, e) \in Seq(S)
           /\ Len(Memory!InsertAt(s, i, e)) = Len(s) + 1
           /\ \A k \in 1..Len(s)+1 :
                  Memory!InsertAt(s, i, e)[k] = IF k < i THEN s[k] ELSE IF k = i THEN e ELSE s[k-1]
BY DEF Memory!InsertAt

(* list.filter takes away one place where the transaction is. *)
LEMMA RemovesOne ==
    ASSUME NEW S, NEW s \in Seq(S), NEW x, \E i \in 1..Len(s) : s[i] = x
    PROVE  \E i \in 1..Len(s) : s[i] = x /\ Memory!Without(s, x) = Memory!RemoveAt(s, i)
<1> DEFINE I == {i \in 1..Len(s) : s[i] = x}
<1>1. Memory!Without(s, x) = Memory!RemoveAt(s, Memory!Min(I))
  BY DEF Memory!Without, Memory!RemoveFirst, Memory!SelectInSeq
<1>2. I \in SUBSET Nat /\ I # {}
  OBVIOUS
<1>3. PICK i \in I : \A j \in I : i <= j
  BY <1>2, LeastExists
<1>4. Memory!Min(I) \in I
  BY <1>3 DEF Memory!Min
<1> QED
  BY <1>1, <1>4

(* What is left of a list is a list. *)
LEMMA WithoutType ==
    ASSUME NEW S, NEW s \in Seq(S), NEW x
    PROVE  Memory!Without(s, x) \in Seq(S)
<1>1. CASE \E i \in 1..Len(s) : s[i] = x
  <2>1. PICK i \in 1..Len(s) : Memory!Without(s, x) = Memory!RemoveAt(s, i)
    BY <1>1, RemovesOne
  <2> QED
    BY <2>1, RemovedAt
<1>2. CASE ~\E i \in 1..Len(s) : s[i] = x
  BY <1>2 DEF Memory!Without, Memory!RemoveFirst
<1> QED
  BY <1>1, <1>2

(* Where a purchase is inserted: at the end, or before a first older one. *)
LEMMA InsertsBefore ==
    ASSUME NEW list \in Seq(Txs), NEW tx \in Txs
    PROVE  \/ /\ \A i \in 1..Len(list) : PurchasedAt[list[i]] >= PurchasedAt[tx]
              /\ Memory!InsertByPurchasedAt(list, tx) = Append(list, tx)
           \/ \E i \in 1..Len(list) :
                  /\ PurchasedAt[list[i]] < PurchasedAt[tx]
                  /\ \A j \in 1..i-1 : PurchasedAt[list[j]] >= PurchasedAt[tx]
                  /\ Memory!InsertByPurchasedAt(list, tx) = Memory!InsertAt(list, i, tx)
<1> DEFINE older == {i \in 1..Len(list) : PurchasedAt[list[i]] < PurchasedAt[tx]}
<1>0. \A i \in 1..Len(list) : PurchasedAt[list[i]] \in Nat
  BY PurchasedAtAssumption
<1>1. PurchasedAt[tx] \in Nat
  BY PurchasedAtAssumption
<1>2. CASE older = {}
  BY <1>0, <1>1, <1>2 DEF Memory!InsertByPurchasedAt
<1>3. CASE older # {}
  <2> DEFINE i == CHOOSE i \in older : \A j \in older : i <= j
  <2>1. Memory!InsertByPurchasedAt(list, tx) = Memory!InsertAt(list, i, tx)
    BY <1>3 DEF Memory!InsertByPurchasedAt
  <2>2. older \in SUBSET Nat
    OBVIOUS
  <2>3. \E k \in older : \A j \in older : k <= j
    BY <1>3, <2>2, LeastExists
  <2>4. i \in older /\ \A j \in older : i <= j
    BY <2>3
  <2> HIDE DEF i
  <2>5. \A j \in 1..i-1 : j \in 1..Len(list) /\ j \notin older
    BY <2>4
  <2> QED
    BY <1>0, <1>1, <2>1, <2>4, <2>5
<1> QED
  BY <1>2, <1>3

(* A list with a purchase more is a list. *)
LEMMA InsertType ==
    ASSUME NEW list \in Seq(Txs), NEW tx \in Txs
    PROVE  Memory!InsertByPurchasedAt(list, tx) \in Seq(Txs)
<1>1. ASSUME NEW i \in 1..Len(list) PROVE Memory!InsertAt(list, i, tx) \in Seq(Txs)
  BY InsertedAt
<1>2. Append(list, tx) \in Seq(Txs)
  OBVIOUS
<1> QED
  BY <1>1, <1>2, InsertsBefore

(* The list of one user, as ListsAgree has it. *)
Newest(list) ==
    \A i, j \in 1..Len(list) :
        i < j => list[i] # list[j] /\ PurchasedAt[list[i]] >= PurchasedAt[list[j]]

(* Taking a transaction away keeps a list newest first, and takes no other. *)
LEMMA WithoutNewest ==
    ASSUME NEW list \in Seq(Txs), NEW tx \in Txs, Newest(list)
    PROVE  /\ Newest(Memory!Without(list, tx))
           /\ Memory!ToSet(Memory!Without(list, tx)) = Memory!ToSet(list) \ {tx}
<1> DEFINE rest == Memory!Without(list, tx)
<1>1. CASE \E i \in 1..Len(list) : list[i] = tx
  <2>1. PICK i \in 1..Len(list) : list[i] = tx /\ rest = Memory!RemoveAt(list, i)
    BY <1>1, RemovesOne
  <2>2. /\ rest \in Seq(Txs) /\ Len(rest) = Len(list) - 1
        /\ \A k \in 1..Len(rest) : rest[k] = IF k < i THEN list[k] ELSE list[k+1]
    BY <2>1, RemovedAt
  <2> HIDE DEF rest
  <2>3. Newest(rest)
    BY <2>2 DEF Newest
  <2>4. \A k \in 1..Len(list) : k # i => list[k] # tx
    BY <2>1 DEF Newest
  <2>5. Memory!ToSet(rest) \subseteq Memory!ToSet(list) \ {tx}
    BY <2>1, <2>2, <2>4 DEF Memory!ToSet
  <2>6. ASSUME NEW k \in 1..Len(list), list[k] # tx
        PROVE  list[k] \in Memory!ToSet(rest)
    <3>1. CASE k < i
      BY <2>2, <3>1 DEF Memory!ToSet
    <3>2. CASE k > i
      <4>1. k - 1 \in 1..Len(rest) /\ rest[k-1] = list[k]
        BY <2>2, <3>2
      <4> QED
        BY <2>2, <4>1 DEF Memory!ToSet
    <3> QED
      BY <2>1, <2>6, <3>1, <3>2
  <2> QED
    <3>1. Memory!ToSet(list) \ {tx} \subseteq Memory!ToSet(rest)
      BY <2>6 DEF Memory!ToSet
    <3> QED
      BY <2>3, <2>5, <3>1 DEF rest
<1>2. CASE ~\E i \in 1..Len(list) : list[i] = tx
  BY <1>2 DEF Memory!Without, Memory!RemoveFirst, Memory!ToSet
<1> QED
  BY <1>1, <1>2

(* insertByPurchasedAt keeps a list newest first, and adds the one transaction. *)
LEMMA InsertNewest ==
    ASSUME NEW list \in Seq(Txs), NEW tx \in Txs, Newest(list), tx \notin Memory!ToSet(list)
    PROVE  /\ Newest(Memory!InsertByPurchasedAt(list, tx))
           /\ Memory!ToSet(Memory!InsertByPurchasedAt(list, tx)) = Memory!ToSet(list) \cup {tx}
<1> DEFINE more == Memory!InsertByPurchasedAt(list, tx)
<1>0. /\ \A i \in 1..Len(list) : list[i] \in Txs /\ list[i] # tx /\ PurchasedAt[list[i]] \in Nat
      /\ PurchasedAt[tx] \in Nat
  BY PurchasedAtAssumption DEF Memory!ToSet
<1>1. CASE /\ \A i \in 1..Len(list) : PurchasedAt[list[i]] >= PurchasedAt[tx]
           /\ more = Append(list, tx)
  <2>1. /\ more \in Seq(Txs) /\ Len(more) = Len(list) + 1
        /\ \A k \in 1..Len(list) + 1 : more[k] = IF k <= Len(list) THEN list[k] ELSE tx
    BY <1>1
  <2> HIDE DEF more
  <2>2. Newest(more)
    BY <1>0, <1>1, <2>1 DEF Newest
  <2>3. Memory!ToSet(more) = Memory!ToSet(list) \cup {tx}
    BY <2>1 DEF Memory!ToSet
  <2> QED
    BY <2>2, <2>3 DEF more
<1>2. ASSUME NEW i \in 1..Len(list), PurchasedAt[list[i]] < PurchasedAt[tx],
             \A j \in 1..i-1 : PurchasedAt[list[j]] >= PurchasedAt[tx],
             more = Memory!InsertAt(list, i, tx)
      PROVE  Newest(more) /\ Memory!ToSet(more) = Memory!ToSet(list) \cup {tx}
  <2>1. PICK seq : seq = Memory!InsertAt(list, i, tx)
    OBVIOUS
  <2>2. /\ seq \in Seq(Txs) /\ Len(seq) = Len(list) + 1
        /\ \A k \in 1..Len(list) + 1 :
               seq[k] = IF k < i THEN list[k] ELSE IF k = i THEN tx ELSE list[k-1]
    BY <2>1, InsertedAt
  <2>a. i \in Nat /\ Len(list) \in Nat /\ 1 <= i /\ i <= Len(list)
    OBVIOUS
  <2>b. \A k \in 1..Len(list)+1 : k < i => k \in 1..Len(list) /\ seq[k] = list[k]
    BY <2>a, <2>2
  <2>c. seq[i] = tx
    BY <2>a, <2>2
  <2>d. ASSUME NEW k \in 1..Len(list)+1, k > i
        PROVE  k-1 \in i..Len(list) /\ k-1 \in 1..Len(list) /\ seq[k] = list[k-1]
    <3>1. ~(k < i) /\ k # i
      BY <2>a, <2>d
    <3> QED
      BY <2>a, <2>d, <2>2, <3>1
  <2>3. \A k \in i..Len(list) : PurchasedAt[list[k]] < PurchasedAt[tx]
    BY <1>0, <1>2 DEF Newest
  <2>4. Newest(seq)
    <3> SUFFICES ASSUME NEW j \in 1..Len(list)+1, NEW k \in 1..Len(list)+1, j < k
                 PROVE  seq[j] # seq[k] /\ PurchasedAt[seq[j]] >= PurchasedAt[seq[k]]
      BY <2>2 DEF Newest
    <3>1. CASE k < i
      <4>1. j < i
        BY <2>a, <3>1
      <4> QED
        BY <2>b, <3>1, <4>1 DEF Newest
    <3>2. CASE k = i
      <4>1. /\ j \in 1..i-1 /\ j \in 1..Len(list) /\ seq[j] = list[j]
            /\ seq[k] = tx
        BY <2>a, <2>b, <2>c, <3>2
      <4> QED
        BY <1>0, <1>2, <4>1
    <3>3. CASE j < i /\ k > i
      <4>1. /\ j \in 1..Len(list) /\ seq[j] = list[j]
            /\ k-1 \in 1..Len(list) /\ seq[k] = list[k-1] /\ j < k-1
        BY <2>a, <2>b, <2>d, <3>3
      <4> QED
        BY <4>1 DEF Newest
    <3>4. CASE j = i
      <4>1. seq[j] = tx /\ seq[k] = list[k-1] /\ k-1 \in i..Len(list) /\ k-1 \in 1..Len(list)
        BY <2>a, <2>c, <2>d, <3>4
      <4> QED
        BY <1>0, <2>3, <4>1
    <3>5. CASE j > i
      <4>1. /\ seq[j] = list[j-1] /\ seq[k] = list[k-1]
            /\ j-1 \in 1..Len(list) /\ k-1 \in 1..Len(list) /\ j-1 < k-1
        BY <2>a, <2>d, <3>5
      <4> QED
        BY <4>1 DEF Newest
    <3> QED
      BY <2>a, <3>1, <3>2, <3>3, <3>4, <3>5
  <2>5. ASSUME NEW k \in 1..Len(list)+1 PROVE seq[k] \in Memory!ToSet(list) \cup {tx}
    <3>1. CASE k < i
      BY <2>b, <3>1 DEF Memory!ToSet
    <3>2. CASE k = i
      BY <2>c, <3>2
    <3>3. CASE k > i
      BY <2>d, <3>3 DEF Memory!ToSet
    <3> QED
      BY <2>a, <3>1, <3>2, <3>3
  <2>e. \A k \in 1..Len(list)+1 : seq[k] \in Memory!ToSet(seq)
    <3>1. DOMAIN seq = 1..Len(list)+1
      BY <2>2
    <3> QED
      BY <3>1 DEF Memory!ToSet
  <2>6. tx \in Memory!ToSet(seq)
    BY <2>a, <2>c, <2>e
  <2>7. ASSUME NEW k \in 1..Len(list) PROVE list[k] \in Memory!ToSet(seq)
    <3>1. CASE k < i
      <4>1. k \in 1..Len(list)+1 /\ seq[k] = list[k]
        BY <2>a, <2>b, <3>1
      <4> QED
        BY <2>e, <4>1
    <3>2. CASE k >= i
      <4>1. k + 1 \in 1..Len(list)+1 /\ k + 1 > i /\ (k + 1) - 1 = k
        BY <2>a, <3>2
      <4>2. seq[k+1] = list[k]
        BY <2>d, <4>1
      <4>3. seq[k+1] \in Memory!ToSet(seq)
        BY <2>e, <4>1
      <4> QED
        BY <4>2, <4>3
    <3> QED
      BY <2>a, <3>1, <3>2
  <2>8. Memory!ToSet(seq) = Memory!ToSet(list) \cup {tx}
    <3>1. Memory!ToSet(seq) \subseteq Memory!ToSet(list) \cup {tx}
      BY <2>2, <2>5 DEF Memory!ToSet
    <3>2. Memory!ToSet(list) \subseteq Memory!ToSet(seq)
      BY <2>7 DEF Memory!ToSet
    <3> QED
      BY <2>6, <3>1, <3>2
  <2> QED
    BY <1>2, <2>1, <2>4, <2>8
<1> QED
  BY <1>1, <1>2, InsertsBefore
-----------------------------------------------------------------------------
(* The statements of a store: a row is put where its user may hold it, rows go,
   or nothing changes.  In memory the lists follow. *)

Puts(tx, user) ==
    /\ record' = [record EXCEPT ![tx] = user]
    /\ type = "non_consumable" => \A other \in Txs \ {tx} : record[other] # user

Drops(txs) == record' = [tx \in Txs |-> IF tx \in txs THEN NoUser ELSE record[tx]]

(* A user has a list that is not empty just when he has a row. *)
LEMMA ListedIsOwned ==
    ASSUME TypeOK, Memory!ListsAgree, NEW user \in Users
    PROVE  /\ byUserId[user] \in Seq(Txs) /\ Newest(byUserId[user])
           /\ Memory!ToSet(byUserId[user]) = {tx \in Txs : record[tx] = user}
           /\ byUserId[user] # << >> <=> \E tx \in Txs : record[tx] = user
<1>1. byUserId[user] \in Seq(Txs)
  BY DEF TypeOK
<1>2. Newest(byUserId[user]) /\ Memory!ToSet(byUserId[user]) = {tx \in Txs : record[tx] = user}
  BY DEF Memory!ListsAgree, Newest
<1>3. PICK list : list = byUserId[user]
  OBVIOUS
<1>4. CASE list = << >>
  <2>1. Memory!ToSet(list) = {}
    BY <1>4 DEF Memory!ToSet
  <2> QED
    BY <1>1, <1>2, <1>3, <1>4, <2>1
<1>5. CASE list # << >>
  <2>1. 1 \in DOMAIN list
    BY <1>1, <1>3, <1>5
  <2>2. list[1] \in Memory!ToSet(list)
    BY <2>1 DEF Memory!ToSet
  <2> QED
    BY <1>1, <1>2, <1>3, <1>5, <2>2
<1> QED
  BY <1>4, <1>5

(* ListsAgree after a step, from each user's list after it. *)
LEMMA ListsFollow ==
    ASSUME byUserId' \in [Users -> Seq(Txs)],
           \A user \in Users :
               /\ Newest(byUserId'[user])
               /\ Memory!ToSet(byUserId'[user]) = {tx \in Txs : record'[tx] = user}
    PROVE  Memory!ListsAgree'
BY DEF Memory!ListsAgree, Newest

(* savePurchase of InMemoryPurchaseStore keeps the lists, and puts a row the user may hold. *)
LEMMA MemorySave ==
    ASSUME TypeOK, Memory!ListsAgree, NEW tx \in Txs, NEW user \in Users,
           Memory!SavePurchase(tx, user)
    PROVE  /\ byUserId' \in [Users -> Seq(Txs)] /\ Memory!ListsAgree'
           /\ record' = record \/ (record[tx] = NoUser /\ Puts(tx, user))
           /\ Memory!SaveAnswer(tx, user) = "ok" => record'[tx] = user
           /\ Memory!SaveAnswer(tx, user) = "already_owned" => record' = record
<1>0. record \in [Txs -> Users \cup {NoUser}] /\ byUserId \in [Users -> Seq(Txs)] /\ user # NoUser
  BY NoUserAssumption DEF TypeOK
<1>1. CASE Memory!SaveAnswer(tx, user) = "ok" /\ record[tx] = NoUser
  <2>1. /\ record' = [record EXCEPT ![tx] = user]
        /\ byUserId' = [byUserId EXCEPT ![user] =
               Memory!InsertByPurchasedAt(byUserId[user], tx)]
    BY <1>1 DEF Memory!SavePurchase
  <2>2. /\ byUserId[user] \in Seq(Txs) /\ Newest(byUserId[user])
        /\ Memory!ToSet(byUserId[user]) = {t \in Txs : record[t] = user}
    BY ListedIsOwned
  <2>3. tx \notin Memory!ToSet(byUserId[user])
    BY <1>0, <1>1, <2>2
  <2>4. PICK more : more = Memory!InsertByPurchasedAt(byUserId[user], tx)
    OBVIOUS
  <2>5. /\ more \in Seq(Txs) /\ Newest(more)
        /\ Memory!ToSet(more) = Memory!ToSet(byUserId[user]) \cup {tx}
    BY <2>2, <2>3, <2>4, InsertType, InsertNewest
  <2>6. byUserId' \in [Users -> Seq(Txs)]
    BY <1>0, <2>1, <2>4, <2>5
  <2>7. ASSUME NEW u \in Users
        PROVE  /\ Newest(byUserId'[u])
               /\ Memory!ToSet(byUserId'[u]) = {t \in Txs : record'[t] = u}
    <3>1. CASE u = user
      <4>1. byUserId'[u] = more
        BY <1>0, <2>1, <2>4, <3>1
      <4>2. {t \in Txs : record'[t] = u} = {t \in Txs : record[t] = user} \cup {tx}
        BY <1>0, <2>1, <3>1
      <4> QED
        BY <2>2, <2>5, <4>1, <4>2
    <3>2. CASE u # user
      <4>1. byUserId'[u] = byUserId[u]
        BY <1>0, <2>1, <3>2
      <4>2. {t \in Txs : record'[t] = u} = {t \in Txs : record[t] = u}
        BY <1>0, <1>1, <2>1, <3>2, NoUserAssumption
      <4> QED
        BY <4>1, <4>2, ListedIsOwned
    <3> QED
      BY <3>1, <3>2
  <2>8. Puts(tx, user)
    <3>1. type = "non_consumable" => byUserId[user] = << >>
      BY <1>1 DEF Memory!SaveAnswer, Memory!OwnsNonConsumable
    <3>2. byUserId[user] = << >> => \A other \in Txs : record[other] # user
      BY ListedIsOwned
    <3> QED
      BY <2>1, <3>1, <3>2 DEF Puts
  <2> QED
    BY <1>0, <1>1, <2>1, <2>6, <2>7, <2>8, ListsFollow
<1>2. CASE ~(Memory!SaveAnswer(tx, user) = "ok" /\ record[tx] = NoUser)
  <2>1. record' = record /\ byUserId' = byUserId
    BY <1>2 DEF Memory!SavePurchase, Memory!vars
  <2>2. Memory!SaveAnswer(tx, user) = "ok" => record[tx] = user
    BY <1>2 DEF Memory!SaveAnswer
  <2>3. Memory!ListsAgree'
    BY <2>1 DEF Memory!ListsAgree
  <2> QED
    BY <1>0, <2>1, <2>2, <2>3
<1> QED
  BY <1>1, <1>2

(* reassignPurchase keeps the lists, and moves a row to a user who may hold it. *)
LEMMA MemoryReassign ==
    ASSUME TypeOK, Memory!ListsAgree, NEW tx \in Txs, NEW user \in Users,
           Memory!ReassignPurchase(tx, user)
    PROVE  /\ byUserId' \in [Users -> Seq(Txs)] /\ Memory!ListsAgree'
           /\ record' = record \/ (record[tx] # NoUser /\ Puts(tx, user))
           /\ Memory!ReassignAnswer(tx, user) = "ok" => record'[tx] = user
           /\ Memory!ReassignAnswer(tx, user) = "absent" => record[tx] = NoUser
<1>0. record \in [Txs -> Users \cup {NoUser}] /\ byUserId \in [Users -> Seq(Txs)] /\ user # NoUser
  BY NoUserAssumption DEF TypeOK
<1>a. Memory!ReassignAnswer(tx, user) = "absent" => record[tx] = NoUser
  BY DEF Memory!ReassignAnswer
<1>1. CASE Memory!ReassignAnswer(tx, user) = "ok" /\ record[tx] # user
  <2>0. PICK owner \in Users : owner = record[tx]
    BY <1>0, <1>1 DEF Memory!ReassignAnswer
  <2>1. /\ record' = [record EXCEPT ![tx] = user]
        /\ byUserId' = [byUserId EXCEPT
               ![owner] = Memory!Without(byUserId[owner], tx),
               ![user] = Memory!InsertByPurchasedAt(byUserId[user], tx)]
    BY <1>0, <1>1, <2>0 DEF Memory!ReassignPurchase
  <2>2. /\ byUserId[user] \in Seq(Txs) /\ Newest(byUserId[user])
        /\ Memory!ToSet(byUserId[user]) = {t \in Txs : record[t] = user}
        /\ byUserId[owner] \in Seq(Txs) /\ Newest(byUserId[owner])
        /\ Memory!ToSet(byUserId[owner]) = {t \in Txs : record[t] = owner}
    BY <2>0, ListedIsOwned
  <2>3. tx \notin Memory!ToSet(byUserId[user])
    BY <1>0, <1>1, <2>2
  <2>4. PICK more : more = Memory!InsertByPurchasedAt(byUserId[user], tx)
    OBVIOUS
  <2>5. /\ more \in Seq(Txs) /\ Newest(more)
        /\ Memory!ToSet(more) = Memory!ToSet(byUserId[user]) \cup {tx}
    BY <2>2, <2>3, <2>4, InsertType, InsertNewest
  <2>b. PICK rest : rest = Memory!Without(byUserId[owner], tx)
    OBVIOUS
  <2>c. /\ rest \in Seq(Txs) /\ Newest(rest)
        /\ Memory!ToSet(rest) = Memory!ToSet(byUserId[owner]) \ {tx}
    BY <2>2, <2>b, WithoutType, WithoutNewest
  <2>d. byUserId' = [byUserId EXCEPT ![owner] = rest, ![user] = more]
    BY <2>1, <2>4, <2>b
  <2>6. byUserId' \in [Users -> Seq(Txs)]
    BY <1>0, <2>5, <2>c, <2>d
  <2>7. ASSUME NEW u \in Users
        PROVE  /\ Newest(byUserId'[u])
               /\ Memory!ToSet(byUserId'[u]) = {t \in Txs : record'[t] = u}
    <3>1. CASE u = user
      <4>1. byUserId'[u] = more
        BY <1>0, <2>d, <3>1
      <4>2. {t \in Txs : record'[t] = u} = {t \in Txs : record[t] = user} \cup {tx}
        BY <1>0, <2>1, <3>1
      <4> QED
        BY <2>2, <2>5, <4>1, <4>2
    <3>2. CASE u = owner /\ u # user
      <4>1. byUserId'[u] = rest
        BY <1>0, <2>d, <3>2
      <4>2. {t \in Txs : record'[t] = u} = {t \in Txs : record[t] = owner} \ {tx}
        BY <1>0, <2>1, <3>2
      <4> QED
        BY <2>2, <2>c, <4>1, <4>2
    <3>3. CASE u # owner /\ u # user
      <4>1. byUserId'[u] = byUserId[u]
        BY <1>0, <2>d, <3>3
      <4>2. {t \in Txs : record'[t] = u} = {t \in Txs : record[t] = u}
        BY <1>0, <2>0, <2>1, <3>3
      <4> QED
        BY <4>1, <4>2, ListedIsOwned
    <3> QED
      BY <3>1, <3>2, <3>3
  <2>8. Puts(tx, user)
    <3>1. type = "non_consumable" => byUserId[user] = << >>
      BY <1>1 DEF Memory!ReassignAnswer, Memory!OwnsNonConsumable
    <3>2. byUserId[user] = << >> => \A other \in Txs : record[other] # user
      BY ListedIsOwned
    <3> QED
      BY <2>1, <3>1, <3>2 DEF Puts
  <2>9. record[tx] # NoUser
    BY <2>0, NoUserAssumption
  <2> QED
    BY <1>0, <1>a, <2>1, <2>6, <2>7, <2>8, <2>9, ListsFollow
<1>2. CASE ~(Memory!ReassignAnswer(tx, user) = "ok" /\ record[tx] # user)
  <2>1. record' = record /\ byUserId' = byUserId
    BY <1>2 DEF Memory!ReassignPurchase, Memory!vars
  <2>2. Memory!ReassignAnswer(tx, user) = "ok" => record[tx] = user
    BY <1>2
  <2>3. Memory!ListsAgree'
    BY <2>1 DEF Memory!ListsAgree
  <2> QED
    BY <1>0, <1>a, <2>1, <2>2, <2>3
<1> QED
  BY <1>1, <1>2

(* deletePurchaseByTransactionId keeps the lists, and drops the row. *)
LEMMA MemoryDelete ==
    ASSUME TypeOK, Memory!ListsAgree, NEW tx \in Txs, Memory!DeletePurchaseByTransactionId(tx)
    PROVE  byUserId' \in [Users -> Seq(Txs)] /\ Memory!ListsAgree' /\ Drops({tx})
<1>0. record \in [Txs -> Users \cup {NoUser}] /\ byUserId \in [Users -> Seq(Txs)]
  BY DEF TypeOK
<1>1. CASE record[tx] = NoUser
  <2>1. record' = record /\ byUserId' = byUserId
    BY <1>1 DEF Memory!DeletePurchaseByTransactionId, Memory!vars
  <2>2. Memory!ListsAgree'
    BY <2>1 DEF Memory!ListsAgree
  <2> QED
    BY <1>0, <1>1, <2>1, <2>2 DEF Drops
<1>2. CASE record[tx] # NoUser
  <2>0. PICK owner \in Users : owner = record[tx]
    BY <1>0, <1>2
  <2>1. /\ record' = [record EXCEPT ![tx] = NoUser]
        /\ byUserId' = [byUserId EXCEPT ![owner] = Memory!Without(byUserId[owner], tx)]
    BY <1>0, <1>2, <2>0 DEF Memory!DeletePurchaseByTransactionId
  <2>2. /\ byUserId[owner] \in Seq(Txs) /\ Newest(byUserId[owner])
        /\ Memory!ToSet(byUserId[owner]) = {t \in Txs : record[t] = owner}
    BY <2>0, ListedIsOwned
  <2>b. PICK rest : rest = Memory!Without(byUserId[owner], tx)
    OBVIOUS
  <2>c. /\ rest \in Seq(Txs) /\ Newest(rest)
        /\ Memory!ToSet(rest) = Memory!ToSet(byUserId[owner]) \ {tx}
    BY <2>2, <2>b, WithoutType, WithoutNewest
  <2>6. byUserId' \in [Users -> Seq(Txs)]
    BY <1>0, <2>1, <2>b, <2>c
  <2>7. ASSUME NEW u \in Users
        PROVE  /\ Newest(byUserId'[u])
               /\ Memory!ToSet(byUserId'[u]) = {t \in Txs : record'[t] = u}
    <3>2. CASE u = owner
      <4>1. byUserId'[u] = rest
        BY <1>0, <2>1, <2>b, <3>2
      <4>2. {t \in Txs : record'[t] = u} = {t \in Txs : record[t] = owner} \ {tx}
        BY <1>0, <2>1, <3>2, NoUserAssumption
      <4> QED
        BY <2>2, <2>c, <4>1, <4>2
    <3>3. CASE u # owner
      <4>1. byUserId'[u] = byUserId[u]
        BY <1>0, <2>1, <3>3
      <4>2. {t \in Txs : record'[t] = u} = {t \in Txs : record[t] = u}
        BY <1>0, <2>0, <2>1, <3>3, NoUserAssumption
      <4> QED
        BY <4>1, <4>2, ListedIsOwned
    <3> QED
      BY <3>2, <3>3
  <2>8. Drops({tx})
    BY <1>0, <2>1 DEF Drops
  <2> QED
    BY <2>6, <2>7, <2>8, ListsFollow
<1> QED
  BY <1>1, <1>2

(* deletePurchases keeps the lists, and drops the user's rows. *)
LEMMA MemoryDeleteAll ==
    ASSUME TypeOK, Memory!ListsAgree, NEW user \in Users, Memory!DeletePurchases(user)
    PROVE  /\ byUserId' \in [Users -> Seq(Txs)] /\ Memory!ListsAgree'
           /\ Drops({tx \in Txs : record[tx] = user})
<1>0. record \in [Txs -> Users \cup {NoUser}] /\ byUserId \in [Users -> Seq(Txs)] /\ user # NoUser
  BY NoUserAssumption DEF TypeOK
<1>1. /\ record' = [tx \in Txs |-> IF record[tx] = user THEN NoUser ELSE record[tx]]
      /\ byUserId' = [byUserId EXCEPT ![user] = << >>]
  BY ListedIsOwned DEF Memory!DeletePurchases
<1>2. byUserId' \in [Users -> Seq(Txs)]
  <2>1. << >> \in Seq(Txs)
    OBVIOUS
  <2> QED
    BY <1>0, <1>1, <2>1
<1>3. ASSUME NEW u \in Users
      PROVE  /\ Newest(byUserId'[u])
             /\ Memory!ToSet(byUserId'[u]) = {t \in Txs : record'[t] = u}
  <2>1. CASE u = user
    <3>1. byUserId'[u] = << >>
      BY <1>0, <1>1, <2>1
    <3>2. {t \in Txs : record'[t] = u} = {}
      BY <1>0, <1>1, <2>1
    <3>3. Newest(<< >>) /\ Memory!ToSet(<< >>) = {}
      BY DEF Newest, Memory!ToSet
    <3> QED
      BY <3>1, <3>2, <3>3
  <2>2. CASE u # user
    <3>1. byUserId'[u] = byUserId[u]
      BY <1>0, <1>1, <2>2
    <3>2. {t \in Txs : record'[t] = u} = {t \in Txs : record[t] = u}
      BY <1>0, <1>1, <2>2, NoUserAssumption
    <3> QED
      BY <3>1, <3>2, ListedIsOwned
  <2> QED
    BY <2>1, <2>2
<1>4. Drops({tx \in Txs : record[tx] = user})
  BY <1>1 DEF Drops
<1> QED
  BY <1>2, <1>3, <1>4, ListsFollow

(* The INSERT of savePurchase in PostgresPurchaseStore puts a row the user may hold. *)
LEMMA PostgresInsert ==
    ASSUME TypeOK, NEW tx \in Txs, NEW user \in Users, Postgres!Insert(tx, user)
    PROVE  /\ record' = record \/ (record[tx] = NoUser /\ Puts(tx, user))
           /\ Postgres!InsertAnswer(tx, user) \in {"exists", "inserted", "already_owned"}
           /\ Postgres!InsertAnswer(tx, user) = "inserted" => record'[tx] = user
           /\ Postgres!InsertAnswer(tx, user) = "exists" =>
                  record' = record /\ record[tx] # NoUser
           /\ Postgres!InsertAnswer(tx, user) = "already_owned" => type = "non_consumable"
BY DEF TypeOK, Postgres!Insert, Postgres!InsertAnswer, Postgres!MayHold, Puts

(* The UPDATE of reassignPurchase moves a row to a user who may hold it. *)
LEMMA PostgresUpdate ==
    ASSUME TypeOK, NEW tx \in Txs, NEW user \in Users, Postgres!Update(tx, user)
    PROVE  /\ record' = record \/ (record[tx] # NoUser /\ Puts(tx, user))
           /\ Postgres!UpdateAnswer(tx, user) = "ok" => record'[tx] = user
           /\ Postgres!UpdateAnswer(tx, user) = "absent" => record[tx] = NoUser
           /\ Postgres!UpdateAnswer(tx, user) \in {"ok", "absent", "already_owned"}
BY DEF TypeOK, Postgres!Update, Postgres!UpdateAnswer, Postgres!MayHold, Puts

(* The DELETE by transaction drops the row. *)
LEMMA PostgresDelete ==
    ASSUME TypeOK, NEW tx \in Txs, Postgres!DeleteTransaction(tx)
    PROVE  Drops({tx})
BY DEF TypeOK, Postgres!DeleteTransaction, Drops

(* The DELETE by user drops the user's rows. *)
LEMMA PostgresDeleteAll ==
    ASSUME TypeOK, NEW user \in Users, Postgres!DeleteOfUser(user)
    PROVE  Drops({tx \in Txs : record[tx] = user})
BY DEF TypeOK, Postgres!DeleteOfUser, Drops
-----------------------------------------------------------------------------
(* What a step does to the rows: who does what is in the lemmas of the steps. *)
RowsMove ==
    \/ record' = record
    \/ \E tx \in Txs, user \in Users : Puts(tx, user)
    \/ \E txs \in SUBSET Txs : Drops(txs)

(* However they move, the rows stay rows. *)
LEMMA RowsTyped ==
    ASSUME TypeOK, RowsMove
    PROVE  record' \in [Txs -> Users \cup {NoUser}]
BY DEF TypeOK, RowsMove, Puts, Drops

(* The store of a step that leaves it alone, or goes through the lemmas above. *)
Lists == backend = "memory" => Memory!ListsAgree

StoreMoves ==
    /\ RowsMove
    /\ byUserId' \in [Users -> Seq(Txs)]
    /\ Lists'

(* A step that leaves the store alone keeps its lists. *)
LEMMA StoreStays ==
    ASSUME TypeOK, Lists, UNCHANGED <<backend, type, store>>
    PROVE  StoreMoves
BY DEF StoreMoves, RowsMove, TypeOK, Lists, Memory!ListsAgree, store

(* The steps that write the store, in either backend. *)
LEMMA StoreSaves ==
    ASSUME TypeOK, Lists, UNCHANGED backend, NEW tx \in Txs, NEW user \in Users,
           IF backend = "memory" THEN Memory!SavePurchase(tx, user)
           ELSE Postgres!Insert(tx, user) /\ UNCHANGED byUserId
    PROVE  StoreMoves /\ (record' = record \/ (record[tx] = NoUser /\ Puts(tx, user)))
<1>1. CASE backend = "memory"
  <2>1. Memory!ListsAgree /\ Memory!SavePurchase(tx, user)
    BY <1>1 DEF Lists
  <2>2. /\ byUserId' \in [Users -> Seq(Txs)] /\ Memory!ListsAgree'
        /\ record' = record \/ (record[tx] = NoUser /\ Puts(tx, user))
    BY <2>1, MemorySave
  <2> QED
    BY <2>2 DEF StoreMoves, RowsMove, Lists
<1>2. CASE backend # "memory"
  <2>1. record' = record \/ (record[tx] = NoUser /\ Puts(tx, user))
    BY <1>2, PostgresInsert
  <2> QED
    BY <1>2, <2>1 DEF StoreMoves, RowsMove, Lists, TypeOK
<1> QED
  BY <1>1, <1>2

(* reassignPurchase, in either backend. *)
LEMMA StoreReassigns ==
    ASSUME TypeOK, Lists, UNCHANGED backend, NEW tx \in Txs, NEW user \in Users,
           IF backend = "memory" THEN Memory!ReassignPurchase(tx, user)
           ELSE Postgres!Update(tx, user) /\ UNCHANGED byUserId
    PROVE  StoreMoves /\ (record' = record \/ (record[tx] # NoUser /\ Puts(tx, user)))
<1>1. CASE backend = "memory"
  <2>1. Memory!ListsAgree /\ Memory!ReassignPurchase(tx, user)
    BY <1>1 DEF Lists
  <2>2. /\ byUserId' \in [Users -> Seq(Txs)] /\ Memory!ListsAgree'
        /\ record' = record \/ (record[tx] # NoUser /\ Puts(tx, user))
    BY <2>1, MemoryReassign
  <2> QED
    BY <2>2 DEF StoreMoves, RowsMove, Lists
<1>2. CASE backend # "memory"
  <2>1. record' = record \/ (record[tx] # NoUser /\ Puts(tx, user))
    BY <1>2, PostgresUpdate
  <2> QED
    BY <1>2, <2>1 DEF StoreMoves, RowsMove, Lists, TypeOK
<1> QED
  BY <1>1, <1>2

(* deletePurchaseByTransactionId, in either backend. *)
LEMMA StoreDeletes ==
    ASSUME TypeOK, Lists, UNCHANGED backend, NEW tx \in Txs,
           IF backend = "memory" THEN Memory!DeletePurchaseByTransactionId(tx)
           ELSE Postgres!DeleteTransaction(tx) /\ UNCHANGED byUserId
    PROVE  StoreMoves /\ Drops({tx})
<1>1. CASE backend = "memory"
  <2>1. Memory!ListsAgree /\ Memory!DeletePurchaseByTransactionId(tx)
    BY <1>1 DEF Lists
  <2>2. byUserId' \in [Users -> Seq(Txs)] /\ Memory!ListsAgree' /\ Drops({tx})
    BY <2>1, MemoryDelete
  <2> QED
    BY <2>2 DEF StoreMoves, RowsMove, Lists
<1>2. CASE backend # "memory"
  <2>1. Drops({tx})
    BY <1>2, PostgresDelete
  <2> QED
    BY <1>2, <2>1 DEF StoreMoves, RowsMove, Lists, TypeOK
<1> QED
  BY <1>1, <1>2

(* deletePurchases, in either backend. *)
LEMMA StoreDeletesAll ==
    ASSUME TypeOK, Lists, UNCHANGED backend, NEW user \in Users,
           IF backend = "memory" THEN Memory!DeletePurchases(user)
           ELSE Postgres!DeleteOfUser(user) /\ UNCHANGED byUserId
    PROVE  StoreMoves /\ Drops({tx \in Txs : record[tx] = user})
<1>0. PICK txs \in SUBSET Txs : txs = {tx \in Txs : record[tx] = user}
  OBVIOUS
<1>1. CASE backend = "memory"
  <2>1. Memory!ListsAgree /\ Memory!DeletePurchases(user)
    BY <1>1 DEF Lists
  <2>2. byUserId' \in [Users -> Seq(Txs)] /\ Memory!ListsAgree' /\ Drops(txs)
    BY <1>0, <2>1, MemoryDeleteAll
  <2> QED
    BY <1>0, <2>2 DEF StoreMoves, RowsMove, Lists
<1>2. CASE backend # "memory"
  <2>1. Drops(txs)
    BY <1>0, <1>2, PostgresDeleteAll
  <2> QED
    BY <1>0, <1>2, <2>1 DEF StoreMoves, RowsMove, Lists, TypeOK
<1> QED
  BY <1>1, <1>2
-----------------------------------------------------------------------------
(* What a step does to the requests and their line. *)

InLine(r) == request[r].pc \in Holding

About(r, tx) == InLine(r) /\ request[r].tx = tx

OthersStay(r) == \A other \in Requests \ {r} : request'[other] = request[other]

ProcessTyped ==
    /\ request' \in [Requests -> {Idle} \cup Active \cup Answered]
    /\ tail' \in [Txs -> Requests \cup {NoRequest}]
    /\ ahead' \in [Requests -> SUBSET Requests]

(* A request that goes on changes its await and nothing else. *)
LEMMA GoToFacts ==
    ASSUME TypeOK, NEW r \in Requests, Running(r), NEW pc \in Holding \cup {"receipt"}, GoTo(r, pc)
    PROVE  /\ ProcessTyped /\ OthersStay(r) /\ UNCHANGED <<tail, ahead>>
           /\ request[r] \in Active /\ request'[r] \in Active
           /\ request'[r].pc = pc /\ request'[r].tx = request[r].tx
           /\ request'[r].user = request[r].user /\ request'[r].gone = request[r].gone
           /\ request'[r].spent = request[r].spent
<1>1. request[r] \in Active
  BY RunningIsActive
<1>2. request \in [Requests -> {Idle} \cup Active \cup Answered]
  BY DEF TypeOK, Active, Answered
<1>3. request'[r] = [request[r] EXCEPT !.pc = pc]
  BY <1>2 DEF GoTo
<1>4. request'[r] \in Active
  BY <1>1, <1>3 DEF Active
<1>5. /\ request'[r].pc = pc /\ request'[r].tx = request[r].tx
      /\ request'[r].user = request[r].user /\ request'[r].gone = request[r].gone
      /\ request'[r].spent = request[r].spent
  BY <1>1, <1>3 DEF Active
<1>6. request' \in [Requests -> {Idle} \cup Active \cup Answered] /\ OthersStay(r)
  BY <1>2, <1>3, <1>4 DEF GoTo, OthersStay
<1> QED
  BY <1>1, <1>4, <1>5, <1>6 DEF GoTo, ProcessTyped, TypeOK

(* A request that is answered leaves the line, and the others stay as they are. *)
LEMMA AnswerFacts ==
    ASSUME TypeOK, NEW r \in Requests, NEW answer \in Answers, Answer(r, answer)
    PROVE  /\ ProcessTyped /\ OthersStay(r) /\ Release(r)
           /\ request'[r].pc = "answered" /\ request'[r].answer = answer
<1>1. request \in [Requests -> {Idle} \cup Active \cup Answered]
  BY DEF TypeOK, Active, Answered
<1>2. request'[r] = [pc |-> "answered", answer |-> answer] /\ OthersStay(r)
  BY <1>1 DEF Answer, OthersStay
<1>3. request'[r] \in Answered
  BY <1>2 DEF Answered
<1>4. request' \in [Requests -> {Idle} \cup Active \cup Answered]
  BY <1>1, <1>3 DEF Answer, Answered
<1>5. /\ tail' \in [Txs -> Requests \cup {NoRequest}]
      /\ ahead' \in [Requests -> SUBSET Requests]
  BY DEF Answer, Release, TypeOK
<1> QED
  BY <1>2, <1>4, <1>5 DEF Answer, ProcessTyped

(* The line after the step: the same, one fewer, one more, or none. *)
Stays ==
    /\ UNCHANGED <<tail, ahead>>
    /\ overtook \subseteq overtook'
    /\ \A r \in Requests :
           /\ InLine(r)' <=> InLine(r)
           /\ InLine(r) => request'[r].tx = request[r].tx
           /\ InLine(r) /\ request'[r].pc # "waiting" =>
                  ~At(r, "waiting") \/ ahead[r] = {} \/ request[r].tx \in overtook'

Leaves(r) ==
    /\ Release(r) /\ OthersStay(r) /\ UNCHANGED overtook
    /\ ~At(r, "waiting") /\ ~InLine(r)'

Joins(r, tx) ==
    /\ Enter(r, tx) /\ OthersStay(r) /\ UNCHANGED overtook
    /\ ~InLine(r) /\ request'[r].pc = "waiting" /\ request'[r].tx = tx

Cut ==
    /\ UNCHANGED overtook
    /\ tail' = [tx \in Txs |-> NoRequest]
    /\ ahead' = [r \in Requests |-> {}]
    /\ \A r \in Requests : ~InLine(r)'

LineKept ==
    \/ Stays
    \/ Cut
    \/ \E r \in Requests : Leaves(r)
    \/ \E r \in Requests, tx \in Txs : Joins(r, tx)

(* Everybody in line is about the same transaction as those he waits for, who
   are in line too and do not wait for him. *)
InOrder ==
    /\ \A r \in Requests : ahead[r] # {} => InLine(r)
    /\ \A r \in Requests : \A other \in ahead[r] :
           InLine(other) /\ request[other].tx = request[r].tx /\ r \notin ahead[other]
    /\ \A tx \in Txs : tail[tx] # NoRequest => About(tail[tx], tx)

(* The line of a transaction on which nobody went ahead: of any two, one waits
   for the other, and who is past the lock waits for nobody. *)
Serial ==
    \A tx \in Txs \ overtook : \A r \in Requests : About(r, tx) =>
        /\ ~At(r, "waiting") => ahead[r] = {}
        /\ tail[tx] # NoRequest /\ (r = tail[tx] \/ r \in ahead[tail[tx]])
        /\ \A other \in Requests \ {r} : About(other, tx) => r \in ahead[other] \/ other \in ahead[r]

(* Of the requests about a transaction nobody overtook, one is past the lock. *)
LEMMA OneInside ==
    ASSUME Serial, NEW tx \in Txs \ overtook, NEW r \in Requests, NEW other \in Requests,
           About(r, tx), About(other, tx), ~At(r, "waiting"), ~At(other, "waiting")
    PROVE  r = other
BY DEF Serial

(* The lock of the route (lockTransaction and its releaser) keeps the line in order. *)
LEMMA LineInductive ==
    ASSUME TypeOK, InOrder, Serial, LineKept, ProcessTyped
    PROVE  InOrder' /\ Serial'
<1>0. /\ tail \in [Txs -> Requests \cup {NoRequest}] /\ ahead \in [Requests -> SUBSET Requests]
      /\ tail' \in [Txs -> Requests \cup {NoRequest}] /\ ahead' \in [Requests -> SUBSET Requests]
  BY DEF TypeOK, ProcessTyped
<1>1. CASE Stays
  <2>1. /\ tail' = tail /\ ahead' = ahead /\ overtook \subseteq overtook'
        /\ \A r \in Requests : InLine(r)' <=> InLine(r)
        /\ \A r \in Requests : InLine(r) => request'[r].tx = request[r].tx
        /\ \A r \in Requests, tx \in Txs : About(r, tx)' <=> About(r, tx)
    BY <1>1 DEF Stays, About
  <2>2. InOrder'
    BY <1>0, <2>1 DEF InOrder
  <2>3. Serial'
    <3> SUFFICES ASSUME NEW tx \in Txs \ overtook', NEW r \in Requests, About(r, tx)'
                 PROVE  /\ ~At(r, "waiting")' => ahead'[r] = {}
                        /\ tail'[tx] # NoRequest /\ (r = tail'[tx] \/ r \in ahead'[tail'[tx]])
                        /\ \A other \in Requests \ {r} :
                               About(other, tx)' => r \in ahead'[other] \/ other \in ahead'[r]
      BY DEF Serial
    <3>1. tx \in Txs \ overtook /\ About(r, tx)
      BY <2>1
    <3>2. ~At(r, "waiting")' => ahead'[r] = {}
      BY <1>1, <2>1, <3>1 DEF Stays, Serial, At, About
    <3> QED
      BY <2>1, <3>1, <3>2 DEF Serial
  <2> QED
    BY <2>2, <2>3
<1>2. CASE Cut
  BY <1>0, <1>2 DEF Cut, InOrder, Serial, About
<1>3. ASSUME NEW r \in Requests, Leaves(r) PROVE InOrder' /\ Serial'
  <2>1. /\ tail' = [tx \in Txs |-> IF tail[tx] = r THEN NoRequest ELSE tail[tx]]
        /\ ahead' = [other \in Requests |-> IF other = r THEN {} ELSE ahead[other] \ {r}]
        /\ overtook' = overtook /\ ~At(r, "waiting") /\ ~InLine(r)'
        /\ \A other \in Requests \ {r} : request'[other] = request[other]
    BY <1>3 DEF Leaves, Release, OthersStay
  <2>2. /\ \A s \in Requests : InLine(s)' <=> s # r /\ InLine(s)
        /\ \A s \in Requests, tx \in Txs : About(s, tx)' <=> s # r /\ About(s, tx)
        /\ \A s \in Requests : s # r => At(s, "waiting")' = At(s, "waiting")
    BY <2>1 DEF InLine, About, At
  <2>3. InOrder'
    <3>1. \A s \in Requests : ahead'[s] # {} => InLine(s)'
      BY <1>0, <2>1, <2>2 DEF InOrder
    <3>2. \A s \in Requests : \A other \in ahead'[s] :
              InLine(other)' /\ request'[other].tx = request'[s].tx /\ s \notin ahead'[other]
      BY <1>0, <2>1, <2>2 DEF InOrder
    <3>3. ASSUME NEW tx \in Txs, tail'[tx] # NoRequest PROVE About(tail[tx], tx)'
      <4>1. PICK last \in Requests : last = tail'[tx]
        BY <1>0, <3>3
      <4>2. last # r /\ About(last, tx)
        BY <1>0, <2>1, <3>3, <4>1 DEF InOrder
      <4>3. About(last, tx)'
        BY <2>2, <4>2
      <4> QED
        BY <4>1, <4>3 DEF About, InLine
    <3> QED
      BY <3>1, <3>2, <3>3 DEF InOrder
  <2>4. Serial'
    <3> SUFFICES ASSUME NEW tx \in Txs \ overtook', NEW s \in Requests, About(s, tx)'
                 PROVE  /\ ~At(s, "waiting")' => ahead'[s] = {}
                        /\ tail'[tx] # NoRequest /\ (s = tail'[tx] \/ s \in ahead'[tail'[tx]])
                        /\ \A other \in Requests \ {s} :
                               About(other, tx)' => s \in ahead'[other] \/ other \in ahead'[s]
      BY DEF Serial
    <3>1. tx \in Txs \ overtook /\ About(s, tx) /\ s # r
      BY <2>1, <2>2
    <3>2. ~At(s, "waiting")' => ahead'[s] = {}
      BY <1>0, <2>1, <2>2, <3>1 DEF Serial
    <3>3. tail[tx] # NoRequest /\ (s = tail[tx] \/ s \in ahead[tail[tx]])
      BY <3>1 DEF Serial
    <3>4. tail[tx] # r
      BY <1>0, <2>1, <3>1, <3>3 DEF Serial, InOrder
    <3>5. tail'[tx] = tail[tx] /\ (s = tail[tx] \/ s \in ahead'[tail[tx]])
      BY <1>0, <2>1, <3>1, <3>3, <3>4
    <3>6. ASSUME NEW other \in Requests \ {s}, About(other, tx)'
          PROVE  s \in ahead'[other] \/ other \in ahead'[s]
      <4>1. other # r /\ About(other, tx)
        BY <2>2, <3>6
      <4>2. s \in ahead[other] \/ other \in ahead[s]
        BY <3>1, <4>1 DEF Serial
      <4> QED
        BY <1>0, <2>1, <3>1, <4>1, <4>2
    <3> QED
      BY <3>2, <3>3, <3>5, <3>6
  <2> QED
    BY <2>3, <2>4
<1>4. ASSUME NEW r \in Requests, NEW tx \in Txs, Joins(r, tx) PROVE InOrder' /\ Serial'
  <2>1. /\ ahead' = [ahead EXCEPT ![r] = Line(tx)] /\ tail' = [tail EXCEPT ![tx] = r]
        /\ overtook' = overtook /\ ~InLine(r)
        /\ request'[r].pc = "waiting" /\ request'[r].tx = tx
        /\ \A other \in Requests \ {r} : request'[other] = request[other]
    BY <1>4 DEF Joins, Enter, OthersStay
  <2>2. /\ \A s \in Requests : InLine(s)' <=> s = r \/ InLine(s)
        /\ \A s \in Requests, t \in Txs : About(s, t)' <=> (s = r /\ t = tx) \/ About(s, t)
        /\ \A s \in Requests : s # r => At(s, "waiting")' = At(s, "waiting")
        /\ At(r, "waiting")'
    BY <2>1 DEF InLine, About, At, Holding
  <2>3. /\ ahead'[r] = Line(tx)
        /\ \A s \in Requests \ {r} : ahead'[s] = ahead[s]
        /\ tail'[tx] = r
        /\ \A t \in Txs \ {tx} : tail'[t] = tail[t]
    BY <1>0, <2>1
  <2>4. /\ \A s \in Line(tx) : s \in Requests /\ About(s, tx)
        /\ \A s \in Requests : r \notin ahead[s]
    BY <1>0, <2>1 DEF InOrder, Line, About
  <2>5. InOrder'
    <3>1. \A s \in Requests : ahead'[s] # {} => InLine(s)'
      BY <1>0, <2>2, <2>3 DEF InOrder
    <3>2. \A s \in Requests : \A other \in ahead'[s] :
              InLine(other)' /\ request'[other].tx = request'[s].tx /\ s \notin ahead'[other]
      <4> SUFFICES ASSUME NEW s \in Requests, NEW other \in ahead'[s]
                   PROVE  /\ InLine(other)' /\ request'[other].tx = request'[s].tx
                          /\ s \notin ahead'[other]
        OBVIOUS
      <4>1. CASE s = r
        <5>1. other \in Requests /\ About(other, tx) /\ other # r
          BY <2>1, <2>3, <2>4, <4>1 DEF About
        <5> QED
          BY <2>1, <2>2, <2>3, <2>4, <4>1, <5>1 DEF About
      <4>2. CASE s # r
        <5>1. other \in ahead[s] /\ InLine(other) /\ other \in Requests /\ other # r
          BY <1>0, <2>1, <2>3, <4>2 DEF InOrder
        <5> QED
          BY <2>1, <2>2, <2>3, <4>2, <5>1 DEF InOrder
      <4> QED
        BY <4>1, <4>2
    <3>3. ASSUME NEW t \in Txs, tail'[t] # NoRequest PROVE About(tail[t], t)'
      <4>1. PICK last \in Requests : last = tail'[t]
        BY <1>0, <3>3
      <4>2. (last = r /\ t = tx) \/ About(last, t)
        BY <1>0, <2>3, <3>3, <4>1 DEF InOrder
      <4>3. About(last, t)'
        BY <2>2, <4>2
      <4> QED
        BY <4>1, <4>3 DEF About, InLine
    <3> QED
      BY <3>1, <3>2, <3>3 DEF InOrder
  <2>6. Serial'
    <3> SUFFICES ASSUME NEW t \in Txs \ overtook', NEW s \in Requests, About(s, t)'
                 PROVE  /\ ~At(s, "waiting")' => ahead'[s] = {}
                        /\ tail'[t] # NoRequest /\ (s = tail'[t] \/ s \in ahead'[tail'[t]])
                        /\ \A other \in Requests \ {s} :
                               About(other, t)' => s \in ahead'[other] \/ other \in ahead'[s]
      BY DEF Serial
    <3>0. t \in Txs \ overtook
      BY <2>1
    <3>1. \A u \in Requests : u # r /\ About(u, tx) /\ t = tx => u \in Line(tx)
      BY <3>0 DEF Serial, Line
    <3>2. CASE s = r
      <4>1. t = tx
        BY <2>1, <3>2 DEF About
      <4> QED
        BY <1>0, <2>2, <2>3, <3>1, <3>2, <4>1, NoRequestAssumption
    <3>3. CASE s # r
      <4>1. About(s, t)
        BY <2>2, <3>3
      <4>2. ~At(s, "waiting")' => ahead'[s] = {}
        BY <2>2, <2>3, <3>0, <3>3, <4>1 DEF Serial
      <4>3. tail'[t] # NoRequest /\ (s = tail'[t] \/ s \in ahead'[tail'[t]])
        <5>1. CASE t = tx
          BY <2>3, <3>1, <3>3, <4>1, <5>1, NoRequestAssumption
        <5>2. CASE t # tx
          <6>1. tail'[t] = tail[t] /\ tail[t] # NoRequest /\ InLine(tail[t])
            BY <2>3, <3>0, <4>1, <5>2 DEF Serial, InOrder, About
          <6>2. ahead'[tail[t]] = ahead[tail[t]]
            BY <1>0, <2>1, <2>3, <6>1
          <6> QED
            BY <3>0, <4>1, <6>1, <6>2 DEF Serial
        <5> QED
          BY <5>1, <5>2
      <4>4. ASSUME NEW other \in Requests \ {s}, About(other, t)'
            PROVE  s \in ahead'[other] \/ other \in ahead'[s]
        <5>1. CASE other = r
          <6>1. t = tx
            BY <2>1, <4>4, <5>1 DEF About
          <6> QED
            BY <2>3, <3>1, <3>3, <4>1, <5>1, <6>1
        <5>2. CASE other # r
          BY <2>2, <2>3, <3>0, <3>3, <4>1, <4>4, <5>2 DEF Serial
        <5> QED
          BY <5>1, <5>2
      <4> QED
        BY <4>2, <4>3, <4>4
    <3> QED
      BY <3>2, <3>3
  <2> QED
    BY <2>5, <2>6
<1> QED
  BY <1>1, <1>2, <1>3, <1>4 DEF LineKept
-----------------------------------------------------------------------------
(* The inductive invariant. *)

(* What a request past the lookup knows of the row it looked at, as long as
   nobody has deleted it. *)
KnownOf(r) ==
    /\ request[r].pc \in {"owned", "reassign", "restoreOwned"} => ~Consumable
    /\ request[r].pc \in {"reassign", "select"} =>
           request[r].gone \/ record[request[r].tx] # NoUser
    /\ request[r].pc \in {"save", "select"} =>
           \/ request[r].gone
           \/ request[r].tx \in overtook
           \/ granted[request[r].tx] = 0

Known == \A r \in Requests : KnownOf(r)

Counted ==
    \A tx \in Txs :
        /\ granted[tx] > 0 => record[tx] # NoUser
        /\ tx \notin overtook => granted[tx] <= 1

(* RefundStaysRemoved, and of the requests that may still put the row back. *)
RefundsKept ==
    platform = "google" =>
        \A tx \in told :
            record[tx] # NoUser \/ (\E r \in Requests : About(r, tx)) => tx \in excused

Ledger == Known /\ Counted /\ NoneConsumedUnrecorded /\ RefundsKept

IInv == TypeOK /\ Lists /\ InOrder /\ Serial /\ Ledger /\ OneCopy

HistoryTyped ==
    /\ refunded' \subseteq Txs /\ consumed' \subseteq Txs /\ due' \subseteq Txs
    /\ granted' \in [Txs -> 0..2]
    /\ overtook' \subseteq Txs /\ told' \subseteq refunded' /\ excused' \subseteq told'
    /\ dropped' \subseteq due'
    /\ acts' \in 0..MaxActs /\ crashes' \in 0..MaxCrashes

(* However the rows move, nobody gets a second copy of a non-consumable. *)
LEMMA CopiesKept ==
    ASSUME TypeOK, OneCopy, RowsMove, UNCHANGED type
    PROVE  OneCopy'
<1>0. record \in [Txs -> Users \cup {NoUser}]
  BY DEF TypeOK
<1>1. CASE record' = record
  BY <1>1 DEF OneCopy
<1>2. ASSUME NEW tx \in Txs, NEW user \in Users, Puts(tx, user) PROVE OneCopy'
  BY <1>0, <1>2 DEF OneCopy, Puts
<1>3. ASSUME NEW txs \in SUBSET Txs, Drops(txs) PROVE OneCopy'
  BY <1>0, <1>3 DEF OneCopy, Drops
<1> QED
  BY <1>1, <1>2, <1>3 DEF RowsMove

(* A step keeps the invariant if it keeps the parts of it. *)
LEMMA InvariantKept ==
    ASSUME IInv, UNCHANGED deployment, StoreMoves, ProcessTyped, LineKept, HistoryTyped, Ledger'
    PROVE  IInv'
<1>1. TypeOK'
  <2>1. record' \in [Txs -> Users \cup {NoUser}]
    BY RowsTyped DEF IInv, StoreMoves
  <2> QED
    BY <2>1 DEF IInv, TypeOK, deployment, StoreMoves, ProcessTyped, HistoryTyped, Active, Answered
<1>2. InOrder' /\ Serial'
  BY LineInductive DEF IInv
<1>3. OneCopy'
  BY CopiesKept DEF IInv, StoreMoves, deployment
<1> QED
  BY <1>1, <1>2, <1>3 DEF IInv, StoreMoves

(* An answer of the route, and what it leaves of the request. *)
LEMMA Ends ==
    ASSUME TypeOK, NEW r \in Requests, NEW answer \in Answers, Answer(r, answer),
           ~At(r, "waiting"), UNCHANGED overtook
    PROVE  /\ ProcessTyped /\ LineKept /\ OthersStay(r) /\ KnownOf(r)' /\ ~InLine(r)'
           /\ request'[r].pc = "answered" /\ request'[r].answer = answer
<1>1. /\ ProcessTyped /\ OthersStay(r) /\ Release(r)
      /\ request'[r].pc = "answered" /\ request'[r].answer = answer
  BY AnswerFacts
<1>2. ~InLine(r)' /\ KnownOf(r)'
  BY <1>1 DEF InLine, Holding, KnownOf
<1>3. Leaves(r)
  BY <1>1, <1>2 DEF Leaves
<1> QED
  BY <1>1, <1>2, <1>3 DEF LineKept

(* A step of the route to its next await. *)
LEMMA Goes ==
    ASSUME TypeOK, NEW r \in Requests, Running(r),
           NEW pc \in {"receipt", "lookup", "reassign", "save", "select", "restoreOwned"},
           GoTo(r, pc), InLine(r) <=> pc # "receipt", overtook \subseteq overtook',
           ~At(r, "waiting") \/ ahead[r] = {} \/ request[r].tx \in overtook'
    PROVE  /\ ProcessTyped /\ LineKept /\ OthersStay(r) /\ (InLine(r)' <=> InLine(r))
           /\ request[r] \in Active /\ request'[r] \in Active
           /\ request'[r].pc = pc /\ request'[r].tx = request[r].tx
           /\ request'[r].user = request[r].user /\ request'[r].gone = request[r].gone
<1>1. pc \in Holding \cup {"receipt"}
  BY DEF Holding
<1>2. /\ ProcessTyped /\ OthersStay(r) /\ UNCHANGED <<tail, ahead>>
      /\ request[r] \in Active /\ request'[r] \in Active
      /\ request'[r].pc = pc /\ request'[r].tx = request[r].tx
      /\ request'[r].user = request[r].user /\ request'[r].gone = request[r].gone
  BY <1>1, GoToFacts
<1>3. InLine(r)' <=> InLine(r)
  BY <1>2 DEF InLine, Holding
<1>4. Stays
  BY <1>2, <1>3 DEF Stays, OthersStay, InLine, At
<1> QED
  BY <1>2, <1>3, <1>4 DEF LineKept

(* A step of a request that grants nothing: it may put the row it is about. *)
LEMMA LedgerKept ==
    ASSUME IInv, NEW r \in Requests, OthersStay(r), KnownOf(r)',
           UNCHANGED <<deployment, due, granted, dropped, told, excused>>,
           overtook \subseteq overtook',
           \A tx \in Txs : record[tx] # NoUser => record'[tx] # NoUser,
           \A tx \in Txs : record'[tx] # NoUser => record[tx] # NoUser \/ About(r, tx),
           \A tx \in told : About(r, tx)' => About(r, tx) \/ platform # "google"
    PROVE  Ledger'
<1>0. TypeOK
  BY DEF IInv
<1>1. Known'
  <2> SUFFICES ASSUME NEW s \in Requests PROVE KnownOf(s)'
    BY DEF Known
  <2>1. CASE s = r
    BY <2>1
  <2>2. CASE s # r
    <3>1. request'[s] = request[s] /\ KnownOf(s)
      BY <2>2 DEF OthersStay, IInv, Ledger, Known
    <3>2. Running(s) => request[s].tx \in Txs
      BY <1>0, RunningIsActive DEF Active
    <3> QED
      BY <3>1, <3>2 DEF KnownOf, Running, Consumable, deployment
  <2> QED
    BY <2>1, <2>2
<1>2. Counted'
  BY DEF IInv, Ledger, Counted, TypeOK
<1>3. NoneConsumedUnrecorded'
  BY DEF IInv, Ledger, NoneConsumedUnrecorded, TypeOK
<1>4. RefundsKept'
  <2> SUFFICES ASSUME platform = "google", NEW tx \in told,
                      record'[tx] # NoUser \/ \E s \in Requests : About(s, tx)'
               PROVE  tx \in excused
    BY DEF RefundsKept, deployment
  <2>0. tx \in Txs
    BY <1>0 DEF TypeOK
  <2>1. \A s \in Requests : About(s, tx)' => About(s, tx)
    BY DEF OthersStay, About, InLine
  <2>2. record[tx] # NoUser \/ \E s \in Requests : About(s, tx)
    BY <2>0, <2>1
  <2> QED
    BY <2>2 DEF IInv, Ledger, RefundsKept
<1> QED
  BY <1>1, <1>2, <1>3, <1>4 DEF Ledger

(* An answer "new", with the row there or deleted since. *)
LEMMA GrantKept ==
    ASSUME IInv, NEW r \in Requests, request[r].pc \in {"save", "select"}, Granted(r),
           UNCHANGED deployment,
           \A tx \in Txs : record[tx] # NoUser => record'[tx] # NoUser,
           \A tx \in Txs : record'[tx] # NoUser => record[tx] # NoUser \/ About(r, tx),
           request[r].gone \/ record'[request[r].tx] # NoUser
    PROVE  /\ ProcessTyped /\ LineKept /\ HistoryTyped /\ Ledger'
           /\ request'[r].pc = "answered"
<1>0. TypeOK
  BY DEF IInv
<1>1. PICK tx \in Txs : tx = request[r].tx
  BY <1>0, RunningIsActive DEF Running, Active
<1>2. /\ Answer(r, "new") /\ ConsumeAfterSave(tx, TRUE)
      /\ granted' = IF request[r].gone \/ granted[tx] = 2 THEN granted
                    ELSE [granted EXCEPT ![tx] = @ + 1]
      /\ dropped' = IF request[r].gone THEN dropped \cup ({tx} \cap due') ELSE dropped
      /\ UNCHANGED <<overtook, told, excused, acts, crashes>>
  BY <1>1 DEF Granted, CountGrant
<1>3. /\ ProcessTyped /\ LineKept /\ OthersStay(r) /\ KnownOf(r)' /\ ~InLine(r)'
      /\ request'[r].pc = "answered"
  BY <1>0, <1>2, Ends DEF Answers, Valid, At
<1>4. /\ due' \subseteq due \cup {tx} /\ due \subseteq due' /\ UNCHANGED <<refunded, consumed>>
  BY <1>2 DEF ConsumeAfterSave
<1>5. granted \in [Txs -> 0..2] /\ dropped \subseteq due
  BY <1>0 DEF TypeOK
<1>6. granted' \in [Txs -> 0..2]
  <2>1. granted[tx] # 2 => granted[tx] + 1 \in 0..2
    BY <1>5
  <2> QED
    BY <1>2, <1>5, <2>1
<1>7. HistoryTyped
  BY <1>0, <1>2, <1>4, <1>5, <1>6 DEF TypeOK, HistoryTyped
<1>8. About(r, tx) /\ ~At(r, "waiting")
  BY <1>1 DEF About, InLine, Holding, At
<1>9. Known'
  <2> SUFFICES ASSUME NEW s \in Requests, s # r PROVE KnownOf(s)'
    BY <1>3 DEF Known
  <2>1. request'[s] = request[s] /\ KnownOf(s)
    BY <1>3 DEF OthersStay, IInv, Ledger, Known
  <2>2. Running(s) => request[s].tx \in Txs
    BY <1>0, RunningIsActive DEF Active
  <2>3. ASSUME request[s].pc \in {"save", "select"}, request[s].tx \notin overtook
        PROVE  granted'[request[s].tx] = granted[request[s].tx]
    <3>1. request[s].tx # tx
      <4>1. About(s, request[s].tx) /\ ~At(s, "waiting")
        BY <2>3 DEF About, InLine, Holding, At
      <4> QED
        BY <1>1, <1>8, <2>3, <4>1, OneInside DEF IInv
    <3>2. request[s].tx \in Txs
      BY <2>2, <2>3 DEF Running
    <3> QED
      BY <1>2, <1>5, <3>1, <3>2
  <2>4. request[s].pc \in {"owned", "reassign", "restoreOwned"} => ~Consumable'
    BY <2>1 DEF KnownOf, Consumable, deployment
  <2>5. request[s].pc \in {"reassign", "select"} =>
            request[s].gone \/ record'[request[s].tx] # NoUser
    BY <2>1, <2>2 DEF KnownOf, Running
  <2>6. request[s].pc \in {"save", "select"} =>
            \/ request[s].gone
            \/ request[s].tx \in overtook
            \/ granted'[request[s].tx] = 0
    BY <2>1, <2>3 DEF KnownOf
  <2> QED
    BY <1>2, <2>1, <2>4, <2>5, <2>6 DEF KnownOf
<1>10. Counted'
  <2> SUFFICES ASSUME NEW t \in Txs
               PROVE  /\ granted'[t] > 0 => record'[t] # NoUser
                      /\ t \notin overtook' => granted'[t] <= 1
    BY DEF Counted
  <2>0. /\ granted[t] > 0 => record[t] # NoUser
        /\ t \notin overtook => granted[t] <= 1
    BY DEF IInv, Ledger, Counted
  <2>1. CASE t # tx \/ request[r].gone
    <3>1. granted'[t] = granted[t]
      BY <1>2, <1>5, <2>1
    <3> QED
      BY <1>2, <2>0, <3>1
  <2>2. CASE t = tx /\ ~request[r].gone
    <3>1. record'[t] # NoUser
      BY <1>1, <2>2
    <3>2. tx \notin overtook => granted[tx] = 0
      BY <1>1, <2>2 DEF IInv, Ledger, Known, KnownOf
    <3>3. granted[tx] = 0 => granted'[tx] = 1
      BY <1>2, <1>5, <2>2
    <3> QED
      BY <1>2, <2>2, <3>1, <3>2, <3>3
  <2> QED
    BY <2>1, <2>2
<1>11. NoneConsumedUnrecorded'
  <2> SUFFICES ASSUME NEW t \in due' PROVE record'[t] # NoUser \/ t \in dropped'
    BY DEF NoneConsumedUnrecorded
  <2>1. CASE t \in due
    BY <1>0, <1>2, <2>1 DEF IInv, Ledger, NoneConsumedUnrecorded, TypeOK
  <2>2. CASE t = tx
    BY <1>1, <1>2, <2>2
  <2> QED
    BY <1>4, <2>1, <2>2
<1>12. RefundsKept'
  <2> SUFFICES ASSUME platform = "google", NEW t \in told,
                      record'[t] # NoUser \/ \E s \in Requests : About(s, t)'
               PROVE  t \in excused
    BY <1>2 DEF RefundsKept, deployment
  <2>0. t \in Txs
    BY <1>0 DEF TypeOK
  <2>1. \A s \in Requests : About(s, t)' => About(s, t)
    BY <1>3 DEF OthersStay, About, InLine
  <2>2. record[t] # NoUser \/ \E s \in Requests : About(s, t)
    BY <2>0, <2>1
  <2> QED
    BY <2>2 DEF IInv, Ledger, RefundsKept
<1> QED
  BY <1>3, <1>7, <1>9, <1>10, <1>11, <1>12 DEF Ledger
-----------------------------------------------------------------------------
(* The steps of a request. *)

(* The rows stay, but for one that a request in line may add. *)
RowsKept(r) ==
    \A tx \in Txs :
        /\ record[tx] # NoUser => record'[tx] # NoUser
        /\ record'[tx] # NoUser => record[tx] # NoUser \/ About(r, tx)

(* A step that answers a request, and grants nothing, keeps the invariant. *)
LEMMA EndsStep ==
    ASSUME IInv, NEW r \in Requests, NEW answer \in Answers, Answer(r, answer),
           ~At(r, "waiting"), StoreMoves, RowsKept(r), UNCHANGED <<deployment, appStore, history>>
    PROVE  IInv'
<1>1. /\ ProcessTyped /\ LineKept /\ OthersStay(r) /\ KnownOf(r)' /\ ~InLine(r)'
  BY Ends DEF IInv, history
<1>2. HistoryTyped
  BY DEF IInv, TypeOK, HistoryTyped, appStore, history
<1>3. Ledger'
  BY <1>1, LedgerKept DEF RowsKept, appStore, history, About
<1> QED
  BY <1>1, <1>2, <1>3, InvariantKept

(* A step to the next await keeps the invariant if the request knows what it needs there. *)
LEMMA GoesStep ==
    ASSUME IInv, NEW r \in Requests, Running(r),
           NEW pc \in {"receipt", "lookup", "reassign", "save", "select", "restoreOwned"},
           GoTo(r, pc), InLine(r) <=> pc # "receipt",
           ~At(r, "waiting") \/ ahead[r] = {}, KnownOf(r)',
           StoreMoves, RowsKept(r), UNCHANGED <<deployment, appStore, history>>
    PROVE  IInv'
<1>1. /\ ProcessTyped /\ LineKept /\ OthersStay(r) /\ (InLine(r)' <=> InLine(r))
      /\ request'[r].tx = request[r].tx
  BY Goes DEF IInv, history
<1>2. HistoryTyped
  BY DEF IInv, TypeOK, HistoryTyped, appStore, history
<1>3. Ledger'
  BY <1>1, LedgerKept DEF RowsKept, appStore, history, About
<1> QED
  BY <1>1, <1>2, <1>3, InvariantKept

(* A step that leaves the store alone keeps its rows. *)
LEMMA StoreLeft ==
    ASSUME IInv, NEW r, UNCHANGED <<deployment, store>>
    PROVE  StoreMoves /\ RowsKept(r)
BY StoreStays DEF IInv, deployment, store, RowsKept

(* Post keeps the invariant. *)
LEMMA PostKeeps ==
    ASSUME IInv, NEW r \in Requests, NEW tx \in Txs, NEW user \in Users, Post(r, tx, user)
    PROVE  IInv'
<1>0. TypeOK /\ request \in [Requests -> {Idle} \cup Active \cup Answered]
  BY DEF IInv, TypeOK, Active, Answered
<1>1. /\ request'[r] = [pc |-> IF Consumable THEN "receipt" ELSE "owned",
                        tx |-> tx, user |-> user, spent |-> FALSE, gone |-> FALSE]
      /\ OthersStay(r) /\ UNCHANGED <<tail, ahead>>
  BY <1>0 DEF Post, OthersStay
<1>2. request'[r] \in Active
  BY <1>1 DEF Active
<1>3. ProcessTyped
  BY <1>0, <1>1, <1>2 DEF Post, ProcessTyped, TypeOK
<1>4. ~InLine(r) /\ ~InLine(r)'
  BY <1>1 DEF Post, At, InLine, Holding
<1>5. LineKept
  BY <1>1, <1>4 DEF LineKept, Stays, OthersStay, InLine, Post, history, At
<1>6. StoreMoves /\ RowsKept(r) /\ UNCHANGED <<deployment, appStore, history>>
  BY StoreLeft DEF Post
<1>7. KnownOf(r)'
  BY <1>1, <1>6 DEF KnownOf, Consumable, deployment
<1>8. HistoryTyped
  BY <1>0, <1>6 DEF TypeOK, HistoryTyped, appStore, history
<1>9. \A t \in told : ~About(r, t)'
  BY <1>4 DEF About
<1>10. UNCHANGED <<due, granted, dropped, told, excused, overtook>> /\ UNCHANGED deployment
  BY <1>6 DEF appStore, history
<1>11. Ledger'
  BY <1>1, <1>6, <1>7, <1>9, <1>10, LedgerKept DEF RowsKept
<1> QED
  BY <1>3, <1>5, <1>6, <1>8, <1>10, <1>11, InvariantKept

(* CheckOwned keeps the invariant. *)
LEMMA CheckOwnedKeeps ==
    ASSUME IInv, NEW r \in Requests, CheckOwned(r)
    PROVE  IInv'
<1>1. StoreMoves /\ RowsKept(r) /\ UNCHANGED <<deployment, appStore, history>>
  BY StoreLeft DEF CheckOwned
<1>2. At(r, "owned") /\ ~At(r, "waiting") /\ Running(r) /\ ~InLine(r)
  BY DEF CheckOwned, At, Running, InLine, Holding
<1>3. CASE Answer(r, "restored")
  BY <1>1, <1>2, <1>3, EndsStep DEF Answers, Valid
<1>4. CASE GoTo(r, "receipt")
  <2>1. request'[r].pc = "receipt"
    BY <1>1, <1>2, <1>4, Goes DEF IInv, history
  <2>2. KnownOf(r)'
    BY <2>1 DEF KnownOf
  <2> QED
    BY <1>1, <1>2, <1>4, <2>2, GoesStep
<1> QED
  BY <1>3, <1>4 DEF CheckOwned

(* AcceptReceipt keeps the invariant: a refund Google reports keeps the request out of the line. *)
LEMMA AcceptReceiptKeeps ==
    ASSUME IInv, NEW r \in Requests, AcceptReceipt(r)
    PROVE  IInv'
<1>0. TypeOK /\ request \in [Requests -> {Idle} \cup Active \cup Answered]
  BY DEF IInv, TypeOK, Active, Answered
<1>1. StoreMoves /\ RowsKept(r) /\ UNCHANGED <<deployment, appStore, history>>
  BY StoreLeft DEF AcceptReceipt
<1>2. At(r, "receipt") /\ ~At(r, "waiting") /\ Running(r) /\ ~InLine(r)
  BY DEF AcceptReceipt, At, Running, InLine, Holding
<1>3. CASE Answer(r, "conflict")
  BY <1>1, <1>2, <1>3, EndsStep DEF Answers
<1>4. CASE ~Answer(r, "conflict")
  <2>0. request[r] \in Active
    BY <1>0, <1>2, RunningIsActive
  <2>1. PICK tx \in Txs : tx = request[r].tx
    BY <2>0 DEF Active
  <2>2. PICK spent \in BOOLEAN : spent = AlreadyConsumed(tx)
    BY DEF AlreadyConsumed
  <2>3. /\ request' = [request EXCEPT ![r].pc = "waiting", ![r].spent = spent]
        /\ Enter(r, tx) /\ StillPaid(tx)
    BY <1>4, <2>1, <2>2 DEF AcceptReceipt
  <2>4. request'[r] = [request[r] EXCEPT !.pc = "waiting", !.spent = spent]
    BY <1>0, <2>3
  <2>5. request'[r] \in Active /\ request'[r].pc = "waiting" /\ request'[r].tx = tx
    BY <2>0, <2>1, <2>4 DEF Active, Holding
  <2>6. OthersStay(r) /\ request' \in [Requests -> {Idle} \cup Active \cup Answered]
    BY <1>0, <2>3, <2>4, <2>5 DEF OthersStay
  <2>7. ProcessTyped
    BY <1>0, <2>3, <2>6 DEF ProcessTyped, Enter, Line, TypeOK
  <2>8. Joins(r, tx)
    BY <1>1, <1>2, <2>3, <2>5, <2>6 DEF Joins, history
  <2>9. HistoryTyped
    BY <1>0, <1>1 DEF TypeOK, HistoryTyped, appStore, history
  <2>10. KnownOf(r)'
    BY <2>5 DEF KnownOf
  <2>11. \A t \in told : About(r, t)' => About(r, t) \/ platform # "google"
    BY <1>0, <2>3, <2>5 DEF About, InLine, StillPaid, TypeOK
  <2>12. Ledger'
    BY <1>1, <2>6, <2>10, <2>11, LedgerKept DEF RowsKept, appStore, history
  <2> QED
    BY <1>1, <2>7, <2>8, <2>9, <2>12, InvariantKept DEF LineKept
<1> QED
  BY <1>3, <1>4

(* RefuseReceipt keeps the invariant. *)
LEMMA RefuseReceiptKeeps ==
    ASSUME IInv, NEW r \in Requests, RefuseReceipt(r)
    PROVE  IInv'
<1>1. StoreMoves /\ RowsKept(r) /\ UNCHANGED <<deployment, appStore, history>>
  BY StoreLeft DEF RefuseReceipt
<1>2. ~At(r, "waiting")
  BY DEF RefuseReceipt, At
<1>3. \E answer \in Answers : Answer(r, answer)
  BY DEF RefuseReceipt, GoogleUnavailable, Answers
<1> QED
  BY <1>1, <1>2, <1>3, EndsStep

(* Proceed keeps the invariant. *)
LEMMA ProceedKeeps ==
    ASSUME IInv, NEW r \in Requests, Proceed(r)
    PROVE  IInv'
<1>1. StoreMoves /\ RowsKept(r) /\ UNCHANGED <<deployment, appStore, history>>
  BY StoreLeft DEF Proceed
<1>2. At(r, "waiting") /\ Running(r) /\ InLine(r) /\ ahead[r] = {} /\ GoTo(r, "lookup")
  BY DEF Proceed, Turn, At, Running, InLine, Holding
<1>3. request'[r].pc = "lookup"
  BY <1>2, <1>1, Goes DEF IInv, history
<1>4. KnownOf(r)'
  BY <1>3 DEF KnownOf
<1> QED
  BY <1>1, <1>2, <1>4, GoesStep

(* Overtake keeps the invariant. *)
LEMMA OvertakeKeeps ==
    ASSUME IInv, NEW r \in Requests, Overtake(r)
    PROVE  IInv'
<1>0. TypeOK
  BY DEF IInv
<1>1. /\ StoreMoves /\ RowsKept(r)
      /\ UNCHANGED <<deployment, appStore, granted, dropped, told, excused, acts, crashes>>
  BY StoreLeft DEF Overtake
<1>2. /\ Running(r) /\ InLine(r) /\ GoTo(r, "lookup")
      /\ overtook' = overtook \cup {request[r].tx}
  BY DEF Overtake, At, Running, InLine, Holding
<1>3. /\ ProcessTyped /\ LineKept /\ OthersStay(r) /\ (InLine(r)' <=> InLine(r))
      /\ request'[r].pc = "lookup" /\ request'[r].tx = request[r].tx
  BY <1>0, <1>2, Goes
<1>4. KnownOf(r)'
  BY <1>3 DEF KnownOf
<1>5. request[r].tx \in Txs
  BY <1>0, <1>2, RunningIsActive DEF Active
<1>6. HistoryTyped
  BY <1>0, <1>1, <1>2, <1>5 DEF TypeOK, HistoryTyped, appStore
<1>7. Ledger'
  BY <1>1, <1>2, <1>3, <1>4, LedgerKept DEF RowsKept, appStore, About
<1> QED
  BY <1>1, <1>3, <1>6, <1>7, InvariantKept

(* Lookup keeps the invariant: a row that is not there has not been granted. *)
LEMMA LookupKeeps ==
    ASSUME IInv, NEW r \in Requests, Lookup(r)
    PROVE  IInv'
<1>0. TypeOK
  BY DEF IInv
<1>1. /\ StoreMoves /\ RowsKept(r) /\ UNCHANGED <<deployment, appStore, history>>
      /\ record' = record
  BY StoreLeft DEF Lookup, store
<1>2. /\ At(r, "lookup") /\ ~At(r, "waiting") /\ Running(r) /\ InLine(r)
      /\ request[r].tx \in Txs
  BY <1>0, RunningIsActive DEF Lookup, At, Running, InLine, Holding, Active
<1>3. CASE \E answer \in Answers : Answer(r, answer)
  BY <1>1, <1>2, <1>3, EndsStep
<1>4. CASE record[request[r].tx] = NoUser /\ GoTo(r, "save")
  <2>1. request'[r].pc = "save" /\ request'[r].tx = request[r].tx
    BY <1>0, <1>1, <1>2, <1>4, Goes DEF history
  <2>2. granted[request[r].tx] = 0
    <3>1. granted[request[r].tx] \in 0..2 /\ ~(granted[request[r].tx] > 0)
      BY <1>0, <1>2, <1>4 DEF IInv, Ledger, Counted, TypeOK
    <3> QED
      BY <3>1
  <2>3. KnownOf(r)'
    BY <1>1, <2>1, <2>2 DEF KnownOf, history
  <2> QED
    BY <1>1, <1>2, <1>4, <2>3, GoesStep
<1>5. CASE record[request[r].tx] # NoUser /\ ~Consumable /\ GoTo(r, "reassign")
  <2>1. request'[r].pc = "reassign" /\ request'[r].tx = request[r].tx
    BY <1>0, <1>1, <1>2, <1>5, Goes DEF history
  <2>2. KnownOf(r)'
    BY <1>1, <1>5, <2>1 DEF KnownOf, Consumable, deployment
  <2> QED
    BY <1>1, <1>2, <1>5, <2>2, GoesStep
<1>6. \/ \E answer \in Answers : Answer(r, answer)
      \/ record[request[r].tx] = NoUser /\ GoTo(r, "save")
      \/ record[request[r].tx] # NoUser /\ ~Consumable /\ GoTo(r, "reassign")
  BY DEF Lookup, Answers, Valid
<1> QED
  BY <1>3, <1>4, <1>5, <1>6

(* A row put by a request in line, or moved, keeps every other row. *)
LEMMA PutKeepsRows ==
    ASSUME IInv, NEW r, NEW tx \in Txs, NEW user \in Users,
           record' = record \/ Puts(tx, user), record[tx] # NoUser \/ About(r, tx)
    PROVE  RowsKept(r)
<1>1. record \in [Txs -> Users \cup {NoUser}] /\ user # NoUser
  BY NoUserAssumption DEF IInv, TypeOK
<1> QED
  BY <1>1 DEF RowsKept, Puts

(* Reassign keeps the invariant. *)
LEMMA ReassignKeeps ==
    ASSUME IInv, NEW r \in Requests, Reassign(r)
    PROVE  IInv'
<1>0. TypeOK /\ Lists
  BY DEF IInv
<1>1. /\ At(r, "reassign") /\ ~At(r, "waiting") /\ Running(r) /\ InLine(r)
      /\ UNCHANGED <<deployment, appStore, history>>
      /\ UNCHANGED backend /\ UNCHANGED type
  BY DEF Reassign, At, Running, InLine, Holding, deployment
<1>2. PICK tx \in Txs, user \in Users : tx = request[r].tx /\ user = request[r].user
  BY <1>0, <1>1, RunningIsActive DEF Active
<1>3. IF backend = "memory" THEN Memory!ReassignPurchase(tx, user)
      ELSE Postgres!Update(tx, user) /\ UNCHANGED byUserId
  BY <1>2 DEF Reassign
<1>4. StoreMoves /\ (record' = record \/ (record[tx] # NoUser /\ Puts(tx, user)))
  BY <1>0, <1>1, <1>3, StoreReassigns
<1>5. RowsKept(r)
  BY <1>1, <1>2, <1>4, PutKeepsRows DEF About
<1>6. CASE Answer(r, "restored")
  BY <1>1, <1>4, <1>5, <1>6, EndsStep DEF Answers, Valid
<1>7. CASE GoTo(r, "restoreOwned")
  <2>1. request'[r].pc = "restoreOwned"
    BY <1>0, <1>1, <1>7, Goes DEF history
  <2>2. ~Consumable
    BY <1>1 DEF IInv, Ledger, Known, KnownOf, At
  <2>3. KnownOf(r)'
    BY <1>1, <2>1, <2>2 DEF KnownOf, Consumable
  <2> QED
    BY <1>1, <1>4, <1>5, <1>7, <2>3, GoesStep
<1> QED
  BY <1>6, <1>7 DEF Reassign

(* SaveInMemory keeps the invariant. *)
LEMMA SaveInMemoryKeeps ==
    ASSUME IInv, NEW r \in Requests, SaveInMemory(r)
    PROVE  IInv'
<1>0. TypeOK /\ Lists
  BY DEF IInv
<1>1. /\ At(r, "save") /\ ~At(r, "waiting") /\ Running(r) /\ InLine(r)
      /\ backend = "memory" /\ UNCHANGED deployment
      /\ UNCHANGED backend /\ UNCHANGED type
  BY DEF SaveInMemory, At, Running, InLine, Holding, deployment
<1>2. PICK tx \in Txs, user \in Users : tx = request[r].tx /\ user = request[r].user
  BY <1>0, <1>1, RunningIsActive DEF Active
<1>3. Memory!SavePurchase(tx, user) /\ Saved(r, Memory!SaveAnswer(tx, user))
  BY <1>2 DEF SaveInMemory
<1>4. StoreMoves /\ (record' = record \/ (record[tx] = NoUser /\ Puts(tx, user)))
  BY <1>0, <1>1, <1>3, StoreSaves
<1>5. RowsKept(r)
  BY <1>1, <1>2, <1>4, PutKeepsRows DEF About
<1>6. CASE Memory!SaveAnswer(tx, user) = "ok"
  <2>1. Granted(r)
    BY <1>3, <1>6 DEF Saved
  <2>2. record'[tx] = user /\ user # NoUser
    BY <1>0, <1>1, <1>3, <1>6, MemorySave, NoUserAssumption DEF Lists
  <2>3. ProcessTyped /\ LineKept /\ HistoryTyped /\ Ledger'
    BY <1>1, <1>2, <1>5, <2>1, <2>2, GrantKept DEF RowsKept, At
  <2> QED
    BY <1>1, <1>4, <2>3, InvariantKept
<1>7. CASE Memory!SaveAnswer(tx, user) = "belongs_to_other"
  <2>1. Answer(r, "conflict") /\ UNCHANGED <<appStore, history>>
    BY <1>3, <1>7 DEF Saved
  <2> QED
    BY <1>1, <1>4, <1>5, <2>1, EndsStep DEF Answers
<1>8. CASE Memory!SaveAnswer(tx, user) = "already_owned"
  <2>1. GoTo(r, "restoreOwned") /\ UNCHANGED <<appStore, history>>
    BY <1>3, <1>8 DEF Saved
  <2>2. request'[r].pc = "restoreOwned"
    BY <1>0, <1>1, <2>1, Goes DEF history
  <2>3. ~Consumable
    BY <1>8 DEF Memory!SaveAnswer, Memory!OwnsNonConsumable, Consumable
  <2>4. KnownOf(r)'
    BY <1>1, <2>2, <2>3 DEF KnownOf, Consumable
  <2> QED
    BY <1>1, <1>4, <1>5, <2>1, <2>4, GoesStep
<1>9. Memory!SaveAnswer(tx, user) \in {"ok", "belongs_to_other", "already_owned"}
  BY DEF Memory!SaveAnswer
<1> QED
  BY <1>6, <1>7, <1>8, <1>9

(* SaveInPostgres keeps the invariant: the SELECT will find the row, or its deletion marked. *)
LEMMA SaveInPostgresKeeps ==
    ASSUME IInv, NEW r \in Requests, SaveInPostgres(r)
    PROVE  IInv'
<1>0. TypeOK /\ Lists
  BY DEF IInv
<1>1. /\ At(r, "save") /\ ~At(r, "waiting") /\ Running(r) /\ InLine(r)
      /\ backend # "memory" /\ UNCHANGED deployment
      /\ UNCHANGED backend /\ UNCHANGED type /\ UNCHANGED byUserId
  BY DEF SaveInPostgres, At, Running, InLine, Holding, deployment
<1>2. PICK tx \in Txs, user \in Users : tx = request[r].tx /\ user = request[r].user
  BY <1>0, <1>1, RunningIsActive DEF Active
<1>3. /\ Postgres!Insert(tx, user)
      /\ CASE Postgres!InsertAnswer(tx, user) = "inserted" -> Saved(r, "ok")
           [] Postgres!InsertAnswer(tx, user) = "exists" ->
                  GoTo(r, "select") /\ UNCHANGED <<appStore, history>>
           [] OTHER -> Saved(r, Postgres!InsertAnswer(tx, user))
  BY <1>2 DEF SaveInPostgres
<1>4. StoreMoves /\ (record' = record \/ (record[tx] = NoUser /\ Puts(tx, user)))
  BY <1>0, <1>1, <1>3, StoreSaves
<1>5. RowsKept(r)
  BY <1>1, <1>2, <1>4, PutKeepsRows DEF About
<1>6. CASE Postgres!InsertAnswer(tx, user) = "inserted"
  <2>1. Granted(r)
    BY <1>3, <1>6 DEF Saved
  <2>2. record'[tx] = user /\ user # NoUser
    BY <1>0, <1>1, <1>3, <1>6, PostgresInsert, NoUserAssumption
  <2>3. ProcessTyped /\ LineKept /\ HistoryTyped /\ Ledger'
    BY <1>1, <1>2, <1>5, <2>1, <2>2, GrantKept DEF RowsKept, At
  <2> QED
    BY <1>1, <1>4, <2>3, InvariantKept
<1>7. CASE Postgres!InsertAnswer(tx, user) = "exists"
  <2>1. GoTo(r, "select") /\ UNCHANGED <<appStore, history>>
    BY <1>3, <1>7
  <2>2. /\ request'[r].pc = "select" /\ request'[r].tx = request[r].tx
        /\ request'[r].gone = request[r].gone
    BY <1>0, <1>1, <2>1, Goes DEF history
  <2>3. record'[tx] # NoUser
    BY <1>0, <1>3, <1>7, PostgresInsert
  <2>4. KnownOf(r)
    BY DEF IInv, Ledger, Known
  <2>5. KnownOf(r)'
    BY <1>1, <1>2, <2>1, <2>2, <2>3, <2>4 DEF KnownOf, history, At
  <2> QED
    BY <1>1, <1>4, <1>5, <2>1, <2>5, GoesStep
<1>8. CASE Postgres!InsertAnswer(tx, user) = "already_owned"
  <2>1. GoTo(r, "restoreOwned") /\ UNCHANGED <<appStore, history>>
    BY <1>3, <1>8 DEF Saved
  <2>2. request'[r].pc = "restoreOwned"
    BY <1>0, <1>1, <2>1, Goes DEF history
  <2>3. ~Consumable
    BY <1>0, <1>3, <1>8, PostgresInsert DEF Consumable
  <2>4. KnownOf(r)'
    BY <1>1, <2>2, <2>3 DEF KnownOf, Consumable
  <2> QED
    BY <1>1, <1>4, <1>5, <2>1, <2>4, GoesStep
<1> QED
  BY <1>0, <1>3, <1>6, <1>7, <1>8, PostgresInsert

(* SelectOwner keeps the invariant. *)
LEMMA SelectOwnerKeeps ==
    ASSUME IInv, NEW r \in Requests, SelectOwner(r)
    PROVE  IInv'
<1>0. TypeOK
  BY DEF IInv
<1>1. /\ At(r, "select") /\ ~At(r, "waiting") /\ Running(r) /\ InLine(r)
      /\ UNCHANGED <<deployment, store>> /\ UNCHANGED deployment /\ UNCHANGED record
  BY DEF SelectOwner, At, Running, InLine, Holding, store
<1>2. StoreMoves /\ RowsKept(r)
  BY <1>1, StoreLeft
<1>3. CASE Granted(r)
  <2>1. request[r].gone \/ record'[request[r].tx] # NoUser
    BY <1>1 DEF IInv, Ledger, Known, KnownOf, At
  <2>2. ProcessTyped /\ LineKept /\ HistoryTyped /\ Ledger'
    BY <1>1, <1>2, <1>3, <2>1, GrantKept DEF RowsKept, At
  <2> QED
    BY <1>1, <1>2, <2>2, InvariantKept
<1>4. CASE Answer(r, "conflict") /\ UNCHANGED <<appStore, history>>
  BY <1>1, <1>2, <1>4, EndsStep DEF Answers
<1> QED
  BY <1>3, <1>4 DEF SelectOwner, Saved, Postgres!SelectAnswer

(* RestoreOwned keeps the invariant. *)
LEMMA RestoreOwnedKeeps ==
    ASSUME IInv, NEW r \in Requests, RestoreOwned(r)
    PROVE  IInv'
<1>1. StoreMoves /\ RowsKept(r) /\ UNCHANGED <<deployment, appStore, history>>
  BY StoreLeft DEF RestoreOwned
<1>2. ~At(r, "waiting")
  BY DEF RestoreOwned, At
<1>3. \E answer \in Answers : Answer(r, answer)
  BY DEF RestoreOwned, Answers, Valid
<1> QED
  BY <1>1, <1>2, <1>3, EndsStep

(* StoreFails keeps the invariant. *)
LEMMA StoreFailsKeeps ==
    ASSUME IInv, NEW r \in Requests, StoreFails(r)
    PROVE  IInv'
<1>0. TypeOK /\ Lists
  BY DEF IInv
<1>1. /\ ~At(r, "waiting") /\ Running(r) /\ backend # "memory"
      /\ UNCHANGED deployment /\ UNCHANGED history /\ UNCHANGED byUserId
      /\ UNCHANGED backend /\ UNCHANGED type
      /\ Answer(r, "error")
  BY DEF StoreFails, At, Running, Holding, deployment
<1>2. PICK tx \in Txs, user \in Users : tx = request[r].tx /\ user = request[r].user
  BY <1>0, <1>1, RunningIsActive DEF Active
<1>3. UNCHANGED appStore
  BY DEF StoreFails, ConsumeAfterSave, appStore
<1>4. StoreMoves /\ RowsKept(r)
  <2>1. CASE record' = record
    BY <1>0, <1>1, <2>1 DEF StoreMoves, RowsMove, RowsKept, TypeOK, Lists
  <2>2. CASE At(r, "save") /\ Postgres!Insert(tx, user)
    <3>1. StoreMoves /\ (record' = record \/ Puts(tx, user))
      BY <1>0, <1>1, <2>2, StoreSaves
    <3> QED
      BY <1>2, <2>2, <3>1, PutKeepsRows DEF About, InLine, Holding, At
  <2>3. CASE At(r, "reassign") /\ Postgres!Update(tx, user)
    <3>1. StoreMoves /\ (record' = record \/ Puts(tx, user))
      BY <1>0, <1>1, <2>3, StoreReassigns
    <3> QED
      BY <1>2, <2>3, <3>1, PutKeepsRows DEF About, InLine, Holding, At
  <2> QED
    BY <1>2, <2>1, <2>2, <2>3 DEF StoreFails
<1> QED
  BY <1>1, <1>3, <1>4, EndsStep DEF Answers
-----------------------------------------------------------------------------
(* Everyone else's steps. *)

(* Rows go, and the requests about them are marked. *)
LEMMA DeleteKept ==
    ASSUME IInv, NEW txs \in SUBSET Txs, Drops(txs), NoteDeleted(txs), MarkGone(txs),
           UNCHANGED <<type, due, tail, ahead, overtook>>
    PROVE  /\ ProcessTyped /\ LineKept
           /\ \A s \in Requests, t \in Txs : About(s, t)' <=> About(s, t)
           /\ granted' \in [Txs -> 0..2] /\ dropped' \subseteq due'
           /\ Known' /\ Counted' /\ NoneConsumedUnrecorded'
<1>0. TypeOK /\ request \in [Requests -> {Idle} \cup Active \cup Answered]
  BY DEF IInv, TypeOK, Active, Answered
<1>1. ASSUME NEW s \in Requests, Running(s), request[s].tx \in txs
      PROVE  /\ request[s] \in Active /\ request'[s] \in Active
             /\ request'[s].pc = request[s].pc /\ request'[s].tx = request[s].tx
             /\ request'[s].gone
  <2>1. request[s] \in Active
    BY <1>0, <1>1, RunningIsActive
  <2>2. request'[s] = [request[s] EXCEPT !.gone = TRUE]
    BY <1>1 DEF MarkGone
  <2> QED
    BY <2>1, <2>2 DEF Active
<1>2. ASSUME NEW s \in Requests, ~(Running(s) /\ request[s].tx \in txs)
      PROVE  request'[s] = request[s]
  BY <1>2 DEF MarkGone
<1>3. \A s \in Requests : request'[s].pc = request[s].pc
  BY <1>1, <1>2
<1>4. \A s \in Requests : request[s].pc \in Holding => request'[s].tx = request[s].tx
  BY <1>1, <1>2
<1>5. request' \in [Requests -> {Idle} \cup Active \cup Answered]
  BY <1>0, <1>1, <1>2 DEF MarkGone
<1>6. ProcessTyped
  BY <1>0, <1>5 DEF ProcessTyped, TypeOK
<1>7. LineKept
  BY <1>3, <1>4 DEF LineKept, Stays, InLine, At
<1>8. \A s \in Requests, t \in Txs : About(s, t)' <=> About(s, t)
  BY <1>3, <1>4 DEF About, InLine
<1>9. /\ granted \in [Txs -> 0..2] /\ record \in [Txs -> Users \cup {NoUser}]
      /\ granted' = [tx \in Txs |-> IF tx \in txs THEN 0 ELSE granted[tx]]
      /\ dropped' = dropped \cup (txs \cap due)
      /\ record' = [tx \in Txs |-> IF tx \in txs THEN NoUser ELSE record[tx]]
      /\ dropped \subseteq due /\ due \subseteq Txs
  BY <1>0 DEF TypeOK, NoteDeleted, Drops
<1>10. granted' \in [Txs -> 0..2] /\ dropped' \subseteq due'
  BY <1>9
<1>11. Known'
  <2> SUFFICES ASSUME NEW s \in Requests PROVE KnownOf(s)'
    BY DEF Known
  <2>0. KnownOf(s)
    BY DEF IInv, Ledger, Known
  <2>1. CASE Running(s) /\ request[s].tx \in txs
    BY <1>1, <2>0, <2>1 DEF KnownOf, Consumable
  <2>2. CASE ~(Running(s) /\ request[s].tx \in txs)
    <3>1. request'[s] = request[s]
      BY <1>2, <2>2
    <3>2. Running(s) =>
              /\ request[s].tx \in Txs \ txs
              /\ record'[request[s].tx] = record[request[s].tx]
              /\ granted'[request[s].tx] = granted[request[s].tx]
      BY <1>0, <1>9, <2>2, RunningIsActive DEF Active
    <3> QED
      BY <2>0, <3>1, <3>2 DEF KnownOf, Running, Consumable
  <2> QED
    BY <2>1, <2>2
<1>12. Counted'
  BY <1>9 DEF IInv, Ledger, Counted
<1>13. NoneConsumedUnrecorded'
  BY <1>9 DEF IInv, Ledger, NoneConsumedUnrecorded
<1> QED
  BY <1>6, <1>7, <1>8, <1>10, <1>11, <1>12, <1>13

(* RefundWebhook keeps the invariant. *)
LEMMA RefundWebhookKeeps ==
    ASSUME IInv, NEW tx \in Txs, RefundWebhook(tx)
    PROVE  IInv'
<1>0. TypeOK /\ Lists
  BY DEF IInv
<1>1. /\ UNCHANGED deployment /\ UNCHANGED <<backend, type, due, tail, ahead, overtook>>
      /\ UNCHANGED <<refunded, consumed, acts, crashes>>
      /\ NoteDeleted({tx}) /\ MarkGone({tx}) /\ tx \in refunded
      /\ told' = told \cup {tx}
      /\ excused' = IF \E r \in Requests : request[r].pc \in Holding /\ request[r].tx = tx
                    THEN excused \cup {tx} ELSE excused
  BY DEF RefundWebhook, deployment, appStore
<1>2. StoreMoves /\ Drops({tx})
  BY <1>0, <1>1, StoreDeletes DEF RefundWebhook
<1>3. /\ ProcessTyped /\ LineKept
      /\ \A s \in Requests, t \in Txs : About(s, t)' <=> About(s, t)
      /\ granted' \in [Txs -> 0..2] /\ dropped' \subseteq due'
      /\ Known' /\ Counted' /\ NoneConsumedUnrecorded'
  BY <1>1, <1>2, DeleteKept
<1>4. HistoryTyped
  BY <1>0, <1>1, <1>3 DEF HistoryTyped, TypeOK
<1>5. RefundsKept'
  <2> SUFFICES ASSUME platform = "google", NEW t \in told \cup {tx},
                      record'[t] # NoUser \/ \E s \in Requests : About(s, t)'
               PROVE  t \in excused'
    BY <1>1 DEF RefundsKept, deployment
  <2>0. t \in Txs /\ record'[tx] = NoUser /\ (t # tx => record'[t] = record[t])
    BY <1>0, <1>2 DEF TypeOK, Drops
  <2>1. record'[t] # NoUser \/ \E s \in Requests : About(s, t)
    BY <1>3, <2>0
  <2>2. CASE t = tx
    BY <1>1, <2>0, <2>1, <2>2 DEF About, InLine
  <2>3. CASE t # tx
    BY <1>1, <2>0, <2>1, <2>3 DEF IInv, Ledger, RefundsKept
  <2> QED
    BY <2>2, <2>3
<1> QED
  BY <1>1, <1>2, <1>3, <1>4, <1>5, InvariantKept DEF Ledger

(* AdminReset keeps the invariant. *)
LEMMA AdminResetKeeps ==
    ASSUME IInv, NEW user \in Users, AdminReset(user)
    PROVE  IInv'
<1>0. TypeOK /\ Lists
  BY DEF IInv
<1>t. PICK txs \in SUBSET Txs : txs = {tx \in Txs : record[tx] = user}
  OBVIOUS
<1>1. /\ UNCHANGED deployment /\ UNCHANGED <<backend, type, due, tail, ahead, overtook>>
      /\ UNCHANGED <<refunded, consumed, told, excused, crashes>>
      /\ NoteDeleted(txs) /\ MarkGone(txs)
      /\ acts < MaxActs /\ acts' = acts + 1
  BY <1>t DEF AdminReset, Act, deployment, appStore
<1>2. StoreMoves /\ Drops(txs)
  BY <1>0, <1>t, <1>1, StoreDeletesAll DEF AdminReset
<1>3. /\ ProcessTyped /\ LineKept
      /\ \A s \in Requests, t \in Txs : About(s, t)' <=> About(s, t)
      /\ granted' \in [Txs -> 0..2] /\ dropped' \subseteq due'
      /\ Known' /\ Counted' /\ NoneConsumedUnrecorded'
  BY <1>1, <1>2, DeleteKept
<1>4. acts' \in 0..MaxActs
  BY <1>0, <1>1, BoundsAssumption DEF TypeOK
<1>5. HistoryTyped
  BY <1>0, <1>1, <1>3, <1>4 DEF HistoryTyped, TypeOK
<1>6. RefundsKept'
  <2> SUFFICES ASSUME platform = "google", NEW t \in told,
                      record'[t] # NoUser \/ \E s \in Requests : About(s, t)'
               PROVE  t \in excused
    BY <1>1 DEF RefundsKept, deployment
  <2>0. t \in Txs /\ (record'[t] # NoUser => record[t] # NoUser)
    BY <1>0, <1>2 DEF TypeOK, Drops
  <2> QED
    BY <1>3, <2>0 DEF IInv, Ledger, RefundsKept
<1> QED
  BY <1>1, <1>2, <1>3, <1>5, <1>6, InvariantKept DEF Ledger

(* A step that leaves the requests alone and deletes no row. *)
LEMMA AsideKept ==
    ASSUME IInv, UNCHANGED <<deployment, due, process, granted, dropped, told, overtook>>,
           UNCHANGED deployment, excused \subseteq excused',
           \A tx \in Txs : record[tx] # NoUser => record'[tx] # NoUser,
           \A tx \in Txs : record'[tx] # NoUser =>
               record[tx] # NoUser \/ tx \notin told \/ tx \in excused'
    PROVE  ProcessTyped /\ LineKept /\ Ledger'
<1>0. TypeOK /\ Ledger
  BY DEF IInv
<1>1. UNCHANGED <<request, tail, ahead>> /\ UNCHANGED <<platform, type>>
  BY DEF process, deployment
<1>2. ProcessTyped
  BY <1>0, <1>1 DEF ProcessTyped, TypeOK, Active, Answered
<1>3. LineKept
  BY <1>1 DEF LineKept, Stays, InLine, At
<1>4. Known'
  <2> SUFFICES ASSUME NEW s \in Requests PROVE KnownOf(s)'
    BY DEF Known
  <2>1. Running(s) => request[s].tx \in Txs
    BY <1>0, RunningIsActive DEF Active
  <2> QED
    BY <1>0, <1>1, <2>1 DEF Ledger, Known, KnownOf, Running, Consumable
<1>5. Counted'
  BY <1>0 DEF Ledger, Counted
<1>6. NoneConsumedUnrecorded'
  BY <1>0 DEF Ledger, NoneConsumedUnrecorded, TypeOK
<1>7. RefundsKept'
  BY <1>0, <1>1 DEF Ledger, RefundsKept, About, InLine, TypeOK
<1> QED
  BY <1>2, <1>3, <1>4, <1>5, <1>6, <1>7 DEF Ledger

(* Refund and Consume keep the invariant. *)
LEMMA RefundKeeps ==
    ASSUME IInv, NEW tx \in Txs, Refund(tx) \/ Consume(tx)
    PROVE  IInv'
<1>0. TypeOK
  BY DEF IInv
<1>1. /\ UNCHANGED <<deployment, store>> /\ UNCHANGED deployment
      /\ UNCHANGED <<due, process, granted, dropped, told, overtook, excused, acts, crashes>>
      /\ record' = record
      /\ refunded \subseteq refunded' /\ refunded' \subseteq Txs /\ consumed' \subseteq Txs
  BY <1>0 DEF Refund, Consume, TypeOK, history, store
<1>2. StoreMoves
  BY <1>1, StoreLeft
<1>3. ProcessTyped /\ LineKept /\ Ledger'
  BY <1>1, AsideKept
<1>4. HistoryTyped
  BY <1>0, <1>1 DEF HistoryTyped, TypeOK
<1> QED
  BY <1>1, <1>2, <1>3, <1>4, InvariantKept

(* AdminTransfer keeps the invariant. *)
LEMMA AdminTransferKeeps ==
    ASSUME IInv, NEW tx \in Txs, NEW user \in Users, AdminTransfer(tx, user)
    PROVE  IInv'
<1>0. TypeOK /\ Lists
  BY DEF IInv
<1>1. /\ UNCHANGED deployment /\ UNCHANGED backend
      /\ UNCHANGED <<refunded, consumed, due, process, granted, dropped, told, overtook, excused,
                     crashes>>
      /\ acts < MaxActs /\ acts' = acts + 1 /\ record[tx] # NoUser
  BY DEF AdminTransfer, Act, deployment, appStore
<1>2. StoreMoves /\ (record' = record \/ (record[tx] # NoUser /\ Puts(tx, user)))
  BY <1>0, <1>1, StoreReassigns DEF AdminTransfer
<1>3. RowsKept(NoRequest)
  BY <1>1, <1>2, PutKeepsRows
<1>4. \A t \in Txs : record'[t] # NoUser => record[t] # NoUser
  BY <1>0, <1>1, <1>2 DEF TypeOK, Puts
<1>5. ProcessTyped /\ LineKept /\ Ledger'
  BY <1>1, <1>3, <1>4, AsideKept DEF RowsKept
<1>6. acts' \in 0..MaxActs
  BY <1>0, <1>1, BoundsAssumption DEF TypeOK
<1>7. HistoryTyped
  BY <1>0, <1>1, <1>6 DEF HistoryTyped, TypeOK
<1> QED
  BY <1>1, <1>2, <1>5, <1>7, InvariantKept

(* AdminGrant keeps the invariant. *)
LEMMA AdminGrantKeeps ==
    ASSUME IInv, NEW tx \in Txs, NEW user \in Users, AdminGrant(tx, user)
    PROVE  IInv'
<1>0. TypeOK /\ Lists /\ user # NoUser
  BY NoUserAssumption DEF IInv
<1>1. /\ UNCHANGED deployment /\ UNCHANGED backend
      /\ UNCHANGED <<refunded, consumed, due, process, granted, dropped, told, overtook, crashes>>
      /\ acts < MaxActs /\ acts' = acts + 1 /\ excused' = excused \cup ({tx} \cap told)
  BY DEF AdminGrant, Act, deployment, appStore
<1>2. StoreMoves /\ (record' = record \/ (record[tx] = NoUser /\ Puts(tx, user)))
  BY <1>0, <1>1, StoreSaves DEF AdminGrant
<1>3. /\ \A t \in Txs : record[t] # NoUser => record'[t] # NoUser
      /\ \A t \in Txs : record'[t] # NoUser => record[t] # NoUser \/ t = tx
  BY <1>0, <1>2 DEF TypeOK, Puts
<1>4. ProcessTyped /\ LineKept /\ Ledger'
  BY <1>1, <1>3, AsideKept
<1>5. acts' \in 0..MaxActs
  BY <1>0, <1>1, BoundsAssumption DEF TypeOK
<1>6. HistoryTyped
  BY <1>0, <1>1, <1>5 DEF HistoryTyped, TypeOK
<1> QED
  BY <1>1, <1>2, <1>4, <1>6, InvariantKept

(* Crash keeps the invariant: rows in memory go with the requests about them. *)
LEMMA CrashKeeps ==
    ASSUME IInv, Crash
    PROVE  IInv'
<1>0. TypeOK /\ Lists /\ Ledger
  BY DEF IInv
<1>1. /\ UNCHANGED deployment /\ UNCHANGED <<platform, backend, type, overtook, told, excused, acts>>
      /\ UNCHANGED <<refunded, consumed, due>>
      /\ crashes < MaxCrashes /\ crashes' = crashes + 1
      /\ request' = [r \in Requests |->
             IF Running(r) THEN [pc |-> "answered", answer |-> "lost"] ELSE request[r]]
      /\ tail' = [tx \in Txs |-> NoRequest] /\ ahead' = [r \in Requests |-> {}]
  BY DEF Crash, deployment, appStore
<1>2. request \in [Requests -> {Idle} \cup Active \cup Answered]
  BY <1>0 DEF TypeOK, Active, Answered
<1>3. [pc |-> "answered", answer |-> "lost"] \in Answered
  BY DEF Answered, Answers
<1>4. ProcessTyped
  BY <1>1, <1>2, <1>3 DEF ProcessTyped
<1>5. \A r \in Requests : ~Running(r)'
  BY <1>1 DEF Running
<1>6. \A r \in Requests : ~InLine(r)'
  BY <1>5 DEF Running, InLine, Holding
<1>7. LineKept
  BY <1>1, <1>6 DEF LineKept, Cut
<1>8. Known'
  BY <1>5 DEF Known, KnownOf, Running
<1>9. CASE backend = "memory"
  <2>1. /\ record' = [tx \in Txs |-> NoUser] /\ byUserId' = [user \in Users |-> << >>]
        /\ granted' = [tx \in Txs |-> 0] /\ dropped' = dropped \cup (Txs \cap due)
    BY <1>9 DEF Crash, NoteDeleted
  <2>2. Drops(Txs) /\ byUserId' \in [Users -> Seq(Txs)]
    BY <2>1 DEF Drops
  <2>3. Memory!ListsAgree'
    BY <2>1, NoUserAssumption DEF Memory!ListsAgree, Memory!ToSet
  <2>4. StoreMoves
    BY <2>2, <2>3 DEF StoreMoves, RowsMove, Lists
  <2>5. HistoryTyped
    <3>1. crashes' \in 0..MaxCrashes
      BY <1>0, <1>1, BoundsAssumption DEF TypeOK
    <3> QED
      BY <1>0, <1>1, <2>1, <3>1 DEF HistoryTyped, TypeOK
  <2>6. Counted' /\ NoneConsumedUnrecorded'
    BY <1>0, <1>1, <2>1 DEF Counted, NoneConsumedUnrecorded, TypeOK
  <2>7. RefundsKept'
    <3>1. \A tx \in told : record'[tx] = NoUser
      BY <1>0, <2>1 DEF TypeOK
    <3> QED
      BY <1>1, <1>6, <3>1 DEF RefundsKept, About
  <2> QED
    BY <1>1, <1>4, <1>7, <1>8, <2>4, <2>5, <2>6, <2>7, InvariantKept DEF Ledger
<1>10. CASE backend # "memory"
  <2>1. UNCHANGED <<store, granted, dropped>> /\ record' = record
    BY <1>10 DEF Crash, store
  <2>2. StoreMoves
    BY <1>0, <1>1, <2>1, StoreStays
  <2>3. HistoryTyped
    <3>1. crashes' \in 0..MaxCrashes
      BY <1>0, <1>1, BoundsAssumption DEF TypeOK
    <3> QED
      BY <1>0, <1>1, <2>1, <3>1 DEF HistoryTyped, TypeOK
  <2>4. Counted' /\ NoneConsumedUnrecorded'
    BY <1>0, <1>1, <2>1 DEF Ledger, Counted, NoneConsumedUnrecorded
  <2>5. RefundsKept'
    BY <1>0, <1>1, <1>6, <2>1 DEF Ledger, RefundsKept, About
  <2> QED
    BY <1>1, <1>4, <1>7, <1>8, <2>2, <2>3, <2>4, <2>5, InvariantKept DEF Ledger
<1> QED
  BY <1>9, <1>10
-----------------------------------------------------------------------------
(* The invariant holds at the start and every step keeps it. *)
LEMMA InvariantHolds == Spec => []IInv
<1>1. Init => IInv
  <2> SUFFICES ASSUME Init PROVE IInv
    OBVIOUS
  <2>1. /\ record = [tx \in Txs |-> NoUser] /\ byUserId = [user \in Users |-> << >>]
        /\ request = [r \in Requests |-> Idle]
        /\ tail = [tx \in Txs |-> NoRequest] /\ ahead = [r \in Requests |-> {}]
        /\ granted = [tx \in Txs |-> 0]
        /\ refunded = {} /\ consumed = {} /\ due = {}
        /\ overtook = {} /\ told = {} /\ excused = {} /\ dropped = {}
        /\ acts = 0 /\ crashes = 0
    BY DEF Init, Memory!Init
  <2>2. TypeOK
    BY <2>1, BoundsAssumption DEF Init, TypeOK
  <2>3. Lists
    BY <2>1, NoUserAssumption DEF Lists, Memory!ListsAgree, Memory!ToSet
  <2>4. \A r \in Requests : request[r].pc = "idle"
    BY <2>1 DEF Idle
  <2>5. InOrder /\ Serial
    BY <2>1, <2>4 DEF InOrder, Serial, About, InLine, Holding
  <2>6. Ledger
    BY <2>1, <2>4 DEF Ledger, Known, KnownOf, Counted, NoneConsumedUnrecorded, RefundsKept
  <2>7. OneCopy
    BY <2>1 DEF OneCopy
  <2> QED
    BY <2>2, <2>3, <2>5, <2>6, <2>7 DEF IInv
<1>2. IInv /\ [Next]_vars => IInv'
  <2> SUFFICES ASSUME IInv, [Next]_vars PROVE IInv'
    OBVIOUS
  <2>0. Occurring \subseteq Txs
    BY ConsumableTxsAssumption DEF Occurring
  <2>1. ASSUME NEW r \in Requests, NEW tx \in Occurring, NEW user \in Users, Post(r, tx, user)
        PROVE  IInv'
    BY <2>0, <2>1, PostKeeps
  <2>2. ASSUME NEW r \in Requests, Step(r) PROVE IInv'
    BY <2>2, CheckOwnedKeeps, AcceptReceiptKeeps, RefuseReceiptKeeps, ProceedKeeps, LookupKeeps,
       ReassignKeeps, SaveInMemoryKeeps, SaveInPostgresKeeps, SelectOwnerKeeps, RestoreOwnedKeeps
       DEF Step
  <2>3. ASSUME NEW r \in Requests, Overtake(r) \/ StoreFails(r) PROVE IInv'
    BY <2>3, OvertakeKeeps, StoreFailsKeeps
  <2>4. ASSUME NEW tx \in Occurring, Refund(tx) \/ Consume(tx) PROVE IInv'
    BY <2>0, <2>4, RefundKeeps
  <2>5. ASSUME NEW tx \in Occurring, RefundWebhook(tx) PROVE IInv'
    BY <2>0, <2>5, RefundWebhookKeeps
  <2>6. ASSUME NEW user \in Users, AdminReset(user) PROVE IInv'
    BY <2>6, AdminResetKeeps
  <2>7. ASSUME NEW tx \in Occurring, NEW user \in Users,
               AdminTransfer(tx, user) \/ AdminGrant(tx, user)
        PROVE  IInv'
    BY <2>0, <2>7, AdminTransferKeeps, AdminGrantKeeps
  <2>8. CASE UNCHANGED vars
    <3>1. /\ UNCHANGED <<deployment, store>> /\ UNCHANGED deployment /\ record' = record
          /\ UNCHANGED <<refunded, consumed, due, process, granted, dropped, told, overtook, excused>>
          /\ UNCHANGED <<acts, crashes>>
      BY <2>8 DEF vars, store, appStore, history
    <3>2. StoreMoves
      BY <3>1, StoreLeft
    <3>3. ProcessTyped /\ LineKept /\ Ledger'
      BY <3>1, AsideKept
    <3>4. HistoryTyped
      BY <3>1 DEF IInv, HistoryTyped, TypeOK
    <3> QED
      BY <3>1, <3>2, <3>3, <3>4, InvariantKept
  <2> QED
    BY <2>1, <2>2, <2>3, <2>4, <2>5, <2>6, <2>7, <2>8, CrashKeeps DEF Next
<1> QED
  BY <1>1, <1>2, PTL DEF Spec
-----------------------------------------------------------------------------
(* Who is told "valid". *)

RecordedFor(r) ==
    \/ record'[request[r].tx] = request[r].user
    \/ ~Consumable /\ \E tx \in Txs : record'[tx] = request[r].user
    \/ request[r].gone

ToldValid(r) ==
    request'[r].pc = "answered" /\ request[r].pc # "answered" /\ request'[r].answer \in Valid

(* purchasesForProduct finds something only where there is a row. *)
LEMMA OwnedIsRecorded ==
    ASSUME TypeOK, Lists, NEW user \in Users, Owned(user)
    PROVE  \E tx \in Txs : record[tx] = user
<1>1. CASE backend = "memory"
  <2>1. byUserId[user] # << >> /\ Memory!ListsAgree
    BY <1>1 DEF Owned, Lists
  <2> QED
    BY <2>1, ListedIsOwned
<1>2. CASE backend # "memory"
  BY <1>2 DEF Owned
<1> QED
  BY <1>1, <1>2

(* A step of r either answers it or leaves it unanswered. *)
LEMMA AnswersOrNot ==
    ASSUME TypeOK, NEW r \in Requests, Running(r)
    PROVE  /\ \A answer \in Answers : Answer(r, answer) =>
                  request'[r].pc = "answered" /\ request'[r].answer = answer
           /\ \A pc \in Holding \cup {"receipt"} : GoTo(r, pc) => request'[r].pc # "answered"
<1>1. ASSUME NEW answer \in Answers, Answer(r, answer)
      PROVE  request'[r].pc = "answered" /\ request'[r].answer = answer
  BY <1>1, AnswerFacts
<1>2. ASSUME NEW pc \in Holding \cup {"receipt"}, GoTo(r, pc) PROVE request'[r].pc # "answered"
  <2>1. request'[r].pc = pc
    BY <1>2, GoToFacts
  <2> QED
    BY <2>1 DEF Holding
<1> QED
  BY <1>1, <1>2

(* A step of a request that answers "new" or "restored" has a row for it. *)
LEMMA ValidIsRecorded ==
    ASSUME IInv, NEW r \in Requests, Step(r) \/ Overtake(r) \/ StoreFails(r), ToldValid(r)
    PROVE  RecordedFor(r)
<1>0. TypeOK /\ Lists /\ KnownOf(r)
  BY DEF IInv, Ledger, Known
<1>1. Running(r)
  BY DEF Step, Overtake, StoreFails, CheckOwned, AcceptReceipt, RefuseReceipt, Proceed, Lookup,
         Reassign, SaveInMemory, SaveInPostgres, SelectOwner, RestoreOwned, At, Running, Holding
<1>2. request[r] \in Active /\ request[r].tx \in Txs /\ request[r].user \in Users
  BY <1>0, <1>1, RunningIsActive DEF Active
<1>3. PICK tx \in Txs, user \in Users : tx = request[r].tx /\ user = request[r].user
  BY <1>2
<1>4. /\ \A answer \in Answers \ Valid : ~Answer(r, answer)
      /\ \A pc \in Holding \cup {"receipt"} : ~GoTo(r, pc)
  BY <1>0, <1>1, AnswersOrNot DEF ToldValid
<1>a. /\ "conflict" \in Answers \ Valid /\ "rejected" \in Answers \ Valid
      /\ "unavailable" \in Answers \ Valid /\ "error" \in Answers \ Valid
      /\ {"receipt", "lookup", "reassign", "save", "select", "restoreOwned", "waiting"}
             \subseteq Holding \cup {"receipt"}
  BY DEF Answers, Valid, Holding
<1>5. CASE CheckOwned(r)
  <2>1. Owned(user) /\ UNCHANGED store
    BY <1>3, <1>4, <1>a, <1>5 DEF CheckOwned
  <2>2. \E t \in Txs : record'[t] = user
    BY <1>0, <2>1, OwnedIsRecorded DEF store
  <2> QED
    BY <1>0, <1>3, <1>5, <2>2 DEF RecordedFor, CheckOwned, KnownOf, At
<1>6. CASE AcceptReceipt(r)
  <2>0. request \in [Requests -> {Idle} \cup Active \cup Answered]
    BY <1>0 DEF TypeOK, Active, Answered
  <2>1. PICK spent : request' = [request EXCEPT ![r].pc = "waiting", ![r].spent = spent]
    BY <1>4, <1>a, <1>6 DEF AcceptReceipt
  <2>2. request'[r] = [request[r] EXCEPT !.pc = "waiting", !.spent = spent]
    BY <2>0, <2>1
  <2>3. request'[r].pc = "waiting"
    BY <1>2, <2>2 DEF Active
  <2> QED
    BY <2>3 DEF ToldValid
<1>7. CASE RefuseReceipt(r)
  BY <1>4, <1>a, <1>7 DEF RefuseReceipt, GoogleUnavailable
<1>8. CASE Proceed(r) \/ Overtake(r)
  BY <1>4, <1>a, <1>8 DEF Proceed, Overtake
<1>9. CASE Lookup(r)
  <2>1. record[tx] = user /\ UNCHANGED store
    BY <1>3, <1>4, <1>a, <1>9 DEF Lookup
  <2> QED
    BY <1>3, <2>1 DEF RecordedFor, store
<1>10. CASE Reassign(r)
  <2>1. /\ IF backend = "memory" THEN Memory!ReassignPurchase(tx, user)
           ELSE Postgres!Update(tx, user)
        /\ IF backend = "memory" THEN Memory!ReassignAnswer(tx, user) # "already_owned"
           ELSE Postgres!UpdateAnswer(tx, user) # "already_owned"
    BY <1>3, <1>4, <1>a, <1>10 DEF Reassign
  <2>2. record[tx] = NoUser => request[r].gone
    BY <1>0, <1>3, <1>10 DEF Reassign, At, KnownOf
  <2>3. record[tx] = NoUser \/ record'[tx] = user
    <3>1. CASE backend = "memory"
      <4>1. /\ Memory!ReassignAnswer(tx, user) = "ok" => record'[tx] = user
            /\ Memory!ReassignAnswer(tx, user) = "absent" => record[tx] = NoUser
        BY <1>0, <2>1, <3>1, MemoryReassign DEF Lists
      <4>2. Memory!ReassignAnswer(tx, user) \in {"ok", "absent", "already_owned"}
        BY DEF Memory!ReassignAnswer
      <4> QED
        BY <2>1, <3>1, <4>1, <4>2
    <3>2. CASE backend # "memory"
      BY <1>0, <2>1, <3>2, PostgresUpdate
    <3> QED
      BY <3>1, <3>2
  <2> QED
    BY <1>3, <2>2, <2>3 DEF RecordedFor
<1>11. CASE SaveInMemory(r)
  <2>1. Memory!SavePurchase(tx, user) /\ Saved(r, Memory!SaveAnswer(tx, user)) /\ backend = "memory"
    BY <1>3, <1>11 DEF SaveInMemory
  <2>2. Memory!SaveAnswer(tx, user) \in {"ok", "belongs_to_other", "already_owned"}
    BY DEF Memory!SaveAnswer
  <2>3. Memory!SaveAnswer(tx, user) = "ok"
    BY <1>4, <1>a, <2>1, <2>2 DEF Saved
  <2>4. record'[tx] = user
    BY <1>0, <2>1, <2>3, MemorySave DEF Lists
  <2> QED
    BY <1>3, <2>4 DEF RecordedFor
<1>12. CASE SaveInPostgres(r)
  <2>1. /\ Postgres!Insert(tx, user)
        /\ CASE Postgres!InsertAnswer(tx, user) = "inserted" -> Saved(r, "ok")
             [] Postgres!InsertAnswer(tx, user) = "exists" ->
                    GoTo(r, "select") /\ UNCHANGED <<appStore, history>>
             [] OTHER -> Saved(r, Postgres!InsertAnswer(tx, user))
    BY <1>3, <1>12 DEF SaveInPostgres
  <2>2. Postgres!InsertAnswer(tx, user) \in {"exists", "inserted", "already_owned"}
    BY DEF Postgres!InsertAnswer
  <2>3. Postgres!InsertAnswer(tx, user) = "inserted"
    BY <1>4, <1>a, <2>1, <2>2 DEF Saved
  <2>4. record'[tx] = user
    BY <1>0, <2>1, <2>3, PostgresInsert
  <2> QED
    BY <1>3, <2>4 DEF RecordedFor
<1>13. CASE SelectOwner(r)
  <2>1. Saved(r, Postgres!SelectAnswer(tx, user)) /\ UNCHANGED store /\ At(r, "select")
    BY <1>3, <1>13 DEF SelectOwner
  <2>2. record[tx] \in {NoUser, user}
    BY <1>4, <1>a, <2>1 DEF Saved, Postgres!SelectAnswer
  <2>3. record[tx] # NoUser \/ request[r].gone
    BY <1>0, <1>3, <2>1 DEF KnownOf, At
  <2> QED
    BY <1>3, <2>1, <2>2, <2>3 DEF RecordedFor, store
<1>14. CASE RestoreOwned(r)
  <2>1. Owned(user) /\ UNCHANGED store /\ At(r, "restoreOwned")
    BY <1>3, <1>4, <1>a, <1>14 DEF RestoreOwned
  <2>2. \E t \in Txs : record'[t] = user
    BY <1>0, <2>1, OwnedIsRecorded DEF store
  <2> QED
    BY <1>0, <1>3, <2>1, <2>2 DEF RecordedFor, KnownOf, At
<1>15. CASE StoreFails(r)
  BY <1>4, <1>a, <1>15 DEF StoreFails
<1> QED
  BY <1>5, <1>6, <1>7, <1>8, <1>9, <1>10, <1>11, <1>12, <1>13, <1>14, <1>15 DEF Step

(* No other step answers a request so. *)
LEMMA ValidStep ==
    ASSUME IInv, [Next]_vars, NEW s \in Requests, ToldValid(s)
    PROVE  RecordedFor(s)
<1>0. TypeOK /\ request \in [Requests -> {Idle} \cup Active \cup Answered]
  BY DEF IInv, TypeOK, Active, Answered
<1>1. ASSUME NEW r \in Requests, Step(r) \/ Overtake(r) \/ StoreFails(r) PROVE RecordedFor(s)
  <2>1. s # r => request'[s] = request[s]
    <3>1. (\E answer : Answer(r, answer)) \/ (\E pc : GoTo(r, pc)) \/ AcceptReceipt(r)
      BY <1>1 DEF Step, Overtake, StoreFails, CheckOwned, RefuseReceipt, GoogleUnavailable,
         Proceed, Lookup, Reassign, SaveInMemory, SaveInPostgres, SelectOwner, RestoreOwned, Saved, Granted,
         Memory!SaveAnswer, Postgres!SelectAnswer, Postgres!InsertAnswer
    <3> QED
      BY <1>0, <3>1 DEF Answer, GoTo, AcceptReceipt
  <2>2. s = r
    BY <2>1 DEF ToldValid
  <2> QED
    BY <1>1, <2>2, ValidIsRecorded
<1>2. ASSUME NEW r \in Requests, NEW tx, NEW user, Post(r, tx, user) PROVE RecordedFor(s)
  BY <1>0, <1>2 DEF Post, ToldValid
<1>3. ASSUME NEW txs, MarkGone(txs) PROVE RecordedFor(s)
  <2>1. CASE Running(s) /\ request[s].tx \in txs
    <3>1. request[s] \in Active /\ request'[s] = [request[s] EXCEPT !.gone = TRUE]
      BY <1>0, <1>3, <2>1, RunningIsActive DEF MarkGone
    <3>2. request'[s].pc = request[s].pc
      BY <3>1 DEF Active
    <3> QED
      BY <3>2 DEF ToldValid
  <2>2. CASE ~(Running(s) /\ request[s].tx \in txs)
    BY <1>3, <2>2 DEF MarkGone, ToldValid
  <2> QED
    BY <2>1, <2>2
<1>4. ASSUME request' = request PROVE RecordedFor(s)
  BY <1>4 DEF ToldValid
<1>5. CASE Crash
  <2>1. request'[s] = [pc |-> "answered", answer |-> "lost"] \/ request'[s] = request[s]
    BY <1>5 DEF Crash
  <2> QED
    BY <2>1 DEF ToldValid, Valid
<1>6. CASE \E tx : Refund(tx) \/ Consume(tx)
  BY <1>4, <1>6 DEF Refund, Consume, process
<1>7. CASE \E tx, user : AdminTransfer(tx, user) \/ AdminGrant(tx, user)
  BY <1>4, <1>7 DEF AdminTransfer, AdminGrant, process
<1>8. CASE \E tx : RefundWebhook(tx)
  BY <1>3, <1>8 DEF RefundWebhook
<1>9. CASE \E user : AdminReset(user)
  BY <1>3, <1>9 DEF AdminReset
<1>10. CASE UNCHANGED vars
  BY <1>4, <1>10 DEF vars, process
<1> QED
  BY <1>1, <1>2, <1>5, <1>6, <1>7, <1>8, <1>9, <1>10 DEF Next
-----------------------------------------------------------------------------
(* Every state has the types TypeOK gives it, in either backend. *)
THEOREM TypeCorrect == Spec => []TypeOK
BY InvariantHolds, PTL DEF IInv

(* A transaction is answered "new" once as long as its row stands, whatever
   requests run together, if none of them overtook the line (routes/purchase.ts,
   lockTransaction). *)
THEOREM GrantedOnceHolds == Spec => []GrantedOnce
<1>1. IInv => GrantedOnce
  BY DEF IInv, Ledger, Counted, GrantedOnce
<1> QED
  BY <1>1, InvariantHolds, PTL

(* With Google, the row of a purchase whose refund the webhook delivered comes
   back only through a request that had read the receipt, or an operator. *)
THEOREM RefundHolds == Spec => []RefundStaysRemoved
<1>1. IInv => RefundStaysRemoved
  BY DEF IInv, Ledger, RefundsKept, RefundStaysRemoved
<1> QED
  BY <1>1, InvariantHolds, PTL

(* No user ever has two rows of a non-consumable: the check of the in-memory
   store and Postgres's partial unique index each suffice, whatever the route does. *)
THEOREM OneCopyHolds == Spec => []OneCopy
BY InvariantHolds, PTL DEF IInv

(* The route asks Google to consume a token only when its row is there, or was
   deleted since (consumeGoogleProductReceipt). *)
THEOREM ConsumedIsRecorded == Spec => []NoneConsumedUnrecorded
<1>1. IInv => NoneConsumedUnrecorded
  BY DEF IInv, Ledger
<1> QED
  BY <1>1, InvariantHolds, PTL

(* Nobody waits for a request that has left the line, or that waits for him: the
   promise chain of lockTransaction has no cycle and no dead end. *)
THEOREM LineNeverStuck == Spec => []LineMoves
<1>1. IInv => LineMoves
  BY DEF IInv, InOrder, LineMoves, InLine
<1> QED
  BY <1>1, InvariantHolds, PTL

(* Every step that answers a request "new" or "restored" has a row of its user
   for it, or the row was deleted as the request ran. *)
THEOREM ValidHasARow == Spec => ValidMeansRecorded
<1>1. IInv /\ [Next]_vars => [\A r \in Requests :
        LET after == request'[r]
        IN (after.pc = "answered" /\ request[r].pc # "answered" /\ after.answer \in Valid) =>
               \/ record'[request[r].tx] = request[r].user
               \/ ~Consumable /\ \E tx \in Txs : record'[tx] = request[r].user
               \/ request[r].gone]_vars
  BY ValidStep DEF ToldValid, RecordedFor
<1> QED
  BY <1>1, InvariantHolds, PTL DEF Spec, ValidMeansRecorded

(* The in-memory store's lists are its rows, newest purchase first, after every
   step of the route (InMemoryPurchaseStore, insertByPurchasedAt). *)
THEOREM ListsKeepUp == Spec => [](backend = "memory" => Memory!ListsAgree)
<1>1. IInv => (backend = "memory" => Memory!ListsAgree)
  BY DEF IInv, Lists
<1> QED
  BY <1>1, InvariantHolds, PTL
=============================================================================
