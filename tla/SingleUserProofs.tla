-------------------------- MODULE SingleUserProofs --------------------------
(***************************************************************************)
(* Proofs about SingleUser for any requests, runs, scopes and number of    *)
(* migrations.                                                             *)
(*                                                                         *)
(* A row keeps its accounts in the order some service stored them in, and  *)
(* every hash is computed from a sorted list, so the first part shows that *)
(* every list can be sorted and that sorting forgets the order.  The       *)
(* inductive invariant then says of every row what of the client's request *)
(* it still remembers, under both schemas.                                 *)
(***************************************************************************)
EXTENDS SingleUser, FunctionTheorems, FiniteSetTheorems, WellFoundedInduction, TLAPS

-----------------------------------------------------------------------------
(* A list is an arrangement of itself. *)
LEMMA OwnArrangement ==
    ASSUME NEW s \in Seq(Nat)
    PROVE  s \in Arrangements(s)
  <1> DEFINE p == [i \in DOMAIN s |-> i]
  <1>1. p \in Bijection(DOMAIN s, DOMAIN s)
    BY Fun_IsBij
  <1>2. s = [i \in DOMAIN s |-> s[p[i]]]
    OBVIOUS
  <1> QED
    BY <1>1, <1>2 DEF Arrangements

(* An arrangement is a list of the same length. *)
LEMMA ArrangementType ==
    ASSUME NEW s \in Seq(Nat), NEW t \in Arrangements(s)
    PROVE  t \in Seq(Nat) /\ Len(t) = Len(s) /\ DOMAIN t = 1 .. Len(s)
  <1>1. PICK p \in Bijection(DOMAIN s, DOMAIN s) : t = [i \in DOMAIN s |-> s[p[i]]]
    BY DEF Arrangements
  <1>2. p \in [DOMAIN s -> DOMAIN s]
    BY <1>1, Fun_BijectionProperties
  <1>3. DOMAIN s = 1 .. Len(s) /\ Len(s) \in Nat /\ s \in [1 .. Len(s) -> Nat]
    OBVIOUS
  <1>4. t \in [1 .. Len(s) -> Nat]
    BY <1>1, <1>2, <1>3
  <1> QED
    BY <1>3, <1>4

(* An arrangement can be rearranged further, *)
LEMMA Rearranged ==
    ASSUME NEW s \in Seq(Nat), NEW t \in Arrangements(s), NEW u \in Arrangements(t)
    PROVE  u \in Arrangements(s)
  <1> DEFINE D == DOMAIN s
  <1>1. PICK p \in Bijection(D, D) : t = [i \in D |-> s[p[i]]]
    BY DEF Arrangements
  <1>2. DOMAIN t = D
    BY <1>1
  <1>3. PICK r \in Bijection(D, D) : u = [i \in D |-> t[r[i]]]
    BY <1>2 DEF Arrangements
  <1> DEFINE pr == [i \in D |-> p[r[i]]]
  <1>4. pr \in Bijection(D, D)
    BY Fun_BijTransitive
  <1>5. r \in [D -> D]
    BY Fun_BijectionProperties
  <1>6. u = [i \in D |-> s[pr[i]]]
    BY <1>1, <1>3, <1>5
  <1> HIDE DEF pr
  <1> QED
    BY <1>4, <1>6 DEF Arrangements

(* and put back. *)
LEMMA PutBack ==
    ASSUME NEW s \in Seq(Nat), NEW t \in Arrangements(s)
    PROVE  s \in Arrangements(t)
  <1> DEFINE D == DOMAIN s
  <1>1. PICK p \in Bijection(D, D) : t = [i \in D |-> s[p[i]]]
    BY DEF Arrangements
  <1> DEFINE r == Inverse(p, D, D)
  <1>2. /\ r \in Bijection(D, D)
        /\ \A i \in D : r[p[i]] = i
    BY Fun_BijInverse
  <1>3. /\ p \in [D -> D] /\ r \in [D -> D]
        /\ \A i \in D : \E j \in D : p[j] = i
    BY <1>2, Fun_BijectionProperties
  <1> HIDE DEF r
  <1>4. \A i \in D : p[r[i]] = i
    BY <1>2, <1>3
  <1>5. s = [i \in D |-> s[i]]
    OBVIOUS
  <1>6. s = [i \in D |-> t[r[i]]]
    BY <1>1, <1>3, <1>4, <1>5
  <1>7. DOMAIN t = D
    BY <1>1
  <1> QED
    BY <1>2, <1>6, <1>7 DEF Arrangements

-----------------------------------------------------------------------------
(* A nonempty set of numbers has a least one. *)
LEMMA LeastOf ==
    ASSUME NEW T \in SUBSET Nat, T # {}
    PROVE  \E x \in T : \A y \in T : x <= y
  <1> DEFINE R == {ss \in Nat \X Nat : ss[1] < ss[2]}
  <1>1. IsWellFoundedOn(R, Nat)
    BY NatLessThanWellFounded DEF OpToRel
  <1>2. PICK x \in T : \A y \in T : <<y, x>> \notin R
    BY <1>1, WFMin
  <1>3. ASSUME NEW y \in T PROVE x <= y
    <2>1. x \in Nat /\ y \in Nat /\ <<y, x>> \notin R
      BY <1>2
    <2>2. ~(y < x)
      BY <2>1
    <2> QED
      BY <2>1, <2>2
  <1> QED
    BY <1>3

(* The first k places of a list hold what they hold when it is sorted.     *)
SortedUpTo(t, k) == \A i, j \in DOMAIN t : i <= k /\ i < j => t[i] <= t[j]

(* One round of a selection sort. *)
LEMMA SelectNext ==
    ASSUME NEW s \in Seq(Nat), NEW k \in 1 .. Len(s), SortedUpTo(s, k - 1)
    PROVE  \E u \in Arrangements(s) : SortedUpTo(u, k)
  <1> DEFINE n == Len(s)
             D == 1 .. n
  <1>1. n \in Nat /\ D = DOMAIN s /\ s \in [D -> Nat] /\ k \in D
    OBVIOUS
  <1>2. PICK m \in k .. n : \A j \in k .. n : s[m] <= s[j]
    <2> DEFINE T == {s[j] : j \in k .. n}
    <2>1. T \in SUBSET Nat /\ s[k] \in T
      BY <1>1
    <2>2. PICK x \in T : \A y \in T : x <= y
      BY <2>1, LeastOf
    <2> QED
      BY <2>2
  <1> HIDE DEF n
  <1> DEFINE p == [i \in D |-> IF i = k THEN m ELSE IF i = m THEN k ELSE i]
             u == [i \in D |-> s[p[i]]]
  <1>3. /\ m \in D /\ p \in [D -> D]
        /\ \A i \in D : p[p[i]] = i
    BY <1>1, <1>2
  <1>4. p \in Bijection(D, D)
    <2>1. \A i, j \in D : p[i] = p[j] => i = j
      BY <1>3
    <2>2. \A j \in D : \E i \in D : p[i] = j
      BY <1>3
    <2> HIDE DEF p
    <2> QED
      BY <1>3, <2>1, <2>2, Fun_IsBij
  <1>5. u \in Arrangements(s)
    <2>1. u = [i \in DOMAIN s |-> s[p[i]]]
      BY <1>1
    <2> HIDE DEF p, u
    <2> QED
      BY <1>1, <1>4, <2>1 DEF Arrangements
  <1>6. ASSUME NEW i \in D, NEW j \in D, i <= k, i < j
        PROVE  u[i] <= u[j]
    <2>1. CASE i < k
      <3>1. u[i] = s[i] /\ p[j] \in D /\ i < p[j] /\ i <= k - 1
        BY <1>1, <1>2, <1>3, <1>6, <2>1
      <3>2. s[i] <= s[p[j]]
        BY <1>1, <3>1 DEF SortedUpTo
      <3> QED
        BY <3>1, <3>2
    <2>2. CASE i = k
      <3>1. u[i] = s[m] /\ p[j] \in k .. n
        BY <1>1, <1>2, <1>3, <1>6, <2>2
      <3> QED
        BY <1>2, <3>1
    <2> QED
      BY <1>1, <1>6, <2>1, <2>2
  <1>7. SortedUpTo(u, k)
    BY <1>6 DEF SortedUpTo
  <1> QED
    BY <1>5, <1>7

(* Every list can be sorted. *)
LEMMA CanBeSorted ==
    ASSUME NEW s \in Seq(Nat)
    PROVE  \E t \in Arrangements(s) : \A i, j \in DOMAIN t : i < j => t[i] <= t[j]
  <1> DEFINE n == Len(s)
             Reached(k) == \E t \in Arrangements(s) : SortedUpTo(t, k)
             Missed == {k \in 0 .. n : ~Reached(k)}
  <1>1. n \in Nat /\ DOMAIN s = 1 .. n
    OBVIOUS
  <1>2. Reached(0)
    BY <1>1, OwnArrangement DEF SortedUpTo
  <1>3. ASSUME NEW k \in 1 .. n, Reached(k - 1) PROVE Reached(k)
    <2>1. PICK t \in Arrangements(s) : SortedUpTo(t, k - 1)
      BY <1>3
    <2>2. t \in Seq(Nat) /\ Len(t) = n
      BY ArrangementType
    <2>3. PICK u \in Arrangements(t) : SortedUpTo(u, k)
      BY <1>3, <2>1, <2>2, SelectNext
    <2> QED
      BY <2>3, Rearranged
  <1> HIDE DEF Reached, n
  <1>4. Missed = {}
    <2> SUFFICES ASSUME Missed # {} PROVE FALSE
      OBVIOUS
    <2>0. Missed \in SUBSET Nat
      BY <1>1
    <2>1. PICK k \in Missed : \A j \in Missed : k <= j
      BY <2>0, LeastOf
    <2>2. k \in 1 .. n /\ k - 1 \in 0 .. n /\ k - 1 \notin Missed
      BY <1>1, <1>2, <2>1
    <2> QED
      BY <1>3, <2>1, <2>2
  <1>5. Reached(n)
    BY <1>1, <1>4
  <1>6. PICK t \in Arrangements(s) : SortedUpTo(t, n)
    BY <1>5 DEF Reached
  <1>7. DOMAIN t = 1 .. n
    BY ArrangementType DEF n
  <1> QED
    BY <1>1, <1>6, <1>7 DEF SortedUpTo

(***************************************************************************)
(* sorted() returns a list of the same accounts, and the same list however *)
(* they were arranged: its result identifies the set of accounts.          *)
(***************************************************************************)
THEOREM SortingForgetsOrder ==
    ASSUME NEW s \in Seq(Nat)
    PROVE  /\ Sorted(s) \in Arrangements(s)
           /\ Sorted(s) \in Seq(Nat)
           /\ \A i, j \in DOMAIN Sorted(s) : i < j => Sorted(s)[i] <= Sorted(s)[j]
           /\ \A t \in Arrangements(s) : Sorted(t) = Sorted(s)
           /\ Sorted(Sorted(s)) = Sorted(s)
  <1>1. /\ Sorted(s) \in Arrangements(s)
        /\ \A i, j \in DOMAIN Sorted(s) : i < j => Sorted(s)[i] <= Sorted(s)[j]
    BY CanBeSorted DEF Sorted
  <1>2. ASSUME NEW t \in Arrangements(s) PROVE Sorted(t) = Sorted(s)
    <2>1. t \in Seq(Nat) /\ s \in Arrangements(t)
      BY ArrangementType, PutBack
    <2>2. Arrangements(t) = Arrangements(s)
      BY <2>1, Rearranged
    <2> QED
      BY <2>2 DEF Sorted
  <1> QED
    BY <1>1, <1>2, ArrangementType

-----------------------------------------------------------------------------
UserTypeOK ==
    /\ schema \in {"scoped", "single"}
    /\ runs \in [Run -> RunRow \union {NoRun}]
    /\ configs \in [Cfg -> ConfigRow \union {NoCfg}]
    /\ sync \in SyncRow \union {NoSync}
    /\ told \in [Run -> Requests \union {NoRun}]
    /\ origin \in [Run \union Cfg -> Scope \union {NoScope}]
    /\ published \in [Run -> SUBSET Batch]

(* What row r remembers of request q under schema sch, and of the batches  *)
(* pub it published.                                                       *)
Remembers(sch, r, q, pub) ==
    /\ q \in Requests
    /\ r.mode = q.mode
    /\ Sorted(r.accounts) = Sorted(q.accounts)
    /\ sch = "single" => r.hash = RequestDoc(q)
    /\ IsOpen(r) => r.staged = r.batches
    /\ r.state = "committed" =>
         Sorted(r.completed) = Sorted(q.accounts) /\ pub = r.batches

(* The scope a row has, and the scope its data came from. *)
KnowsOrigin(sch, row, o) == sch = "scoped" => row.scope \in Scope /\ o = row.scope

UserInv ==
    /\ UserTypeOK
    /\ \A k \in Run :
         IF runs[k] = NoRun THEN origin[k] = NoScope
         ELSE /\ Remembers(schema, runs[k], told[k], published[k])
              /\ KnowsOrigin(schema, runs[k], origin[k])
    /\ \A c \in Cfg :
         IF configs[c] = NoCfg THEN origin[c] = NoScope
         ELSE /\ schema = "single" => configs[c].hash = ConfigDoc(configs[c].sem)
              /\ KnowsOrigin(schema, configs[c], origin[c])
    /\ ScopesAreNotMixed

(* The invariant holds in an empty scoped database. *)
LEMMA InitRemembers ==
    ASSUME UserInit
    PROVE  UserInv
  <1>1. UserTypeOK
    BY SingleUserAssumption DEF UserInit, UserTypeOK
  <1> QED
    BY <1>1 DEF UserInit, UserInv, ScopesAreNotMixed

(* begin_refresh writes a row that remembers its request. *)
LEMMA BeginRemembers ==
    ASSUME UserInv, NEW k \in Run, NEW q \in Requests, NEW s, BeginRun(k, q, s)
    PROVE  UserInv'
  <1> DEFINE r == [mode |-> q.mode, scope |-> s, state |-> "created",
                   batches |-> {}, staged |-> {},
                   accounts |-> IF schema = "single" THEN Sorted(q.accounts) ELSE q.accounts,
                   hash |-> IF schema = "single" THEN RequestDoc(q) ELSE LegacyRequestDoc(q, s),
                   before |-> IF schema = "single" THEN Rev ELSE 0,
                   completed |-> <<>>]
  <1>1. /\ runs[k] = NoRun /\ s \in ScopesOf(schema)
        /\ runs' = [runs EXCEPT ![k] = r]
        /\ told' = [told EXCEPT ![k] = q]
        /\ origin' = [origin EXCEPT ![k] = s]
        /\ UNCHANGED <<schema, configs, sync, published, migrations>>
    BY DEF BeginRun, Began
  <1>2. q.mode \in Mode /\ q.accounts \in Seq(Nat)
    BY SingleUserAssumption DEF Request
  <1>3. /\ Sorted(q.accounts) \in Seq(Nat)
        /\ Sorted(Sorted(q.accounts)) = Sorted(q.accounts)
    BY <1>2, SortingForgetsOrder
  <1>4. Rev \in Nat
    BY DEF Rev, UserInv, UserTypeOK, SyncRow
  <1>5. r \in RunRow /\ r # NoRun
    <2>1. r.hash \in Document \union LegacyDocument
      BY <1>1, <1>2, <1>3 DEF UserInv, UserTypeOK, ScopesOf, Document, LegacyDocument,
                             RequestDoc, LegacyRequestDoc
    <2>2. r.scope \in Scope \union {NoScope}
      BY <1>1 DEF UserInv, UserTypeOK, ScopesOf
    <2>3. r.accounts \in Seq(Nat) /\ <<>> \in Seq(Nat)
      BY <1>2, <1>3
    <2>4. r \in RunRow
      BY <1>2, <1>4, <2>1, <2>2, <2>3 DEF RunRow
    <2> QED
      BY <2>4, SingleUserAssumption
  <1>6. Remembers(schema, r, q, published[k]) /\ KnowsOrigin(schema, r, s)
    BY <1>1, <1>3 DEF Remembers, KnowsOrigin, ScopesOf, IsOpen
  <1> HIDE DEF r
  <1>7. UserTypeOK'
    <2>1. s \in Scope \union {NoScope}
      BY <1>1 DEF UserInv, UserTypeOK, ScopesOf
    <2> QED
      BY <1>1, <1>5, <2>1 DEF UserInv, UserTypeOK
  <1>8. ScopesAreNotMixed'
    <2>1. CASE schema = "scoped"
      BY <1>1, <2>1 DEF ScopesAreNotMixed
    <2>2. CASE schema = "single"
      <3>1. origin[k] = NoScope /\ s = NoScope
        BY <1>1, <2>2 DEF ScopesOf, UserInv
      <3>2. origin' = origin
        BY <1>1, <3>1 DEF UserInv, UserTypeOK
      <3>3. ScopesAreNotMixed
        BY DEF UserInv
      <3>4. {origin[x] : x \in Run \union Cfg}' = {origin[x] : x \in Run \union Cfg}
        BY <3>2
      <3> QED
        BY <1>1, <3>3, <3>4 DEF ScopesAreNotMixed
    <2> QED
      BY <2>1, <2>2 DEF UserInv, UserTypeOK
  <1>9. ASSUME NEW j \in Run
        PROVE  (IF runs[j] = NoRun THEN origin[j] = NoScope
                ELSE /\ Remembers(schema, runs[j], told[j], published[j])
                     /\ KnowsOrigin(schema, runs[j], origin[j]))'
    <2>1. CASE j = k
      <3>1. runs'[j] = r /\ told'[j] = q /\ origin'[j] = s /\ published'[j] = published[j]
        BY <1>1, <2>1 DEF UserInv, UserTypeOK
      <3> QED
        BY <1>1, <1>5, <1>6, <2>1, <3>1
    <2>2. CASE j # k
      <3>1. runs'[j] = runs[j] /\ told'[j] = told[j] /\ origin'[j] = origin[j]
        BY <1>1, <2>2 DEF UserInv, UserTypeOK
      <3> QED
        BY <1>1, <3>1 DEF UserInv
    <2> QED
      BY <2>1, <2>2
  <1>10. \A c \in Cfg : configs'[c] = configs[c] /\ origin'[c] = origin[c]
    BY <1>1, SingleUserAssumption DEF UserInv, UserTypeOK
  <1> QED
    BY <1>1, <1>7, <1>8, <1>9, <1>10 DEF UserInv

(* upload_batch changes no row but its own run, and no request. *)
LEMMA UploadRemembers ==
    ASSUME UserInv, NEW k \in Run, NEW b \in Batch, UploadBatch(k, b)
    PROVE  UserInv'
  <1> DEFINE r == [runs[k] EXCEPT !.state = "uploaded", !.batches = @ \union {b},
                                  !.staged = @ \union {b}]
  <1>1. /\ runs[k] \in RunRow /\ runs[k] # NoRun /\ IsOpen(runs[k])
        /\ UNCHANGED <<schema, configs, sync, told, origin, published, migrations>>
    BY DEF UploadBatch, Began, UserInv, UserTypeOK
  <1>2. runs' = [runs EXCEPT ![k] = r]
    BY DEF UploadBatch, UserInv, UserTypeOK
  <1>3. r \in RunRow /\ r # NoRun
    <2>1. r \in RunRow
      BY <1>1 DEF RunRow
    <2> QED
      BY <2>1, SingleUserAssumption
  <1>4. Remembers(schema, r, told[k], published[k]) /\ KnowsOrigin(schema, r, origin[k])
    BY <1>1 DEF RunRow, UserInv, Remembers, KnowsOrigin, IsOpen
  <1> HIDE DEF r
  <1>5. UserTypeOK'
    BY <1>1, <1>2, <1>3 DEF UserInv, UserTypeOK
  <1>6. ASSUME NEW j \in Run
        PROVE  (IF runs[j] = NoRun THEN origin[j] = NoScope
                ELSE /\ Remembers(schema, runs[j], told[j], published[j])
                     /\ KnowsOrigin(schema, runs[j], origin[j]))'
    <2>1. runs'[j] = IF j = k THEN r ELSE runs[j]
      BY <1>2 DEF UserInv, UserTypeOK
    <2> QED
      BY <1>1, <1>3, <1>4, <2>1 DEF UserInv
  <1>7. ScopesAreNotMixed'
    BY <1>1 DEF UserInv, ScopesAreNotMixed
  <1> QED
    BY <1>1, <1>5, <1>6, <1>7 DEF UserInv

(* commit_refresh publishes what is staged and closes the run. *)
LEMMA CommitRemembers ==
    ASSUME UserInv, NEW k \in Run, CommitRun(k)
    PROVE  UserInv'
  <1> DEFINE r == [runs[k] EXCEPT !.state = "committed", !.staged = {},
                                  !.completed = Sorted(runs[k].accounts)]
  <1>1. /\ runs[k] \in RunRow /\ runs[k] # NoRun /\ IsOpen(runs[k])
        /\ sync' = [run |-> k, rev |-> Rev + 1]
        /\ published' = [published EXCEPT ![k] = runs[k].staged]
        /\ UNCHANGED <<schema, configs, told, origin, migrations>>
    BY DEF CommitRun, Began, IsOpen, UserInv, UserTypeOK
  <1>2. runs' = [runs EXCEPT ![k] = r]
    BY DEF CommitRun, UserInv, UserTypeOK
  <1>3. /\ Sorted(runs[k].accounts) \in Seq(Nat)
        /\ Sorted(Sorted(runs[k].accounts)) = Sorted(runs[k].accounts)
    <2>1. runs[k].accounts \in Seq(Nat)
      BY <1>1 DEF RunRow
    <2> QED
      BY <2>1, SortingForgetsOrder
  <1>4. r \in RunRow /\ r # NoRun
    <2>1. r \in RunRow
      BY <1>1, <1>3 DEF RunRow
    <2> QED
      BY <2>1, SingleUserAssumption
  <1>5. /\ Remembers(schema, r, told[k], runs[k].staged)
        /\ KnowsOrigin(schema, r, origin[k])
    BY <1>1, <1>3 DEF RunRow, UserInv, Remembers, KnowsOrigin, IsOpen
  <1> HIDE DEF r
  <1>6. sync' \in SyncRow
    <2>1. Rev \in Nat
      BY DEF Rev, UserInv, UserTypeOK, SyncRow
    <2> QED
      BY <1>1, <2>1 DEF SyncRow
  <1>7. UserTypeOK'
    <2>1. runs[k].staged \in SUBSET Batch
      BY <1>1 DEF RunRow
    <2> QED
      BY <1>1, <1>2, <1>4, <1>6, <2>1 DEF UserInv, UserTypeOK
  <1>8. ASSUME NEW j \in Run
        PROVE  (IF runs[j] = NoRun THEN origin[j] = NoScope
                ELSE /\ Remembers(schema, runs[j], told[j], published[j])
                     /\ KnowsOrigin(schema, runs[j], origin[j]))'
    <2>1. /\ runs'[j] = IF j = k THEN r ELSE runs[j]
          /\ published'[j] = IF j = k THEN runs[k].staged ELSE published[j]
      BY <1>1, <1>2 DEF UserInv, UserTypeOK
    <2> QED
      BY <1>1, <1>4, <1>5, <2>1 DEF UserInv
  <1>9. ScopesAreNotMixed'
    BY <1>1 DEF UserInv, ScopesAreNotMixed
  <1> QED
    BY <1>1, <1>7, <1>8, <1>9 DEF UserInv

(* A new configuration version remembers its document. *)
LEMMA ConfigureRemembers ==
    ASSUME UserInv, NEW c \in Cfg, NEW sem \in Sem, NEW s, Configure(c, sem, s)
    PROVE  UserInv'
  <1> DEFINE v == [sem |-> sem, scope |-> s,
                   hash |-> IF schema = "single" THEN ConfigDoc(sem)
                            ELSE LegacyConfigDoc(sem, s)]
  <1>1. /\ configs[c] = NoCfg /\ s \in ScopesOf(schema)
        /\ configs' = [configs EXCEPT ![c] = v]
        /\ origin' = [origin EXCEPT ![c] = s]
        /\ UNCHANGED <<schema, runs, sync, told, published, migrations>>
    BY DEF Configure
  <1>2. v \in ConfigRow /\ v # NoCfg
    <2>1. v.hash \in [sem : Sem] \union [sem : Sem, scope : Scope]
      BY <1>1 DEF ScopesOf, ConfigDoc, LegacyConfigDoc, UserInv, UserTypeOK
    <2>2. v \in ConfigRow
      BY <1>1, <2>1 DEF ScopesOf, ConfigRow, UserInv, UserTypeOK
    <2> QED
      BY <2>2, SingleUserAssumption
  <1>3. /\ schema = "single" => v.hash = ConfigDoc(v.sem)
        /\ KnowsOrigin(schema, v, s)
    BY <1>1 DEF KnowsOrigin, ScopesOf
  <1> HIDE DEF v
  <1>4. UserTypeOK'
    <2>1. s \in Scope \union {NoScope}
      BY <1>1 DEF UserInv, UserTypeOK, ScopesOf
    <2> QED
      BY <1>1, <1>2, <2>1 DEF UserInv, UserTypeOK
  <1>5. ScopesAreNotMixed'
    <2>1. CASE schema = "scoped"
      BY <1>1, <2>1 DEF ScopesAreNotMixed
    <2>2. CASE schema = "single"
      <3>1. origin[c] = NoScope /\ s = NoScope
        BY <1>1, <2>2 DEF ScopesOf, UserInv
      <3>2. origin' = origin
        BY <1>1, <3>1 DEF UserInv, UserTypeOK
      <3>3. ScopesAreNotMixed
        BY DEF UserInv
      <3>4. {origin[x] : x \in Run \union Cfg}' = {origin[x] : x \in Run \union Cfg}
        BY <3>2
      <3> QED
        BY <1>1, <3>3, <3>4 DEF ScopesAreNotMixed
    <2> QED
      BY <2>1, <2>2 DEF UserInv, UserTypeOK
  <1>6. \A k \in Run : runs'[k] = runs[k] /\ origin'[k] = origin[k]
    BY <1>1, SingleUserAssumption DEF UserInv, UserTypeOK
  <1>7. ASSUME NEW d \in Cfg
        PROVE  (IF configs[d] = NoCfg THEN origin[d] = NoScope
                ELSE /\ schema = "single" => configs[d].hash = ConfigDoc(configs[d].sem)
                     /\ KnowsOrigin(schema, configs[d], origin[d]))'
    <2>1. /\ configs'[d] = IF d = c THEN v ELSE configs[d]
          /\ origin'[d] = IF d = c THEN s ELSE origin[d]
      BY <1>1 DEF UserInv, UserTypeOK
    <2> QED
      BY <1>1, <1>2, <1>3, <2>1 DEF UserInv
  <1> QED
    BY <1>1, <1>4, <1>5, <1>6, <1>7 DEF UserInv

-----------------------------------------------------------------------------
(* The hash a migration computes from a row is that of the request the     *)
(* client sent, although the row lists the accounts in another order.      *)
LEMMA RewrittenRun ==
    ASSUME NEW r \in RunRow, NEW q, NEW pub, NEW sch, Remembers(sch, r, q, pub)
    PROVE  /\ UpgradedRun(r) \in RunRow /\ Remembers("single", UpgradedRun(r), q, pub)
           /\ DowngradedRun(r) \in RunRow /\ DowngradedRun(r).scope = "personal"
           /\ Remembers("scoped", DowngradedRun(r), q, pub)
  <1>1. /\ r.mode \in Mode /\ r.accounts \in Seq(Nat) /\ r.completed \in Seq(Nat)
        /\ Sorted(r.accounts) \in Seq(Nat)
        /\ <<>> \in Seq(Nat) /\ "personal" \in Scope
    BY SortingForgetsOrder, SingleUserAssumption DEF RunRow
  <1>2. /\ RewrittenHash(r, FALSE) \in Document
        /\ RewrittenHash(r, FALSE) = RequestDoc(q)
        /\ RewrittenHash(r, TRUE) \in LegacyDocument
    BY <1>1 DEF RewrittenHash, RequestDoc, LegacyRequestDoc, Document, LegacyDocument,
                Remembers
  <1>3. UpgradedRun(r) \in RunRow
    BY <1>1, <1>2 DEF UpgradedRun, RunRow
  <1>4. Remembers("single", UpgradedRun(r), q, pub)
    BY <1>2 DEF UpgradedRun, RunRow, Remembers, IsOpen
  <1>5. DowngradedRun(r) \in RunRow /\ DowngradedRun(r).scope = "personal"
    BY <1>1, <1>2 DEF DowngradedRun, RunRow
  <1>6. Remembers("scoped", DowngradedRun(r), q, pub)
    BY DEF DowngradedRun, RunRow, Remembers, IsOpen
  <1> QED
    BY <1>3, <1>4, <1>5, <1>6

(* What the migrations make of a configuration row. *)
LEMMA RewrittenVersion ==
    ASSUME NEW v \in ConfigRow, NEW restore \in BOOLEAN
    PROVE  /\ RewrittenConfig(v, restore) \in ConfigRow
           /\ RewrittenConfig(v, restore).hash = ConfigDoc(RewrittenConfig(v, restore).sem)
           /\ restore => RewrittenConfig(v, restore).scope = "personal"
  BY SingleUserAssumption DEF RewrittenConfig, ConfigRow, ConfigDoc

(* Every row is rewritten, so what a row remembers survives a migration;   *)
(* the scopes are the caller's part.                                       *)
LEMMA RewriteRemembers ==
    ASSUME UserInv, NEW restore \in BOOLEAN, Rewrite(restore),
           schema' = IF restore THEN "scoped" ELSE "single"
    PROVE  /\ runs' \in [Run -> RunRow \union {NoRun}]
           /\ configs' \in [Cfg -> ConfigRow \union {NoCfg}]
           /\ \A k \in Run :
                IF runs[k] = NoRun THEN runs'[k] = NoRun
                ELSE /\ runs'[k] # NoRun
                     /\ Remembers(schema', runs'[k], told'[k], published'[k])
                     /\ restore => runs'[k].scope = "personal"
           /\ \A c \in Cfg :
                IF configs[c] = NoCfg THEN configs'[c] = NoCfg
                ELSE /\ configs'[c] # NoCfg
                     /\ configs'[c].hash = ConfigDoc(configs'[c].sem)
                     /\ restore => configs'[c].scope = "personal"
  <1>1. /\ told' = told /\ published' = published
        /\ runs' = [k \in Run |-> IF ~Began(k) THEN NoRun
                                  ELSE IF restore THEN DowngradedRun(runs[k])
                                  ELSE UpgradedRun(runs[k])]
        /\ configs' = [c \in Cfg |-> IF configs[c] = NoCfg THEN NoCfg
                                     ELSE RewrittenConfig(configs[c], restore)]
    BY DEF Rewrite
  <1>2. ASSUME NEW k \in Run, runs[k] # NoRun
        PROVE  /\ runs'[k] \in RunRow /\ runs'[k] # NoRun
               /\ Remembers(schema', runs'[k], told'[k], published'[k])
               /\ restore => runs'[k].scope = "personal"
    <2>1. runs[k] \in RunRow /\ Remembers(schema, runs[k], told[k], published[k])
      BY <1>2 DEF UserInv, UserTypeOK
    <2>2. runs'[k] = IF restore THEN DowngradedRun(runs[k]) ELSE UpgradedRun(runs[k])
      BY <1>1, <1>2 DEF Began
    <2>3. runs'[k] \in RunRow
      BY <2>1, <2>2, RewrittenRun
    <2> QED
      BY <1>1, <2>1, <2>2, <2>3, RewrittenRun, SingleUserAssumption
  <1>3. \A k \in Run : runs[k] = NoRun => runs'[k] = NoRun
    BY <1>1 DEF Began
  <1>4. runs' \in [Run -> RunRow \union {NoRun}]
    <2>1. \A k \in Run : runs'[k] \in RunRow \union {NoRun}
      BY <1>2, <1>3
    <2> QED
      BY <1>1, <2>1
  <1>5. ASSUME NEW c \in Cfg, configs[c] # NoCfg
        PROVE  /\ configs'[c] \in ConfigRow /\ configs'[c] # NoCfg
               /\ configs'[c].hash = ConfigDoc(configs'[c].sem)
               /\ restore => configs'[c].scope = "personal"
    <2>1. configs[c] \in ConfigRow
      BY <1>5 DEF UserInv, UserTypeOK
    <2>2. configs'[c] = RewrittenConfig(configs[c], restore)
      BY <1>1, <1>5
    <2> QED
      BY <2>1, <2>2, RewrittenVersion, SingleUserAssumption
  <1>6. \A c \in Cfg : configs[c] = NoCfg => configs'[c] = NoCfg
    BY <1>1
  <1>7. configs' \in [Cfg -> ConfigRow \union {NoCfg}]
    <2>1. \A c \in Cfg : configs'[c] \in ConfigRow \union {NoCfg}
      BY <1>5, <1>6
    <2> QED
      BY <1>1, <2>1
  <1> QED
    BY <1>2, <1>3, <1>4, <1>5, <1>6, <1>7

(* Before an upgrade every row still names the scope its data came from,   *)
(* so that one legacy scope means one origin.                              *)
LEMMA OneLegacyScope ==
    ASSUME UserInv, schema = "scoped", Cardinality(LegacyScopes) <= 1
    PROVE  Cardinality({origin[x] : x \in Run \union Cfg} \ {NoScope}) <= 1
  <1> DEFINE Origins == {origin[x] : x \in Run \union Cfg} \ {NoScope}
             began == {k \in Run : Began(k)}
             stored == {c \in Cfg : configs[c] # NoCfg}
  <1>1. IsFiniteSet(LegacyScopes)
    <2> DEFINE rows == began \union stored
               scopeOf == [x \in rows |-> IF x \in Run THEN runs[x].scope
                                          ELSE configs[x].scope]
    <2>1. IsFiniteSet(rows)
      BY SingleUserAssumption, FS_Subset
    <2>2. /\ \A k \in began : scopeOf[k] = runs[k].scope
          /\ \A c \in stored : scopeOf[c] = configs[c].scope
      BY SingleUserAssumption
    <2>3. /\ \A x \in rows : scopeOf[x] \in LegacyScopes
          /\ \A s \in LegacyScopes : \E x \in rows : scopeOf[x] = s
      BY <2>2 DEF LegacyScopes
    <2>4. scopeOf \in [rows -> LegacyScopes]
      BY <2>3
    <2> HIDE DEF rows, scopeOf
    <2>5. scopeOf \in Surjection(rows, LegacyScopes)
      BY <2>3, <2>4, Fun_IsSurj
    <2> QED
      BY <2>1, <2>5, FS_Surjection
  <1>2. Origins \subseteq LegacyScopes
    <2>1. ASSUME NEW k \in Run, origin[k] # NoScope PROVE origin[k] \in LegacyScopes
      BY <2>1 DEF UserInv, KnowsOrigin, LegacyScopes, Began
    <2>2. ASSUME NEW c \in Cfg, origin[c] # NoScope PROVE origin[c] \in LegacyScopes
      BY <2>2 DEF UserInv, KnowsOrigin, LegacyScopes
    <2> QED
      BY <2>1, <2>2
  <1>3. Cardinality(Origins) <= Cardinality(LegacyScopes) /\ IsFiniteSet(Origins)
    BY <1>1, <1>2, FS_Subset
  <1>4. Cardinality(Origins) \in Nat /\ Cardinality(LegacyScopes) \in Nat
    BY <1>1, <1>3, FS_CardinalityType
  <1> QED
    BY <1>3, <1>4

(* Migration 0003 keeps what every row remembers. *)
LEMMA UpgradeRemembers ==
    ASSUME UserInv, Upgrade
    PROVE  UserInv'
  <1>1. /\ schema = "scoped" /\ schema' = "single"
        /\ Rewrite(FALSE)
        /\ UNCHANGED <<sync, told, published, origin>>
    BY DEF Upgrade, Rewrite
  <1>2. /\ runs' \in [Run -> RunRow \union {NoRun}]
        /\ configs' \in [Cfg -> ConfigRow \union {NoCfg}]
        /\ \A k \in Run :
             IF runs[k] = NoRun THEN runs'[k] = NoRun
             ELSE runs'[k] # NoRun /\ Remembers("single", runs'[k], told'[k], published'[k])
        /\ \A c \in Cfg :
             IF configs[c] = NoCfg THEN configs'[c] = NoCfg
             ELSE configs'[c] # NoCfg /\ configs'[c].hash = ConfigDoc(configs'[c].sem)
    BY <1>1, RewriteRemembers
  <1>3. UserTypeOK'
    BY <1>1, <1>2 DEF UserInv, UserTypeOK
  <1>4. ScopesAreNotMixed'
    <2>1. Cardinality({origin[x] : x \in Run \union Cfg} \ {NoScope}) <= 1
      BY <1>1, OneLegacyScope DEF Upgrade
    <2>2. {origin[x] : x \in Run \union Cfg}' = {origin[x] : x \in Run \union Cfg}
      BY <1>1
    <2> QED
      BY <2>1, <2>2 DEF ScopesAreNotMixed
  <1>5. \A k \in Run : (IF runs[k] = NoRun THEN origin[k] = NoScope
                        ELSE /\ Remembers(schema, runs[k], told[k], published[k])
                             /\ KnowsOrigin(schema, runs[k], origin[k]))'
    BY <1>1, <1>2 DEF UserInv, KnowsOrigin
  <1>6. \A c \in Cfg : (IF configs[c] = NoCfg THEN origin[c] = NoScope
                        ELSE /\ schema = "single" => configs[c].hash = ConfigDoc(configs[c].sem)
                             /\ KnowsOrigin(schema, configs[c], origin[c]))'
    BY <1>1, <1>2 DEF UserInv, KnowsOrigin
  <1> QED
    BY <1>3, <1>4, <1>5, <1>6 DEF UserInv

(* Its downgrade does too. *)
LEMMA DowngradeRemembers ==
    ASSUME UserInv, Downgrade
    PROVE  UserInv'
  <1>1. /\ schema = "single" /\ schema' = "scoped"
        /\ Rewrite(TRUE)
        /\ UNCHANGED <<sync, told, published>>
        /\ origin' = [x \in Run \union Cfg |->
                        IF IF x \in Run THEN Began(x) ELSE configs[x] # NoCfg
                        THEN "personal" ELSE NoScope]
    BY DEF Downgrade, Rewrite
  <1>2. /\ runs' \in [Run -> RunRow \union {NoRun}]
        /\ configs' \in [Cfg -> ConfigRow \union {NoCfg}]
        /\ \A k \in Run :
             IF runs[k] = NoRun THEN runs'[k] = NoRun
             ELSE /\ runs'[k] # NoRun /\ runs'[k].scope = "personal"
                  /\ Remembers("scoped", runs'[k], told'[k], published'[k])
        /\ \A c \in Cfg :
             IF configs[c] = NoCfg THEN configs'[c] = NoCfg
             ELSE configs'[c] # NoCfg /\ configs'[c].scope = "personal"
    BY <1>1, RewriteRemembers
  <1>3. /\ \A k \in Run : origin'[k] = IF runs[k] # NoRun THEN "personal" ELSE NoScope
        /\ \A c \in Cfg : origin'[c] = IF configs[c] # NoCfg THEN "personal" ELSE NoScope
    BY <1>1, SingleUserAssumption DEF Began
  <1>4. UserTypeOK'
    <2>1. origin' \in [Run \union Cfg -> Scope \union {NoScope}]
      BY <1>1, SingleUserAssumption
    <2> QED
      BY <1>1, <1>2, <2>1 DEF UserInv, UserTypeOK
  <1>5. ScopesAreNotMixed'
    BY <1>1 DEF ScopesAreNotMixed
  <1>6. \A k \in Run : (IF runs[k] = NoRun THEN origin[k] = NoScope
                        ELSE /\ Remembers(schema, runs[k], told[k], published[k])
                             /\ KnowsOrigin(schema, runs[k], origin[k]))'
    BY <1>1, <1>2, <1>3, SingleUserAssumption DEF KnowsOrigin
  <1>7. \A c \in Cfg : (IF configs[c] = NoCfg THEN origin[c] = NoScope
                        ELSE /\ schema = "single" => configs[c].hash = ConfigDoc(configs[c].sem)
                             /\ KnowsOrigin(schema, configs[c], origin[c]))'
    BY <1>1, <1>2, <1>3, SingleUserAssumption DEF KnowsOrigin
  <1> QED
    BY <1>4, <1>5, <1>6, <1>7 DEF UserInv

-----------------------------------------------------------------------------
(***************************************************************************)
(* UserInv holds after every request, upgrade and downgrade.               *)
(***************************************************************************)
THEOREM RowsRemember == UserSpec => []UserInv
  <1>1. UserInit => UserInv
    BY InitRemembers
  <1>2. UserInv /\ [UserNext]_userVars => UserInv'
    <2> SUFFICES ASSUME UserInv, [UserNext]_userVars PROVE UserInv'
      OBVIOUS
    <2>1. ASSUME NEW k \in Run, NEW q \in Requests, NEW s, BeginRun(k, q, s) PROVE UserInv'
      BY <2>1, BeginRemembers
    <2>2. ASSUME NEW k \in Run, NEW b \in Batch, UploadBatch(k, b) PROVE UserInv'
      BY <2>2, UploadRemembers
    <2>3. ASSUME NEW k \in Run, CommitRun(k) PROVE UserInv'
      BY <2>3, CommitRemembers
    <2>4. ASSUME NEW c \in Cfg, NEW sem \in Sem, NEW s, Configure(c, sem, s) PROVE UserInv'
      BY <2>4, ConfigureRemembers
    <2>5. CASE UNCHANGED userVars
      BY <2>5 DEF userVars, UserInv, UserTypeOK, ScopesAreNotMixed
    <2> QED
      BY <2>1, <2>2, <2>3, <2>4, <2>5, UpgradeRemembers, DowngradeRemembers DEF UserNext
  <1> QED
    BY <1>1, <1>2, PTL DEF UserSpec

(***************************************************************************)
(* A retry is never a conflict, however often and in which order the       *)
(* client lists its accounts and the database is migrated.                 *)
(***************************************************************************)
THEOREM AnyRetryIsAnswered == UserSpec => []RetriesAreAnswered
  <1>1. UserInv => RetriesAreAnswered
    <2> SUFFICES ASSUME UserInv, schema = "single",
                        NEW k \in Run, Began(k),
                        NEW accounts \in Arrangements(told[k].accounts)
                 PROVE  /\ BeginIsAnswered(k, [told[k] EXCEPT !.accounts = accounts])
                        /\ IsCommitted(k) =>
                             CommitIsAnswered(k, Cardinality(runs[k].batches), accounts)
      BY DEF RetriesAreAnswered, UserInv
    <2> DEFINE again == [told[k] EXCEPT !.accounts = accounts]
    <2>1. Remembers("single", runs[k], told[k], published[k])
      BY DEF UserInv, Began
    <2>2. told[k] \in Request
      BY <2>1, SingleUserAssumption DEF Remembers
    <2>3. Sorted(accounts) = Sorted(told[k].accounts)
      BY <2>2, SortingForgetsOrder DEF Request
    <2>4. again.mode = told[k].mode /\ again.accounts = accounts
      BY <2>2 DEF Request
    <2>5. RequestDoc(again) = RequestDoc(told[k])
      BY <2>3, <2>4 DEF RequestDoc
    <2> QED
      BY <2>1, <2>3, <2>5 DEF Remembers, BeginIsAnswered, CommitIsAnswered, IsCommitted, Began
  <1> QED
    BY <1>1, RowsRemember, PTL

(***************************************************************************)
(* A commit publishes every batch that was acknowledged under any schema.  *)
(***************************************************************************)
THEOREM StagedIsPublished == UserSpec => []NothingStagedIsLost
  <1>1. UserInv => NothingStagedIsLost
    BY DEF UserInv, Remembers, NothingStagedIsLost, IsCommitted, Began
  <1> QED
    BY <1>1, RowsRemember, PTL

(***************************************************************************)
(* The data of two scopes never become one user's.                         *)
(***************************************************************************)
THEOREM ScopesStayApart == UserSpec => []ScopesAreNotMixed
  <1>1. UserInv => ScopesAreNotMixed
    BY DEF UserInv
  <1> QED
    BY <1>1, RowsRemember, PTL
=============================================================================
