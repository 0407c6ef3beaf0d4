-------------------------- MODULE MergeLoopProofs --------------------------
(***************************************************************************)
(* The loops of _replace_all_transactions and _merge_incremental compute   *)
(* the set-based merge, for any staging and ledger and any order of the    *)
(* rows.  The loop invariant says what the table is after some of the rows *)
(* have been handled: the merge of just those rows.                        *)
(***************************************************************************)
EXTENDS MergeLoop, TLAPS

(* What the loop relies on: staged identities are unique (the primary key  *)
(* of staged_transactions) and the replacements have been validated.       *)
Unambiguous == \A x, y \in staged : Id(x) = Id(y) => x = y

(* The rows handled so far that are stored, not skipped. *)
StoredSoFar == {i \in Stored(staged) : i \notin todo}

(* The table after those rows. *)
RowSoFar(id) ==
    /\ \A i \in StoredSoFar : Id(i) = id =>
         table[id] = RowOf(i, 1, IF full \/ before[id] = NoTx THEN current
                                 ELSE before[id].first, current)
    /\ (\A i \in StoredSoFar : Id(i) # id) =>
         table[id] = IF full \/ id \in ReplacementTargets(StoredSoFar) THEN NoTx
                     ELSE before[id]

LoopInv ==
    /\ staged \in SUBSET Item /\ before \in Ledger /\ full \in BOOLEAN
    /\ todo \subseteq staged
    /\ table \in Ledger
    /\ Unambiguous
    /\ ReplacementsValid(staged, before)
    /\ \A id \in Identity : RowSoFar(id)

-----------------------------------------------------------------------------
(* A stored item is a well-typed row. *)
LEMMA StoredRow ==
  ASSUME NEW i \in Item, NEW first \in Run
  PROVE  RowOf(i, 1, first, current) \in Row
BY LoopAssumption DEF RowOf, Row, Item

(* The identity of an item, and of the row it replaces. *)
LEMMA Identities ==
  ASSUME NEW i \in Item
  PROVE  Id(i) \in Identity /\ (i.repl # NoSource => Target(i) \in Identity)
BY DEF Item, Id, Target, Identity

(* A replacement is never itself replaced, so all of them are stored. *)
LEMMA ReplacementsAreStored ==
  ASSUME NEW s, NEW l, ReplacementsValid(s, l), NEW i \in Replacing(s)
  PROVE  i \in Stored(s)
<1>1. i \in s /\ ~i.pend
  BY DEF Replacing, ReplacementsValid
<1>2. ASSUME NEW j \in Replacing(s) PROVE Target(j) # Id(i)
  BY <1>1, <1>2 DEF ReplacementsValid
<1> QED BY <1>1, <1>2 DEF Stored, ReplacementTargets

(* What an item replaces is not stored. *)
LEMMA TargetsAreNotStored ==
  ASSUME NEW s, NEW i \in Replacing(s), NEW j \in Stored(s)
  PROVE  Target(i) # Id(j)
BY DEF Stored, ReplacementTargets

-----------------------------------------------------------------------------
(* Before the first row the table is empty or the ledger that was found. *)
LEMMA LoopInitInv == LoopInit => LoopInv
<1> SUFFICES ASSUME LoopInit PROVE LoopInv
  OBVIOUS
<1>1. staged \in SUBSET Item /\ before \in Ledger /\ full \in BOOLEAN
  BY LoopAssumption DEF LoopInit
<1>2. table \in Ledger
  BY <1>1 DEF LoopInit, Ledger
<1>3. StoredSoFar = {}
  BY DEF LoopInit, StoredSoFar, Stored
<1>4. ReplacementTargets({}) = {}
  BY DEF ReplacementTargets, Replacing
<1>5. ASSUME NEW id \in Identity PROVE RowSoFar(id)
  BY <1>3, <1>4, <1>5 DEF LoopInit, RowSoFar
<1> QED BY <1>1, <1>2, <1>5 DEF LoopInit, LoopInv, Unambiguous

(* One more row: skipped, or stored with the row it replaces deleted. *)
LEMMA IterateKeepsInv ==
  ASSUME LoopInv, NEW i \in todo, Iterate(i)
  PROVE  LoopInv'
<1> USE DEF LoopInv
<1>1. /\ UNCHANGED <<staged, before, full>>
      /\ todo' = todo \ {i} /\ i \in staged /\ i \in Item
  BY DEF Iterate
<1>2. Unambiguous' /\ ReplacementsValid(staged, before)'
  BY <1>1 DEF Unambiguous
<1>3. CASE Skip(i)
  <2>1. i \notin Stored(staged)
    BY <1>3 DEF Skip, Stored
  <2>2. StoredSoFar' = StoredSoFar
    BY <1>1, <2>1 DEF StoredSoFar, Stored
  <2>3. table' = table
    BY <1>3 DEF Skip
  <2>4. \A id \in Identity : RowSoFar(id)'
    BY <1>1, <2>2, <2>3 DEF RowSoFar
  <2> QED BY <1>1, <1>2, <2>3, <2>4
<1>4. CASE Store(i)
  <2> DEFINE cleared == WithoutReplaced(i)
             first == IF full \/ before[Id(i)] = NoTx THEN current
                      ELSE before[Id(i)].first
  <2>1. i \in Stored(staged)
    BY <1>1, <1>4 DEF Store, Stored
  <2>2. StoredSoFar' = StoredSoFar \union {i}
    BY <1>1, <2>1 DEF StoredSoFar, Stored
  <2>3. /\ cleared \in Ledger
        /\ \A id \in Identity : cleared[id] = IF ~full /\ i.repl # NoSource /\ id = Target(i)
                                              THEN NoTx ELSE table[id]
    BY DEF WithoutReplaced, Ledger
  <2>4. \A j \in StoredSoFar : j \in staged /\ j # i /\ Id(j) # Id(i)
    BY <1>1 DEF StoredSoFar, Stored, Unambiguous
  <2>5. Id(i) \in Identity /\ (i.repl # NoSource => Target(i) \in Identity)
    BY <1>1, Identities
  <2>6. i.repl # NoSource => Target(i) # Id(i)
    BY <1>1, <2>1, TargetsAreNotStored DEF Replacing
  <2>7. Id(i) \notin ReplacementTargets(StoredSoFar)
    BY <2>1 DEF StoredSoFar, Stored, ReplacementTargets, Replacing
  <2>8. cleared[Id(i)] = IF full THEN NoTx ELSE before[Id(i)]
    BY <2>3, <2>4, <2>5, <2>6, <2>7 DEF RowSoFar
  <2>9. table' = [cleared EXCEPT ![Id(i)] = RowOf(i, 1, first, current)]
    BY <1>4, <2>8 DEF Store, StoreItem
  <2>10. first \in Run
    BY <2>5, LoopAssumption DEF Ledger, Row
  <2>11. table' \in Ledger
    BY <1>1, <2>3, <2>9, <2>10, StoredRow DEF Ledger
  <2>12. ASSUME NEW id \in Identity PROVE RowSoFar(id)'
    <3>1. CASE id = Id(i)
      <4>1. table'[id] = RowOf(i, 1, first, current)
        BY <2>3, <2>5, <2>9, <3>1 DEF Ledger
      <4> QED BY <1>1, <2>2, <2>4, <3>1, <4>1 DEF RowSoFar
    <3>2. CASE id # Id(i)
      <4>1. table'[id] = cleared[id]
        BY <2>3, <2>9, <3>2 DEF Ledger
      <4>2. CASE i.repl # NoSource /\ id = Target(i)
        <5>1. \A j \in StoredSoFar' : Id(j) # id
          BY <1>1, <2>2, <3>2, <4>2, TargetsAreNotStored DEF StoredSoFar, Replacing
        <5>2. id \in ReplacementTargets(StoredSoFar')
          BY <2>2, <4>2 DEF ReplacementTargets, Replacing
        <5>3. table'[id] = NoTx
          BY <2>3, <4>1, <4>2, <5>1, <2>2 DEF RowSoFar
        <5> QED BY <1>1, <5>1, <5>2, <5>3 DEF RowSoFar
      <4>3. CASE ~(i.repl # NoSource /\ id = Target(i))
        <5>1. table'[id] = table[id]
          BY <2>3, <4>1, <4>3
        <5>2. id \in ReplacementTargets(StoredSoFar') <=> id \in ReplacementTargets(StoredSoFar)
          BY <2>2, <4>3 DEF ReplacementTargets, Replacing
        <5> QED BY <1>1, <2>2, <3>2, <5>1, <5>2 DEF RowSoFar
      <4> QED BY <4>2, <4>3
    <3> QED BY <3>1, <3>2
  <2> QED BY <1>1, <1>2, <2>11, <2>12
<1> QED BY <1>3, <1>4 DEF Iterate

(***************************************************************************)
(* The loop invariant: after any of the staged rows, in any order, the     *)
(* table is the merge of exactly those rows (_replace_all_transactions and *)
(* _merge_incremental).                                                    *)
(***************************************************************************)
THEOREM LoopMergesSoFar == LoopSpec => []LoopInv
<1>1. LoopInv /\ UNCHANGED loopVars => LoopInv'
  <2> SUFFICES ASSUME LoopInv, UNCHANGED loopVars PROVE LoopInv'
    OBVIOUS
  <2>1. UNCHANGED <<staged, before, full, todo, table>>
    BY DEF loopVars
  <2>2. StoredSoFar' = StoredSoFar
    BY <2>1 DEF StoredSoFar, Stored
  <2>3. \A id \in Identity : RowSoFar(id)'
    BY <2>1, <2>2 DEF LoopInv, RowSoFar
  <2> QED BY <2>1, <2>3 DEF LoopInv, Unambiguous
<1>2. LoopInv /\ [LoopNext]_loopVars => LoopInv'
  BY <1>1, IterateKeepsInv DEF LoopNext
<1> QED BY <1>2, LoopInitInv, PTL DEF LoopSpec

-----------------------------------------------------------------------------
(* What is stored at an identity, when identities are unambiguous. *)
LEMMA StoredAtIsIt ==
  ASSUME Unambiguous, NEW i \in Stored(staged)
  PROVE  StoredAt(staged, Id(i)) = {i}
BY DEF Unambiguous, StoredAt, Stored

(***************************************************************************)
(* The SELECT over staged_transactions has no ORDER BY and needs none: at  *)
(* the end the table is the set-based merge, and no replaced pending row   *)
(* is left beside its replacement, for any number of rows.                 *)
(***************************************************************************)
THEOREM OrderNeverMatters == LoopSpec => []OrderDoesNotMatter
<1>1. LoopInv => OrderDoesNotMatter
  <2> SUFFICES ASSUME LoopInv, todo = {} PROVE
        /\ table = IF full THEN ReplaceAll(staged, current, 1)
                   ELSE MergeIncremental(staged, before, current, 1)
        /\ \A i \in staged : i.repl # NoSource => table[Target(i)] = NoTx
    BY DEF OrderDoesNotMatter
  <2> USE DEF LoopInv
  <2> DEFINE merged == IF full THEN ReplaceAll(staged, current, 1)
                       ELSE MergeIncremental(staged, before, current, 1)
  <2>1. StoredSoFar = Stored(staged)
    BY DEF StoredSoFar
  <2>2. ASSUME NEW id \in Identity PROVE table[id] = merged[id]
    <3>1. RowSoFar(id)
      OBVIOUS
    <3>2. CASE StoredAt(staged, id) = {}
      <4>1. \A i \in StoredSoFar : Id(i) # id
        BY <2>1, <3>2 DEF StoredAt
      <4> QED BY <2>1, <3>1, <3>2, <4>1 DEF RowSoFar, ReplaceAll, MergeIncremental
    <3>3. CASE StoredAt(staged, id) # {}
      <4>1. PICK i \in Stored(staged) : Id(i) = id
        BY <3>3 DEF StoredAt
      <4>2. (CHOOSE x \in StoredAt(staged, id) : TRUE) = i
        BY <4>1, StoredAtIsIt
      <4> QED BY <2>1, <3>1, <3>3, <4>1, <4>2 DEF RowSoFar, ReplaceAll, MergeIncremental
    <3> QED BY <3>2, <3>3
  <2>3. table = [id \in Identity |-> table[id]]
    BY DEF Ledger
  <2>4. merged = [id \in Identity |-> merged[id]]
    BY DEF ReplaceAll, MergeIncremental
  <2> HIDE DEF merged
  <2>5. table = merged
    BY <2>2, <2>3, <2>4
  <2>6. ASSUME NEW i \in staged, i.repl # NoSource PROVE table[Target(i)] = NoTx
    <3>1. i \in Replacing(staged) /\ i \in Stored(staged)
      BY <2>6, ReplacementsAreStored DEF Replacing
    <3>2. \A j \in StoredSoFar : Id(j) # Target(i)
      BY <2>1, <3>1, TargetsAreNotStored
    <3>3. Target(i) \in ReplacementTargets(StoredSoFar)
      BY <2>1, <2>6, <3>1 DEF ReplacementTargets, Replacing
    <3>4. Target(i) \in Identity
      BY <2>6, Identities
    <3> QED BY <3>2, <3>3, <3>4 DEF RowSoFar
  <2> QED BY <2>5, <2>6 DEF merged
<1> QED BY <1>1, LoopMergesSoFar, PTL

(***************************************************************************)
(* An incremental loop never touches a row that the run neither uploads    *)
(* nor replaces, at no point of the loop, and a row it overwrites keeps    *)
(* the run that first saw it (_store_staged).                              *)
(***************************************************************************)
THEOREM OldRowsStay == LoopSpec => []OldRowsKept
<1>1. LoopInv => OldRowsKept
  <2> SUFFICES ASSUME LoopInv, ~full, NEW id \in Identity, before[id] # NoTx
               PROVE  /\ (id \notin {Id(i) : i \in staged} \union ReplacementTargets(staged))
                           => table[id] = before[id]
                      /\ table[id] # NoTx => table[id].first = before[id].first
    BY DEF OldRowsKept
  <2> USE DEF LoopInv
  <2>1. StoredSoFar \subseteq staged
    BY DEF StoredSoFar, Stored
  <2>2. ReplacementTargets(StoredSoFar) \subseteq ReplacementTargets(staged)
    BY <2>1 DEF ReplacementTargets, Replacing
  <2>3. CASE \E i \in StoredSoFar : Id(i) = id
    <3>1. PICK i \in StoredSoFar : Id(i) = id
      BY <2>3
    <3>2. table[id] = RowOf(i, 1, before[id].first, current)
      BY <3>1 DEF RowSoFar
    <3> QED BY <2>1, <3>1, <3>2 DEF RowOf
  <2>4. CASE \A i \in StoredSoFar : Id(i) # id
    BY <2>2, <2>4 DEF RowSoFar
  <2> QED BY <2>3, <2>4
<1> QED BY <1>1, LoopMergesSoFar, PTL
=============================================================================
