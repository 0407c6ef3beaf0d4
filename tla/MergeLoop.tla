----------------------------- MODULE MergeLoop -----------------------------
(***************************************************************************)
(* The loops of _replace_all_transactions and _merge_incremental, row by   *)
(* row.  Both read the staged rows with a SELECT that has no ORDER BY, so  *)
(* the database may return them in any order; LedgerMerge says what the    *)
(* ledger is after the loop.  This module shows that it does not depend on *)
(* the order, nor on what an earlier iteration deleted or stored.          *)
(***************************************************************************)
EXTENDS LedgerMerge

CONSTANTS
    Stagings,   \* sets of items a run may have staged
    Ledgers,    \* ledgers it may find
    earlier,    \* the run that wrote those ledgers
    current     \* the run being committed

ASSUME LoopAssumption ==
    /\ Stagings \subseteq SUBSET Item
    /\ Ledgers \subseteq Ledger
    /\ earlier \in Run /\ current \in Run

VARIABLES
    staged, before,   \* the inputs
    full,             \* run.mode == FULL
    todo,             \* staged rows the SELECT has not returned yet
    table             \* the transactions table

loopVars == <<staged, before, full, todo, table>>

LoopInit ==
    /\ staged \in Stagings
    /\ \A x, y \in staged : Id(x) = Id(y) => x = y
    /\ before \in Ledgers
    /\ ReplacementsValid(staged, before)
    /\ full \in BOOLEAN
    /\ todo = staged
    /\ table = IF full THEN [id \in Identity |-> NoTx] ELSE before

(* _delete_live_identity, only the incremental loop calls it. *)
WithoutReplaced(i) ==
    [id \in Identity |-> IF ~full /\ i.repl # NoSource /\ id = Target(i)
                         THEN NoTx ELSE table[id]]

(* Faulty: first_refresh_run_id is not preserved. *)
StoreAsNew(i, rows) == [rows EXCEPT ![Id(i)] = RowOf(i, 1, current, current)]

(* _store_staged: an existing row is replaced but keeps its first run. *)
StoreItem(i, rows) ==
    [rows EXCEPT ![Id(i)] =
        RowOf(i, 1, IF full \/ rows[Id(i)] = NoTx THEN current
                    ELSE rows[Id(i)].first, current)]

(* `continue` for a staged row that another staged row replaces. *)
Skip(i) ==
    /\ Id(i) \in ReplacementTargets(staged)
    /\ UNCHANGED table

(* Faulty: the replaced pending row is not deleted. *)
StoreOnly(i) ==
    /\ Id(i) \notin ReplacementTargets(staged)
    /\ table' = StoreItem(i, table)

Store(i) ==
    /\ Id(i) \notin ReplacementTargets(staged)
    /\ table' = StoreItem(i, WithoutReplaced(i))

Iterate(i) ==
    /\ Skip(i) \/ Store(i)
    /\ todo' = todo \ {i}
    /\ UNCHANGED <<staged, before, full>>

LoopNext == \E i \in todo : Iterate(i)

LoopSpec == LoopInit /\ [][LoopNext]_loopVars

(***************************************************************************)
(* Whatever order the rows come in, the loop computes the set-based merge; *)
(* no replaced pending identity is left, so it is not counted twice.       *)
(***************************************************************************)
OrderDoesNotMatter ==
    todo = {} =>
        /\ table = IF full THEN ReplaceAll(staged, current, 1)
                   ELSE MergeIncremental(staged, before, current, 1)
        /\ \A i \in staged : i.repl # NoSource => table[Target(i)] = NoTx

(***************************************************************************)
(* Rows of the old ledger that the run neither uploads nor replaces are    *)
(* untouched at every point of an incremental loop, and keep their first   *)
(* run when they are overwritten.                                          *)
(***************************************************************************)
OldRowsKept ==
    ~full =>
        \A id \in Identity : before[id] # NoTx =>
            /\ (id \notin {Id(i) : i \in staged} \union ReplacementTargets(staged))
                 => table[id] = before[id]
            /\ table[id] # NoTx => table[id].first = before[id].first
=============================================================================
