---------------------------- MODULE LedgerMerge ----------------------------
(***************************************************************************)
(* The pure part of a refresh commit: how the staged transactions of a run *)
(* change the live ledger (the functions of services/refresh_service.py    *)
(* that commit_refresh calls between VALIDATED and COMMITTED).  Amounts,   *)
(* names and timestamps play no role there and are left out; a transaction *)
(* is what the merge looks at.                                             *)
(***************************************************************************)
EXTENDS Integers

CONSTANTS
    Account,    \* source account identifiers
    Source,     \* source transaction identifiers, unique within an account
    Cat,        \* category keys
    Currency,   \* currency codes
    Run,        \* refresh runs
    NoSource,   \* pending_source_id is None
    NoTx        \* the transactions table has no row of that identity

(* The primary key of the transactions and the staged_transactions tables. *)
Identity == Account \X Source

(* A TransactionUpload as its validator lets it through. *)
Item ==
    {i \in [acct : Account, src : Source, date : Int, pend : BOOLEAN,
            repl : Source \union {NoSource}, cur : Currency,
            cats : (SUBSET Cat) \ {{}}] :
        i.repl # NoSource => (~i.pend /\ i.repl # i.src)}

(* A row of the transactions table with its transaction_categories rows;   *)
(* cfg is config_version_id, first and last are the provenance columns.    *)
Row == [date : Int, pend : BOOLEAN, repl : Source \union {NoSource},
        cur : Currency, cats : SUBSET Cat, cfg : Nat, first : Run, last : Run]

Ledger == [Identity -> Row \union {NoTx}]

ASSUME SentinelAssumption == NoSource \notin Source /\ NoTx \notin Row

Id(i) == <<i.acct, i.src>>
Target(i) == <<i.acct, i.repl>>
Replacing(staged) == {i \in staged : i.repl # NoSource}
ReplacementTargets(staged) == {Target(i) : i \in Replacing(staged)}

(***************************************************************************)
(* _validate_pending_replacements: a replacement names another identity,   *)
(* comes from a posted item, is the only one with its target, and finds    *)
(* that target pending wherever it exists, staged or live.                 *)
(***************************************************************************)
ReplacementsValid(staged, live) ==
    \A i \in Replacing(staged) :
        /\ ~i.pend
        /\ Target(i) # Id(i)
        /\ \A j \in Replacing(staged) : Target(j) = Target(i) => j = i
        /\ \A j \in staged : Id(j) = Target(i) => j.pend
        /\ Target(i) \in Identity /\ live[Target(i)] # NoTx
             => live[Target(i)].pend

(* Faulty: without the `continue` for replaced rows. *)
StoredAll(staged) == {i \in staged : TRUE}

(* The staged items both merges store: those no staged item replaces. *)
Stored(staged) == {i \in staged : Id(i) \notin ReplacementTargets(staged)}

RowOf(i, cfg, first, last) ==
    [date |-> i.date, pend |-> i.pend, repl |-> i.repl, cur |-> i.cur,
     cats |-> i.cats, cfg |-> cfg, first |-> first, last |-> last]

StoredAt(staged, id) == {i \in Stored(staged) : Id(i) = id}

(* _replace_all_transactions: a FULL_REBUILD starts from an empty ledger. *)
ReplaceAll(staged, run, cfg) ==
    [id \in Identity |->
        IF StoredAt(staged, id) = {} THEN NoTx
        ELSE RowOf(CHOOSE i \in StoredAt(staged, id) : TRUE, cfg, run, run)]

(***************************************************************************)
(* _merge_incremental: stored items overwrite their identity and keep its  *)
(* first_refresh_run_id; the pending identities they replace disappear.    *)
(***************************************************************************)
MergeIncremental(staged, live, run, cfg) ==
    [id \in Identity |->
        IF StoredAt(staged, id) # {}
        THEN RowOf(CHOOSE i \in StoredAt(staged, id) : TRUE, cfg,
                   IF live[id] = NoTx THEN run ELSE live[id].first, run)
        ELSE IF id \in ReplacementTargets(Stored(staged)) THEN NoTx
        ELSE live[id]]

(* rules maps a category to its lookback_days (look) and is_enabled (on). *)
Cutoff(rules, c, to) == to - (rules[c].look - 1)

CatsInWindow(row, rules, to) ==
    {c \in row.cats : c \in DOMAIN rules => row.date >= Cutoff(rules, c, to)}

(* Faulty: a row that lost its last category stays. *)
PruneLinksOnly(live, rules, to) ==
    [id \in Identity |->
        IF live[id] = NoTx THEN NoTx
        ELSE [live[id] EXCEPT !.cats = CatsInWindow(live[id], rules, to)]]

(* _prune_outside_windows: drop old category links, then rows without any. *)
Prune(live, rules, to) ==
    [id \in Identity |->
        IF live[id] = NoTx THEN NoTx
        ELSE IF CatsInWindow(live[id], rules, to) = {} THEN NoTx
        ELSE [live[id] EXCEPT !.cats = CatsInWindow(live[id], rules, to)]]
=============================================================================
