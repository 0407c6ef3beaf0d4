---------------------------- MODULE RefreshRuns ----------------------------
(***************************************************************************)
(* Refresh runs (services/refresh_service.py) over the configuration       *)
(* versions: a client begins a run under an idempotency key, uploads       *)
(* batches of classified transactions, and commits.  The commit publishes  *)
(* the new ledger, the sync state and, after a rebuild for a pending       *)
(* configuration, the activation, in one database transaction.             *)
(*                                                                         *)
(* A handler is one step: begin and commit hold the exclusive              *)
(* configuration lock, an upload holds its run's row lock and otherwise    *)
(* reads only immutable rows, and a rejected request or a crash before the *)
(* database commit rolls everything back.  Any number of clients may call  *)
(* any handler at any time with any arguments, so a delayed, duplicated or *)
(* reordered request is just another call.  A repeated begin, upload or    *)
(* commit that the code answers from its records changes no state.         *)
(***************************************************************************)
EXTENDS ConfigVersions

CONSTANTS
    Account, Source, NoSource, NoTx,
    Run,          \* runs, each named by its idempotency key (unique column)
    MaxBatches,   \* bound: batches per run
    Requests,     \* begin requests clients send
    Batches,      \* upload requests clients send
    NoRun, NoBatch, NoSync

INSTANCE LedgerMerge

BatchIndex == 0 .. (MaxBatches - 1)

Mode == {"full", "incremental"}

BeginRequest ==
    {q \in [mode : Mode, from : Int, to : Int, accounts : (SUBSET Account) \ {{}}] :
        q.from <= q.to}

(* An upload request: its idempotency key and a nonempty list of items.    *)
(* The stored request hash and checksum are injective: the request itself. *)
IsBatch(b) == /\ DOMAIN b = {"key", "items"}
              /\ b.items # {}
              /\ b.items \subseteq Item

RefreshRun ==
    [request : Requests, state : {"created", "uploaded", "committed"},
     cfg : Nat \ {0}, before : Nat, staged : SUBSET Item,
     batches : [BatchIndex -> Batches \union {NoBatch}]]

SyncState == [cfg : Nat \ {0}, run : Run, rev : Nat \ {0}]

ASSUME RefreshAssumption ==
    /\ MaxBatches \in Nat
    /\ Requests \subseteq BeginRequest
    /\ \A b \in Batches : IsBatch(b)
    /\ NoSource \notin Source
    /\ NoTx \notin Row
    /\ NoBatch \notin Batches
    /\ NoRun \notin RefreshRun
    /\ NoSync \notin SyncState

VARIABLES
    runs,   \* refresh_runs with their batches and staged transactions
    live,   \* transactions with their transaction_categories
    sync    \* the single sync_states row

vars == <<versions, shown, runs, live, sync>>

TypeOK ==
    /\ ConfigTypeOK
    /\ runs \in [Run -> RefreshRun \union {NoRun}]
    /\ live \in Ledger
    /\ sync \in SyncState \union {NoSync}

Init ==
    /\ ConfigInit
    /\ runs = [k \in Run |-> NoRun]
    /\ live = [id \in Identity |-> NoTx]
    /\ sync = NoSync

-----------------------------------------------------------------------------
Exists(k) == runs[k] # NoRun
Committed(k) == Exists(k) /\ runs[k].state = "committed"

(* A stored revision is positive; 0 stands for a missing sync_states row.  *)
Revision == IF sync = NoSync THEN 0 ELSE sync.rev

(* The configuration a run must be for: a rebuild prefers the pending one. *)
TargetVersion(mode) == IF mode = "full" /\ Pending # 0 THEN Pending ELSE Active

(* The last committed run covered exactly these accounts. *)
SameScope(accounts) ==
    sync # NoSync /\ runs[sync.run].request.accounts = accounts

(* A rebuild's source window reaches back over every enabled rule. *)
CoversRules(q, s) ==
    \A c \in Enabled(s) : q.from <= q.to - (Rules[s][c].look - 1)

(* Faulty: begin accepts an incremental run while a rebuild is required. *)
BeginnableWhilePending(q) ==
    /\ Active # 0
    /\ q.mode = "full" => CoversRules(q, SemOf(TargetVersion(q.mode)))
    /\ q.mode = "incremental" => SameScope(q.accounts)

(* The checks begin_refresh makes of a request with a new key. *)
Beginnable(q) ==
    /\ Active # 0
    /\ q.mode = "incremental" => Pending = 0
    /\ q.mode = "full" => CoversRules(q, SemOf(TargetVersion(q.mode)))
    /\ q.mode = "incremental" => SameScope(q.accounts)

(***************************************************************************)
(* begin_refresh for a new key.                                            *)
(***************************************************************************)
Begin(k, q) ==
    /\ ~Exists(k)
    /\ Beginnable(q)
    /\ runs' = [runs EXCEPT ![k] =
                  [request |-> q, state |-> "created",
                   cfg |-> TargetVersion(q.mode), before |-> Revision,
                   staged |-> {}, batches |-> [i \in BatchIndex |-> NoBatch]]]
    /\ UNCHANGED <<versions, shown, live, sync>>

Received(k) == {i \in BatchIndex : runs[k].batches[i] # NoBatch}

(* The checks upload_batch makes of one item of a batch for run k. *)
Uploadable(k, x) ==
    LET q == runs[k].request
        s == SemOf(runs[k].cfg)
    IN  /\ x.acct \in q.accounts
        /\ x.cur = CurrencyOf[s]
        /\ x.date <= q.to
        /\ q.mode = "full" => x.date >= q.from
        /\ x.cats \subseteq Enabled(s)
        /\ \A y \in runs[k].staged : Id(y) # Id(x)

(* Faulty: the run's state is not looked at. *)
UploadAnytime(k, i, b) ==
    /\ Exists(k)
    /\ runs[k].batches[i] = NoBatch
    /\ \A j \in Received(k) : runs[k].batches[j].key # b.key
    /\ \A x, y \in b.items : Id(x) = Id(y) => x = y
    /\ \A x \in b.items : Uploadable(k, x)
    /\ runs' = [runs EXCEPT ![k].state = "uploaded",
                            ![k].batches[i] = b,
                            ![k].staged = @ \union b.items]
    /\ UNCHANGED <<versions, shown, live, sync>>

(***************************************************************************)
(* upload_batch for a new index.                                           *)
(***************************************************************************)
Upload(k, i, b) ==
    /\ Exists(k)
    /\ runs[k].batches[i] = NoBatch
    /\ \A j \in Received(k) : runs[k].batches[j].key # b.key
    /\ runs[k].state \in {"created", "uploaded"}
    /\ \A x, y \in b.items : Id(x) = Id(y) => x = y
    /\ \A x \in b.items : Uploadable(k, x)
    /\ runs' = [runs EXCEPT ![k].state = "uploaded",
                            ![k].batches[i] = b,
                            ![k].staged = @ \union b.items]
    /\ UNCHANGED <<versions, shown, live, sync>>

(* Faulty: the configuration may have changed since the run began. *)
CommittableForAnyVersion(k, count, completed) ==
    /\ Exists(k)
    /\ runs[k].state = "uploaded" \/ (runs[k].state = "created" /\ count = 0)
    /\ Received(k) = 0 .. (count - 1)
    /\ completed = runs[k].request.accounts
    /\ runs[k].before = Revision
    /\ runs[k].request.mode = "incremental" => SameScope(runs[k].request.accounts)

(* Faulty: another run may have committed since this one began. *)
CommittableOnAnyRevision(k, count, completed) ==
    LET r == runs[k] IN
    /\ Exists(k)
    /\ r.state = "uploaded" \/ (r.state = "created" /\ count = 0)
    /\ versions[r.cfg].status # "superseded"
    /\ r.request.mode = "incremental" =>
         versions[r.cfg].status = "active" /\ Pending = 0
    /\ TargetVersion(r.request.mode) = r.cfg
    /\ Received(k) = 0 .. (count - 1)
    /\ completed = r.request.accounts
    /\ r.request.mode = "incremental" => SameScope(r.request.accounts)

(* Faulty: batches are counted, their indices are not compared. *)
CommittableWithGap(k, count, completed) ==
    LET r == runs[k] IN
    /\ Exists(k)
    /\ r.state = "uploaded" \/ (r.state = "created" /\ count = 0)
    /\ versions[r.cfg].status # "superseded"
    /\ r.request.mode = "incremental" =>
         versions[r.cfg].status = "active" /\ Pending = 0
    /\ TargetVersion(r.request.mode) = r.cfg
    /\ (Received(k) = {}) <=> (count = 0)
    /\ completed = r.request.accounts
    /\ r.before = Revision
    /\ r.request.mode = "incremental" => SameScope(r.request.accounts)

(***************************************************************************)
(* commit_refresh of an open run.                                          *)
(***************************************************************************)
Committable(k, count, completed) ==
    LET r == runs[k] IN
    /\ Exists(k)
    /\ r.state = "uploaded" \/ (r.state = "created" /\ count = 0)
    /\ versions[r.cfg].status # "superseded"
    /\ r.request.mode = "incremental" =>
         versions[r.cfg].status = "active" /\ Pending = 0
    /\ TargetVersion(r.request.mode) = r.cfg
    /\ Received(k) = 0 .. (count - 1)
    /\ completed = r.request.accounts
    /\ r.before = Revision
    /\ r.request.mode = "incremental" => SameScope(r.request.accounts)

(* Faulty: a rebuild merges into the old ledger. *)
AlwaysMerged(k) == MergeIncremental(runs[k].staged, live, k, runs[k].cfg)

(* The ledger a commit of k stores, before pruning. *)
MergedLedger(k) ==
    IF runs[k].request.mode = "full"
    THEN ReplaceAll(runs[k].staged, k, runs[k].cfg)
    ELSE MergeIncremental(runs[k].staged, live, k, runs[k].cfg)

(* Faulty: the run is left VALIDATED. *)
CommitLeavesValidated(k, count, completed) ==
    /\ Committable(k, count, completed)
    /\ ReplacementsValid(runs[k].staged, live)
    /\ live' = MergedLedger(k)
    /\ UNCHANGED configVars
    /\ sync' = [cfg |-> runs[k].cfg, run |-> k, rev |-> Revision + 1]
    /\ runs' = [runs EXCEPT ![k].state = "validated", ![k].staged = {}]

(* Faulty: the old active version is not superseded. *)
CommitKeepsActive(k, count, completed) ==
    /\ Committable(k, count, completed)
    /\ ReplacementsValid(runs[k].staged, live)
    /\ live' = Prune(MergedLedger(k), Rules[SemOf(runs[k].cfg)],
                     runs[k].request.to)
    /\ versions' = [versions EXCEPT ![runs[k].cfg].status = "active"]
    /\ sync' = [cfg |-> runs[k].cfg, run |-> k, rev |-> Revision + 1]
    /\ runs' = [runs EXCEPT ![k].state = "committed", ![k].staged = {}]
    /\ UNCHANGED shown

Commit(k, count, completed) ==
    /\ Committable(k, count, completed)
    /\ ReplacementsValid(runs[k].staged, live)
    /\ live' = Prune(MergedLedger(k), Rules[SemOf(runs[k].cfg)],
                     runs[k].request.to)
    /\ IF versions[runs[k].cfg].status = "pending"
       THEN Activate(runs[k].cfg)
       ELSE UNCHANGED configVars
    /\ sync' = [cfg |-> runs[k].cfg, run |-> k, rev |-> Revision + 1]
    /\ runs' = [runs EXCEPT ![k].state = "committed", ![k].staged = {}]

(* put_config and put_config_checked touch no refresh table. *)
EditConfig(e, expected) == PutConfig(e, expected) /\ UNCHANGED <<runs, live, sync>>

Next ==
    \/ \E e \in Edit, expected \in Edit \union {NoBase} : EditConfig(e, expected)
    \/ \E k \in Run :
         \/ \E q \in Requests : Begin(k, q)
         \/ \E i \in BatchIndex, b \in Batches : Upload(k, i, b)
         \/ \E count \in 0 .. MaxBatches, completed \in SUBSET Account :
              Commit(k, count, completed)

Spec == Init /\ [][Next]_vars

-----------------------------------------------------------------------------
(***************************************************************************)
(* The sync state, the ledger and the active configuration always belong   *)
(* together: the dashboard filters the ledger by the active version and    *)
(* sums it in that version's currency, so a row of another version would   *)
(* be lost and one in another currency would be added up wrongly.          *)
(***************************************************************************)
PublishedTogether ==
    IF sync = NoSync
    THEN \A id \in Identity : live[id] = NoTx
    ELSE /\ sync.cfg = Active
         /\ Committed(sync.run)
         /\ runs[sync.run].cfg = Active
         /\ \A id \in Identity : live[id] # NoTx =>
              /\ live[id].cfg = Active
              /\ live[id].cur = CurrencyOf[SemOf(Active)]

(***************************************************************************)
(* The ledger holds only accounts the last committed run enumerated, and   *)
(* every row is in it for at least one category the active configuration   *)
(* enables, within that category's window at the end of that run.          *)
(***************************************************************************)
LedgerInScope ==
    \A id \in Identity : live[id] # NoTx =>
        LET q == runs[sync.run].request
            s == SemOf(Active)
        IN  /\ id[1] \in q.accounts
            /\ live[id].cats # {}
            /\ \A c \in live[id].cats :
                 c \in Enabled(s) /\ live[id].date >= Cutoff(Rules[s], c, q.to)

(***************************************************************************)
(* No lost update: the committed runs form one chain in which each began   *)
(* after its predecessor had committed (sync_revision_before).             *)
(***************************************************************************)
CommitChain ==
    /\ \A k \in Run : Committed(k) => runs[k].before < Revision
    /\ \A j, k \in Run :
         Committed(j) /\ Committed(k) /\ runs[j].before = runs[k].before => j = k
    /\ \A r \in 0 .. (Revision - 1) :
         \E k \in Run : Committed(k) /\ runs[k].before = r
    /\ sync # NoSync => runs[sync.run].before = Revision - 1

(***************************************************************************)
(* A rebuild is clean: no row of the ledger was first seen by a run that   *)
(* committed before the latest committed FULL_REBUILD, and each row's last *)
(* writer does not precede its first.                                      *)
(***************************************************************************)
RebuildIsClean ==
    \A id \in Identity : live[id] # NoTx =>
        /\ Committed(live[id].first) /\ Committed(live[id].last)
        /\ runs[live[id].first].before <= runs[live[id].last].before
        /\ \A k \in Run :
             Committed(k) /\ runs[k].request.mode = "full" =>
                 runs[live[id].first].before >= runs[k].before

(***************************************************************************)
(* Staged rows mirror the recorded batches exactly while a run is open     *)
(* (so a batch that was acknowledged is in the commit, once), no identity  *)
(* is staged twice, and a committed run leaves its batches without gaps    *)
(* and nothing staged.                                                     *)
(***************************************************************************)
StagingMatchesBatches ==
    \A k \in Run : Exists(k) =>
        IF Committed(k)
        THEN /\ runs[k].staged = {}
             /\ \A i \in Received(k) : \A j \in 0 .. i : j \in Received(k)
        ELSE /\ runs[k].staged = UNION {runs[k].batches[i].items : i \in Received(k)}
             /\ \A x, y \in runs[k].staged : Id(x) = Id(y) => x = y
             /\ runs[k].state = "created" <=> Received(k) = {}

(***************************************************************************)
(* What a client was told stays true: a run keeps its request, target and  *)
(* base revision, a batch once recorded keeps its content, and a committed *)
(* run never changes again.                                                *)
(***************************************************************************)
RunHistoryIsStable ==
    [][\A k \in Run : Exists(k) =>
         /\ Exists(k)'
         /\ runs'[k].request = runs[k].request
         /\ runs'[k].cfg = runs[k].cfg
         /\ runs'[k].before = runs[k].before
         /\ \A i \in Received(k) : runs'[k].batches[i] = runs[k].batches[i]
         /\ Committed(k) => runs'[k] = runs[k]]_vars

(* Faulty: the window starts a day late. *)
CountedADayLate(l, v, c, end) ==
    {id \in Identity :
        /\ l[id] # NoTx
        /\ l[id].cfg = v
        /\ c \in l[id].cats
        /\ l[id].date > end - (Rules[SemOf(v)][c].look - 1)
        /\ l[id].date <= end}

(***************************************************************************)
(* The rows get_dashboard counts for category c with the window ending on  *)
(* day end, in ledger l read under version v.                              *)
(***************************************************************************)
Counted(l, v, c, end) ==
    {id \in Identity :
        /\ l[id] # NoTx
        /\ l[id].cfg = v
        /\ c \in l[id].cats
        /\ l[id].date >= end - (Rules[SemOf(v)][c].look - 1)
        /\ l[id].date <= end}

(* The commit of run k, if this step is it, counts what the run says.     *)
ShowsRun(k) ==
    Committed(k)' /\ ~Committed(k) =>
         LET r == runs[k]
             s == SemOf(r.cfg)
             replaced == ReplacementTargets(r.staged)
             uploaded == {Id(x) : x \in r.staged}
         IN  \A c \in Enabled(s), end \in {r.request.to, r.request.to + 1} :
               LET start == end - (Rules[s][c].look - 1) IN
               Counted(live', r.cfg, c, end) =
                 {Id(x) : x \in {y \in r.staged : /\ Id(y) \notin replaced
                                               /\ c \in y.cats
                                               /\ y.date \in start .. end}}
                 \union
                 IF r.request.mode = "full" THEN {}
                 ELSE Counted(live, r.cfg, c, end) \ (uploaded \union replaced)

(***************************************************************************)
(* A commit shows on the dashboard exactly what the run says: for a window *)
(* ending on the run's last day or the day after, every staged item that   *)
(* no other replaces counts, and in an incremental refresh so does what    *)
(* counted before and was neither uploaded again nor replaced.  Pruning is *)
(* invisible, and a replaced pending transaction is never counted twice.   *)
(***************************************************************************)
CommitIsVisible == [][\A k \in Run : ShowsRun(k)]_vars

(***************************************************************************)
(* "Incremental absence never deletes an existing transaction" (README):   *)
(* an incremental commit removes only what it replaces.  It does not hold: *)
(* pruning removes rows that have left every window.                       *)
(***************************************************************************)
AbsenceNeverDeletes ==
    [][\A k \in Run : /\ Committed(k)' /\ ~Committed(k)
                     /\ runs[k].request.mode = "incremental" =>
         \A id \in Identity \ ReplacementTargets(runs[k].staged) :
             live[id] # NoTx => live'[id] # NoTx]_vars

(***************************************************************************)
(* Refinement: runs, uploads, configuration edits and commits implement    *)
(* the publication store.  A commit publishes; a put_config changes what a *)
(* reader sees of the store only when it creates the first configuration.  *)
(***************************************************************************)
Store == INSTANCE PublicationStore WITH
    Writer <- Run,
    Key <- Identity,
    rev <- Revision,
    schema <- Active,
    book <- [id \in Identity |-> IF live[id] = NoTx THEN 0 ELSE live[id].cfg],
    opened <- [k \in Run |-> IF Exists(k) THEN runs[k].before ELSE -1],
    done <- {k \in Run : Committed(k)}

ImplementsStore == Store!StoreSpec
=============================================================================
