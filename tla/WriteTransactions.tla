------------------------- MODULE WriteTransactions -------------------------
(***************************************************************************)
(* The write transactions of the services, statement by statement, against *)
(* the triggers, unique indexes and foreign keys of the SQLite schema.     *)
(*                                                                         *)
(* A handler begins with BEGIN IMMEDIATE, which excludes every other       *)
(* writer, checks its request, and then issues its statements one flush at *)
(* a time on a private copy of the database.  SQLite checks triggers and   *)
(* indexes at every statement: it has no deferred ones, so a commit that   *)
(* ends in a legal database is still refused if a statement on the way is  *)
(* not.  A refused statement, an error or a crash loses the copy; COMMIT   *)
(* makes it the database.                                                  *)
(*                                                                         *)
(* The variables of RefreshRuns are the database on disk.  RefreshRuns!Spec *)
(* takes every handler as one step, which is what is shown here.           *)
(***************************************************************************)
EXTENDS RefreshRuns

CONSTANT NoTxn

VARIABLE txn   \* the open write transaction, if there is one

txnVars == <<vars, txn>>

Disk == [versions |-> versions, shown |-> shown, runs |-> runs,
         live |-> live, sync |-> sync]

(* Inside a transaction a run may be VALIDATED. *)
PrivateRun ==
    [request : Requests, state : {"created", "uploaded", "validated", "committed"},
     cfg : Nat \ {0}, before : Nat, staged : SUBSET Item,
     batches : [BatchIndex -> Batches \union {NoBatch}]]

Database ==
    [versions : Seq(Version), shown : [Cat -> Pres \union {NoPres}],
     runs : [Run -> PrivateRun \union {NoRun}], live : Ledger,
     sync : SyncState \union {NoSync}]

(* by: the handler; at: its next statement; db: its copy of the database.  *)
Txn ==
    [by : {"begin"}, run : Run, arg : Requests,
     at : {"insert", "end", "refused"}, db : Database]
    \union
    [by : {"upload"}, run : Run, arg : BatchIndex \X Batches,
     at : {"insert", "stage", "end", "refused"}, db : Database]
    \union
    [by : {"commit"}, run : Run,
     at : {"validate", "merge", "finish", "supersede", "activate", "sync",
           "unstage", "end", "refused"}, db : Database]
    \union
    [by : {"put"}, arg : Edit,
     at : {"present", "rows", "version", "end", "refused"}, db : Database]

ASSUME TxnAssumption == NoRun \notin PrivateRun /\ NoTxn \notin Txn

TxnTypeOK == txn \in Txn \union {NoTxn}

TxnInit == Init /\ txn = NoTxn

-----------------------------------------------------------------------------
(***************************************************************************)
(* What the schema allows a statement that turns database old into new.    *)
(***************************************************************************)

(* trg_refresh_runs_no_delete, trg_refresh_runs_identity_immutable *)
RunIdentityKept(old, new) ==
    \A k \in Run : old.runs[k] # NoRun =>
        /\ new.runs[k] # NoRun
        /\ new.runs[k].request = old.runs[k].request
        /\ new.runs[k].cfg = old.runs[k].cfg
        /\ new.runs[k].before = old.runs[k].before

(* trg_refresh_runs_terminal_immutable, trg_refresh_runs_state_guard: no   *)
(* statement changes the row of a committed run, and UPLOADED cannot jump  *)
(* to COMMITTED.                                                           *)
RunStateGuard(old, new) ==
    \A k \in Run : old.runs[k] # NoRun /\ new.runs[k] # NoRun =>
        LET from == old.runs[k].state
            to == new.runs[k].state
        IN  \/ from = to
            \/ from = "created" /\ to = "uploaded"
            \/ /\ from = "created" /\ to = "validated"
               /\ \A i \in BatchIndex : new.runs[k].batches[i] = NoBatch
            \/ from = "uploaded" /\ to = "validated"
            \/ from = "validated" /\ to = "committed"

(* trg_refresh_runs_active_incremental *)
IncrementalForActive(old, new) ==
    \A k \in Run :
        /\ old.runs[k] = NoRun /\ new.runs[k] # NoRun
        /\ new.runs[k].request.mode = "incremental"
        => /\ new.runs[k].cfg \in DOMAIN old.versions
           /\ old.versions[new.runs[k].cfg].status = "active"

(* trg_refresh_batches_immutable_*, trg_refresh_batches_open_run *)
BatchOfOpenRun(old, new) ==
    \A k \in Run : old.runs[k] # NoRun /\ new.runs[k] # NoRun =>
        \A i \in BatchIndex : new.runs[k].batches[i] # old.runs[k].batches[i] =>
            /\ old.runs[k].batches[i] = NoBatch
            /\ old.runs[k].state \in {"created", "uploaded"}

(* trg_sync_state_committed_run_insert and _update *)
SyncOfCommittedRun(old, new) ==
    new.sync # old.sync /\ new.sync # NoSync =>
        LET r == old.runs[new.sync.run] IN
        r # NoRun /\ r.state = "committed" /\ r.cfg = new.sync.cfg

(* trg_config_versions_no_delete, _content_immutable, _status_guard *)
VersionGuard(old, new) ==
    \A v \in DOMAIN old.versions :
        /\ v \in DOMAIN new.versions
        /\ new.versions[v].source = old.versions[v].source
        /\ LET from == old.versions[v].status
               to == new.versions[v].status
           IN  \/ from = to
               \/ from = "pending"
               \/ from = "active" /\ to = "superseded"

(* trg_config_activation_requires_rebuild *)
ActivationAfterRebuild(old, new) ==
    \A v \in DOMAIN old.versions :
        /\ old.versions[v].status # "active"
        /\ new.versions[v].status = "active"
        => \E k \in Run : /\ old.runs[k] # NoRun
                          /\ old.runs[k].state = "committed"
                          /\ old.runs[k].cfg = v
                          /\ old.runs[k].request.mode = "full"

(* uq_config_versions_one_active *)
OneActiveRow(new) ==
    \A v, w \in DOMAIN new.versions :
        new.versions[v].status = "active" /\ new.versions[w].status = "active" => v = w

(* fk_staged_transactions_batch, fk_staged_transaction_categories_config_rule *)
StagedReferences(old, new) ==
    \A k \in Run : old.runs[k] # NoRun /\ new.runs[k] # NoRun =>
        \A x \in new.runs[k].staged \ old.runs[k].staged :
            /\ \E i \in BatchIndex : /\ new.runs[k].batches[i] # NoBatch
                                     /\ x \in new.runs[k].batches[i].items
            /\ x.cats \subseteq Cats(new.versions[new.runs[k].cfg].source.sem)

(* fk_transactions_first_run, fk_transactions_last_run_config and          *)
(* fk_transaction_categories_config_rule, for the rows written.            *)
LedgerReferences(old, new) ==
    \A id \in Identity : new.live[id] # old.live[id] /\ new.live[id] # NoTx =>
        LET x == new.live[id] IN
        /\ new.runs[x.first] # NoRun
        /\ new.runs[x.last] # NoRun
        /\ new.runs[x.last].cfg = x.cfg
        /\ x.cats \subseteq Cats(new.versions[x.cfg].source.sem)

Allowed(old, new) ==
    /\ RunIdentityKept(old, new)
    /\ RunStateGuard(old, new)
    /\ IncrementalForActive(old, new)
    /\ BatchOfOpenRun(old, new)
    /\ SyncOfCommittedRun(old, new)
    /\ VersionGuard(old, new)
    /\ ActivationAfterRebuild(old, new)
    /\ OneActiveRow(new)
    /\ StagedReferences(old, new)
    /\ LedgerReferences(old, new)
-----------------------------------------------------------------------------
(***************************************************************************)
(* Opening, running and ending a transaction.                              *)
(***************************************************************************)
Open(t) == txn = NoTxn /\ txn' = t /\ UNCHANGED vars

(* The statement a handler is at gives its copy the value new. *)
Execute(new, next) ==
    /\ txn' = IF Allowed(txn.db, new)
              THEN [txn EXCEPT !.db = new, !.at = next]
              ELSE [txn EXCEPT !.at = "refused"]
    /\ UNCHANGED vars

(* db.commit(); the connection goes back to the pool. *)
End ==
    /\ txn # NoTxn /\ txn.at = "end"
    /\ versions' = txn.db.versions /\ shown' = txn.db.shown
    /\ runs' = txn.db.runs /\ live' = txn.db.live /\ sync' = txn.db.sync
    /\ txn' = NoTxn

(* A crash, a lost connection, an exception: the session rolls back. *)
Rollback == txn # NoTxn /\ txn' = NoTxn /\ UNCHANGED vars

At(by, at) == txn # NoTxn /\ txn.by = by /\ txn.at = at

-----------------------------------------------------------------------------
(***************************************************************************)
(* begin_refresh: one INSERT.                                              *)
(***************************************************************************)
OpenBegin(k, q) ==
    /\ ~Exists(k) /\ Beginnable(q)
    /\ Open([by |-> "begin", run |-> k, arg |-> q, at |-> "insert", db |-> Disk])

TargetIn(db, mode) ==
    IF mode = "full" /\ PendingIn(db.versions) # 0 THEN PendingIn(db.versions)
    ELSE ActiveIn(db.versions)

InsertRun ==
    /\ At("begin", "insert")
    /\ LET db == txn.db
           run == [request |-> txn.arg, state |-> "created",
                   cfg |-> TargetIn(db, txn.arg.mode),
                   before |-> IF db.sync = NoSync THEN 0 ELSE db.sync.rev,
                   staged |-> {}, batches |-> [i \in BatchIndex |-> NoBatch]]
       IN  Execute([db EXCEPT !.runs[txn.run] = run], "end")

(***************************************************************************)
(* upload_batch: the batch is flushed before its items and the run's state *)
(* are.                                                                    *)
(***************************************************************************)
OpenUpload(k, i, b) ==
    /\ Exists(k) /\ runs[k].batches[i] = NoBatch
    /\ \A j \in Received(k) : runs[k].batches[j].key # b.key
    /\ runs[k].state \in {"created", "uploaded"}
    /\ \A x, y \in b.items : Id(x) = Id(y) => x = y
    /\ \A x \in b.items : Uploadable(k, x)
    /\ Open([by |-> "upload", run |-> k, arg |-> <<i, b>>, at |-> "insert",
             db |-> Disk])

InsertBatch ==
    /\ At("upload", "insert")
    /\ Execute([txn.db EXCEPT !.runs[txn.run].batches[txn.arg[1]] = txn.arg[2]],
               "stage")

StageItems ==
    /\ At("upload", "stage")
    /\ LET run == txn.db.runs[txn.run]
           items == txn.arg[2].items
       IN  Execute([txn.db EXCEPT !.runs[txn.run] =
                      [run EXCEPT !.state = "uploaded", !.staged = @ \union items]],
                   "end")

(***************************************************************************)
(* commit_refresh.                                                         *)
(***************************************************************************)
OpenCommit(k, count, completed) ==
    /\ Committable(k, count, completed)
    /\ Open([by |-> "commit", run |-> k, at |-> "validate", db |-> Disk])

Moved(db, k, state) == [db EXCEPT !.runs[k] = [db.runs[k] EXCEPT !.state = state]]

MarkValidated ==
    /\ At("commit", "validate")
    /\ Execute(Moved(txn.db, txn.run, "validated"), "merge")

(* The replacements are only now compared with the ledger; a bad one ends  *)
(* the transaction.                                                        *)
Merged(db, k) ==
    LET r == db.runs[k]
        rules == Rules[db.versions[r.cfg].source.sem]
    IN  Prune(IF r.request.mode = "full" THEN ReplaceAll(r.staged, k, r.cfg)
              ELSE MergeIncremental(r.staged, db.live, k, r.cfg),
              rules, r.request.to)

MergeLedger ==
    /\ At("commit", "merge")
    /\ ReplacementsValid(txn.db.runs[txn.run].staged, txn.db.live)
    /\ Execute([txn.db EXCEPT !.live = Merged(txn.db, txn.run)], "finish")

(* What is left to do once the run is COMMITTED. *)
AfterFinish(db, k) ==
    IF db.versions[db.runs[k].cfg].status = "pending" THEN "supersede" ELSE "sync"

MarkCommitted ==
    /\ At("commit", "finish")
    /\ Execute(Moved(txn.db, txn.run, "committed"), AfterFinish(txn.db, txn.run))

(* apply_config_presentation: a pending version shows its own snapshot,    *)
(* any other one what the rows already say.                                *)
Presented(db, v) ==
    LET source == db.versions[v].source IN
    [c \in Cat |->
        IF db.versions[v].status = "pending" /\ c \in DOMAIN source.pres
        THEN source.pres[c] ELSE db.shown[c]]

SupersedeActive(vs) ==
    [w \in DOMAIN vs |->
        IF w = ActiveIn(vs) THEN [vs[w] EXCEPT !.status = "superseded"] ELSE vs[w]]

(* A flush of the version rows and the category rows. *)
Configured(db, vs, rows) ==
    [versions |-> vs, shown |-> rows, runs |-> db.runs, live |-> db.live,
     sync |-> db.sync]

(* Faulty: the two rows of config_versions are flushed together, and the   *)
(* new one is first in the order of their keys.                            *)
ActivateFirst ==
    /\ At("commit", "supersede")
    /\ LET v == txn.db.runs[txn.run].cfg IN
       Execute([txn.db EXCEPT !.shown = Presented(txn.db, v),
                              !.versions[v].status = "active"], "activate")

(* Faulty: the presentation is applied once the version is active. *)
SupersedeUnpresented ==
    /\ At("commit", "supersede")
    /\ Execute([txn.db EXCEPT
                  !.versions = SupersedeActive(txn.db.versions)], "activate")

(* The presentation and the old active version are flushed first.          *)
SupersedeOld ==
    /\ At("commit", "supersede")
    /\ Execute(Configured(txn.db, SupersedeActive(txn.db.versions),
                          Presented(txn.db, txn.db.runs[txn.run].cfg)), "activate")

ActivateNew ==
    /\ At("commit", "activate")
    /\ LET v == txn.db.runs[txn.run].cfg
           row == txn.db.versions[v]
       IN  Execute([txn.db EXCEPT !.versions[v] = [row EXCEPT !.status = "active"]],
                   "sync")

(* Faulty: the first revision is 0. *)
AdvanceFromZero ==
    /\ At("commit", "sync")
    /\ LET db == txn.db
           rev == IF db.sync = NoSync THEN 0 ELSE db.sync.rev + 1
       IN  Execute([db EXCEPT !.sync = [cfg |-> db.runs[txn.run].cfg, run |-> txn.run,
                                        rev |-> rev]], "unstage")

AdvanceSync ==
    /\ At("commit", "sync")
    /\ LET db == txn.db
           rev == IF db.sync = NoSync THEN 0 ELSE db.sync.rev
       IN  Execute([db EXCEPT !.sync = [cfg |-> db.runs[txn.run].cfg, run |-> txn.run,
                                        rev |-> rev + 1]], "unstage")

Unstage ==
    /\ At("commit", "unstage")
    /\ LET run == txn.db.runs[txn.run]
       IN  Execute([txn.db EXCEPT !.runs[txn.run] = [run EXCEPT !.staged = {}]], "end")

-----------------------------------------------------------------------------
(***************************************************************************)
(* _put_config, for an edit that changes something.                        *)
(***************************************************************************)
KeepsSemantics(e) == Active # 0 /\ SemOf(Active) = e.sem
RepeatsPending(e) == ~KeepsSemantics(e) /\ Pending # 0 /\ Snapshot(Pending) = e

OpenPut(e, expected) ==
    /\ expected = BaseSnapshot
    /\ ~RepeatsPending(e)
    /\ Len(versions) < MaxVersions \/ KeepsSemantics(e)
    /\ Open([by |-> "put", arg |-> e,
             at |-> IF KeepsSemantics(e) THEN "present" ELSE "rows", db |-> Disk])

SupersedeWaiting(vs) ==
    [w \in DOMAIN vs |->
        IF w = PendingIn(vs) THEN [vs[w] EXCEPT !.status = "superseded"] ELSE vs[w]]

(* The semantics are the active ones: a pending version is dropped and the *)
(* rows are edited in one flush.                                           *)
PresentEdit ==
    /\ At("put", "present")
    /\ LET db == txn.db
           pres == txn.arg.pres
           rows == [c \in Cat |-> IF c \in DOMAIN pres THEN pres[c] ELSE db.shown[c]]
       IN  Execute(Configured(db, SupersedeWaiting(db.versions), rows), "end")

(* Rows of new categories, one flush each. *)
InsertRows ==
    /\ At("put", "rows")
    /\ LET db == txn.db
           pres == txn.arg.pres
       IN  Execute([db EXCEPT
                      !.shown = [c \in Cat |->
                                   IF db.shown[c] = NoPres /\ c \in DOMAIN pres
                                   THEN pres[c] ELSE db.shown[c]]], "version")

(* The pending version is superseded and the new one inserted in one flush. *)
(* If it is the first, it is active and its rows are already there: the     *)
(* presentation applied after it (425-428) changes nothing.                 *)
InsertVersion ==
    /\ At("put", "version")
    /\ LET vs == txn.db.versions
           status == IF ActiveIn(vs) = 0 THEN "active" ELSE "pending"
       IN  Execute([txn.db EXCEPT
                      !.versions = Append(SupersedeWaiting(vs),
                                          [status |-> status, source |-> txn.arg])],
                   "end")

-----------------------------------------------------------------------------
TxnNext ==
    \/ \E k \in Run :
         \/ \E q \in Requests : OpenBegin(k, q)
         \/ \E i \in BatchIndex, b \in Batches : OpenUpload(k, i, b)
         \/ \E count \in 0 .. MaxBatches, completed \in SUBSET Account :
              OpenCommit(k, count, completed)
    \/ \E e \in Edit, expected \in Edit \union {NoBase} : OpenPut(e, expected)
    \/ InsertRun
    \/ InsertBatch \/ StageItems
    \/ MarkValidated \/ MergeLedger \/ MarkCommitted
    \/ SupersedeOld \/ ActivateNew \/ AdvanceSync \/ Unstage
    \/ PresentEdit \/ InsertRows \/ InsertVersion
    \/ End \/ Rollback

TxnSpec == TxnInit /\ [][TxnNext]_txnVars

-----------------------------------------------------------------------------
(***************************************************************************)
(* A request whose checks passed is not refused by the schema: every       *)
(* statement of every handler satisfies the triggers, the one-active index *)
(* and the foreign keys at the moment it is issued, though they see the    *)
(* database halfway through a commit.                                      *)
(***************************************************************************)
NoStatementRefused == txn # NoTxn => txn.at # "refused"

=============================================================================
