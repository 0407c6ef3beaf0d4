---------------------- MODULE WriteTransactionsProofs ----------------------
(***************************************************************************)
(* Proofs about WriteTransactions: the handlers, statement by statement,   *)
(* implement RefreshRuns, and the schema never refuses one of their        *)
(* statements.                                                             *)
(*                                                                         *)
(* A writer excludes every other, so an open transaction still sees on     *)
(* disk the database it began with.  The invariant says what its copy of   *)
(* it looks like at each statement.                                        *)
(***************************************************************************)
EXTENDS WriteTransactions, RefreshRunsProofs

Db(vs, sh, rs, l, sy) ==
    [versions |-> vs, shown |-> sh, runs |-> rs, live |-> l, sync |-> sy]

OneActive(vs) ==
    \A v, w \in DOMAIN vs : vs[v].status = "active" /\ vs[w].status = "active" => v = w

-----------------------------------------------------------------------------
(* What the schema asks of a statement, by the table it writes.            *)

(* An INSERT into refresh_runs. *)
LEMMA RunInsertAllowed ==
  ASSUME NEW vs, NEW sh, NEW rs, NEW l, NEW sy, NEW rs2, NEW k \in Run,
         OneActive(vs), rs[k] = NoRun,
         \A j \in Run : j # k => rs2[j] = rs[j],
         rs2[k].request.mode = "incremental" =>
           rs2[k].cfg \in DOMAIN vs /\ vs[rs2[k].cfg].status = "active"
  PROVE  Allowed(Db(vs, sh, rs, l, sy), Db(vs, sh, rs2, l, sy))
BY DEF Db, OneActive, Allowed, RunIdentityKept, RunStateGuard, IncrementalForActive,
       BatchOfOpenRun, SyncOfCommittedRun, VersionGuard, ActivationAfterRebuild,
       OneActiveRow, StagedReferences, LedgerReferences

(* The state of a run may move along one of these arrows. *)
StateMove(old, new) ==
    \/ old.state = new.state
    \/ old.state = "created" /\ new.state = "uploaded"
    \/ /\ old.state = "created" /\ new.state = "validated"
       /\ \A i \in BatchIndex : new.batches[i] = NoBatch
    \/ old.state = "uploaded" /\ new.state = "validated"
    \/ old.state = "validated" /\ new.state = "committed"

(* An UPDATE of a run, an INSERT of a batch or its items, a DELETE of them. *)
LEMMA RunUpdateAllowed ==
  ASSUME NEW vs, NEW sh, NEW rs, NEW l, NEW sy, NEW rs2, NEW k \in Run,
         OneActive(vs), rs[k] # NoRun, rs2[k] # NoRun,
         \A j \in Run : j # k => rs2[j] = rs[j],
         rs2[k].request = rs[k].request,
         rs2[k].cfg = rs[k].cfg,
         rs2[k].before = rs[k].before,
         StateMove(rs[k], rs2[k]),
         \A i \in BatchIndex : rs2[k].batches[i] # rs[k].batches[i] =>
           rs[k].batches[i] = NoBatch /\ rs[k].state \in {"created", "uploaded"},
         \A x \in rs2[k].staged \ rs[k].staged :
           /\ \E i \in BatchIndex : /\ rs2[k].batches[i] # NoBatch
                                    /\ x \in rs2[k].batches[i].items
           /\ x.cats \subseteq Cats(vs[rs2[k].cfg].source.sem)
  PROVE  Allowed(Db(vs, sh, rs, l, sy), Db(vs, sh, rs2, l, sy))
<1> DEFINE old == Db(vs, sh, rs, l, sy)
           new == Db(vs, sh, rs2, l, sy)
<1>1. RunIdentityKept(old, new)
  BY DEF Db, RunIdentityKept
<1>2. RunStateGuard(old, new)
  BY DEF Db, RunStateGuard, StateMove
<1>3. BatchOfOpenRun(old, new)
  BY DEF Db, BatchOfOpenRun
<1>4. StagedReferences(old, new)
  BY DEF Db, StagedReferences
<1>5. /\ IncrementalForActive(old, new) /\ SyncOfCommittedRun(old, new)
      /\ VersionGuard(old, new) /\ ActivationAfterRebuild(old, new)
      /\ OneActiveRow(new) /\ LedgerReferences(old, new)
  BY DEF Db, IncrementalForActive, SyncOfCommittedRun, VersionGuard,
     ActivationAfterRebuild, OneActiveRow, LedgerReferences, OneActive
<1> QED BY <1>1, <1>2, <1>3, <1>4, <1>5 DEF Allowed

(* The writes of a merge and a pruning to the transactions. *)
LEMMA LedgerWriteAllowed ==
  ASSUME NEW vs, NEW sh, NEW rs, NEW l, NEW sy, NEW l2, OneActive(vs),
         \A id \in Identity : l2[id] # NoTx =>
           /\ rs[l2[id].first] # NoRun
           /\ rs[l2[id].last] # NoRun
           /\ rs[l2[id].last].cfg = l2[id].cfg
           /\ l2[id].cats \subseteq Cats(vs[l2[id].cfg].source.sem)
  PROVE  Allowed(Db(vs, sh, rs, l, sy), Db(vs, sh, rs, l2, sy))
<1> DEFINE old == Db(vs, sh, rs, l, sy)
           new == Db(vs, sh, rs, l2, sy)
<1>1. LedgerReferences(old, new)
  BY DEF Db, LedgerReferences
<1>2. /\ RunIdentityKept(old, new) /\ RunStateGuard(old, new)
      /\ IncrementalForActive(old, new) /\ BatchOfOpenRun(old, new)
      /\ SyncOfCommittedRun(old, new) /\ StagedReferences(old, new)
  BY DEF Db, RunIdentityKept, RunStateGuard, IncrementalForActive, BatchOfOpenRun,
     SyncOfCommittedRun, StagedReferences
<1>3. /\ VersionGuard(old, new) /\ ActivationAfterRebuild(old, new)
      /\ OneActiveRow(new)
  BY DEF Db, VersionGuard, ActivationAfterRebuild, OneActiveRow, OneActive
<1> QED BY <1>1, <1>2, <1>3 DEF Allowed

(* The status of a version may move along one of these arrows. *)
StatusMove(from, to) == from = to \/ from = "pending" \/ (from = "active" /\ to = "superseded")

(* Writes to the configuration versions and the category rows. *)
LEMMA VersionWriteAllowed ==
  ASSUME NEW vs, NEW sh, NEW rs, NEW l, NEW sy, NEW vs2, NEW sh2, OneActive(vs2),
         \A v \in DOMAIN vs :
           /\ v \in DOMAIN vs2 /\ vs2[v].source = vs[v].source
           /\ StatusMove(vs[v].status, vs2[v].status)
           /\ vs[v].status # "active" /\ vs2[v].status = "active" =>
                \E k \in Run : /\ rs[k] # NoRun /\ rs[k].state = "committed"
                               /\ rs[k].cfg = v /\ rs[k].request.mode = "full"
  PROVE  Allowed(Db(vs, sh, rs, l, sy), Db(vs2, sh2, rs, l, sy))
<1> DEFINE old == Db(vs, sh, rs, l, sy)
           new == Db(vs2, sh2, rs, l, sy)
<1>1. VersionGuard(old, new)
  BY DEF Db, VersionGuard, StatusMove
<1>2. ActivationAfterRebuild(old, new) /\ OneActiveRow(new)
  BY DEF Db, ActivationAfterRebuild, OneActiveRow, OneActive
<1>3. /\ RunIdentityKept(old, new) /\ RunStateGuard(old, new)
      /\ IncrementalForActive(old, new) /\ BatchOfOpenRun(old, new)
  BY DEF Db, RunIdentityKept, RunStateGuard, IncrementalForActive, BatchOfOpenRun
<1>4. /\ SyncOfCommittedRun(old, new) /\ StagedReferences(old, new)
      /\ LedgerReferences(old, new)
  BY DEF Db, SyncOfCommittedRun, StagedReferences, LedgerReferences
<1> QED BY <1>1, <1>2, <1>3, <1>4 DEF Allowed

(* The INSERT or UPDATE of the sync state. *)
LEMMA SyncWriteAllowed ==
  ASSUME NEW vs, NEW sh, NEW rs, NEW l, NEW sy, NEW sy2, OneActive(vs),
         rs[sy2.run] # NoRun, rs[sy2.run].state = "committed",
         rs[sy2.run].cfg = sy2.cfg
  PROVE  Allowed(Db(vs, sh, rs, l, sy), Db(vs, sh, rs, l, sy2))
<1> DEFINE old == Db(vs, sh, rs, l, sy)
           new == Db(vs, sh, rs, l, sy2)
<1>1. SyncOfCommittedRun(old, new)
  BY DEF Db, SyncOfCommittedRun
<1>2. /\ RunIdentityKept(old, new) /\ RunStateGuard(old, new)
      /\ IncrementalForActive(old, new) /\ BatchOfOpenRun(old, new)
  BY DEF Db, RunIdentityKept, RunStateGuard, IncrementalForActive, BatchOfOpenRun
<1>3. /\ VersionGuard(old, new) /\ ActivationAfterRebuild(old, new)
      /\ OneActiveRow(new) /\ StagedReferences(old, new) /\ LedgerReferences(old, new)
  BY DEF Db, VersionGuard, ActivationAfterRebuild, OneActiveRow, OneActive,
     StagedReferences, LedgerReferences
<1> QED BY <1>1, <1>2, <1>3 DEF Allowed

-----------------------------------------------------------------------------
(***************************************************************************)
(* What the handlers rely on of the database on disk, besides IInv: before *)
(* the first configuration there are no category rows, so inserting the    *)
(* missing ones presents it whole; and a row of the ledger names runs that *)
(* exist, the last of its own configuration, so it may be written again.   *)
(***************************************************************************)
NoRowsBeforeFirst == versions = <<>> => \A c \in Cat : shown[c] = NoPres

RowsHaveRuns ==
    \A id \in Identity : live[id] # NoTx =>
        /\ Exists(live[id].first) /\ Exists(live[id].last)
        /\ runs[live[id].last].cfg = live[id].cfg

DiskInv == IInv /\ NoRowsBeforeFirst /\ RowsHaveRuns

(* A recorded run stays, for the configuration it was begun for. *)
LEMMA RunsStay ==
  ASSUME IInv, [Next]_vars
  PROVE  \A j \in Run : Exists(j) => Exists(j)' /\ runs'[j].cfg = runs[j].cfg
<1> DEFINE Stay == \A j \in Run : Exists(j) => Exists(j)' /\ runs'[j].cfg = runs[j].cfg
<1>1. ASSUME UNCHANGED runs PROVE Stay
  BY <1>1 DEF Exists
<1>2. ASSUME NEW k \in Run, NEW q \in Requests, Begin(k, q) PROVE Stay
  BY <1>2, BegunRun DEF Exists
<1>3. ASSUME NEW k \in Run, NEW i \in BatchIndex, NEW b \in Batches, Upload(k, i, b)
      PROVE  Stay
  BY <1>3, UploadedRun DEF Exists
<1>4. ASSUME NEW k \in Run, NEW count, NEW completed, Commit(k, count, completed)
      PROVE  Stay
  BY <1>4, CommittedRun DEF Exists
<1> QED BY <1>1, <1>2, <1>3, <1>4 DEF Next, EditConfig, vars

(* The steps of RefreshRuns preserve it. *)
LEMMA StepKeepsDisk ==
  ASSUME DiskInv, [Next]_vars
  PROVE  DiskInv'
<1>1. IInv'
  BY StepKeepsIInv DEF DiskInv
<1>2. NoRowsBeforeFirst'
  <2>1. Active = 0 <=> versions = <<>>
    <3>1. ConfigTypeOK /\ VersionOrder
      BY DEF DiskInv, IInv, ConfigInv
    <3> QED BY <3>1, ActiveState
  <2>2. ConfigTypeOK' /\ VersionOrder'
    BY <1>1 DEF IInv, ConfigInv
  <2>3. Active' = 0 <=> versions' = <<>>
    <3>1. versions' = <<>> => DOMAIN versions' = {}
      OBVIOUS
    <3>2. DOMAIN versions' = {} => WithStatus(versions', "active") = {}
      BY DEF WithStatus
    <3>3. versions' = <<>> => Active' = 0
      BY <3>1, <3>2 DEF Active, ActiveIn
    <3> QED BY <2>2, <3>3 DEF VersionOrder
  <2>4. ASSUME NEW e \in Edit, NEW expected, EditConfig(e, expected) PROVE Active' # 0
    BY <2>1, <2>4, EditStep DEF EditConfig, DiskInv, IInv
  <2>5. ASSUME NEW k \in Run, NEW count, NEW completed, Commit(k, count, completed)
        PROVE  Active' # 0
    BY <2>5, CommitConfig DEF DiskInv, RefreshRun
  <2>6. ASSUME UNCHANGED <<versions, shown>> PROVE NoRowsBeforeFirst'
    BY <2>6 DEF DiskInv, NoRowsBeforeFirst
  <2> QED BY <2>3, <2>4, <2>5, <2>6 DEF NoRowsBeforeFirst, Next, Begin, Upload, vars
<1>3. RowsHaveRuns'
  <2>1. \A j \in Run : Exists(j) => Exists(j)' /\ runs'[j].cfg = runs[j].cfg
    BY RunsStay DEF DiskInv
  <2>2. \A id \in Identity :
          live[id] # NoTx => live[id].first \in Run /\ live[id].last \in Run
    BY DEF DiskInv, IInv, TypeOK, Ledger, Row
  <2>3. ASSUME UNCHANGED live PROVE RowsHaveRuns'
    BY <2>1, <2>2, <2>3 DEF DiskInv, RowsHaveRuns, Exists
  <2>4. ASSUME NEW k \in Run, NEW count, NEW completed, Commit(k, count, completed),
               NEW id \in Identity, live'[id] # NoTx
        PROVE  /\ Exists(live[id].first)' /\ Exists(live[id].last)'
               /\ runs'[live'[id].last].cfg = live'[id].cfg
    <3>1. Committable(k, count, completed) /\ live' = Published(k)
      BY <2>4 DEF Commit, Published
    <3>2. /\ live'[id].cfg = runs[k].cfg
          /\ \/ live'[id].first = k /\ live'[id].last = k
             \/ /\ runs[k].request.mode = "incremental" /\ live[id] # NoTx
                /\ live'[id].first = live[id].first
                /\ \/ live'[id].last = k
                   \/ live'[id].last = live[id].last /\ live[id].cfg = Active
      BY <2>4, <3>1, PublishedRows DEF DiskInv
    <3>3. Exists(k) /\ (runs[k].request.mode = "incremental" => Active = runs[k].cfg)
      BY <3>1, CommittableRun DEF DiskInv
    <3>4. live[id] # NoTx =>
            /\ Exists(live[id].first) /\ Exists(live[id].last)
            /\ runs[live[id].last].cfg = live[id].cfg
      BY DEF DiskInv, RowsHaveRuns
    <3> QED BY <2>1, <2>2, <3>2, <3>3, <3>4 DEF Exists
  <2> QED BY <2>3, <2>4 DEF RowsHaveRuns, Next, EditConfig, Begin, Upload, vars
<1> QED BY <1>1, <1>2, <1>3 DEF DiskInv

-----------------------------------------------------------------------------
(***************************************************************************)
(* The open transaction, at each statement: what its handler checked of    *)
(* the database on disk still holds, and its copy is the database on disk  *)
(* with the statements before this one applied.                            *)
(***************************************************************************)
NewRun(q) ==
    [request |-> q, state |-> "created", cfg |-> TargetVersion(q.mode),
     before |-> Revision, staged |-> {}, batches |-> [i \in BatchIndex |-> NoBatch]]

BeginTxn(k, q, at, db) == [by |-> "begin", run |-> k, arg |-> q, at |-> at, db |-> db]

BeginProgress(k, q) ==
    /\ ~Exists(k) /\ Beginnable(q)
    /\ \/ txn = BeginTxn(k, q, "insert", Disk)
       \/ txn = BeginTxn(k, q, "end",
                         Db(versions, shown, [runs EXCEPT ![k] = NewRun(q)], live, sync))

UploadTxn(k, i, b, at, db) ==
    [by |-> "upload", run |-> k, arg |-> <<i, b>>, at |-> at, db |-> db]

Recorded(k, i, b) == [runs[k] EXCEPT !.batches[i] = b]
Staged(k, i, b) == [runs[k] EXCEPT !.state = "uploaded", !.batches[i] = b,
                                   !.staged = @ \union b.items]

Acceptable(k, i, b) ==
    /\ Exists(k) /\ runs[k].batches[i] = NoBatch
    /\ \A j \in Received(k) : runs[k].batches[j].key # b.key
    /\ runs[k].state \in {"created", "uploaded"}
    /\ \A x, y \in b.items : Id(x) = Id(y) => x = y
    /\ \A x \in b.items : Uploadable(k, x)

UploadProgress(k, i, b) ==
    /\ Acceptable(k, i, b)
    /\ \/ txn = UploadTxn(k, i, b, "insert", Disk)
       \/ txn = UploadTxn(k, i, b, "stage",
                  Db(versions, shown, [runs EXCEPT ![k] = Recorded(k, i, b)], live, sync))
       \/ txn = UploadTxn(k, i, b, "end",
                  Db(versions, shown, [runs EXCEPT ![k] = Staged(k, i, b)], live, sync))

CommitTxn(k, at, db) == [by |-> "commit", run |-> k, at |-> at, db |-> db]

(* The run table with k in the state st. *)
WithState(k, st) == [runs EXCEPT ![k] = [runs[k] EXCEPT !.state = st]]
WithoutStaged(k) == [runs EXCEPT ![k] = [runs[k] EXCEPT !.state = "committed",
                                                        !.staged = {}]]

IsPending(k) == versions[runs[k].cfg].status = "pending"
VersionsAfter(k) == IF IsPending(k) THEN Activated(runs[k].cfg) ELSE versions
ShownAfter(k) == IF IsPending(k) THEN Present(versions[runs[k].cfg].source) ELSE shown
SyncAfter(k) == [cfg |-> runs[k].cfg, run |-> k, rev |-> Revision + 1]

CommitProgress(k) ==
    \/ txn = CommitTxn(k, "validate", Disk)
    \/ txn = CommitTxn(k, "merge", Db(versions, shown, WithState(k, "validated"), live, sync))
    \/ /\ ReplacementsValid(runs[k].staged, live)
       /\ \/ txn = CommitTxn(k, "finish",
                     Db(versions, shown, WithState(k, "validated"), Published(k), sync))
          \/ /\ IsPending(k)
             /\ txn = CommitTxn(k, "supersede",
                        Db(versions, shown, WithState(k, "committed"), Published(k), sync))
          \/ /\ IsPending(k)
             /\ txn = CommitTxn(k, "activate",
                        Db(SupersedeActive(versions), ShownAfter(k),
                           WithState(k, "committed"), Published(k), sync))
          \/ txn = CommitTxn(k, "sync",
                     Db(VersionsAfter(k), ShownAfter(k), WithState(k, "committed"),
                        Published(k), sync))
          \/ txn = CommitTxn(k, "unstage",
                     Db(VersionsAfter(k), ShownAfter(k), WithState(k, "committed"),
                        Published(k), SyncAfter(k)))
          \/ txn = CommitTxn(k, "end",
                     Db(VersionsAfter(k), ShownAfter(k), WithoutStaged(k),
                        Published(k), SyncAfter(k)))

PutTxn(e, at, db) == [by |-> "put", arg |-> e, at |-> at, db |-> db]

NewVersion(e) == [status |-> IF Active = 0 THEN "active" ELSE "pending", source |-> e]

PutProgress(e) ==
    \/ /\ KeepsSemantics(e)
       /\ \/ txn = PutTxn(e, "present", Disk)
          \/ txn = PutTxn(e, "end", Db(SupersedePending, Present(e), runs, live, sync))
    \/ /\ ~KeepsSemantics(e) /\ ~RepeatsPending(e) /\ Len(versions) < MaxVersions
       /\ \/ txn = PutTxn(e, "rows", Disk)
          \/ txn = PutTxn(e, "version", Db(versions, AddRows(e), runs, live, sync))
          \/ txn = PutTxn(e, "end", Db(Append(SupersedePending, NewVersion(e)), AddRows(e),
                                       runs, live, sync))

Progress ==
    \/ txn = NoTxn
    \/ \E k \in Run :
         \/ \E q \in Requests : BeginProgress(k, q)
         \/ \E i \in BatchIndex, b \in Batches : UploadProgress(k, i, b)
         \/ /\ \E count \in 0 .. MaxBatches, completed \in SUBSET Account :
                 Committable(k, count, completed)
            /\ CommitProgress(k)
    \/ \E e \in Edit :
         /\ \E expected \in Edit \union {NoBase} : expected = BaseSnapshot
         /\ PutProgress(e)

TxnInv == DiskInv /\ Progress

(* Each handler's transaction is in its own phase. *)
LEMMA HandlerProgress ==
  ASSUME Progress, txn # NoTxn
  PROVE  /\ txn.by = "begin" => \E k \in Run, q \in Requests : BeginProgress(k, q)
         /\ txn.by = "upload" =>
              \E k \in Run, i \in BatchIndex, b \in Batches : UploadProgress(k, i, b)
         /\ txn.by = "commit" =>
              \E k \in Run : /\ \E count \in 0 .. MaxBatches, completed \in SUBSET Account :
                                  Committable(k, count, completed)
                             /\ CommitProgress(k)
         /\ txn.by = "put" =>
              \E e \in Edit : /\ \E expected \in Edit \union {NoBase} : expected = BaseSnapshot
                              /\ PutProgress(e)
<1>1. \A k, q : BeginProgress(k, q) => txn.by = "begin"
  BY DEF BeginProgress, BeginTxn
<1>2. \A k, i, b : UploadProgress(k, i, b) => txn.by = "upload"
  BY DEF UploadProgress, UploadTxn
<1>3. \A k : CommitProgress(k) => txn.by = "commit"
  BY DEF CommitProgress, CommitTxn
<1>4. \A e : PutProgress(e) => txn.by = "put"
  BY DEF PutProgress, PutTxn
<1> QED BY <1>1, <1>2, <1>3, <1>4 DEF Progress

(* The copy of a transaction has at most one active version. *)
LEMMA OneActiveOnDisk ==
  ASSUME IInv
  PROVE  OneActive(versions)
<1>1. \A v, w \in WithStatus(versions, "active") : v = w
  BY DEF IInv, ConfigInv, VersionOrder
<1> QED BY <1>1 DEF OneActive, WithStatus

(* A run's row with some fields changed keeps the others. *)
LEMMA RunRow ==
  ASSUME IInv, NEW k \in Run, Exists(k)
  PROVE  /\ runs[k] \in RefreshRun
         /\ runs[k] = [request |-> runs[k].request, state |-> runs[k].state,
                       cfg |-> runs[k].cfg, before |-> runs[k].before,
                       staged |-> runs[k].staged, batches |-> runs[k].batches]
         /\ DOMAIN runs[k].batches = BatchIndex
         /\ DOMAIN runs = Run
BY DEF Exists, IInv, TypeOK, RefreshRun

-----------------------------------------------------------------------------
(* begin_refresh. *)

(* The checks of begin_refresh and the run it inserts depend on the disk only. *)
LEMMA BeginUnchanged ==
  ASSUME UNCHANGED vars, NEW k, NEW q
  PROVE  /\ Exists(k)' <=> Exists(k)
         /\ Beginnable(q)' <=> Beginnable(q)
         /\ NewRun(q)' = NewRun(q)
         /\ Disk' = Disk
BY DEF vars, Exists, Beginnable, NewRun, Disk, SameScope, CoversRules, TargetVersion,
       Revision, Active, Pending, SemOf

(* The INSERT names the active configuration if the run is incremental. *)
LEMMA InsertRunProgress ==
  ASSUME TxnInv, InsertRun
  PROVE  Progress'
<1>0. PICK k \in Run, q \in Requests : BeginProgress(k, q)
  BY HandlerProgress DEF TxnInv, InsertRun, At
<1>1. /\ ~Exists(k) /\ Beginnable(q)
      /\ txn = BeginTxn(k, q, "insert", Disk)
  BY <1>0 DEF BeginProgress, BeginTxn, InsertRun, At
<1> DEFINE rs == [runs EXCEPT ![k] = NewRun(q)]
<1>2. [txn.db EXCEPT !.runs[txn.run] =
         [request |-> txn.arg, state |-> "created",
          cfg |-> TargetIn(txn.db, txn.arg.mode),
          before |-> IF txn.db.sync = NoSync THEN 0 ELSE txn.db.sync.rev,
          staged |-> {}, batches |-> [i \in BatchIndex |-> NoBatch]]]
      = Db(versions, shown, rs, live, sync)
  BY <1>1 DEF BeginTxn, Disk, Db, NewRun, TargetIn, TargetVersion, Pending, Active, Revision
<1>3. Allowed(txn.db, Db(versions, shown, rs, live, sync))
  <2>1. OneActive(versions)
    BY OneActiveOnDisk DEF TxnInv, DiskInv
  <2>2. rs[k] = NewRun(q) /\ \A j \in Run : j # k => rs[j] = runs[j]
    BY DEF TxnInv, DiskInv, IInv, TypeOK
  <2>3. q.mode = "incremental" =>
          /\ TargetVersion(q.mode) \in DOMAIN versions
          /\ versions[TargetVersion(q.mode)].status = "active"
    BY <1>1, ActiveState DEF TxnInv, DiskInv, IInv, ConfigInv, TargetVersion, Beginnable
  <2>4. NewRun(q).request = q /\ NewRun(q).cfg = TargetVersion(q.mode)
    BY DEF NewRun
  <2>5. txn.db = Db(versions, shown, runs, live, sync)
    BY <1>1 DEF BeginTxn, Disk, Db
  <2>6. runs[k] = NoRun
    BY <1>1 DEF Exists
  <2> HIDE DEF rs
  <2> QED BY <2>1, <2>2, <2>3, <2>4, <2>5, <2>6, RunInsertAllowed
<1>4. txn' = BeginTxn(k, q, "end", Db(versions, shown, rs, live, sync))
  BY <1>1, <1>2, <1>3 DEF InsertRun, Execute, BeginTxn
<1>5. UNCHANGED vars
  BY DEF InsertRun, Execute
<1>6. BeginProgress(k, q)'
  BY <1>1, <1>4, <1>5, BeginUnchanged DEF BeginProgress, vars
<1> QED BY <1>6 DEF Progress

-----------------------------------------------------------------------------
(* upload_batch. *)

(* The checks of an upload and what it writes depend on the disk only. *)
LEMMA UploadUnchanged ==
  ASSUME UNCHANGED vars, NEW k, NEW i, NEW b
  PROVE  /\ Acceptable(k, i, b)' <=> Acceptable(k, i, b)
         /\ Recorded(k, i, b)' = Recorded(k, i, b)
         /\ Staged(k, i, b)' = Staged(k, i, b)
BY DEF vars, Acceptable, Recorded, Staged, Exists, Received, Uploadable, SemOf

(* A checked item's categories have rules in the run's configuration. *)
LEMMA AcceptedBatch ==
  ASSUME IInv, NEW k \in Run, NEW i \in BatchIndex, NEW b \in Batches,
         Acceptable(k, i, b)
  PROVE  /\ runs[k] \in RefreshRun /\ runs[k] # NoRun /\ ~Committed(k)
         /\ runs[k].batches[i] = NoBatch /\ b # NoBatch
         /\ runs[k].state \in {"created", "uploaded"}
         /\ \A x \in b.items : x.cats \subseteq Cats(versions[runs[k].cfg].source.sem)
<1>1. \A x \in b.items : x.cats \subseteq Enabled(SemOf(runs[k].cfg))
  BY DEF Acceptable, Uploadable
<1>2. runs[k] \in RefreshRun
  BY DEF Acceptable, IInv, TypeOK, Exists
<1> QED BY <1>1, <1>2, RefreshAssumption DEF Acceptable, Committed, Exists, Enabled, SemOf

(* An upload inserts its batch. *)
LEMMA InsertBatchProgress ==
  ASSUME TxnInv, InsertBatch
  PROVE  Progress'
<1>0. PICK k \in Run, i \in BatchIndex, b \in Batches : UploadProgress(k, i, b)
  BY HandlerProgress DEF TxnInv, InsertBatch, At
<1>1. Acceptable(k, i, b) /\ txn = UploadTxn(k, i, b, "insert", Disk)
  BY <1>0 DEF UploadProgress, UploadTxn, InsertBatch, At
<1> DEFINE r == Recorded(k, i, b)
           rs == [runs EXCEPT ![k] = r]
<1>2. IInv
  BY DEF TxnInv, DiskInv
<1>3. /\ runs[k] \in RefreshRun /\ runs[k] # NoRun
      /\ runs[k].batches[i] = NoBatch
      /\ runs[k].state \in {"created", "uploaded"}
  BY <1>1, <1>2, AcceptedBatch
<1>4. /\ r \in RefreshRun /\ r.request = runs[k].request /\ r.cfg = runs[k].cfg
      /\ r.before = runs[k].before /\ r.state = runs[k].state
      /\ r.staged = runs[k].staged
      /\ r.batches = [runs[k].batches EXCEPT ![i] = b]
  BY <1>3 DEF Recorded, RefreshRun
<1>5. rs[k] = r /\ \A j \in Run : j # k => rs[j] = runs[j]
  BY <1>2 DEF IInv, TypeOK
<1>6. [txn.db EXCEPT !.runs[txn.run].batches[txn.arg[1]] = txn.arg[2]]
        = Db(versions, shown, rs, live, sync)
  BY <1>1 DEF UploadTxn, Disk, Db, Recorded
<1>7. Allowed(txn.db, Db(versions, shown, rs, live, sync))
  <2>1. txn.db = Db(versions, shown, runs, live, sync)
    BY <1>1 DEF UploadTxn, Disk, Db
  <2>2. OneActive(versions)
    BY <1>2, OneActiveOnDisk
  <2>3. rs[k] # NoRun
    BY <1>4, <1>5, RefreshAssumption
  <2>4. StateMove(runs[k], rs[k])
    BY <1>4, <1>5 DEF StateMove
  <2>5. \A j \in BatchIndex : rs[k].batches[j] # runs[k].batches[j] =>
          runs[k].batches[j] = NoBatch
    BY <1>3, <1>4, <1>5 DEF RefreshRun
  <2>6. rs[k].staged \ runs[k].staged = {}
    BY <1>4, <1>5
  <2>7. /\ rs[k].request = runs[k].request /\ rs[k].cfg = runs[k].cfg
        /\ rs[k].before = runs[k].before
    BY <1>4, <1>5
  <2> HIDE DEF rs
  <2> QED BY <1>3, <1>5, <2>1, <2>2, <2>3, <2>4, <2>5, <2>6, <2>7, RunUpdateAllowed
<1>8. txn' = UploadTxn(k, i, b, "stage", Db(versions, shown, rs, live, sync))
  BY <1>1, <1>6, <1>7 DEF InsertBatch, Execute, UploadTxn
<1>9. UNCHANGED vars
  BY DEF InsertBatch, Execute
<1>10. UploadProgress(k, i, b)'
  BY <1>1, <1>8, <1>9, UploadUnchanged DEF UploadProgress, vars
<1> QED BY <1>10 DEF Progress

(* An upload stages the items of the batch it inserted. *)
LEMMA StageItemsProgress ==
  ASSUME TxnInv, StageItems
  PROVE  Progress'
<1>0. PICK k \in Run, i \in BatchIndex, b \in Batches : UploadProgress(k, i, b)
  BY HandlerProgress DEF TxnInv, StageItems, At
<1> DEFINE old == Recorded(k, i, b)
           r == Staged(k, i, b)
           rs1 == [runs EXCEPT ![k] = old]
           rs == [runs EXCEPT ![k] = r]
<1>1. /\ Acceptable(k, i, b)
      /\ txn = UploadTxn(k, i, b, "stage", Db(versions, shown, rs1, live, sync))
  BY <1>0 DEF UploadProgress, UploadTxn, StageItems, At
<1>2. IInv
  BY DEF TxnInv, DiskInv
<1>3. /\ runs[k] \in RefreshRun
      /\ runs[k].state \in {"created", "uploaded"} /\ b # NoBatch
      /\ \A x \in b.items : x.cats \subseteq Cats(versions[runs[k].cfg].source.sem)
      /\ b.items \subseteq Item
  BY <1>1, <1>2, AcceptedBatch, RefreshAssumption DEF IsBatch
<1>4. /\ old \in RefreshRun /\ r \in RefreshRun
      /\ old.request = r.request /\ old.cfg = r.cfg /\ r.cfg = runs[k].cfg
      /\ old.before = r.before
      /\ old.state = runs[k].state /\ r.state = "uploaded"
      /\ old.batches = r.batches /\ r.batches = [runs[k].batches EXCEPT ![i] = b]
      /\ old.staged = runs[k].staged /\ r.staged = runs[k].staged \union b.items
  BY <1>3 DEF Recorded, Staged, RefreshRun
<1>5. /\ rs1[k] = old /\ rs[k] = r
      /\ \A j \in Run : j # k => rs[j] = rs1[j]
  BY <1>2 DEF IInv, TypeOK
<1>6. [txn.db EXCEPT !.runs[txn.run] =
         [txn.db.runs[txn.run] EXCEPT !.state = "uploaded",
                                      !.staged = @ \union txn.arg[2].items]]
        = Db(versions, shown, rs, live, sync)
  <2>1. /\ txn.db = Db(versions, shown, rs1, live, sync)
        /\ txn.run = k /\ txn.arg[2] = b
    BY <1>1 DEF UploadTxn
  <2>2. txn.db.runs[txn.run] = old
    BY <1>5, <2>1 DEF Db
  <2>3. [old EXCEPT !.state = "uploaded", !.staged = @ \union b.items] = r
    BY <1>3 DEF Recorded, Staged, RefreshRun
  <2>4. [Db(versions, shown, rs1, live, sync) EXCEPT !.runs[k] = r]
          = Db(versions, shown, rs, live, sync)
    <3> HIDE DEF r, old
    <3> QED BY DEF Db
  <2> HIDE DEF rs, rs1, r, old
  <2> QED BY <2>1, <2>2, <2>3, <2>4, Zenon
<1>7. Allowed(txn.db, Db(versions, shown, rs, live, sync))
  <2>1. txn.db = Db(versions, shown, rs1, live, sync)
    BY <1>1 DEF UploadTxn
  <2>2. OneActive(versions)
    BY <1>2, OneActiveOnDisk
  <2>3. rs1[k] # NoRun /\ rs[k] # NoRun
    BY <1>4, <1>5, RefreshAssumption
  <2>4. StateMove(rs1[k], rs[k])
    BY <1>3, <1>4, <1>5 DEF StateMove
  <2>5. \A x \in rs[k].staged \ rs1[k].staged :
          /\ \E j \in BatchIndex : rs[k].batches[j] # NoBatch /\ x \in rs[k].batches[j].items
          /\ x.cats \subseteq Cats(versions[rs[k].cfg].source.sem)
    <3>1. rs[k].batches[i] = b
      BY <1>3, <1>4, <1>5 DEF RefreshRun
    <3>2. rs[k].staged \ rs1[k].staged \subseteq b.items
      BY <1>4, <1>5
    <3> HIDE DEF rs, rs1
    <3> QED BY <1>3, <1>4, <1>5, <3>1, <3>2
  <2>6. /\ rs[k].request = rs1[k].request /\ rs[k].cfg = rs1[k].cfg
        /\ rs[k].before = rs1[k].before /\ rs[k].batches = rs1[k].batches
    BY <1>4, <1>5
  <2> HIDE DEF rs, rs1
  <2> QED BY <1>5, <2>1, <2>2, <2>3, <2>4, <2>5, <2>6, RunUpdateAllowed
<1>8. txn' = UploadTxn(k, i, b, "end", Db(versions, shown, rs, live, sync))
  <2> HIDE DEF rs, rs1
  <2> QED BY <1>1, <1>6, <1>7 DEF StageItems, Execute, UploadTxn
<1>9. UNCHANGED vars
  BY DEF StageItems, Execute
<1>10. UploadProgress(k, i, b)'
  BY <1>1, <1>8, <1>9, UploadUnchanged DEF UploadProgress, vars
<1> QED BY <1>10 DEF Progress

-----------------------------------------------------------------------------
(* commit_refresh. *)

(* The checks of a commit and what it writes depend on the disk only. *)
LEMMA CommitUnchanged ==
  ASSUME UNCHANGED vars, NEW k, NEW count, NEW completed, NEW st
  PROVE  /\ Committable(k, count, completed)' <=> Committable(k, count, completed)
         /\ ReplacementsValid(runs[k].staged, live)' <=> ReplacementsValid(runs[k].staged, live)
         /\ IsPending(k)' <=> IsPending(k)
         /\ Published(k)' = Published(k)
         /\ WithState(k, st)' = WithState(k, st)
         /\ WithoutStaged(k)' = WithoutStaged(k)
         /\ SupersedeActive(versions)' = SupersedeActive(versions)
         /\ VersionsAfter(k)' = VersionsAfter(k)
         /\ ShownAfter(k)' = ShownAfter(k)
         /\ SyncAfter(k)' = SyncAfter(k)
<1>1. /\ versions' = versions /\ shown' = shown /\ runs' = runs
      /\ live' = live /\ sync' = sync
  BY DEF vars
<1>2. /\ Active' = Active /\ Pending' = Pending /\ Revision' = Revision
      /\ Received(k)' = Received(k)
  BY <1>1 DEF Active, Pending, Revision, Received
<1>3. Committable(k, count, completed)' <=> Committable(k, count, completed)
  BY <1>1, <1>2 DEF Committable, Exists, TargetVersion, SameScope
<1>4. ReplacementsValid(runs[k].staged, live)' <=> ReplacementsValid(runs[k].staged, live)
  BY <1>1
<1>5. IsPending(k)' <=> IsPending(k)
  BY <1>1 DEF IsPending
<1>6. Published(k)' = Published(k)
  BY <1>1 DEF Published, MergedLedger, SemOf
<1>7. WithState(k, st)' = WithState(k, st) /\ WithoutStaged(k)' = WithoutStaged(k)
  BY <1>1 DEF WithState, WithoutStaged
<1>8. SupersedeActive(versions)' = SupersedeActive(versions)
  BY <1>1
<1>9. VersionsAfter(k)' = VersionsAfter(k) /\ ShownAfter(k)' = ShownAfter(k)
  BY <1>1, <1>2, <1>5 DEF VersionsAfter, ShownAfter, Activated, Present
<1>10. SyncAfter(k)' = SyncAfter(k)
  BY <1>1, <1>2 DEF SyncAfter
<1> QED BY <1>3, <1>4, <1>5, <1>6, <1>7, <1>8, <1>9, <1>10

(* A statement of a commit leads to the next phase of the same commit. *)
LEMMA CommitGoesOn ==
  ASSUME UNCHANGED vars, NEW k \in Run, NEW count \in 0 .. MaxBatches,
         NEW completed \in SUBSET Account, Committable(k, count, completed),
         CommitProgress(k)'
  PROVE  Progress'
<1>1. Committable(k, count, completed)'
  BY CommitUnchanged
<1> QED BY <1>1 DEF Progress

(* The run table in the course of a commit. *)
LEMMA RunTables ==
  ASSUME IInv, NEW k \in Run, Exists(k),
         NEW st \in {"created", "uploaded", "validated", "committed"}
  PROVE  LET ws == WithState(k, st) IN
         /\ ws[k] # NoRun
         /\ ws[k].state = st /\ ws[k].staged = runs[k].staged
         /\ ws[k].request = runs[k].request /\ ws[k].cfg = runs[k].cfg
         /\ ws[k].before = runs[k].before /\ ws[k].batches = runs[k].batches
         /\ \A j \in Run : j # k => ws[j] = runs[j]
<1> DEFINE r == [runs[k] EXCEPT !.state = st]
<1>1. runs[k] \in RefreshRun /\ runs[k] # NoRun
  BY RunRow DEF Exists
<1>2. /\ r.state = st /\ r.staged = runs[k].staged
      /\ r.request = runs[k].request /\ r.cfg = runs[k].cfg
      /\ r.before = runs[k].before /\ r.batches = runs[k].batches
  BY <1>1 DEF RefreshRun
<1>3. r \in PrivateRun
  BY <1>1 DEF RefreshRun, PrivateRun
<1> HIDE DEF r
<1>4. WithState(k, st)[k] = r /\ \A j \in Run : j # k => WithState(k, st)[j] = runs[j]
  BY DEF WithState, IInv, TypeOK, r
<1> QED BY <1>2, <1>3, <1>4, TxnAssumption

(* Moving the state of a run that is already in some state. *)
LEMMA MovedTable ==
  ASSUME IInv, NEW k \in Run, Exists(k), NEW st,
         NEW vs, NEW sh, NEW l, NEW sy, NEW st0
  PROVE  /\ Moved(Db(vs, sh, WithState(k, st0), l, sy), k, st)
              = Db(vs, sh, WithState(k, st), l, sy)
         /\ Moved(Db(vs, sh, runs, l, sy), k, st) = Db(vs, sh, WithState(k, st), l, sy)
<1> DEFINE r == [runs[k] EXCEPT !.state = st]
           r0 == [runs[k] EXCEPT !.state = st0]
<1>1. runs[k] \in RefreshRun /\ runs \in [Run -> RefreshRun \union {NoRun}]
  BY RunRow DEF IInv, TypeOK
<1>2. [r0 EXCEPT !.state = st] = r
  BY <1>1 DEF RefreshRun
<1>3. WithState(k, st) = [runs EXCEPT ![k] = r] /\ WithState(k, st0) = [runs EXCEPT ![k] = r0]
  BY DEF WithState
<1> HIDE DEF r0
<1>4. /\ [[runs EXCEPT ![k] = r0] EXCEPT ![k] = r] = [runs EXCEPT ![k] = r]
      /\ [runs EXCEPT ![k] = r0][k] = r0
  <2> HIDE DEF r
  <2> QED BY <1>1
<1>5. Moved(Db(vs, sh, WithState(k, st0), l, sy), k, st)
        = Db(vs, sh, WithState(k, st), l, sy)
  <2> DEFINE d == Db(vs, sh, WithState(k, st0), l, sy)
  <2>1. d.runs[k] = r0
    BY <1>3, <1>4 DEF Db
  <2>2. Moved(d, k, st) = [d EXCEPT !.runs[k] = r]
    <3> HIDE DEF d, r
    <3> QED BY <1>2, <2>1, Zenon DEF Moved
  <2>3. [d EXCEPT !.runs[k] = r] = Db(vs, sh, WithState(k, st), l, sy)
    <3> HIDE DEF r
    <3> QED BY <1>3, <1>4 DEF Db
  <2> QED BY <2>2, <2>3
<1>6. Moved(Db(vs, sh, runs, l, sy), k, st) = Db(vs, sh, WithState(k, st), l, sy)
  <2> DEFINE d == Db(vs, sh, runs, l, sy)
  <2>1. d.runs[k] = runs[k]
    BY DEF Db
  <2>2. Moved(d, k, st) = [d EXCEPT !.runs[k] = r]
    <3> HIDE DEF d
    <3> QED BY <2>1, Zenon DEF Moved
  <2>3. [d EXCEPT !.runs[k] = r] = Db(vs, sh, WithState(k, st), l, sy)
    <3> HIDE DEF r
    <3> QED BY <1>3 DEF Db
  <2> QED BY <2>2, <2>3
<1> QED BY <1>5, <1>6

(***************************************************************************)
(* VALIDATED: an uploaded run may always go on to it, and one without any  *)
(* batch may skip UPLOADED.                                                *)
(***************************************************************************)
LEMMA MarkValidatedProgress ==
  ASSUME TxnInv, MarkValidated
  PROVE  Progress'
<1>1. PICK k \in Run, count \in 0 .. MaxBatches, completed \in SUBSET Account :
        Committable(k, count, completed) /\ CommitProgress(k)
  BY HandlerProgress DEF TxnInv, MarkValidated, At
<1>2. txn = CommitTxn(k, "validate", Disk)
  BY <1>1 DEF CommitProgress, CommitTxn, MarkValidated, At
<1>3. IInv /\ UNCHANGED vars
  BY DEF TxnInv, DiskInv, MarkValidated, Execute
<1>4. runs[k] \in RefreshRun /\ Exists(k)
  BY <1>1, <1>3, CommittableRun
<1> DEFINE ws == WithState(k, "validated")
           new == Db(versions, shown, ws, live, sync)
<1>5. txn.db = Db(versions, shown, runs, live, sync)
  BY <1>2 DEF CommitTxn, Disk, Db
<1>6. Moved(txn.db, txn.run, "validated") = new
  <2>1. txn.run = k
    BY <1>2 DEF CommitTxn
  <2> QED BY <1>3, <1>4, <1>5, <2>1, MovedTable
<1>7. /\ ws[k] # NoRun /\ ws[k].state = "validated"
      /\ ws[k].staged = runs[k].staged /\ ws[k].batches = runs[k].batches
      /\ ws[k].request = runs[k].request /\ ws[k].cfg = runs[k].cfg
      /\ ws[k].before = runs[k].before
      /\ \A j \in Run : j # k => ws[j] = runs[j]
  BY <1>3, <1>4, RunTables
<1>8. StateMove(runs[k], ws[k])
  <2>1. runs[k].state = "created" => Received(k) = {}
    BY <1>1 DEF Committable
  <2> QED BY <1>1, <1>7, <2>1 DEF StateMove, Committable, Received
<1>9. Allowed(txn.db, new)
  <2>1. OneActive(versions)
    BY <1>3, OneActiveOnDisk
  <2>2. runs[k] # NoRun
    BY <1>4 DEF Exists
  <2>3. ws[k].staged \ runs[k].staged = {}
    BY <1>7
  <2> HIDE DEF ws
  <2> QED BY <1>5, <1>7, <1>8, <2>1, <2>2, <2>3, RunUpdateAllowed
<1>10. txn' = CommitTxn(k, "merge", new)
  <2> HIDE DEF new
  <2> QED BY <1>2, <1>6, <1>9 DEF MarkValidated, Execute, CommitTxn
<1>11. CommitProgress(k)'
  BY <1>3, <1>10, CommitUnchanged DEF CommitProgress, vars
<1> QED BY <1>1, <1>3, <1>11, CommitGoesOn

(***************************************************************************)
(* The merge and the pruning: every row they write names runs that exist,  *)
(* its last run has the row's configuration, and that configuration has a  *)
(* rule for each of its categories.  A row the merge keeps and the pruning *)
(* narrows was written by an earlier run, of the same configuration.       *)
(***************************************************************************)
LEMMA MergeLedgerProgress ==
  ASSUME TxnInv, MergeLedger
  PROVE  Progress'
<1>1. PICK k \in Run, count \in 0 .. MaxBatches, completed \in SUBSET Account :
        Committable(k, count, completed) /\ CommitProgress(k)
  BY HandlerProgress DEF TxnInv, MergeLedger, At
<1> DEFINE ws == WithState(k, "validated")
           new == Db(versions, shown, ws, Published(k), sync)
<1>2. txn = CommitTxn(k, "merge", Db(versions, shown, ws, live, sync))
  BY <1>1 DEF CommitProgress, CommitTxn, MergeLedger, At
<1>3. DiskInv /\ IInv /\ UNCHANGED vars
  BY DEF TxnInv, DiskInv, MergeLedger, Execute
<1>4. /\ Exists(k) /\ runs[k].cfg \in DOMAIN versions
      /\ runs[k].request.mode = "incremental" => Active = runs[k].cfg
  BY <1>1, <1>3, CommittableRun
<1>5. txn.db = Db(versions, shown, ws, live, sync) /\ txn.run = k
  BY <1>2 DEF CommitTxn
<1>6. /\ ws[k] # NoRun
      /\ ws[k].staged = runs[k].staged
      /\ ws[k].request = runs[k].request /\ ws[k].cfg = runs[k].cfg
      /\ \A j \in Run : j # k => ws[j] = runs[j]
  BY <1>3, <1>4, RunTables
<1>7. Merged(txn.db, txn.run) = Published(k)
  BY <1>5, <1>6 DEF Db, Merged, Published, MergedLedger, SemOf
<1>8. [txn.db EXCEPT !.live = Merged(txn.db, txn.run)] = new
  BY <1>5, <1>7 DEF Db
<1>9. ReplacementsValid(runs[k].staged, live)
  BY <1>5, <1>6 DEF MergeLedger, Db
<1>10. ASSUME NEW id \in Identity, Published(k)[id] # NoTx
       PROVE  LET x == Published(k)[id] IN
              /\ ws[x.first] # NoRun /\ ws[x.last] # NoRun
              /\ ws[x.last].cfg = x.cfg
              /\ x.cats \subseteq Cats(versions[x.cfg].source.sem)
  <2> DEFINE x == Published(k)[id]
  <2>1. /\ x.cfg = runs[k].cfg
        /\ \A c \in x.cats : c \in Enabled(SemOf(runs[k].cfg))
        /\ \/ x.first = k /\ x.last = k
           \/ /\ runs[k].request.mode = "incremental" /\ live[id] # NoTx
              /\ x.first = live[id].first
              /\ x.last = k \/ (x.last = live[id].last /\ live[id].cfg = Active)
    BY <1>1, <1>3, <1>10, PublishedRows
  <2>2. live[id] # NoTx =>
          /\ live[id].first \in Run /\ live[id].last \in Run
          /\ runs[live[id].first] # NoRun /\ runs[live[id].last] # NoRun
          /\ runs[live[id].last].cfg = live[id].cfg
    BY <1>3 DEF DiskInv, RowsHaveRuns, Exists, IInv, TypeOK, Ledger, Row
  <2> HIDE DEF x, ws
  <2>3. /\ ws[x.first] # NoRun /\ ws[x.last] # NoRun
        /\ ws[x.last].cfg = x.cfg
    BY <1>4, <1>6, <2>1, <2>2
  <2>4. x.cats \subseteq Cats(versions[x.cfg].source.sem)
    BY <2>1 DEF Enabled, SemOf
  <2> QED BY <2>3, <2>4 DEF x
<1>11. Allowed(txn.db, new)
  <2>1. OneActive(versions)
    BY <1>3, OneActiveOnDisk
  <2> HIDE DEF ws
  <2> QED BY <1>5, <1>10, <2>1, LedgerWriteAllowed
<1>12. txn' = CommitTxn(k, "finish", new)
  <2> HIDE DEF new
  <2> QED BY <1>2, <1>8, <1>11 DEF MergeLedger, Execute, CommitTxn
<1>13. CommitProgress(k)'
  BY <1>3, <1>9, <1>12, CommitUnchanged DEF CommitProgress, vars
<1> QED BY <1>1, <1>3, <1>13, CommitGoesOn

(* COMMITTED, by way of VALIDATED. *)
LEMMA MarkCommittedProgress ==
  ASSUME TxnInv, MarkCommitted
  PROVE  Progress'
<1>1. PICK k \in Run, count \in 0 .. MaxBatches, completed \in SUBSET Account :
        Committable(k, count, completed) /\ CommitProgress(k)
  BY HandlerProgress DEF TxnInv, MarkCommitted, At
<1> DEFINE ws0 == WithState(k, "validated")
           ws == WithState(k, "committed")
           new == Db(versions, shown, ws, Published(k), sync)
           next == IF IsPending(k) THEN "supersede" ELSE "sync"
<1>2. /\ ReplacementsValid(runs[k].staged, live)
      /\ txn = CommitTxn(k, "finish", Db(versions, shown, ws0, Published(k), sync))
  BY <1>1 DEF CommitProgress, CommitTxn, MarkCommitted, At
<1>3. IInv /\ UNCHANGED vars
  BY DEF TxnInv, DiskInv, MarkCommitted, Execute
<1>4. Exists(k)
  BY <1>1, <1>3, CommittableRun
<1>5. txn.db = Db(versions, shown, ws0, Published(k), sync) /\ txn.run = k
  BY <1>2 DEF CommitTxn
<1>6. Moved(txn.db, txn.run, "committed") = new
  BY <1>3, <1>4, <1>5, MovedTable
<1>7. /\ ws0[k] # NoRun /\ ws0[k].state = "validated"
      /\ ws0[k].staged = runs[k].staged /\ ws0[k].batches = runs[k].batches
      /\ ws0[k].request = runs[k].request /\ ws0[k].cfg = runs[k].cfg
      /\ ws0[k].before = runs[k].before
      /\ \A j \in Run : j # k => ws0[j] = runs[j]
  BY <1>3, <1>4, RunTables
<1>8. /\ ws[k] # NoRun /\ ws[k].state = "committed"
      /\ ws[k].staged = runs[k].staged /\ ws[k].batches = runs[k].batches
      /\ ws[k].request = runs[k].request /\ ws[k].cfg = runs[k].cfg
      /\ ws[k].before = runs[k].before
      /\ \A j \in Run : j # k => ws[j] = runs[j]
  BY <1>3, <1>4, RunTables
<1>9. Allowed(txn.db, new)
  <2>1. OneActive(versions)
    BY <1>3, OneActiveOnDisk
  <2>2. StateMove(ws0[k], ws[k])
    BY <1>7, <1>8 DEF StateMove
  <2>3. ws[k].staged \ ws0[k].staged = {}
    BY <1>7, <1>8
  <2>4. \A j \in Run : j # k => ws[j] = ws0[j]
    BY <1>7, <1>8
  <2>5. /\ ws[k].request = ws0[k].request /\ ws[k].cfg = ws0[k].cfg
        /\ ws[k].before = ws0[k].before /\ ws[k].batches = ws0[k].batches
    BY <1>7, <1>8
  <2>6. ws[k] # NoRun /\ ws0[k] # NoRun
    BY <1>7, <1>8
  <2>7. \A i \in BatchIndex : ws[k].batches[i] # ws0[k].batches[i] =>
          ws0[k].batches[i] = NoBatch /\ ws0[k].state \in {"created", "uploaded"}
    BY <2>5
  <2> HIDE DEF ws, ws0
  <2>8. Allowed(Db(versions, shown, ws0, Published(k), sync),
                Db(versions, shown, ws, Published(k), sync))
    BY <2>1, <2>2, <2>3, <2>4, <2>5, <2>6, <2>7, RunUpdateAllowed
  <2> QED BY <1>5, <2>8
<1>10. AfterFinish(txn.db, txn.run) = next
  BY <1>5, <1>7 DEF AfterFinish, Db, IsPending
<1>11. txn' = CommitTxn(k, next, new)
  <2> HIDE DEF new, next
  <2> QED BY <1>2, <1>6, <1>9, <1>10 DEF MarkCommitted, Execute, CommitTxn
<1>12. CommitProgress(k)'
  <2>1. ASSUME IsPending(k) PROVE CommitProgress(k)'
    BY <1>2, <1>3, <1>11, <2>1, CommitUnchanged DEF CommitProgress, vars
  <2>2. ASSUME ~IsPending(k) PROVE CommitProgress(k)'
    <3>1. VersionsAfter(k) = versions /\ ShownAfter(k) = shown
      BY <2>2 DEF VersionsAfter, ShownAfter
    <3> QED BY <1>2, <1>3, <1>11, <2>2, <3>1, CommitUnchanged DEF CommitProgress, vars
  <2> QED BY <2>1, <2>2
<1> QED BY <1>1, <1>3, <1>12, CommitGoesOn

(***************************************************************************)
(* The rows of config_versions in the course of an activation: the old     *)
(* active version goes first, so there are never two, and the new one is   *)
(* the version a full run was committed for.                               *)
(***************************************************************************)
LEMMA ActivationTables ==
  ASSUME IInv, NEW k \in Run, NEW count, NEW completed,
         Committable(k, count, completed), IsPending(k)
  PROVE  LET v == runs[k].cfg
             old == SupersedeActive(versions)
             new == Activated(v)
         IN  /\ v \in DOMAIN versions /\ runs[k].request.mode = "full"
             /\ DOMAIN old = DOMAIN versions /\ DOMAIN new = DOMAIN versions
             /\ \A w \in DOMAIN versions :
                  /\ old[w].source = versions[w].source
                  /\ new[w].source = versions[w].source
                  /\ StatusMove(versions[w].status, old[w].status)
                  /\ StatusMove(old[w].status, new[w].status)
                  /\ old[w].status # "active"
                  /\ w # v => new[w].status # "active"
             /\ new = [old EXCEPT ![v] = [old[v] EXCEPT !.status = "active"]]
<1> DEFINE v == runs[k].cfg
           old == SupersedeActive(versions)
           new == Activated(v)
<1>1. ConfigTypeOK /\ VersionOrder
  BY DEF IInv, ConfigInv
<1>2. /\ v \in DOMAIN versions /\ versions[v].status = "pending"
      /\ runs[k].request.mode = "full"
  BY CommittableRun DEF IsPending
<1>3. /\ Active \in DOMAIN versions /\ versions[Active].status = "active"
      /\ WithStatus(versions, "active") = {Active}
  BY <1>1, <1>2, ActiveState
<1>4. v # Active
  BY <1>2, <1>3
<1>5. \A w \in DOMAIN versions :
        /\ versions[w] \in [status : Status, source : Edit]
        /\ versions[w].status = "active" => w = Active
  <2>1. \A w \in DOMAIN versions : versions[w] \in Version
    BY <1>1 DEF ConfigTypeOK
  <2>2. \A w \in DOMAIN versions : versions[w].status = "active" => w \in {Active}
    BY <1>3 DEF WithStatus
  <2> QED BY <2>1, <2>2 DEF Version
<1>6. old = [w \in DOMAIN versions |->
               IF w = Active THEN [versions[w] EXCEPT !.status = "superseded"]
               ELSE versions[w]]
  BY DEF SupersedeActive, Active
<1>7. \A w \in DOMAIN versions :
        /\ old[w] \in [status : Status, source : Edit]
        /\ old[w].source = versions[w].source
        /\ old[w].status = IF w = Active THEN "superseded" ELSE versions[w].status
  BY <1>5, <1>6 DEF Status
<1>8. \A w \in DOMAIN versions :
        /\ new[w].source = versions[w].source
        /\ new[w].status = IF w = v THEN "active"
                           ELSE IF w = Active THEN "superseded" ELSE versions[w].status
  BY <1>5 DEF Activated
<1>9. new = [old EXCEPT ![v] = [old[v] EXCEPT !.status = "active"]]
  <2>1. old[v] = versions[v]
    BY <1>2, <1>4, <1>6
  <2>2. \A w \in DOMAIN versions : new[w] =
          IF w = v THEN [versions[v] EXCEPT !.status = "active"] ELSE old[w]
    BY <1>4, <1>6 DEF Activated
  <2> DEFINE row == [versions[v] EXCEPT !.status = "active"]
  <2> HIDE DEF row
  <2>3. \A w \in DOMAIN versions : new[w] = IF w = v THEN row ELSE old[w]
    BY <2>2, Zenon DEF row
  <2>4. new = [w \in DOMAIN versions |-> new[w]] /\ DOMAIN old = DOMAIN versions
        /\ old = [w \in DOMAIN versions |-> old[w]]
    BY <1>6 DEF Activated
  <2> HIDE DEF new, old
  <2>5. new = [old EXCEPT ![v] = row]
    BY <2>3, <2>4
  <2>6. [old[v] EXCEPT !.status = "active"] = row
    BY <2>1, Zenon DEF row
  <2> QED BY <2>5, <2>6, Zenon
<1>10. DOMAIN old = DOMAIN versions /\ DOMAIN new = DOMAIN versions
  BY DEF SupersedeActive, Activated
<1>11. \A w \in DOMAIN versions :
         /\ StatusMove(versions[w].status, old[w].status)
         /\ StatusMove(old[w].status, new[w].status)
         /\ old[w].status # "active"
         /\ w # v => new[w].status # "active"
  <2> HIDE DEF old, new
  <2> QED BY <1>2, <1>3, <1>4, <1>5, <1>7, <1>8 DEF StatusMove
<1> QED BY <1>2, <1>7, <1>8, <1>9, <1>10, <1>11

(* A commit leaves at most one active version. *)
LEMMA OneActiveAfter ==
  ASSUME IInv, NEW k \in Run, NEW count, NEW completed,
         Committable(k, count, completed)
  PROVE  OneActive(VersionsAfter(k))
<1>1. CASE IsPending(k)
  <2> DEFINE new == Activated(runs[k].cfg)
  <2>1. \A w \in DOMAIN new : w # runs[k].cfg => new[w].status # "active"
    BY <1>1, ActivationTables
  <2> HIDE DEF new
  <2>2. OneActive(new)
    BY <2>1 DEF OneActive
  <2> QED BY <1>1, <2>2 DEF VersionsAfter, new
<1>2. CASE ~IsPending(k)
  BY <1>2, OneActiveOnDisk DEF VersionsAfter
<1> QED BY <1>1, <1>2

(* The presentation and the supersession of the old active version. *)
LEMMA SupersedeOldProgress ==
  ASSUME TxnInv, SupersedeOld
  PROVE  Progress'
<1>1. PICK k \in Run, count \in 0 .. MaxBatches, completed \in SUBSET Account :
        Committable(k, count, completed) /\ CommitProgress(k)
  BY HandlerProgress DEF TxnInv, SupersedeOld, At
<1> DEFINE ws == WithState(k, "committed")
           vs == SupersedeActive(versions)
           new == Db(vs, ShownAfter(k), ws, Published(k), sync)
<1>2. /\ ReplacementsValid(runs[k].staged, live) /\ IsPending(k)
      /\ txn = CommitTxn(k, "supersede", Db(versions, shown, ws, Published(k), sync))
  BY <1>1 DEF CommitProgress, CommitTxn, SupersedeOld, At
<1>3. IInv /\ UNCHANGED vars
  BY DEF TxnInv, DiskInv, SupersedeOld, Execute
<1>4. Exists(k)
  BY <1>1, <1>3, CommittableRun
<1>5. txn.db = Db(versions, shown, ws, Published(k), sync) /\ txn.run = k
  BY <1>2 DEF CommitTxn
<1>6. Configured(txn.db, SupersedeActive(txn.db.versions),
                 Presented(txn.db, txn.db.runs[txn.run].cfg)) = new
  <2>1. ws[k].cfg = runs[k].cfg
    BY <1>3, <1>4, RunTables
  <2>2. Presented(txn.db, runs[k].cfg) = ShownAfter(k)
    <3>1. txn.db.versions = versions /\ txn.db.shown = shown
      BY <1>5 DEF Db
    <3>2. /\ versions[runs[k].cfg].status = "pending"
          /\ ShownAfter(k) = Present(versions[runs[k].cfg].source)
      BY <1>2 DEF IsPending, ShownAfter
    <3> QED BY <3>1, <3>2 DEF Presented, Present
  <2>3. /\ txn.db.runs[txn.run].cfg = runs[k].cfg /\ txn.db.versions = versions
        /\ txn.db.runs = ws /\ txn.db.live = Published(k) /\ txn.db.sync = sync
    BY <1>5, <2>1 DEF Db
  <2> HIDE DEF ws, vs
  <2>4. Configured(txn.db, SupersedeActive(versions), ShownAfter(k)) = new
    BY <2>3 DEF Configured, Db, vs
  <2> QED BY <2>2, <2>3, <2>4, Zenon
<1>7. Allowed(txn.db, new)
  <2>1. /\ DOMAIN vs = DOMAIN versions
        /\ \A w \in DOMAIN versions :
             /\ vs[w].source = versions[w].source
             /\ StatusMove(versions[w].status, vs[w].status)
             /\ vs[w].status # "active"
    BY <1>1, <1>2, <1>3, ActivationTables
  <2> HIDE DEF vs, ws
  <2>2. OneActive(vs)
    BY <2>1 DEF OneActive
  <2> QED BY <1>5, <2>1, <2>2, VersionWriteAllowed
<1>8. txn' = CommitTxn(k, "activate", new)
  <2> HIDE DEF new
  <2> QED BY <1>2, <1>6, <1>7 DEF SupersedeOld, Execute, CommitTxn
<1>9. CommitProgress(k)'
  BY <1>2, <1>3, <1>8, CommitUnchanged DEF CommitProgress, vars
<1> QED BY <1>1, <1>3, <1>9, CommitGoesOn

(* The activation: the run that is COMMITTED is a full one for the version. *)
LEMMA ActivateNewProgress ==
  ASSUME TxnInv, ActivateNew
  PROVE  Progress'
<1>1. PICK k \in Run, count \in 0 .. MaxBatches, completed \in SUBSET Account :
        Committable(k, count, completed) /\ CommitProgress(k)
  BY HandlerProgress DEF TxnInv, ActivateNew, At
<1> DEFINE ws == WithState(k, "committed")
           v == runs[k].cfg
           old == SupersedeActive(versions)
           vs == VersionsAfter(k)
           new == Db(vs, ShownAfter(k), ws, Published(k), sync)
<1>2. /\ ReplacementsValid(runs[k].staged, live) /\ IsPending(k)
      /\ txn = CommitTxn(k, "activate", Db(old, ShownAfter(k), ws, Published(k), sync))
  <2>1. \A at, db : txn = CommitTxn(k, at, db) => at = "activate"
    BY DEF CommitTxn, ActivateNew, At
  <2>2. CommitProgress(k)
    BY <1>1
  <2> HIDE DEF ws, old
  <2>3. \/ txn = CommitTxn(k, "validate", Disk)
        \/ txn = CommitTxn(k, "merge", Db(versions, shown, WithState(k, "validated"), live, sync))
        \/ /\ ReplacementsValid(runs[k].staged, live) /\ IsPending(k)
           /\ txn = CommitTxn(k, "activate", Db(old, ShownAfter(k), ws, Published(k), sync))
        \/ \E at \in {"finish", "supersede", "sync", "unstage", "end"} : \E db :
             txn = CommitTxn(k, at, db)
    BY <2>2, Zenon DEF CommitProgress, ws, old
  <2> QED BY <2>1, <2>3
<1>3. IInv /\ UNCHANGED vars
  BY DEF TxnInv, DiskInv, ActivateNew, Execute
<1>4. Exists(k)
  BY <1>1, <1>3, CommittableRun
<1>5. txn.db = Db(old, ShownAfter(k), ws, Published(k), sync) /\ txn.run = k
  BY <1>2 DEF CommitTxn
<1>6. /\ ws[k] # NoRun /\ ws[k].state = "committed"
      /\ ws[k].cfg = v /\ ws[k].request = runs[k].request
  BY <1>3, <1>4, RunTables
<1>7. /\ v \in DOMAIN versions /\ runs[k].request.mode = "full"
      /\ DOMAIN old = DOMAIN versions /\ DOMAIN vs = DOMAIN versions
      /\ \A w \in DOMAIN versions :
           /\ vs[w].source = old[w].source
           /\ StatusMove(old[w].status, vs[w].status)
           /\ w # v => vs[w].status # "active"
      /\ vs = [old EXCEPT ![v] = [old[v] EXCEPT !.status = "active"]]
  BY <1>1, <1>2, <1>3, ActivationTables DEF VersionsAfter
<1> HIDE DEF ws, old, vs
<1>8. LET u == txn.db.runs[txn.run].cfg
          row == txn.db.versions[u]
      IN  [txn.db EXCEPT !.versions[u] = [row EXCEPT !.status = "active"]] = new
  <2> DEFINE row == [old[v] EXCEPT !.status = "active"]
  <2>1. txn.db.runs[txn.run].cfg = v /\ txn.db.versions = old
    BY <1>5, <1>6 DEF Db
  <2> HIDE DEF row
  <2>2. [txn.db EXCEPT !.versions[v] = row] = new
    <3>1. vs = [old EXCEPT ![v] = row]
      BY <1>7, Zenon DEF row
    <3> QED BY <1>5, <3>1 DEF Db
  <2> QED BY <2>1, <2>2, Zenon DEF row
<1>9. Allowed(txn.db, new)
  <2>1. OneActive(vs)
    BY <1>7 DEF OneActive
  <2>2. \A w \in DOMAIN old :
          /\ w \in DOMAIN vs /\ vs[w].source = old[w].source
          /\ StatusMove(old[w].status, vs[w].status)
          /\ old[w].status # "active" /\ vs[w].status = "active" =>
               \E j \in Run : /\ ws[j] # NoRun /\ ws[j].state = "committed"
                              /\ ws[j].cfg = w /\ ws[j].request.mode = "full"
    BY <1>6, <1>7
  <2> QED BY <1>5, <2>1, <2>2, VersionWriteAllowed
<1>10. txn' = CommitTxn(k, "sync", new)
  <2> HIDE DEF new
  <2> QED BY <1>2, <1>8, <1>9 DEF ActivateNew, Execute, CommitTxn
<1>11. CommitProgress(k)'
  BY <1>2, <1>3, <1>10, CommitUnchanged DEF CommitProgress, vars, ws, vs
<1> QED BY <1>1, <1>3, <1>11, CommitGoesOn

(* The sync state names a committed run of its configuration. *)
LEMMA AdvanceSyncProgress ==
  ASSUME TxnInv, AdvanceSync
  PROVE  Progress'
<1>1. PICK k \in Run, count \in 0 .. MaxBatches, completed \in SUBSET Account :
        Committable(k, count, completed) /\ CommitProgress(k)
  BY HandlerProgress DEF TxnInv, AdvanceSync, At
<1> DEFINE ws == WithState(k, "committed")
           old == Db(VersionsAfter(k), ShownAfter(k), ws, Published(k), sync)
           new == Db(VersionsAfter(k), ShownAfter(k), ws, Published(k), SyncAfter(k))
<1>2. /\ ReplacementsValid(runs[k].staged, live)
      /\ txn = CommitTxn(k, "sync", old)
  BY <1>1 DEF CommitProgress, CommitTxn, AdvanceSync, At
<1>3. IInv /\ UNCHANGED vars
  BY DEF TxnInv, DiskInv, AdvanceSync, Execute
<1>4. Exists(k)
  BY <1>1, <1>3, CommittableRun
<1>5. txn.db = old /\ txn.run = k
  BY <1>2 DEF CommitTxn
<1>6. ws[k] # NoRun /\ ws[k].state = "committed" /\ ws[k].cfg = runs[k].cfg
  BY <1>3, <1>4, RunTables
<1> HIDE DEF ws
<1>7. LET db == txn.db
          rev == IF db.sync = NoSync THEN 0 ELSE db.sync.rev
      IN  [db EXCEPT !.sync = [cfg |-> db.runs[txn.run].cfg, run |-> txn.run,
                               rev |-> rev + 1]] = new
  BY <1>5, <1>6 DEF Db, SyncAfter, Revision
<1>8. Allowed(txn.db, new)
  <2>1. OneActive(VersionsAfter(k))
    BY <1>1, <1>3, OneActiveAfter
  <2>2. SyncAfter(k).run = k /\ SyncAfter(k).cfg = runs[k].cfg
    BY DEF SyncAfter
  <2> QED BY <1>5, <1>6, <2>1, <2>2, SyncWriteAllowed
<1>9. txn' = CommitTxn(k, "unstage", new)
  <2> HIDE DEF new
  <2> QED BY <1>2, <1>7, <1>8 DEF AdvanceSync, Execute, CommitTxn
<1>10. CommitProgress(k)'
  BY <1>2, <1>3, <1>9, CommitUnchanged DEF CommitProgress, vars, ws
<1> QED BY <1>1, <1>3, <1>10, CommitGoesOn

(* The staged rows of a committed run may go. *)
LEMMA UnstageProgress ==
  ASSUME TxnInv, Unstage
  PROVE  Progress'
<1>1. PICK k \in Run, count \in 0 .. MaxBatches, completed \in SUBSET Account :
        Committable(k, count, completed) /\ CommitProgress(k)
  BY HandlerProgress DEF TxnInv, Unstage, At
<1> DEFINE ws == WithState(k, "committed")
           vs == VersionsAfter(k)
           row == [runs[k] EXCEPT !.state = "committed", !.staged = {}]
           rs == WithoutStaged(k)
           old == Db(vs, ShownAfter(k), ws, Published(k), SyncAfter(k))
           new == Db(vs, ShownAfter(k), rs, Published(k), SyncAfter(k))
<1>2. /\ ReplacementsValid(runs[k].staged, live)
      /\ txn = CommitTxn(k, "unstage", old)
  BY <1>1 DEF CommitProgress, CommitTxn, Unstage, At
<1>3. IInv /\ UNCHANGED vars
  BY DEF TxnInv, DiskInv, Unstage, Execute
<1>4. Exists(k) /\ runs[k] \in RefreshRun
  BY <1>1, <1>3, CommittableRun
<1>5. txn.db = old /\ txn.run = k
  BY <1>2 DEF CommitTxn
<1>6. /\ row \in RefreshRun /\ row.state = "committed" /\ row.staged = {}
      /\ row.request = runs[k].request /\ row.cfg = runs[k].cfg
      /\ row.before = runs[k].before /\ row.batches = runs[k].batches
  BY <1>4 DEF RefreshRun
<1>7. [ws[k] EXCEPT !.staged = {}] = row
  <2>1. ws[k] = [runs[k] EXCEPT !.state = "committed"]
    BY <1>3 DEF WithState, IInv, TypeOK
  <2>2. [[runs[k] EXCEPT !.state = "committed"] EXCEPT !.staged = {}] = row
    BY <1>4 DEF RefreshRun
  <2> HIDE DEF ws, row
  <2> QED BY <2>1, <2>2, Zenon
<1> HIDE DEF row
<1>8. /\ rs[k] = row
      /\ \A j \in Run : j # k => rs[j] = runs[j]
      /\ rs = [runs EXCEPT ![k] = row]
  BY <1>3 DEF WithoutStaged, IInv, TypeOK, row
<1>9. /\ ws[k] # NoRun /\ ws[k].state = "committed"
      /\ ws[k].staged = runs[k].staged /\ ws[k].batches = runs[k].batches
      /\ ws[k].request = runs[k].request /\ ws[k].cfg = runs[k].cfg
      /\ ws[k].before = runs[k].before
      /\ \A j \in Run : j # k => ws[j] = runs[j]
  BY <1>3, <1>4, RunTables
<1>10. [ws EXCEPT ![k] = row] = rs
  <2>1. DOMAIN runs = Run
    BY <1>3 DEF IInv, TypeOK
  <2> QED BY <1>8, <2>1 DEF WithState
<1> HIDE DEF ws, rs, vs
<1>11. LET run == txn.db.runs[txn.run]
       IN  [txn.db EXCEPT !.runs[txn.run] = [run EXCEPT !.staged = {}]] = new
  <2>1. txn.db.runs[txn.run] = ws[k]
    BY <1>5 DEF Db
  <2>2. [old EXCEPT !.runs[k] = row] = new
    BY <1>10 DEF Db
  <2> HIDE DEF old, new
  <2> QED BY <1>5, <1>7, <2>1, <2>2, Zenon
<1>12. Allowed(txn.db, new)
  <2>1. OneActive(vs)
    BY <1>1, <1>3, OneActiveAfter DEF vs
  <2>2. StateMove(ws[k], rs[k])
    BY <1>6, <1>8, <1>9 DEF StateMove
  <2>3. rs[k].staged \ ws[k].staged = {}
    BY <1>6, <1>8
  <2>4. \A j \in Run : j # k => rs[j] = ws[j]
    BY <1>8, <1>9
  <2>5. /\ rs[k].request = ws[k].request /\ rs[k].cfg = ws[k].cfg
        /\ rs[k].before = ws[k].before /\ rs[k].batches = ws[k].batches
    BY <1>6, <1>8, <1>9
  <2>6. ws[k] # NoRun /\ rs[k] # NoRun
    BY <1>6, <1>8, <1>9, RefreshAssumption
  <2>7. \A i \in BatchIndex : rs[k].batches[i] # ws[k].batches[i] =>
          ws[k].batches[i] = NoBatch /\ ws[k].state \in {"created", "uploaded"}
    BY <2>5
  <2>8. Allowed(Db(vs, ShownAfter(k), ws, Published(k), SyncAfter(k)),
                Db(vs, ShownAfter(k), rs, Published(k), SyncAfter(k)))
    BY <2>1, <2>2, <2>3, <2>4, <2>5, <2>6, <2>7, RunUpdateAllowed
  <2> QED BY <1>5, <2>8
<1>13. txn' = CommitTxn(k, "end", new)
  <2> HIDE DEF new
  <2> QED BY <1>2, <1>11, <1>12 DEF Unstage, Execute, CommitTxn
<1>14. CommitProgress(k)'
  BY <1>2, <1>3, <1>13, CommitUnchanged DEF CommitProgress, vars, ws, rs, vs
<1> QED BY <1>1, <1>3, <1>14, CommitGoesOn

-----------------------------------------------------------------------------
(* put_config. *)

(* The checks of an edit and what it writes depend on the disk only. *)
LEMMA PutUnchanged ==
  ASSUME UNCHANGED vars, NEW e
  PROVE  /\ KeepsSemantics(e)' <=> KeepsSemantics(e)
         /\ RepeatsPending(e)' <=> RepeatsPending(e)
         /\ BaseSnapshot' = BaseSnapshot
         /\ SupersedePending' = SupersedePending
         /\ Present(e)' = Present(e) /\ AddRows(e)' = AddRows(e)
         /\ NewVersion(e)' = NewVersion(e)
<1>1. versions' = versions /\ shown' = shown
  BY DEF vars
<1>2. Active' = Active /\ Pending' = Pending
  BY <1>1 DEF Active, Pending
<1>3. /\ KeepsSemantics(e)' <=> KeepsSemantics(e)
      /\ NewVersion(e)' = NewVersion(e)
  BY <1>1, <1>2 DEF KeepsSemantics, SemOf, NewVersion
<1>4. \A v : Snapshot(v)' = Snapshot(v)
  BY <1>1 DEF Snapshot, SemOf
<1>5. /\ RepeatsPending(e)' <=> RepeatsPending(e)
      /\ BaseSnapshot' = BaseSnapshot
  BY <1>2, <1>3, <1>4 DEF RepeatsPending, BaseSnapshot, Base
<1>6. /\ SupersedePending' = SupersedePending
      /\ Present(e)' = Present(e) /\ AddRows(e)' = AddRows(e)
  BY <1>1, <1>2 DEF SupersedePending, Present, AddRows
<1> QED BY <1>3, <1>5, <1>6

(* Withdrawing the pending version is a legal move for it, and no version  *)
(* becomes active by it.                                                   *)
LEMMA WithdrawnTable ==
  ASSUME IInv
  PROVE  /\ DOMAIN SupersedePending = DOMAIN versions
         /\ OneActive(SupersedePending)
         /\ \A v \in DOMAIN versions :
              /\ SupersedePending[v].source = versions[v].source
              /\ StatusMove(versions[v].status, SupersedePending[v].status)
              /\ versions[v].status # "active" => SupersedePending[v].status # "active"
              /\ SupersedePending[v].status = "active" => versions[v].status = "active"
<1>1. ConfigTypeOK /\ VersionOrder
  BY DEF IInv, ConfigInv
<1>2. /\ DOMAIN SupersedePending = DOMAIN versions
      /\ \A v \in DOMAIN versions :
           /\ SupersedePending[v].source = versions[v].source
           /\ SupersedePending[v].status =
                IF v = Pending THEN "superseded" ELSE versions[v].status
  BY <1>1, SupersededSeq
<1>3. Pending \in DOMAIN versions => versions[Pending].status = "pending"
  BY <1>1, PendingFact DEF ConfigTypeOK
<1>4. OneActive(versions)
  BY OneActiveOnDisk
<1> QED BY <1>2, <1>3, <1>4 DEF OneActive, StatusMove

(* A statement of an edit leads to the next phase of the same edit. *)
LEMMA PutGoesOn ==
  ASSUME UNCHANGED vars, NEW e \in Edit,
         \E expected \in Edit \union {NoBase} : expected = BaseSnapshot,
         PutProgress(e)'
  PROVE  Progress'
<1>1. \E expected \in Edit \union {NoBase} : expected = BaseSnapshot'
  BY PutUnchanged
<1> QED BY <1>1 DEF Progress

(* A presentation edit: the rows, and the pending version withdrawn. *)
LEMMA PresentEditProgress ==
  ASSUME TxnInv, PresentEdit
  PROVE  Progress'
<1>1. PICK e \in Edit : /\ \E expected \in Edit \union {NoBase} : expected = BaseSnapshot
                        /\ PutProgress(e)
  BY HandlerProgress DEF TxnInv, PresentEdit, At
<1>2. KeepsSemantics(e) /\ txn = PutTxn(e, "present", Disk)
  BY <1>1 DEF PutProgress, PutTxn, PresentEdit, At
<1>3. IInv /\ UNCHANGED vars
  BY DEF TxnInv, DiskInv, PresentEdit, Execute
<1> DEFINE new == Db(SupersedePending, Present(e), runs, live, sync)
<1>4. txn.db = Db(versions, shown, runs, live, sync) /\ txn.arg = e
  BY <1>2 DEF PutTxn, Disk, Db
<1>5. /\ txn.db.versions = versions /\ txn.db.shown = shown
      /\ txn.db.runs = runs /\ txn.db.live = live /\ txn.db.sync = sync
  BY <1>4 DEF Db
<1>6. LET db == txn.db
          pres == txn.arg.pres
          rows == [c \in Cat |-> IF c \in DOMAIN pres THEN pres[c] ELSE db.shown[c]]
      IN  Configured(db, SupersedeWaiting(db.versions), rows) = new
  BY <1>4, <1>5 DEF Configured, SupersedeWaiting, SupersedePending, Pending, Present, Db
<1>7. Allowed(txn.db, new)
  BY <1>3, <1>4, WithdrawnTable, VersionWriteAllowed
<1>8. txn' = PutTxn(e, "end", new)
  <2> HIDE DEF new
  <2> QED BY <1>2, <1>6, <1>7 DEF PresentEdit, Execute, PutTxn
<1>9. PutProgress(e)'
  BY <1>2, <1>3, <1>8, PutUnchanged DEF PutProgress, vars
<1> QED BY <1>1, <1>3, <1>9, PutGoesOn

(* The rows of new categories. *)
LEMMA InsertRowsProgress ==
  ASSUME TxnInv, InsertRows
  PROVE  Progress'
<1>1. PICK e \in Edit : /\ \E expected \in Edit \union {NoBase} : expected = BaseSnapshot
                        /\ PutProgress(e)
  BY HandlerProgress DEF TxnInv, InsertRows, At
<1>2. /\ ~KeepsSemantics(e) /\ ~RepeatsPending(e) /\ Len(versions) < MaxVersions
      /\ txn = PutTxn(e, "rows", Disk)
  BY <1>1 DEF PutProgress, PutTxn, InsertRows, At
<1>3. IInv /\ UNCHANGED vars
  BY DEF TxnInv, DiskInv, InsertRows, Execute
<1> DEFINE new == Db(versions, AddRows(e), runs, live, sync)
<1>4. txn.db = Db(versions, shown, runs, live, sync) /\ txn.arg = e
  BY <1>2 DEF PutTxn, Disk, Db
<1>5. LET db == txn.db
          pres == txn.arg.pres
      IN  [db EXCEPT !.shown = [c \in Cat |-> IF db.shown[c] = NoPres /\ c \in DOMAIN pres
                                              THEN pres[c] ELSE db.shown[c]]] = new
  BY <1>4 DEF AddRows, Db
<1>6. Allowed(txn.db, new)
  <2>1. OneActive(versions)
    BY <1>3, OneActiveOnDisk
  <2>2. \A v \in DOMAIN versions : StatusMove(versions[v].status, versions[v].status)
    BY DEF StatusMove
  <2> QED BY <1>4, <2>1, <2>2, VersionWriteAllowed
<1>7. txn' = PutTxn(e, "version", new)
  <2> HIDE DEF new
  <2> QED BY <1>2, <1>5, <1>6 DEF InsertRows, Execute, PutTxn
<1>8. PutProgress(e)'
  BY <1>2, <1>3, <1>7, PutUnchanged DEF PutProgress, vars
<1> QED BY <1>1, <1>3, <1>8, PutGoesOn

(* The new version, pending unless it is the first. *)
LEMMA InsertVersionProgress ==
  ASSUME TxnInv, InsertVersion
  PROVE  Progress'
<1>1. PICK e \in Edit : /\ \E expected \in Edit \union {NoBase} : expected = BaseSnapshot
                        /\ PutProgress(e)
  BY HandlerProgress DEF TxnInv, InsertVersion, At
<1>2. /\ ~KeepsSemantics(e) /\ ~RepeatsPending(e) /\ Len(versions) < MaxVersions
      /\ txn = PutTxn(e, "version", Db(versions, AddRows(e), runs, live, sync))
  BY <1>1 DEF PutProgress, PutTxn, InsertVersion, At
<1>3. IInv /\ UNCHANGED vars
  BY DEF TxnInv, DiskInv, InsertVersion, Execute
<1> DEFINE vs == Append(SupersedePending, NewVersion(e))
           n == Len(versions) + 1
           new == Db(vs, AddRows(e), runs, live, sync)
<1>4. txn.db = Db(versions, AddRows(e), runs, live, sync) /\ txn.arg = e
  BY <1>2 DEF PutTxn
<1>5. LET vs0 == txn.db.versions
          status == IF ActiveIn(vs0) = 0 THEN "active" ELSE "pending"
      IN  [txn.db EXCEPT !.versions = Append(SupersedeWaiting(vs0),
                                             [status |-> status, source |-> txn.arg])] = new
  <2>1. txn.db.versions = versions
    BY <1>4 DEF Db
  <2>2. SupersedeWaiting(versions) = SupersedePending
    BY DEF SupersedeWaiting, SupersedePending, Pending
  <2>3. [status |-> IF ActiveIn(versions) = 0 THEN "active" ELSE "pending",
         source |-> txn.arg] = NewVersion(e)
    BY <1>4 DEF NewVersion, Active
  <2>4. [txn.db EXCEPT !.versions = vs] = new
    <3> HIDE DEF vs
    <3> QED BY <1>4 DEF Db
  <2> HIDE DEF new
  <2> QED BY <2>1, <2>2, <2>3, <2>4, Zenon
<1>6. ConfigTypeOK /\ VersionOrder
  BY <1>3 DEF IInv, ConfigInv
<1>7. /\ DOMAIN vs = 1 .. n /\ DOMAIN versions = 1 .. Len(versions) /\ Len(versions) \in Nat
      /\ vs[n] = NewVersion(e)
      /\ \A v \in DOMAIN versions : vs[v] = SupersedePending[v]
  <2>1. /\ SupersedePending \in Seq(Version)
        /\ Len(SupersedePending) = Len(versions)
        /\ DOMAIN SupersedePending = DOMAIN versions
        /\ DOMAIN versions = 1 .. Len(versions) /\ Len(versions) \in Nat
    BY <1>6, SupersededSeq DEF ConfigTypeOK
  <2> HIDE DEF NewVersion
  <2>2. SupersedePending \in Seq(Version \union {NewVersion(e)})
    BY <2>1
  <2> QED BY <2>1, <2>2
<1>8. OneActive(vs)
  <2>1. CASE Active = 0
    <3>1. versions = <<>>
      BY <1>6, <2>1, ActiveState
    <3>2. DOMAIN vs = {1}
      BY <1>7, <3>1
    <3> QED BY <3>2 DEF OneActive
  <2>2. CASE Active # 0
    <3>1. NewVersion(e).status # "active"
      BY <2>2 DEF NewVersion
    <3>2. \A v \in DOMAIN vs : v \in DOMAIN versions \/ v = n
      BY <1>7
    <3>3. OneActive(SupersedePending) /\ DOMAIN SupersedePending = DOMAIN versions
      BY <1>3, WithdrawnTable
    <3> HIDE DEF vs
    <3> QED BY <1>7, <3>1, <3>2, <3>3 DEF OneActive
  <2> QED BY <2>1, <2>2
<1>9. Allowed(txn.db, new)
  <2>1. \A v \in DOMAIN versions :
          /\ v \in DOMAIN vs /\ vs[v].source = versions[v].source
          /\ StatusMove(versions[v].status, vs[v].status)
          /\ ~(versions[v].status # "active" /\ vs[v].status = "active")
    BY <1>3, <1>7, WithdrawnTable
  <2> HIDE DEF vs
  <2> QED BY <1>4, <1>8, <2>1, VersionWriteAllowed
<1>10. txn' = PutTxn(e, "end", new)
  <2> HIDE DEF new
  <2> QED BY <1>2, <1>5, <1>9 DEF InsertVersion, Execute, PutTxn
<1>11. PutProgress(e)'
  BY <1>2, <1>3, <1>10, PutUnchanged DEF PutProgress, vars
<1> QED BY <1>1, <1>3, <1>11, PutGoesOn

-----------------------------------------------------------------------------
(***************************************************************************)
(* Opening and ending a transaction.                                       *)
(***************************************************************************)

(* A handler begins when its checks have passed. *)
LEMMA OpenProgress ==
  ASSUME TxnInv,
         \/ \E k \in Run :
              \/ \E q \in Requests : OpenBegin(k, q)
              \/ \E i \in BatchIndex, b \in Batches : OpenUpload(k, i, b)
              \/ \E count \in 0 .. MaxBatches, completed \in SUBSET Account :
                   OpenCommit(k, count, completed)
         \/ \E e \in Edit, expected \in Edit \union {NoBase} : OpenPut(e, expected)
  PROVE  Progress' /\ UNCHANGED vars
<1>1. ASSUME NEW k \in Run, NEW q \in Requests, OpenBegin(k, q)
      PROVE  Progress' /\ UNCHANGED vars
  <2>1. /\ ~Exists(k) /\ Beginnable(q) /\ UNCHANGED vars
        /\ txn' = BeginTxn(k, q, "insert", Disk)
    BY <1>1 DEF OpenBegin, Open, BeginTxn
  <2>2. BeginProgress(k, q)'
    BY <2>1, BeginUnchanged DEF BeginProgress, vars
  <2> QED BY <2>1, <2>2 DEF Progress
<1>2. ASSUME NEW k \in Run, NEW i \in BatchIndex, NEW b \in Batches, OpenUpload(k, i, b)
      PROVE  Progress' /\ UNCHANGED vars
  <2>1. /\ Acceptable(k, i, b) /\ UNCHANGED vars
        /\ txn' = UploadTxn(k, i, b, "insert", Disk)
    BY <1>2 DEF OpenUpload, Open, UploadTxn, Acceptable
  <2>2. UploadProgress(k, i, b)'
    BY <2>1, BeginUnchanged, UploadUnchanged DEF UploadProgress, vars
  <2> QED BY <2>1, <2>2 DEF Progress
<1>3. ASSUME NEW k \in Run, NEW count \in 0 .. MaxBatches, NEW completed \in SUBSET Account,
             OpenCommit(k, count, completed)
      PROVE  Progress' /\ UNCHANGED vars
  <2>1. /\ Committable(k, count, completed) /\ UNCHANGED vars
        /\ txn' = CommitTxn(k, "validate", Disk)
    BY <1>3 DEF OpenCommit, Open, CommitTxn
  <2>2. CommitProgress(k)'
    BY <2>1, BeginUnchanged DEF CommitProgress, vars
  <2> QED BY <2>1, <2>2, CommitGoesOn
<1>4. ASSUME NEW e \in Edit, NEW expected \in Edit \union {NoBase}, OpenPut(e, expected)
      PROVE  Progress' /\ UNCHANGED vars
  <2>1. /\ expected = BaseSnapshot /\ ~RepeatsPending(e) /\ UNCHANGED vars
        /\ Len(versions) < MaxVersions \/ KeepsSemantics(e)
        /\ txn' = PutTxn(e, IF KeepsSemantics(e) THEN "present" ELSE "rows", Disk)
    BY <1>4 DEF OpenPut, Open, PutTxn
  <2>2. PutProgress(e)'
    BY <2>1, BeginUnchanged, PutUnchanged DEF PutProgress, vars
  <2> QED BY <2>1, <2>2, PutGoesOn
<1> QED BY <1>1, <1>2, <1>3, <1>4

(***************************************************************************)
(* COMMIT makes the copy the database: exactly the step of RefreshRuns     *)
(* that the handler stands for.                                            *)
(***************************************************************************)
LEMMA EndIsStep ==
  ASSUME TxnInv, End
  PROVE  Next
<1> DEFINE db == txn.db
<1>1. /\ txn # NoTxn /\ txn.at = "end"
      /\ versions' = db.versions /\ shown' = db.shown
      /\ runs' = db.runs /\ live' = db.live /\ sync' = db.sync
  BY DEF End
<1>2. IInv /\ NoRowsBeforeFirst /\ Progress
  BY DEF TxnInv, DiskInv
<1>3. ASSUME NEW k \in Run, NEW q \in Requests, BeginProgress(k, q)
      PROVE  Begin(k, q)
  <2>1. /\ ~Exists(k) /\ Beginnable(q)
        /\ db = Db(versions, shown, [runs EXCEPT ![k] = NewRun(q)], live, sync)
    BY <1>1, <1>3 DEF BeginProgress, BeginTxn
  <2> QED BY <1>1, <2>1 DEF Begin, Db, NewRun
<1>4. ASSUME NEW k \in Run, NEW i \in BatchIndex, NEW b \in Batches, UploadProgress(k, i, b)
      PROVE  Upload(k, i, b)
  <2>1. /\ Acceptable(k, i, b)
        /\ db = Db(versions, shown, [runs EXCEPT ![k] = Staged(k, i, b)], live, sync)
    BY <1>1, <1>4 DEF UploadProgress, UploadTxn
  <2>2. /\ runs[k] \in RefreshRun /\ runs \in [Run -> RefreshRun \union {NoRun}]
    BY <1>2, <2>1, AcceptedBatch DEF IInv, TypeOK
  <2>3. [runs EXCEPT ![k] = Staged(k, i, b)] =
          [runs EXCEPT ![k].state = "uploaded", ![k].batches[i] = b,
                       ![k].staged = @ \union b.items]
    BY <2>2 DEF Staged, RefreshRun
  <2>4. /\ runs' = [runs EXCEPT ![k] = Staged(k, i, b)]
        /\ UNCHANGED <<versions, shown, live, sync>>
    BY <1>1, <2>1 DEF Db
  <2> QED BY <2>1, <2>3, <2>4 DEF Upload, Acceptable
<1>5. ASSUME NEW k \in Run, NEW count \in 0 .. MaxBatches, NEW completed \in SUBSET Account,
             Committable(k, count, completed), CommitProgress(k)
      PROVE  Commit(k, count, completed)
  <2>1. /\ ReplacementsValid(runs[k].staged, live)
        /\ db = Db(VersionsAfter(k), ShownAfter(k), WithoutStaged(k), Published(k),
                   SyncAfter(k))
    BY <1>1, <1>5 DEF CommitProgress, CommitTxn
  <2>2. /\ versions' = VersionsAfter(k) /\ shown' = ShownAfter(k)
        /\ runs' = WithoutStaged(k) /\ live' = Published(k) /\ sync' = SyncAfter(k)
    BY <1>1, <2>1 DEF Db
  <2>3. runs[k] \in RefreshRun /\ runs \in [Run -> RefreshRun \union {NoRun}]
    BY <1>2, <1>5, CommittableRun DEF IInv, TypeOK
  <2>4. WithoutStaged(k) = [runs EXCEPT ![k].state = "committed", ![k].staged = {}]
    BY <2>3 DEF WithoutStaged, RefreshRun
  <2>5. IF versions[runs[k].cfg].status = "pending" THEN Activate(runs[k].cfg)
        ELSE UNCHANGED configVars
    BY <2>2 DEF VersionsAfter, ShownAfter, IsPending, Activate, configVars
  <2> QED BY <1>5, <2>1, <2>2, <2>4, <2>5 DEF Commit, Published, SyncAfter
<1>6. ASSUME NEW e \in Edit, NEW expected \in Edit \union {NoBase},
             expected = BaseSnapshot, PutProgress(e)
      PROVE  EditConfig(e, expected)
  <2>1. CASE KeepsSemantics(e)
    <3>1. db = Db(SupersedePending, Present(e), runs, live, sync)
      BY <1>1, <1>6, <2>1 DEF PutProgress, PutTxn
    <3>2. EditPresentation(e) /\ UNCHANGED <<runs, live, sync>>
      BY <1>1, <2>1, <3>1 DEF Db, EditPresentation, KeepsSemantics
    <3> QED BY <1>6, <3>2 DEF EditConfig, PutConfig
  <2>2. CASE ~KeepsSemantics(e)
    <3>1. /\ ~RepeatsPending(e) /\ Len(versions) < MaxVersions
          /\ db = Db(Append(SupersedePending, NewVersion(e)), AddRows(e), runs, live, sync)
      BY <1>1, <1>6, <2>2 DEF PutProgress, PutTxn
    <3>2. /\ versions' = Append(SupersedePending, NewVersion(e)) /\ shown' = AddRows(e)
          /\ UNCHANGED <<runs, live, sync>>
      BY <1>1, <3>1 DEF Db
    <3>3. Active = 0 => AddRows(e) = Present(e)
      <4> SUFFICES ASSUME Active = 0 PROVE AddRows(e) = Present(e)
        OBVIOUS
      <4>1. versions = <<>>
        BY <1>2, ActiveState DEF IInv, ConfigInv
      <4> QED BY <1>2, <4>1 DEF NoRowsBeforeFirst, AddRows, Present
    <3>4. CreateVersion(e)
      BY <2>2, <3>1, <3>2, <3>3 DEF CreateVersion, KeepsSemantics, RepeatsPending, NewVersion
    <3> QED BY <1>6, <3>2, <3>4 DEF EditConfig, PutConfig
  <2> QED BY <2>1, <2>2
<1> QED BY <1>1, <1>2, <1>3, <1>4, <1>5, <1>6 DEF Progress, Next

(* A step that changes nothing leaves a transaction where it is. *)
LEMMA StutterProgress ==
  ASSUME Progress, UNCHANGED txnVars
  PROVE  Progress'
<1>1. UNCHANGED vars /\ txn' = txn
  BY DEF txnVars
<1>2. UNCHANGED <<versions, shown, runs, live, sync>>
  BY <1>1 DEF vars
<1>3. ASSUME NEW k, NEW q, BeginProgress(k, q) PROVE BeginProgress(k, q)'
  BY <1>1, <1>2, <1>3, BeginUnchanged DEF BeginProgress
<1>4. ASSUME NEW k, NEW i, NEW b, UploadProgress(k, i, b) PROVE UploadProgress(k, i, b)'
  BY <1>1, <1>2, <1>4, BeginUnchanged, UploadUnchanged DEF UploadProgress
<1>5. ASSUME NEW k, CommitProgress(k) PROVE CommitProgress(k)'
  BY <1>1, <1>2, <1>5, BeginUnchanged, CommitUnchanged DEF CommitProgress
<1>6. ASSUME NEW e, PutProgress(e) PROVE PutProgress(e)'
  BY <1>1, <1>2, <1>6, BeginUnchanged, PutUnchanged DEF PutProgress
<1>7. CASE txn = NoTxn
  BY <1>1, <1>7 DEF Progress
<1>8. ASSUME NEW k \in Run, NEW q \in Requests, BeginProgress(k, q) PROVE Progress'
  BY <1>3, <1>8 DEF Progress
<1>9. ASSUME NEW k \in Run, NEW i \in BatchIndex, NEW b \in Batches, UploadProgress(k, i, b)
      PROVE  Progress'
  BY <1>4, <1>9 DEF Progress
<1>10. ASSUME NEW k \in Run, NEW count \in 0 .. MaxBatches, NEW completed \in SUBSET Account,
              Committable(k, count, completed), CommitProgress(k)
       PROVE  Progress'
  BY <1>1, <1>5, <1>10, CommitGoesOn
<1>11. ASSUME NEW e \in Edit, \E expected \in Edit \union {NoBase} : expected = BaseSnapshot,
              PutProgress(e)
       PROVE  Progress'
  BY <1>1, <1>6, <1>11, PutGoesOn
<1> QED BY <1>7, <1>8, <1>9, <1>10, <1>11 DEF Progress

(***************************************************************************)
(* A statement leaves the database on disk alone and is accepted; only a   *)
(* COMMIT changes it, by a step of RefreshRuns.                            *)
(***************************************************************************)
LEMMA TxnStep ==
  ASSUME TxnInv, [TxnNext]_txnVars
  PROVE  [Next]_vars /\ Progress'
<1>1. CASE UNCHANGED txnVars
  BY <1>1, StutterProgress DEF TxnInv, txnVars
<1>2. CASE \/ \E k \in Run :
                \/ \E q \in Requests : OpenBegin(k, q)
                \/ \E i \in BatchIndex, b \in Batches : OpenUpload(k, i, b)
                \/ \E count \in 0 .. MaxBatches, completed \in SUBSET Account :
                     OpenCommit(k, count, completed)
           \/ \E e \in Edit, expected \in Edit \union {NoBase} : OpenPut(e, expected)
  BY <1>2, OpenProgress
<1>3. CASE InsertRun \/ InsertBatch \/ StageItems
  <2>1. UNCHANGED vars
    BY <1>3 DEF InsertRun, InsertBatch, StageItems, Execute
  <2> QED BY <1>3, <2>1, InsertRunProgress, InsertBatchProgress, StageItemsProgress
<1>4. CASE MarkValidated \/ MergeLedger \/ MarkCommitted
  <2>1. UNCHANGED vars
    BY <1>4 DEF MarkValidated, MergeLedger, MarkCommitted, Execute
  <2> QED BY <1>4, <2>1, MarkValidatedProgress, MergeLedgerProgress, MarkCommittedProgress
<1>5. CASE SupersedeOld \/ ActivateNew \/ AdvanceSync \/ Unstage
  <2>1. UNCHANGED vars
    BY <1>5 DEF SupersedeOld, ActivateNew, AdvanceSync, Unstage, Execute
  <2> QED BY <1>5, <2>1, SupersedeOldProgress, ActivateNewProgress, AdvanceSyncProgress,
             UnstageProgress
<1>6. CASE PresentEdit \/ InsertRows \/ InsertVersion
  <2>1. UNCHANGED vars
    BY <1>6 DEF PresentEdit, InsertRows, InsertVersion, Execute
  <2> QED BY <1>6, <2>1, PresentEditProgress, InsertRowsProgress, InsertVersionProgress
<1>7. CASE End
  <2>1. Progress'
    BY <1>7 DEF End, Progress
  <2> QED BY <1>7, <2>1, EndIsStep
<1>8. CASE Rollback
  BY <1>8 DEF Rollback, Progress
<1> QED BY <1>1, <1>2, <1>3, <1>4, <1>5, <1>6, <1>7, <1>8 DEF TxnNext

(* The invariant holds in every reachable state. *)
THEOREM TxnCorrect == TxnSpec => []TxnInv
<1>1. TxnInit => TxnInv
  <2> SUFFICES ASSUME TxnInit PROVE TxnInv
    OBVIOUS
  <2>1. IInv
    BY InitIInv DEF TxnInit
  <2>2. NoRowsBeforeFirst /\ RowsHaveRuns
    BY DEF TxnInit, Init, ConfigInit, NoRowsBeforeFirst, RowsHaveRuns
  <2>3. Progress
    BY DEF TxnInit, Progress
  <2> QED BY <2>1, <2>2, <2>3 DEF TxnInv, DiskInv
<1>2. TxnInv /\ [TxnNext]_txnVars => TxnInv'
  <2> SUFFICES ASSUME TxnInv, [TxnNext]_txnVars PROVE TxnInv'
    OBVIOUS
  <2>1. [Next]_vars /\ Progress'
    BY TxnStep
  <2>2. DiskInv'
    BY <2>1, StepKeepsDisk DEF TxnInv
  <2> QED BY <2>1, <2>2 DEF TxnInv
<1> QED BY <1>1, <1>2, PTL DEF TxnSpec

(***************************************************************************)
(* The handlers of the services, flushed one statement at a time to a      *)
(* schema that checks each, still make the database do what RefreshRuns    *)
(* says: a transaction is one step of it, or none.                         *)
(***************************************************************************)
THEOREM TransactionsImplementRuns == TxnSpec => Spec
<1>1. TxnInit => Init
  BY DEF TxnInit
<1>2. TxnInv /\ [TxnNext]_txnVars => [Next]_vars
  BY TxnStep
<1> QED BY <1>1, <1>2, TxnCorrect, PTL DEF TxnSpec, Spec

(***************************************************************************)
(* A request whose checks passed is not refused by a trigger, the          *)
(* one-active index or a foreign key halfway through its transaction.      *)
(***************************************************************************)
THEOREM SchemaRefusesNothing == TxnSpec => []NoStatementRefused
<1>1. TxnInv => NoStatementRefused
  <2> SUFFICES ASSUME Progress, txn # NoTxn PROVE txn.at # "refused"
    BY DEF TxnInv, NoStatementRefused
  <2>1. ASSUME NEW k, NEW q, BeginProgress(k, q) PROVE txn.at # "refused"
    BY <2>1 DEF BeginProgress, BeginTxn
  <2>2. ASSUME NEW k, NEW i, NEW b, UploadProgress(k, i, b) PROVE txn.at # "refused"
    BY <2>2 DEF UploadProgress, UploadTxn
  <2>3. ASSUME NEW k, CommitProgress(k) PROVE txn.at # "refused"
    BY <2>3 DEF CommitProgress, CommitTxn
  <2>4. ASSUME NEW e, PutProgress(e) PROVE txn.at # "refused"
    BY <2>4 DEF PutProgress, PutTxn
  <2> QED BY <2>1, <2>2, <2>3, <2>4 DEF Progress
<1> QED BY <1>1, TxnCorrect, PTL

-----------------------------------------------------------------------------
(* The types of what a transaction holds. *)

(* Each table on disk, and each table a handler makes of it, is a table of *)
(* a Database.                                                             *)
LEMMA DbOfType ==
  ASSUME NEW vs \in Seq(Version), NEW sh \in [Cat -> Pres \union {NoPres}],
         NEW rs \in [Run -> PrivateRun \union {NoRun}], NEW l \in Ledger,
         NEW sy \in SyncState \union {NoSync}
  PROVE  Db(vs, sh, rs, l, sy) \in Database
BY DEF Db, Database

(* What is committed is a database. *)
LEMMA DiskOfType ==
  ASSUME IInv
  PROVE  /\ versions \in Seq(Version) /\ shown \in [Cat -> Pres \union {NoPres}]
         /\ runs \in [Run -> PrivateRun \union {NoRun}] /\ live \in Ledger
         /\ sync \in SyncState \union {NoSync}
         /\ Disk \in Database
<1>1. RefreshRun \subseteq PrivateRun
  BY DEF RefreshRun, PrivateRun
<1>2. /\ versions \in Seq(Version) /\ shown \in [Cat -> Pres \union {NoPres}]
      /\ runs \in [Run -> RefreshRun \union {NoRun}] /\ live \in Ledger
      /\ sync \in SyncState \union {NoSync}
  BY DEF IInv, TypeOK, ConfigTypeOK
<1>3. runs \in [Run -> PrivateRun \union {NoRun}]
  BY <1>1, <1>2
<1>4. Db(versions, shown, runs, live, sync) \in Database
  BY <1>2, <1>3, DbOfType
<1> QED BY <1>2, <1>3, <1>4 DEF Disk, Db

(* Category rows written by an edit are typed. *)
LEMMA RowsOfType ==
  ASSUME IInv, NEW e \in Edit
  PROVE  /\ Present(e) \in [Cat -> Pres \union {NoPres}]
         /\ AddRows(e) \in [Cat -> Pres \union {NoPres}]
<1>1. /\ e.pres \in [Cats(e.sem) -> Pres]
      /\ DOMAIN e.pres = Cats(e.sem)
  BY EditCategories
<1> QED BY <1>1, DiskOfType DEF Present, AddRows

(* The tables a commit writes on its way are typed. *)
LEMMA CommitTablesOfType ==
  ASSUME IInv, NEW k \in Run, NEW count, NEW completed,
         Committable(k, count, completed)
  PROVE  /\ SupersedeActive(versions) \in Seq(Version)
         /\ VersionsAfter(k) \in Seq(Version)
         /\ ShownAfter(k) \in [Cat -> Pres \union {NoPres}]
         /\ \A st \in {"created", "uploaded", "validated", "committed"} :
              WithState(k, st) \in [Run -> PrivateRun \union {NoRun}]
         /\ WithoutStaged(k) \in [Run -> PrivateRun \union {NoRun}]
         /\ Published(k) \in Ledger
         /\ SyncAfter(k) \in SyncState
<1>1. /\ runs[k] \in RefreshRun /\ runs[k].cfg \in DOMAIN versions
      /\ runs[k].cfg \in Nat \ {0}
      /\ runs[k].staged \in SUBSET Item /\ runs[k].request.to \in Int
  BY CommittableRun
<1>2. /\ versions \in Seq(Version) /\ runs \in [Run -> PrivateRun \union {NoRun}]
      /\ live \in Ledger /\ shown \in [Cat -> Pres \union {NoPres}]
  BY DiskOfType
<1>3. /\ DOMAIN versions = 1 .. Len(versions) /\ Len(versions) \in Nat
      /\ \A w \in DOMAIN versions : versions[w] \in Version
  BY <1>2
<1>4. SupersedeActive(versions) \in Seq(Version)
  <2>1. SupersedeActive(versions) \in [1 .. Len(versions) -> Version]
    BY <1>3 DEF SupersedeActive, Version, Status
  <2> QED BY <1>3, <2>1, FunctionIsSeq
<1>5. VersionsAfter(k) \in Seq(Version)
  <2>1. Activated(runs[k].cfg) \in [1 .. Len(versions) -> Version]
    BY <1>3 DEF Activated, Version, Status
  <2>2. Activated(runs[k].cfg) \in Seq(Version)
    BY <1>3, <2>1, FunctionIsSeq
  <2> QED BY <1>2, <2>2 DEF VersionsAfter
<1>6. ShownAfter(k) \in [Cat -> Pres \union {NoPres}]
  <2>1. versions[runs[k].cfg].source \in Edit
    BY <1>1, <1>3 DEF Version
  <2> QED BY <1>2, <2>1, RowsOfType DEF ShownAfter
<1>7. \A st \in {"created", "uploaded", "validated", "committed"} :
        WithState(k, st) \in [Run -> PrivateRun \union {NoRun}]
  <2>1. \A st \in {"created", "uploaded", "validated", "committed"} :
          [runs[k] EXCEPT !.state = st] \in PrivateRun
    BY <1>1 DEF RefreshRun, PrivateRun
  <2> QED BY <1>2, <2>1 DEF WithState
<1>8. WithoutStaged(k) \in [Run -> PrivateRun \union {NoRun}]
  <2>1. [runs[k] EXCEPT !.state = "committed", !.staged = {}] \in PrivateRun
    BY <1>1 DEF RefreshRun, PrivateRun
  <2> QED BY <1>2, <2>1 DEF WithoutStaged
<1>9. Published(k) \in Ledger
  <2>1. MergedLedger(k) \in Ledger
    BY <1>1, <1>2, MergeType DEF MergedLedger
  <2> QED BY <1>1, <2>1, PruneType DEF Published
<1>10. SyncAfter(k) \in SyncState
  <2>1. Revision \in Nat
    BY DEF Revision, IInv, TypeOK, SyncState
  <2> QED BY <1>1, <2>1 DEF SyncAfter, SyncState
<1> QED BY <1>4, <1>5, <1>6, <1>7, <1>8, <1>9, <1>10

(***************************************************************************)
(* What a handler holds between two statements is always a database with   *)
(* the columns' types, in which only the run it commits is VALIDATED.      *)
(***************************************************************************)
THEOREM TxnTypeCorrect == TxnSpec => []TxnTypeOK
<1>1. TxnInv => TxnTypeOK
  <2> SUFFICES ASSUME IInv, Progress PROVE txn \in Txn \union {NoTxn}
    BY DEF TxnInv, DiskInv, TxnTypeOK
  <2>1. ASSUME NEW k \in Run, NEW q \in Requests, BeginProgress(k, q) PROVE txn \in Txn
    <3>1. NewRun(q) \in PrivateRun
      <4>1. Active # 0
        BY <2>1 DEF BeginProgress, Beginnable
      <4>2. TargetVersion(q.mode) \in Nat \ {0}
        BY <4>1, TargetExists DEF IInv
      <4>3. Revision \in Nat
        BY DEF Revision, IInv, TypeOK, SyncState
      <4> QED BY <4>2, <4>3 DEF NewRun, PrivateRun
    <3>2. [runs EXCEPT ![k] = NewRun(q)] \in [Run -> PrivateRun \union {NoRun}]
      BY <3>1, DiskOfType
    <3>3. Db(versions, shown, [runs EXCEPT ![k] = NewRun(q)], live, sync) \in Database
      BY <3>2, DiskOfType, DbOfType
    <3> QED BY <2>1, <3>3, DiskOfType DEF BeginProgress, BeginTxn, Txn
  <2>2. ASSUME NEW k \in Run, NEW i \in BatchIndex, NEW b \in Batches,
               UploadProgress(k, i, b)
        PROVE  txn \in Txn
    <3>1. runs[k] \in RefreshRun /\ b.items \subseteq Item
      BY <2>2, AcceptedBatch, RefreshAssumption DEF UploadProgress, IsBatch
    <3>2. Recorded(k, i, b) \in PrivateRun /\ Staged(k, i, b) \in PrivateRun
      BY <3>1 DEF Recorded, Staged, RefreshRun, PrivateRun
    <3>3. /\ [runs EXCEPT ![k] = Recorded(k, i, b)] \in [Run -> PrivateRun \union {NoRun}]
          /\ [runs EXCEPT ![k] = Staged(k, i, b)] \in [Run -> PrivateRun \union {NoRun}]
      BY <3>2, DiskOfType
    <3>4. /\ Db(versions, shown, [runs EXCEPT ![k] = Recorded(k, i, b)], live, sync)
               \in Database
          /\ Db(versions, shown, [runs EXCEPT ![k] = Staged(k, i, b)], live, sync)
               \in Database
      BY <3>3, DiskOfType, DbOfType
    <3> QED BY <2>2, <3>4, DiskOfType DEF UploadProgress, UploadTxn, Txn
  <2>3. ASSUME NEW k \in Run, NEW count, NEW completed, Committable(k, count, completed),
               CommitProgress(k)
        PROVE  txn \in Txn
    <3> DEFINE At1 == {"validate", "merge", "finish", "supersede", "activate", "sync",
                       "unstage", "end"}
    <3>1. /\ SupersedeActive(versions) \in Seq(Version)
          /\ VersionsAfter(k) \in Seq(Version)
          /\ ShownAfter(k) \in [Cat -> Pres \union {NoPres}]
          /\ WithState(k, "validated") \in [Run -> PrivateRun \union {NoRun}]
          /\ WithState(k, "committed") \in [Run -> PrivateRun \union {NoRun}]
          /\ WithoutStaged(k) \in [Run -> PrivateRun \union {NoRun}]
          /\ Published(k) \in Ledger /\ SyncAfter(k) \in SyncState
      BY <2>3, CommitTablesOfType
    <3>2. \E at \in At1, db \in Database : txn = CommitTxn(k, at, db)
      BY <2>3, <3>1, DiskOfType, DbOfType DEF CommitProgress
    <3> QED BY <3>2 DEF CommitTxn, Txn
  <2>4. ASSUME NEW e \in Edit, PutProgress(e) PROVE txn \in Txn
    <3>1. /\ SupersedePending \in Seq(Version)
          /\ Append(SupersedePending, NewVersion(e)) \in Seq(Version)
      <4>1. SupersedePending \in Seq(Version)
        BY SupersededSeq DEF IInv, ConfigInv
      <4>2. NewVersion(e) \in Version
        BY DEF NewVersion, Version, Status
      <4> QED BY <4>1, <4>2
    <3>2. /\ Present(e) \in [Cat -> Pres \union {NoPres}]
          /\ AddRows(e) \in [Cat -> Pres \union {NoPres}]
      BY RowsOfType
    <3>3. \E at \in {"present", "rows", "version", "end"}, db \in Database :
            txn = PutTxn(e, at, db)
      BY <2>4, <3>1, <3>2, DiskOfType, DbOfType DEF PutProgress
    <3> QED BY <3>3 DEF PutTxn, Txn
  <2> QED BY <2>1, <2>2, <2>3, <2>4 DEF Progress
<1> QED BY <1>1, TxnCorrect, PTL
=============================================================================
