------------------------- MODULE RefreshRunsProofs -------------------------
(***************************************************************************)
(* Proofs about RefreshRuns, for any sets of runs, requests, batches,      *)
(* accounts, categories and configurations.                                *)
(*                                                                         *)
(* First what is published: IInv is inductive whatever the first revision, *)
(* so the proofs about migration 0004 use it too.  Then what runs record   *)
(* and remember: committed runs form a chain, staged rows mirror the       *)
(* batches, a recorded run does not change afterwards, a rebuild leaves    *)
(* nothing of the runs before it, and a commit shows what it was given.    *)
(* At the end the two refinements: refresh runs implement the publication  *)
(* store and the configuration versions.                                   *)
(***************************************************************************)
EXTENDS RefreshRuns, ConfigVersionsProofs

-----------------------------------------------------------------------------
(* What the merges and the pruning do to one identity.                     *)

(* A stored item is a well-typed row. *)
LEMMA RowOfType ==
  ASSUME NEW i \in Item, NEW v \in Nat, NEW first \in Run, NEW last \in Run
  PROVE  RowOf(i, v, first, last) \in Row
BY DEF RowOf, Row, Item

(* A stored item is a row, not the absence of one. *)
LEMMA RowIsNotNoTx ==
  ASSUME NEW i \in Item, NEW v \in Nat, NEW first \in Run, NEW last \in Run
  PROVE  RowOf(i, v, first, last) # NoTx
BY RowOfType, RefreshAssumption

(* An item stored at an identity was staged under it. *)
LEMMA StoredItem ==
  ASSUME NEW staged, NEW id, StoredAt(staged, id) # {}
  PROVE  LET i == CHOOSE x \in StoredAt(staged, id) : TRUE
         IN  i \in staged /\ Id(i) = id
BY DEF StoredAt, Stored

(* A rebuild stores staged items only, under the run and its configuration. *)
LEMMA ReplaceAllRows ==
  ASSUME NEW staged \in SUBSET Item, NEW k \in Run, NEW v \in Nat,
         NEW id \in Identity
  PROVE  \/ ReplaceAll(staged, k, v)[id] = NoTx
         \/ \E i \in staged : /\ Id(i) = id
                              /\ ReplaceAll(staged, k, v)[id] = RowOf(i, v, k, k)
<1>1. CASE StoredAt(staged, id) = {}
  BY <1>1 DEF ReplaceAll
<1>2. CASE StoredAt(staged, id) # {}
  <2> DEFINE i == CHOOSE x \in StoredAt(staged, id) : TRUE
  <2>1. i \in staged /\ Id(i) = id
    BY <1>2, StoredItem
  <2>2. ReplaceAll(staged, k, v)[id] = RowOf(i, v, k, k)
    BY <1>2 DEF ReplaceAll
  <2> QED BY <2>1, <2>2
<1> QED BY <1>1, <1>2

(* An incremental merge stores staged items or leaves the row it found. *)
LEMMA MergeRows ==
  ASSUME NEW staged \in SUBSET Item, NEW l \in Ledger, NEW k \in Run,
         NEW v \in Nat, NEW id \in Identity
  PROVE  LET m == MergeIncremental(staged, l, k, v)[id] IN
         \/ m = NoTx
         \/ m = l[id]
         \/ \E i \in staged, first \in Run :
              /\ Id(i) = id
              /\ first = IF l[id] = NoTx THEN k ELSE l[id].first
              /\ m = RowOf(i, v, first, k)
<1> DEFINE m == MergeIncremental(staged, l, k, v)[id]
<1>1. CASE StoredAt(staged, id) = {}
  BY <1>1 DEF MergeIncremental
<1>2. CASE StoredAt(staged, id) # {}
  <2> DEFINE i == CHOOSE x \in StoredAt(staged, id) : TRUE
             first == IF l[id] = NoTx THEN k ELSE l[id].first
  <2>1. i \in staged /\ Id(i) = id
    BY <1>2, StoredItem
  <2>2. first \in Run
    BY DEF Ledger, Row
  <2>3. m = RowOf(i, v, first, k)
    BY <1>2 DEF MergeIncremental
  <2> QED BY <2>1, <2>2, <2>3
<1> QED BY <1>1, <1>2

(* Both merges produce a ledger. *)
LEMMA MergeType ==
  ASSUME NEW staged \in SUBSET Item, NEW l \in Ledger, NEW k \in Run, NEW v \in Nat
  PROVE  /\ ReplaceAll(staged, k, v) \in Ledger
         /\ MergeIncremental(staged, l, k, v) \in Ledger
<1>1. \A id \in Identity : ReplaceAll(staged, k, v)[id] \in Row \union {NoTx}
  BY ReplaceAllRows, RowOfType
<1>2. \A id \in Identity : MergeIncremental(staged, l, k, v)[id] \in Row \union {NoTx}
  BY MergeRows, RowOfType DEF Ledger
<1>3. ReplaceAll(staged, k, v) = [id \in Identity |-> ReplaceAll(staged, k, v)[id]]
  BY DEF ReplaceAll
<1>4. MergeIncremental(staged, l, k, v)
        = [id \in Identity |-> MergeIncremental(staged, l, k, v)[id]]
  BY DEF MergeIncremental
<1> QED BY <1>1, <1>2, <1>3, <1>4 DEF Ledger

(***************************************************************************)
(* Pruning removes rows or narrows their categories to those in window.    *)
(***************************************************************************)
LEMMA PruneRows ==
  ASSUME NEW l \in Ledger, NEW rules, NEW to \in Int, NEW id \in Identity,
         Prune(l, rules, to)[id] # NoTx
  PROVE  LET p == Prune(l, rules, to)[id] IN
         /\ l[id] # NoTx
         /\ p \in Row
         /\ p.date = l[id].date /\ p.pend = l[id].pend
         /\ p.cur = l[id].cur /\ p.cfg = l[id].cfg
         /\ p.first = l[id].first /\ p.last = l[id].last
         /\ p.cats # {} /\ p.cats \subseteq l[id].cats
         /\ \A c \in p.cats : c \in DOMAIN rules => p.date >= Cutoff(rules, c, to)
<1> DEFINE C == CatsInWindow(l[id], rules, to)
<1>1. /\ l[id] # NoTx
      /\ C # {}
      /\ Prune(l, rules, to)[id] = [l[id] EXCEPT !.cats = C]
  BY DEF Prune
<1>2. l[id] \in Row
  BY <1>1 DEF Ledger
<1>3. /\ C \subseteq l[id].cats
      /\ \A c \in C : c \in DOMAIN rules => l[id].date >= Cutoff(rules, c, to)
  BY DEF CatsInWindow
<1> HIDE DEF C
<1> QED BY <1>1, <1>2, <1>3 DEF Row

(* Pruning produces a ledger. *)
LEMMA PruneType ==
  ASSUME NEW l \in Ledger, NEW rules, NEW to \in Int
  PROVE  Prune(l, rules, to) \in Ledger
<1>1. \A id \in Identity : Prune(l, rules, to)[id] \in Row \union {NoTx}
  BY PruneRows
<1>2. Prune(l, rules, to) = [id \in Identity |-> Prune(l, rules, to)[id]]
  BY DEF Prune
<1> QED BY <1>1, <1>2 DEF Ledger

-----------------------------------------------------------------------------
(***************************************************************************)
(* The inductive invariant.  The published ledger is made of staged items  *)
(* that were checked against their run's configuration when they were      *)
(* uploaded, so RunsChecked carries those checks from upload to commit.    *)
(***************************************************************************)
ItemChecked(k, x) ==
    /\ x.acct \in runs[k].request.accounts
    /\ x.cur = CurrencyOf[SemOf(runs[k].cfg)]
    /\ x.cats \subseteq Enabled(SemOf(runs[k].cfg))

RunsChecked ==
    \A k \in Run : Exists(k) =>
        /\ runs[k].cfg \in DOMAIN versions
        /\ \A x \in runs[k].staged : ItemChecked(k, x)

IInv == /\ TypeOK
        /\ ConfigInv
        /\ RunsChecked
        /\ PublishedTogether
        /\ LedgerInScope

(* Configuration versions keep their sources, so the checks stay true. *)
LEMMA RunsStayChecked ==
  ASSUME TypeOK, RunsChecked, UNCHANGED runs,
         \A v \in DOMAIN versions :
           v \in DOMAIN versions' /\ versions'[v].source = versions[v].source
  PROVE  RunsChecked'
<1>1. \A k \in Run : Exists(k)' <=> Exists(k)
  BY DEF Exists
<1> SUFFICES ASSUME NEW k \in Run, Exists(k)
             PROVE  /\ runs[k].cfg \in DOMAIN versions'
                    /\ \A x \in runs[k].staged : ItemChecked(k, x)'
  BY <1>1 DEF RunsChecked
<1>2. /\ runs[k].cfg \in DOMAIN versions
      /\ \A x \in runs[k].staged : ItemChecked(k, x)
  BY DEF RunsChecked
<1>3. versions'[runs[k].cfg].source.sem = SemOf(runs[k].cfg)
  BY <1>2 DEF SemOf
<1> QED BY <1>2, <1>3 DEF ItemChecked, SemOf

(* The invariant holds in an empty database. *)
LEMMA InitIInv == Init => IInv
<1> SUFFICES ASSUME Init PROVE IInv
  OBVIOUS
<1>1. ConfigInv
  BY ConfigInitInv DEF Init
<1>2. \A k \in Run : runs[k] = NoRun
  BY DEF Init
<1>3. \A id \in Identity : live[id] = NoTx
  BY DEF Init
<1>4. sync = NoSync /\ Revision = 0
  BY DEF Init, Revision
<1>5. TypeOK
  BY <1>1 DEF Init, TypeOK, ConfigInv, Ledger
<1> QED
  BY <1>1, <1>2, <1>3, <1>4, <1>5 DEF IInv, RunsChecked, PublishedTogether,
     LedgerInScope, Exists, Committed

(* A configuration edit leaves the ledger and the runs valid. *)
LEMMA EditKeepsIInv ==
  ASSUME IInv, NEW e \in Edit, NEW expected, EditConfig(e, expected)
  PROVE  IInv'
<1>1. /\ PutConfig(e, expected)
      /\ runs' = runs /\ live' = live /\ sync' = sync
  BY DEF EditConfig
<1>2. /\ ConfigInv'
      /\ Active # 0 => Active' = Active
      /\ \A v \in DOMAIN versions :
           v \in DOMAIN versions' /\ versions'[v].source = versions[v].source
  BY <1>1, EditStep DEF IInv
<1>3. TypeOK'
  BY <1>1, <1>2 DEF IInv, TypeOK, ConfigInv
<1>4. RunsChecked'
  BY <1>1, <1>2, RunsStayChecked DEF IInv
<1>5. ASSUME sync # NoSync
      PROVE  Active' = Active /\ SemOf(Active)' = SemOf(Active)
  <2>1. sync \in SyncState /\ sync.cfg = Active
    BY <1>5 DEF IInv, TypeOK, PublishedTogether
  <2>2. Active # 0
    BY <2>1 DEF SyncState
  <2>3. Active \in DOMAIN versions
    BY <2>2, ActiveState DEF IInv, ConfigInv
  <2>4. Active' = Active
    BY <1>2, <2>2
  <2>5. versions'[Active].source.sem = versions[Active].source.sem
    BY <1>2, <2>3
  <2> QED BY <2>4, <2>5 DEF SemOf
<1>6. CASE sync = NoSync
  <2>1. PublishedTogether' /\ LedgerInScope'
    BY <1>1, <1>6 DEF IInv, PublishedTogether, LedgerInScope
  <2> QED BY <1>2, <1>3, <1>4, <2>1 DEF IInv
<1>7. CASE sync # NoSync
  <2>1. PublishedTogether'
    BY <1>1, <1>5, <1>7 DEF IInv, PublishedTogether, Committed, Exists
  <2>2. LedgerInScope'
    BY <1>1, <1>5, <1>7 DEF IInv, LedgerInScope
  <2> QED BY <1>2, <1>3, <1>4, <2>1, <2>2 DEF IInv
<1> QED BY <1>6, <1>7

(***************************************************************************)
(* A step that only touches one run which is not committed, before or      *)
(* after, leaves everything published alone.                               *)
(***************************************************************************)
LEMMA OpenRunStep ==
  ASSUME IInv, NEW k \in Run, NEW r \in RefreshRun,
         r.state # "committed", ~Committed(k),
         runs' = [runs EXCEPT ![k] = r],
         UNCHANGED <<versions, shown, live, sync>>,
         r.cfg \in DOMAIN versions,
         \A x \in r.staged : /\ x.acct \in r.request.accounts
                             /\ x.cur = CurrencyOf[SemOf(r.cfg)]
                             /\ x.cats \subseteq Enabled(SemOf(r.cfg))
  PROVE  IInv'
<1>1. runs \in [Run -> RefreshRun \union {NoRun}]
  BY DEF IInv, TypeOK
<1>2. /\ runs'[k] = r /\ Exists(k)'
      /\ \A j \in Run : j # k => runs'[j] = runs[j]
  BY <1>1, RefreshAssumption DEF Exists
<1>3. \A j \in Run : Committed(j)' <=> Committed(j)
  BY <1>2 DEF Committed, Exists
<1>4. \A j \in Run : Committed(j) => runs'[j] = runs[j]
  BY <1>2
<1>5. ConfigInv' /\ Active' = Active /\ \A v : SemOf(v)' = SemOf(v)
  BY ConfigStutter DEF IInv, configVars, Active, SemOf
<1>6. TypeOK'
  BY <1>1, <1>5 DEF IInv, TypeOK, ConfigInv
<1>7. RunsChecked'
  BY <1>2, <1>5 DEF IInv, RunsChecked, ItemChecked, Exists, SemOf
<1>8. sync # NoSync => runs'[sync.run] = runs[sync.run] /\ sync.run \in Run
  BY <1>4 DEF IInv, TypeOK, SyncState, PublishedTogether
<1>9. PublishedTogether'
  BY <1>3, <1>5, <1>8 DEF IInv, PublishedTogether, TypeOK, SyncState
<1>10. LedgerInScope'
  BY <1>5, <1>8 DEF IInv, LedgerInScope, PublishedTogether
<1> QED BY <1>5, <1>6, <1>7, <1>9, <1>10 DEF IInv

(* The version a run is begun for exists. *)
LEMMA TargetExists ==
  ASSUME ConfigInv, Active # 0, NEW mode
  PROVE  TargetVersion(mode) \in DOMAIN versions /\ TargetVersion(mode) \in Nat \ {0}
<1>1. DOMAIN versions \subseteq Nat \ {0}
  BY DEF ConfigInv, ConfigTypeOK
<1>2. Active \in DOMAIN versions
  BY ActiveState DEF ConfigInv
<1>3. Pending # 0 => Pending \in DOMAIN versions
  BY PendingFact DEF ConfigInv
<1> QED BY <1>1, <1>2, <1>3 DEF TargetVersion

(* begin_refresh keeps the invariant. *)
LEMMA BeginKeepsIInv ==
  ASSUME IInv, NEW k \in Run, NEW q \in Requests, Begin(k, q)
  PROVE  IInv'
<1> DEFINE r == [request |-> q, state |-> "created",
                 cfg |-> TargetVersion(q.mode), before |-> Revision,
                 staged |-> {}, batches |-> [i \in BatchIndex |-> NoBatch]]
<1>1. /\ ~Exists(k) /\ Active # 0
      /\ runs' = [runs EXCEPT ![k] = r]
      /\ UNCHANGED <<versions, shown, live, sync>>
  BY DEF Begin, Beginnable
<1>2. r.cfg \in DOMAIN versions /\ r.cfg \in Nat \ {0}
  BY <1>1, TargetExists DEF IInv
<1>3. Revision \in Nat
  BY DEF Revision, IInv, TypeOK, SyncState
<1>4. r \in RefreshRun
  BY <1>2, <1>3 DEF RefreshRun
<1>5. ~Committed(k) /\ r.state # "committed"
  BY <1>1 DEF Committed
<1>6. r.staged = {}
  OBVIOUS
<1> HIDE DEF r
<1> QED BY <1>1, <1>2, <1>4, <1>5, <1>6, OpenRunStep

(* upload_batch keeps the invariant: what it stages was checked. *)
LEMMA UploadKeepsIInv ==
  ASSUME IInv, NEW k \in Run, NEW i \in BatchIndex, NEW b \in Batches,
         Upload(k, i, b)
  PROVE  IInv'
<1> DEFINE old == runs[k]
           r == [old EXCEPT !.state = "uploaded", !.batches[i] = b,
                            !.staged = @ \union b.items]
<1>1. /\ Exists(k) /\ old.state \in {"created", "uploaded"}
      /\ \A x \in b.items : Uploadable(k, x)
      /\ UNCHANGED <<versions, shown, live, sync>>
  BY DEF Upload
<1>2. old \in RefreshRun
  BY <1>1 DEF IInv, TypeOK, Exists
<1>3. runs' = [runs EXCEPT ![k] = r]
  BY <1>1, <1>2 DEF Upload, RefreshRun, IInv, TypeOK
<1>4. b.items \subseteq Item
  BY RefreshAssumption DEF IsBatch
<1>5. /\ r.request = old.request /\ r.cfg = old.cfg /\ r.before = old.before
      /\ r.state = "uploaded" /\ r.staged = old.staged \union b.items
  BY <1>2 DEF RefreshRun
<1>6. r \in RefreshRun
  BY <1>2, <1>4 DEF RefreshRun
<1>7. /\ old.cfg \in DOMAIN versions
      /\ \A x \in old.staged : ItemChecked(k, x)
  BY <1>1 DEF IInv, RunsChecked
<1>8. \A x \in b.items : ItemChecked(k, x)
  BY <1>1 DEF Uploadable, ItemChecked
<1>9. ~Committed(k)
  BY <1>1 DEF Committed
<1>10. \A x \in r.staged : /\ x.acct \in r.request.accounts
                           /\ x.cur = CurrencyOf[SemOf(r.cfg)]
                           /\ x.cats \subseteq Enabled(SemOf(r.cfg))
  BY <1>5, <1>7, <1>8 DEF ItemChecked
<1> HIDE DEF r
<1> QED BY <1>1, <1>3, <1>5, <1>6, <1>7, <1>9, <1>10, OpenRunStep

-----------------------------------------------------------------------------
(***************************************************************************)
(* The configuration part of a commit: whichever way the run was begun,    *)
(* its configuration is the active one afterwards.  An incremental commit  *)
(* finds it active already.                                                *)
(***************************************************************************)
LEMMA CommitConfig ==
  ASSUME IInv, NEW k \in Run, NEW count, NEW completed, Commit(k, count, completed)
  PROVE  /\ runs[k] \in RefreshRun /\ ~Committed(k)
         /\ ConfigInv'
         /\ Active' = runs[k].cfg
         /\ SemOf(Active)' = SemOf(runs[k].cfg)
         /\ \A v \in DOMAIN versions :
              v \in DOMAIN versions' /\ versions'[v].source = versions[v].source
         /\ runs[k].request.mode = "incremental" => Active = runs[k].cfg
<1> DEFINE r == runs[k]
<1>1. /\ Exists(k)
      /\ r.state = "uploaded" \/ r.state = "created"
      /\ TargetVersion(r.request.mode) = r.cfg
      /\ r.request.mode = "incremental" => Active = r.cfg
  BY DEF Commit, Committable, TargetVersion
<1>2. r \in RefreshRun /\ ~Committed(k)
  BY <1>1 DEF IInv, TypeOK, Exists, Committed
<1>3. r.cfg \in DOMAIN versions /\ r.cfg # 0
  BY <1>1, <1>2 DEF IInv, RunsChecked, RefreshRun
<1>4. /\ ConfigInv'
      /\ Active' = r.cfg
      /\ \A v \in DOMAIN versions :
           v \in DOMAIN versions' /\ versions'[v].source = versions[v].source
  <2>1. ASSUME versions[r.cfg].status = "pending" PROVE <1>4
    <3>1. r.cfg \in WithStatus(versions, "pending")
      BY <1>3, <2>1 DEF WithStatus
    <3>2. r.cfg = Pending
      BY <3>1, PendingFact DEF IInv, ConfigInv
    <3>3. Activate(Pending)
      BY <2>1, <3>2 DEF Commit
    <3> QED BY <1>3, <3>2, <3>3, ActivateStep DEF IInv
  <2>2. ASSUME versions[r.cfg].status # "pending" PROVE <1>4
    <3>1. UNCHANGED configVars
      BY <2>2 DEF Commit
    <3>2. r.cfg # Pending
      BY <1>3, <2>2, PendingFact DEF IInv, ConfigInv
    <3>3. Active = r.cfg
      BY <1>1, <3>2 DEF TargetVersion
    <3>4. ConfigInv'
      BY <3>1, ConfigStutter DEF IInv
    <3> QED BY <3>1, <3>3, <3>4 DEF configVars, Active
  <2> QED BY <2>1, <2>2
<1>5. SemOf(Active)' = SemOf(r.cfg)
  <2>1. versions'[r.cfg].source.sem = versions[r.cfg].source.sem
    BY <1>3, <1>4
  <2> QED BY <1>4, <2>1 DEF SemOf
<1> QED BY <1>1, <1>2, <1>4, <1>5

(***************************************************************************)
(* What the checks of a commit say about the run.                          *)
(***************************************************************************)
LEMMA CommittableRun ==
  ASSUME IInv, NEW k \in Run, NEW count, NEW completed,
         Committable(k, count, completed)
  PROVE  LET r == runs[k] IN
         /\ r \in RefreshRun /\ Exists(k) /\ ~Committed(k)
         /\ r.cfg \in DOMAIN versions /\ r.cfg \in Nat \ {0}
         /\ r.staged \in SUBSET Item /\ r.request.to \in Int
         /\ r.request.mode = "full" \/ r.request.mode = "incremental"
         /\ r.request.mode = "incremental" =>
              Active = r.cfg /\ versions[r.cfg].status = "active"
         /\ TargetVersion(r.request.mode) = r.cfg
         /\ live \in Ledger
<1>1. /\ Exists(k)
      /\ runs[k].state = "uploaded" \/ runs[k].state = "created"
      /\ TargetVersion(runs[k].request.mode) = runs[k].cfg
      /\ runs[k].request.mode = "incremental" =>
           versions[runs[k].cfg].status = "active"
  BY DEF Committable
<1>2. runs[k] \in RefreshRun /\ ~Committed(k) /\ live \in Ledger
  BY <1>1 DEF IInv, TypeOK, Exists, Committed
<1>3. runs[k].cfg \in DOMAIN versions
  BY <1>1 DEF IInv, RunsChecked
<1>4. runs[k].request.mode = "incremental" => Active = runs[k].cfg
  BY <1>1 DEF TargetVersion
<1>5. runs[k].request \in BeginRequest
  BY <1>2, RefreshAssumption DEF RefreshRun
<1> QED BY <1>1, <1>2, <1>3, <1>4, <1>5 DEF RefreshRun, BeginRequest, Mode

(* The ledger that a commit of k leaves. *)
Published(k) == Prune(MergedLedger(k), Rules[SemOf(runs[k].cfg)], runs[k].request.to)

(***************************************************************************)
(* The rows a commit stores: all of the run's configuration and currency,  *)
(* of accounts it covers, in categories and windows that are enabled, and  *)
(* written by the run itself or found by an incremental merge.             *)
(***************************************************************************)
LEMMA PublishedRows ==
  ASSUME IInv, NEW k \in Run, NEW count, NEW completed,
         Committable(k, count, completed),
         NEW id \in Identity, Published(k)[id] # NoTx
  PROVE  LET q == runs[k].request
             s == SemOf(runs[k].cfg)
             new == Published(k)[id]
             old == live[id]
         IN  /\ new.cfg = runs[k].cfg
             /\ new.cur = CurrencyOf[s]
             /\ id[1] \in q.accounts
             /\ new.cats # {}
             /\ \A c \in new.cats :
                  c \in Enabled(s) /\ new.date >= Cutoff(Rules[s], c, q.to)
             /\ \/ new.first = k /\ new.last = k
                \/ /\ q.mode = "incremental" /\ old # NoTx
                   /\ new.first = old.first
                   /\ new.last = k \/ (new.last = old.last /\ old.cfg = Active)
<1> DEFINE r == runs[k]
           q == r.request
           s == SemOf(r.cfg)
           m == MergedLedger(k)
           new == Published(k)[id]
<1>1. /\ r \in RefreshRun
      /\ q.mode = "incremental" => Active = r.cfg
      /\ Exists(k)
  BY CommittableRun
<1>2. /\ r.staged \in SUBSET Item /\ r.cfg \in Nat /\ q.to \in Int
      /\ q.mode = "full" \/ q.mode = "incremental"
      /\ live \in Ledger
  BY CommittableRun
<1>3. m \in Ledger
  BY <1>2, MergeType DEF MergedLedger
<1>4. new = Prune(m, Rules[s], q.to)[id]
  BY DEF Published
<1>5. \A x \in r.staged : ItemChecked(k, x)
  BY <1>1 DEF IInv, RunsChecked
<1>6. /\ m[id] # NoTx
      /\ new.date = m[id].date /\ new.cur = m[id].cur
      /\ new.cfg = m[id].cfg
      /\ new.first = m[id].first /\ new.last = m[id].last
      /\ new.cats # {} /\ new.cats \subseteq m[id].cats
      /\ \A c \in new.cats :
           c \in DOMAIN Rules[s] => new.date >= Cutoff(Rules[s], c, q.to)
  BY <1>2, <1>3, <1>4, PruneRows
<1> HIDE DEF new
<1>7. /\ m[id].cfg = r.cfg
      /\ m[id].cur = CurrencyOf[s]
      /\ id[1] \in q.accounts
      /\ m[id].cats \subseteq Enabled(s)
      /\ \/ m[id].first = k /\ m[id].last = k
         \/ /\ q.mode = "incremental" /\ live[id] # NoTx
            /\ m[id].first = live[id].first
            /\ m[id].last = k \/ (m[id].last = live[id].last /\ live[id].cfg = Active)
  <2>1. ASSUME NEW x \in r.staged, Id(x) = id, NEW first \in Run,
               m[id] = RowOf(x, r.cfg, first, k),
               \/ first = k
               \/ q.mode = "incremental" /\ live[id] # NoTx /\ first = live[id].first
        PROVE  <1>7
    BY <1>5, <2>1 DEF RowOf, ItemChecked, Id
  <2>2. CASE q.mode = "full"
    BY <1>2, <1>6, <2>1, <2>2, ReplaceAllRows DEF MergedLedger
  <2>3. CASE q.mode = "incremental" /\ m[id] = live[id]
    <3>1. SameScope(q.accounts)
      BY <2>3 DEF Committable
    <3>2. /\ sync # NoSync
          /\ runs[sync.run].request.accounts = q.accounts
      BY <3>1 DEF SameScope
    <3>3. /\ live[id].cfg = Active /\ live[id].cur = CurrencyOf[SemOf(Active)]
      BY <1>6, <2>3, <3>2 DEF IInv, PublishedTogether
    <3>4. /\ id[1] \in runs[sync.run].request.accounts
          /\ live[id].cats \subseteq Enabled(SemOf(Active))
      BY <1>6, <2>3 DEF IInv, LedgerInScope
    <3> QED BY <1>1, <1>6, <2>3, <3>2, <3>3, <3>4
  <2>4. CASE q.mode = "incremental" /\ m[id] # live[id]
    <3>1. m = MergeIncremental(r.staged, live, k, r.cfg)
      BY <2>4 DEF MergedLedger
    <3>2. PICK x \in r.staged, first \in Run :
            /\ Id(x) = id
            /\ first = IF live[id] = NoTx THEN k ELSE live[id].first
            /\ m[id] = RowOf(x, r.cfg, first, k)
      BY <1>2, <1>6, <2>4, <3>1, MergeRows
    <3> QED BY <2>1, <2>4, <3>2
  <2> QED BY <1>2, <2>2, <2>3, <2>4
<1>8. Enabled(s) \subseteq DOMAIN Rules[s]
  BY DEF Enabled, Cats
<1> QED BY <1>6, <1>7, <1>8 DEF new

(* The same of the ledger after a commit. *)
LEMMA CommitRows ==
  ASSUME IInv, NEW k \in Run, NEW count, NEW completed, Commit(k, count, completed),
         NEW id \in Identity, live'[id] # NoTx
  PROVE  LET q == runs[k].request
             s == SemOf(runs[k].cfg)
         IN  /\ live'[id].cfg = runs[k].cfg
             /\ live'[id].cur = CurrencyOf[s]
             /\ id[1] \in q.accounts
             /\ live'[id].cats # {}
             /\ \A c \in live'[id].cats :
                  c \in Enabled(s) /\ live'[id].date >= Cutoff(Rules[s], c, q.to)
<1>1. Committable(k, count, completed) /\ live' = Published(k)
  BY DEF Commit, Published
<1> QED BY <1>1, PublishedRows

(* commit_refresh keeps the invariant. *)
LEMMA CommitKeepsIInv ==
  ASSUME IInv, NEW k \in Run, NEW count, NEW completed, Commit(k, count, completed)
  PROVE  IInv'
<1> DEFINE r == runs[k]
           new == [r EXCEPT !.state = "committed", !.staged = {}]
           state == [cfg |-> r.cfg, run |-> k, rev |-> Revision + 1]
<1>1. /\ r \in RefreshRun /\ ~Committed(k)
      /\ ConfigInv'
      /\ Active' = r.cfg
      /\ SemOf(Active)' = SemOf(r.cfg)
      /\ \A v \in DOMAIN versions :
           v \in DOMAIN versions' /\ versions'[v].source = versions[v].source
  BY CommitConfig
<1>2. /\ Exists(k) /\ r.before = Revision
      /\ live' = Prune(MergedLedger(k), Rules[SemOf(r.cfg)], r.request.to)
      /\ sync' = state
  BY DEF Commit, Committable
<1>3. /\ new \in RefreshRun
      /\ new.state = "committed" /\ new.staged = {}
      /\ new.cfg = r.cfg /\ new.request = r.request /\ new.before = r.before
  BY <1>1 DEF RefreshRun
<1>4. runs' = [runs EXCEPT ![k] = new]
  BY <1>1 DEF Commit, IInv, TypeOK, RefreshRun
<1> HIDE DEF new
<1>5. /\ runs'[k] = new
      /\ \A j \in Run : j # k => runs'[j] = runs[j]
  BY <1>4 DEF IInv, TypeOK
<1>6. Committed(k)' /\ \A j \in Run : j # k => (Committed(j)' <=> Committed(j))
  BY <1>3, <1>5, RefreshAssumption DEF Committed, Exists
<1>7. Revision \in Nat
  BY DEF Revision, IInv, TypeOK, SyncState
<1>8. /\ state \in SyncState /\ sync' # NoSync
      /\ Revision' = Revision + 1
      /\ sync'.run = k /\ sync'.cfg = r.cfg
  BY <1>1, <1>2, <1>7, RefreshAssumption DEF SyncState, RefreshRun, Revision
<1>9. TypeOK'
  <2>1. live' \in Ledger
    <3>1. r.staged \in SUBSET Item /\ r.cfg \in Nat /\ r.request.to \in Int
      BY <1>1, RefreshAssumption DEF RefreshRun, BeginRequest
    <3>2. MergedLedger(k) \in Ledger
      BY <3>1, MergeType DEF MergedLedger, IInv, TypeOK
    <3> QED BY <1>2, <3>1, <3>2, PruneType
  <2>2. runs' \in [Run -> RefreshRun \union {NoRun}]
    BY <1>3, <1>4 DEF IInv, TypeOK
  <2> QED BY <1>1, <1>2, <1>8, <2>1, <2>2 DEF TypeOK, ConfigInv
<1>10. RunsChecked'
  <2>1. ASSUME NEW j \in Run, Exists(j)'
        PROVE  /\ runs'[j].cfg \in DOMAIN versions'
               /\ \A x \in runs'[j].staged : ItemChecked(j, x)'
    <3>1. CASE j = k
      <4>1. r.cfg \in DOMAIN versions'
        BY <1>1, <1>2 DEF IInv, RunsChecked
      <4> QED BY <1>3, <1>5, <3>1, <4>1
    <3>2. CASE j # k
      <4>1. /\ runs[j].cfg \in DOMAIN versions
            /\ \A x \in runs[j].staged : ItemChecked(j, x)
        BY <1>5, <2>1, <3>2 DEF IInv, RunsChecked, Exists
      <4>2. versions'[runs[j].cfg].source.sem = SemOf(runs[j].cfg)
        BY <1>1, <4>1 DEF SemOf
      <4> QED BY <1>1, <1>5, <3>2, <4>1, <4>2 DEF ItemChecked, SemOf
    <3> QED BY <3>1, <3>2
  <2> QED BY <2>1 DEF RunsChecked
<1>11. PublishedTogether'
  <2>1. \A id \in Identity : live'[id] # NoTx =>
          /\ live'[id].cfg = r.cfg
          /\ live'[id].cur = CurrencyOf[SemOf(r.cfg)]
    BY CommitRows
  <2>2. Committed(sync.run)' /\ runs'[sync'.run].cfg = Active'
    BY <1>1, <1>3, <1>5, <1>6, <1>8
  <2>3. sync' # NoSync /\ sync'.cfg = Active'
    BY <1>1, <1>8
  <2> QED BY <1>1, <2>1, <2>2, <2>3 DEF PublishedTogether
<1>12. LedgerInScope'
  BY <1>1, <1>2, <1>3, <1>5, <1>8, CommitRows DEF LedgerInScope
<1> QED BY <1>1, <1>9, <1>10, <1>11, <1>12 DEF IInv

(* A step that changes nothing keeps the invariant. *)
LEMMA StutterKeepsIInv ==
  ASSUME IInv, UNCHANGED vars
  PROVE  IInv'
<1>1. ConfigInv'
  BY ConfigStutter DEF IInv, vars, configVars
<1> QED
  BY <1>1 DEF IInv, vars, TypeOK, ConfigInv, RunsChecked, ItemChecked,
     PublishedTogether, LedgerInScope, Committed, Exists, Active, SemOf

(* Every step of the service preserves the invariant. *)
LEMMA StepKeepsIInv ==
  ASSUME IInv, [Next]_vars
  PROVE  IInv'
<1>1. ASSUME NEW e \in Edit, NEW expected \in Edit \union {NoBase},
             EditConfig(e, expected)
      PROVE  IInv'
  BY <1>1, EditKeepsIInv
<1>2. ASSUME NEW k \in Run, NEW q \in Requests, Begin(k, q) PROVE IInv'
  BY <1>2, BeginKeepsIInv
<1>3. ASSUME NEW k \in Run, NEW i \in BatchIndex, NEW b \in Batches, Upload(k, i, b)
      PROVE  IInv'
  BY <1>3, UploadKeepsIInv
<1>4. ASSUME NEW k \in Run, NEW count, NEW completed, Commit(k, count, completed)
      PROVE  IInv'
  BY <1>4, CommitKeepsIInv
<1>5. CASE UNCHANGED vars
  BY <1>5, StutterKeepsIInv
<1> QED BY <1>1, <1>2, <1>3, <1>4, <1>5 DEF Next

(***************************************************************************)
(* The invariant holds in every reachable state.                           *)
(***************************************************************************)
THEOREM Correct == Spec => []IInv
<1>1. IInv /\ [Next]_vars => IInv'
  BY StepKeepsIInv
<1> QED BY <1>1, InitIInv, PTL DEF Spec

(* Every reachable state has the stated types. *)
THEOREM TypeCorrect == Spec => []TypeOK
<1>1. IInv => TypeOK
  BY DEF IInv
<1> QED BY <1>1, Correct, PTL

(***************************************************************************)
(* The sync state, the ledger and the active configuration always belong   *)
(* together: what commit_refresh publishes in one transaction is never     *)
(* seen mixed with what another run or an edit published.                  *)
(***************************************************************************)
THEOREM PublicationIsAtomic == Spec => []PublishedTogether
<1>1. IInv => PublishedTogether
  BY DEF IInv
<1> QED BY <1>1, Correct, PTL

(***************************************************************************)
(* The ledger never holds an account, a category or a day that the last    *)
(* committed run and the active configuration do not cover.                *)
(***************************************************************************)
THEOREM LedgerStaysInScope == Spec => []LedgerInScope
<1>1. IInv => LedgerInScope
  BY DEF IInv
<1> QED BY <1>1, Correct, PTL

-----------------------------------------------------------------------------
(***************************************************************************)
(* What each operation does to the run it is called for.                   *)
(***************************************************************************)
LEMMA BegunRun ==
  ASSUME IInv, NEW k \in Run, NEW q \in Requests, Begin(k, q)
  PROVE  /\ ~Exists(k)
         /\ runs'[k] \in RefreshRun /\ runs'[k] # NoRun
         /\ runs'[k].state = "created" /\ runs'[k].staged = {}
         /\ \A i \in BatchIndex : runs'[k].batches[i] = NoBatch
         /\ \A j \in Run : j # k => runs'[j] = runs[j]
<1> DEFINE r == [request |-> q, state |-> "created",
                 cfg |-> TargetVersion(q.mode), before |-> Revision,
                 staged |-> {}, batches |-> [i \in BatchIndex |-> NoBatch]]
<1>1. ~Exists(k) /\ runs' = [runs EXCEPT ![k] = r]
  BY DEF Begin, Beginnable
<1>2. Active # 0 /\ ConfigInv
  BY DEF Begin, Beginnable, IInv
<1>3. TargetVersion(q.mode) \in Nat \ {0}
  BY <1>2, TargetExists
<1>4. Revision \in Nat
  BY DEF Revision, IInv, TypeOK, SyncState
<1>5. r \in RefreshRun
  BY <1>3, <1>4 DEF RefreshRun
<1>6. r.state = "created" /\ r.staged = {} /\ \A i \in BatchIndex : r.batches[i] = NoBatch
  OBVIOUS
<1> HIDE DEF r
<1> QED BY <1>1, <1>5, <1>6, RefreshAssumption DEF IInv, TypeOK

(* An accepted batch is recorded and staged, nothing else changes. *)
LEMMA UploadedRun ==
  ASSUME IInv, NEW k \in Run, NEW i \in BatchIndex, NEW b \in Batches,
         Upload(k, i, b)
  PROVE  /\ Exists(k) /\ ~Committed(k) /\ runs[k] \in RefreshRun
         /\ runs[k].batches[i] = NoBatch
         /\ runs'[k] \in RefreshRun /\ runs'[k] # NoRun
         /\ runs'[k].state = "uploaded"
         /\ runs'[k].request = runs[k].request
         /\ runs'[k].cfg = runs[k].cfg /\ runs'[k].before = runs[k].before
         /\ runs'[k].staged = runs[k].staged \union b.items
         /\ runs'[k].batches = [runs[k].batches EXCEPT ![i] = b]
         /\ \A j \in Run : j # k => runs'[j] = runs[j]
<1>1. /\ Exists(k) /\ runs[k].state \in {"created", "uploaded"}
      /\ runs[k].batches[i] = NoBatch
  BY DEF Upload
<1>2. runs[k] \in RefreshRun
  BY <1>1 DEF IInv, TypeOK, Exists
<1>3. b.items \subseteq Item
  BY RefreshAssumption DEF IsBatch
<1>4. /\ runs'[k] \in RefreshRun /\ runs'[k].state = "uploaded"
      /\ runs'[k].request = runs[k].request
      /\ runs'[k].cfg = runs[k].cfg /\ runs'[k].before = runs[k].before
      /\ runs'[k].staged = runs[k].staged \union b.items
      /\ runs'[k].batches = [runs[k].batches EXCEPT ![i] = b]
      /\ \A j \in Run : j # k => runs'[j] = runs[j]
  BY <1>2, <1>3 DEF Upload, RefreshRun, IInv, TypeOK
<1> QED BY <1>1, <1>2, <1>4, RefreshAssumption DEF Committed

(* A commit closes the run: its request and its batches stay. *)
LEMMA CommittedRun ==
  ASSUME IInv, NEW k \in Run, NEW count, NEW completed, Commit(k, count, completed)
  PROVE  /\ Exists(k) /\ ~Committed(k) /\ runs[k] \in RefreshRun
         /\ runs[k].before = Revision
         /\ runs'[k] \in RefreshRun /\ runs'[k] # NoRun
         /\ runs'[k].state = "committed" /\ runs'[k].staged = {}
         /\ runs'[k].request = runs[k].request
         /\ runs'[k].cfg = runs[k].cfg /\ runs'[k].before = runs[k].before
         /\ runs'[k].batches = runs[k].batches
         /\ \A j \in Run : j # k => runs'[j] = runs[j]
<1>1. runs[k] \in RefreshRun /\ ~Committed(k)
  BY CommitConfig
<1>2. Exists(k) /\ runs[k].before = Revision
  BY DEF Commit, Committable
<1>3. /\ runs'[k] \in RefreshRun
      /\ runs'[k].state = "committed" /\ runs'[k].staged = {}
      /\ runs'[k].request = runs[k].request
      /\ runs'[k].cfg = runs[k].cfg /\ runs'[k].before = runs[k].before
      /\ runs'[k].batches = runs[k].batches
      /\ \A j \in Run : j # k => runs'[j] = runs[j]
  BY <1>1 DEF Commit, RefreshRun, IInv, TypeOK
<1> QED BY <1>1, <1>2, <1>3, RefreshAssumption

-----------------------------------------------------------------------------
(* A step that leaves the sync state and every committed run alone leaves  *)
(* the chain alone.                                                        *)
LEMMA SameChain ==
  ASSUME CommitChain, sync' = sync,
         \A j \in Run : Committed(j)' <=> Committed(j),
         \A j \in Run : Committed(j) => runs'[j] = runs[j],
         sync # NoSync => sync.run \in Run /\ Committed(sync.run)
  PROVE  CommitChain'
<1>1. Revision' = Revision
  BY DEF Revision
<1> QED BY <1>1 DEF CommitChain

(* A commit extends the chain by the revision it found. *)
LEMMA CommitExtendsChain ==
  ASSUME IInv, CommitChain,
         NEW k \in Run, NEW count, NEW completed, Commit(k, count, completed)
  PROVE  CommitChain'
<1>1. /\ ~Committed(k) /\ Committed(k)' /\ runs'[k].before = Revision
      /\ \A j \in Run : j # k => runs'[j] = runs[j] /\ (Committed(j)' <=> Committed(j))
  BY CommittedRun DEF Committed, Exists
<1>2. Revision \in Nat
  BY DEF Revision, IInv, TypeOK, SyncState
<1>3. /\ sync' = [cfg |-> runs[k].cfg, run |-> k, rev |-> Revision + 1]
      /\ runs[k] \in RefreshRun
  BY CommittedRun DEF Commit
<1>4. sync'.run = k /\ Revision' = Revision + 1
  <2>1. sync' \in SyncState
    BY <1>2, <1>3 DEF SyncState, RefreshRun
  <2> QED BY <1>3, <2>1, RefreshAssumption DEF Revision
<1>5. \A j \in Run : Committed(j) => j # k /\ runs[j].before < Revision
                                  /\ runs[j].before \in Nat
  BY <1>1 DEF IInv, TypeOK, CommitChain, Committed, Exists, RefreshRun
<1>6. \A j \in Run : Committed(j)' => runs'[j].before < Revision'
  BY <1>1, <1>2, <1>4, <1>5
<1>7. ASSUME NEW i \in Run, NEW j \in Run, Committed(i)', Committed(j)',
             runs'[i].before = runs'[j].before
      PROVE  i = j
  BY <1>1, <1>2, <1>5, <1>7 DEF CommitChain
<1>8. ASSUME NEW n \in 0 .. Revision
      PROVE  \E j \in Run : Committed(j)' /\ runs'[j].before = n
  <2>1. CASE n = Revision
    BY <1>1, <2>1
  <2>2. CASE n # Revision
    <3>1. n \in 0 .. (Revision - 1)
      BY <1>2, <2>2
    <3>2. PICK j \in Run : Committed(j) /\ runs[j].before = n
      BY <3>1 DEF CommitChain
    <3> QED BY <1>1, <1>5, <3>2
  <2> QED BY <2>1, <2>2
<1> QED BY <1>1, <1>2, <1>4, <1>6, <1>7, <1>8 DEF CommitChain

(***************************************************************************)
(* No lost update: committed runs form one chain, each begun after its     *)
(* predecessor's commit (the sync_revision_before check of                 *)
(* commit_refresh).                                                        *)
(***************************************************************************)
THEOREM NoLostUpdate == Spec => []CommitChain
<1>1. Init => CommitChain
  BY DEF Init, CommitChain, Committed, Exists, Revision
<1>2. IInv /\ CommitChain /\ [Next]_vars => CommitChain'
  <2> SUFFICES ASSUME IInv, CommitChain, [Next]_vars PROVE CommitChain'
    OBVIOUS
  <2> DEFINE Same == /\ sync' = sync
                     /\ \A j \in Run : Committed(j)' <=> Committed(j)
                     /\ \A j \in Run : Committed(j) => runs'[j] = runs[j]
  <2>1. ASSUME Same PROVE CommitChain'
    BY <2>1, SameChain DEF IInv, TypeOK, SyncState, PublishedTogether
  <2>2. ASSUME NEW e, NEW expected, EditConfig(e, expected) PROVE Same
    BY <2>2 DEF EditConfig, Committed, Exists
  <2>3. ASSUME NEW k \in Run, NEW q \in Requests, Begin(k, q) PROVE Same
    <3>1. sync' = sync /\ ~Committed(k)
      BY <2>3 DEF Begin, Beginnable, Committed
    <3> QED BY <2>3, <3>1, BegunRun DEF Committed, Exists
  <2>4. ASSUME NEW k \in Run, NEW i \in BatchIndex, NEW b \in Batches, Upload(k, i, b)
        PROVE  Same
    <3>1. sync' = sync
      BY <2>4 DEF Upload
    <3> QED BY <2>4, <3>1, UploadedRun DEF Committed, Exists
  <2>5. ASSUME UNCHANGED vars PROVE Same
    BY <2>5 DEF vars, Committed, Exists
  <2> HIDE DEF Same
  <2> QED BY <2>1, <2>2, <2>3, <2>4, <2>5, CommitExtendsChain DEF Next
<1> QED BY <1>1, <1>2, Correct, PTL DEF Spec

-----------------------------------------------------------------------------
HistoryOf(k) ==
    Exists(k) =>
         /\ Exists(k)'
         /\ runs'[k].request = runs[k].request
         /\ runs'[k].cfg = runs[k].cfg
         /\ runs'[k].before = runs[k].before
         /\ \A i \in Received(k) : runs'[k].batches[i] = runs[k].batches[i]
         /\ Committed(k) => runs'[k] = runs[k]

(* A step keeps what a run has on record. *)
LEMMA RecordStep ==
  ASSUME IInv, Next, NEW k \in Run
  PROVE  HistoryOf(k)
<1>1. ASSUME runs'[k] = runs[k] PROVE HistoryOf(k)
  BY <1>1 DEF HistoryOf, Exists, Committed
<1>2. ASSUME NEW e, NEW expected, EditConfig(e, expected) PROVE HistoryOf(k)
  BY <1>1, <1>2 DEF EditConfig
<1>3. ASSUME NEW j \in Run, NEW q \in Requests, Begin(j, q) PROVE HistoryOf(k)
  BY <1>1, <1>3, BegunRun DEF HistoryOf
<1>4. ASSUME NEW j \in Run, NEW i \in BatchIndex, NEW b \in Batches,
             Upload(j, i, b)
      PROVE  HistoryOf(k)
  <2>1. CASE j = k
    <3>1. runs[k].batches \in [BatchIndex -> Batches \union {NoBatch}]
      BY <1>4, <2>1, UploadedRun DEF RefreshRun
    <3>2. /\ runs'[k].batches = [runs[k].batches EXCEPT ![i] = b]
          /\ runs[k].batches[i] = NoBatch
      BY <1>4, <2>1, UploadedRun
    <3>3. \A n \in Received(k) : n \in BatchIndex /\ n # i
      BY <3>2 DEF Received
    <3>4. \A n \in Received(k) : runs'[k].batches[n] = runs[k].batches[n]
      BY <3>1, <3>2, <3>3
    <3> QED BY <1>4, <2>1, <3>4, UploadedRun DEF HistoryOf, Exists
  <2>2. CASE j # k
    BY <1>1, <1>4, <2>2, UploadedRun
  <2> QED BY <2>1, <2>2
<1>5. ASSUME NEW j \in Run, NEW count, NEW completed, Commit(j, count, completed)
      PROVE  HistoryOf(k)
  <2>1. CASE j = k
    BY <1>5, <2>1, CommittedRun DEF HistoryOf, Exists
  <2>2. CASE j # k
    BY <1>1, <1>5, <2>2, CommittedRun
  <2> QED BY <2>1, <2>2
<1> QED BY <1>2, <1>3, <1>4, <1>5 DEF Next

(***************************************************************************)
(* The answers to begin, upload and commit stay true: the run keeps its    *)
(* request, configuration and base, recorded batches keep their content,   *)
(* and a committed run is final, so a repeated request gets the same       *)
(* answer.                                                                 *)
(***************************************************************************)
THEOREM AnswersStayTrue == Spec => RunHistoryIsStable
<1>1. IInv /\ [Next]_vars => [\A k \in Run : HistoryOf(k)]_vars
  <2> SUFFICES ASSUME IInv, Next, NEW k \in Run PROVE HistoryOf(k)
    OBVIOUS
  <2> QED BY RecordStep
<1>2. Spec => [][\A k \in Run : HistoryOf(k)]_vars
  BY <1>1, Correct, PTL DEF Spec
<1> QED BY <1>2 DEF RunHistoryIsStable, HistoryOf

-----------------------------------------------------------------------------
StagingOf(k) ==
    Exists(k) =>
        IF Committed(k)
        THEN /\ runs[k].staged = {}
             /\ \A i \in Received(k) : \A j \in 0 .. i : j \in Received(k)
        ELSE /\ runs[k].staged = UNION {runs[k].batches[i].items : i \in Received(k)}
             /\ \A x, y \in runs[k].staged : Id(x) = Id(y) => x = y
             /\ runs[k].state = "created" <=> Received(k) = {}

(* An upload stages exactly its batch, under identities not staged before. *)
LEMMA UploadStaging ==
  ASSUME IInv, NEW k \in Run, NEW i \in BatchIndex, NEW b \in Batches,
         Upload(k, i, b), StagingOf(k)
  PROVE  StagingOf(k)'
<1>1. /\ Exists(k) /\ ~Committed(k) /\ runs[k] \in RefreshRun
      /\ runs[k].batches[i] = NoBatch
      /\ runs'[k] # NoRun /\ runs'[k].state = "uploaded"
      /\ runs'[k].staged = runs[k].staged \union b.items
      /\ runs'[k].batches = [runs[k].batches EXCEPT ![i] = b]
  BY UploadedRun
<1>2. runs[k].batches \in [BatchIndex -> Batches \union {NoBatch}] /\ b # NoBatch
  BY <1>1, RefreshAssumption DEF RefreshRun
<1>3. Received(k)' = Received(k) \union {i} /\ i \notin Received(k)
  BY <1>1, <1>2 DEF Received
<1>4. /\ runs'[k].batches[i] = b
      /\ \A j \in Received(k) : runs'[k].batches[j] = runs[k].batches[j]
  BY <1>1, <1>2 DEF Received
<1>5. /\ \A x, y \in b.items : Id(x) = Id(y) => x = y
      /\ \A x \in b.items, y \in runs[k].staged : Id(y) # Id(x)
  BY DEF Upload, Uploadable
<1>6. /\ runs[k].staged = UNION {runs[k].batches[j].items : j \in Received(k)}
      /\ \A x, y \in runs[k].staged : Id(x) = Id(y) => x = y
  BY <1>1 DEF StagingOf
<1>7. runs'[k].staged = UNION {runs'[k].batches[j].items : j \in Received(k)'}
  BY <1>1, <1>3, <1>4, <1>6
<1>8. \A x, y \in runs'[k].staged : Id(x) = Id(y) => x = y
  BY <1>1, <1>5, <1>6
<1>9. ~Committed(k)'
  BY <1>1 DEF Committed
<1> QED BY <1>1, <1>3, <1>7, <1>8, <1>9 DEF StagingOf

(* The batches of a run that may commit are 0 .. n - 1. *)
LEMMA CommitStaging ==
  ASSUME IInv, NEW k \in Run, NEW count \in Nat, NEW completed,
         Commit(k, count, completed)
  PROVE  StagingOf(k)'
<1>1. /\ runs'[k] # NoRun
      /\ runs'[k].state = "committed" /\ runs'[k].staged = {}
      /\ runs'[k].batches = runs[k].batches
  BY CommittedRun
<1>2. Received(k) = 0 .. (count - 1)
  BY DEF Commit, Committable
<1>3. Received(k)' = 0 .. (count - 1)
  BY <1>1, <1>2 DEF Received
<1>4. \A i \in Received(k)' : \A j \in 0 .. i : j \in Received(k)'
  BY <1>3
<1> QED BY <1>1, <1>4 DEF StagingOf, Committed, Exists

(***************************************************************************)
(* Staging never drifts from the recorded batches, so that what a client   *)
(* was told is uploaded is what its commit publishes (upload_batch, and    *)
(* the missing_batch check of commit_refresh).                             *)
(***************************************************************************)
THEOREM StagingIsExact == Spec => []StagingMatchesBatches
<1> DEFINE Staging == \A k \in Run : StagingOf(k)
<1>1. Init => Staging
  BY DEF Init, StagingOf, Exists
<1>2. IInv /\ Staging /\ [Next]_vars => Staging'
  <2> SUFFICES ASSUME IInv, Staging, [Next]_vars, NEW k \in Run
               PROVE  StagingOf(k)'
    OBVIOUS
  <2>1. ASSUME runs'[k] = runs[k] PROVE StagingOf(k)'
    BY <2>1 DEF StagingOf, Exists, Committed, Received
  <2>2. ASSUME NEW e, NEW expected, EditConfig(e, expected) PROVE StagingOf(k)'
    BY <2>1, <2>2 DEF EditConfig
  <2>3. ASSUME NEW j \in Run, NEW q \in Requests, Begin(j, q) PROVE StagingOf(k)'
    <3>1. CASE j = k
      <4>1. Received(k)' = {} /\ ~Committed(k)'
        BY <2>3, <3>1, BegunRun DEF Received, Committed
      <4> QED BY <2>3, <3>1, <4>1, BegunRun DEF StagingOf
    <3>2. CASE j # k
      BY <2>1, <2>3, <3>2, BegunRun
    <3> QED BY <3>1, <3>2
  <2>4. ASSUME NEW j \in Run, NEW i \in BatchIndex, NEW b \in Batches,
               Upload(j, i, b)
        PROVE  StagingOf(k)'
    BY <2>1, <2>4, UploadStaging, UploadedRun
  <2>5. ASSUME NEW j \in Run, NEW count \in 0 .. MaxBatches, NEW completed,
               Commit(j, count, completed)
        PROVE  StagingOf(k)'
    BY <2>1, <2>5, CommitStaging, CommittedRun
  <2>6. CASE UNCHANGED vars
    BY <2>1, <2>6 DEF vars
  <2> QED BY <2>2, <2>3, <2>4, <2>5, <2>6 DEF Next
<1>3. Staging <=> StagingMatchesBatches
  BY DEF StagingOf, StagingMatchesBatches
<1> QED BY <1>1, <1>2, <1>3, Correct, PTL DEF Spec

-----------------------------------------------------------------------------
(***************************************************************************)
(* Where the rows of a commit come from: the run itself, or the row the    *)
(* incremental merge found, whose first run is kept.                       *)
(***************************************************************************)
LEMMA CommitProvenance ==
  ASSUME IInv, NEW k \in Run, NEW count, NEW completed, Commit(k, count, completed),
         NEW id \in Identity, live'[id] # NoTx
  PROVE  LET old == live[id] new == live'[id] IN
         /\ \/ new.first = k /\ new.last = k
            \/ /\ runs[k].request.mode = "incremental" /\ old # NoTx
               /\ new.first = old.first
               /\ new.last = k \/ new.last = old.last
<1>1. Committable(k, count, completed) /\ live' = Published(k)
  BY DEF Commit, Published
<1> QED BY <1>1, PublishedRows

(***************************************************************************)
(* A FULL_REBUILD is clean: nothing a run before it wrote survives it, and *)
(* provenance (first and last refresh run of a row) stays ordered.         *)
(***************************************************************************)
THEOREM RebuildsAreClean == Spec => []RebuildIsClean
<1>1. Init => RebuildIsClean
  BY DEF Init, RebuildIsClean
<1>2. IInv /\ CommitChain /\ RebuildIsClean /\ [Next]_vars => RebuildIsClean'
  <2> SUFFICES ASSUME IInv, CommitChain, RebuildIsClean, [Next]_vars PROVE RebuildIsClean'
    OBVIOUS
  <2> DEFINE Same == /\ live' = live
                     /\ \A j \in Run : Committed(j)' <=> Committed(j)
                     /\ \A j \in Run : Committed(j) => runs'[j] = runs[j]
  <2>1. ASSUME Same PROVE RebuildIsClean'
    <3>1. \A id \in Identity :
            live[id] # NoTx => live[id].first \in Run /\ live[id].last \in Run
      BY DEF IInv, TypeOK, Ledger, Row
    <3> QED BY <2>1, <3>1 DEF RebuildIsClean
  <2>2. ASSUME NEW e, NEW expected, EditConfig(e, expected) PROVE Same
    BY <2>2 DEF EditConfig, Committed, Exists
  <2>3. ASSUME NEW k \in Run, NEW q \in Requests, Begin(k, q) PROVE Same
    <3>1. live' = live /\ ~Committed(k)
      BY <2>3 DEF Begin, Beginnable, Committed
    <3> QED BY <2>3, <3>1, BegunRun DEF Committed, Exists
  <2>4. ASSUME NEW k \in Run, NEW i \in BatchIndex, NEW b \in Batches,
               Upload(k, i, b)
        PROVE  Same
    <3>1. live' = live
      BY <2>4 DEF Upload
    <3> QED BY <2>4, <3>1, UploadedRun DEF Committed, Exists
  <2>5. ASSUME NEW k \in Run, NEW count, NEW completed, Commit(k, count, completed)
        PROVE  RebuildIsClean'
    <3>1. /\ ~Committed(k) /\ Committed(k)'
          /\ runs[k].before = Revision
          /\ runs'[k].before = Revision
          /\ runs'[k].request = runs[k].request
          /\ \A j \in Run : j # k => runs'[j] = runs[j] /\ (Committed(j)' <=> Committed(j))
      BY <2>5, CommittedRun DEF Committed, Exists
    <3>2. Revision \in Nat
      BY DEF Revision, IInv, TypeOK, SyncState
    <3>3. \A j \in Run : Committed(j) => runs[j].before < Revision /\ runs[j].before \in Nat
      BY DEF IInv, CommitChain, TypeOK, Committed, Exists, RefreshRun
    <3>4. \A j \in Run : Committed(j)' => runs'[j].before <= Revision /\ runs'[j].before \in Nat
      BY <3>1, <3>2, <3>3
    <3>5. ASSUME NEW id \in Identity, live'[id] # NoTx
          PROVE  \E f \in Run, l \in Run :
                   /\ live'[id].first = f /\ live'[id].last = l
                   /\ Committed(f)' /\ Committed(l)'
                   /\ runs'[f].before <= runs'[l].before
                   /\ \A j \in Run : Committed(j)' /\ runs'[j].request.mode = "full" =>
                        runs'[f].before >= runs'[j].before
      <4>1. CASE live'[id].first = k /\ live'[id].last = k
        BY <3>1, <3>2, <3>4, <4>1
      <4>2. CASE /\ runs[k].request.mode = "incremental" /\ live[id] # NoTx
                 /\ live'[id].first = live[id].first
                 /\ live'[id].last = k \/ live'[id].last = live[id].last
        <5>1. PICK f \in Run, l \in Run : live[id].first = f /\ live[id].last = l
          BY <4>2 DEF IInv, TypeOK, Ledger, Row
        <5>2. /\ Committed(f) /\ Committed(l)
              /\ runs[f].before <= runs[l].before
              /\ \A j \in Run : Committed(j) /\ runs[j].request.mode = "full" =>
                   runs[f].before >= runs[j].before
          BY <4>2, <5>1 DEF RebuildIsClean
        <5>3. /\ Committed(f)' /\ Committed(l)'
              /\ runs'[f] = runs[f] /\ runs'[l] = runs[l]
          BY <3>1, <5>2
        <5>4. \A j \in Run : Committed(j)' /\ runs'[j].request.mode = "full" =>
                runs'[f].before >= runs'[j].before
          BY <3>1, <4>2, <5>2, <5>3
        <5>5. runs'[f].before <= runs'[l].before /\ runs'[f].before <= runs'[k].before
          BY <3>1, <3>2, <3>3, <5>2, <5>3
        <5> QED BY <3>1, <4>2, <5>1, <5>3, <5>4, <5>5
      <4> QED BY <2>5, <3>5, <4>1, <4>2, CommitProvenance
    <3> QED BY <3>5 DEF RebuildIsClean, Committed, Exists
  <2>6. CASE UNCHANGED vars
    BY <2>6 DEF vars, RebuildIsClean, Committed, Exists
  <2> HIDE DEF Same
  <2> QED BY <2>1, <2>2, <2>3, <2>4, <2>5, <2>6 DEF Next
<1> QED BY <1>1, <1>2, Correct, NoLostUpdate, PTL DEF Spec

-----------------------------------------------------------------------------
(* A replacement is never itself replaced: it is posted, and only a        *)
(* pending item may be.  So all replacements of a run take effect.         *)
LEMMA ReplacementsTakeEffect ==
  ASSUME NEW staged \in SUBSET Item, NEW l, ReplacementsValid(staged, l)
  PROVE  ReplacementTargets(Stored(staged)) = ReplacementTargets(staged)
<1>1. ASSUME NEW i \in Replacing(staged) PROVE i \in Replacing(Stored(staged))
  <2>1. i \in staged /\ ~i.pend
    BY DEF Replacing, ReplacementsValid
  <2>2. Id(i) \notin ReplacementTargets(staged)
    BY <2>1 DEF ReplacementTargets, ReplacementsValid
  <2> QED BY <2>1, <2>2 DEF Replacing, Stored
<1>2. Replacing(Stored(staged)) \subseteq Replacing(staged)
  BY DEF Replacing, Stored
<1> QED BY <1>1, <1>2 DEF ReplacementTargets

(* A row that a dashboard counts for c between two days under version v. *)
Shows(l, id, v, c, start, end) ==
    /\ l[id] # NoTx
    /\ l[id].cfg = v
    /\ c \in l[id].cats
    /\ l[id].date >= start
    /\ l[id].date <= end

(* Pruning is invisible in every window that starts at the cutoff or later. *)
LEMMA PruningIsInvisible ==
  ASSUME NEW l \in Ledger, NEW rules, NEW to \in Int, NEW id \in Identity, NEW v,
         NEW c \in DOMAIN rules, NEW start \in Int, NEW end \in Int,
         Cutoff(rules, c, to) \in Int, start >= Cutoff(rules, c, to)
  PROVE  Shows(Prune(l, rules, to), id, v, c, start, end) <=> Shows(l, id, v, c, start, end)
<1>1. CASE l[id] = NoTx
  BY <1>1 DEF Prune, Shows
<1>2. CASE l[id] # NoTx
  <2> DEFINE C == CatsInWindow(l[id], rules, to)
             p == Prune(l, rules, to)[id]
  <2>1. l[id] \in Row
    BY <1>2 DEF Ledger
  <2>2. l[id].date >= start => (c \in C <=> c \in l[id].cats)
    <3>1. l[id].date \in Int
      BY <2>1 DEF Row
    <3> QED BY <3>1 DEF CatsInWindow
  <2>3. p = IF C = {} THEN NoTx ELSE [l[id] EXCEPT !.cats = C]
    BY <1>2 DEF Prune
  <2> HIDE DEF C
  <2>4. CASE C = {}
    BY <1>2, <2>2, <2>3, <2>4 DEF Shows
  <2>5. CASE C # {}
    <3>1. /\ p.cfg = l[id].cfg /\ p.date = l[id].date /\ p.cats = C
      BY <2>1, <2>3, <2>5 DEF Row
    <3>2. p # NoTx
      <4>1. C \subseteq l[id].cats
        BY DEF C, CatsInWindow
      <4>2. p \in Row
        BY <2>1, <2>3, <2>5, <4>1 DEF Row
      <4> QED BY <4>2, RefreshAssumption
    <3> QED BY <1>2, <2>2, <3>1, <3>2 DEF Shows
  <2> QED BY <2>4, <2>5
<1> QED BY <1>1, <1>2

(* The item of k at id that a commit stores is one that counts there. *)
Brings(k, id, c, start, end) ==
    \E y \in runs[k].staged :
        /\ Id(y) = id
        /\ Id(y) \notin ReplacementTargets(runs[k].staged)
        /\ c \in y.cats /\ y.date \in start .. end

(* What a merge shows: the items the run brings, and in an incremental run *)
(* what was there and is neither uploaded again nor replaced.              *)
LEMMA MergeShows ==
  ASSUME IInv, StagingMatchesBatches, NEW k \in Run, NEW count, NEW completed,
         Committable(k, count, completed), ReplacementsValid(runs[k].staged, live),
         NEW id \in Identity, NEW c, NEW start \in Int, NEW end \in Int
  PROVE  LET r == runs[k] IN
         Shows(MergedLedger(k), id, r.cfg, c, start, end) <=>
           \/ Brings(k, id, c, start, end)
           \/ /\ r.request.mode = "incremental"
              /\ Shows(live, id, r.cfg, c, start, end)
              /\ id \notin {Id(x) : x \in r.staged} \union ReplacementTargets(r.staged)
<1> DEFINE r == runs[k]
           m == MergedLedger(k)
           replaced == ReplacementTargets(r.staged)
<1>1. /\ r \in RefreshRun /\ Exists(k) /\ ~Committed(k)
      /\ r.cfg \in Nat /\ r.staged \in SUBSET Item /\ live \in Ledger
      /\ r.request.mode = "full" \/ r.request.mode = "incremental"
  BY CommittableRun
<1>2. \A x, y \in r.staged : Id(x) = Id(y) => x = y
  BY <1>1 DEF StagingMatchesBatches
<1>3. ReplacementTargets(Stored(r.staged)) = replaced
  BY <1>1, ReplacementsTakeEffect
<1>4. CASE StoredAt(r.staged, id) # {}
  <2> DEFINE i == CHOOSE x \in StoredAt(r.staged, id) : TRUE
  <2>1. i \in r.staged /\ Id(i) = id /\ id \notin replaced /\ i \in Item
    BY <1>1, <1>4 DEF StoredAt, Stored
  <2>2. \E first \in Run : m[id] = RowOf(i, r.cfg, first, k)
    <3>1. CASE r.request.mode = "full"
      BY <1>4, <3>1 DEF MergedLedger, ReplaceAll
    <3>2. CASE r.request.mode = "incremental"
      <4>1. m[id] = RowOf(i, r.cfg, IF live[id] = NoTx THEN k ELSE live[id].first, k)
        BY <1>4, <3>2 DEF MergedLedger, MergeIncremental
      <4>2. (IF live[id] = NoTx THEN k ELSE live[id].first) \in Run
        BY <1>1 DEF Ledger, Row
      <4> QED BY <4>1, <4>2
    <3> QED BY <1>1, <3>1, <3>2
  <2> HIDE DEF i
  <2>3. /\ m[id] # NoTx /\ m[id].cfg = r.cfg
        /\ m[id].cats = i.cats /\ m[id].date = i.date
    BY <1>1, <2>1, <2>2, RowIsNotNoTx DEF RowOf
  <2>4. Brings(k, id, c, start, end) <=> c \in i.cats /\ i.date \in start .. end
    BY <1>2, <2>1 DEF Brings
  <2>5. i.date \in Int
    BY <2>1 DEF Item
  <2> QED BY <2>1, <2>3, <2>4, <2>5 DEF Shows
<1>5. CASE StoredAt(r.staged, id) = {}
  <2>1. \A y \in r.staged : Id(y) = id => id \in replaced
    BY <1>5 DEF StoredAt, Stored
  <2>2. ~Brings(k, id, c, start, end)
    BY <2>1 DEF Brings
  <2>3. CASE r.request.mode = "full"
    <3>1. m[id] = NoTx
      BY <1>5, <2>3 DEF MergedLedger, ReplaceAll
    <3> QED BY <2>2, <2>3, <3>1 DEF Shows
  <2>4. CASE r.request.mode = "incremental"
    <3>1. m[id] = IF id \in replaced THEN NoTx ELSE live[id]
      BY <1>3, <1>5, <2>4 DEF MergedLedger, MergeIncremental
    <3>2. id \in {Id(x) : x \in r.staged} \union replaced <=> id \in replaced
      BY <2>1
    <3> QED BY <2>2, <2>4, <3>1, <3>2 DEF Shows
  <2> QED BY <1>1, <2>3, <2>4
<1> QED BY <1>4, <1>5

(* What a commit leaves shows what its run says. *)
LEMMA CommitShows ==
  ASSUME IInv, StagingMatchesBatches, NEW k \in Run, NEW count, NEW completed,
         Commit(k, count, completed)
  PROVE  ShowsRun(k)
<1> DEFINE r == runs[k]
           q == r.request
           s == SemOf(r.cfg)
           replaced == ReplacementTargets(r.staged)
           uploaded == {Id(x) : x \in r.staged}
<1>1. /\ Committable(k, count, completed) /\ ReplacementsValid(r.staged, live)
      /\ live' = Prune(MergedLedger(k), Rules[s], q.to)
  BY DEF Commit
<1>2. /\ r \in RefreshRun /\ r.cfg \in DOMAIN versions /\ r.cfg \in Nat
      /\ r.staged \in SUBSET Item /\ q.to \in Int /\ live \in Ledger
      /\ q.mode = "full" \/ q.mode = "incremental"
  BY <1>1, CommittableRun
<1>3. MergedLedger(k) \in Ledger
  BY <1>2, MergeType DEF MergedLedger
<1>4. s \in Sem
  <2>1. versions[r.cfg] \in Version
    BY <1>2 DEF IInv, ConfigInv, ConfigTypeOK
  <2>2. SemOf(r.cfg) \in Sem
    BY <2>1 DEF SemOf, Version, Edit
  <2> QED BY <2>2
<1> SUFFICES ASSUME NEW c \in Enabled(s), NEW end \in {q.to, q.to + 1}
             PROVE  LET start == end - (Rules[s][c].look - 1) IN
                    Counted(live', r.cfg, c, end) =
                      {Id(x) : x \in {y \in r.staged : /\ Id(y) \notin replaced
                                                    /\ c \in y.cats
                                                    /\ y.date \in start .. end}}
                      \union
                      IF q.mode = "full" THEN {}
                      ELSE Counted(live, r.cfg, c, end) \ (uploaded \union replaced)
  BY DEF ShowsRun
<1> DEFINE start == end - (Rules[s][c].look - 1)
<1>5. c \in DOMAIN Rules[s] /\ Rules[s][c].look \in Nat
  BY <1>4, ConfigAssumption DEF Enabled, Cats
<1>6. /\ start \in Int /\ end \in Int
      /\ Cutoff(Rules[s], c, q.to) \in Int
      /\ start >= Cutoff(Rules[s], c, q.to)
  BY <1>2, <1>5 DEF Cutoff
<1>7. \A l, id : id \in Counted(l, r.cfg, c, end) <=>
                   id \in Identity /\ Shows(l, id, r.cfg, c, start, end)
  BY DEF Counted, Shows
<1> DEFINE brought == {Id(x) : x \in {y \in r.staged : /\ Id(y) \notin replaced
                                                       /\ c \in y.cats
                                                       /\ y.date \in start .. end}}
<1>8. \A id : id \in brought <=> Brings(k, id, c, start, end)
  BY DEF Brings
<1>9. brought \subseteq Identity
  <2>1. \A x \in r.staged : Id(x) \in Identity
    BY <1>2 DEF Item, Id, Identity
  <2> QED BY <2>1
<1> HIDE DEF start, brought
<1>10. ASSUME NEW id \in Identity
       PROVE  id \in Counted(live', r.cfg, c, end) <=>
                \/ id \in brought
                \/ /\ q.mode = "incremental"
                   /\ id \in Counted(live, r.cfg, c, end)
                   /\ id \notin uploaded \union replaced
  <2>1. Shows(live', id, r.cfg, c, start, end)
          <=> Shows(MergedLedger(k), id, r.cfg, c, start, end)
    BY <1>1, <1>2, <1>3, <1>5, <1>6, PruningIsInvisible
  <2>2. Shows(MergedLedger(k), id, r.cfg, c, start, end) <=>
           \/ Brings(k, id, c, start, end)
           \/ /\ q.mode = "incremental"
              /\ Shows(live, id, r.cfg, c, start, end)
              /\ id \notin uploaded \union replaced
    BY <1>1, <1>6, MergeShows
  <2> QED BY <1>7, <1>8, <2>1, <2>2
<1>11. /\ Counted(live', r.cfg, c, end) \subseteq Identity
       /\ Counted(live, r.cfg, c, end) \subseteq Identity
  BY <1>7
<1>12. Counted(live', r.cfg, c, end) =
         brought \union IF q.mode = "full" THEN {}
                        ELSE Counted(live, r.cfg, c, end) \ (uploaded \union replaced)
  BY <1>2, <1>9, <1>10, <1>11
<1> QED BY <1>12 DEF start, brought

(***************************************************************************)
(* A commit shows exactly what its run says: nothing of it is hidden by    *)
(* the pruning that commit_refresh ends with, nothing is counted beside    *)
(* what replaces it, and an incremental refresh loses nothing else.        *)
(***************************************************************************)
THEOREM CommitsAreVisible == Spec => CommitIsVisible
<1>1. IInv /\ StagingMatchesBatches /\ [Next]_vars => [\A k \in Run : ShowsRun(k)]_vars
  <2> SUFFICES ASSUME IInv, StagingMatchesBatches, Next, NEW k \in Run,
                      Committed(k)', ~Committed(k)
               PROVE  ShowsRun(k)
    BY DEF ShowsRun
  <2>1. runs'[k] # runs[k]
    BY DEF Committed, Exists
  <2>2. ASSUME NEW e, NEW expected, EditConfig(e, expected) PROVE FALSE
    BY <2>1, <2>2 DEF EditConfig
  <2>3. ASSUME NEW j \in Run, NEW q \in Requests, Begin(j, q) PROVE FALSE
    BY <2>1, <2>3, BegunRun DEF Committed
  <2>4. ASSUME NEW j \in Run, NEW i \in BatchIndex, NEW b \in Batches, Upload(j, i, b)
        PROVE  FALSE
    BY <2>1, <2>4, UploadedRun DEF Committed
  <2>5. ASSUME NEW j \in Run, NEW count, NEW completed, Commit(j, count, completed)
        PROVE  ShowsRun(k)
    BY <2>1, <2>5, CommittedRun, CommitShows
  <2> QED BY <2>2, <2>3, <2>4, <2>5 DEF Next
<1>2. Spec => [][\A k \in Run : ShowsRun(k)]_vars
  BY <1>1, Correct, StagingIsExact, PTL DEF Spec
<1> QED BY <1>2 DEF CommitIsVisible

-----------------------------------------------------------------------------
(* A commit activates the pending version or leaves the versions alone. *)
LEMMA CommitConfigStep ==
  ASSUME IInv, NEW k \in Run, NEW count, NEW completed, Commit(k, count, completed)
  PROVE  \/ Pending \in DOMAIN versions /\ Activate(Pending)
         \/ UNCHANGED configVars
<1>1. runs[k].cfg \in DOMAIN versions
  BY DEF IInv, RunsChecked, Commit, Committable
<1>2. CASE versions[runs[k].cfg].status = "pending"
  <2>1. runs[k].cfg \in WithStatus(versions, "pending")
    BY <1>1, <1>2 DEF WithStatus
  <2>2. runs[k].cfg = Pending
    BY <2>1, PendingFact DEF IInv, ConfigInv
  <2> QED BY <1>1, <1>2, <2>2 DEF Commit
<1>3. CASE versions[runs[k].cfg].status # "pending"
  BY <1>3 DEF Commit
<1> QED BY <1>2, <1>3

(***************************************************************************)
(* Refresh runs change configurations only as ConfigVersions says, so its  *)
(* theorems hold while runs are in flight.                                 *)
(***************************************************************************)
THEOREM RunsKeepConfigSpec == Spec => ConfigSpec
<1>1. Init => ConfigInit
  BY DEF Init
<1>2. IInv /\ [Next]_vars => [ConfigNext]_configVars
  <2> SUFFICES ASSUME IInv, [Next]_vars PROVE [ConfigNext]_configVars
    OBVIOUS
  <2>1. ASSUME NEW e \in Edit, NEW expected \in Edit \union {NoBase},
               EditConfig(e, expected)
        PROVE  ConfigNext
    BY <2>1 DEF EditConfig, ConfigNext
  <2>2. ASSUME NEW k \in Run, NEW q, Begin(k, q) PROVE UNCHANGED configVars
    BY <2>2 DEF Begin, Beginnable, configVars
  <2>3. ASSUME NEW k \in Run, NEW i, NEW b, Upload(k, i, b)
        PROVE  UNCHANGED configVars
    BY <2>3 DEF Upload, configVars
  <2>4. ASSUME NEW k \in Run, NEW count, NEW completed, Commit(k, count, completed)
        PROVE  [ConfigNext]_configVars
    BY <2>4, CommitConfigStep DEF ConfigNext
  <2>5. CASE UNCHANGED vars
    BY <2>5 DEF vars, configVars
  <2> QED BY <2>1, <2>2, <2>3, <2>4, <2>5 DEF Next
<1> QED BY <1>1, <1>2, Correct, PTL DEF Spec, ConfigSpec

-----------------------------------------------------------------------------
(* The refinement mapping, named so that a step can be compared with its   *)
(* successor.                                                              *)
BookOf(l) == [id \in Identity |-> IF l[id] = NoTx THEN 0 ELSE l[id].cfg]
OpenedOf(r) == [k \in Run |-> IF r[k] # NoRun THEN r[k].before ELSE -1]
DoneOf(r) == {k \in Run : r[k] # NoRun /\ r[k].state = "committed"}

(* An edit is invisible to readers of the store, except the very first. *)
LEMMA EditMaps ==
  ASSUME IInv, NEW e \in Edit, NEW expected, EditConfig(e, expected)
  PROVE  Store!Setup \/ UNCHANGED Store!storeVars
<1>1. /\ Active # 0 => Active' = Active
      /\ Active = 0 => Active' = 1
  BY EditStep DEF EditConfig, IInv
<1>2. runs' = runs /\ live' = live /\ sync' = sync
  BY DEF EditConfig
<1>3. Revision' = Revision
  BY <1>2 DEF Revision
<1> QED BY <1>1, <1>2, <1>3 DEF Store!Setup, Store!storeVars, Committed, Exists

(* Beginning a run opens its draft on the current revision. *)
LEMMA BeginMaps ==
  ASSUME IInv, NEW k \in Run, NEW q \in Requests, Begin(k, q)
  PROVE  Store!Open(k)
<1>1. /\ ~Exists(k) /\ Active # 0
      /\ UNCHANGED <<versions, shown, live, sync>>
  BY DEF Begin, Beginnable
<1>2. PICK r : /\ runs' = [runs EXCEPT ![k] = r]
               /\ r.before = Revision /\ r.state = "created"
               /\ r \in RefreshRun
  <2>1. ConfigInv /\ Active # 0
    BY <1>1 DEF IInv
  <2>2. TargetVersion(q.mode) \in Nat \ {0}
    BY <2>1, TargetExists
  <2>3. Revision \in Nat
    BY DEF Revision, IInv, TypeOK, SyncState
  <2> DEFINE new == [request |-> q, state |-> "created",
                     cfg |-> TargetVersion(q.mode), before |-> Revision,
                     staged |-> {}, batches |-> [i \in BatchIndex |-> NoBatch]]
  <2>4. new \in RefreshRun
    BY <2>2, <2>3 DEF RefreshRun
  <2>5. runs' = [runs EXCEPT ![k] = new] /\ new.before = Revision /\ new.state = "created"
    BY DEF Begin, Beginnable
  <2> QED BY <2>4, <2>5
<1>3. runs'[k] = r /\ r # NoRun /\ \A j \in Run : j # k => runs'[j] = runs[j]
  BY <1>2, RefreshAssumption DEF IInv, TypeOK
<1>4. Active' = Active /\ Revision' = Revision
  BY <1>1 DEF Active, Revision
<1>5. OpenedOf(runs') = [OpenedOf(runs) EXCEPT ![k] = Revision]
  <2>1. \A j \in Run : OpenedOf(runs')[j] =
                         IF j = k THEN Revision ELSE OpenedOf(runs)[j]
    BY <1>2, <1>3 DEF OpenedOf
  <2>2. OpenedOf(runs') = [j \in Run |-> OpenedOf(runs')[j]]
    BY DEF OpenedOf
  <2>3. [OpenedOf(runs) EXCEPT ![k] = Revision]
          = [j \in Run |-> IF j = k THEN Revision ELSE OpenedOf(runs)[j]]
    BY DEF OpenedOf
  <2> QED BY <2>1, <2>2, <2>3
<1>6. DoneOf(runs') = DoneOf(runs)
  BY <1>1, <1>2, <1>3 DEF DoneOf, Exists
<1>7. OpenedOf(runs)[k] = -1
  BY <1>1 DEF OpenedOf, Exists
<1> QED BY <1>1, <1>4, <1>5, <1>6, <1>7
        DEF Store!Open, OpenedOf, DoneOf, Committed, Exists

(* Uploads are private to their run. *)
LEMMA UploadMaps ==
  ASSUME IInv, NEW k \in Run, NEW i \in BatchIndex, NEW b \in Batches,
         Upload(k, i, b)
  PROVE  UNCHANGED Store!storeVars
<1>1. /\ Exists(k) /\ runs[k].state \in {"created", "uploaded"}
      /\ UNCHANGED <<versions, shown, live, sync>>
  BY DEF Upload
<1>2. runs[k] \in RefreshRun
  BY <1>1 DEF IInv, TypeOK, Exists
<1>3. /\ runs'[k].before = runs[k].before /\ runs'[k].state = "uploaded"
      /\ runs'[k] \in RefreshRun
      /\ \A j \in Run : j # k => runs'[j] = runs[j]
  <2>1. b.items \subseteq Item
    BY RefreshAssumption DEF IsBatch
  <2> QED BY <1>2, <2>1 DEF Upload, RefreshRun, IInv, TypeOK
<1>4. runs'[k] # NoRun
  BY <1>3, RefreshAssumption
<1>5. OpenedOf(runs') = OpenedOf(runs) /\ DoneOf(runs') = DoneOf(runs)
  BY <1>1, <1>3, <1>4 DEF OpenedOf, DoneOf, Exists
<1>6. Active' = Active /\ Revision' = Revision
  BY <1>1 DEF Active, Revision
<1> QED BY <1>1, <1>5, <1>6 DEF Store!storeVars, OpenedOf, DoneOf, Committed, Exists

(* A commit publishes. *)
LEMMA CommitMaps ==
  ASSUME IInv, NEW k \in Run, NEW count, NEW completed, Commit(k, count, completed)
  PROVE  Store!Publish(k)
<1>1. /\ runs[k] \in RefreshRun /\ ~Committed(k)
      /\ ConfigInv'
      /\ Active' = runs[k].cfg
  BY CommitConfig
<1>2. /\ Exists(k) /\ runs[k].before = Revision
      /\ sync' = [cfg |-> runs[k].cfg, run |-> k, rev |-> Revision + 1]
      /\ TargetVersion(runs[k].request.mode) = runs[k].cfg
  BY DEF Commit, Committable
<1>3. Active' \in Nat /\ Active' >= Active
  <2>1. Active' \in Nat /\ Active \in Nat
    BY <1>1, ActiveState DEF RefreshRun, IInv, ConfigInv
  <2>2. Active' = Active \/ (Pending # 0 /\ Active' = Pending)
    BY <1>1, <1>2 DEF TargetVersion
  <2>3. Pending # 0 => Active < Pending
    BY DEF IInv, ConfigInv, VersionOrder
  <2> QED BY <2>1, <2>2, <2>3
<1>4. Revision' = Revision + 1
  <2>1. Revision \in Nat
    BY DEF Revision, IInv, TypeOK, SyncState
  <2>2. sync' \in SyncState
    BY <1>1, <1>2, <2>1 DEF SyncState, RefreshRun
  <2>3. sync' # NoSync
    BY <2>2, RefreshAssumption
  <2> QED BY <1>2, <2>3 DEF Revision
<1>5. BookOf(live') \in [Identity -> {0, Active'}]
  BY <1>1, CommitRows DEF BookOf
<1>6. /\ runs'[k].before = runs[k].before /\ runs'[k].state = "committed"
      /\ runs'[k] \in RefreshRun
      /\ \A j \in Run : j # k => runs'[j] = runs[j]
  BY <1>1 DEF Commit, RefreshRun, IInv, TypeOK
<1>7. runs'[k] # NoRun
  BY <1>6, RefreshAssumption
<1>8. /\ OpenedOf(runs') = OpenedOf(runs)
      /\ DoneOf(runs') = DoneOf(runs) \union {k}
      /\ k \notin DoneOf(runs)
      /\ OpenedOf(runs)[k] = Revision
  BY <1>1, <1>2, <1>6, <1>7 DEF OpenedOf, DoneOf, Exists, Committed
<1> QED BY <1>3, <1>4, <1>5, <1>8
        DEF Store!Publish, OpenedOf, DoneOf, BookOf, Committed, Exists

(***************************************************************************)
(* begin_refresh, upload_batch, commit_refresh and the configuration edits *)
(* together implement an optimistically published store: each publication  *)
(* is one step, on the revision its writer began on, at most once.         *)
(***************************************************************************)
THEOREM RunsImplementStore == Spec => ImplementsStore
<1>1. Init => Store!StoreInit
  <2> SUFFICES ASSUME Init PROVE Store!StoreInit
    OBVIOUS
  <2>1. WithStatus(versions, "active") = {}
    BY DEF Init, ConfigInit, WithStatus
  <2>2. Active = 0
    BY <2>1 DEF Active, ActiveIn
  <2> QED BY <2>2 DEF Init, Store!StoreInit, Revision, Committed, Exists
<1>2. IInv /\ [Next]_vars => [Store!StoreNext]_Store!storeVars
  <2> SUFFICES ASSUME IInv, [Next]_vars
               PROVE  Store!StoreNext \/ UNCHANGED Store!storeVars
    OBVIOUS
  <2>1. ASSUME NEW e \in Edit, NEW expected, EditConfig(e, expected)
        PROVE  Store!StoreNext \/ UNCHANGED Store!storeVars
    BY <2>1, EditMaps DEF Store!StoreNext
  <2>2. ASSUME NEW k \in Run, NEW q \in Requests, Begin(k, q)
        PROVE  Store!StoreNext
    BY <2>2, BeginMaps DEF Store!StoreNext
  <2>3. ASSUME NEW k \in Run, NEW i \in BatchIndex, NEW b \in Batches,
               Upload(k, i, b)
        PROVE  UNCHANGED Store!storeVars
    BY <2>3, UploadMaps
  <2>4. ASSUME NEW k \in Run, NEW count, NEW completed, Commit(k, count, completed)
        PROVE  Store!StoreNext
    BY <2>4, CommitMaps DEF Store!StoreNext
  <2>5. CASE UNCHANGED vars
    BY <2>5 DEF vars, Store!storeVars, Active, Revision, Committed, Exists
  <2> QED BY <2>1, <2>2, <2>3, <2>4, <2>5 DEF Next
<1> QED BY <1>1, <1>2, Correct, PTL DEF Spec, ImplementsStore, Store!StoreSpec
=============================================================================
