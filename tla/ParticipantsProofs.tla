-------------------------- MODULE ParticipantsProofs --------------------------
(***************************************************************************)
(* Proofs about those who use the configurations and the refresh runs      *)
(* beside the refresh itself: editors of the configuration (ConfigEditing),*)
(* readers of the dashboard (DashboardReads), refresh clients that retry   *)
(* (RefreshClient) and the repair of migration 0004 (Upgrade).  Each part  *)
(* is about the specification of its own module; the variables of the      *)
(* others do not occur in it.                                              *)
(***************************************************************************)
EXTENDS ConfigEditing, DashboardReads, RefreshClient, Upgrade, RefreshRunsProofs

-----------------------------------------------------------------------------
(***************************************************************************)
(* Editors.  Editing the configuration implements a compare-and-set        *)
(* register, for any number of editors.  The value of the register is the  *)
(* last accepted edit; the invariant says that this is what every reader is*)
(* given now, whether it is active, pending, or was pending and has been   *)
(* activated.                                                              *)
(***************************************************************************)

(* What the service hands out is the last edit it accepted. *)
ReadsAccepted == accepted = BaseSnapshot /\ accepted \in Edit \union {NoBase}

EditingInv == ConfigInv /\ ReadsAccepted

-----------------------------------------------------------------------------
(***************************************************************************)
(* An edit whose presentation is written to the category rows is read back *)
(* from them unchanged.                                                    *)
(***************************************************************************)
LEMMA PresentedIsRead ==
  ASSUME NEW e \in Edit
  PROVE  [sem |-> e.sem, pres |-> [c \in Cats(e.sem) |-> Present(e)[c]]] = e
<1>1. PICK s \in Sem : e \in [sem : {s}, pres : [Cats(s) -> Pres]]
  BY DEF Edit
<1>2. /\ e.sem = s
      /\ e.pres \in [Cats(s) -> Pres]
      /\ Cats(s) \subseteq Cat
      /\ e = [sem |-> e.sem, pres |-> e.pres]
  BY <1>1, ConfigAssumption
<1>3. \A c \in Cats(s) : Present(e)[c] = e.pres[c]
  BY <1>2 DEF Present
<1>4. [c \in Cats(e.sem) |-> Present(e)[c]] = e.pres
  BY <1>2, <1>3
<1> QED BY <1>2, <1>4

(* With nothing pending, editors are given the active version as shown. *)
LEMMA ShownIsBase ==
  ASSUME NEW v \in Nat \ {0}, NEW e \in Edit,
         Active' = v, Pending' = 0,
         versions'[v].status = "active",
         versions'[v].source.sem = e.sem,
         shown' = Present(e)
  PROVE  BaseSnapshot' = e
<1>1. BaseSnapshot' = Snapshot(v)'
  BY DEF BaseSnapshot, Base
<1>2. Snapshot(v)' = [sem |-> e.sem, pres |-> [c \in Cats(e.sem) |-> shown'[c]]]
  BY DEF Snapshot, SemOf
<1> QED BY <1>1, <1>2, PresentedIsRead

(* An accepted edit is what the next reader is given. *)
LEMMA SavedIsRead ==
  ASSUME ConfigInv, NEW e \in Edit, NEW expected, PutConfig(e, expected)
  PROVE  BaseSnapshot' = e
<1> USE DEF ConfigInv
<1>1. CASE EditPresentation(e)
  <2>1. versions' = SupersedePending /\ shown' = Present(e) /\ Active # 0
        /\ SemOf(Active) = e.sem
    BY <1>1 DEF EditPresentation
  <2>2. Active \in Nat \ {0} /\ Active \in DOMAIN versions
        /\ versions[Active].status = "active"
    BY <2>1, ActiveState
  <2>3. Pending # Active
    BY <2>2, PendingFact
  <2>4. versions'[Active].status = "active" /\ versions'[Active].source.sem = e.sem
    BY <2>1, <2>2, <2>3, SupersededSeq DEF SemOf
  <2>5. Pending' = 0
    BY <2>1, SupersededStatus, NonePending DEF Pending
  <2>6. Active' = Active
    BY <2>1, SupersededStatus, ActiveState, ActiveIs DEF Active
  <2> QED BY <2>1, <2>2, <2>4, <2>5, <2>6, ShownIsBase
<1>2. CASE RepeatPending(e)
  BY <1>2 DEF RepeatPending, configVars, BaseSnapshot, Base, Active, Pending,
     Snapshot, SemOf
<1>3. CASE CreateVersion(e)
  <2> DEFINE n == Len(versions) + 1
             new == [status |-> IF Active = 0 THEN "active" ELSE "pending",
                     source |-> e]
  <2>1. /\ versions' = Append(SupersedePending, new)
        /\ shown' = IF Active = 0 THEN Present(e) ELSE AddRows(e)
    BY <1>3 DEF CreateVersion
  <2>2. /\ n \in Nat \ {0}
        /\ DOMAIN versions = 1 .. Len(versions)
        /\ DOMAIN versions' = 1 .. n
        /\ versions'[n] = new
        /\ \A v \in DOMAIN versions : versions'[v] = SupersedePending[v]
    <3>1. Len(versions) \in Nat
      BY DEF ConfigTypeOK
    <3> QED BY <2>1, <3>1, SupersededSeq
  <2>3. \A v \in DOMAIN versions : versions'[v].status # "pending"
    BY <2>2, SupersededSeq, SupersededStatus DEF WithStatus
  <2>4. CASE Active = 0
    <3>1. n = 1 /\ Active' = 1
      BY <1>3, <2>4, ActiveState, EditStep DEF PutConfig
    <3>2. WithStatus(versions', "pending") = {}
      BY <2>2, <2>3, <2>4 DEF WithStatus
    <3>3. Pending' = 0
      BY <3>2, NonePending DEF Pending
    <3>4. shown' = Present(e)
      BY <2>1, <2>4
    <3> QED BY <2>2, <2>4, <3>1, <3>3, <3>4, ShownIsBase
  <2>5. CASE Active # 0
    <3>1. WithStatus(versions', "pending") = {n}
      BY <2>2, <2>3, <2>5 DEF WithStatus
    <3>2. Pending' = n
      BY <2>2, <3>1, PendingIs DEF Pending
    <3>3. /\ Pending' # 0
          /\ versions'[Pending'].status = "pending"
          /\ versions'[Pending'].source = e
      BY <2>2, <2>5, <3>2
    <3> QED BY <3>3 DEF BaseSnapshot, Base, Snapshot
  <2> QED BY <2>4, <2>5
<1> QED BY <1>1, <1>2, <1>3 DEF PutConfig

(* Activating the pending version leaves what editors are given as it is. *)
LEMMA ActivationIsInvisible ==
  ASSUME ConfigInv, Pending # 0, Activate(Pending)
  PROVE  BaseSnapshot' = BaseSnapshot
<1> USE DEF ConfigInv
<1> DEFINE e == versions[Pending].source
<1>1. Pending \in DOMAIN versions /\ versions[Pending].status = "pending"
  BY PendingFact
<1>2. \A v \in DOMAIN versions : v \in Nat \ {0} /\ versions[v] \in Version
  BY DEF ConfigTypeOK
<1>3. BaseSnapshot = e
  BY <1>1 DEF BaseSnapshot, Base, Snapshot
<1>4. Active' = Pending /\ Pending' = 0
  BY ActivateStep
<1>5. shown' = Present(e)
  BY DEF Activate
<1>6. versions'[Pending].status = "active" /\ versions'[Pending].source = e
  BY <1>1, <1>2 DEF Activate, Activated, Version
<1>7. Pending \in Nat \ {0} /\ e \in Edit
  BY <1>1, <1>2 DEF Version
<1> HIDE DEF e
<1>8. BaseSnapshot' = e
  BY <1>4, <1>5, <1>6, <1>7, ShownIsBase
<1> QED BY <1>3, <1>8

-----------------------------------------------------------------------------
(* The invariant is inductive. *)
LEMMA EditingStep ==
  ASSUME EditingInv, [EditingNext]_editingVars
  PROVE  EditingInv'
<1> USE DEF EditingInv, ReadsAccepted
<1>1. ASSUME UNCHANGED configVars, UNCHANGED accepted PROVE EditingInv'
  <2>1. BaseSnapshot' = BaseSnapshot
    BY <1>1 DEF configVars, BaseSnapshot, Base, Active, Pending, Snapshot, SemOf
  <2> QED BY <1>1, <2>1, ConfigStutter
<1>2. ASSUME NEW ed \in Editor, GetConfig(ed) PROVE EditingInv'
  BY <1>1, <1>2 DEF GetConfig, configVars
<1>3. ASSUME NEW ed \in Editor, NEW e \in Edit, SaveConfig(ed, e) PROVE EditingInv'
  <2>1. PutConfig(e, seen[ed]) /\ accepted' = e
    BY <1>3 DEF SaveConfig
  <2>2. ConfigInv'
    BY <2>1, EditStep
  <2> QED BY <2>1, <2>2, SavedIsRead
<1>4. CASE PublishPending
  <2>1. Pending # 0 /\ Activate(Pending) /\ accepted' = accepted
    BY <1>4 DEF PublishPending
  <2>2. ConfigInv'
    BY <2>1, ActivateStep
  <2> QED BY <2>1, <2>2, ActivationIsInvisible
<1>5. CASE UNCHANGED editingVars
  BY <1>1, <1>5 DEF editingVars, configVars
<1> QED BY <1>2, <1>3, <1>4, <1>5 DEF EditingNext

(* Before the first configuration there is nothing to read. *)
LEMMA EditingInitInv == EditingInit => EditingInv
<1> SUFFICES ASSUME EditingInit PROVE EditingInv
  OBVIOUS
<1>1. ConfigInv
  BY ConfigInitInv DEF EditingInit
<1>2. WithStatus(versions, "active") = {} /\ WithStatus(versions, "pending") = {}
  BY DEF EditingInit, ConfigInit, WithStatus
<1>3. BaseSnapshot = NoBase
  BY <1>2 DEF BaseSnapshot, Base, Active, Pending, ActiveIn, PendingIn
<1> QED BY <1>1, <1>3 DEF EditingInv, ReadsAccepted, EditingInit

(***************************************************************************)
(* Editors share one register: whichever way an accepted edit takes (shown *)
(* at once, waiting for a rebuild, repeating a waiting one, activated by a *)
(* commit), the next reader is given exactly it, and no edit is accepted   *)
(* from an editor who has not seen the one before (get_config,             *)
(* put_config_checked and the activation in commit_refresh).               *)
(***************************************************************************)
THEOREM EditingImplementsRegister == EditingSpec => ImplementsRegister
<1>1. EditingInit => Register!RegisterInit
  BY DEF EditingInit, Register!RegisterInit
<1>2. EditingInv /\ [EditingNext]_editingVars
        => [Register!RegisterNext]_(Register!registerVars)
  <2> SUFFICES ASSUME EditingInv, [EditingNext]_editingVars
               PROVE  [Register!RegisterNext]_(Register!registerVars)
    OBVIOUS
  <2> USE DEF EditingInv, ReadsAccepted
  <2>1. ASSUME NEW ed \in Editor, GetConfig(ed) PROVE Register!RegisterNext
    <3>1. Register!Read(ed)
      BY <2>1 DEF GetConfig, Register!Read
    <3> QED BY <3>1 DEF Register!RegisterNext
  <2>2. ASSUME NEW ed \in Editor, NEW e \in Edit, SaveConfig(ed, e)
        PROVE  Register!RegisterNext
    <3>1. PutConfig(e, seen[ed]) /\ accepted' = e
      BY <2>2 DEF SaveConfig
    <3>2. seen[ed] = accepted
      BY <3>1 DEF PutConfig
    <3>3. BaseSnapshot' = e
      BY <3>1, SavedIsRead
    <3>4. seen' = seen \/ seen' = [seen EXCEPT ![ed] = e]
      BY <2>2, <3>3 DEF SaveConfig
    <3>5. Register!Write(ed, e)
      BY <3>1, <3>2, <3>4 DEF Register!Write
    <3> QED BY <3>5 DEF Register!RegisterNext
  <2>3. CASE PublishPending
    BY <2>3 DEF PublishPending, Register!registerVars
  <2>4. CASE UNCHANGED editingVars
    BY <2>4 DEF editingVars, Register!registerVars
  <2> QED BY <2>1, <2>2, <2>3, <2>4 DEF EditingNext
<1>3. EditingSpec => []EditingInv
  BY EditingInitInv, EditingStep, PTL DEF EditingSpec
<1> QED BY <1>1, <1>2, <1>3, PTL DEF EditingSpec, ImplementsRegister, Register!RegisterSpec

(***************************************************************************)
(* What get_config hands to any editor is the last edit that _put_config   *)
(* accepted, nothing older and nothing mixed of two of them: not the live  *)
(* category rows while a version waits, not the waiting snapshot once it   *)
(* is withdrawn, and the same before and after a commit activates it.      *)
(***************************************************************************)
THEOREM EditorsReadTheLastEdit ==
  EditingSpec => [](ConfigInv /\ accepted = BaseSnapshot)
<1>1. EditingInv => ConfigInv /\ accepted = BaseSnapshot
  BY DEF EditingInv, ReadsAccepted
<1> QED BY <1>1, EditingInitInv, EditingStep, PTL DEF EditingSpec

(* A step of an editor is one of ConfigVersions, or leaves it alone. *)
LEMMA EditingKeepsConfig == EditingSpec => ConfigSpec
<1>1. EditingInit => ConfigInit
  BY DEF EditingInit
<1>2. EditingInv /\ [EditingNext]_editingVars => [ConfigNext]_configVars
  <2> SUFFICES ASSUME EditingInv, [EditingNext]_editingVars
               PROVE  [ConfigNext]_configVars
    OBVIOUS
  <2>1. ASSUME NEW ed \in Editor, NEW e \in Edit, SaveConfig(ed, e) PROVE ConfigNext
    <3>1. PutConfig(e, seen[ed])
      BY <2>1 DEF SaveConfig
    <3>2. seen[ed] \in Edit \union {NoBase}
      BY <3>1 DEF PutConfig, EditingInv, ReadsAccepted
    <3> QED BY <3>1, <3>2 DEF ConfigNext
  <2>2. CASE PublishPending
    <3>1. Pending \in DOMAIN versions /\ Activate(Pending)
      BY <2>2, PendingFact DEF PublishPending, EditingInv, ConfigInv
    <3> QED BY <3>1 DEF ConfigNext
  <2>3. ASSUME NEW ed \in Editor, GetConfig(ed) PROVE UNCHANGED configVars
    BY <2>3 DEF GetConfig, configVars
  <2>4. CASE UNCHANGED editingVars
    BY <2>4 DEF editingVars, configVars
  <2> QED BY <2>1, <2>2, <2>3, <2>4 DEF EditingNext
<1>3. EditingSpec => []EditingInv
  BY EditingInitInv, EditingStep, PTL DEF EditingSpec
<1> QED BY <1>1, <1>2, <1>3, PTL DEF EditingSpec, ConfigSpec

(***************************************************************************)
(* With any number of editors, whatever hashes they remember, _put_config  *)
(* and the activation in commit_refresh keep one active version and at     *)
(* most one pending, newer and different; every category has its row; no   *)
(* version changes or returns; and a waiting version does not show.        *)
(***************************************************************************)
THEOREM EditorsKeepVersions ==
  EditingSpec => /\ []VersionOrder /\ []RowsForEveryCategory
                 /\ VersionsAreHistory /\ PendingIsIsolated
BY EditingKeepsConfig, VersionsStayOrdered, CategoryRowsExist, HistoryIsKept,
   PendingStaysIsolated

-----------------------------------------------------------------------------
(***************************************************************************)
(* Readers.  What a dashboard has read so far is always what is in the     *)
(* database now, because everything it reads stands still until it has     *)
(* answered.  An upload moves other columns only.                          *)
(***************************************************************************)

(* An answer has these fields, and its totals are a function. *)
IsAnswer(r) ==
    /\ r = [active |-> r.active, pending |-> r.pending, budget |-> r.budget,
            counted |-> r.counted, sync |-> r.sync, upTo |-> r.upTo]
    /\ r.counted = [c \in DOMAIN r.counted |-> r.counted[c]]

BudgetsNow == [c \in Enabled(SemOf(Active)) |-> shown[c]]
UpToNow == IF sync = NoSync THEN Nothing ELSE runs[sync.run].request.to

ReadSoFar ==
    /\ at \in {"idle", "pending", "rules", "rows", "run", "close"}
    /\ Reading =>
         /\ IsAnswer(answer)
         /\ answer.active = Active /\ Active # 0
         /\ at # "pending" => answer.pending = Pending
         /\ at \notin {"pending", "rules"} => answer.budget = BudgetsNow
         /\ at \in {"pending", "rules"} => DOMAIN answer.counted = {}
         /\ DOMAIN answer.counted \subseteq Enabled(SemOf(Active))
         /\ \A c \in DOMAIN answer.counted :
              answer.counted[c] = Counted(live, Active, c, asOf)
         /\ at \in {"run", "close"} =>
              /\ answer.sync = sync
              /\ DOMAIN answer.counted = Enabled(SemOf(Active))
         /\ at \in {"pending", "rules", "rows"} => answer.upTo = Nothing
         /\ at = "run" => sync # NoSync
         /\ at = "close" => answer.upTo = UpToNow

DashInv == IInv /\ ReadSoFar

(* A step that leaves what the dashboard reads alone. *)
LEMMA StandStill ==
  ASSUME ReadSoFar, UNCHANGED <<versions, shown, live, sync, readerVars>>,
         sync # NoSync => runs'[sync.run].request = runs[sync.run].request
  PROVE  ReadSoFar'
<1>1. Active' = Active /\ Pending' = Pending
  BY DEF Active, Pending
<1>2. SemOf(Active)' = SemOf(Active)
  BY <1>1 DEF SemOf
<1>3. \A c : Counted(live, Active, c, asOf)' = Counted(live, Active, c, asOf)
  BY <1>1 DEF Counted, SemOf, readerVars
<1>4. BudgetsNow' = BudgetsNow /\ UpToNow' = UpToNow
  BY <1>2 DEF BudgetsNow, UpToNow
<1> QED
  BY <1>1, <1>2, <1>3, <1>4 DEF ReadSoFar, readerVars, Reading, IsAnswer

(* Each SELECT adds what is in the database now. *)
LEMMA ReadKeeps ==
  ASSUME IInv, ReadSoFar, Read
  PROVE  ReadSoFar'
<1>1. UNCHANGED vars
  BY DEF Read, ReadActive, ReadPending, ReadRules, ReadRows, ReadSync, ReadRun, Close
<1>2. Active' = Active /\ Pending' = Pending /\ SemOf(Active)' = SemOf(Active)
  BY <1>1 DEF vars, Active, Pending, SemOf
<1>3. \A c : Counted(live, Active, c, asOf)' = Counted(live, Active, c, asOf')
  BY <1>1, <1>2 DEF vars, Counted, SemOf
<1>4. BudgetsNow' = BudgetsNow /\ UpToNow' = UpToNow
  BY <1>1, <1>2 DEF BudgetsNow, UpToNow, vars
<1>5. sync' = sync
  BY <1>1 DEF vars
<1>6. CASE \E day \in Days : ReadActive(day)
  BY <1>2, <1>3, <1>6 DEF ReadActive, ReadSoFar, Reading, IsAnswer
<1>7. CASE ReadPending
  BY <1>2, <1>3, <1>7 DEF ReadPending, ReadSoFar, Reading, IsAnswer
<1>8. CASE ReadRules
  BY <1>2, <1>3, <1>4, <1>8 DEF ReadRules, ReadSoFar, Reading, IsAnswer, BudgetsNow
<1>9. ASSUME NEW c \in Cat, ReadRows(c) PROVE ReadSoFar'
  <2>1. c \in Enabled(SemOf(Active))
    BY <1>9 DEF ReadRows, ToRead, ReadSoFar, Reading, BudgetsNow
  <2>2. /\ answer'.counted = [d \in DOMAIN answer.counted \union {c} |->
                                IF d = c THEN Counted(live, Active, c, asOf)
                                ELSE answer.counted[d]]
        /\ answer'.active = answer.active /\ answer'.pending = answer.pending
        /\ answer'.budget = answer.budget /\ answer'.upTo = answer.upTo
        /\ IsAnswer(answer)'
    BY <1>9 DEF ReadRows, ReadSoFar, Reading, IsAnswer
  <2>3. \A d \in DOMAIN answer'.counted :
          answer'.counted[d] = Counted(live, Active, d, asOf)
    BY <1>9, <2>2 DEF ReadRows, ReadSoFar, Reading
  <2>4. asOf' = asOf /\ at' = "rows" /\ at = "rows"
    BY <1>9 DEF ReadRows
  <2> QED BY <1>2, <1>3, <1>4, <2>1, <2>2, <2>3, <2>4 DEF ReadSoFar, Reading
<1>10. CASE ReadSync
  <2>1. DOMAIN answer.counted = Enabled(SemOf(Active))
    BY <1>10 DEF ReadSync, ToRead, ReadSoFar, Reading, BudgetsNow
  <2> QED BY <1>2, <1>3, <1>4, <1>5, <1>10, <2>1
            DEF ReadSync, ReadSoFar, Reading, IsAnswer, UpToNow
<1>11. CASE ReadRun
  BY <1>2, <1>3, <1>4, <1>5, <1>11 DEF ReadRun, ReadSoFar, Reading, IsAnswer, UpToNow
<1>12. CASE Close
  BY <1>12 DEF Close, ReadSoFar, Reading
<1> QED BY <1>6, <1>7, <1>8, <1>9, <1>10, <1>11, <1>12 DEF Read

(* While a dashboard is read, a writer that goes on is an upload. *)
LEMMA WriteKeeps ==
  ASSUME IInv, ReadSoFar, Write
  PROVE  ReadSoFar'
<1>1. CASE ~Reading
  BY <1>1 DEF ReadSoFar, Reading, Write, readerVars
<1>2. CASE Reading
  <2>1. PICK k \in Run, i \in BatchIndex, b \in Batches : Upload(k, i, b)
    BY <1>2 DEF Write, LockFree
  <2>2. /\ UNCHANGED <<versions, shown, live, sync>>
        /\ runs' = [runs EXCEPT ![k].state = "uploaded",
                                ![k].batches[i] = b,
                                ![k].staged = @ \union b.items]
        /\ Exists(k)
    BY <2>1 DEF Upload
  <2>3. runs[k] \in RefreshRun /\ runs \in [Run -> RefreshRun \union {NoRun}]
    BY <2>2 DEF IInv, TypeOK, Exists
  <2>4. \A j \in Run : runs'[j].request = runs[j].request
    BY <2>2, <2>3 DEF RefreshRun
  <2>5. sync # NoSync => sync.run \in Run
    BY DEF IInv, TypeOK, SyncState
  <2> QED BY <2>2, <2>4, <2>5, StandStill DEF Write
<1> QED BY <1>1, <1>2

(***************************************************************************)
(* In every reachable state the refresh runs satisfy their invariant, and  *)
(* what a dashboard has read is current.                                   *)
(***************************************************************************)
THEOREM DashboardsStayCurrent == DashSpec => []DashInv
<1>1. DashInit => DashInv
  BY InitIInv DEF DashInit, DashInv, ReadSoFar, Reading
<1>2. DashInv /\ [DashNext]_dashVars => DashInv'
  <2> SUFFICES ASSUME DashInv, [DashNext]_dashVars PROVE DashInv'
    OBVIOUS
  <2>1. CASE Read
    <3>1. UNCHANGED vars
      BY <2>1 DEF Read, ReadActive, ReadPending, ReadRules, ReadRows, ReadSync,
           ReadRun, Close
    <3> QED BY <2>1, <3>1, ReadKeeps, StutterKeepsIInv DEF DashInv
  <2>2. CASE Write
    <3>1. Next
      BY <2>2 DEF Write, Next
    <3> QED BY <2>2, <3>1, WriteKeeps, StepKeepsIInv DEF DashInv
  <2>3. CASE UNCHANGED dashVars
    <3>1. ReadSoFar'
      BY <2>3, StandStill DEF DashInv, dashVars, vars
    <3> QED BY <2>3, <3>1, StutterKeepsIInv DEF DashInv, dashVars
  <2> QED BY <2>1, <2>2, <2>3 DEF DashNext
<1> QED BY <1>1, <1>2, PTL DEF DashSpec

(***************************************************************************)
(* get_dashboard answers with one publication, as if all its SELECTs were  *)
(* one, for any number of categories, runs and concurrent uploads.         *)
(***************************************************************************)
THEOREM DashboardsAreAtomic == DashSpec => []OnePublication
<1>1. DashInv => OnePublication
  <2> SUFFICES ASSUME DashInv, at = "close" PROVE answer = WholeAnswer
    BY DEF OnePublication
  <2>1. /\ IsAnswer(answer)
        /\ answer.active = Active /\ answer.pending = Pending
        /\ answer.budget = BudgetsNow /\ answer.sync = sync
        /\ answer.upTo = UpToNow
        /\ DOMAIN answer.counted = Enabled(SemOf(Active))
        /\ \A c \in Enabled(SemOf(Active)) :
             answer.counted[c] = Counted(live, Active, c, asOf)
    BY DEF DashInv, ReadSoFar, Reading
  <2>2. answer.counted = [c \in Enabled(SemOf(Active)) |-> Counted(live, Active, c, asOf)]
    BY <2>1 DEF IsAnswer
  <2> QED BY <2>1, <2>2 DEF IsAnswer, WholeAnswer, BudgetsNow, UpToNow
<1> QED BY <1>1, DashboardsStayCurrent, PTL

(***************************************************************************)
(* A dashboard that is being read names a version that exists.             *)
(***************************************************************************)
THEOREM DashTypeCorrect == DashSpec => []DashTypeOK
<1>1. DashInit => asOf \in Days
  BY DEF DashInit
<1>2. asOf \in Days /\ [DashNext]_dashVars => (asOf \in Days)'
  BY DEF DashNext, Read, ReadActive, ReadPending, ReadRules, ReadRows, ReadSync,
         ReadRun, Close, Write, readerVars, dashVars
<1>3. DashInv /\ asOf \in Days => DashTypeOK
  <2> SUFFICES ASSUME DashInv, asOf \in Days, Reading
               PROVE  answer.active \in DOMAIN versions
    BY DEF DashInv, IInv, ReadSoFar, DashTypeOK
  <2>1. answer.active = Active /\ Active # 0
    BY DEF DashInv, ReadSoFar
  <2> QED BY <2>1, ActiveState DEF DashInv, ReadSoFar, IInv, ConfigInv
<1> QED BY <1>1, <1>2, <1>3, DashboardsStayCurrent, PTL DEF DashSpec

(***************************************************************************)
(* On the last day of the last run a dashboard hides no row of the ledger: *)
(* the cutoff of the pruning and the start of the dashboard's window are   *)
(* the same day, and every row is of the active version.                   *)
(***************************************************************************)
THEOREM DashboardsHideNothing == DashSpec => []NothingHidden
<1>1. DashInv => NothingHidden
  <2> SUFFICES ASSUME DashInv, at = "close", answer.upTo = asOf,
                      NEW c \in DOMAIN answer.counted
               PROVE  answer.counted[c] =
                        {id \in Identity : /\ live[id] # NoTx
                                           /\ c \in live[id].cats
                                           /\ live[id].date <= asOf}
    BY DEF NothingHidden
  <2>1. /\ answer.counted[c] = Counted(live, Active, c, asOf)
        /\ answer.upTo = UpToNow
    BY DEF DashInv, ReadSoFar, Reading
  <2>2. CASE sync = NoSync
    <3>1. \A id \in Identity : live[id] = NoTx
      BY <2>2 DEF DashInv, IInv, PublishedTogether
    <3> QED BY <2>1, <3>1 DEF Counted
  <2>3. CASE sync # NoSync
    <3>1. asOf = runs[sync.run].request.to
      BY <2>1, <2>3 DEF UpToNow
    <3>2. ASSUME NEW id \in Identity, live[id] # NoTx, c \in live[id].cats
          PROVE  /\ live[id].cfg = Active
                 /\ live[id].date >= asOf - (Rules[SemOf(Active)][c].look - 1)
      <4>1. live[id].cfg = Active
        BY <2>3, <3>2 DEF DashInv, IInv, PublishedTogether
      <4>2. live[id].date >= Cutoff(Rules[SemOf(Active)], c, asOf)
        BY <3>1, <3>2 DEF DashInv, IInv, LedgerInScope
      <4> QED BY <4>1, <4>2 DEF Cutoff
    <3> QED BY <2>1, <3>2 DEF Counted
  <2> QED BY <2>2, <2>3
<1> QED BY <1>1, DashboardsStayCurrent, PTL

-----------------------------------------------------------------------------
(***************************************************************************)
(* Refresh clients.  Every call a client makes is one the service admits,  *)
(* so what is proved of refresh runs holds while clients retry.  The       *)
(* invariant follows a client's own run, which its key keeps apart from    *)
(* the runs of other clients, through lost answers: what the run was begun *)
(* for, which batches it has, and what a commit will find.                 *)
(***************************************************************************)

(* Where a client is in its protocol. *)
Step == {"idle", "begin", "upload", "commit", "done"}

ClientTypeOK ==
    /\ pc \in [Client -> Step]
    /\ key \in [Client -> Run \union {NoKey}]
    /\ req \in [Client -> Requests \union {NoRequest}]
    /\ next \in [Client -> Nat]
    /\ base \in [Client -> Seq(Version)]
    /\ asked \subseteq Run

(* No two clients use the same key. *)
OwnKeys == \A me, you \in Client : me # you /\ key[me] = key[you] => key[me] = NoKey

(* TargetVersion in an earlier state of the configurations. *)
TargetOf(vs, mode) ==
    IF mode = "full" /\ PendingIn(vs) # 0 THEN PendingIn(vs) ELSE ActiveIn(vs)

(* What begin_refresh decided when the configurations were vs. *)
BegunFor(k, vs) ==
    /\ runs[k].cfg = TargetOf(vs, runs[k].request.mode)
    /\ runs[k].request.mode = "incremental" => PendingIn(vs) = 0

(* The batches of run k that have arrived when its client is at st and next. *)
Progress(k, st, i) ==
    /\ st = "begin" => Received(k) = {}
    /\ st = "upload" => /\ i <= Count(k)
                        /\ \/ Received(k) = 0 .. (i - 1)
                           \/ i < Count(k) /\ Received(k) = 0 .. i
    /\ st = "commit" => Received(k) = 0 .. (Count(k) - 1)

Engaged(cl) == pc[cl] \in {"begin", "upload", "commit"}

(* The run of a client that is engaged in a refresh. *)
ClientRun(cl) ==
    /\ pc[cl] # "upload" => next[cl] = 0
    /\ Engaged(cl) =>
         /\ key[cl] \in Run /\ req[cl] \in Requests
         /\ pc[cl] # "begin" => Exists(key[cl])
         /\ Exists(key[cl]) => /\ runs[key[cl]].request = req[cl]
                               /\ BegunFor(key[cl], base[cl])
                               /\ Progress(key[cl], pc[cl], next[cl])

(* An incremental run's accounts are the published ones while its base is. *)
ScopeOf(k) ==
    Exists(k) /\ ~Committed(k) =>
        /\ runs[k].before <= Revision
        /\ runs[k].request.mode = "incremental" /\ runs[k].before = Revision
             => SameScope(runs[k].request.accounts)
ScopeKept == \A k \in Run : ScopeOf(k)

(* Staged items and ledger rows come from the clients' lists. *)
StagedListed == \A k \in Run : Exists(k) => runs[k].staged \subseteq Listed
LiveListed(l) ==
    \A id \in Identity :
        l[id] # NoTx => \E x \in Listed : Id(x) = id /\ x.pend = l[id].pend

ClientsOnTrack ==
    /\ ClientTypeOK
    /\ OwnKeys
    /\ \A cl \in Client : ClientRun(cl)

ClientInv ==
    /\ IInv
    /\ ClientsOnTrack
    /\ ScopeKept
    /\ StagedListed /\ LiveListed(live)

-----------------------------------------------------------------------------
(* The configuration of a run and the batches fed under it are typed. *)
LEMMA RunFeed ==
  ASSUME IInv, NEW k \in Run, Exists(k)
  PROVE  /\ runs[k] \in RefreshRun
         /\ runs[k].cfg \in DOMAIN versions
         /\ SemOf(runs[k].cfg) \in Sem
         /\ Feed[SemOf(runs[k].cfg)] \in Seq(Batches)
         /\ Count(k) \in 0 .. MaxBatches
<1>1. runs[k] \in RefreshRun /\ runs[k].cfg \in DOMAIN versions
  BY DEF IInv, TypeOK, Exists, RunsChecked
<1>2. versions[runs[k].cfg] \in Version
  BY <1>1 DEF IInv, ConfigInv, ConfigTypeOK
<1>3. SemOf(runs[k].cfg) \in Sem
  BY <1>2 DEF Version, Edit, SemOf
<1>4. Feed[SemOf(runs[k].cfg)] \in Seq(Batches)
  BY <1>3, ClientAssumption
<1>5. Count(k) \in Nat /\ Count(k) <= MaxBatches
  BY <1>3, <1>4, ClientAssumption DEF Count, FeedOf
<1> QED BY <1>1, <1>3, <1>4, <1>5, RefreshAssumption

(* A step of the service keeps what the versions say. *)
SourcesKept ==
    \A v \in DOMAIN versions :
        v \in DOMAIN versions' /\ versions'[v].source = versions[v].source

(* A step that leaves the record of run k alone, except for its commit. *)
SameRun(k) ==
    /\ Exists(k)' <=> Exists(k)
    /\ Exists(k) => /\ runs'[k].request = runs[k].request
                    /\ runs'[k].cfg = runs[k].cfg
                    /\ runs'[k].batches = runs[k].batches

(* A configuration edit leaves every run alone. *)
LEMMA EditSame ==
  ASSUME IInv, NEW e \in Edit, NEW expected, EditConfig(e, expected)
  PROVE  SourcesKept /\ \A k \in Run : SameRun(k)
<1>1. SourcesKept
  BY EditStep DEF SourcesKept, EditConfig, IInv
<1> QED BY <1>1 DEF EditConfig, SameRun, Exists

(* begin_refresh touches its own run only. *)
LEMMA BeginSame ==
  ASSUME IInv, NEW k \in Run, NEW q \in Requests, Begin(k, q)
  PROVE  SourcesKept /\ \A j \in Run : j # k => SameRun(j)
<1>1. versions' = versions
  BY DEF Begin
<1> QED BY <1>1, BegunRun DEF SameRun, Exists, SourcesKept

(* upload_batch touches its own run only. *)
LEMMA UploadSame ==
  ASSUME IInv, NEW k \in Run, NEW i \in BatchIndex, NEW b \in Batches, Upload(k, i, b)
  PROVE  SourcesKept /\ \A j \in Run : j # k => SameRun(j)
<1>1. versions' = versions
  BY DEF Upload
<1> QED BY <1>1, UploadedRun DEF SameRun, Exists, SourcesKept

(* A commit changes no request, target or batch of any run. *)
LEMMA CommitSame ==
  ASSUME IInv, NEW k \in Run, NEW count, NEW completed, Commit(k, count, completed)
  PROVE  SourcesKept /\ \A j \in Run : SameRun(j)
<1>1. SourcesKept
  BY CommitConfig DEF SourcesKept
<1>2. SameRun(k)
  BY CommittedRun DEF SameRun, Exists
<1>3. \A j \in Run : j # k => SameRun(j)
  BY CommittedRun DEF SameRun, Exists
<1> QED BY <1>1, <1>2, <1>3

(* Nothing happens. *)
LEMMA StutterSame ==
  ASSUME UNCHANGED vars
  PROVE  SourcesKept /\ \A k \in Run : SameRun(k)
BY DEF vars, SourcesKept, SameRun, Exists

(* What a client relies on depends on its run's record alone. *)
LEMMA RecordKept ==
  ASSUME IInv, SourcesKept, NEW k \in Run, Exists(k), SameRun(k)
  PROVE  /\ Exists(k)'
         /\ Received(k)' = Received(k)
         /\ Count(k)' = Count(k)
         /\ runs'[k].request = runs[k].request
         /\ \A vs : BegunFor(k, vs) => BegunFor(k, vs)'
<1>1. versions'[runs'[k].cfg].source.sem = versions[runs[k].cfg].source.sem
  BY RunFeed DEF SourcesKept, SameRun
<1>2. Count(k)' = Count(k)
  BY <1>1 DEF Count, FeedOf, SemOf
<1>3. Received(k)' = Received(k)
  BY DEF Received, SameRun
<1> QED BY <1>2, <1>3 DEF SameRun, BegunFor

(***************************************************************************)
(* A client that does nothing, and whose run is left alone, is where it    *)
(* was.                                                                    *)
(***************************************************************************)
LEMMA ClientKept ==
  ASSUME IInv, SourcesKept, NEW cl \in Client, ClientRun(cl),
         pc'[cl] = pc[cl], key'[cl] = key[cl], req'[cl] = req[cl],
         next'[cl] = next[cl], base'[cl] = base[cl],
         key[cl] \in Run => SameRun(key[cl])
  PROVE  ClientRun(cl)'
<1>1. CASE ~Engaged(cl)
  BY <1>1 DEF ClientRun, Engaged
<1>2. CASE Engaged(cl) /\ ~Exists(key[cl])
  BY <1>2 DEF ClientRun, Engaged, SameRun
<1>3. CASE Engaged(cl) /\ Exists(key[cl])
  <2> DEFINE k == key[cl]
  <2>1. /\ k \in Run /\ req[cl] \in Requests
        /\ runs[k].request = req[cl] /\ BegunFor(k, base[cl])
        /\ Progress(k, pc[cl], next[cl])
    BY <1>3 DEF ClientRun
  <2>2. /\ Exists(k)' /\ Received(k)' = Received(k) /\ Count(k)' = Count(k)
        /\ runs'[k].request = runs[k].request
        /\ BegunFor(k, base[cl])'
    BY <1>3, <2>1, RecordKept
  <2>3. Progress(k, pc[cl], next[cl])'
    BY <2>1, <2>2 DEF Progress
  <2> QED BY <1>3, <2>1, <2>2, <2>3 DEF ClientRun, Engaged
<1> QED BY <1>1, <1>2, <1>3

-----------------------------------------------------------------------------
(* The clients that do not act in a step stay where they were. *)
LEMMA OthersKept ==
  ASSUME IInv, ClientsOnTrack, SourcesKept, NEW a \in Client,
         \A cl \in Client \ {a} :
           /\ pc'[cl] = pc[cl] /\ key'[cl] = key[cl] /\ req'[cl] = req[cl]
           /\ next'[cl] = next[cl] /\ base'[cl] = base[cl],
         \A k \in Run : k # key[a] => SameRun(k)
  PROVE  key[a] \in Run \/ (\A k \in Run : SameRun(k))
           => \A cl \in Client \ {a} : ClientRun(cl)'
<1> SUFFICES ASSUME key[a] \in Run \/ (\A k \in Run : SameRun(k)),
                    NEW cl \in Client \ {a}
             PROVE  ClientRun(cl)'
  OBVIOUS
<1>1. key[cl] \in Run => SameRun(key[cl])
  BY ClientAssumption DEF ClientsOnTrack, OwnKeys
<1> QED BY <1>1, ClientKept DEF ClientsOnTrack

(* What the answer to a request does to the clients' control. *)
LEMMA AnsweredStep ==
  ASSUME ClientTypeOK, NEW a \in Client, NEW heard \in BOOLEAN, NEW step \in Step,
         Answered(a, heard, step)
  PROVE  /\ pc' \in [Client -> Step]
         /\ pc'[a] = IF heard THEN step ELSE pc[a]
         /\ \A cl \in Client \ {a} : pc'[cl] = pc[cl]
BY DEF ClientTypeOK, Answered

(* Choosing a request and a key for it. *)
LEMMA ReadKeepsTrack ==
  ASSUME IInv, ClientsOnTrack, NEW a \in Client, ReadState(a)
  PROVE  ClientsOnTrack'
<1>1. PICK q \in Requests : req' = [req EXCEPT ![a] = q]
  BY DEF ReadState
<1>2. PICK k \in UnusedKeys(a) : key' = [key EXCEPT ![a] = k]
  BY DEF ReadState
<1>3. /\ pc[a] = "idle" /\ pc' = [pc EXCEPT ![a] = "begin"]
      /\ UNCHANGED <<vars, next, base, asked>>
  BY DEF ReadState
<1>4. k \in Run /\ ~Exists(k) /\ \A cl \in Client \ {a} : key[cl] # k
  BY <1>2, <1>3 DEF UnusedKeys
<1>5. ClientTypeOK'
  BY <1>1, <1>2, <1>3, <1>4 DEF ClientsOnTrack, ClientTypeOK, Step
<1>6. OwnKeys'
  BY <1>2, <1>3, <1>4 DEF ClientsOnTrack, ClientTypeOK, OwnKeys
<1>7. SourcesKept /\ \A j \in Run : SameRun(j)
  BY <1>2, <1>3, StutterSame
<1>8. \A cl \in Client \ {a} : ClientRun(cl)'
  <2>1. \A cl \in Client \ {a} :
           /\ pc'[cl] = pc[cl] /\ key'[cl] = key[cl] /\ req'[cl] = req[cl]
           /\ next'[cl] = next[cl] /\ base'[cl] = base[cl]
    BY <1>1, <1>2, <1>3 DEF ClientsOnTrack, ClientTypeOK
  <2> QED BY <1>7, <2>1, OthersKept
<1>9. ClientRun(a)'
  <2>1. ~Exists(k)' /\ next'[a] = 0
    BY <1>2, <1>3, <1>4 DEF vars, Exists, ClientsOnTrack, ClientRun
  <2>2. pc'[a] = "begin" /\ key'[a] = k /\ req'[a] \in Requests
    BY <1>1, <1>2, <1>3 DEF ClientsOnTrack, ClientTypeOK
  <2> QED BY <1>4, <2>1, <2>2 DEF ClientRun
<1> QED BY <1>5, <1>6, <1>8, <1>9 DEF ClientsOnTrack

(* begin_refresh: a new run is for what the client saw. *)
LEMMA CallBeginKeepsTrack ==
  ASSUME IInv, ClientsOnTrack, NEW a \in Client, NEW heard \in BOOLEAN, CallBegin(a, heard)
  PROVE  ClientsOnTrack'
<1>1. PICK k \in Run :
      /\ k = key[a]
      /\ pc[a] = "begin" /\ req[a] \in Requests /\ next[a] = 0
      /\ Exists(k) => /\ runs[k].request = req[a] /\ BegunFor(k, base[a])
                      /\ Received(k) = {}
  BY DEF CallBegin, ClientsOnTrack, ClientRun, Engaged, Progress
<1>2. UNCHANGED <<key, req, next, asked>>
  BY DEF CallBegin
<1>3. ClientTypeOK
  BY DEF ClientsOnTrack
<1>4. OwnKeys'
  BY <1>2 DEF ClientsOnTrack, OwnKeys
<1>5. CASE Begin(k, req[a]) /\ base' = [base EXCEPT ![a] = versions]
           /\ Answered(a, heard, "upload")
  <2>1. /\ pc' \in [Client -> Step]
        /\ pc'[a] \in {"begin", "upload"}
        /\ \A cl \in Client \ {a} : pc'[cl] = pc[cl]
    BY <1>1, <1>3, <1>5, AnsweredStep DEF Step
  <2>2. base' \in [Client -> Seq(Version)] /\ base'[a] = versions
        /\ \A cl \in Client \ {a} : base'[cl] = base[cl]
    BY <1>3, <1>5 DEF ClientTypeOK, IInv, TypeOK, ConfigTypeOK
  <2>3. ClientTypeOK'
    BY <1>2, <1>3, <2>1, <2>2 DEF ClientTypeOK
  <2>4. SourcesKept /\ \A j \in Run : j # k => SameRun(j)
    BY <1>1, <1>5, BeginSame
  <2>5. \A cl \in Client \ {a} : ClientRun(cl)'
    BY <1>1, <1>2, <2>1, <2>2, <2>4, OthersKept
  <2>6. /\ Exists(k)' /\ Received(k)' = {}
        /\ runs'[k].request = req[a]
        /\ runs'[k].cfg = TargetOf(versions, req[a].mode)
        /\ req[a].mode = "incremental" => PendingIn(versions) = 0
    <3>1. runs'[k] # NoRun /\ \A i \in BatchIndex : runs'[k].batches[i] = NoBatch
      BY <1>1, <1>5, BegunRun
    <3>2. /\ runs'[k].request = req[a]
          /\ runs'[k].cfg = TargetVersion(req[a].mode)
      BY <1>1, <1>5 DEF Begin, IInv, TypeOK
    <3>3. req[a].mode = "incremental" => Pending = 0
      BY <1>5 DEF Begin, Beginnable
    <3> QED BY <3>1, <3>2, <3>3 DEF Exists, Received, TargetVersion, TargetOf, Pending, Active
  <2>7. Count(k)' \in Nat
    <3>1. Active # 0 /\ versions' = versions
      BY <1>5 DEF Begin, Beginnable
    <3>2. runs'[k].cfg = TargetVersion(req[a].mode)
      BY <2>6 DEF TargetOf, TargetVersion, Pending, Active
    <3>3. runs'[k].cfg \in DOMAIN versions
      BY <3>1, <3>2, TargetExists DEF IInv
    <3>4. versions[runs'[k].cfg] \in Version
      BY <3>3 DEF IInv, ConfigInv, ConfigTypeOK
    <3>5. versions'[runs'[k].cfg].source.sem \in Sem
      BY <3>1, <3>4 DEF Version, Edit
    <3> DEFINE feed == Feed[versions'[runs'[k].cfg].source.sem]
    <3>6. feed \in Seq(Batches)
      BY <3>5, ClientAssumption
    <3>7. Count(k)' = Len(feed)
      BY DEF Count, FeedOf, SemOf
    <3> HIDE DEF feed
    <3> QED BY <3>6, <3>7
  <2>8. BegunFor(k, base[a])'
    BY <2>2, <2>6 DEF BegunFor
  <2>9. ClientRun(a)'
    BY <1>1, <1>2, <2>1, <2>6, <2>7, <2>8 DEF ClientRun, Progress, Engaged
  <2> QED BY <1>4, <2>3, <2>5, <2>9 DEF ClientsOnTrack
<1>6. CASE \E step \in {"upload", "idle"} :
             /\ Answered(a, heard, step)
             /\ step = "upload" => Exists(k)
             /\ UNCHANGED <<vars, base>>
  <2>1. PICK step \in {"upload", "idle"} :
             /\ Answered(a, heard, step)
             /\ step = "upload" => Exists(k)
             /\ UNCHANGED <<vars, base>>
    BY <1>6
  <2>2. /\ pc' \in [Client -> Step]
        /\ pc'[a] \in {"begin", "upload", "idle"}
        /\ pc'[a] = "upload" => Exists(k)
        /\ \A cl \in Client \ {a} : pc'[cl] = pc[cl]
    BY <1>1, <1>3, <2>1, AnsweredStep DEF Step
  <2>3. ClientTypeOK'
    BY <1>2, <1>3, <2>1, <2>2 DEF ClientTypeOK
  <2>4. SourcesKept /\ \A j \in Run : SameRun(j)
    BY <2>1, StutterSame
  <2>5. \A cl \in Client \ {a} : ClientRun(cl)'
    BY <1>2, <2>1, <2>2, <2>4, OthersKept
  <2>6. ClientRun(a)'
    <3>1. CASE ~Exists(k)
      BY <1>1, <1>2, <2>1, <2>2, <3>1 DEF ClientRun, Engaged, vars, Exists
    <3>2. CASE Exists(k)
      <4>1. /\ Exists(k)' /\ Received(k)' = {} /\ Count(k)' = Count(k)
            /\ runs'[k].request = req[a]
            /\ \A vs : BegunFor(k, vs) => BegunFor(k, vs)'
        BY <1>1, <2>4, <3>2, RecordKept
      <4>2. Count(k) \in Nat
        BY <1>1, <3>2, RunFeed
      <4>3. BegunFor(k, base[a])'
        BY <1>1, <2>1, <3>2, <4>1 DEF BegunFor
      <4>4. Progress(k, pc[a], next[a])'
        BY <1>1, <1>2, <2>2, <4>1, <4>2 DEF Progress
      <4> QED BY <1>1, <1>2, <2>1, <2>2, <4>1, <4>4, <4>3 DEF ClientRun, Engaged
    <3> QED BY <3>1, <3>2
  <2> QED BY <1>4, <2>3, <2>5, <2>6 DEF ClientsOnTrack
<1>7. CASE Recorded(k, req[a]) /\ Answered(a, heard, "upload") /\ UNCHANGED <<vars, base>>
  BY <1>6, <1>7 DEF Recorded
<1>8. CASE Answered(a, heard, "idle") /\ UNCHANGED <<vars, base>>
  BY <1>6, <1>8
<1> QED BY <1>1, <1>5, <1>7, <1>8 DEF CallBegin

(* The batch a client uploads next is one the service knows. *)
LEMMA NextBatch ==
  ASSUME IInv, ClientsOnTrack, NEW a \in Client, pc[a] = "upload", next[a] < Len(Batch(a))
  PROVE  LET b == Batch(a)[next[a] + 1] IN
         /\ key[a] \in Run /\ Exists(key[a]) /\ Len(Batch(a)) = Count(key[a])
         /\ next[a] \in BatchIndex
         /\ b \in Batches /\ b # NoBatch /\ b.items \subseteq Listed
<1> DEFINE k == key[a]
           s == SemOf(runs[k].cfg)
           i == next[a]
           b == Feed[s][i + 1]
<1>1. k \in Run /\ Exists(k)
  BY DEF ClientsOnTrack, ClientRun, Engaged
<1>2. s \in Sem /\ Feed[s] \in Seq(Batches) /\ Count(k) \in 0 .. MaxBatches
  BY <1>1, RunFeed
<1>3. Batch(a) = Feed[s] /\ Count(k) = Len(Feed[s])
  BY DEF Batch, Count, FeedOf
<1>4. i \in Nat
  BY DEF ClientsOnTrack, ClientTypeOK
<1>5. i \in BatchIndex /\ i + 1 \in 1 .. Len(Feed[s])
  BY <1>2, <1>3, <1>4, RefreshAssumption DEF BatchIndex
<1>6. i + 1 \in DOMAIN Feed[s] /\ b \in Batches
  BY <1>2, <1>5
<1>7. b.items \subseteq Listed
  BY <1>2, <1>6 DEF Listed
<1> QED BY <1>1, <1>3, <1>5, <1>6, <1>7, RefreshAssumption

(***************************************************************************)
(* upload_batch: batches arrive in order, and one that arrived unnoticed   *)
(* is the next that is sent again.                                         *)
(***************************************************************************)
LEMMA CallUploadKeepsTrack ==
  ASSUME IInv, ClientsOnTrack, NEW a \in Client, NEW heard \in BOOLEAN, CallUpload(a, heard)
  PROVE  ClientsOnTrack'
<1>1. PICK k \in Run, i \in BatchIndex, b \in Batches :
        /\ k = key[a] /\ i = next[a] /\ b = Batch(a)[i + 1] /\ b # NoBatch
        /\ pc[a] = "upload" /\ Exists(k) /\ i < Count(k)
  BY NextBatch DEF CallUpload
<1>2. /\ next' = [next EXCEPT ![a] = IF heard THEN i + 1 ELSE i]
      /\ UNCHANGED <<pc, key, req, full, asked, base>>
  BY <1>1 DEF CallUpload
<1>3. /\ req[a] \in Requests /\ runs[k].request = req[a]
      /\ BegunFor(k, base[a])
      /\ Received(k) = 0 .. (i - 1) \/ Received(k) = 0 .. i
  BY <1>1 DEF ClientsOnTrack, ClientRun, Engaged, Progress
<1>4. i \in Nat /\ Count(k) \in Nat
  BY <1>1, RunFeed, RefreshAssumption DEF BatchIndex
<1>5. /\ SourcesKept /\ \A j \in Run : j # k => SameRun(j)
      /\ Exists(k)' /\ Received(k)' = 0 .. i /\ Count(k)' = Count(k)
      /\ runs'[k].request = runs[k].request
      /\ BegunFor(k, base[a])'
  <2>1. CASE Upload(k, i, b)
    <3>1. SourcesKept /\ \A j \in Run : j # k => SameRun(j)
      BY <1>1, <2>1, UploadSame
    <3>2. /\ runs[k].batches[i] = NoBatch /\ runs[k] \in RefreshRun
          /\ runs'[k] # NoRun
          /\ runs'[k].request = runs[k].request /\ runs'[k].cfg = runs[k].cfg
          /\ runs'[k].batches = [runs[k].batches EXCEPT ![i] = b]
      BY <1>1, <2>1, UploadedRun
    <3>3. versions' = versions
      BY <2>1 DEF Upload
    <3>4. i \notin Received(k)
      BY <3>2 DEF Received
    <3>5. Received(k) = 0 .. (i - 1)
      BY <1>3, <1>4, <3>4
    <3>6. Received(k)' = Received(k) \union {i}
      BY <1>1, <3>2 DEF Received, RefreshRun
    <3>7. Received(k)' = 0 .. i
      BY <1>4, <3>5, <3>6
    <3> QED BY <1>2, <1>3, <3>1, <3>2, <3>3, <3>7 DEF Exists, Count, FeedOf, SemOf, BegunFor
  <2>2. CASE runs[k].batches[i] = b /\ UNCHANGED vars
    <3>1. SourcesKept /\ \A j \in Run : SameRun(j)
      BY <2>2, StutterSame
    <3>2. i \in Received(k)
      BY <1>1, <2>2 DEF Received
    <3>3. Received(k) = 0 .. i
      BY <1>3, <1>4, <3>2
    <3>4. /\ Exists(k)' /\ Received(k)' = Received(k) /\ Count(k)' = Count(k)
          /\ runs'[k].request = runs[k].request
          /\ \A vs : BegunFor(k, vs) => BegunFor(k, vs)'
      BY <1>1, <3>1, RecordKept
    <3>5. BegunFor(k, base[a])'
      BY <1>2, <1>3, <3>4 DEF BegunFor
    <3> QED BY <3>1, <3>3, <3>4, <3>5
  <2> QED BY <1>1, <2>1, <2>2 DEF CallUpload
<1>6. ClientTypeOK'
  BY <1>2, <1>4 DEF ClientsOnTrack, ClientTypeOK
<1>7. OwnKeys'
  BY <1>2 DEF ClientsOnTrack, OwnKeys
<1>8. \A cl \in Client \ {a} : ClientRun(cl)'
  <2>1. \A cl \in Client \ {a} : next'[cl] = next[cl]
    BY <1>2 DEF ClientsOnTrack, ClientTypeOK
  <2> QED BY <1>1, <1>2, <1>5, <2>1, OthersKept
<1>9. ClientRun(a)'
  <2>1. next'[a] \in {i, i + 1}
    BY <1>2 DEF ClientsOnTrack, ClientTypeOK
  <2>2. /\ next'[a] <= Count(k)
        /\ \/ 0 .. i = 0 .. (next'[a] - 1)
           \/ next'[a] < Count(k) /\ 0 .. i = 0 .. next'[a]
    <3>1. next'[a] = i => next'[a] < Count(k) /\ 0 .. i = 0 .. next'[a]
      BY <1>1
    <3>2. next'[a] = i + 1 => next'[a] <= Count(k) /\ 0 .. i = 0 .. (next'[a] - 1)
      BY <1>1, <1>4
    <3> QED BY <1>4, <2>1, <3>1, <3>2
  <2>3. Progress(k, pc[a], next[a])'
    BY <1>1, <1>2, <1>5, <2>2 DEF Progress
  <2> QED BY <1>1, <1>2, <1>3, <1>5, <2>3 DEF ClientRun, Engaged
<1> QED BY <1>6, <1>7, <1>8, <1>9 DEF ClientsOnTrack

(* After its last batch a client asks for the commit of a complete run. *)
LEMMA UploadedKeepsTrack ==
  ASSUME IInv, ClientsOnTrack, NEW a \in Client, Uploaded(a)
  PROVE  ClientsOnTrack'
<1>1. PICK k \in Run : k = key[a] /\ Exists(k)
  BY DEF Uploaded, ClientsOnTrack, ClientRun, Engaged
<1>2. /\ pc[a] = "upload" /\ next[a] = Count(k)
      /\ pc' = [pc EXCEPT ![a] = "commit"] /\ next' = [next EXCEPT ![a] = 0]
      /\ asked' = asked \union {k}
      /\ UNCHANGED <<vars, key, req, full, base>>
  BY <1>1 DEF Uploaded, Batch, Count, FeedOf
<1>3. /\ req[a] \in Requests /\ runs[k].request = req[a]
      /\ BegunFor(k, base[a])
      /\ Received(k) = 0 .. (Count(k) - 1)
  BY <1>1, <1>2, RunFeed DEF ClientsOnTrack, ClientRun, Engaged, Progress
<1>4. SourcesKept /\ \A j \in Run : SameRun(j)
  BY <1>2, StutterSame
<1>5. /\ Exists(k)' /\ Received(k)' = Received(k) /\ Count(k)' = Count(k)
      /\ runs'[k].request = runs[k].request
      /\ \A vs : BegunFor(k, vs) => BegunFor(k, vs)'
  BY <1>1, <1>4, RecordKept
<1>6. ClientTypeOK'
  BY <1>1, <1>2 DEF ClientsOnTrack, ClientTypeOK, Step
<1>7. OwnKeys'
  BY <1>2 DEF ClientsOnTrack, OwnKeys
<1>8. /\ pc'[a] = "commit" /\ next'[a] = 0
      /\ \A cl \in Client \ {a} : pc'[cl] = pc[cl] /\ next'[cl] = next[cl]
  BY <1>2 DEF ClientsOnTrack, ClientTypeOK
<1>9. \A cl \in Client \ {a} : ClientRun(cl)'
  BY <1>2, <1>4, <1>8, OthersKept
<1>10. ClientRun(a)'
  <2>1. BegunFor(k, base[a])'
    BY <1>2, <1>3, <1>5 DEF BegunFor
  <2>2. Progress(k, pc[a], next[a])'
    BY <1>3, <1>5, <1>8 DEF Progress
  <2> QED BY <1>1, <1>2, <1>3, <1>5, <1>8, <2>1, <2>2 DEF ClientRun, Engaged
<1> QED BY <1>6, <1>7, <1>9, <1>10 DEF ClientsOnTrack

(* A commit, heard or not, timely or late, takes no client off its track. *)
LEMMA CallCommitKeepsTrack ==
  ASSUME IInv, ClientsOnTrack, NEW a \in Client, NEW heard \in BOOLEAN, CallCommit(a, heard)
  PROVE  ClientsOnTrack'
<1>1. PICK k \in Run : k = key[a] /\ Exists(k)
  BY DEF CallCommit, ClientsOnTrack, ClientRun, Engaged
<1>2. /\ pc[a] = "commit"
      /\ base' = [base EXCEPT ![a] = IF heard THEN <<>> ELSE @]
      /\ UNCHANGED <<key, req, next, full, asked>>
  BY DEF CallCommit
<1>3. SourcesKept /\ \A j \in Run : SameRun(j)
  <2>1. CASE UNCHANGED vars
    BY <2>1, StutterSame
  <2>2. CASE Commit(k, Count(k), Completed(k))
    BY <2>2, CommitSame
  <2> QED BY <1>1, <2>1, <2>2 DEF CallCommit
<1>4. /\ pc' \in [Client -> Step]
      /\ heard => pc'[a] \in {"idle", "done"}
      /\ ~heard => pc'[a] = pc[a]
      /\ \A cl \in Client \ {a} : pc'[cl] = pc[cl]
  <2>1. PICK step \in {"idle", "done"} : Answered(a, heard, step)
    BY DEF CallCommit
  <2>2. step \in Step
    BY DEF Step
  <2> QED BY <2>1, <2>2, AnsweredStep DEF ClientsOnTrack
<1>5. /\ base' \in [Client -> Seq(Version)]
      /\ ~heard => base'[a] = base[a]
      /\ \A cl \in Client \ {a} : base'[cl] = base[cl]
  BY <1>2 DEF ClientsOnTrack, ClientTypeOK
<1>6. ClientTypeOK'
  BY <1>2, <1>4, <1>5 DEF ClientsOnTrack, ClientTypeOK
<1>7. OwnKeys'
  BY <1>2 DEF ClientsOnTrack, OwnKeys
<1>8. \A cl \in Client \ {a} : ClientRun(cl)'
  BY <1>2, <1>3, <1>4, <1>5, OthersKept
<1>9. ClientRun(a)'
  <2>1. CASE heard
    BY <1>2, <1>4, <2>1 DEF ClientRun, Engaged, ClientsOnTrack
  <2>2. CASE ~heard
    <3>1. ClientRun(a)
      BY DEF ClientsOnTrack
    <3> QED BY <1>2, <1>3, <1>4, <1>5, <2>2, <3>1, ClientKept
  <2> QED BY <2>1, <2>2
<1> QED BY <1>6, <1>7, <1>8, <1>9 DEF ClientsOnTrack

(* Steps that no client takes part in. *)
LEMMA ServiceKeepsTrack ==
  ASSUME IInv, ClientsOnTrack, UNCHANGED clientVars,
         SourcesKept, \A k \in Run : SameRun(k)
  PROVE  ClientsOnTrack'
<1>1. UNCHANGED <<pc, key, req, next, asked, base>>
  BY DEF clientVars
<1>2. ClientTypeOK' /\ OwnKeys'
  BY <1>1 DEF ClientsOnTrack, ClientTypeOK, OwnKeys
<1>3. \A cl \in Client : ClientRun(cl)'
  BY <1>1, ClientKept DEF ClientsOnTrack
<1> QED BY <1>2, <1>3 DEF ClientsOnTrack

-----------------------------------------------------------------------------
(* The scope of the last committed run is still what the sync state names. *)
LEMMA ScopeStays ==
  ASSUME IInv, ScopeKept, sync' = sync, NEW j \in Run, ScopeOf(j)',
         \A k \in Run : k # j => runs'[k] = runs[k],
         ~Committed(j)
  PROVE  ScopeKept'
<1>1. sync # NoSync => runs'[sync.run] = runs[sync.run]
  BY DEF IInv, PublishedTogether, TypeOK, SyncState
<1>2. \A q : SameScope(q)' <=> SameScope(q)
  BY <1>1 DEF SameScope
<1>3. ASSUME NEW k \in Run, k # j PROVE ScopeOf(k)'
  <2>1. ScopeOf(k)
    BY DEF ScopeKept
  <2>2. Revision' = Revision /\ runs'[k] = runs[k]
    BY <1>3 DEF Revision
  <2> QED BY <1>2, <2>1, <2>2 DEF ScopeOf, Exists, Committed
<1> QED BY <1>3 DEF ScopeKept

(* No step moves an open run's base past the revision, or its scope. *)
LEMMA StepKeepsScope ==
  ASSUME IInv, ScopeKept, [Next]_vars
  PROVE  ScopeKept'
<1>1. Revision \in Nat
  BY DEF Revision, IInv, TypeOK, SyncState
<1>2. ASSUME runs' = runs, sync' = sync PROVE ScopeKept'
  BY <1>2 DEF ScopeKept, ScopeOf, Exists, Committed, Revision, SameScope
<1>3. ASSUME NEW j \in Run, NEW q \in Requests, Begin(j, q) PROVE ScopeKept'
  <2>1. /\ ~Exists(j) /\ sync' = sync /\ Revision' = Revision
        /\ runs'[j].before = Revision /\ runs'[j].request = q
        /\ q.mode = "incremental" => SameScope(q.accounts)
    BY <1>3 DEF Begin, Beginnable, Revision, IInv, TypeOK
  <2>2. \A k \in Run : k # j => runs'[k] = runs[k]
    BY <1>3, BegunRun
  <2>3. sync # NoSync => runs'[sync.run] = runs[sync.run]
    BY <2>1, <2>2 DEF IInv, PublishedTogether, TypeOK, SyncState, Committed
  <2>4. ScopeOf(j)'
    BY <1>1, <2>1, <2>3 DEF ScopeOf, SameScope
  <2> QED BY <2>1, <2>2, <2>4, ScopeStays DEF Committed
<1>4. ASSUME NEW j \in Run, NEW i \in BatchIndex, NEW b \in Batches, Upload(j, i, b)
      PROVE  ScopeKept'
  <2>1. /\ Exists(j) /\ ~Committed(j)
        /\ runs'[j].before = runs[j].before /\ runs'[j].request = runs[j].request
        /\ \A k \in Run : k # j => runs'[k] = runs[k]
    BY <1>4, UploadedRun
  <2>2. sync' = sync /\ Revision' = Revision
    BY <1>4 DEF Upload, Revision
  <2>3. sync # NoSync => runs'[sync.run] = runs[sync.run]
    BY <2>1 DEF IInv, PublishedTogether, TypeOK, SyncState
  <2>4. ScopeOf(j)'
    BY <2>1, <2>2, <2>3 DEF ScopeKept, ScopeOf, SameScope
  <2> QED BY <2>1, <2>2, <2>4, ScopeStays
<1>5. ASSUME NEW j \in Run, NEW count, NEW completed, Commit(j, count, completed)
      PROVE  ScopeKept'
  <2>1. /\ runs[j] \in RefreshRun /\ runs'[j].state = "committed" /\ runs'[j] # NoRun
        /\ \A k \in Run : k # j => runs'[k] = runs[k]
    BY <1>5, CommittedRun
  <2>2. sync' = [cfg |-> runs[j].cfg, run |-> j, rev |-> Revision + 1]
    BY <1>5 DEF Commit
  <2>3. Revision' = Revision + 1
    <3>1. sync' \in SyncState
      BY <1>1, <2>1, <2>2 DEF SyncState, RefreshRun
    <3> QED BY <2>2, <3>1, RefreshAssumption DEF Revision
  <2>4. ASSUME NEW k \in Run PROVE ScopeOf(k)'
    <3>1. CASE k = j
      BY <2>1, <3>1 DEF ScopeOf, Committed, Exists
    <3>2. CASE k # j /\ Exists(k) /\ ~Committed(k)
      <4>1. runs[k].before <= Revision /\ runs'[k] = runs[k]
        BY <2>1, <3>2 DEF ScopeKept, ScopeOf
      <4>2. runs[k].before \in Nat
        BY <3>2 DEF IInv, TypeOK, Exists, RefreshRun
      <4>3. runs'[k].before < Revision'
        BY <1>1, <2>3, <4>1, <4>2
      <4>4. runs'[k].before # Revision' /\ runs'[k].before <= Revision'
        BY <1>1, <2>3, <4>1, <4>2
      <4> QED BY <4>4 DEF ScopeOf
    <3>3. CASE k # j /\ ~(Exists(k) /\ ~Committed(k))
      BY <2>1, <3>3 DEF ScopeOf, Exists, Committed
    <3> QED BY <3>1, <3>2, <3>3
  <2> QED BY <2>4 DEF ScopeKept
<1>6. ASSUME NEW e, NEW expected, EditConfig(e, expected) PROVE ScopeKept'
  BY <1>2, <1>6 DEF EditConfig
<1>7. CASE UNCHANGED vars
  BY <1>2, <1>7 DEF vars
<1> QED BY <1>3, <1>4, <1>5, <1>6, <1>7 DEF Next

-----------------------------------------------------------------------------
(* A commit stores what was listed before or is staged now. *)
LEMMA CommitListed ==
  ASSUME IInv, StagedListed, LiveListed(live),
         NEW k \in Run, NEW count, NEW completed, Commit(k, count, completed)
  PROVE  StagedListed' /\ LiveListed(live')
<1>1. /\ runs'[k].staged = {} /\ Exists(k)
      /\ \A j \in Run : j # k => runs'[j] = runs[j]
  BY CommittedRun
<1>2. StagedListed'
  BY <1>1 DEF StagedListed, Exists
<1>3. /\ runs[k] \in RefreshRun /\ runs[k].cfg \in Nat
      /\ runs[k].staged \in SUBSET Item /\ runs[k].request.to \in Int
      /\ live \in Ledger
  BY CommittableRun DEF Commit
<1>4. live' = Prune(MergedLedger(k), Rules[SemOf(runs[k].cfg)], runs[k].request.to)
  BY DEF Commit
<1>5. MergedLedger(k) \in Ledger
  BY <1>3, MergeType DEF MergedLedger
<1>6. ASSUME NEW id \in Identity, live'[id] # NoTx
      PROVE  \E x \in Listed : Id(x) = id /\ x.pend = live'[id].pend
  <2> DEFINE m == MergedLedger(k)[id]
  <2>1. m # NoTx /\ live'[id].pend = m.pend
    BY <1>3, <1>4, <1>5, <1>6, PruneRows
  <2>2. CASE m = live[id]
    BY <2>1, <2>2 DEF LiveListed
  <2>3. CASE \E x \in runs[k].staged, first \in Run :
               Id(x) = id /\ m = RowOf(x, runs[k].cfg, first, k)
    <3>1. PICK x \in runs[k].staged, first \in Run :
               Id(x) = id /\ m = RowOf(x, runs[k].cfg, first, k)
      BY <2>3
    <3>2. m.pend = x.pend
      BY <3>1 DEF RowOf
    <3>3. x \in Listed
      BY <1>1, <3>1 DEF StagedListed
    <3> QED BY <2>1, <3>1, <3>2, <3>3
  <2>4. CASE runs[k].request.mode = "full"
    <3>1. m = ReplaceAll(runs[k].staged, k, runs[k].cfg)[id]
      BY <2>4 DEF MergedLedger
    <3> QED BY <1>3, <2>1, <2>3, <3>1, ReplaceAllRows
  <2>5. CASE runs[k].request.mode # "full"
    <3>1. m = MergeIncremental(runs[k].staged, live, k, runs[k].cfg)[id]
      BY <2>5 DEF MergedLedger
    <3>2. \/ m = NoTx
          \/ m = live[id]
          \/ \E i \in runs[k].staged, first \in Run :
               /\ Id(i) = id
               /\ first = IF live[id] = NoTx THEN k ELSE live[id].first
               /\ m = RowOf(i, runs[k].cfg, first, k)
      BY <1>3, <3>1, MergeRows
    <3> QED BY <2>1, <2>2, <2>3, <3>2
  <2> QED BY <2>4, <2>5
<1> QED BY <1>2, <1>6 DEF LiveListed

(* An upload stages listed items. *)
LEMMA UploadListed ==
  ASSUME IInv, StagedListed, NEW k \in Run, NEW i \in BatchIndex, NEW b \in Batches,
         Upload(k, i, b), b.items \subseteq Listed
  PROVE  StagedListed'
<1>1. runs'[k].staged = runs[k].staged \union b.items
  BY DEF Upload, IInv, TypeOK
<1>2. Exists(k)
  BY DEF Upload
<1>3. \A j \in Run : j # k => runs'[j] = runs[j]
  BY UploadedRun
<1> QED BY <1>1, <1>2, <1>3 DEF StagedListed, Exists

(* A new run has nothing staged. *)
LEMMA BeginListed ==
  ASSUME IInv, StagedListed, NEW k \in Run, NEW q \in Requests, Begin(k, q)
  PROVE  StagedListed'
<1>1. /\ runs'[k].staged = {} /\ \A j \in Run : j # k => runs'[j] = runs[j]
  BY BegunRun
<1> QED BY <1>1 DEF StagedListed, Exists

(* An accepted commit request is one the service enumerates. *)
LEMMA CommitIsCall ==
  ASSUME IInv, NEW k \in Run, Commit(k, Count(k), Completed(k))
  PROVE  Next
<1>1. Exists(k) /\ runs[k] \in RefreshRun
  BY CommittedRun
<1>2. Count(k) \in 0 .. MaxBatches
  BY <1>1, RunFeed
<1>3. Completed(k) \in SUBSET Account
  BY <1>1, RefreshAssumption DEF Completed, RefreshRun, BeginRequest
<1> QED BY <1>2, <1>3 DEF Next

(* Every step of a client is a step of the service, or none of its. *)
LEMMA ClientStep ==
  ASSUME ClientInv, [ClientNext]_allVars
  PROVE  [Next]_vars /\ ClientInv'
<1> USE DEF ClientInv
<1> DEFINE Fine == [Next]_vars /\ ClientsOnTrack' /\ StagedListed' /\ LiveListed(live')
<1>1. ASSUME [Next]_vars PROVE IInv' /\ ScopeKept'
  BY <1>1, StepKeepsIInv, StepKeepsScope
<1>2. ASSUME UNCHANGED vars, ClientsOnTrack' PROVE Fine
  <2>1. StagedListed' /\ live' = live
    BY <1>2 DEF vars, StagedListed, Exists
  <2> QED BY <1>2, <2>1
<1>3. ASSUME NEW a \in Client, ReadState(a) PROVE Fine
  BY <1>2, <1>3, ReadKeepsTrack DEF ReadState
<1>4. ASSUME NEW a \in Client, Uploaded(a) PROVE Fine
  BY <1>2, <1>4, UploadedKeepsTrack DEF Uploaded
<1>5. ASSUME NEW a \in Client, NEW heard \in BOOLEAN, CallBegin(a, heard) PROVE Fine
  <2>1. ClientsOnTrack'
    BY <1>5, CallBeginKeepsTrack
  <2>2. key[a] \in Run /\ req[a] \in Requests
    BY <1>5 DEF CallBegin, ClientsOnTrack, ClientRun, Engaged
  <2>3. CASE Begin(key[a], req[a])
    <3>1. Next /\ live' = live
      BY <2>2, <2>3 DEF Next, Begin
    <3> QED BY <2>1, <2>2, <2>3, <3>1, BeginListed
  <2>4. CASE UNCHANGED vars
    BY <1>2, <2>1, <2>4
  <2> QED BY <1>5, <2>3, <2>4 DEF CallBegin
<1>6. ASSUME NEW a \in Client, NEW heard \in BOOLEAN, CallUpload(a, heard) PROVE Fine
  <2>1. ClientsOnTrack'
    BY <1>6, CallUploadKeepsTrack
  <2>2. PICK k \in Run, i \in BatchIndex, b \in Batches :
           k = key[a] /\ i = next[a] /\ b = Batch(a)[i + 1] /\ b.items \subseteq Listed
    BY <1>6, NextBatch DEF CallUpload
  <2>3. CASE Upload(k, i, b)
    <3>1. Next /\ live' = live
      BY <2>3 DEF Next, Upload
    <3> QED BY <2>1, <2>2, <2>3, <3>1, UploadListed
  <2>4. CASE UNCHANGED vars
    BY <1>2, <2>1, <2>4
  <2> QED BY <1>6, <2>2, <2>3, <2>4 DEF CallUpload
<1>7. ASSUME NEW a \in Client, NEW heard \in BOOLEAN, CallCommit(a, heard) PROVE Fine
  <2>1. ClientsOnTrack'
    BY <1>7, CallCommitKeepsTrack
  <2>2. key[a] \in Run
    BY <1>7 DEF CallCommit, ClientsOnTrack, ClientRun, Engaged
  <2>3. CASE Commit(key[a], Count(key[a]), Completed(key[a]))
    BY <2>1, <2>2, <2>3, CommitIsCall, CommitListed
  <2>4. CASE UNCHANGED vars
    BY <1>2, <2>1, <2>4
  <2> QED BY <1>7, <2>3, <2>4 DEF CallCommit
<1>8. ASSUME NEW k \in asked, LateCommit(k) PROVE Fine
  <2>1. k \in Run
    BY DEF ClientsOnTrack, ClientTypeOK
  <2>2. Commit(k, Count(k), Completed(k)) /\ UNCHANGED clientVars
    BY <1>8 DEF LateCommit
  <2>3. ClientsOnTrack'
    BY <2>1, <2>2, CommitSame, ServiceKeepsTrack
  <2> QED BY <2>1, <2>2, <2>3, CommitIsCall, CommitListed
<1>9. ASSUME NEW e \in Edit, NEW expected \in Edit \union {NoBase}, EditBetween(e, expected)
      PROVE  Fine
  <2>1. EditConfig(e, expected) /\ UNCHANGED clientVars
    BY <1>9 DEF EditBetween
  <2>2. ClientsOnTrack'
    BY <2>1, EditSame, ServiceKeepsTrack
  <2>3. Next /\ StagedListed' /\ live' = live
    BY <2>1 DEF Next, EditConfig, StagedListed, Exists
  <2> QED BY <2>2, <2>3
<1>10. ASSUME UNCHANGED allVars PROVE Fine
  <2>1. UNCHANGED vars /\ UNCHANGED clientVars
    BY <1>10 DEF allVars
  <2>2. SourcesKept /\ \A k \in Run : SameRun(k)
    BY <2>1, StutterSame
  <2>3. ClientsOnTrack'
    BY <2>1, <2>2, ServiceKeepsTrack
  <2> QED BY <1>2, <2>1, <2>3
<1> QED BY <1>1, <1>3, <1>4, <1>5, <1>6, <1>7, <1>8, <1>9, <1>10 DEF ClientNext, Call

(* Clients start idle, in an empty database. *)
LEMMA ClientStart == ClientInit => ClientInv
<1> SUFFICES ASSUME ClientInit PROVE ClientInv
  OBVIOUS
<1>1. IInv
  BY InitIInv DEF ClientInit
<1>2. \A k \in Run : ~Exists(k)
  BY DEF ClientInit, Init, Exists
<1>3. \A id \in Identity : live[id] = NoTx
  BY DEF ClientInit, Init
<1>4. ClientTypeOK
  <2>1. <<>> \in Seq(Version)
    OBVIOUS
  <2> QED BY <2>1 DEF ClientInit, ClientTypeOK, Step
<1>5. OwnKeys /\ \A cl \in Client : ClientRun(cl)
  BY DEF ClientInit, OwnKeys, ClientRun, Engaged
<1>6. ScopeKept /\ StagedListed /\ LiveListed(live)
  BY <1>2, <1>3 DEF ScopeKept, ScopeOf, StagedListed, LiveListed
<1> QED BY <1>1, <1>4, <1>5, <1>6 DEF ClientInv, ClientsOnTrack

(* The invariant holds, and clients take the steps of RefreshRuns only. *)
LEMMA ClientsCorrect == ClientSpec => []ClientInv /\ Spec
<1>1. ClientInv /\ [ClientNext]_allVars => [Next]_vars /\ ClientInv'
  BY ClientStep
<1>2. ClientInit => Init
  BY DEF ClientInit
<1> QED BY <1>1, <1>2, ClientStart, PTL DEF ClientSpec, Spec

-----------------------------------------------------------------------------
(***************************************************************************)
(* What a run has on record was fed to it, and a committed run has all of  *)
(* its feed; what a client was told of its run is what the record says.    *)
(***************************************************************************)
FedOf(k) ==
    Exists(k) =>
        /\ \A i \in Received(k) :
             i < Count(k) /\ runs[k].batches[i] = FeedOf(k)[i + 1]
        /\ Committed(k) => Received(k) = 0 .. (Count(k) - 1)

ToldOf(cl) ==
    pc[cl] = "done" => /\ key[cl] \in Run /\ Committed(key[cl])
                       /\ runs[key[cl]].request = req[cl]

ServedInv == (\A k \in Run : FedOf(k)) /\ (\A cl \in Client : ToldOf(cl))

(* A run whose record and state stay has what it had. *)
LEMMA FedKept ==
  ASSUME IInv, SourcesKept, NEW k \in Run, FedOf(k), SameRun(k),
         Committed(k)' => Committed(k) \/ Received(k) = 0 .. (Count(k) - 1)
  PROVE  FedOf(k)'
<1> SUFFICES ASSUME Exists(k)' PROVE FedOf(k)'
  BY DEF FedOf
<1>1. Exists(k) /\ runs'[k].batches = runs[k].batches
  BY DEF SameRun
<1>2. Received(k)' = Received(k) /\ Count(k)' = Count(k)
  BY <1>1, RecordKept
<1>3. FeedOf(k)' = FeedOf(k)
  BY <1>1, RunFeed DEF FeedOf, SemOf, SourcesKept, SameRun
<1> QED BY <1>1, <1>2, <1>3 DEF FedOf

(* begin_refresh records no batch. *)
LEMMA BeginFeeds ==
  ASSUME IInv, \A k \in Run : FedOf(k), NEW j \in Run, NEW q \in Requests, Begin(j, q)
  PROVE  \A k \in Run : FedOf(k)'
<1>1. FedOf(j)'
  BY BegunRun DEF FedOf, Received, Committed
<1>2. ASSUME NEW k \in Run, k # j PROVE FedOf(k)'
  <2>1. SourcesKept /\ SameRun(k)
    BY <1>2, BeginSame
  <2>2. runs'[k] = runs[k]
    BY <1>2, BegunRun
  <2> QED BY <2>1, <2>2, FedKept DEF Committed, Exists
<1> QED BY <1>1, <1>2

(* upload_batch records the batch that the client reads at that place. *)
LEMMA UploadFeeds ==
  ASSUME IInv, \A k \in Run : FedOf(k), NEW j \in Run, NEW i \in BatchIndex, NEW b \in Batches,
         Upload(j, i, b), i < Count(j), b = FeedOf(j)[i + 1]
  PROVE  \A k \in Run : FedOf(k)'
<1>1. /\ Exists(j) /\ runs[j] \in RefreshRun /\ runs'[j] # NoRun
      /\ runs'[j].state = "uploaded" /\ runs'[j].cfg = runs[j].cfg
      /\ runs'[j].batches = [runs[j].batches EXCEPT ![i] = b]
      /\ \A k \in Run : k # j => runs'[k] = runs[k]
  BY UploadedRun
<1>2. versions' = versions
  BY DEF Upload
<1>3. FeedOf(j)' = FeedOf(j) /\ Count(j)' = Count(j)
  BY <1>1, <1>2 DEF FeedOf, Count, SemOf
<1>4. FedOf(j)'
  <2>1. ASSUME NEW n \in Received(j)'
        PROVE  n < Count(j) /\ runs'[j].batches[n] = FeedOf(j)[n + 1]
    <3>1. n \in BatchIndex /\ runs'[j].batches[n] # NoBatch
      BY <2>1 DEF Received
    <3>2. CASE n = i
      BY <1>1, <3>2 DEF RefreshRun
    <3>3. CASE n # i
      <4>1. runs'[j].batches[n] = runs[j].batches[n]
        BY <1>1, <3>1, <3>3 DEF RefreshRun
      <4>2. n \in Received(j)
        BY <3>1, <4>1 DEF Received
      <4> QED BY <1>1, <4>1, <4>2 DEF FedOf
    <3> QED BY <3>2, <3>3
  <2>2. ~Committed(j)'
    BY <1>1 DEF Committed
  <2> QED BY <1>3, <2>1, <2>2 DEF FedOf
<1>5. ASSUME NEW k \in Run, k # j PROVE FedOf(k)'
  <2>1. SourcesKept /\ SameRun(k)
    BY <1>5, UploadSame
  <2> QED BY <1>1, <1>5, <2>1, FedKept DEF Committed, Exists
<1> QED BY <1>4, <1>5

(* commit_refresh commits a run only if its batches are complete. *)
LEMMA CommitFeeds ==
  ASSUME IInv, \A k \in Run : FedOf(k), NEW j \in Run, Commit(j, Count(j), Completed(j))
  PROVE  \A k \in Run : FedOf(k)'
<1>1. SourcesKept /\ \A k \in Run : SameRun(k)
  BY CommitSame
<1>2. Received(j) = 0 .. (Count(j) - 1)
  BY DEF Commit, Committable
<1>3. \A k \in Run : k # j => runs'[k] = runs[k]
  BY CommittedRun
<1> QED BY <1>1, <1>2, <1>3, FedKept DEF Committed, Exists

(* A step that leaves all runs alone. *)
LEMMA RestFeeds ==
  ASSUME IInv, \A k \in Run : FedOf(k), SourcesKept, runs' = runs
  PROVE  \A k \in Run : FedOf(k)'
BY FedKept DEF SameRun, Committed, Exists

(* A client that was told keeps what it was told. *)
LEMMA ToldKept ==
  ASSUME IInv, [Next]_vars, NEW cl \in Client, ToldOf(cl),
         pc'[cl] = "done" => pc[cl] = "done" /\ key'[cl] = key[cl] /\ req'[cl] = req[cl]
  PROVE  ToldOf(cl)'
<1>1. ASSUME NEW k \in Run, Committed(k) PROVE runs'[k] = runs[k]
  <2>1. CASE Next
    BY <1>1, <2>1, RecordStep DEF HistoryOf, Committed
  <2>2. CASE UNCHANGED vars
    BY <2>2 DEF vars
  <2> QED BY <2>1, <2>2
<1> QED BY <1>1 DEF ToldOf, Committed, Exists

(* Every step of the clients keeps both. *)
LEMMA ServedStep ==
  ASSUME ClientInv, ServedInv, [ClientNext]_allVars
  PROVE  ServedInv'
<1> USE DEF ClientInv, ServedInv
<1>1. [Next]_vars
  BY ClientStep
<1>2. ClientTypeOK
  BY DEF ClientsOnTrack
<1> DEFINE Quiet == \A cl \in Client :
             pc'[cl] = "done" => pc[cl] = "done" /\ key'[cl] = key[cl] /\ req'[cl] = req[cl]
<1>3. ASSUME Quiet PROVE \A cl \in Client : ToldOf(cl)'
  BY <1>1, <1>3, ToldKept
<1>4. ASSUME UNCHANGED vars PROVE \A k \in Run : FedOf(k)'
  BY <1>4, StutterSame, RestFeeds DEF vars
<1>5. ASSUME NEW a \in Client, ReadState(a) PROVE ServedInv'
  <2>1. Quiet
    BY <1>2, <1>5 DEF ReadState, ClientTypeOK
  <2> QED BY <1>3, <1>4, <1>5, <2>1 DEF ReadState
<1>6. ASSUME NEW a \in Client, Uploaded(a) PROVE ServedInv'
  <2>1. Quiet
    BY <1>2, <1>6 DEF Uploaded, ClientTypeOK
  <2> QED BY <1>3, <1>4, <1>6, <2>1 DEF Uploaded
<1>7. ASSUME NEW a \in Client, NEW heard \in BOOLEAN, CallBegin(a, heard) PROVE ServedInv'
  <2>1. Quiet
    BY <1>2, <1>7 DEF CallBegin, Answered, ClientTypeOK
  <2>2. key[a] \in Run /\ req[a] \in Requests
    BY <1>7 DEF CallBegin, ClientsOnTrack, ClientRun, Engaged
  <2>3. Begin(key[a], req[a]) \/ UNCHANGED vars
    BY <1>7 DEF CallBegin
  <2> QED BY <1>3, <1>4, <2>1, <2>2, <2>3, BeginFeeds
<1>8. ASSUME NEW a \in Client, NEW heard \in BOOLEAN, CallUpload(a, heard) PROVE ServedInv'
  <2>1. Quiet
    BY <1>8 DEF CallUpload
  <2>2. PICK k \in Run, i \in BatchIndex, b \in Batches :
          /\ k = key[a] /\ i = next[a] /\ i < Count(k)
          /\ b = Batch(a)[i + 1] /\ b = FeedOf(k)[i + 1]
    BY <1>8, NextBatch DEF CallUpload, Batch
  <2>3. Upload(k, i, b) \/ UNCHANGED vars
    BY <1>8, <2>2 DEF CallUpload
  <2> QED BY <1>3, <1>4, <2>1, <2>2, <2>3, UploadFeeds
<1>9. ASSUME NEW a \in Client, NEW heard \in BOOLEAN, CallCommit(a, heard) PROVE ServedInv'
  <2>1. PICK k \in Run : k = key[a] /\ Exists(k) /\ runs[k].request = req[a]
    BY <1>9 DEF CallCommit, ClientsOnTrack, ClientRun, Engaged
  <2>2. Commit(k, Count(k), Completed(k)) \/ UNCHANGED vars
    BY <1>9, <2>1 DEF CallCommit
  <2>3. UNCHANGED <<key, req>>
    BY <1>9 DEF CallCommit
  <2>4. /\ \A cl \in Client \ {a} : pc'[cl] = pc[cl]
        /\ pc'[a] = "done" => Committed(k)'
    <3>1. pc[a] # "done"
      BY <1>9 DEF CallCommit
    <3>2. Commit(k, Count(k), Completed(k)) => Committed(k)'
      BY CommittedRun DEF Committed, Exists
    <3>3. Committed(k) /\ UNCHANGED vars => Committed(k)'
      BY DEF vars, Committed, Exists
    <3> QED BY <1>2, <1>9, <2>1, <3>1, <3>2, <3>3 DEF CallCommit, Answered, ClientTypeOK
  <2>5. \A cl \in Client \ {a} : ToldOf(cl)'
    BY <1>1, <2>3, <2>4, ToldKept
  <2>6. ToldOf(a)'
    <3>1. SameRun(k)
      BY <2>2, CommitSame, StutterSame
    <3> QED BY <2>1, <2>3, <2>4, <3>1 DEF ToldOf, SameRun
  <2> QED BY <1>4, <2>2, <2>5, <2>6, CommitFeeds
<1>10. ASSUME NEW k \in asked, LateCommit(k) PROVE ServedInv'
  <2>1. k \in Run /\ Commit(k, Count(k), Completed(k)) /\ UNCHANGED clientVars
    BY <1>2, <1>10 DEF LateCommit, ClientTypeOK
  <2>2. Quiet
    BY <2>1 DEF clientVars
  <2> QED BY <1>3, <2>1, <2>2, CommitFeeds
<1>11. ASSUME NEW e \in Edit, NEW expected \in Edit \union {NoBase}, EditBetween(e, expected)
       PROVE  ServedInv'
  <2>1. EditConfig(e, expected) /\ UNCHANGED clientVars
    BY <1>11 DEF EditBetween
  <2>2. SourcesKept /\ runs' = runs
    BY <2>1, EditSame DEF EditConfig
  <2>3. Quiet
    BY <2>1 DEF clientVars
  <2> QED BY <1>3, <2>2, <2>3, RestFeeds
<1>12. CASE UNCHANGED allVars
  <2>1. Quiet /\ UNCHANGED vars
    BY <1>12 DEF allVars, clientVars
  <2> QED BY <1>3, <1>4, <2>1
<1> QED BY <1>5, <1>6, <1>7, <1>8, <1>9, <1>10, <1>11, <1>12 DEF ClientNext, Call

(***************************************************************************)
(* "Committed" means published as listed: when commit_refresh has answered *)
(* a client, the run of its request is committed with exactly the batches  *)
(* the client read for the run's configuration, each in its place, however *)
(* many answers were lost, requests repeated, or commits late.             *)
(***************************************************************************)
THEOREM ClientsAreToldTheTruth == ClientSpec => []ToldIsPublished
<1>1. ClientInit => ServedInv
  BY DEF ClientInit, Init, ServedInv, FedOf, ToldOf, Exists
<1>2. ClientInv /\ ServedInv => ToldIsPublished
  <2> SUFFICES ASSUME ClientInv, ServedInv, NEW cl \in Client, pc[cl] = "done",
                      NEW i \in BatchIndex
               PROVE  LET k == key[cl] IN
                      /\ Committed(k) /\ runs[k].request = req[cl]
                      /\ runs[k].batches[i] = IF i < Count(k) THEN FeedOf(k)[i + 1]
                                              ELSE NoBatch
    BY DEF ToldIsPublished, ServedInv, ToldOf
  <2>1. PICK k \in Run : k = key[cl] /\ Committed(k) /\ runs[k].request = req[cl]
    BY DEF ServedInv, ToldOf
  <2>2. /\ Received(k) = 0 .. (Count(k) - 1)
        /\ \A n \in Received(k) : runs[k].batches[n] = FeedOf(k)[n + 1]
    BY <2>1 DEF ServedInv, FedOf, Committed
  <2>3. Count(k) \in Nat /\ i \in Nat
    BY <2>1, RunFeed, RefreshAssumption DEF ClientInv, Committed, BatchIndex
  <2>4. i \in Received(k) <=> i < Count(k)
    BY <2>2, <2>3
  <2> QED BY <2>1, <2>2, <2>4 DEF Received
<1> QED BY <1>1, <1>2, ClientsCorrect, ServedStep, PTL DEF ClientSpec

(* Replacements among listed items are valid wherever they are staged. *)
LEMMA ListedReplacements ==
  ASSUME StagingMatchesBatches, StagedListed, LiveListed(live),
         NEW k \in Run, Exists(k), ~Committed(k), runs[k].staged \subseteq Item
  PROVE  ReplacementsValid(runs[k].staged, live)
<1> DEFINE staged == runs[k].staged
<1>1. staged \subseteq Listed /\ \A x, y \in staged : Id(x) = Id(y) => x = y
  BY DEF StagedListed, StagingMatchesBatches
<1> HIDE DEF staged
<1> SUFFICES ASSUME NEW x \in Replacing(staged)
             PROVE  /\ ~x.pend
                    /\ Target(x) # Id(x)
                    /\ \A j \in Replacing(staged) : Target(j) = Target(x) => j = x
                    /\ \A j \in staged : Id(j) = Target(x) => j.pend
                    /\ Target(x) \in Identity /\ live[Target(x)] # NoTx
                         => live[Target(x)].pend
  BY DEF ReplacementsValid, staged
<1>2. /\ x \in staged /\ x \in Replacing(Listed)
      /\ \A j \in Replacing(staged) : j \in staged /\ j \in Replacing(Listed)
  BY <1>1 DEF Replacing
<1>3. ~x.pend /\ x.repl # x.src
  BY <1>2 DEF staged, Item, Replacing
<1>4. Target(x) # Id(x)
  BY <1>3 DEF Target, Id
<1>5. \A y \in Listed : Id(y) = Target(x) => y.pend
  BY <1>2, FeedAssumption
<1>6. \A y \in Replacing(Listed) : Target(y) = Target(x) => Id(y) = Id(x)
  BY <1>2, FeedAssumption DEF Replacing
<1>7. \A j \in Replacing(staged) : Target(j) = Target(x) => j = x
  BY <1>1, <1>2, <1>6
<1>8. ASSUME Target(x) \in Identity, live[Target(x)] # NoTx PROVE live[Target(x)].pend
  <2>1. PICK y \in Listed : Id(y) = Target(x) /\ y.pend = live[Target(x)].pend
    BY <1>8 DEF LiveListed
  <2> QED BY <1>5, <2>1
<1> QED BY <1>1, <1>3, <1>4, <1>5, <1>7, <1>8

(* What begin checked, commit finds again while nothing has happened. *)
LEMMA NothingChanged ==
  ASSUME ClientInv, StagingMatchesBatches, NEW cl \in Client, pc[cl] = "commit",
         ~Committed(key[cl]), runs[key[cl]].before = Revision, base[cl] = versions
  PROVE  Acceptable(key[cl])
<1> USE DEF ClientInv
<1>1. PICK k \in Run : k = key[cl] /\ Exists(k)
  BY DEF ClientsOnTrack, ClientRun, Engaged
<1>2. BegunFor(k, versions) /\ Received(k) = 0 .. (Count(k) - 1)
  BY <1>1 DEF ClientsOnTrack, ClientRun, Engaged, Progress
<1>3. /\ runs[k] \in RefreshRun /\ runs[k].cfg \in DOMAIN versions
      /\ Count(k) \in Nat /\ runs[k].cfg # 0
  BY <1>1, RunFeed DEF RefreshRun
<1>4. /\ runs[k].cfg = TargetVersion(runs[k].request.mode)
      /\ runs[k].request.mode = "incremental" => Pending = 0
  BY <1>2 DEF BegunFor, TargetOf, TargetVersion, Pending, Active
<1>5. \/ runs[k].cfg = Active /\ versions[runs[k].cfg].status = "active"
      \/ Pending # 0 /\ versions[runs[k].cfg].status = "pending"
  BY <1>3, <1>4, ActiveState, PendingFact DEF IInv, ConfigInv, TargetVersion
<1>6. runs[k].state = "uploaded" \/ (runs[k].state = "created" /\ Count(k) = 0)
  <2>1. runs[k].state = "created" <=> Received(k) = {}
    BY <1>1 DEF StagingMatchesBatches
  <2>2. Count(k) # 0 => 0 \in Received(k)
    BY <1>2, <1>3
  <2>3. runs[k].state \in {"created", "uploaded"}
    BY <1>1, <1>3 DEF RefreshRun, Committed
  <2> QED BY <2>1, <2>2, <2>3
<1>7. runs[k].request.mode = "incremental" => SameScope(runs[k].request.accounts)
  BY <1>1 DEF ScopeKept, ScopeOf
<1>8. Committable(k, Count(k), Completed(k))
  BY <1>1, <1>2, <1>4, <1>5, <1>6, <1>7 DEF Committable, Completed
<1>9. ReplacementsValid(runs[k].staged, live)
  BY <1>1, <1>3, ListedReplacements DEF RefreshRun
<1> QED BY <1>1, <1>8, <1>9 DEF Acceptable

(***************************************************************************)
(* A client's commit is refused only when another run has committed or the *)
(* configuration has changed since its run began: the checks of begin and  *)
(* upload are all that commit_refresh asks of a client that follows the    *)
(* instructions, however many of its answers were lost.                    *)
(***************************************************************************)
THEOREM RefusalsAreJustified == ClientSpec => RefusalsHaveReasons
<1> DEFINE Reason(cl) == pc[cl] = "commit" /\ pc'[cl] = "idle" =>
                           runs[key[cl]].before # Revision \/ base[cl] # versions
<1>1. ClientInv /\ StagingMatchesBatches /\ [ClientNext]_allVars
        => [\A cl \in Client : Reason(cl)]_allVars
  <2> SUFFICES ASSUME ClientInv, StagingMatchesBatches, ClientNext,
                      NEW cl \in Client, pc[cl] = "commit", pc'[cl] = "idle"
               PROVE  runs[key[cl]].before # Revision \/ base[cl] # versions
    OBVIOUS
  <2>1. PICK heard \in BOOLEAN : CallCommit(cl, heard)
    <3>1. ASSUME UNCHANGED pc PROVE FALSE
      BY <3>1
    <3>2. ASSUME NEW a \in Client, NEW step, step # "idle",
                 pc' = [pc EXCEPT ![a] = step]
          PROVE  FALSE
      BY <3>2 DEF ClientInv, ClientsOnTrack, ClientTypeOK
    <3>3. ASSUME NEW a \in Client, NEW heard \in BOOLEAN, CallBegin(a, heard) PROVE FALSE
      <4>1. pc[a] = "begin" /\ \A c \in Client \ {a} : pc'[c] = pc[c]
        BY <3>3, AnsweredStep DEF CallBegin, ClientInv, ClientsOnTrack, Step
      <4> QED BY <4>1
    <3>4. ASSUME NEW a \in Client, NEW heard \in BOOLEAN, CallCommit(a, heard)
          PROVE  a = cl
      <4>1. \A c \in Client \ {a} : pc'[c] = pc[c]
        BY <3>4, AnsweredStep DEF CallCommit, ClientInv, ClientsOnTrack, Step
      <4> QED BY <4>1
    <3>5. ASSUME NEW a \in Client, ReadState(a) PROVE FALSE
      BY <3>2, <3>5 DEF ReadState
    <3>6. ASSUME NEW a \in Client, Uploaded(a) PROVE FALSE
      BY <3>2, <3>6 DEF Uploaded
    <3>7. ASSUME NEW a \in Client, NEW heard \in BOOLEAN, CallUpload(a, heard) PROVE FALSE
      BY <3>1, <3>7 DEF CallUpload
    <3>8. ASSUME NEW k, LateCommit(k) PROVE FALSE
      BY <3>1, <3>8 DEF LateCommit, clientVars
    <3>9. ASSUME NEW e, NEW expected, EditBetween(e, expected) PROVE FALSE
      BY <3>1, <3>9 DEF EditBetween, clientVars
    <3> QED BY <3>3, <3>4, <3>5, <3>6, <3>7, <3>8, <3>9 DEF ClientNext, Call
  <2>2. heard /\ ~Committed(key[cl]) /\ ~Acceptable(key[cl])
    <3>1. ASSUME NEW step, Answered(cl, heard, step) PROVE heard /\ step = "idle"
      BY <3>1 DEF Answered, ClientInv, ClientsOnTrack, ClientTypeOK
    <3> QED BY <2>1, <3>1 DEF CallCommit
  <2> QED BY <2>2, NothingChanged
<1> QED BY <1>1, ClientsCorrect, StagingIsExact, PTL DEF ClientSpec, RefusalsHaveReasons

-----------------------------------------------------------------------------
(***************************************************************************)
(* The repair.  It makes revisions start again, so committed runs are no   *)
(* chain any more, but everything published still belongs together.  The   *)
(* invariant follows the runs committed since: until there is one, sync is *)
(* missing, and a missing sync admits nothing but a rebuild.               *)
(***************************************************************************)

SinceRepair ==
    /\ since \subseteq Run
    /\ \A k \in since : Committed(k)
    /\ ~repaired => since = {}
    /\ repaired /\ since = {} => sync = NoSync
    /\ CleanAfterRepair

RepairInv == IInv /\ SinceRepair

(* A presentation stays one when its budget is multiplied or restored. *)
LEMMA ActivePresentation ==
  ASSUME IInv, Active # 0
  PROVE  LET s == SemOf(Active) IN
         /\ s \in Sem /\ Active \in DOMAIN versions
         /\ versions[Active].source.pres \in [Cats(s) -> Pres]
<1>1. Active \in DOMAIN versions
  BY ActiveState DEF IInv, ConfigInv
<1>2. versions[Active].source \in Edit
  <2>1. versions[Active] \in Version
    BY <1>1 DEF IInv, ConfigInv, ConfigTypeOK
  <2> QED BY <2>1 DEF Version
<1> QED BY <1>1, <1>2 DEF Edit, SemOf

(* What migration 0003 leaves behind satisfies the invariant. *)
LEMMA DamagedDatabase ==
  ASSUME UpgradeInit
  PROVE  RepairInv
<1>1. PICK e \in Edit :
         /\ versions = <<[status |-> "active", source |-> e]>>
         /\ shown = [c \in Cat |-> IF c \in DOMAIN e.pres THEN Scaled[e.pres[c]] ELSE NoPres]
  BY DEF UpgradeInit
<1>2. PICK s \in Sem : e.sem = s /\ e.pres \in [Cats(s) -> Pres]
  BY DEF Edit
<1>3. /\ DOMAIN versions = {1} /\ Len(versions) = 1
      /\ versions[1] = [status |-> "active", source |-> e]
      /\ versions \in Seq(Version)
  BY <1>1 DEF Version, Status
<1>4. shown \in [Cat -> Pres \union {NoPres}]
  BY <1>1, <1>2, UpgradeAssumption
<1>5. ConfigTypeOK
  BY <1>3, <1>4, UpgradeAssumption, ConfigAssumption DEF ConfigTypeOK
<1>6. WithStatus(versions, "active") = {1} /\ WithStatus(versions, "pending") = {}
  BY <1>3 DEF WithStatus
<1>7. Active = 1 /\ Pending = 0
  BY <1>6, ActiveFact, NonePending DEF Active, Pending
<1>8. VersionOrder
  BY <1>6, <1>7 DEF VersionOrder
<1>9. RowsForEveryCategory
  <2>1. \A c \in Cats(s) : c \in Cat /\ shown[c] \in Pres
    BY <1>1, <1>2, UpgradeAssumption, ConfigAssumption
  <2>2. \A v \in DOMAIN versions : SemOf(v) = s
    BY <1>2, <1>3 DEF SemOf
  <2> QED BY <2>1, <2>2, ConfigAssumption DEF RowsForEveryCategory
<1>10. /\ \A k \in Run : runs[k] = NoRun
       /\ \A id \in Identity : live[id] = NoTx
       /\ sync = NoSync
  BY DEF UpgradeInit
<1>11. TypeOK
  BY <1>5, <1>10 DEF UpgradeInit, TypeOK, Ledger
<1>12. IInv
  BY <1>5, <1>8, <1>9, <1>10, <1>11
     DEF IInv, ConfigInv, RunsChecked, PublishedTogether, LedgerInScope, Exists
<1>13. SinceRepair
  BY DEF UpgradeInit, SinceRepair, CleanAfterRepair
<1> QED BY <1>12, <1>13 DEF RepairInv

(* The first commit after the repair is a rebuild, and no row is older. *)
LEMMA CommitSinceRepair ==
  ASSUME RepairInv, Serve, NEW k \in Run, NEW count, NEW completed,
         Commit(k, count, completed)
  PROVE  SinceRepair'
<1>1. IInv
  BY DEF RepairInv
<1>2. /\ Exists(k) /\ ~Committed(k) /\ runs[k] \in RefreshRun
      /\ runs[k].before = Revision
      /\ runs'[k] # NoRun /\ runs'[k].state = "committed"
      /\ runs'[k].request = runs[k].request /\ runs'[k].before = runs[k].before
      /\ \A j \in Run : j # k => runs'[j] = runs[j]
  BY <1>1, CommittedRun
<1>3. Revision \in Nat
  BY <1>1 DEF Revision, IInv, TypeOK, SyncState
<1>4. sync' = [cfg |-> runs[k].cfg, run |-> k, rev |-> Revision + 1]
  BY DEF Commit
<1>5. sync' # sync
  <2>1. sync' \in SyncState
    BY <1>2, <1>3, <1>4 DEF SyncState, RefreshRun
  <2>2. CASE sync = NoSync
    BY <2>1, <2>2, RefreshAssumption
  <2>3. CASE sync # NoSync
    BY <1>3, <1>4, <2>3 DEF Revision
  <2> QED BY <2>2, <2>3
<1>6. /\ repaired' = repaired
      /\ since' = IF repaired THEN since \union {k} ELSE since
  BY <1>4, <1>5 DEF Serve
<1>7. CASE ~repaired
  BY <1>2, <1>6, <1>7 DEF RepairInv, SinceRepair, CleanAfterRepair, Committed, Exists
<1>8. CASE repaired
  <2>1. since' = since \union {k} /\ k \notin since
    BY <1>2, <1>6, <1>8 DEF RepairInv, SinceRepair
  <2>2. \A j \in since : j \in Run /\ j # k /\ runs'[j] = runs[j] /\ Committed(j)
    BY <1>2, <2>1 DEF RepairInv, SinceRepair
  <2>3. \A j \in since' : j \in Run /\ Committed(j)'
    BY <1>2, <2>1, <2>2 DEF Committed, Exists
  <2>4. ASSUME NEW id \in Identity, live'[id] # NoTx
        PROVE  live'[id].first \in since' /\ live'[id].last \in since'
    <3>1. live[id] # NoTx => live[id].first \in since /\ live[id].last \in since
      BY <1>8 DEF RepairInv, SinceRepair, CleanAfterRepair
    <3> QED BY <1>1, <2>1, <2>4, <3>1, CommitProvenance
  <2>5. \E j \in since' : runs'[j].before = 0 /\ runs'[j].request.mode = "full"
    <3>1. CASE since = {}
      <4>1. sync = NoSync
        BY <1>8, <3>1 DEF RepairInv, SinceRepair
      <4>2. Revision = 0 /\ runs[k].request.mode # "incremental"
        BY <4>1 DEF Revision, Commit, Committable, SameScope
      <4>3. runs[k].request.mode \in Mode
        BY <1>2, RefreshAssumption DEF RefreshRun, BeginRequest
      <4> QED BY <1>2, <2>1, <4>2, <4>3 DEF Mode
    <3>2. CASE since # {}
      <4>1. PICK j \in since : runs[j].before = 0 /\ runs[j].request.mode = "full"
        BY <1>8, <3>2 DEF RepairInv, SinceRepair, CleanAfterRepair
      <4> QED BY <2>1, <2>2, <4>1
    <3> QED BY <3>1, <3>2
  <2> QED BY <1>6, <1>8, <2>1, <2>3, <2>4, <2>5 DEF SinceRepair, CleanAfterRepair
<1> QED BY <1>7, <1>8

(* Other requests change nothing that was published. *)
LEMMA OtherSinceRepair ==
  ASSUME RepairInv, live' = live, sync' = sync, since' = since, repaired' = repaired,
         \A k \in Run : Committed(k) => runs'[k] = runs[k]
  PROVE  SinceRepair'
<1>1. \A k \in since : k \in Run /\ runs'[k] = runs[k] /\ Committed(k) /\ Committed(k)'
  BY DEF RepairInv, SinceRepair, Committed, Exists
<1> QED BY <1>1 DEF RepairInv, SinceRepair, CleanAfterRepair

(* The service keeps the invariant, before the repair and after it. *)
LEMMA ServeKeepsRepair ==
  ASSUME RepairInv, Serve
  PROVE  RepairInv'
<1>1. IInv /\ Next /\ repaired' = repaired
  BY DEF RepairInv, Serve
<1>2. IInv'
  BY <1>1, StepKeepsIInv
<1> DEFINE Unpublished == /\ live' = live /\ sync' = sync
                          /\ \A k \in Run : Committed(k) => runs'[k] = runs[k]
<1>3. ASSUME Unpublished PROVE SinceRepair'
  BY <1>1, <1>3, OtherSinceRepair DEF Serve
<1>4. ASSUME NEW e, NEW expected, EditConfig(e, expected) PROVE Unpublished
  BY <1>4 DEF EditConfig
<1>5. ASSUME NEW k \in Run, NEW q \in Requests, Begin(k, q) PROVE Unpublished
  <2>1. live' = live /\ sync' = sync
    BY <1>5 DEF Begin, Beginnable
  <2> QED BY <1>1, <1>5, <2>1, BegunRun DEF Committed
<1>6. ASSUME NEW k \in Run, NEW i \in BatchIndex, NEW b \in Batches, Upload(k, i, b)
      PROVE  Unpublished
  <2>1. live' = live /\ sync' = sync
    BY <1>6 DEF Upload
  <2> QED BY <1>1, <1>6, <2>1, UploadedRun DEF Committed
<1> HIDE DEF Unpublished
<1>7. ASSUME NEW k \in Run, NEW count, NEW completed, Commit(k, count, completed)
      PROVE  SinceRepair'
  BY <1>7, CommitSinceRepair
<1> QED BY <1>1, <1>2, <1>3, <1>4, <1>5, <1>6, <1>7 DEF Next, RepairInv

(* The repair itself leaves an empty ledger without a sync state. *)
LEMMA RepairKeepsRepair ==
  ASSUME RepairInv, Repair
  PROVE  RepairInv'
<1>1. /\ IInv /\ Active # 0
      /\ live' = [id \in Identity |-> NoTx] /\ sync' = NoSync /\ repaired' = TRUE
      /\ ~repaired /\ since' = since
      /\ UNCHANGED <<versions, runs>>
      /\ shown' = [c \in Cat |-> IF Damaged(c) THEN versions[Active].source.pres[c]
                                 ELSE shown[c]]
  BY DEF Repair, RepairInv
<1>2. \A c \in Cat : Damaged(c) => versions[Active].source.pres[c] \in Pres
  BY <1>1, ActivePresentation DEF Damaged
<1>3. shown' \in [Cat -> Pres \union {NoPres}]
  BY <1>1, <1>2 DEF IInv, TypeOK, ConfigTypeOK
<1>4. ConfigTypeOK' /\ VersionOrder'
  BY <1>1, <1>3 DEF IInv, ConfigInv, ConfigTypeOK, VersionOrder, Active, Pending, SemOf
<1>5. RowsForEveryCategory'
  <2>1. ASSUME NEW v \in DOMAIN versions, NEW c \in Cats(SemOf(v))
        PROVE  shown'[c] # NoPres
    <3>1. versions[v].source \in Edit
      <4>1. versions[v] \in Version
        BY <1>1 DEF IInv, ConfigInv, ConfigTypeOK
      <4> QED BY <4>1 DEF Version
    <3>2. c \in Cat /\ shown[c] # NoPres
      BY <1>1, <3>1, ConfigAssumption DEF IInv, ConfigInv, RowsForEveryCategory, SemOf, Edit
    <3> QED BY <1>1, <1>2, <3>2, ConfigAssumption
  <2> QED BY <1>1, <2>1 DEF RowsForEveryCategory, SemOf
<1>6. IInv'
  BY <1>1, <1>4, <1>5
     DEF IInv, ConfigInv, TypeOK, Ledger, RunsChecked, ItemChecked, PublishedTogether,
         LedgerInScope, Exists, SemOf
<1>7. SinceRepair'
  <2>1. since' = {}
    BY <1>1 DEF RepairInv, SinceRepair
  <2> QED BY <1>1, <2>1 DEF SinceRepair, CleanAfterRepair
<1> QED BY <1>6, <1>7 DEF RepairInv

(* The invariant holds through the damage, the repair and what follows. *)
LEMMA RepairCorrect == UpgradeSpec => []RepairInv
<1>1. RepairInv /\ [UpgradeNext]_upgradeVars => RepairInv'
  <2> SUFFICES ASSUME RepairInv, [UpgradeNext]_upgradeVars PROVE RepairInv'
    OBVIOUS
  <2>1. CASE UNCHANGED upgradeVars
    <3>1. UNCHANGED vars /\ since' = since /\ repaired' = repaired
      BY <2>1 DEF upgradeVars
    <3>2. IInv'
      BY <3>1, StutterKeepsIInv DEF RepairInv
    <3>3. SinceRepair'
      BY <3>1, OtherSinceRepair DEF vars
    <3> QED BY <3>2, <3>3 DEF RepairInv
  <2> QED BY <2>1, ServeKeepsRepair, RepairKeepsRepair DEF UpgradeNext
<1> QED BY <1>1, DamagedDatabase, PTL DEF UpgradeSpec

(***************************************************************************)
(* After the repair of migration 0004 the ledger is built anew: every row  *)
(* was written by a run committed since, beginning with a rebuild.         *)
(***************************************************************************)
THEOREM RepairIsClean == UpgradeSpec => []CleanAfterRepair
<1>1. RepairInv => CleanAfterRepair
  BY DEF RepairInv, SinceRepair
<1> QED BY <1>1, RepairCorrect, PTL

(***************************************************************************)
(* Neither the damage of 0003 nor the repair breaks what is published: the *)
(* ledger, the sync state and the active configuration belong together and *)
(* every row is in scope, although revisions start again.                  *)
(***************************************************************************)
THEOREM RepairKeepsPublication == UpgradeSpec => [](PublishedTogether /\ LedgerInScope)
<1>1. RepairInv => PublishedTogether /\ LedgerInScope
  BY DEF RepairInv, IInv
<1> QED BY <1>1, RepairCorrect, PTL
=============================================================================
