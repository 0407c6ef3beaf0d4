------------------------ MODULE ConfigVersionsProofs ------------------------
(***************************************************************************)
(* Proofs about ConfigVersions.  The invariant ConfigInv is inductive: a   *)
(* write keeps the active version unless it creates the first one, and an  *)
(* activation replaces it by the pending one.  The step lemmas also say    *)
(* what happens to Active and Pending, for the modules that compose        *)
(* configurations with refresh runs.                                       *)
(***************************************************************************)
EXTENDS ConfigVersions, SequenceTheorems, TLAPS

ConfigInv == ConfigTypeOK /\ VersionOrder /\ RowsForEveryCategory

-----------------------------------------------------------------------------
(* A function on 1..n is a sequence of length n. *)
LEMMA FunctionIsSeq ==
  ASSUME NEW S, NEW n \in Nat, NEW f \in [1 .. n -> S]
  PROVE  f \in Seq(S) /\ Len(f) = n
<1>1. f \in Seq(S)
  OBVIOUS
<1> QED BY <1>1, LenProperties

(* Active is a version with that status, or 0 if there is none. *)
LEMMA ActiveFact ==
  ASSUME NEW vs
  PROVE  \/ ActiveIn(vs) = 0 /\ WithStatus(vs, "active") = {}
         \/ ActiveIn(vs) \in WithStatus(vs, "active")
BY DEF ActiveIn

(* A single active version is Active. *)
LEMMA ActiveIs ==
  ASSUME NEW vs, NEW v, WithStatus(vs, "active") = {v}
  PROVE  ActiveIn(vs) = v
BY DEF ActiveIn

(* A single pending version is Pending. *)
LEMMA PendingIs ==
  ASSUME NEW vs, NEW v \in Int, WithStatus(vs, "pending") = {v}
  PROVE  PendingIn(vs) = v
BY DEF PendingIn

(* Without a pending version Pending is 0. *)
LEMMA NonePending ==
  ASSUME NEW vs, WithStatus(vs, "pending") = {}
  PROVE  PendingIn(vs) = 0
BY DEF PendingIn

(* With at most one pending version, Pending is it. *)
LEMMA PendingFact ==
  ASSUME ConfigTypeOK, VersionOrder
  PROVE  \/ Pending = 0 /\ WithStatus(versions, "pending") = {}
         \/ /\ Pending \in DOMAIN versions
            /\ versions[Pending].status = "pending"
            /\ WithStatus(versions, "pending") = {Pending}
<1>1. CASE WithStatus(versions, "pending") = {}
  BY <1>1 DEF Pending, PendingIn
<1>2. CASE WithStatus(versions, "pending") # {}
  <2>1. PICK v \in WithStatus(versions, "pending") : TRUE
    BY <1>2
  <2>2. WithStatus(versions, "pending") = {v}
    BY <2>1 DEF VersionOrder
  <2>3. v \in DOMAIN versions /\ v \in Int /\ versions[v].status = "pending"
    BY <2>1 DEF WithStatus, ConfigTypeOK
  <2>4. Pending = v
    BY <2>2, <2>3, PendingIs DEF Pending
  <2> QED BY <2>2, <2>3, <2>4
<1> QED BY <1>1, <1>2

(* Active is the only active version, or nothing was ever configured. *)
LEMMA ActiveState ==
  ASSUME ConfigTypeOK, VersionOrder
  PROVE  \/ Active = 0 /\ WithStatus(versions, "active") = {} /\ versions = <<>>
         \/ /\ Active \in DOMAIN versions
            /\ Active \in Nat \ {0}
            /\ versions[Active].status = "active"
            /\ WithStatus(versions, "active") = {Active}
<1>1. DOMAIN versions \subseteq Nat \ {0}
  BY DEF ConfigTypeOK
<1>2. CASE Active = 0
  <2>1. Active \notin WithStatus(versions, "active")
    BY <1>1, <1>2 DEF WithStatus
  <2> QED BY <1>2, <2>1, ActiveFact DEF Active, VersionOrder
<1>3. CASE Active # 0
  <2>1. Active \in WithStatus(versions, "active")
    BY <1>3, ActiveFact DEF Active
  <2>2. WithStatus(versions, "active") = {Active}
    BY <2>1 DEF VersionOrder
  <2>3. Active \in DOMAIN versions /\ versions[Active].status = "active"
    BY <2>1 DEF WithStatus
  <2> QED BY <1>1, <2>2, <2>3
<1> QED BY <1>2, <1>3

(* Superseding keeps the sequence and only touches the pending version. *)
LEMMA SupersededSeq ==
  ASSUME ConfigTypeOK
  PROVE  /\ SupersedePending \in Seq(Version)
         /\ Len(SupersedePending) = Len(versions)
         /\ DOMAIN SupersedePending = DOMAIN versions
         /\ DOMAIN versions = 1 .. Len(versions)
         /\ \A v \in DOMAIN versions :
              /\ SupersedePending[v].source = versions[v].source
              /\ SupersedePending[v].status =
                   IF v = Pending THEN "superseded" ELSE versions[v].status
<1>1. DOMAIN versions = 1 .. Len(versions) /\ Len(versions) \in Nat
  BY DEF ConfigTypeOK
<1>2. \A v \in DOMAIN versions : versions[v] \in Version
  BY DEF ConfigTypeOK
<1>3. SupersedePending \in [1 .. Len(versions) -> Version]
  BY <1>1, <1>2 DEF SupersedePending, Version, Status
<1>4. \A v \in DOMAIN versions :
         /\ SupersedePending[v].source = versions[v].source
         /\ SupersedePending[v].status =
              IF v = Pending THEN "superseded" ELSE versions[v].status
  BY <1>2 DEF SupersedePending, Version
<1> QED BY <1>1, <1>3, <1>4, FunctionIsSeq

(* After superseding nothing is pending and the active version is the same. *)
LEMMA SupersededStatus ==
  ASSUME ConfigTypeOK, VersionOrder
  PROVE  /\ WithStatus(SupersedePending, "pending") = {}
         /\ WithStatus(SupersedePending, "active") = WithStatus(versions, "active")
BY SupersededSeq, PendingFact DEF WithStatus

(* Every edit and every version's source names categories of Cat. *)
LEMMA EditCategories ==
  ASSUME NEW e \in Edit
  PROVE  /\ e.sem \in Sem
         /\ e.pres \in [Cats(e.sem) -> Pres]
         /\ Cats(e.sem) \subseteq Cat
         /\ DOMAIN e.pres = Cats(e.sem)
<1>1. PICK s \in Sem : e \in [sem : {s}, pres : [Cats(s) -> Pres]]
  BY DEF Edit
<1>2. Cats(s) \subseteq Cat
  BY ConfigAssumption
<1> QED BY <1>1, <1>2

(* Every version's categories are in Cat. *)
LEMMA VersionCategories ==
  ASSUME ConfigTypeOK
  PROVE  \A v \in DOMAIN versions : Cats(SemOf(v)) \subseteq Cat
<1>1. \A v \in DOMAIN versions : versions[v] \in Version
  BY DEF ConfigTypeOK
<1>2. \A v \in DOMAIN versions : versions[v].source \in Edit
  BY <1>1 DEF Version
<1> QED BY <1>2, EditCategories DEF SemOf

(***************************************************************************)
(* A presentation write or the rows of new categories keep the type of     *)
(* shown and never remove a row.                                           *)
(***************************************************************************)
LEMMA ShownAfterEdit ==
  ASSUME ConfigTypeOK, NEW e \in Edit,
         shown' = Present(e) \/ shown' = AddRows(e)
  PROVE  /\ shown' \in [Cat -> Pres \union {NoPres}]
         /\ \A c \in Cat : shown[c] # NoPres => shown'[c] # NoPres
         /\ \A c \in Cats(e.sem) : shown'[c] # NoPres
<1>1. /\ e.pres \in [Cats(e.sem) -> Pres]
      /\ Cats(e.sem) \subseteq Cat
      /\ DOMAIN e.pres = Cats(e.sem)
  BY EditCategories
<1>2. NoPres \notin Pres
  BY ConfigAssumption
<1>3. CASE shown' = Present(e)
  BY <1>1, <1>2, <1>3 DEF Present, ConfigTypeOK
<1>4. CASE shown' = AddRows(e)
  BY <1>1, <1>2, <1>4 DEF AddRows, ConfigTypeOK
<1> QED BY <1>3, <1>4

(***************************************************************************)
(* An accepted edit keeps the invariant.  The active version stays, or the *)
(* first one is created; versions keep their sources and superseded ones   *)
(* their status; a waiting version may be superseded, never activated.     *)
(***************************************************************************)
LEMMA EditStep ==
  ASSUME ConfigInv, NEW e \in Edit, NEW expected, PutConfig(e, expected)
  PROVE  /\ ConfigInv'
         /\ Active # 0 => Active' = Active
         /\ Active = 0 => Active' = 1
         /\ \A v \in DOMAIN versions :
              v \in DOMAIN versions' /\ versions'[v].source = versions[v].source
<1> USE DEF ConfigInv
<1>1. DOMAIN versions = 1 .. Len(versions) /\ Len(versions) \in Nat
  BY DEF ConfigTypeOK
<1>2. CASE EditPresentation(e)
  <2>1. versions' = SupersedePending /\ shown' = Present(e) /\ Active # 0
    BY <1>2 DEF EditPresentation
  <2>2. ConfigTypeOK'
    BY <2>1, SupersededSeq, ShownAfterEdit DEF ConfigTypeOK
  <2>3. /\ WithStatus(versions', "pending") = {}
        /\ WithStatus(versions', "active") = {Active}
    BY <2>1, SupersededStatus, ActiveState
  <2>4. Active' = Active /\ Pending' = 0
    BY <2>3, ActiveIs, NonePending DEF Active, Pending
  <2>5. \A v \in DOMAIN versions :
          v \in DOMAIN versions' /\ versions'[v].source = versions[v].source
    BY <2>1, SupersededSeq
  <2>6. VersionOrder'
    BY <2>1, <2>3, <2>4 DEF VersionOrder
  <2>7. RowsForEveryCategory'
    <3>1. DOMAIN versions' = DOMAIN versions
      BY <2>1, SupersededSeq
    <3> QED BY <2>1, <2>5, <3>1, VersionCategories, ShownAfterEdit DEF RowsForEveryCategory, SemOf
  <2> QED BY <2>1, <2>2, <2>4, <2>5, <2>6, <2>7
<1>3. CASE RepeatPending(e)
  BY <1>3 DEF RepeatPending, configVars, ConfigTypeOK, VersionOrder,
     RowsForEveryCategory, Active, Pending, SemOf
<1>4. CASE CreateVersion(e)
  <2> DEFINE new == [status |-> IF Active = 0 THEN "active" ELSE "pending",
                     source |-> e]
             n == Len(versions) + 1
  <2>1. /\ Active # 0 => SemOf(Active) # e.sem
        /\ Len(versions) < MaxVersions
        /\ versions' = Append(SupersedePending, new)
        /\ shown' = Present(e) \/ shown' = AddRows(e)
    BY <1>4 DEF CreateVersion
  <2>2. new \in Version
    BY DEF Version, Status
  <2>3. /\ versions' \in Seq(Version)
        /\ Len(versions') = n
        /\ DOMAIN versions' = 1 .. n
        /\ versions'[n] = new
        /\ \A v \in DOMAIN versions : versions'[v] = SupersedePending[v]
    BY <2>1, <2>2, SupersededSeq
  <2>4. ConfigTypeOK'
    BY <1>1, <2>1, <2>3, ShownAfterEdit, ConfigAssumption DEF ConfigTypeOK
  <2>5. \A v \in DOMAIN versions :
          v \in DOMAIN versions' /\ versions'[v].source = versions[v].source
    BY <1>1, <2>3, SupersededSeq
  <2>6. \A st : WithStatus(versions', st) =
                  WithStatus(SupersedePending, st)
                    \union (IF new.status = st THEN {n} ELSE {})
    BY <1>1, <2>3, SupersededSeq DEF WithStatus
  <2>7. ASSUME Active = 0 PROVE VersionOrder' /\ Active' = 1
    <3>1. n = 1
      BY <2>7, ActiveState
    <3>2. /\ WithStatus(versions', "active") = {1}
          /\ WithStatus(versions', "pending") = {}
      BY <2>6, <2>7, <3>1, SupersededStatus, ActiveState
    <3>3. Active' = 1 /\ Pending' = 0
      BY <3>2, ActiveIs, NonePending DEF Active, Pending
    <3> QED BY <2>7, <3>2, <3>3 DEF VersionOrder
  <2>8. ASSUME Active # 0 PROVE VersionOrder' /\ Active' = Active
    <3>1. /\ WithStatus(versions', "active") = {Active}
          /\ WithStatus(versions', "pending") = {n}
      BY <2>6, <2>8, SupersededStatus, ActiveState
    <3>2. Active' = Active /\ Pending' = n
      <4>1. n \in Int
        BY <1>1
      <4>2. Active' = Active
        BY <3>1, ActiveIs DEF Active
      <4>3. Pending' = n
        BY <3>1, <4>1, PendingIs DEF Pending
      <4> QED BY <4>2, <4>3
    <3>3. SemOf(Active)' = SemOf(Active) /\ SemOf(Pending)' = e.sem
      BY <2>3, <2>5, <2>8, <3>2, ActiveState DEF SemOf
    <3>4. VersionOrder'
      BY <1>1, <2>1, <2>3, <2>8, <3>1, <3>2, <3>3, ActiveState DEF VersionOrder
    <3> QED BY <2>8, <3>2, <3>4
  <2>9. RowsForEveryCategory'
    <3>1. \A v \in DOMAIN versions : Cats(SemOf(v)) \subseteq Cat
      BY VersionCategories
    <3>2. \A v \in DOMAIN versions' : v \in DOMAIN versions \/ v = n
      BY <1>1, <2>3
    <3>3. versions'[n].source.sem = e.sem
      BY <2>3
    <3>4. \A v \in DOMAIN versions : versions'[v].source.sem = SemOf(v)
      BY <2>5 DEF SemOf
    <3>5. \A c \in Cats(e.sem) : shown'[c] # NoPres
      BY <2>1, ShownAfterEdit
    <3>6. \A c \in Cat : shown[c] # NoPres => shown'[c] # NoPres
      BY <2>1, ShownAfterEdit
    <3> QED BY <3>1, <3>2, <3>3, <3>4, <3>5, <3>6 DEF RowsForEveryCategory, SemOf
  <2> QED BY <2>4, <2>5, <2>7, <2>8, <2>9
<1> QED BY <1>2, <1>3, <1>4 DEF PutConfig

(***************************************************************************)
(* An activation keeps the invariant: the pending version becomes the only *)
(* active one and nothing is pending any more.                             *)
(***************************************************************************)
LEMMA ActivateStep ==
  ASSUME ConfigInv, Pending # 0, Activate(Pending)
  PROVE  /\ ConfigInv'
         /\ Active' = Pending
         /\ Pending' = 0
         /\ \A v \in DOMAIN versions :
              v \in DOMAIN versions' /\ versions'[v].source = versions[v].source
<1> USE DEF ConfigInv
<1>1. DOMAIN versions = 1 .. Len(versions) /\ Len(versions) \in Nat
  BY DEF ConfigTypeOK
<1>2. versions' = Activated(Pending) /\ shown' = Present(versions[Pending].source)
  BY DEF Activate
<1>3. \A v \in DOMAIN versions : versions[v] \in Version
  BY DEF ConfigTypeOK
<1>4. /\ Pending \in DOMAIN versions
      /\ WithStatus(versions, "pending") = {Pending}
  BY PendingFact
<1>5. Activated(Pending) \in [1 .. Len(versions) -> Version]
  BY <1>1, <1>3 DEF Activated, Version, Status
<1>6. /\ versions' \in Seq(Version)
      /\ Len(versions') = Len(versions)
      /\ DOMAIN versions' = DOMAIN versions
  BY <1>1, <1>2, <1>5, FunctionIsSeq
<1>7. \A v \in DOMAIN versions :
        /\ versions'[v].source = versions[v].source
        /\ versions'[v].status = IF v = Pending THEN "active"
                                 ELSE IF v = Active THEN "superseded"
                                 ELSE versions[v].status
  BY <1>2, <1>3 DEF Activated, Version
<1>8. versions[Pending].source \in Edit
  BY <1>3, <1>4 DEF Version
<1>9. ConfigTypeOK'
  BY <1>2, <1>6, <1>8, ShownAfterEdit DEF ConfigTypeOK
<1>10. /\ WithStatus(versions', "active") = {Pending}
       /\ WithStatus(versions', "pending") = {}
  BY <1>4, <1>6, <1>7, ActiveState DEF WithStatus
<1>11. Active' = Pending /\ Pending' = 0
  BY <1>1, <1>10, ActiveIs, NonePending DEF Active, Pending
<1>12. VersionOrder'
  BY <1>4, <1>6, <1>10, <1>11 DEF VersionOrder
<1>13. RowsForEveryCategory'
  <2>1. \A v \in DOMAIN versions : Cats(SemOf(v)) \subseteq Cat
    BY VersionCategories
  <2>2. \A c \in Cat : shown[c] # NoPres => shown'[c] # NoPres
    BY <1>2, <1>8, ShownAfterEdit
  <2> QED BY <1>6, <1>7, <2>1, <2>2 DEF RowsForEveryCategory, SemOf
<1> QED BY <1>6, <1>7, <1>9, <1>11, <1>12, <1>13

(* An empty database satisfies the invariant. *)
LEMMA ConfigInitInv == ConfigInit => ConfigInv
<1> SUFFICES ASSUME ConfigInit PROVE ConfigInv
  OBVIOUS
<1>1. ConfigTypeOK
  BY ConfigAssumption DEF ConfigInit, ConfigTypeOK
<1>2. WithStatus(versions, "active") = {} /\ WithStatus(versions, "pending") = {}
  BY DEF ConfigInit, WithStatus
<1>3. Pending = 0
  BY <1>2, NonePending DEF Pending
<1>4. VersionOrder
  BY <1>2, <1>3 DEF ConfigInit, VersionOrder
<1>5. RowsForEveryCategory
  <2>1. DOMAIN versions = {}
    BY DEF ConfigInit
  <2> QED BY <2>1 DEF RowsForEveryCategory
<1> QED BY <1>1, <1>4, <1>5 DEF ConfigInv

(* A step of another component keeps the invariant. *)
LEMMA ConfigStutter ==
  ASSUME ConfigInv, UNCHANGED configVars
  PROVE  ConfigInv'
BY DEF ConfigInv, ConfigTypeOK, VersionOrder, RowsForEveryCategory, configVars,
       Active, Pending, SemOf

(***************************************************************************)
(* Configuration versions are well ordered: after the first one there is   *)
(* always exactly one active version, and at most one pending version,     *)
(* which is the newest and differs from it (config_service.py, _put_config *)
(* and the activation in commit_refresh).                                  *)
(***************************************************************************)
THEOREM ConfigCorrect == ConfigSpec => []ConfigInv
<1>1. ConfigInv /\ [ConfigNext]_configVars => ConfigInv'
  <2> SUFFICES ASSUME ConfigInv, [ConfigNext]_configVars PROVE ConfigInv'
    OBVIOUS
  <2>1. ASSUME NEW e \in Edit, NEW expected \in Edit \union {NoBase},
               PutConfig(e, expected)
        PROVE  ConfigInv'
    BY <2>1, EditStep
  <2>2. ASSUME NEW v \in DOMAIN versions, v = Pending, Activate(v)
        PROVE  ConfigInv'
    <3>1. Pending # 0
      BY <2>2 DEF ConfigInv, ConfigTypeOK
    <3> QED BY <2>2, <3>1, ActivateStep
  <2>3. CASE UNCHANGED configVars
    BY <2>3, ConfigStutter
  <2> QED BY <2>1, <2>2, <2>3 DEF ConfigNext
<1> QED BY <1>1, ConfigInitInv, PTL DEF ConfigSpec

(***************************************************************************)
(* The versions are well ordered in every reachable state.                 *)
(***************************************************************************)
THEOREM VersionsStayOrdered == ConfigSpec => []VersionOrder
<1>1. ConfigInv => VersionOrder
  BY DEF ConfigInv
<1> QED BY <1>1, ConfigCorrect, PTL

(***************************************************************************)
(* No activation can fail with config_category_missing: every category of  *)
(* every version has its row (apply_config_presentation).                  *)
(***************************************************************************)
THEOREM CategoryRowsExist == ConfigSpec => []RowsForEveryCategory
<1>1. ConfigInv => RowsForEveryCategory
  BY DEF ConfigInv
<1> QED BY <1>1, ConfigCorrect, PTL

-----------------------------------------------------------------------------
(* What one write may do to the versions and to the active snapshot. *)
HistoryStep ==
    \A v \in DOMAIN versions :
      /\ v \in DOMAIN versions'
      /\ versions'[v].source = versions[v].source
      /\ <<versions[v].status, versions'[v].status>> \in
           {<<"pending", "pending">>, <<"pending", "active">>,
            <<"pending", "superseded">>, <<"active", "active">>,
            <<"active", "superseded">>, <<"superseded", "superseded">>}

IsolationStep ==
    Active # 0 /\ Active' = Active /\ Pending' # 0
      => Snapshot(Active)' = Snapshot(Active)

(* Every stored status is one of the three. *)
LEMMA StatusType ==
  ASSUME ConfigTypeOK
  PROVE  \A v \in DOMAIN versions :
           versions[v].status = "pending" \/ versions[v].status = "active"
             \/ versions[v].status = "superseded"
<1>1. \A v \in DOMAIN versions : versions[v] \in Version
  BY DEF ConfigTypeOK
<1> QED BY <1>1 DEF Version, Status

(* An edit only supersedes the pending version or adds one. *)
LEMMA EditHistory ==
  ASSUME ConfigInv, NEW e \in Edit, NEW expected, PutConfig(e, expected)
  PROVE  HistoryStep
<1>1. ConfigTypeOK /\ VersionOrder
  BY DEF ConfigInv
<1>2. \A v \in DOMAIN versions :
        v \in DOMAIN versions' /\ versions'[v].source = versions[v].source
  BY EditStep
<1>3. DOMAIN versions = 1 .. Len(versions) /\ Len(versions) \in Nat
  BY <1>1 DEF ConfigTypeOK
<1>4. \A v \in DOMAIN versions :
        \/ versions'[v].status = versions[v].status
        \/ versions[v].status = "pending" /\ versions'[v].status = "superseded"
  <2>1. CASE EditPresentation(e)
    BY <1>1, <2>1, SupersededSeq, PendingFact DEF EditPresentation
  <2>2. CASE RepeatPending(e)
    BY <2>2 DEF RepeatPending, configVars
  <2>3. CASE CreateVersion(e)
    <3>1. PICK new : versions' = Append(SupersedePending, new)
      BY <2>3 DEF CreateVersion
    <3>2. \A v \in DOMAIN versions : versions'[v] = SupersedePending[v]
      BY <1>1, <1>3, <3>1, SupersededSeq
    <3> QED BY <1>1, <3>2, SupersededSeq, PendingFact
  <2> QED BY <2>1, <2>2, <2>3 DEF PutConfig
<1> QED BY <1>1, <1>2, <1>4, StatusType DEF HistoryStep

(* An activation moves two versions forward. *)
LEMMA ActivateHistory ==
  ASSUME ConfigInv, Pending # 0, Activate(Pending)
  PROVE  HistoryStep
<1>1. ConfigTypeOK /\ VersionOrder
  BY DEF ConfigInv
<1>2. \A v \in DOMAIN versions : versions[v] \in Version
  BY <1>1 DEF ConfigTypeOK
<1>3. \A v \in DOMAIN versions :
        /\ v \in DOMAIN versions'
        /\ versions'[v].source = versions[v].source
        /\ versions'[v].status = IF v = Pending THEN "active"
                                 ELSE IF v = Active THEN "superseded"
                                 ELSE versions[v].status
  BY <1>2 DEF Activate, Activated, Version
<1>4. versions[Pending].status = "pending"
  BY DEF Activate
<1>5. \A v \in DOMAIN versions : v = Active => versions[v].status = "active"
  BY <1>1, ActiveState
<1> QED BY <1>1, <1>3, <1>4, <1>5, StatusType DEF HistoryStep

(***************************************************************************)
(* Versions are history: a refresh run or an audit that names a version    *)
(* finds its content unchanged for ever, and no superseded version returns.*)
(***************************************************************************)
THEOREM HistoryIsKept == ConfigSpec => VersionsAreHistory
<1>1. ConfigInv /\ [ConfigNext]_configVars => [HistoryStep]_configVars
  <2> SUFFICES ASSUME ConfigInv, ConfigNext PROVE HistoryStep
    OBVIOUS
  <2>1. ASSUME NEW e \in Edit, NEW expected, PutConfig(e, expected)
        PROVE  HistoryStep
    BY <2>1, EditHistory
  <2>2. ASSUME NEW v \in DOMAIN versions, v = Pending, Activate(v)
        PROVE  HistoryStep
    <3>1. Pending # 0
      BY <2>2 DEF ConfigInv, ConfigTypeOK
    <3> QED BY <2>2, <3>1, ActivateHistory
  <2> QED BY <2>1, <2>2 DEF ConfigNext
<1>2. ConfigSpec => [][HistoryStep]_configVars
  BY <1>1, ConfigCorrect, PTL DEF ConfigSpec
<1> QED BY <1>2 DEF VersionsAreHistory, HistoryStep

(***************************************************************************)
(* What the active version shows is read from the category rows; a write   *)
(* that leaves a version pending changes none of the active ones.          *)
(***************************************************************************)
LEMMA ActiveSnapshot ==
  ASSUME ConfigInv, Active # 0
  PROVE  Snapshot(Active) =
           [sem |-> SemOf(Active), pres |-> [c \in Cats(SemOf(Active)) |-> shown[c]]]
<1>1. versions[Active].status = "active"
  BY ActiveState DEF ConfigInv
<1> QED BY <1>1 DEF Snapshot

(* An accepted edit does not touch what the active version shows while it is pending. *)
LEMMA EditIsolated ==
  ASSUME ConfigInv, NEW e \in Edit, NEW expected, PutConfig(e, expected)
  PROVE  IsolationStep
<1> SUFFICES ASSUME Active # 0, Active' = Active, Pending' # 0
             PROVE  Snapshot(Active)' = Snapshot(Active)
  BY DEF IsolationStep
<1>1. /\ ConfigInv'
      /\ \A v \in DOMAIN versions :
           v \in DOMAIN versions' /\ versions'[v].source = versions[v].source
  BY EditStep
<1>2. Active \in DOMAIN versions /\ Active \in DOMAIN versions'
  BY <1>1, ActiveState DEF ConfigInv
<1>3. SemOf(Active)' = SemOf(Active)
  <2>1. versions'[Active].source.sem = versions[Active].source.sem
    BY <1>1, <1>2
  <2> QED BY <2>1 DEF SemOf
<1>4. \A c \in Cats(SemOf(Active)) : shown'[c] = shown[c]
  <2>1. CASE EditPresentation(e)
    <3>1. WithStatus(versions', "pending") = {}
      BY <2>1, SupersededStatus DEF EditPresentation, ConfigInv
    <3>2. Pending' = 0
      BY <3>1, NonePending DEF Pending
    <3> QED BY <3>2
  <2>2. CASE RepeatPending(e)
    BY <2>2 DEF RepeatPending, configVars
  <2>3. CASE CreateVersion(e)
    <3>1. shown' = AddRows(e)
      BY <2>3 DEF CreateVersion
    <3>2. \A c \in Cats(SemOf(Active)) : c \in Cat /\ shown[c] # NoPres
      BY <1>2, VersionCategories DEF ConfigInv, RowsForEveryCategory
    <3> QED BY <3>1, <3>2 DEF AddRows
  <2> QED BY <2>1, <2>2, <2>3 DEF PutConfig
<1>5. Snapshot(Active)' =
        [sem |-> SemOf(Active)', pres |-> [c \in Cats(SemOf(Active)') |-> shown'[c]]]
  <2>1. versions'[Active'].status = "active"
    <3>1. WithStatus(versions', "active") # {}
      BY <1>1, ActiveState DEF ConfigInv, ActiveIn, Active
    <3>2. Active' \in WithStatus(versions', "active")
      BY <3>1, ActiveFact DEF Active
    <3> QED BY <3>2 DEF WithStatus
  <2> QED BY <2>1 DEF Snapshot, SemOf
<1>6. [c \in Cats(SemOf(Active)') |-> shown'[c]]
        = [c \in Cats(SemOf(Active)) |-> shown[c]]
  BY <1>3, <1>4
<1> QED BY <1>3, <1>5, <1>6, ActiveSnapshot

(***************************************************************************)
(* A pending configuration is isolated: budgets and names of the active    *)
(* one do not change while it waits (put_config, "Pending values must stay *)
(* isolated until their full rebuild commits").                            *)
(***************************************************************************)
THEOREM PendingStaysIsolated == ConfigSpec => PendingIsIsolated
<1>1. ConfigInv /\ [ConfigNext]_configVars => [IsolationStep]_configVars
  <2> SUFFICES ASSUME ConfigInv, ConfigNext PROVE IsolationStep
    OBVIOUS
  <2>1. ASSUME NEW e \in Edit, NEW expected, PutConfig(e, expected)
        PROVE  IsolationStep
    BY <2>1, EditIsolated
  <2>2. ASSUME NEW v \in DOMAIN versions, v = Pending, Activate(v)
        PROVE  IsolationStep
    <3>1. Pending # 0
      BY <2>2 DEF ConfigInv, ConfigTypeOK
    <3>2. Pending' = 0
      BY <2>2, <3>1, ActivateStep
    <3> QED BY <3>2 DEF IsolationStep
  <2> QED BY <2>1, <2>2 DEF ConfigNext
<1>2. ConfigSpec => [][IsolationStep]_configVars
  BY <1>1, ConfigCorrect, PTL DEF ConfigSpec
<1> QED BY <1>2 DEF PendingIsIsolated, IsolationStep
=============================================================================
