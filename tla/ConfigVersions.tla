--------------------------- MODULE ConfigVersions ---------------------------
(***************************************************************************)
(* Configuration versions (services/config_service.py).  A configuration   *)
(* has rule semantics, which are versioned and need a rebuild of the       *)
(* ledger when they change, and presentation (budgets, names, icons),      *)
(* which lives in the shared categories rows and is edited in place.       *)
(* Every write runs under the exclusive configuration lock in one database *)
(* transaction, so a write is one step.  A request that a guard rejects    *)
(* rolls back and changes nothing.                                         *)
(***************************************************************************)
EXTENDS Integers, Sequences

CONSTANTS
    Cat,          \* category keys
    Sem,          \* rule semantics: what the semantic hash distinguishes
    Rules,        \* Rules[s] : category key -> [look, on]
    Currency,     \* currency codes
    CurrencyOf,   \* CurrencyOf[s] : the display currency, part of the semantics
    Pres,         \* what a category row shows: budget limit, name, icon
    MaxVersions,  \* bound: configuration versions ever created
    NoPres,       \* the categories table has no row for a key
    NoBase        \* no If-Match header, or a null expected hash

Cats(s) == DOMAIN Rules[s]
Enabled(s) == {c \in Cats(s) : Rules[s][c].on}

(* A ConfigPutRequest: semantics, and the presentation of its categories. *)
Edit == UNION {[sem : {s}, pres : [Cats(s) -> Pres]] : s \in Sem}

Status == {"active", "pending", "superseded"}
Version == [status : Status, source : Edit]

ASSUME ConfigAssumption ==
    /\ \A s \in Sem : /\ Cats(s) \in (SUBSET Cat) \ {{}}
                      /\ Rules[s] \in [Cats(s) -> [look : Nat \ {0}, on : BOOLEAN]]
    /\ CurrencyOf \in [Sem -> Currency]
    /\ NoPres \notin Pres
    /\ NoBase \notin Edit
    /\ MaxVersions \in Nat

VARIABLES
    versions,  \* config_versions: the version column is the index
    shown      \* the presentation columns of the categories table

configVars == <<versions, shown>>

ConfigTypeOK ==
    /\ versions \in Seq(Version)
    /\ Len(versions) <= MaxVersions
    /\ shown \in [Cat -> Pres \union {NoPres}]

ConfigInit ==
    /\ versions = <<>>
    /\ shown = [c \in Cat |-> NoPres]

-----------------------------------------------------------------------------
(* _active_and_pending and _get_versions; 0 stands for None: the first     *)
(* version is 1.                                                           *)
WithStatus(vs, st) == {v \in DOMAIN vs : vs[v].status = st}
ActiveIn(vs) == IF WithStatus(vs, "active") = {} THEN 0
                ELSE CHOOSE v \in WithStatus(vs, "active") : TRUE
PendingIn(vs) == IF WithStatus(vs, "pending") = {} THEN 0
                 ELSE CHOOSE v \in WithStatus(vs, "pending") :
                          \A w \in WithStatus(vs, "pending") : w <= v
Active == ActiveIn(versions)
Pending == PendingIn(versions)

SemOf(v) == versions[v].source.sem

(* The version an edit is based on: the pending one if there is one. *)
Base == IF Pending # 0 THEN Pending ELSE Active

(* editable_snapshot_for_config; hashing is injective, so its edit hash is *)
(* the snapshot itself.                                                    *)
Snapshot(v) ==
    IF versions[v].status = "pending" THEN versions[v].source
    ELSE [sem |-> SemOf(v), pres |-> [c \in Cats(SemOf(v)) |-> shown[c]]]

BaseSnapshot == IF Base = 0 THEN NoBase ELSE Snapshot(Base)

(* The category rows after the presentation of e is written to them. *)
Present(e) == [c \in Cat |-> IF c \in DOMAIN e.pres THEN e.pres[c] ELSE shown[c]]

(* Faulty: rows are left to the activation. *)
AddNoRows(e) == [c \in Cat |-> IF c \in DOMAIN e.pres THEN shown[c] ELSE shown[c]]

(* New categories get their row at once; existing rows are left alone. *)
AddRows(e) ==
    [c \in Cat |-> IF shown[c] = NoPres /\ c \in DOMAIN e.pres
                   THEN e.pres[c] ELSE shown[c]]

SupersedePending ==
    [v \in DOMAIN versions |->
        IF v = Pending THEN [versions[v] EXCEPT !.status = "superseded"]
        ELSE versions[v]]

-----------------------------------------------------------------------------
(***************************************************************************)
(* _put_config.  The caller supplies the snapshot it edited (If-Match, or  *)
(* the MCP tool's expected_config_hash), which must be the current one.    *)
(***************************************************************************)

(* Faulty: the withdrawn pending version stays pending. *)
EditBesidePending(e) ==
    /\ Active # 0
    /\ SemOf(Active) = e.sem
    /\ UNCHANGED versions
    /\ shown' = Present(e)

(* Faulty: the active version's source_config is rewritten. *)
EditInPlace(e) ==
    /\ Active # 0
    /\ SemOf(Active) = e.sem
    /\ versions' = [SupersedePending EXCEPT ![Active].source = e]
    /\ shown' = Present(e)

(* The active version's semantics: no rescan, a pending version is dropped *)
(* and the new presentation is live at once.                               *)
EditPresentation(e) ==
    /\ Active # 0
    /\ SemOf(Active) = e.sem
    /\ versions' = SupersedePending
    /\ shown' = Present(e)

(* The pending version already says exactly this. *)
RepeatPending(e) ==
    /\ Pending # 0
    /\ Active # 0 => SemOf(Active) # e.sem
    /\ Snapshot(Pending) = e
    /\ UNCHANGED configVars

(* Faulty: an earlier pending version is not superseded. *)
CreateSecondPending(e) ==
    /\ Active # 0 => SemOf(Active) # e.sem
    /\ Pending # 0 => Snapshot(Pending) # e
    /\ Len(versions) < MaxVersions
    /\ versions' = Append(versions,
                          [status |-> IF Active = 0 THEN "active" ELSE "pending",
                           source |-> e])
    /\ shown' = IF Active = 0 THEN Present(e) ELSE AddRows(e)

(* Faulty: the presentation of a pending version is live at once. *)
CreateVisible(e) ==
    /\ Active # 0 => SemOf(Active) # e.sem
    /\ Pending # 0 => Snapshot(Pending) # e
    /\ Len(versions) < MaxVersions
    /\ versions' = Append(SupersedePending,
                          [status |-> IF Active = 0 THEN "active" ELSE "pending",
                           source |-> e])
    /\ shown' = Present(e)

(* Faulty: new semantics take effect without a rebuild. *)
CreateActive(e) ==
    /\ Active # 0 => SemOf(Active) # e.sem
    /\ Len(versions) < MaxVersions
    /\ versions' = Append([v \in DOMAIN versions |->
                              [versions[v] EXCEPT !.status = "superseded"]],
                          [status |-> "active", source |-> e])
    /\ shown' = Present(e)

(* New semantics: a new version, which waits for a rebuild unless it is    *)
(* the first one.                                                          *)
CreateVersion(e) ==
    /\ Active # 0 => SemOf(Active) # e.sem
    /\ Pending # 0 => Snapshot(Pending) # e
    /\ Len(versions) < MaxVersions
    /\ versions' = Append(SupersedePending,
                          [status |-> IF Active = 0 THEN "active" ELSE "pending",
                           source |-> e])
    /\ shown' = IF Active = 0 THEN Present(e) ELSE AddRows(e)

PutConfig(e, expected) ==
    /\ expected = BaseSnapshot
    /\ EditPresentation(e) \/ RepeatPending(e) \/ CreateVersion(e)

(***************************************************************************)
(* The part of commit_refresh that concerns configurations: a rebuild for  *)
(* a pending version publishes its presentation and swaps the active one.  *)
(***************************************************************************)
Activated(v) ==
    [w \in DOMAIN versions |->
        IF w = v THEN [versions[w] EXCEPT !.status = "active"]
        ELSE IF w = Active THEN [versions[w] EXCEPT !.status = "superseded"]
        ELSE versions[w]]

Activate(v) ==
    /\ versions[v].status = "pending"
    /\ versions' = Activated(v)
    /\ shown' = Present(versions[v].source)

ConfigNext ==
    \/ \E e \in Edit, expected \in Edit \union {NoBase} : PutConfig(e, expected)
    \/ \E v \in DOMAIN versions : v = Pending /\ Activate(v)

ConfigSpec == ConfigInit /\ [][ConfigNext]_configVars

-----------------------------------------------------------------------------
(***************************************************************************)
(* Once the first configuration exists there is always exactly one active  *)
(* version; at most one is pending, it is the newest, and it waits only    *)
(* because its semantics really differ from the active ones.               *)
(***************************************************************************)
VersionOrder ==
    /\ \A v, w \in WithStatus(versions, "active") : v = w
    /\ \A v, w \in WithStatus(versions, "pending") : v = w
    /\ versions # <<>> => Active # 0
    /\ Pending # 0 => /\ Pending = Len(versions)
                      /\ Active < Pending
                      /\ SemOf(Pending) # SemOf(Active)

(***************************************************************************)
(* Every category of every version has a row, so that activation never     *)
(* fails with config_category_missing and a superseded version can still   *)
(* be shown.                                                               *)
(***************************************************************************)
RowsForEveryCategory ==
    \A v \in DOMAIN versions : \A c \in Cats(SemOf(v)) : shown[c] # NoPres

(***************************************************************************)
(* A pending configuration is isolated: while one is waiting after a step, *)
(* the step has not changed what the active configuration shows.           *)
(***************************************************************************)
PendingIsIsolated ==
    [][Active # 0 /\ Active' = Active /\ Pending' # 0
         => Snapshot(Active)' = Snapshot(Active)]_configVars

(***************************************************************************)
(* Versions are history: none disappears or changes its content, and a     *)
(* superseded one never comes back.                                        *)
(***************************************************************************)
VersionsAreHistory ==
    [][\A v \in DOMAIN versions :
         /\ v \in DOMAIN versions'
         /\ versions'[v].source = versions[v].source
         /\ <<versions[v].status, versions'[v].status>> \in
              {<<"pending", "pending">>, <<"pending", "active">>,
               <<"pending", "superseded">>, <<"active", "active">>,
               <<"active", "superseded">>, <<"superseded", "superseded">>}]_configVars
=============================================================================
