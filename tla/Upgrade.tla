------------------------------ MODULE Upgrade ------------------------------
(***************************************************************************)
(* The repair of migration 0004 composed with the refresh runs.  Migration *)
(* 0003 multiplied stored budgets by 10,000 a second time.  If 0004 finds  *)
(* such a budget it restores it and deletes the ledger and the sync state, *)
(* which makes sync revisions start again; the refresh runs stay.          *)
(*                                                                         *)
(* The service is stopped during the migration, which is one transaction   *)
(* and runs once.  Before and after it the service is that of RefreshRuns, *)
(* started on a database that 0003 damaged: 0003 closed every run that was *)
(* open then, so there is none, and the ledger it left is part of what the *)
(* first runs of the model write.                                          *)
(***************************************************************************)
EXTENDS RefreshRuns

CONSTANT Scaled   \* Scaled[p] : the presentation p with its budget multiplied again

(* A damaged database has a configuration. *)
ASSUME UpgradeAssumption == Scaled \in [Pres -> Pres] /\ MaxVersions # 0

VARIABLES
    repaired,   \* the repair has deleted the ledger
    since,      \* history: runs committed since then
    overtaken   \* history: runs that were open when another one committed

upgradeVars == <<vars, repaired, since, overtaken>>

(* A configuration whose budgets 0003 damaged. *)
UpgradeInit ==
    /\ \E e \in Edit :
         /\ versions = <<[status |-> "active", source |-> e]>>
         /\ shown = [c \in Cat |-> IF c \in DOMAIN e.pres THEN Scaled[e.pres[c]]
                                   ELSE NoPres]
    /\ runs = [k \in Run |-> NoRun]
    /\ live = [id \in Identity |-> NoTx]
    /\ sync = NoSync
    /\ repaired = FALSE /\ since = {} /\ overtaken = {}

(* A commit is the step that changes the sync state. *)
Serve ==
    /\ Next
    /\ IF sync' = sync THEN UNCHANGED <<since, overtaken>>
       ELSE /\ since' = IF repaired THEN since \union {sync'.run} ELSE since
            /\ overtaken' = overtaken \union
                              {k \in Run : Exists(k) /\ runs'[k].state # "committed"}
    /\ UNCHANGED repaired

(* A row that shows exactly the damaged form of the active snapshot's value; *)
(* a value that multiplication does not change proves nothing.               *)
Damaged(c) ==
    LET pres == versions[Active].source.pres IN
    c \in DOMAIN pres /\ shown[c] = Scaled[pres[c]] /\ Scaled[pres[c]] # pres[c]

(* Faulty: only the sync state is deleted. *)
RepairKeepsLedger ==
    /\ ~repaired
    /\ Active # 0
    /\ \E c \in Cat : Damaged(c)
    /\ shown' = [c \in Cat |-> IF Damaged(c) THEN versions[Active].source.pres[c]
                               ELSE shown[c]]
    /\ sync' = NoSync
    /\ repaired' = TRUE
    /\ UNCHANGED <<versions, runs, live, since, overtaken>>

(* Faulty: the sync state stays. *)
RepairKeepsSync ==
    /\ ~repaired
    /\ Active # 0
    /\ \E c \in Cat : Damaged(c)
    /\ shown' = [c \in Cat |-> IF Damaged(c) THEN versions[Active].source.pres[c]
                               ELSE shown[c]]
    /\ live' = [id \in Identity |-> NoTx]
    /\ repaired' = TRUE
    /\ UNCHANGED <<versions, runs, sync, since, overtaken>>

(* _repair_sqlite_budgets *)
Repair ==
    /\ ~repaired
    /\ Active # 0
    /\ \E c \in Cat : Damaged(c)
    /\ shown' = [c \in Cat |-> IF Damaged(c) THEN versions[Active].source.pres[c]
                               ELSE shown[c]]
    /\ live' = [id \in Identity |-> NoTx]
    /\ sync' = NoSync
    /\ repaired' = TRUE
    /\ UNCHANGED <<versions, runs, since, overtaken>>

UpgradeNext == Serve \/ Repair

UpgradeSpec == UpgradeInit /\ [][UpgradeNext]_upgradeVars

-----------------------------------------------------------------------------
(***************************************************************************)
(* "The next refresh must therefore be a clean FULL_REBUILD": after the    *)
(* repair every row was written by runs committed since, the first of      *)
(* which, if there is one, was a rebuild; and nothing incremental commits  *)
(* before it.                                                              *)
(***************************************************************************)
CleanAfterRepair ==
    repaired =>
        /\ \A id \in Identity : live[id] # NoTx =>
             live[id].first \in since /\ live[id].last \in since
        /\ since # {} => \E k \in since : /\ runs[k].before = 0
                                          /\ runs[k].request.mode = "full"

(***************************************************************************)
(* "sync revision rejects stale incremental when accounts are unchanged"   *)
(* (a test of the refresh protocol): an incremental run that was open when *)
(* another run committed never commits itself.  The revision it compares   *)
(* counts from 1 again after the repair, and may meet the one it recorded. *)
(***************************************************************************)
StaleIncrementalIsRejected ==
    \A k \in overtaken : runs[k].request.mode = "incremental" => ~Committed(k)
=============================================================================
