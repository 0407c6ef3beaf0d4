--------------------------- MODULE ConfigEditing ---------------------------
(***************************************************************************)
(* Editors (REST clients with ETag and If-Match, MCP clients with          *)
(* expected_config_hash) that read the configuration, edit it at leisure   *)
(* and write it back, while refresh runs activate pending versions.  A     *)
(* write whose base is stale is rejected and changes nothing.              *)
(***************************************************************************)
EXTENDS ConfigVersions

CONSTANTS
    Editor,
    NotRead   \* the editor has not fetched the configuration yet

ASSUME EditorAssumption == NotRead \notin Edit \union {NoBase}

VARIABLES
    seen,     \* the snapshot each editor's hash stands for
    accepted  \* history: the last edit the service answered with success

editingVars == <<versions, shown, seen, accepted>>

EditingInit ==
    /\ ConfigInit
    /\ seen = [ed \in Editor |-> NotRead]
    /\ accepted = NoBase

(* get_config: both versions under the shared lock, the base's hash. *)
GetConfig(ed) ==
    /\ seen' = [seen EXCEPT ![ed] = BaseSnapshot]
    /\ UNCHANGED <<versions, shown, accepted>>

(* The response carries the view taken inside the writing transaction; it  *)
(* may be lost on the way back.                                            *)
SaveConfig(ed, e) ==
    /\ seen[ed] # NotRead
    /\ PutConfig(e, seen[ed])
    /\ accepted' = e
    /\ \/ seen' = [seen EXCEPT ![ed] = BaseSnapshot']
       \/ seen' = seen

(* A refresh run for the pending version commits. *)
PublishPending ==
    /\ Pending # 0
    /\ Activate(Pending)
    /\ UNCHANGED <<seen, accepted>>

EditingNext ==
    \/ \E ed \in Editor : GetConfig(ed) \/ \E e \in Edit : SaveConfig(ed, e)
    \/ PublishPending

EditingSpec == EditingInit /\ [][EditingNext]_editingVars

(***************************************************************************)
(* The editors share one compare-and-set register holding the last         *)
(* accepted edit: it is what everybody reads next, whatever path it took   *)
(* (live at once, a new pending version, a withdrawn one), activation      *)
(* never changes what an editor reads, and no edit overwrites an unseen    *)
(* one.                                                                    *)
(***************************************************************************)
Register == INSTANCE EditRegister WITH
    Value <- Edit, None <- NoBase, value <- accepted

ImplementsRegister == Register!RegisterSpec
=============================================================================
