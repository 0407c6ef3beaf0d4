---------------------------- MODULE EditRegister ----------------------------
(***************************************************************************)
(* What configuration editing promises to the editors: one register.  An   *)
(* editor reads it, and a write succeeds only if the register still holds  *)
(* what that editor last read, so no edit is overwritten unseen.  Nothing  *)
(* but a write changes it: publishing a pending configuration does not.    *)
(***************************************************************************)
CONSTANTS Editor, Value, None, NotRead

VARIABLES
    value,  \* the configuration an editor edits
    seen    \* what each editor last read

registerVars == <<value, seen>>

RegisterInit ==
    /\ value = None
    /\ seen = [ed \in Editor |-> NotRead]

Read(ed) ==
    /\ seen' = [seen EXCEPT ![ed] = value]
    /\ UNCHANGED value

(* The response, if it arrives, shows the editor its own write. *)
Write(ed, new) ==
    /\ seen[ed] = value
    /\ value' = new
    /\ seen' = seen \/ seen' = [seen EXCEPT ![ed] = new]

RegisterNext == \E ed \in Editor : Read(ed) \/ \E new \in Value : Write(ed, new)

RegisterSpec == RegisterInit /\ [][RegisterNext]_registerVars
=============================================================================
