-------------------------- MODULE PublicationStore --------------------------
(***************************************************************************)
(* What the refresh protocol promises, without its mechanism: an           *)
(* optimistically published store.  A writer opens a draft on the current  *)
(* revision; publishing replaces the schema, the book and the revision in  *)
(* one step, succeeds only if nobody published since the draft was opened, *)
(* and happens at most once per draft.  Between two publications nothing a *)
(* reader sees of the book changes.                                        *)
(***************************************************************************)
EXTENDS Integers

CONSTANTS
    Writer,  \* drafts, one per refresh run
    Key      \* entries of the book, one per transaction identity

VARIABLES
    rev,     \* number of publications
    schema,  \* the configuration version readers use; 0 before the first
    book,    \* for each entry the schema it was written under; 0 if absent
    opened,  \* the revision each draft was opened on, -1 if it was not
    done     \* the drafts that were published

storeVars == <<rev, schema, book, opened, done>>

StoreInit ==
    /\ rev = 0
    /\ schema = 0
    /\ book = [x \in Key |-> 0]
    /\ opened = [w \in Writer |-> -1]
    /\ done = {}

(* The first schema takes effect at once; the book is still empty. *)
Setup ==
    /\ schema = 0
    /\ schema' = 1
    /\ UNCHANGED <<rev, book, opened, done>>

Open(w) ==
    /\ schema # 0
    /\ opened[w] = -1
    /\ opened' = [opened EXCEPT ![w] = rev]
    /\ UNCHANGED <<rev, schema, book, done>>

(* Every entry of the published book is valid under the published schema. *)
Publish(w) ==
    /\ w \notin done
    /\ opened[w] = rev
    /\ rev' = rev + 1
    /\ done' = done \union {w}
    /\ schema' \in Nat
    /\ schema' >= schema
    /\ book' \in [Key -> {0, schema'}]
    /\ UNCHANGED opened

StoreNext == Setup \/ \E w \in Writer : Open(w) \/ Publish(w)

StoreSpec == StoreInit /\ [][StoreNext]_storeVars
=============================================================================
