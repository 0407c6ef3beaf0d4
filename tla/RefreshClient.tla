---------------------------- MODULE RefreshClient ----------------------------
(***************************************************************************)
(* Refresh clients over an unreliable network.  A client follows the       *)
(* instructions of the MCP server (mcp/server.py): it reads whether a      *)
(* rebuild is required, begins a run under a new idempotency key, uploads  *)
(* its batches in order and commits.  A request whose answer is lost is    *)
(* sent again unchanged; after a rejection the client starts over under    *)
(* another key.  A commit request may also arrive once more much later.    *)
(*                                                                         *)
(* The service is that of RefreshRuns; here a handler also answers what it *)
(* has on record and rejects what it does not accept.                      *)
(***************************************************************************)
EXTENDS RefreshRuns, Sequences

CONSTANTS
    Client,
    Accounts,  \* Accounts[cl] : the sets of accounts client cl may enumerate
    Feed,      \* Feed[s] : the batches a client uploads under semantics s
    NoKey, NoRequest

ASSUME ClientAssumption ==
    /\ \A cl \in Client : Accounts[cl] \subseteq (SUBSET Account) \ {{}}
    /\ Feed \in [Sem -> Seq(Batches)]
    /\ \A s \in Sem : Len(Feed[s]) <= MaxBatches
    /\ NoKey \notin Run

(* All items clients ever send. *)
Listed == UNION {UNION {Feed[s][i].items : i \in DOMAIN Feed[s]} : s \in Sem}

(* Clients list what their bank says: a transaction that another one       *)
(* replaces is pending in every list, and no two replace the same one.     *)
ASSUME FeedAssumption ==
    \A x \in Replacing(Listed), y \in Listed :
        /\ Id(y) = Target(x) => y.pend
        /\ y \in Replacing(Listed) /\ Target(y) = Target(x) => Id(y) = Id(x)

VARIABLES
    pc, key, req, next,
    full,     \* the client was told to send a full rebuild
    asked,    \* runs whose commit was requested, and may be again
    base      \* history: the configurations when the client's run began

clientVars == <<pc, key, req, next, full, asked, base>>
allVars == <<vars, clientVars>>

ClientInit ==
    /\ Init
    /\ pc = [cl \in Client |-> "idle"]
    /\ key = [cl \in Client |-> NoKey]
    /\ req = [cl \in Client |-> NoRequest]
    /\ next = [cl \in Client |-> 0]
    /\ full = [cl \in Client |-> FALSE]
    /\ asked = {}
    /\ base = [cl \in Client |-> <<>>]

-----------------------------------------------------------------------------
(* full_rebuild_required of the dashboard *)
RebuildRequired == Pending # 0 \/ sync = NoSync \/ sync.cfg # Active

(* A new key; the key of a rejected begin is as good as new. *)
UnusedKeys(cl) == {k \in Run : ~Exists(k) /\ \A other \in Client \ {cl} : key[other] # k}

(* get_config and get_dashboard_budgets, then the choice of a request. *)
ReadState(cl) ==
    /\ pc[cl] = "idle"
    /\ Active # 0
    /\ UnusedKeys(cl) # {}
    /\ \E q \in Requests :
         /\ q.accounts \in Accounts[cl]
         /\ q.mode = IF full[cl] \/ RebuildRequired THEN "full" ELSE "incremental"
         /\ q.mode = "full" => CoversRules(q, SemOf(TargetVersion(q.mode)))
         /\ req' = [req EXCEPT ![cl] = q]
    /\ key' = [key EXCEPT ![cl] = CHOOSE k \in UnusedKeys(cl) : TRUE]
    /\ pc' = [pc EXCEPT ![cl] = "begin"]
    /\ UNCHANGED <<vars, next, full, asked, base>>

(* The client goes on to step once it hears the answer. *)
Answered(cl, heard, step) == pc' = IF heard THEN [pc EXCEPT ![cl] = step] ELSE pc

Recorded(k, q) == Exists(k) /\ runs[k].request = q

(* begin_refresh, answered from its record if the key is known. *)
CallBegin(cl, heard) ==
    /\ pc[cl] = "begin"
    /\ \/ /\ Begin(key[cl], req[cl])
          /\ base' = [base EXCEPT ![cl] = versions]
          /\ Answered(cl, heard, "upload")
          /\ UNCHANGED full
       \/ /\ Recorded(key[cl], req[cl])
          /\ Answered(cl, heard, "upload")
          /\ UNCHANGED <<vars, base, full>>
       \/ /\ ~Recorded(key[cl], req[cl])
          /\ Exists(key[cl]) \/ ~Beginnable(req[cl])
          /\ full' = [full EXCEPT ![cl] = @ \/ heard]
          /\ Answered(cl, heard, "idle")
          /\ UNCHANGED <<vars, base>>
    /\ UNCHANGED <<key, req, next, asked>>

(* What a client uploads for run k. *)
FeedOf(k) == Feed[SemOf(runs[k].cfg)]
Batch(cl) == FeedOf(key[cl])

(* Faulty: a batch that is on record is a conflict. *)
UploadWithoutReplay(cl, heard) ==
    LET k == key[cl]
        i == next[cl]
    IN  /\ pc[cl] = "upload"
        /\ i < Len(Batch(cl))
        /\ Upload(k, i, Batch(cl)[i + 1])
        /\ next' = [next EXCEPT ![cl] = IF heard THEN i + 1 ELSE i]
        /\ UNCHANGED <<pc, key, req, full, asked, base>>

(* upload_batch, answered from its record if the batch is known. *)
CallUpload(cl, heard) ==
    LET k == key[cl]
        i == next[cl]
    IN  /\ pc[cl] = "upload"
        /\ i < Len(Batch(cl))
        /\ \/ Upload(k, i, Batch(cl)[i + 1])
           \/ runs[k].batches[i] = Batch(cl)[i + 1] /\ UNCHANGED vars
        /\ next' = [next EXCEPT ![cl] = IF heard THEN i + 1 ELSE i]
        /\ UNCHANGED <<pc, key, req, full, asked, base>>

Uploaded(cl) ==
    /\ pc[cl] = "upload"
    /\ next[cl] = Len(Batch(cl))
    /\ pc' = [pc EXCEPT ![cl] = "commit"]
    /\ next' = [next EXCEPT ![cl] = 0]
    /\ asked' = asked \union {key[cl]}
    /\ UNCHANGED <<vars, key, req, full, base>>

Count(k) == Len(FeedOf(k))
Completed(k) == runs[k].request.accounts

Acceptable(k) ==
    Committable(k, Count(k), Completed(k)) /\ ReplacementsValid(runs[k].staged, live)

(* Faulty: a repeated commit is recognised by its completion data alone. *)
CommitByCompletion(cl, heard) ==
    LET k == key[cl] IN
    /\ pc[cl] = "commit"
    /\ \/ Commit(k, Count(k), Completed(k))
       \/ Received(k) = 0 .. (Count(k) - 1) /\ UNCHANGED vars
    /\ Answered(cl, heard, "done")
    /\ base' = [base EXCEPT ![cl] = IF heard THEN <<>> ELSE @]
    /\ UNCHANGED <<key, req, next, full, asked>>

(* commit_refresh, answered from its record if the run is committed. *)
CallCommit(cl, heard) ==
    LET k == key[cl] IN
    /\ pc[cl] = "commit"
    /\ \/ Commit(k, Count(k), Completed(k)) /\ Answered(cl, heard, "done")
       \/ Committed(k) /\ UNCHANGED vars /\ Answered(cl, heard, "done")
       \/ /\ ~Committed(k) /\ ~Acceptable(k)
          /\ Answered(cl, heard, "idle")
          /\ UNCHANGED vars
    /\ base' = [base EXCEPT ![cl] = IF heard THEN <<>> ELSE @]
    /\ UNCHANGED <<key, req, next, full, asked>>

(* A delayed copy of a commit request arrives; nobody hears the answer. *)
LateCommit(k) == Commit(k, Count(k), Completed(k)) /\ UNCHANGED clientVars

Call(cl, heard) == CallBegin(cl, heard) \/ CallUpload(cl, heard) \/ CallCommit(cl, heard)

EditBetween(e, expected) == EditConfig(e, expected) /\ UNCHANGED clientVars

ClientNext ==
    \/ \E cl \in Client : ReadState(cl) \/ Uploaded(cl) \/ \E heard \in BOOLEAN : Call(cl, heard)
    \/ \E k \in asked : LateCommit(k)
    \/ \E e \in Edit, expected \in Edit \union {NoBase} : EditBetween(e, expected)

(* A client goes on, and repeats a request until it hears an answer. *)
Retries(cl) == WF_allVars(ReadState(cl) \/ Uploaded(cl) \/ Call(cl, TRUE))

ClientSpec ==
    /\ ClientInit /\ [][ClientNext]_allVars
    /\ \A cl \in Client : Retries(cl)

-----------------------------------------------------------------------------
(***************************************************************************)
(* Every client's refresh is committed in the end, once there is a         *)
(* configuration: whatever answers are lost, other clients commit and      *)
(* finitely many edits intervene, it is never rejected for ever.           *)
(***************************************************************************)
EveryRefreshCommits == \A cl \in Client : Active # 0 ~> pc[cl] = "done"

(***************************************************************************)
(* No commit is refused without a reason the client could not foresee:     *)
(* when its commit is rejected, another run committed or the configuration *)
(* changed since the run began.  What begin checks is all commit needs.    *)
(***************************************************************************)
RefusalsHaveReasons ==
    [][\A cl \in Client : pc[cl] = "commit" /\ pc'[cl] = "idle" =>
         runs[key[cl]].before # Revision \/ base[cl] # versions]_allVars

(***************************************************************************)
(* A client that was told its refresh is committed can rely on it: the run *)
(* of its request is committed, with exactly the batches of its feed, each *)
(* in its place, however many requests were lost, repeated or late.        *)
(***************************************************************************)
ToldIsPublished ==
    \A cl \in Client : pc[cl] = "done" =>
        LET k == key[cl] IN
        /\ Committed(k) /\ runs[k].request = req[cl]
        /\ \A i \in BatchIndex :
             runs[k].batches[i] = IF i < Count(k) THEN FeedOf(k)[i + 1] ELSE NoBatch
=============================================================================
