--------------------------- MODULE ConnectionPool ---------------------------
(***************************************************************************)
(* The one pooled SQLite connection (db/session.py) and those who need it: *)
(* REST endpoints, which run in worker threads but keep their session      *)
(* until the event loop tears the request down; MCP tools, whose token is  *)
(* verified on the event loop itself and whose session begins and ends in  *)
(* a worker thread; and posts to the OAuth endpoints, which are served on  *)
(* the event loop.                                                         *)
(*                                                                         *)
(* Whoever needs the connection blocks its thread, and the event loop is a *)
(* thread like any other: while it waits no worker is given out, no result *)
(* is collected and no session is torn down.  The pool's time limit is the *)
(* only way out of such a wait; here it may run out at any moment.         *)
(*                                                                         *)
(* The event loop, the worker threads and the pool belong to the libraries *)
(* (uvicorn, FastAPI, AnyIO, SQLAlchemy) and are modelled from how the code *)
(* uses them.                                                              *)
(***************************************************************************)
EXTENDS Naturals, FiniteSets

CONSTANTS
    Rest, Tool, Token,   \* calls of REST endpoints, MCP tools, OAuth endpoints
    Workers,             \* worker threads given out at a time
    Nobody

Request == Rest \union Tool \union Token

ASSUME PoolAssumption ==
    /\ Rest \intersect Tool = {}
    /\ Rest \intersect Token = {}
    /\ Tool \intersect Token = {}
    /\ Nobody \notin Request
    /\ IsFiniteSet(Request)
    /\ Workers \in Nat \ {0}

VARIABLES
    stage,  \* how far each request has come
    conn,   \* the session that has the connection
    loop    \* the request whose code blocks the event loop

poolVars == <<stage, conn, loop>>

(* Its code runs or waits in a worker thread, or the event loop has not    *)
(* collected what the thread returned.                                     *)
InThread == {"waiting", "using", "again", "reloading", "returned", "failed", "checking"}

OnLoop == {"verify", "verifying"}

Stage == {"new", "ready", "answered", "closing", "done"} \union OnLoop \union InThread

(* The stages in which code of the request is running on the connection.   *)
AtWork == {"verifying", "using", "reloading"}

PoolInit ==
    /\ stage = [r \in Request |-> IF r \in Rest THEN "ready" ELSE "new"]
    /\ conn = Nobody
    /\ loop = Nobody

-----------------------------------------------------------------------------
Becomes(r, s) == stage' = [stage EXCEPT ![r] = s]

LoopIsFree == loop = Nobody

Threads == {r \in Request : stage[r] \in InThread}
WorkerIsFree == Cardinality(Threads) < Workers

(* DatabaseTokenVerifier.verify_token, or a handler of the OAuth router:   *)
(* the event loop opens a session.                                         *)
OpenOnLoop(r) ==
    /\ r \in Tool \union Token /\ stage[r] = "new" /\ LoopIsFree
    /\ Becomes(r, "verify") /\ loop' = r
    /\ UNCHANGED conn

TakeOnLoop(r) ==
    /\ stage[r] = "verify" /\ conn = Nobody
    /\ Becomes(r, "verifying") /\ conn' = r
    /\ UNCHANGED loop

(* The session ends with its block.  A verified token lets the tool run.   *)
LeaveLoop(r) ==
    /\ stage[r] = "verifying"
    /\ \E s \in IF r \in Tool THEN {"ready", "done"} ELSE {"done"} : Becomes(r, s)
    /\ conn' = Nobody
    /\ loop' = Nobody

(* Faulty: calls of REST endpoints get threads beyond the limit. *)
GiveThread(r) ==
    /\ stage[r] = "ready" /\ LoopIsFree
    /\ r \in Tool => WorkerIsFree
    /\ Becomes(r, "waiting")
    /\ UNCHANGED <<conn, loop>>

GiveWorker(r) ==
    /\ stage[r] = "ready" /\ LoopIsFree /\ WorkerIsFree
    /\ Becomes(r, "waiting")
    /\ UNCHANGED <<conn, loop>>

(* The first statement of a session takes the connection. *)
Take(r) ==
    /\ stage[r] \in {"waiting", "again"} /\ conn = Nobody
    /\ Becomes(r, IF stage[r] = "waiting" THEN "using" ELSE "reloading")
    /\ conn' = r
    /\ UNCHANGED loop

(* begin_refresh and commit_refresh: db.commit() gives the connection back, *)
(* and db.refresh(run) needs it again.                                     *)
CommitAndReload(r) ==
    /\ stage[r] = "using"
    /\ Becomes(r, "again")
    /\ conn' = Nobody
    /\ UNCHANGED loop

(* Faulty: the session of a tool is closed by the event loop. *)
KeepUntilCollected(r, s) == conn

(* What a session leaves of the connection when the service returns.  A    *)
(* tool's session_scope closes it; a REST session keeps it, unless the     *)
(* service's last statement was its commit.                                *)
AfterService(r, s) == IF r \in Tool THEN Nobody ELSE conn

Finish(r) ==
    /\ stage[r] \in {"using", "reloading"}
    /\ Becomes(r, "returned")
    /\ \/ conn' = AfterService(r, "returned")
       \/ stage[r] = "using" /\ conn' = Nobody
    /\ UNCHANGED loop

(* The service raises an error. *)
Fail(r) ==
    /\ stage[r] \in {"using", "reloading"}
    /\ Becomes(r, "failed")
    /\ conn' = AfterService(r, "failed")
    /\ UNCHANGED loop

(* The event loop takes what the thread returned. *)
Collect(r) ==
    /\ LoopIsFree
    /\ stage[r] \in {"returned", "failed"}
    /\ Becomes(r, IF r \in Tool THEN "done"
                  ELSE IF stage[r] = "returned" THEN "answered" ELSE "closing")
    /\ UNCHANGED <<conn, loop>>

(* The answer of a synchronous endpoint is validated in a worker, too.     *)
Check(r) ==
    /\ stage[r] = "answered" /\ LoopIsFree /\ WorkerIsFree
    /\ Becomes(r, "checking")
    /\ UNCHANGED <<conn, loop>>

CollectCheck(r) ==
    /\ stage[r] = "checking" /\ LoopIsFree
    /\ Becomes(r, "closing")
    /\ UNCHANGED <<conn, loop>>

(* Faulty: the teardown does not close the session. *)
CloseWithoutReturn(r) ==
    /\ stage[r] = "closing" /\ LoopIsFree
    /\ Becomes(r, "done")
    /\ UNCHANGED <<conn, loop>>

(* The teardown of get_db closes the session. *)
Close(r) ==
    /\ stage[r] = "closing" /\ LoopIsFree
    /\ Becomes(r, "done")
    /\ conn' = IF conn = r THEN Nobody ELSE conn
    /\ UNCHANGED loop

(* Faulty: the event loop waits without a limit. *)
GiveUpInThread(r) ==
    /\ stage[r] \in {"waiting", "again"}
    /\ Becomes(r, "failed")
    /\ UNCHANGED <<conn, loop>>

(* pool_timeout has passed. *)
GiveUp(r) ==
    \/ /\ stage[r] \in {"waiting", "again"}
       /\ Becomes(r, "failed")
       /\ UNCHANGED <<conn, loop>>
    \/ /\ stage[r] = "verify"
       /\ Becomes(r, "done") /\ loop' = Nobody
       /\ UNCHANGED conn

PoolNext ==
    \E r \in Request :
        \/ OpenOnLoop(r) \/ TakeOnLoop(r) \/ LeaveLoop(r)
        \/ GiveWorker(r) \/ Take(r) \/ CommitAndReload(r)
        \/ Finish(r) \/ Fail(r) \/ Collect(r)
        \/ Check(r) \/ CollectCheck(r) \/ Close(r)
        \/ GiveUp(r)

(* Threads and the event loop keep running, and a wait in the pool ends.   *)
(* No more is needed: every step brings a request closer to its end.       *)
PoolSpec == PoolInit /\ [][PoolNext]_poolVars /\ WF_poolVars(PoolNext)

-----------------------------------------------------------------------------
PoolTypeOK ==
    /\ stage \in [Request -> Stage]
    /\ conn \in Request \union {Nobody}
    /\ loop \in Request \union {Nobody}
    /\ Cardinality(Threads) <= Workers

(***************************************************************************)
(* The connection is never lost and never used by two: a session at work   *)
(* has it, and one that is over, waits for it or has given up has not.     *)
(* The event loop is blocked by exactly the request it serves.             *)
(***************************************************************************)
ConnectionIsAccounted ==
    \A r \in Request :
        /\ stage[r] \in AtWork => conn = r
        /\ conn = r => stage[r] \notin {"new", "ready", "verify", "waiting", "again", "done"}
        /\ loop = r <=> stage[r] \in OnLoop

(***************************************************************************)
(* Only a REST request that has been served keeps the connection without   *)
(* using it.  So a tool or a token check never has to wait for the event   *)
(* loop to give the connection back, and the event loop never waits for a  *)
(* tool that waits for the event loop.                                     *)
(***************************************************************************)
HeldAtWorkOrAnswered ==
    conn # Nobody => stage[conn] \in AtWork \/ conn \in Rest

(***************************************************************************)
(* Nobody waits for ever: not the event loop for a session that only the   *)
(* event loop can close, and not an answer for a worker while all workers  *)
(* wait for the connection its session keeps.                              *)
(***************************************************************************)
EveryRequestEnds == \A r \in Request : <>(stage[r] = "done")
=============================================================================
