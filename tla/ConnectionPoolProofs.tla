------------------------ MODULE ConnectionPoolProofs ------------------------
(***************************************************************************)
(* Proofs about ConnectionPool for any number of requests and workers.     *)
(*                                                                         *)
(* The three invariants are inductive together with the fact that OAuth    *)
(* posts stay on the event loop.  Each action moves one request to one     *)
(* other stage, so it is enough to say where the request came from, where  *)
(* it goes and what that does to the connection and the loop (MoveKeeps),  *)
(* and that only two actions take a worker.                                *)
(***************************************************************************)
EXTENDS ConnectionPool, FiniteSetTheorems, TLAPS

(* The OAuth endpoints use no worker. *)
TokenStage == {"new", "verify", "verifying", "done"}
TokensOnLoop == \A r \in Token : stage[r] \in TokenStage

PoolInv ==
    PoolTypeOK /\ ConnectionIsAccounted /\ HeldAtWorkOrAnswered /\ TokensOnLoop

(* A stage in which a session cannot have the connection. *)
Without == {"new", "ready", "verify", "waiting", "again", "done"}

(* The set of threads stays finite and within the limit, when a request    *)
(* that enters it found a worker free.                                     *)
LEMMA ThreadsBound ==
    ASSUME PoolTypeOK, NEW r \in Request, NEW s \in Stage, Becomes(r, s),
           s \in InThread => stage[r] \in InThread \/ WorkerIsFree
    PROVE  Cardinality(Threads') <= Workers
  <1> USE PoolAssumption
  <1>0. stage \in [Request -> Stage] /\ Cardinality(Threads) <= Workers
    BY DEF PoolTypeOK
  <1>1. IsFiniteSet(Threads) /\ Threads \subseteq Request
    BY FS_Subset DEF Threads
  <1>2. Cardinality(Threads) \in Nat
    BY <1>1, FS_CardinalityType
  <1>3. CASE Threads' \subseteq Threads
    <2>1. IsFiniteSet(Threads') /\ Cardinality(Threads') <= Cardinality(Threads)
      BY <1>1, <1>3, FS_Subset
    <2>2. Cardinality(Threads') \in Nat
      BY <2>1, FS_CardinalityType
    <2> QED
      BY <1>0, <1>2, <2>1, <2>2
  <1>4. CASE ~(Threads' \subseteq Threads)
    <2>1. /\ s \in InThread
          /\ stage[r] \notin InThread
          /\ Threads' = Threads \cup {r}
          /\ r \notin Threads
      BY <1>0, <1>4 DEF Threads, Becomes
    <2>2. Cardinality(Threads') = Cardinality(Threads) + 1
      BY <1>1, <2>1, FS_AddElement
    <2>3. Cardinality(Threads) < Workers
      BY <2>1 DEF WorkerIsFree
    <2> QED
      BY <1>2, <2>2, <2>3
  <1> QED
    BY <1>3, <1>4

(* Request r moves to stage s: a worker is given only if one is free, r     *)
(* takes the connection and the loop only from nobody and keeps them only  *)
(* where it may.                                                           *)
Moves(r, s) ==
    /\ Becomes(r, s)
    /\ s \in InThread => stage[r] \in InThread \/ WorkerIsFree
    /\ conn' \in {conn, r, Nobody}
    /\ loop' \in {loop, r, Nobody}
    /\ conn' # conn => conn \in {r, Nobody}
    /\ loop' # loop => loop \in {r, Nobody}
    /\ loop' = r <=> s \in OnLoop
    /\ s \in AtWork => conn' = r
    /\ conn' = r => s \notin Without
    /\ conn' = r => s \in AtWork \/ r \in Rest
    /\ r \in Token => s \in TokenStage

(* A request that only moves between stages keeps the invariant. *)
LEMMA MoveKeeps ==
    ASSUME PoolInv, NEW r \in Request, NEW s \in Stage, Moves(r, s)
    PROVE  PoolInv'
  <1> USE PoolAssumption DEF Moves
  <1>1. /\ stage \in [Request -> Stage]
        /\ conn \in Request \union {Nobody}
        /\ loop \in Request \union {Nobody}
    BY DEF PoolInv, PoolTypeOK
  <1>2. /\ stage'[r] = s
        /\ \A x \in Request \ {r} : stage'[x] = stage[x]
    BY <1>1 DEF Becomes
  <1>3. PoolTypeOK'
    <2>1. Cardinality(Threads') <= Workers
      BY ThreadsBound DEF PoolInv
    <2> QED
      BY <1>1, <2>1 DEF PoolTypeOK, Becomes
  <1>4. ASSUME NEW x \in Request
        PROVE  /\ stage'[x] \in AtWork => conn' = x
               /\ conn' = x => stage'[x] \notin Without
               /\ loop' = x <=> stage'[x] \in OnLoop
    <2>1. CASE x = r
      BY <1>2, <2>1
    <2>2. CASE x # r
      <3>1. /\ stage[x] \in AtWork => conn = x
            /\ conn = x => stage[x] \notin Without
            /\ loop = x <=> stage[x] \in OnLoop
        BY DEF PoolInv, ConnectionIsAccounted, Without
      <3>2. (conn' = x <=> conn = x) /\ (loop' = x <=> loop = x)
        BY <1>1, <2>2
      <3> QED
        BY <1>2, <2>2, <3>1, <3>2
    <2> QED
      BY <2>1, <2>2
  <1>5. ConnectionIsAccounted'
    BY <1>4 DEF ConnectionIsAccounted, Without
  <1>6. HeldAtWorkOrAnswered'
    <2>1. CASE conn' = r
      BY <1>2, <2>1 DEF HeldAtWorkOrAnswered
    <2>2. CASE conn' # r /\ conn' # Nobody
      <3>1. conn' = conn /\ conn \in Request \ {r}
        BY <1>1, <2>2
      <3> QED
        BY <1>2, <2>2, <3>1 DEF HeldAtWorkOrAnswered, PoolInv
    <2> QED
      BY <2>1, <2>2 DEF HeldAtWorkOrAnswered
  <1>7. TokensOnLoop'
    BY <1>2 DEF TokensOnLoop, PoolInv, Request
  <1> QED
    BY <1>3, <1>5, <1>6, <1>7 DEF PoolInv

(* The invariant holds with every request idle. *)
LEMMA InitPoolInv == PoolInit => PoolInv
  <1> SUFFICES ASSUME PoolInit PROVE PoolInv
    OBVIOUS
  <1> USE PoolAssumption DEF PoolInit
  <1>1. Threads = {}
    BY DEF Threads, InThread
  <1>2. Cardinality(Threads) <= Workers
    BY <1>1, FS_EmptySet
  <1> QED
    BY <1>2 DEF PoolInv, PoolTypeOK, ConnectionIsAccounted, HeldAtWorkOrAnswered,
                TokensOnLoop,
                Stage, AtWork, OnLoop, InThread, Request, TokenStage

(* Every action is such a move. *)
LEMMA StepKeepsPool == PoolInv /\ [PoolNext]_poolVars => PoolInv'
  <1> USE PoolAssumption
  <1>1. ASSUME PoolInv, UNCHANGED poolVars
        PROVE  PoolInv'
    BY <1>1 DEF PoolInv, PoolTypeOK, ConnectionIsAccounted, HeldAtWorkOrAnswered,
                TokensOnLoop,
                Threads, poolVars
  <1>2. ASSUME PoolInv, NEW r \in Request,
               \/ OpenOnLoop(r) \/ TakeOnLoop(r) \/ LeaveLoop(r)
               \/ GiveWorker(r) \/ Take(r) \/ CommitAndReload(r)
               \/ Finish(r) \/ Fail(r) \/ Collect(r)
               \/ Check(r) \/ CollectCheck(r) \/ Close(r)
               \/ GiveUp(r)
        PROVE  PoolInv'
    <2>0. /\ stage \in [Request -> Stage]
          /\ conn \in Request \union {Nobody}
          /\ loop \in Request \union {Nobody}
          /\ stage[r] \in AtWork => conn = r
          /\ conn = r => stage[r] \notin Without
          /\ loop = r <=> stage[r] \in OnLoop
          /\ conn = r => stage[r] \in AtWork \/ r \in Rest
          /\ r \in Token => stage[r] \in TokenStage
          /\ r \in Token => r \notin Rest /\ r \notin Tool
      BY <1>2 DEF PoolInv, PoolTypeOK, ConnectionIsAccounted, HeldAtWorkOrAnswered,
                TokensOnLoop, Without
    <2> USE DEF Moves
    <2> SUFFICES \E s \in Stage : Moves(r, s)
      BY <1>2, MoveKeeps
    <2>1. CASE OpenOnLoop(r)
      <3>1. "verify" \in Stage /\ Moves(r, "verify")
        BY <2>0, <2>1 DEF OpenOnLoop, LoopIsFree, Stage, InThread, OnLoop, AtWork, Without,
           TokenStage
      <3> QED
        BY <3>1
    <2>2. CASE TakeOnLoop(r)
      <3>1. "verifying" \in Stage /\ Moves(r, "verifying")
        BY <2>0, <2>2 DEF TakeOnLoop, Stage, InThread, OnLoop, AtWork, Without,
           TokenStage
      <3> QED
        BY <3>1
    <2>3. CASE LeaveLoop(r)
      <3>1. PICK s \in IF r \in Tool THEN {"ready", "done"} ELSE {"done"} : Becomes(r, s)
        BY <2>3 DEF LeaveLoop
      <3>2. s \in Stage /\ Moves(r, s)
        BY <2>0, <2>3, <3>1 DEF LeaveLoop, Stage, InThread, OnLoop, AtWork, Without,
           TokenStage
      <3> QED
        BY <3>2
    <2>4. CASE GiveWorker(r)
      <3>1. "waiting" \in Stage /\ Moves(r, "waiting")
        BY <2>0, <2>4 DEF GiveWorker, LoopIsFree, Stage, InThread, OnLoop, AtWork, Without,
           TokenStage
      <3> QED
        BY <3>1
    <2>5. CASE Take(r)
      <3> DEFINE s == IF stage[r] = "waiting" THEN "using" ELSE "reloading"
      <3>1. s \in Stage /\ Moves(r, s)
        BY <2>0, <2>5 DEF Take, Stage, InThread, OnLoop, AtWork, Without,
           TokenStage
      <3> QED
        BY <3>1
    <2>6. CASE CommitAndReload(r)
      <3>1. "again" \in Stage /\ Moves(r, "again")
        BY <2>0, <2>6 DEF CommitAndReload, Stage, InThread, OnLoop, AtWork, Without,
           TokenStage
      <3> QED
        BY <3>1
    <2>7. CASE Finish(r)
      <3>1. "returned" \in Stage /\ Moves(r, "returned")
        BY <2>0, <2>7 DEF Finish, AfterService, Request, Stage, InThread, OnLoop, AtWork, Without,
           TokenStage
      <3> QED
        BY <3>1
    <2>8. CASE Fail(r)
      <3>1. "failed" \in Stage /\ Moves(r, "failed")
        BY <2>0, <2>8 DEF Fail, AfterService, Request, Stage, InThread, OnLoop, AtWork, Without,
           TokenStage
      <3> QED
        BY <3>1
    <2>9. CASE Collect(r)
      <3> DEFINE s == IF r \in Tool THEN "done"
                    ELSE IF stage[r] = "returned" THEN "answered" ELSE "closing"
      <3>1. s \in Stage /\ Moves(r, s)
        BY <2>0, <2>9 DEF Collect, LoopIsFree, Stage, InThread, OnLoop, AtWork, Without,
           TokenStage
      <3> QED
        BY <3>1
    <2>10. CASE Check(r)
      <3>1. "checking" \in Stage /\ Moves(r, "checking")
        BY <2>0, <2>10 DEF Check, LoopIsFree, Stage, InThread, OnLoop, AtWork, Without,
           TokenStage
      <3> QED
        BY <3>1
    <2>11. CASE CollectCheck(r)
      <3>1. "closing" \in Stage /\ Moves(r, "closing")
        BY <2>0, <2>11 DEF CollectCheck, LoopIsFree, Stage, InThread, OnLoop, AtWork, Without,
           TokenStage
      <3> QED
        BY <3>1
    <2>12. CASE Close(r)
      <3>1. "done" \in Stage /\ Moves(r, "done")
        BY <2>0, <2>12 DEF Close, LoopIsFree, Stage, InThread, OnLoop, AtWork, Without,
           TokenStage
      <3> QED
        BY <3>1
    <2>13. CASE GiveUp(r)
      <3>1. CASE stage[r] = "verify"
        <4>1. "done" \in Stage /\ Moves(r, "done")
          BY <2>0, <2>13, <3>1 DEF GiveUp, Stage, InThread, OnLoop, AtWork, Without,
           TokenStage
        <4> QED
          BY <4>1
      <3>2. CASE stage[r] # "verify"
        <4>1. "failed" \in Stage /\ Moves(r, "failed")
          BY <2>0, <2>13, <3>2 DEF GiveUp, Stage, InThread, OnLoop, AtWork, Without,
           TokenStage
        <4> QED
          BY <4>1
      <3> QED
        BY <3>1, <3>2
    <2> QED
      BY <1>2, <2>1, <2>2, <2>3, <2>4, <2>5, <2>6, <2>7, <2>8, <2>9, <2>10,
         <2>11, <2>12, <2>13
  <1> QED
    BY <1>1, <1>2 DEF PoolNext

(***************************************************************************)
(* The inductive invariant of the pool.                                    *)
(***************************************************************************)
THEOREM PoolCorrect == PoolSpec => []PoolInv
  BY InitPoolInv, StepKeepsPool, PTL DEF PoolSpec

(***************************************************************************)
(* At most Workers threads, one connection, one request on the event loop. *)
(***************************************************************************)
THEOREM PoolTypeCorrect == PoolSpec => []PoolTypeOK
  BY PoolCorrect, PTL DEF PoolInv

(***************************************************************************)
(* A session that is over or has given up never keeps the connection.      *)
(***************************************************************************)
THEOREM ConnectionsReturn == PoolSpec => []ConnectionIsAccounted
  BY PoolCorrect, PTL DEF PoolInv

(***************************************************************************)
(* No tool and no token check ever holds the connection while it needs the *)
(* event loop, for any number of requests.                                 *)
(***************************************************************************)
THEOREM ToolsLetTheLoopRun == PoolSpec => []HeldAtWorkOrAnswered
  BY PoolCorrect, PTL DEF PoolInv
=============================================================================
