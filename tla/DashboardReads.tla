--------------------------- MODULE DashboardReads ---------------------------
(***************************************************************************)
(* get_dashboard (services/dashboard_service.py) as the SELECTs it is made *)
(* of, while the service of RefreshRuns goes on.  The reader holds the     *)
(* shared configuration lock from its first SELECT until its session is    *)
(* closed; begin_refresh, commit_refresh and put_config wait for it.  An   *)
(* upload takes no configuration lock.  (SQLite keeps uploads from         *)
(* committing too, since its readers and writers share one lock.)          *)
(*                                                                         *)
(* One reader is enough: readers do not see each other.  The edit hash is  *)
(* computed from objects that are already loaded and reads nothing new.    *)
(***************************************************************************)
EXTENDS RefreshRuns

CONSTANTS
    Days,     \* the days a dashboard is asked for (as_of)
    Nothing   \* not read yet

ASSUME DashboardAssumption == Days \subseteq Int

VARIABLES
    at,       \* the reader's next SELECT
    asOf,
    answer    \* what it has read so far

readerVars == <<at, asOf, answer>>
dashVars == <<vars, readerVars>>

Reading == at # "idle"

DashTypeOK ==
    /\ TypeOK
    /\ at \in {"idle", "pending", "rules", "rows", "run", "close"}
    /\ asOf \in Days
    /\ Reading => answer.active \in DOMAIN versions

DashInit ==
    /\ Init
    /\ at = "idle"
    /\ asOf \in Days
    /\ answer = Nothing

(* The answer of a reader that reads everything at once. *)
WholeAnswer ==
    LET shownCats == Enabled(SemOf(Active)) IN
    [active |-> Active, pending |-> Pending,
     budget |-> [c \in shownCats |-> shown[c]],
     counted |-> [c \in shownCats |-> Counted(live, Active, c, asOf)],
     sync |-> sync,
     upTo |-> IF sync = NoSync THEN Nothing ELSE runs[sync.run].request.to]

-----------------------------------------------------------------------------
(* Without an active version the request fails with config_required. *)
ReadActive(day) ==
    /\ ~Reading
    /\ Active # 0
    /\ answer' = [active |-> Active, pending |-> Nothing, budget |-> Nothing,
                  counted |-> [c \in {} |-> {}], sync |-> Nothing, upTo |-> Nothing]
    /\ asOf' = day
    /\ at' = "pending"
    /\ UNCHANGED vars

ReadPending ==
    /\ at = "pending"
    /\ answer' = [answer EXCEPT !.pending = Pending]
    /\ at' = "rules"
    /\ UNCHANGED <<vars, asOf>>

(* rules_for_config also loads the category rows with their budgets. *)
ReadRules ==
    /\ at = "rules"
    /\ answer' = [answer EXCEPT !.budget =
                    [c \in Enabled(SemOf(answer.active)) |-> shown[c]]]
    /\ at' = "rows"
    /\ UNCHANGED <<vars, asOf>>

ToRead == DOMAIN answer.budget \ DOMAIN answer.counted

(* The transactions of one category. *)
ReadRows(c) ==
    /\ at = "rows"
    /\ c \in ToRead
    /\ answer' = [answer EXCEPT !.counted =
                    [d \in DOMAIN answer.counted \union {c} |->
                        IF d = c THEN Counted(live, answer.active, c, asOf)
                        ELSE answer.counted[d]]]
    /\ UNCHANGED <<vars, asOf, at>>

ReadSync ==
    /\ at = "rows" /\ ToRead = {}
    /\ answer' = [answer EXCEPT !.sync = sync]
    /\ at' = IF sync = NoSync THEN "close" ELSE "run"
    /\ UNCHANGED <<vars, asOf>>

ReadRun ==
    /\ at = "run"
    /\ answer' = [answer EXCEPT !.upTo = runs[answer.sync.run].request.to]
    /\ at' = "close"
    /\ UNCHANGED <<vars, asOf>>

(* The response is sent, the session closed and the lock released. *)
Close ==
    /\ at = "close"
    /\ at' = "idle"
    /\ answer' = Nothing
    /\ UNCHANGED <<vars, asOf>>

Read == \/ \E day \in Days : ReadActive(day)
        \/ ReadPending \/ ReadRules \/ ReadSync \/ ReadRun \/ Close
        \/ \E c \in Cat : ReadRows(c)

(* Faulty: the reader takes no lock. *)
NobodyWaits == TRUE

(* lock_config_state of a writer *)
LockFree == ~Reading

(* The reader's locks exclude everything but uploads. *)
Write ==
    /\ \/ /\ LockFree
          /\ \/ \E e \in Edit, expected \in Edit \union {NoBase} : EditConfig(e, expected)
             \/ \E k \in Run, q \in Requests : Begin(k, q)
             \/ \E k \in Run, count \in 0 .. MaxBatches, completed \in SUBSET Account :
                  Commit(k, count, completed)
       \/ \E k \in Run, i \in BatchIndex, b \in Batches : Upload(k, i, b)
    /\ UNCHANGED readerVars

DashNext == Read \/ Write

DashSpec == DashInit /\ [][DashNext]_dashVars

-----------------------------------------------------------------------------
(***************************************************************************)
(* A dashboard shows one publication: its totals, budgets, versions and    *)
(* freshness are what one reader would have seen in a single instant, the  *)
(* one in which it answers, although the response is put together from     *)
(* many SELECTs and uploads go on meanwhile.                               *)
(***************************************************************************)
OnePublication == at = "close" => answer = WholeAnswer

(***************************************************************************)
(* Nothing is hidden: on the last day of the last run the dashboard counts *)
(* every row of the ledger up to that day, in each category the row has.   *)
(* Pruning, the dashboard's window and its filter by the active version    *)
(* agree about which rows those are.                                       *)
(***************************************************************************)
NothingHidden ==
    at = "close" /\ answer.upTo = asOf =>
        \A c \in DOMAIN answer.counted :
            answer.counted[c] = {id \in Identity : /\ live[id] # NoTx
                                                  /\ c \in live[id].cats
                                                  /\ live[id].date <= asOf}
=============================================================================
