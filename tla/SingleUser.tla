----------------------------- MODULE SingleUser -----------------------------
(***************************************************************************)
(* Migration 0003, which turns the tables of named scopes into those of    *)
(* the one user, and its downgrade, among the requests of the clients.     *)
(*                                                                         *)
(* Clients retry: what a service has recorded about a request before a     *)
(* migration must answer its repetition after it.  The records are hashes  *)
(* of documents, and the two schemas hash different documents.  Staged     *)
(* rows do not survive an upgrade, so a run that was open must not either. *)
(*                                                                         *)
(* A migration is one transaction on a stopped service: it happens whole   *)
(* or, after an error or a crash, not at all.  The service of the scoped   *)
(* schema is not part of the source any more; of it only what the          *)
(* migration reads is modelled.  Ledger rows are copied unchanged and left *)
(* out; a hash is injective and is the document itself.                    *)
(***************************************************************************)
EXTENDS Integers, Sequences, FiniteSets, Functions

CONSTANTS
    Run,            \* runs, each named by its idempotency key
    Requests,       \* begin requests clients send
    Batch,          \* contents of batches
    Cfg, Sem,       \* configuration versions and their semantics
    Scope,          \* names of scopes, "personal" among them
    MaxMigrations,  \* bound: upgrades and downgrades
    NoScope, NoRun, NoCfg, NoSync

VARIABLES
    schema,      \* "scoped" (0002) or "single" (0003)
    runs, configs, sync,
    told,        \* history: the request a client began each run with
    origin,      \* history: the scope each run and configuration came from
    published,   \* history: what each run staged when it was committed
    migrations

userVars == <<schema, runs, configs, sync, told, origin, published, migrations>>

(* Accounts are numbers here; a list of them is in any order, without      *)
(* repetitions.                                                            *)
Mode == {"full", "incremental"}

Request == {q \in [mode : Mode, accounts : Seq(Nat)] : IsInjective(q.accounts)}

(* What is hashed of a request today, and what the scoped service hashed.  *)
Document == [mode : Mode, accounts : Seq(Nat)]
LegacyDocument == [mode : Mode, accounts : Seq(Nat), scope : Scope, cursor : {"empty"}]

RunRow ==
    [mode : Mode, accounts : Seq(Nat), completed : Seq(Nat), before : Nat,
     scope : Scope \union {NoScope},
     state : {"created", "uploaded", "committed", "failed"},
     batches : SUBSET Batch, staged : SUBSET Batch,
     hash : Document \union LegacyDocument]

ConfigRow ==
    [sem : Sem, scope : Scope \union {NoScope},
     hash : [sem : Sem] \union [sem : Sem, scope : Scope]]

SyncRow == [run : Run, rev : Nat \ {0}]

ASSUME SingleUserAssumption ==
    /\ Requests \subseteq Request
    /\ "personal" \in Scope /\ NoScope \notin Scope
    /\ Run \cap Cfg = {} /\ IsFiniteSet(Run \union Cfg)
    /\ NoRun \notin RunRow /\ NoCfg \notin ConfigRow /\ NoSync \notin SyncRow

UserInit ==
    /\ schema = "scoped"
    /\ runs = [k \in Run |-> NoRun]
    /\ configs = [c \in Cfg |-> NoCfg]
    /\ sync = NoSync
    /\ told = [k \in Run |-> NoRun]
    /\ origin = [x \in Run \union Cfg |-> NoScope]
    /\ published = [k \in Run |-> {}]
    /\ migrations = 0

-----------------------------------------------------------------------------
Began(k) == runs[k] # NoRun
IsCommitted(k) == Began(k) /\ runs[k].state = "committed"
IsOpen(r) == r.state \in {"created", "uploaded"}

Rev == IF sync = NoSync THEN 0 ELSE sync.rev

Arrangements(s) ==
    {[i \in DOMAIN s |-> s[p[i]]] : p \in Bijection(DOMAIN s, DOMAIN s)}

(* sorted() of Python. *)
Sorted(s) ==
    CHOOSE t \in Arrangements(s) : \A i, j \in DOMAIN t : i < j => t[i] <= t[j]

(* What is hashed of a begin request: sha256_hex of the validated request, *)
(* and the document the scoped service hashed.                             *)
RequestDoc(q) == [mode |-> q.mode, accounts |-> Sorted(q.accounts)]
LegacyRequestDoc(q, s) ==
    [mode |-> q.mode, accounts |-> Sorted(q.accounts), scope |-> s, cursor |-> "empty"]

ConfigDoc(sem) == [sem |-> sem]
LegacyConfigDoc(sem, s) == [sem |-> sem, scope |-> s]

(* The scopes a service may name: the single schema has none. *)
ScopesOf(sch) == IF sch = "single" THEN {NoScope} ELSE Scope

(***************************************************************************)
(* begin_refresh under a new key.  The validator has sorted the accounts;  *)
(* the scoped service stored them as they came.                            *)
(***************************************************************************)
BeginRun(k, q, s) ==
    /\ ~Began(k) /\ s \in ScopesOf(schema)
    /\ runs' = [runs EXCEPT ![k] =
         [mode |-> q.mode, scope |-> s, state |-> "created", batches |-> {}, staged |-> {},
          accounts |-> IF schema = "single" THEN Sorted(q.accounts) ELSE q.accounts,
          hash |-> IF schema = "single" THEN RequestDoc(q) ELSE LegacyRequestDoc(q, s),
          before |-> IF schema = "single" THEN Rev ELSE 0,
          completed |-> <<>>]]
    /\ told' = [told EXCEPT ![k] = q]
    /\ origin' = [origin EXCEPT ![k] = s]
    /\ UNCHANGED <<schema, configs, sync, published, migrations>>

(* upload_batch: contents differ, so a batch is named by its content. *)
UploadBatch(k, b) ==
    /\ Began(k) /\ IsOpen(runs[k]) /\ b \notin runs[k].batches
    /\ runs' = [runs EXCEPT ![k].state = "uploaded",
                            ![k].batches = @ \union {b}, ![k].staged = @ \union {b}]
    /\ UNCHANGED <<schema, configs, sync, told, origin, published, migrations>>

(* commit_refresh, as far as it depends on the run's row.  The scoped      *)
(* service compared a cursor instead of the revision.                      *)
CommitRun(k) ==
    /\ Began(k)
    /\ \/ runs[k].state = "uploaded"
       \/ runs[k].state = "created" /\ runs[k].batches = {}
    /\ schema = "single" => runs[k].before = Rev
    /\ runs' = [runs EXCEPT ![k].state = "committed", ![k].staged = {},
                            ![k].completed = Sorted(runs[k].accounts)]
    /\ sync' = [run |-> k, rev |-> Rev + 1]
    /\ published' = [published EXCEPT ![k] = runs[k].staged]
    /\ UNCHANGED <<schema, configs, told, origin, migrations>>

(* put_config: a new version. *)
Configure(c, sem, s) ==
    /\ configs[c] = NoCfg /\ s \in ScopesOf(schema)
    /\ configs' = [configs EXCEPT ![c] =
         [sem |-> sem, scope |-> s,
          hash |-> IF schema = "single" THEN ConfigDoc(sem) ELSE LegacyConfigDoc(sem, s)]]
    /\ origin' = [origin EXCEPT ![c] = s]
    /\ UNCHANGED <<schema, runs, sync, told, published, migrations>>

-----------------------------------------------------------------------------
(* Faulty: the documents of the configurations are not looked at. *)
ScopesOfRuns == {runs[k].scope : k \in {j \in Run : Began(j)}}

(* _legacy_scopes: the scopes of all rows and of the documents.            *)
LegacyScopes ==
    {runs[k].scope : k \in {j \in Run : Began(j)}}
    \union {configs[c].scope : c \in {d \in Cfg : configs[d] # NoCfg}}

(* Faulty: the accounts are hashed as they are stored. *)
RewrittenAsStored(r, restore) ==
    IF restore
    THEN [mode |-> r.mode, accounts |-> r.accounts, scope |-> "personal", cursor |-> "empty"]
    ELSE [mode |-> r.mode, accounts |-> r.accounts]

(* _request_hash_rewrites, from the columns of the row. *)
RewrittenHash(r, restore) ==
    LET q == [mode |-> r.mode, accounts |-> r.accounts] IN
    IF restore THEN LegacyRequestDoc(q, "personal") ELSE RequestDoc(q)

(* _config_rewrites: both directions hash the document without a scope.    *)
RewrittenConfig(c, restore) ==
    [sem |-> c.sem, scope |-> IF restore THEN "personal" ELSE NoScope,
     hash |-> ConfigDoc(c.sem)]

(* Faulty: open runs stay open. *)
UpgradedOpen(r) ==
    [r EXCEPT !.scope = NoScope, !.hash = RewrittenHash(r, FALSE),
              !.before = 0, !.staged = {},
              !.completed = IF r.state = "committed" THEN r.accounts ELSE <<>>]

(* A run's row after the upgrade: open runs are invalidated, staged rows   *)
(* are gone, a committed run has completed all its accounts.               *)
UpgradedRun(r) ==
    [r EXCEPT !.scope = NoScope, !.hash = RewrittenHash(r, FALSE),
              !.state = IF IsOpen(r) THEN "failed" ELSE @,
              !.before = 0, !.staged = {},
              !.completed = IF r.state = "committed" THEN r.accounts ELSE <<>>]

(* A run's row after the downgrade: staged rows are kept, its base         *)
(* revision is not; a committed run lists its accounts in a manifest.      *)
DowngradedRun(r) ==
    [r EXCEPT !.scope = "personal", !.hash = RewrittenHash(r, TRUE), !.before = 0,
              !.completed = IF r.state = "committed" THEN @ ELSE <<>>]

(* One pass over the rows of both tables. *)
Rewrite(restore) ==
    /\ runs' = [k \in Run |-> IF ~Began(k) THEN NoRun
                              ELSE IF restore THEN DowngradedRun(runs[k])
                              ELSE UpgradedRun(runs[k])]
    /\ configs' = [c \in Cfg |-> IF configs[c] = NoCfg THEN NoCfg
                                 ELSE RewrittenConfig(configs[c], restore)]
    /\ migrations < MaxMigrations /\ migrations' = migrations + 1
    /\ UNCHANGED <<sync, told, published>>

(* upgrade(): refused when there is more than one scope.                   *)
Upgrade ==
    /\ schema = "scoped" /\ schema' = "single"
    /\ Cardinality(LegacyScopes) <= 1
    /\ Rewrite(FALSE)
    /\ UNCHANGED origin

(* downgrade(): everything is in scope "personal".                         *)
Downgrade ==
    /\ schema = "single" /\ schema' = "scoped"
    /\ Rewrite(TRUE)
    /\ origin' = [x \in Run \union Cfg |->
                    IF IF x \in Run THEN Began(x) ELSE configs[x] # NoCfg
                    THEN "personal" ELSE NoScope]

UserNext ==
    \/ \E k \in Run :
         \/ \E q \in Requests, s \in Scope \union {NoScope} : BeginRun(k, q, s)
         \/ \E b \in Batch : UploadBatch(k, b)
         \/ CommitRun(k)
    \/ \E c \in Cfg, sem \in Sem, s \in Scope \union {NoScope} : Configure(c, sem, s)
    \/ Upgrade
    \/ Downgrade

UserSpec == UserInit /\ [][UserNext]_userVars

-----------------------------------------------------------------------------
(* begin_refresh finds the key and compares the hashes. *)
BeginIsAnswered(k, q) == Began(k) /\ runs[k].hash = RequestDoc(q)

(* commit_refresh of a committed run compares count and accounts. *)
CommitIsAnswered(k, count, completed) ==
    /\ IsCommitted(k)
    /\ Cardinality(runs[k].batches) = count
    /\ Sorted(runs[k].completed) = Sorted(completed)

(***************************************************************************)
(* A retry is never a conflict: after any number of migrations the service *)
(* answers a repeated begin and the repeated commit of a committed run,    *)
(* with the accounts in any order, and it recognises an unchanged          *)
(* configuration, whichever service recorded them.                         *)
(***************************************************************************)
RetriesAreAnswered ==
    schema = "single" =>
        /\ \A k \in {j \in Run : Began(j)} :
             \A accounts \in Arrangements(told[k].accounts) :
                /\ BeginIsAnswered(k, [told[k] EXCEPT !.accounts = accounts])
                /\ IsCommitted(k) =>
                     CommitIsAnswered(k, Cardinality(runs[k].batches), accounts)
        /\ \A c \in Cfg : configs[c] # NoCfg => configs[c].hash = ConfigDoc(configs[c].sem)

(***************************************************************************)
(* A commit publishes every batch that was acknowledged, also when the run *)
(* was begun or uploaded under another schema.                             *)
(***************************************************************************)
NothingStagedIsLost ==
    \A k \in Run : IsCommitted(k) => published[k] = runs[k].batches

(***************************************************************************)
(* Data of two scopes never become one user's: all that was stored under a *)
(* scope when the database was upgraded was stored under the same one.     *)
(***************************************************************************)
ScopesAreNotMixed ==
    schema = "single" => Cardinality({origin[x] : x \in Run \union Cfg} \ {NoScope}) <= 1
=============================================================================
