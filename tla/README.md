# A verification of rolling-budget-api in TLA+

rolling-budget-api keeps a single user's classified bank transactions and shows
how much of each category's budget is spent in a rolling window. An external
*refresh client* (an agent with access to the bank) reads transactions,
classifies them and uploads them in **refresh runs**; *editors* change the
**configuration**; a dashboard reads what the last committed run published.
The service is a FastAPI application over one SQLite database (PostgreSQL is
supported too), with a REST and an MCP front end and its own OAuth server for
the latter.

Paths below are relative to the repository. `services/` stands for
`src/rolling_budget_api/services/`, and likewise for the other packages.

## 1. Inventory

| Component | State it keeps | Operations | Hard behaviours | Modelled |
|---|---|---|---|---|
| Refresh runs: `services/refresh_service.py`, `schemas/refresh.py`, `api/routes/refresh.py` | `refresh_runs`, `refresh_batches`, `staged_transactions`, `transactions`, `transaction_categories`, `sync_states` | `begin_refresh`, `upload_batch`, `commit_refresh` | concurrent runs on one base revision; a configuration edit under an open run; late, lost, repeated requests; everything a commit changes must change together | `RefreshRuns` |
| Ledger merge and pruning: same file, 535-757 | none of its own | `_validate_pending_replacements`, `_replace_all_transactions`, `_merge_incremental`, `_prune_outside_windows` | loops that delete and store over an unordered SELECT; pending transactions replaced by posted ones across runs; window edges | `LedgerMerge`, `MergeLoop` |
| Configuration versions: `services/config_service.py`, `services/hashing.py`, `schemas/config.py` | `config_versions`, `config_version_rules`, `categories` | `put_config`, `put_config_checked`, `get_config`, activation inside a commit | editors racing each other and an activation; a base that moves between the active and the pending version; presentation stored in rows all versions share | `ConfigVersions`, `ConfigEditing` |
| Dashboard: `services/dashboard_service.py` | none | `get_dashboard` | several SELECTs that must belong to one publication | `DashboardReads` |
| Engine, sessions, locks: `db/session.py`, `services/config_service.py:38-61` | connection pool, database locks | `get_db`, `session_scope`, `begin_write_transaction`, the exclusive and shared configuration lock | one pooled connection shared by worker threads and the event loop; sessions that outlive their handler | `ConnectionPool`; the write lock in `WriteTransactions` |
| Schema and triggers: `migrations/` 0001-0003, `sqlite_support.py` | constraints, immediate triggers | the checks of each statement | every trigger sees the database halfway through a commit; rollback after any statement | `WriteTransactions` |
| Upgrades: `0003_single_user.py`, `0004_sqlite_money_scale_repair.py` | the whole database | 0003 rewrites runs and configurations in both directions; 0004 clears the ledger and the sync state | open runs and their staged rows; retries across a migration; scopes named in several places; 0004 leaves open runs and restarts revisions | `SingleUser` (0003), `Upgrade` (0004) |
| OAuth server: `oauth/` | clients, codes, token families | issue, exchange, refresh, revoke, verify | single use, replay detection, lost responses, times taken before the lock | `TokenFamilies` |
| MCP server: `mcp/server.py` | none | one tool per service call; the instructions its clients follow | lost answers, repeated and late calls, starting over after a rejection | `RefreshClient` (the instructions), `ConnectionPool` (its sessions) |
| Application and settings: `main.py`, `core/` | none | wiring, stateless checks | none | no |
| Demo and deployment: `scripts/`, `demo/`, `compose.yaml`, `Dockerfile` | none of the service's | sample data, containers | none | no |

**How they interact.** `begin_refresh`, `commit_refresh` and every
configuration write take the exclusive configuration lock first and do all their
work in one database transaction. `get_config` and `get_dashboard` take the
shared lock. `upload_batch` locks only its own run's row; what else it reads (the
run's configuration version and rules) never changes once written. Refresh runs
depend on configurations in two ways: a run is *for* a version (the pending one
for a rebuild, else the active one), and committing a rebuild for a pending
version activates it. The dashboard joins the ledger with the active version.

**What makes each correct.**

* Refresh: a publication is atomic and complete, no committed run is silently
  overwritten, the ledger never mixes versions, currencies or account scopes,
  what a client was told stays true, and each staged row is committed once.
* Clients: one that follows the instructions gets its refresh committed, with exactly what it
  listed, and loses a whole scan only to another commit or a configuration edit.
* Dashboard: it shows one publication, and all of it.
* Merge: the result does not depend on row order, a replaced pending transaction
  is never counted beside its replacement, pruning removes nothing the dashboard
  would count.
* Tokens: a code is good once, a family has one refresh token that can be used, a
  replay is noticed, what was revoked stays revoked, scopes never grow, and nobody
  is logged out by somebody else's request.
* Transactions: a handler takes effect whole or not at all, and the schema refuses no
  statement of a request that the handler has accepted.
* Pool: the connection always comes back, and nobody waits for it for ever.
* Upgrade: the refresh after a repair starts from nothing; a migration loses no uploaded
  row of a run that commits, answers retries of requests sent before it, and never merges
  the data of two scopes.
* Configuration: one active version, at most one pending, newer and really
  different; a pending version does not show; no edit overwrites one its author
  did not see; activation cannot fail for a missing category.

The complete hazard list, each entry at its line with the properties that
answer it, is in `PROJECT.json`.

## 2. Modules

```
LedgerMerge          ConfigVersions ------------- ConfigEditing --INSTANCE-- EditRegister
  |      \ INSTANCE     | EXTENDS      EXTENDS          |
MergeLoop  `-------- RefreshRuns --INSTANCE-- PublicationStore
  |                     |                               |
MCMergeLoop       MCRefreshRuns                  MCConfigEditing
                        |
      ,-----------------+--------------+-----------------.
   Upgrade       RefreshClient   DashboardReads   WriteTransactions

   TokenFamilies     ConnectionPool     SingleUser      (each of the last two rows with its MC module)

ConfigVersionsProofs --> RefreshRunsProofs --> WriteTransactionsProofs
                                          \--> ParticipantsProofs  (ConfigEditing, DashboardReads,
                                                                    RefreshClient, Upgrade)
MergeLoopProofs     SingleUserProofs     TokenFamiliesProofs     ConnectionPoolProofs
```

**`ConfigVersions`** is `config_service.py`. `versions` is the
`config_versions` table, its index the `version` column; `shown` holds the
presentation columns (budget limit, name, icon) of the shared `categories` rows.
A configuration is `[sem, pres]`: the part `semantic_hash_for_config` covers and
the part it does not. Hashes are taken as injective, so a hash *is* the value it
covers: `expected_config_hash` is the snapshot the caller edited. `_put_config`
is `PutConfig`: the comparison with the base, and one disjunct per outcome:

| disjunct | code | effect |
|---|---|---|
| `EditPresentation` | 321-338 | same semantics as the active version: shown at once, a pending version is superseded |
| `RepeatPending` | 340-346 | the pending version already says this: nothing changes |
| `CreateVersion` | 348-429 | new semantics: a new version, active if it is the first, else pending; new categories get rows |

`Activate` is the part of `commit_refresh` (492-509) that swaps versions.

**`ConfigEditing`** adds editors who fetch the configuration, hold its hash for
any length of time, and write; the response may be lost. `accepted` is a history
variable: the last edit the service accepted. Its abstract specification is
**`EditRegister`**, one compare-and-set register whose value is `accepted`: each
fetch must return it, and each write must have been based on it.

**`LedgerMerge`** has the pure functions of a commit on sets of staged items and a
ledger (a function from identity, account and source id, to a row or `NoTx`).
Amounts, names and timestamps do not influence any of them. **`MergeLoop`** is
the same code as the loop it is written as: staged rows arrive in any order, each
iteration deletes and stores in the table.

**`RefreshRuns`** extends `ConfigVersions` with `runs` (each with its request,
state, version, base revision, batches and staged rows), `live` (the ledger) and
`sync` (the single sync state). Actions and code:

| action | code | guard, from the code's early returns |
|---|---|---|
| `Begin` | 77-169 | new key; an active version; incremental: none pending, same accounts as the last commit; rebuild: window covers every enabled rule |
| `Upload` | 203-358 | new index and new key; run open; no identity twice in the batch or the staging; each item in scope (account, currency, dates, enabled categories) |
| `Commit` | 370-532 | state; version still the target; batches 0..count-1 all there; all accounts completed; base revision unchanged; replacements valid |
| `EditConfig` | `config_service.py` 220-430 | `PutConfig` |

A run is named by its idempotency key. A request that the code answers from its
records (a begun key, a recorded batch, a committed run) or rejects changes no
state: it is a stuttering step, as is a crash before the database commit. Here clients are
not modelled as processes: any handler may be called at any time with any
arguments, which contains every schedule of delays, losses, repetitions and
reorderings. (`RefreshClient` has them, for liveness.) The statuses `VALIDATED` and `FAILED` never reach the database at the
end of a transaction: the first exists inside a commit, the second is unused.

**`PublicationStore`** is the abstract promise: drafts opened on a revision, each
published at most once and only on that revision, with schema and book replaced in
one step.

**`RefreshClient`** adds clients that do what `_SERVER_INSTRUCTIONS` (`mcp/server.py` 76-124)
tells them: read whether a rebuild is required, choose a request, begin it under a new key,
upload the batches in order, commit. Each call of a handler comes with `heard`,
whether its answer arrives; if not, the client sends the same request again, and the handler
answers from its record. After a rejection the client starts over under another key, with
a full rebuild if begin told it so (`full`). `asked` holds the runs whose commit request
may arrive once more, at any later time (`LateCommit`). `base` is history: the configurations as they were
when the client's run began.

**`DashboardReads`** is `get_dashboard` (35-127) as one action per SELECT: `ReadActive`,
`ReadPending`, `ReadRules` (with the category rows), one `ReadRows` per category, `ReadSync`,
`ReadRun`, `Close`. `answer` is what has been read so far. `LockFree` is what a
writer waits for in `lock_config_state`; an upload takes no configuration lock and goes on.
`WholeAnswer` is the promise: the same answer read in one instant.

**`WriteTransactions`** takes the handlers apart. The variables of `RefreshRuns` are the database
on disk; `txn` is the write transaction that is open, with a private copy of the database (`db`) and
the handler's next statement (`at`). The `Open...` actions are `BEGIN IMMEDIATE` with the checks
of the handler; then one action per flush:

| handler | statements |
|---|---|
| `begin_refresh` | `InsertRun` |
| `upload_batch` | `InsertBatch`, `StageItems` |
| `commit_refresh` | `MarkValidated`, `MergeLedger`, `MarkCommitted`, for a pending version `SupersedeOld` and `ActivateNew`, then `AdvanceSync`, `Unstage` |
| `_put_config` | `PresentEdit`, or `InsertRows` and `InsertVersion` |

`Execute` lets a statement through only if `Allowed` holds of the copy before and after it: the
triggers of `sqlite_support.py` and `0003`, the one-active index and the foreign keys, which SQLite checks
at once and against what the transaction has written so far. A refused statement leaves the
handler nothing but `Rollback`, which may also come at any other point (an error, a crash, a lost
connection). `End` is `db.commit()`. Its abstract specification is `RefreshRuns!Spec` itself,
with the disk as the refinement mapping. Reads are not transactions here: SQLite's readers see the disk.
A loop that flushes row by row (the merge, the new category rows) is one statement, since the
triggers and references it meets name one row each.

**`ConnectionPool`** is `db/session.py` and its users. The SQLite engine has a pool of one connection, and a
session keeps it from its first statement until it commits, rolls back or is closed.
`stage` says how far a request has come, `conn` whose session has the connection, `loop` which
request's code blocks the event loop.

| kind | path | where the session ends |
|---|---|---|
| `Rest` | synchronous endpoint in a worker; the event loop collects the result, has it validated in another worker, and tears down `get_db` | on the event loop, or at the service's own commit |
| `Tool` | token check on the event loop, then the service in a worker | in the worker (`session_scope`) |
| `Token` | OAuth endpoint | on the event loop, at once |

While code on the event loop waits for the connection, nothing else happens on it: no worker is
given out, no result is collected, no session is torn down (`LoopIsFree`). `GiveUp` is `pool_timeout`. The threads, the
loop and the pool are the libraries', modelled from how the code uses them.

**`SingleUser`** is migration `0003` in both directions between requests of the clients. `schema` says which
service runs; `runs`, `configs` and `sync` hold what the migration reads and rewrites. The
single-user service is `refresh_service.py` again, reduced to what depends on a run's row
(its hash, state, base revision, batches, completed accounts); of the scoped service, which is not
in the repository any more, only what the migration presupposes is modelled: which documents it hashed, and
that each row names a scope. `Upgrade` and `Downgrade` are one transaction each.
`told`, `origin` and `published` are history. Accounts are lists here: clients and services may list them in any
order, and `Sorted` is Python's `sorted`.

**`Upgrade`** puts the repair of `0004_sqlite_money_scale_repair.py` beside the
refresh runs. `0003` failed every run that was open and multiplied stored budgets
once more (`Scaled`), so the module starts with one active configuration in its damaged
form and no open run. `Serve` is any step of `RefreshRuns`; `Repair` is `0004`'s
`_repair_sqlite_budgets` and happens at most once. Runs that were begun between the two
migrations stay open across it, because `0004` does not touch them.
`since` and `overtaken` are history: who committed after the repair, and who was open while
another run committed.

**`TokenFamilies`** is the state of `oauth/service.py`: authorization codes, token
families, and the pairs of access and refresh tokens of a family.

| action | code | guard |
|---|---|---|
| `IssueCode` | 207-235 | the owner approved; cleans up what expired |
| `Exchange` | 237-294 | code found, not used, not expired, same client |
| `Rotate` | 296-363, 456-494 | token and family found, neither used nor revoked nor expired, same client, no new scope |
| `Replay` | 323-331 | token found and used: the family is revoked before the error is raised |
| `RevokeAccess`, `RevokeRefresh` | 396-428 | token found |
| `ChangeSecret` | `oauth/config.py` 136-150 | a restart with another owner secret |
| `Tick` | `_now`, 78 | |

`AccessOK` is `verify_access_token`, which only reads. Each request takes its time *before*
it waits for the database lock, so `now` is any value up to `MaxWait` old and
requests may act out of the order of their times. Digests are keyed by the secret, so the
`Finds...` operators look a row up only under the secret that made it; the client,
redirect and resource checks are one comparison of clients. Rows are deleted
(`Gone`) only by the cleanup; `fam`, `granted` and `told` remember what a row said. As in
`RefreshRuns`, holders of tokens are not processes: any token that ever existed may be
presented at any time by anybody, which covers lost responses and stolen tokens.

## 3. Runs

| run | instance | distinct states | asks |
|---|---|---|---|
| `refresh_runs` | 3 runs, 2 versions, 2 batch indices, 2 accounts, 3 source ids, 2 categories, 2 currencies, 4 batches, 3 begin requests | 205 852 | do publications stay atomic, complete, unlost and in scope, in every interleaving of begin, upload, commit and edit? does the whole implement `PublicationStore` and `ConfigSpec`? |
| `config_editing` | 2 editors, 3 semantics, 2 presentations, 3 versions, 2 categories | 93 979 | do versions stay ordered and isolated, and do the editors share one register? |
| `token_families` | 2 codes, 2 families, 3 pairs, 2 clients, 2 scope sets, 2 secrets, clock to 3 | 1 184 446 | are codes and refresh tokens single use, is a replay always noticed, is a revocation final, do scopes and sessions behave, for every order of requests and times? |
| `upgrade` | 3 runs, 1 damaged configuration, 2 requests, 2 batches | 6 156 | is what is published after the repair built from nothing, although runs stay open across it? |
| `upgrade_stale_run` | as `upgrade` | violation | does an incremental run that another commit overtook still commit? |
| `incremental_absence` | as `refresh_runs` | violation | does an incremental run delete rows it does not mention? |
| `refresh_client` | 2 clients, 9 keys, 2 versions, 2 requests, 2 batches (a pending transaction; the posted one that replaces it) | 130 535 | is every client's refresh committed in the end, and published as it was listed? is a commit refused only because of another commit or an edit? |
| `dashboard_reads` | 1 reader, 2 runs, 2 versions, 2 presentations, 2 categories, 2 days, 2 requests, 2 batches | 384 194 | is an answer one publication, and does it hide no row? |
| `write_transactions` | 2 runs, 3 versions, 2 categories, 2 source ids, 3 batches, 2 begin requests, 1 batch index | 191 113 | does the schema ever refuse a statement of an accepted request? do the handlers, flush by flush and with rollbacks, implement `RefreshRuns!Spec`? |
| `connection_pool` | 3 REST calls, 2 tool calls, 1 OAuth post, 2 workers | 196 394 | does the connection always come back, and does every request end? |
| `single_user` | 3 runs, 2 batches, 2 requests (one with unsorted accounts), 1 configuration, 2 scopes, 3 migrations | 317 393 | are retries answered and uploads kept across migrations, and scopes kept apart? |
| `merge_loop` | every staging of up to 3 items over ledgers of up to 2 rows, every order | 4 770 | does the loop always compute the set-based merge? |

**Why these bounds.** *Runs:* three are needed for the longest chain a property
talks about: a rebuild, an incremental run on it, and a third that began before either.
*Versions:* two give one activation under open runs; the version
orders themselves need a pending version replaced by another, which
`config_editing` has with three. *Batches:* two indices make a gap possible, and two
batches with one key make key conflicts possible. *Transactions:* a pending one
in two categories, the posted one that replaces it, an old one that pruning drops,
one in the new currency, one of another account. *Windows:* the two
semantics widen one window, disable a category and change the currency; the last
days of the requests are 2 and 3, so the edge of a window moves over a row.
*Presentation* is a single value in `refresh_runs` (two in `config_editing`,
where it matters). *Merge:* chains of replacement (a row that replaces one that
replaces one) need three items. `SYMMETRY` permutes the runs and
the editors, which no property names individually. `CHECK_DEADLOCK FALSE` is set
only in `merge_loop`, whose loop terminates, in `connection_pool`, which stops when all requests
have been served, and in `single_user`, where runs, configurations and
migrations are used up; in the others a request is always
possible (an editor may read; a base version can be resaved; a dashboard can be asked for).

Each property of a run has a mutant: a plausible bug in one mapped definition
(marked "Faulty" in the modules) under which the run finds the property violated.

*Tokens:* three pairs give a chain of two rotations, two families give two
grants of one client or of two; the lifetimes (1, 1 and 2) and a wait of 1 let every row expire while an older
request is still waiting, and a family outlive its first refresh token; the
clock to 3 lets a whole family pass. *Upgrade:* one run before the repair, one that stays
open across it and one after it. *Clients:* two, so that they can reject each other's runs. Every attempt
takes a key, so the keys must suffice for all attempts that commits, edits and late
requests can spoil: with nine the clients never run out (with seven they do, and
`EveryRefreshCommits` fails for lack of keys). Edits are finite: `MaxVersions` bounds new versions, and there is
one presentation. All clients enumerate one account set; changes of the
account set are in `refresh_runs`. *Dashboard:* readers do not see each other, so one is
enough; two commits put an old and a new publication on either side of it, one with a
window that shrinks and a category that is switched off. *Transactions:* writers exclude each
other, so two runs are enough for the database to be anything a third would meet; three versions
and two semantics with different categories give a first configuration, an activation that
supersedes, a pending version replaced by another, and an edit of presentation; the second
batch replaces a pending row of the first. One batch index: completeness of indices is
`refresh_runs`' business. *Pool:* three REST calls for two workers, so
that one of them waits for a worker while the others hold one each and one of those the
connection; two tools, so that a token check waits on the event loop while a tool works. *Migrations:* three give an
upgrade, the way back and the way up again; a run may be begun, filled and committed before, between
and after them.

**Findings.** `upgrade_stale_run` and `incremental_absence` state what the repository says and
find a counterexample.

* `incremental_absence`: `README.md:106` says "Incremental absence never deletes an existing
  transaction". `_prune_outside_windows` (`refresh_service.py:746`) runs in every commit and
  deletes all rows that fell out of their window, mentioned or not. What never
  happens is the deletion of a row that still counts (`OldRowsKept`).
* `upgrade_stale_run`: `tests/test_dynamic_account_set.py:378` tests that the sync
  revision rejects a stale incremental run. The check (`refresh_service.py:449`)
  compares revision numbers, and `0004` (line 107) makes them start again: an
  incremental run begun at revision 1 before the repair is overtaken by the rebuild
  after it, finds revision 1 again and commits. `CleanAfterRepair` shows the damage is bounded: it can
  only commit after that rebuild.

**Fairness.** Two runs assume any. In `connection_pool`, `EveryRequestEnds` is checked under weak fairness of the whole next-state
relation, `WF(PoolNext)`: threads and the event loop keep running, and a wait in the pool ends by
its time limit if nothing else ends it. No request is promised a turn; each has only so many
stages, so one that is never served before the others is served after them. The
point of the property is that some step is always possible: without `GiveUp` on the event loop (the mutant), a token check
and a REST session that only the event loop can close wait for each other. The time limit may run out
at any moment in the model, so the property does not say that requests succeed.

In `refresh_client` the service starts no work of its own, so
whether something is committed is up to its clients. `Retries(cl)` is weak fairness, per client, of
its own steps with the answer heard. It says that a client that has begun a refresh
goes on with it, and that not every answer to a request it repeats is lost. Reads, late
commits, edits and lost answers are under no fairness. Other clients' commits
can reject a client's run only finitely often, because a client that is done stays done; the
code gives no more (with clients that refresh for ever one of them may lose every race).
The feeds of the run link pending transactions consistently: a link to a transaction that
is not pending is refused at every commit (`refresh_service.py:551`), and such a
feed is never published.

## 4. Proofs

Every theorem holds for all constants that satisfy the named assumptions
(`ConfigAssumption`, `RefreshAssumption`, `SentinelAssumption`, `LoopAssumption`, `SingleUserAssumption`, `TokenAssumption`,
`PoolAssumption`, `TxnAssumption`, `UpgradeAssumption`, `ClientAssumption`: the sets of
inputs have the shapes the request validators let through, and sentinels lie
outside them; token lifetimes are ordered, and a request waits less than a refresh token
lives; a database that is upgraded has room for a configuration, and a client's feed for its batches).
`FeedAssumption` is about the clients' data, and only `RefusalsAreJustified` uses it:
a transaction that another one replaces is pending wherever it is listed, and is replaced by one transaction only. No number of runs, accounts, versions, rows, tokens, requests or workers is fixed.

**`ConfigVersionsProofs`**: `ConfigInv`, the conjunction of types, `VersionOrder`
and `RowsForEveryCategory`, is inductive for `ConfigSpec` (`ConfigCorrect`).
`PendingStaysIsolated` and `HistoryIsKept` are action properties proved from it.
Isolation is the interesting one: a step may create category rows while a version
is pending, and it needs `RowsForEveryCategory` to know they are not the active
version's.

**`RefreshRunsProofs`**: what is published comes first. None of the safety invariants is inductive alone:
that a committed ledger row is in the right currency and scope depends on checks made
when it was *uploaded*, against a version that was current then. The inductive
invariant `IInv` therefore adds `RunsChecked`: the staged items of a run satisfy the upload
checks (`ItemChecked`) against the run's own version, whose content
`VersionsAreHistory` freezes, and that version exists. `LedgerInScope` and
`PublishedTogether` then follow for the committing step from `Committable`'s target check, and
for all other steps from their leaving `live`, `sync` and the active version
alone. The theorem is `Correct == Spec => []IInv`; `TypeCorrect`, `PublicationIsAtomic` and
`LedgerStaysInScope` are its readings. `IInv` says nothing of the numbers of revisions, and so it is
inductive also for a database in which they start again (`Upgrade`).

Then what runs record. `NoLostUpdate` (`CommitChain`) follows from `before = Revision` in `Committable`;
`AnswersStayTrue` is an action property; `StagingIsExact` follows a batch from its upload to the commit;
`RebuildsAreClean` uses the order of commits in `CommitChain`.
`CommitsAreVisible` (`CommitIsVisible`) follows the commit through its three parts, with a lemma for each:
a replacement is never itself replaced, so all of them take effect (`ReplacementsTakeEffect`; this is what the
check of all links before the merge gives), what the merge shows is what the run brings and what it leaves alone
(`MergeShows`), and pruning changes nothing in a window that starts at the cutoff or later (`PruningIsInvisible`).
Two refinements follow. `RunsKeepConfigSpec`: every step of `Spec`
is a step of `ConfigNext` or leaves the configuration alone, so the theorems about
`ConfigSpec` hold of the composed system. `RunsImplementStore`: the initial
state maps to `StoreInit`; `Begin` maps to `Open`, `Commit` to `Publish`, the first
`EditConfig` to `Setup`, anything else to a stutter.

**`ParticipantsProofs`** has a part for each of those who use configurations and runs.

* *Editors.* The invariant is that what the service hands out is the last edit it accepted. `SavedIsRead` shows
  it for each outcome of a write, and `ActivationIsInvisible` for the commit of a rebuild: a pending edit that
  becomes active is read back from the category rows as it was written. `EditingImplementsRegister` is then the
  refinement of `EditRegister`, step by step, and `EditorsReadTheLastEdit` the invariant itself. Editors change
  configurations only by steps of `ConfigVersions` (`EditingKeepsConfig`, a lemma that follows from how `ConfigEditing` is
  composed), so order, history, category rows and isolation hold with any number of editors: `EditorsKeepVersions`, which
  is what the run `config_editing` checks.
* *Readers.* `DashboardsStayCurrent` is the inductive invariant of a dashboard beside the refresh runs: what it has
  read so far is what the database holds *now* (`ReadSoFar`). Only an upload can act while a dashboard is
  read, and it leaves alone what a dashboard reads; that it leaves the request of the last run alone needs the type
  invariant of `IInv`. `DashboardsAreAtomic` is that invariant at the last step. `DashboardsHideNothing`
  (`NothingHidden`) combines it with `PublishedTogether` and `LedgerInScope`: the rows of the ledger belong to the
  active version, and none is older than its window on the last run's last day. `DashTypeCorrect` is the type
  invariant: it is proved, and no run needs to check it.
* *Clients.* `RefusalsAreJustified` (`RefusalsHaveReasons`) has to know what a commit will find, whatever answers were
  lost. `ClientRun` follows a client's own run, which no other client can touch because keys are never shared
  (`OwnKeys`): it is for the configurations of its begin, and its batches are the first ones of the feed, at most
  one ahead of what the client has heard. Two facts about all runs complete `ClientInv`: the scope an incremental run was begun in is
  still the published one while its base revision is (`ScopeKept`), and staged items and ledger rows are things
  that clients listed (`StagedListed`, `LiveListed`), so links are valid when `FeedAssumption` says so. With these the
  checks of `commit_refresh` succeed again where those of `begin_refresh` did (`NothingChanged`).
  `ClientsAreToldTheTruth` (`ToldIsPublished`) is about the other answer: its invariant `ServedInv` says that a run has
  only batches of its feed, each in its place, all of them once it is committed, and that what a client was told
  is what the record says. The record of a committed run never changes (`RecordStep`).
* *The repair of 0004.* `RepairInv` is `IInv` with what the history variables mean (`SinceRepair`): after the
  repair nothing is published until a rebuild commits, and each row names runs committed since. An incremental run from before
  the repair needs a sync state to commit, hence that rebuild; this bounds what the finding `upgrade_stale_run` can do (`RepairIsClean`).
  `RepairKeepsPublication` reads off that `PublishedTogether` and `LedgerInScope` survive the damage and the repair.

**`MergeLoopProofs`**: the loop invariant `LoopInv` says that the table is the merge of just the rows handled
so far, for any order of the SELECT (`LoopMergesSoFar`). What keeps iterations from disturbing each other is that a
replacement is never itself replaced, and that two of them never have one target. At the end all rows have been handled and the table is
the set-based merge of `LedgerMerge` (`OrderNeverMatters`); `OldRowsStay` holds in the middle of the loop too.

**`SingleUserProofs`**: a row keeps its accounts in the order in which some service stored them, while hashes and comparisons are of the
sorted list. `SortingForgetsOrder` shows that every list has a sorted arrangement, and the same one however it is
rearranged (the existence by induction over how far it is sorted). The invariant `UserInv` (`RowsRemember`) then
says of each row what it still remembers of the client's request: its accounts sort to those of the request,
under the single-user schema its hash is that of the request, an open run's staged rows are its batches, and a
committed run published them. `AnyRetryIsAnswered`,
`StagedIsPublished` and `ScopesStayApart` are read off it; for the last, every row that exists is in `LegacyScopes`, which the
upgrade counts.

**`TokenFamiliesProofs`**: the invariant `TokenInv` (`TokensCorrect`) adds three facts to the
types, `OneHolder` and `GrantIsNotExceeded`: a family keeps all refresh tokens it ever had for
as long as it is kept (`PairsKept`), the code it came from stays used (`CodesSpent`), and
a reported family is revoked or deleted (`ToldRevoked`). `OneHolderAlways`,
`TokenTypeCorrect`, `GrantsBound`, `RevocationsLast` and `ReplaysAreSeen` are read off it. The action property
`SessionsSurvive` needs one more argument: a rotation writes the family's expiry from a
time that may be old, and only the bound on the wait keeps that expiry in the
future.

**`WriteTransactionsProofs`**: `TransactionsImplementRuns` shows that taking a handler as one step, as
all other modules do, is sound: `TxnSpec => Spec`. Since a writer excludes every other, the disk
does not change while a transaction is open, so the inductive invariant can say exactly what the copy is:
the disk with the statements issued so far applied (`Progress`, one disjunct per handler and statement),
and that the handler's checks still hold of the disk. At the last statement the copy is what the
atomic action would make of the disk, and `End` is that action; every other step stutters.
Each statement is then shown `Allowed` from what the copy is, which gives `SchemaRefusesNothing`. Two facts about the disk are
needed besides `IInv`: before the first configuration there are no category rows
(`NoRowsBeforeFirst`: inserting the missing rows presents all of it), and a row of the ledger names runs that
exist, the last one of the row's own configuration (`RowsHaveRuns`: a merge writes kept rows
again, and the foreign keys look at them). `TxnTypeCorrect` is the type invariant of the copy.

**`ConnectionPoolProofs`**: the three invariants of the pool are inductive together with one fact, that OAuth
posts stay on the event loop (`TokensOnLoop`). Each action moves one request to one stage; `MoveKeeps` says once
what such a move must respect, and each action is shown to be such a move. `ThreadsBound` counts
the threads with the library's theorems on cardinality.

**Only model-checked:** the two liveness properties, `EveryRefreshCommits` and `EveryRequestEnds`, since liveness under
fairness and ENABLED are outside this prover's reach. Every safety property that a passing run checks is
also a theorem. The two findings are counterexamples, and stay with TLC.

## 5. Not modelled, and what that leaves open

* A handler is one step in all modules but `WriteTransactions` (writers, for SQLite) and
  `DashboardReads` (the dashboard). A failure halfway through a commit is therefore in `WriteTransactions` alone; what
  the other modules say of a commit is about its whole effect. That this is sound for SQLite is what `TransactionsImplementRuns` proves, from
  `BEGIN IMMEDIATE` excluding other writers. For PostgreSQL it rests on the advisory lock and the
  row lock, which are taken as given.
* Hash collisions. Two configurations or requests with one hash are one value.
* Identity of what an editor saw. The edit hash covers content (`config_service.py:163`), and `EditRegister` is a register of
  values: after a change and a change back, an edit based on the first content is accepted, in the code and in
  the register. No property says whether it should be.
* Dates are integers: no calendar edges.
* Request sizes, names, amounts, labels, receipts and timestamps: no modelled
  state change depends on them.
* Of the schema: column checks (lengths, ranges, formats), which the request validators repeat, and the PostgreSQL
  triggers, which are deferred to the end of the transaction where SQLite's are immediate.
* Of the engine: PRAGMAs, database URLs, the pool of the PostgreSQL engine.
* Of the OAuth server: consent pages, PKCE and redirect checks, client metadata.
  They compare values of one request and keep no state: a signed consent can be approved twice and then
  issues two codes, which `IssueCode` allows.
* Of the migrations: `0001` and `0002` create empty tables. Of `0003`, the table definitions, the columns copied
  unchanged and the PostgreSQL branches. `Upgrade` takes the service
  before the repair to be the current one, and a damaged budget to be a damaged presentation. `LegacyScopes` counts the scopes
  of runs and configurations; the other tables that 0003 counts refer to these two.
* Of the dashboard: the SELECT behind its edit hash (`dashboard_service.py:138`), which reads the active version's rows
  once more under the same shared lock.

## 6. Plan

Done so far: everything in section 2, with proofs of all its safety properties.

What is left, in order of what matters:

1. What can be proved towards the liveness properties: that a client which is engaged always has a call the service
   answers, and that a full pool always has a request which can go on.
2. The PostgreSQL schema's deferred triggers beside SQLite's immediate ones, with one statement order for both.
3. Requests that compose the pool with the handlers: a commit that is on disk but whose client was told
   that the reload failed, now covered from the client's side only (`RefreshClient`).
