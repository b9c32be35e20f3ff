# A verification project for moneygraph

moneygraph builds an explainable graph of money transfers, replays the transfers day by
day, raises alerts, lets a language model comment on them within a fixed allowance, and
lets an analyst approve or reject three local actions per alert. This directory holds
TLA+ models of the parts where threads, processes, crashes and retries meet, the
algorithms that turn a file of transfers into alerts, searches, clusters and roles, TLC
runs on small instances, and proofs for all instances. Paths below are relative to the
repository (`src/moneygraph/...`); `PROJECT.json` lists the same things for tools: the
components, the runs, the lines each definition models, the hazards and the theorems.

To check a run: `tlc -config <cfg> <module>`. To check the proofs: `tlapm <module>.tla`.

## The system

| Part | State it keeps | Operations | Who shares it |
| --- | --- | --- | --- |
| AI call governance (`ai/governance.py`) | SQLite file: `ai_calls` (the ledger), `ai_cache`, `ai_cooldown` | reserve, call, record success or failure, prune | every request thread and the monitor of every API process |
| Cases (`services/agentic_loop.py`, `repository/repositories.py`) | SQLAlchemy database: alerts, actions, investigations, audit events | propose, enrich, approve, reject | request threads and the monitors |
| Background replay (`services/auto_monitor.py`) | the database's scans and day claims; the state and last error of each process | `tick_once`, the loop around it, the backfill at start | one loop per API process |
| Artifacts (`services/artifacts.py`, `services/graph_queries.py`) | tables and a graph cached in memory, with the signature of the files they came from | refresh, rebuild the graph, queries | request threads; the pipeline replaces the files |
| Pipeline (`pipeline/`) | files of a run, `run_manifest.json`, a row of the run history | ingest, validate, compute, stage, verify, publish, persist | the command line |
| Investigations (`repository/repositories.py`) | investigations, their nodes and notes, audit events | create, add and remove nodes, note, status, export | request threads; an approved action opens one |
| AI providers (`ai/*_provider.py`, `ai/case_assessment.py`) | none | one network call, validation of its answer | called by the governor |
| UI (`ui/agentic.py`, `ui/client.py`) | a browser session: copies of the feed, the last receipt, the idempotency keys | poll, submit a decision, give up after eight seconds, reload | one per analyst's page |
| HTTP API, command line | none of their own | parse, call, render | |

How they meet: the API process builds one service object per part and runs the monitor
loop in a thread. The monitor and the API call the case service, the case service calls
the governed provider for an assessment and the graph queries for the effect of an
action, and everything durable goes through one SQLite database (cases, scans, runs) or
one SQLite file (the ledger). Several API processes may run over the same files: the
claims, the ledger and the conditional updates exist for that.

What is hard about it: transactions that read before they lock, a clock read before a
lock is waited for, a network call between two transactions, the loser of a race that
must find what the winner left, crashes between commits, retries with the same key, and
a model's answer that comes after the analyst's decision. `PROJECT.json` lists each of
these under `hazards`, at its line, with the properties that are about it.

What makes each part correct:

* **Governance.** No UTC day is charged more than its limit, across processes, crashes,
  timeouts and pruning; no call is placed uncharged; identical requests are not paid
  twice at once; an abandoned call neither blocks its key for ever nor is refunded.
* **Cases.** A decision is final and its effect happens once; a reply says what is
  stored; a failed effect leaves no case behind and a full audit trail; text is labelled
  as the model's only where there is an assessment; a decided case is frozen.
* **Replay.** A day is scanned once, in order, whoever races or dies; every day and every
  alert is dealt with in the end; the displayed state and the journal are true.
* **Artifacts.** The manifest on disk is never ahead of the files it describes; an answer
  is at least as new as the files were when it was asked for, never goes back to older
  ones, and the cached tables and graph catch up with what is on disk.
* **Investigations.** The audit trail of a case tells its nodes and its status, a node is
  in a case once, and an export holds the events of all that is in it.
* **Alert rules, effects and searches.** A replay of a day uses nothing of later days;
  money is matched first in, first out and never before it came in; a search loses no
  path that it had room for; the effects of one alert fit each other, and the queries of
  one graph do.
* **Pipeline.** Tables that pass the validation are those of the transactions; clusters
  and removals add up; a role is read from what was observed.
* **The analyst's page.** It shows nothing as decided that is not, and a decision that is
  submitted again gets its first receipt.

## The modules

| Module | What it is |
| --- | --- |
| `Governor` | the admission control: one action per transaction and per step between them |
| `CallAllowance` | abstract: units taken from a daily allowance, never given back |
| `GovernorProofs` | the theorems about `Governor` |
| `AgenticCases` | proposing, enriching and deciding the actions of alerts |
| `CasesProofs` | the theorems about `AgenticCases` |
| `ActionLifecycle` | abstract: the life of an action (docs/agentic_loop.md, states and transitions) |
| `AutoMonitor` | the background replay over several processes |
| `MonitorProofs` | the theorems about `AutoMonitor` |
| `Artifacts` | the publication of a run file by file, and the store that loads the files |
| `GraphCache` | the shared graph of the queries, composed with `Artifacts` |
| `ArtifactsProofs` | the theorems about `Artifacts` and, on them, about `GraphCache` |
| `Investigations` | the analysts' local cases, their audit trail and their export |
| `InvestigationsProofs` | the theorems about `Investigations` |
| `AnalystSession` | the analyst's page and its client against the decision service |
| `SessionProofs` | the theorems about `AnalystSession` |
| `Tables` | what the program asks of a table of transfers and of a sort |
| `MoneyFlows` | the two FIFO matchings, of the pipeline and of the alert rules |
| `GraphSearch` | what the graph queries find in one graph |
| `AlertRules` | the scan of a day and the effects of the actions |
| `Analysis` | validation, graph, features, clusters, bridges, resilience |
| `RoleEngine` | role scores, roles, confidence and priority |
| `Exports` | the rows of the three mandatory files and their verification |
| `TransactionFile` | the file of transfers, which grows in any order |
| `HoldingTimes`, `ScansAndSearches`, `PipelinePromises` | reference definitions, and the properties that compare the modules above with them for every file |
| `TableProofs` | what folds, sums, sorts, selections, searches and matchings of any length return |
| `AnalysisProofs` | the theorems about the pipeline, the scans, the queries and the exports, for every file |
| `MCGovernor`, `MCAgenticCases`, `MCAutoMonitor`, `MCArtifacts`, `MCGraphCache`, `MCInvestigations`, `MCAnalystSession`, `MCTransactionFile` | model values, symmetry and function-valued constants for the runs |

Some definitions are followed by `Variation:` operators of the same parameters. They are
changes a programmer might make (a dropped guard, a missing savepoint, a claim committed
too early). No specification uses them; each makes one property of one run fail, which
shows that the property depends on that line of the code.

### Governor

A worker is a thread serving one request after another. Its record holds what the code
has in local variables: the stage of `_run`, the request key, the last clock reading and
the reserved row. `calls`, `cache` and `cooldown` are the tables. `_reserve`,
`_finish_success` and `_finish_failure` each start with BEGIN IMMEDIATE, so each is one
action (`_reserve` one per answer, all of them committing what `_prune` did); the clock
reading before them, the provider call between them and the failure of any of them are
actions of their own. `spent` and `failedAt` are history variables. Answers, tokens and
messages are left out, and so are the failure codes and the hit counters, which only
`status()` reads.

Time is an integer. `Tick` cannot run past a thread that waits for the lock longer than
`MaxLag` (SQLite's busy timeout of 5 s) nor past a call open longer than `MaxFlight` (the
client's timeout of 20 s, no retries). These are the only two assumptions about time;
`GovernorAssumption` adds that a thread and a cached answer do not outlive the 90 days a
row is kept. Clocks of the processes are one clock: they run on one machine. A call is
charged to the day of the reading that reserved it and may be sent on the next; README.md:98
speaks of "new external calls in a UTC day", of which what the code bounds, and
`QuotaNeverExceeded` states, is the number of reservations charged to a day.

### AgenticCases

`action` maps each pair of alert and action key to its row, or to `Absent`; the unique
constraint on the pair makes that a function. A transaction that begins with a SELECT
holds no lock until its first write, so each such transaction is two actions
(`LookForActions` and `InsertProposals`, `LookUpKey` and the claim); a transaction that
begins with an UPDATE is one (`RecordAssessment`). What a thread read before it got the
lock stays in its record: the facts an effect or a proposal is built from. `facts` keeps
two things of the AI fields, whether there is an assessment and how the last attempt
ended. The audit trail is kept per alert and per action.

`Execute` and `Fail` are the two ends of the savepoint. `KeyTaken` is the unique
constraint on actor and key; the code meets it at different places for an approve and a
reject, which is one of the findings.

### AutoMonitor

A monitor's record is what a tick has read: the source's days, the days already scanned,
the alerts to prepare, the day picked. `create_monitoring_scan` is one transaction with
the claim; everything else of a tick is a separate step, and `Fault` may end the tick at
any of them, as the `except` of `run` does. Initial states include a database without
claims in which a day was scanned twice. The display (`state`, `last_error`) and the
journal are modelled as far as a reader relies on them. What a proposal writes is one
step here; `AgenticCases` has it in detail.

`tick_once` calls itself caught up when it has completed as many days as it saw in the
source (auto_monitor.py:85), and among the completed days are those that other processes
scanned. With one process the two are the same set. With two, a day that arrives after
this process has read the source, and is scanned by the other, is counted in place of a
day that is still missing, so `caught_up` can be shown with a day of this process's own
reading unscanned; the next tick corrects it. It takes three days, so the `monitor` run
with two does not meet it: the proof of `CaughtUpIsTrue` failed there, and TLC shows the 16
steps with `Days = {1, 2, 3}`, two processes and all the bounds on legacy scans, manual scans
and mishaps at 0. It is not listed as a finding, because no document says that the word is
exact. The run checks `CaughtUpUnlessOvertaken`, which is proved for any number of
processes; `CaughtUpIsTrue` is proved for one.

### Artifacts

The content of a file is the number of the run that wrote it, 0 where there is none.
`PublishFile` is one `os.replace` of `_publish`, in the order of the code; `EndRun` ends a
run anywhere (rejected by `verify_outputs`, a failed move, no database, a dead process).
The lock is taken by `Acquire`; under it the thread stats each file of the signature
(`SignFile`), compares (`UpToDate`, `StartLoading`), reads each file (`LoadFile`) and
stores signature and version (`FinishLoading`); `LoadFails` leaves the lock in the middle
and keeps the tables loaded so far, as the assignments of `refresh` do. A table made of
two files is replaced when the second has been read. `asked` in a thread's record is a
history variable: the files on disk when it called.

What is assumed: one pipeline runs at a time; a replaced file differs from the old one in
size or modification time, which is what the signature compares; `data/edges.parquet`
does not change (the constant `RawEdges` says whether there is one). `POST /runs`,
`summary()`, which reads two more files without the lock, and the values in the tables
are not modelled.

### GraphCache

Every line of `_current_graph` is an action: asking for the version (a whole refresh),
comparing it with the label, taking nodes and edges (a refresh each), storing the graph,
storing its label. Threads that are not `Queriers` call the store only. A graph is the
pair of runs its nodes and its edges were read from. It extends `Artifacts`, whose
actions it uses unchanged. `Tracers` also trace: after its search a trace asks the store
for the profile of a path's end (`CallProfile`) and `_current_graph` for the graph again
(`AskAgain`), once per path, and remembers in `found` which graph its paths are from.

### Investigations

Each request that changes a case is two actions: what it reads, which locks nothing, and
its one transaction with its audit event. `RollBack` ends it instead, for a node that
another request has added (the constraint `uq_investigation_node_gid`), a lock that was
not to be had or a process that died. A node is a numbered row, deleted by its number, and
the next insert gets the last number plus one, which is how SQLite numbers a table
without AUTOINCREMENT. A status equal to the one the request read is reported in the
event but not written, because the ORM writes changed columns only. `trail` is in the
order of the commits. An export is four SELECTs, each of which sees the last commit.

Two things about the trail are true of the code and outside the property:

* `TrailTellsCase` holds where one thread at a time removes nodes and sets the status (the
  constant `Editors`). With two, a removal of a node that is already gone may delete a
  node that was given its number meanwhile, with an event that names the other, and of two
  changes of the status the last event may be the one that wrote nothing.
  docs/scaling.md:101 names locking for the joint editing of a case as future work.
* An export sorts the events by a date taken before the transaction got the lock, so an
  addition that waited can be listed before the removal it follows.

### AnalystSession

A session keeps what Streamlit's `session_state` keeps: a copy of the statuses, from the
last poll or from the alert that stays pinned after it has left the feed, the last
receipt, and one key per action and decision (the key is a function of both and of the
life of the session). The cut of the feed to 30 alerts (auto_monitor.py:127) is left
out: a poll that misses the alert for it leaves the page as it was, like no poll.
`Submit` is enabled where the page offers the decision. A request is handled, or lost,
any time after it was sent, also after the client has given up; an answer reaches only a
client that still waits. `Decided` is the decision of
`AgenticCases` as one step, which its proofs and its run show it to be. `Reload` begins a
session without keys, so a decision submitted before and after it conflicts.

One thing the page does is left as it is: after the decision of a second action of a
pinned alert, its receipt replaces the first and the page offers the first action again
from the old copy, although it says that a repeated start is switched off. The service
answers with the first receipt, as `RetriesGetTheReceipt` says, so nothing happens twice.
The manual replay of the page (`agentic_scan`, `agentic_proposals`) keeps its copies the
same way and is left out.

### The algorithms

`Tables`, `MoneyFlows`, `GraphSearch`, `AlertRules`, `Analysis`, `RoleEngine` and
`Exports` hold one operator per function of the code, named after what it returns; `PROJECT.json` maps each to its
lines. They have no RECURSIVE operators: loops are folds, what can be reached in some steps is a
fold over the steps, and the search for paths, `PathsFrom`, is the loop of the code as a
recursive function of the place in its queue, with both of its stops at the cap. Accounts are numbers in the order of their identifiers, days are
numbers, amounts are whole, so the tolerances of the floats (1e-9, the rounding to two or
four digits) do not appear; a ratio is kept as its two parts or as parts of a
constant `Unit`, which all denominators of the run's instance divide (840).

`TransactionFile` is the only thing that moves: a file to which rows are added, in any
order. Everything else is computed from it, and the properties compare, for every file:

* `FlowsAreExact`: both matchings with holding times that are defined from daily totals
  alone, without lots or an order of rows.
* `SearchesAreComplete`, `QueriesAgree`: the searches with the set of all simple paths
  and with each other.
* `NoLookAhead`, `EffectsFitTheAlert` (action properties): what a scan found, and what an
  effect builds later, when a row has come in between. A route is cut to its first
  `RouteSize` accounts and as many transfers (500 in the code), so an account of the
  watchlist, or the transfer of a listed payer, may be missing from it only when it is
  full of those before it.
* `TablesAreTheFile`: the validation against tables with one edge lost, doubled,
  invented or altered.
* `StructureAddsUp`: the clusters for every partition in one or two communities, the
  removals in both orders, and the files: `nodes_roles.csv`, `clusters.csv` and
  `top_nodes.csv` are put together separately, from the graph or from the table of edges,
  and must agree; `verify_outputs` must accept them and notice a lost row.
* `RolesAreObserved`: roles, for the weights of `config/default.yaml`.

From outside come the communities of Louvain, betweenness and PageRank (any account may
stand out); HITS is taken at its fallback, the share of what came in or went out. Left
out: the statistics of amounts, `seed_transit_cap`, which no configuration sets, the
column `depth` of an edge, which nothing but its own check reads, and the order in which
`common_receivers` lists what it found. A text is kept as what it is about: the evidence of an account as the role
it argues for, or the edge of the collection, or the lack of links; the explanation of a
priority as the drivers it may name; the hypothesis of a cluster as its leading role.

Three differences between text and code were met and are not findings, because no run
shows them: docs/methodology.md:24 asks for finite positive sums, while the validation
only tests that no sum is at most zero, so an infinite sum passes it and `build_graph`
raises on it later (an infinite sum has no counterpart in whole numbers);
docs/methodology.md:128 gives the confidence of a role by its own score and its lead,
while `role_score` starts from the highest of all six scores, so a role held with a score
between the threshold and one half has the confidence of the peripheral score.
`RolesAreObserved` states the documented confidence for scores above one half. And
`clusters.csv` calls a group peripheral and without a pronounced key account
(pipeline/exporters.py:118) when peripheral is its most frequent role, also when one of
its accounts is a coordinator.

## The runs

| Run | Bounds | What it shows |
| --- | --- | --- |
| `governor` | 2 threads, 2 keys of 1 identity, limit 1, 3 rows, clock 0..7, days of 2, timeout 2, retention 5 | quota, ownership of rows, duplicates only after a timeout, pause after a failure, outcomes stand, no permanent block, and the refinement of `CallAllowance` |
| `cases` | 1 alert, 2 actions (one opens a case), 2 client keys, 2 threads, 3 audit events per alert | actions proposed together, cases match executions, true replies and trails, text backed by an assessment, decided cases frozen, and the refinement of `ActionLifecycle` |
| `monitor` | 2 processes, 2 days with 1 and 2 alerts, 2 older scans, 2 failures or deaths of which at most 1 death, no manual scan after the first scan | claims have scans, `caught_up` is true of whoever was not overtaken by a late day, the journal is true, one automatic scan per day; every day scanned, every alert prepared, errors cleared |
| `artifacts` | 7 of the 10 files, 1 thread, 2 runs of the pipeline, 2 failing reads | publication order, fresh answers, the signature's meaning, nothing served too early, and the store catches up |
| `graph_cache` | the files of nodes and edges, the manifest and the input, 2 threads of which 1 queries and traces, 2 runs | the served graph is fresh, a trace changes its graph only under a publication |
| `investigations` | 1 case, 2 nodes, 2 statuses, 3 threads of which 1 edits, no new request after 3 audit events (up to 3 more are committed) | the trail tells the case, no node twice, and exports explain themselves |
| `transaction_file` | files of up to 3 rows out of 24 (8 transfers among 4 accounts, with a cycle, a self-transfer and a pure receiver, on days 1, 2 and 4); thresholds and caps of 1 to 3 | the algorithms, as above |
| `session` | 2 sessions, 2 actions, 2 submissions and 2 lives of a session | true receipts, retries answered with their first receipt |
| `artifacts_readers`, `graph_cache_race` | as above; in the race both threads query and none traces | violated: see the findings |
| `cases_rationales`, `cases_key_race` | as `cases` | violated: see the findings |

Why the bounds are enough to be interesting: the clock of `governor` crosses several
midnights, the timeout, the retention and the expiry of cache and pause, so a row is
pruned, timed out and settled late within one behaviour; one row more than the limit of
two days lets an overrun show. Two threads and one or two keys give every race of a
claim or a key; what a third thread adds is covered by the proofs, as are several
identities, whose pauses are separate and whose allowance is shared. In `artifacts` the
second run meets a reader between any two stats and reads, over the remains of a first
run that completed or died; one thread is enough there, because the readers exclude each
other, and `graph_cache` has two. Its files are one per table, so that a table is
replaced by a single read: that a table of two files does not go back either is proved.
In `investigations` three events and three requests under way let a node be removed, its
number be reused and an addition of the same node wait meanwhile, with an export in
between. In `monitor` a day can arrive between two others' scans, be claimed, lost,
scanned and left unprepared by a crash, after an upgrade from a database in which it was
scanned twice. In `transaction_file` two rows make a path, a cycle, a pair and a
pass-through and the third one arrives late, doubles an edge, fills a cap or splits a
lot; the thresholds are low so that all three rules, the limit of alerts, the cap of
paths and the size of a route are exceeded by such files. In `session` the second submission meets the first one in
flight, lost, answered or from before a reload, with another session deciding meanwhile.
The constraint that keeps the state finite is always a guard or a constant listed as a
bound in the module. Only `transaction_file` disables the deadlock check: a file of
`MaxRows` rows is not extended.

Fairness is assumed in two modules. `Artifacts` has weak fairness of each thread's calls
and steps: the health check of `docker-compose.yml` calls `refresh` every few seconds, and
a thread in `refresh` waits for nothing but the lock. The pipeline owes nothing; it may
stop between two files for ever, and the store still comes to hold what is there.
`AutoMonitor` has weak fairness of each process's
next step: `run` starts the next tick after every outcome of the last one, and
`docker-compose.yml` restarts a process that fails (up to three times; the run lets it
die once). Faults are bounded, which says that a step which is tried again and again
works in the end. Nothing is fair about arrivals, manual scans, faults or crashes.

## Findings

* **A late fallback takes the model's reasons off the actions** (`cases_rationales`).
  `update_alert_assessment` merges the facts with the stored ones, but takes the
  rationales from the caller, who read the alert before another process enriched it.
* **A lost race for a key is a server error for an approve** (`cases_key_race`). The
  IntegrityError is raised inside the `try` of the effect, whose handler then fails on a
  session that needs a rollback, so the route's 409 is never reached. Nothing wrong is
  stored in either case.
* **A reader can see two runs at once** (`artifacts_readers`). docs/architecture.md:122
  says that API and UI read the results of a completed run. Each file is replaced
  atomically, but a refresh between two moves, or after a run that died between them,
  loads tables of two runs. The manifest, which is moved last, would tell; `refresh` does
  not look at it.
* **The shared graph can stay old** (`graph_cache_race`). `_current_graph` labels
  the graph with the version so that a new run is noticed, in two assignments without a
  lock. Two threads rebuild it at once across a publication;
  the older graph is stored last, and under the newer label if the threads store in the
  wrong order, and then every query is served the old graph until the next run.

The store also has an edge case that is not a finding: with neither results nor
`data/edges.parquet` the signature of no files equals the initial one, so an empty store
takes itself for up to date. `NothingServedTooEarly` is therefore stated, and proved, for
the case that there is input data.

## What is proved

Proofs are in modules of their own and hold for every value of the constants that
satisfies the named assumption of the model. Where a theorem needs more, its statement
says so, and this section says why the code has it.

### GovernorProofs

The quota is not inductive: `_reserve` compares the limit with the rows of the table, not
with what was ever charged. The invariant `LedgerInv` adds why the two agree for every
day that can still be charged (`LedgerShowsSpending`): pruning removes only days older
than the retention, and clock readings are recent (`ReadingsRecent`), so a row is
pruned only when no reading can name its day any more. Ownership of rows (`RowsHeld`,
`EveryCallIsCharged`) needs the same bound, because a pruned rowid may be handed out
again. Each action preserves each conjunct; `Tick` is the case that uses the bounds on
lock wait and call. From `LedgerInv` follow `QuotaHolds`, `CallsAreCharged`,
`DuplicatesAreTimeouts`, `TypeCorrect`, `OnlyFreshCallsBlock`, and, with the mapping of a
permit to a reserved row, `GovernorImplementsAllowance`.

The two properties about what lasts need an invariant more each.

* `FailuresPause` rests on `PausesStand`: the row of the pause of an identity that failed
  is in the table, with an end no earlier than the failure demands, or that end has come.
  `_prune` deletes it only when it is over, and `INSERT OR REPLACE` writes an end that is
  counted from the clock the failing thread read before it waited for the lock, which is
  why the longest wait is subtracted.
* `OutcomesAreFinal` rests on `RowsUnsettled`: the row of a call that is still open is not
  recorded as a success, so the only one who settles it is its owner. It needs the
  ownership of rows, so a rowid that was pruned and handed out again would break it.

### CasesProofs

The assumption `CasesAssumption` is about names only: the automatic alerts and the
case-opening actions are among the alerts and the actions, there is an action, the
marker for "no key" is no key, and an alert is not an action. `CasesInv` is the
inductive invariant. Its conjuncts, and why each is there:

* `UndecidedRowsAreBare`: a row that nobody decided has no key, no actor and no result.
  Without it a claim could find a key on a proposed row and the loser's look-up would be
  answered from it.
* `ReadingsHold`: what a thread read before it took the lock is old but not false: an
  assessment it saw is still stored (assessments are never taken back) and the action it
  is about to decide exists (rows are never deleted). The labels of a case need it,
  because `_create_case` builds them from the facts the thread read.
* `CasesMatchExecutions`, `TrailExplainsAction`, `RepliesTellTheTruth`,
  `ModelTextIsBacked`: the safety properties themselves. The trail and the cases are
  written in the same transaction as the decision, so they are inductive once the rows a
  transaction touches are known.

From it follow `TypeCorrect`, the four safety properties, the action properties
`DecisionsStand` and `DecidedCaseFrozen` (the step cases of the invariant's proof, read
once more for two states), `ProposalsComeTogether`, and the refinement `ImplementsLifecycle`: each step of the
case service is a step of `ActionLifecycle` for one action or a stutter of it. A claim
and its outcome are one step of the abstract machine because other threads see them
only at the commit.

`ProposalsComeTogether` (all actions of an alert are inserted by one transaction, with one
event) is the one place where the proof leans on a constant being non-empty:
`propose` inserts only when it finds none of the actions, and since there is an action to
find, that tells it that the alert has had no event of proposals yet.

### MonitorProofs

`MonitorAssumption` says what the constants are, and no more. The invariants are small and
depend on each other in this order:

* `DaysAreInSource` and `ReadingsStand`: what a tick has read is old but not false. Days
  are only added to the source and to the scans, the day picked is one the tick found
  missing, and a process that prepares has the scan of its day.
* `ScansAreClaimed` (`EveryScanIsClaimed`): as soon as one process is up, every scanned
  day has a claim. It starts with the backfill, which a process does before its first
  tick, and `CommitScan` keeps it because claim and scan are one transaction.
  `NoDayTwice`, an action property, follows: an automatic scan needs a day without a
  claim.
* `MessagesAreOnRecord`: a message on display is the last of the journal or the write of
  it failed. The property speaks of the state `error` only, but the next failure compares
  itself with whatever message is there, so the invariant `ErrorsAreJournaled` rests on
  speaks of every message.
* `CaughtUpOrOvertaken`: where all scanned days are days the monitor saw, as many of them
  are all of them (a fact about cardinalities, `CountsAgree`).
* `SeesEveryScan`: with one process, whoever works has seen every day that is scanned, so
  the hypothesis of `CaughtUpUnlessOvertaken` is always met. `OneMonitorIsRight` is
  `CaughtUpIsTrue` under the hypothesis that there is one process, as there is in
  `docker-compose.yml`, whose `api` service is one uvicorn without workers.

### InvestigationsProofs

`InvestigationsInvariant` holds for any number of editors: the types, `CasesExist`,
`RowsAreBounded` (there is a last row, so the number given to the next one is new),
`NoNodeTwice`, `CasesAreExplained` and `ReadingsAreExplained`. That exports explain
themselves (`ExportsExplainThemselves`) follows from an order in the code: an export reads
the trail last, every change is committed with its event, and a trail only grows, so
whatever was read earlier has its event in a later trail. If the events were read first
the proof would fail at the first commit in between.

`TrailsTellCases` has the hypothesis that one thread edits (`OneEditor`); any number add
nodes and notes. It needs `EditsStand`: what the editor has read of a node's row or of the
status is still so when it commits. Adding threads do not disturb it, since the row
deleted by its number is the row that was read as long as nobody else deletes. With two
editors it is false, as described above.

### SessionProofs

For any number of sessions, actions, submissions and reloads. `SessionInv` consists of
the types, `RequestsAreKeyed` (a request carries the key of its session, life, action and
decision), `RowsTellWho` (by the key of a decided row one can tell who decided what),
`CopiesAreTrue` (a page that shows a decision shows the stored one), `RefusalsStand` and
`RetriesGetTheReceipt`. From it `ReceiptsAlwaysTrue`, `RetriesAlwaysGetTheReceipt`, and
`ServiceKeepsLifecycle`: whatever pages and connections do, each action takes a step of
`ActionLifecycle` or none. That keys of different decisions differ is proved from the
definition of a key (`KeysTellApart`), not assumed.

### ArtifactsProofs

`ArtifactsAssumption` asks for the four files the definitions name and for no other
property of the set of files. `ArtifactsInv` orders everything that has a run number:

* `PublicationInOrder`: no file is newer than the run in progress, and the files of a run
  being published that are not left to move are in place. With the manifest last in the
  order (`ManifestLast`), that makes `ManifestMeansComplete` and
  `RecordedRunsWerePublished` inductive.
* `TablesInBetween`: signature <= tables <= disk, file by file. The signature was read
  before the files, so it is never newer than what was loaded; that a failed load keeps
  the old signature is why the first inequality survives `LoadFails`.
* `ReadingsInOrder`: the same for the locals of a thread, asked <= signed <= read <= disk,
  and a table whose files a thread has all read holds what was read. The mutual exclusion
  in `TypeOK` is what keeps this true of a thread while another loads.

`SignatureCorrect` follows from `TablesInBetween` when the outer two are equal;
`AnswersCorrect` from asked <= signed, whether the signature was the stored one or became
it; `TablesCorrect`, an action property, from tables <= read (`LoadingForward`).
`NothingEarly` uses one more invariant, `RolesBehindSignature`.

`CacheKeepsStore` shows that `GraphCache` implements `Artifacts` (`CacheSpec => Spec`), so
that every theorem about reachable states of `Artifacts` holds for the store under
the queries as well. One thing had to be added about the store (`SignaturesInOrder`): a
new signature is no older than the one it replaces, and a thread whose refresh is over
has asked for nothing that the stored signature has not seen. So signature, tables and
version only go forward, and the version changes whenever the signature does.

`CacheInv` is the type, `LabelIsTrue` (a graph labelled with the version of the store has
what the signature has seen) and, for each query, `QueryInOrder`: what was asked for <=
what was compared <= what was built <= disk, at each line of `_current_graph`. From it
`ServedGraphsAreFresh` and `TracesAreOfOneRun`: the graph in which a trace found its paths
and the one in which it measures them both lie between the files it began with and those
on disk, so they are the same when these are. All three have the hypothesis that at most one thread queries, and
`graph_cache_race` shows that they fail with two: the two assignments
`_graph` and `_graph_version` are where `LabelIsTrue` breaks.

### TableProofs

Lemmas about the operators that the algorithms are built from. The induction theorems of
the library take an operator as a parameter, which the provers cannot instantiate, so
what a fold or a sort returns for a table of any length is proved over sets instead:

* `SetInduction`: a set of naturals that contains nothing and, with each set, that set and
  one element more, contains every finite set. `FoldExists` and `SumIsDefined` derive from it that the functions
  by which the community modules define a fold and a sum exist; `FoldFromTheLeft` then
  tells a fold by the sequence of its intermediate results. `DrainRuns`, `MatchRuns`,
  `WithinRuns` and `RunOfSteps` are that lemma for the loops of the code.
* `PlacesOfASet`: in a strict total order there is one element for every place. The number
  of predecessors is an injection of the elements into as many numbers, and an injection
  between finite sets of one size is onto. Everything about sorts, masks and `Ranked`
  tables rests on it.
* `SumSplit`, `SumByKey`, `SumRenamed`: a sum over a table is the sum of the sums of its
  groups, in whatever order; `PairTotals` and `MatchedOrMissing` (what is matched and what
  is missing make up what went out) follow.
* `MatchedByItsDays`, `FastByItsDays`: the two matchings of the code, unit by unit. Every unit
  that comes in has a number, the lots and the chunks are intervals of these numbers
  (`LotsCover`, `ChunksCover`), and the steps of the loops (`MatchIncoming`, `DrainCovers`)
  keep them adjacent. The rest ties numbers to days: rows sorted by day bring, after every
  day, what the daily totals say, and what is missing is the greatest deficit of any day
  so far, because the loop drops what it cannot match and never makes up for it.
  `FastByItsDays` does the same for the second matching, which sorts lots and transfers
  apart and sets aside the lots of later days at each transfer: these are the last
  of the lots, so that putting them back keeps the order.
* `ChunksMeasured`, `VolumeUpTo`, `MedianOfChunks`: what is summed over chunks is what is
  counted over the units they hold; the weighted median of the chunks is the least number
  of days in which half of the units have left.
* `Components`, `WithinEnds`: a search that goes as many rounds as there are accounts has
  found all that can be reached, and the parts it finds partition the accounts.
* `AllPathsFound`: a search for paths returns the first of all paths without repetition,
  the shorter ones before the longer. `SearchIsCut`: to stop at the cap inside the loops is
  to cut what the search without a cap would find. `FoundGoesOn`: that search has, at any
  time, found the ways on from the paths it has taken from its queue, each once, and what
  waits is at most one account shorter than the longest; so `FoundAll`: when the queue is
  empty it has found them all. The queue does empty, because `PathsAreFinite`.

### AnalysisProofs

Theorems about every file, for any set of rows and any length: each is an invariant or an
action property of `TransactionFile`'s `Spec`, whose inductive invariant is only that the
file is a sequence of rows, so each is a fact about all such sequences.

* `ValidTablesAreTheFile` (`TablesAreTheFile`): tables in which the validation finds no
  problem can be built into a graph, whose sums, counts and turnovers are those of the
  transactions. It joins `ValidTablesBuild`, about any table, to the sums of the matching.
* `FlowsAreMatched` (`FlowsAreExact`): what the matchings report of an account is what the
  totals of its days say, whatever the order of the rows: what was asked for, missing and
  matched, how long each unit stayed, what left within two days (the same number in both
  matchings) and the median. It asks for rows with a positive amount, which
  `validate_dataset` demands of a file before it is analysed.
* `RolesNeedObservation` (`RolesAreObserved`): no transit role without money seen coming
  in and going out, no terminal role at the edge of the collection, and the documented
  confidence. The hypothesis `WeightsNeedObservation` says that the weights of the signals
  that need no observation stay below the threshold together. `config/default.yaml` has
  such weights; the configuration does not enforce them, and with others the property is
  false.
* `ScansNeverLookAhead` (`NoLookAhead`) and `EffectsAlwaysFit` (`EffectsFitTheAlert`): a
  selection of rows by day loses nothing of an earlier day when a row is appended, and the
  clusters and routes see the selected rows only. `ShownOrFull` is about any table in a
  strict total order: what its first rows lack stands behind all of them, and there are as
  many as there may be. `NearIsOnRoute` is that for the accounts and the transfers of a
  route.
* `SearchesMissNothing` (`SearchesAreComplete`): a route lists every simple path it has
  room for, the shortest first, and the clusters are the connected parts.
* `QueriesAlwaysAgree` (`QueriesAgree`): a path traced downstream is traced upstream from
  its other end, reversed and with the same flow; the ends of a trace are the successors
  the comparison of accounts finds; the successors of two accounts that are common are
  those of both. It needs `RouteHops = 4`, the depth that `MoneyRoute` has in the code and that
  the comparison's search for shared successors uses whatever the others are given, and
  `RankingIsComplete`: an urgency for every account and a logarithm for every sum, which the
  model has as tables and the code computes. The argument: records are ranked in a strict
  order (`ListedBefore`: rank, hops, path), so the list of a trace that is not truncated has
  each once; a path turned around is a path of the turned graph and its flow is the same
  least sum; and the ends of the simple paths are what a search by distance reaches.
* `StructureAlwaysAddsUp` (`StructureAddsUp`): what flows out of clusters flows into others,
  a removal never enlarges what is left, and the files of a run tell one story, for every
  partition of the accounts with edges into one or two communities. Its hypotheses:
  there is a row; the cap of the terminal score lies below the role threshold
  (0.25 and 0.40 in `config/default.yaml`); and a ratio is told in at least as many parts
  as there are accounts (`Unit`), because the exports compare ranks, which the
  code has as floats and which must not collapse.
* `ScansKeepTheMostUrgent`: for every file, a scan keeps one alert per account, none that
  it leaves out is more urgent than one it keeps, and `limited` is set exactly when one is
  left out.

And about operators, for every table and every score:

* `NoTerminalAtTheEdge`: an account beyond which nobody looked (`truncated`) is never
  called terminal. `ConfidenceIsTheLead`: a role held with more than half of the score has
  the confidence docs/methodology.md:125-128 gives. `RanksKeepTheOrder`: the ranks that
  roles and priorities are made of lie between nothing and one and turn no two accounts
  around, ties and level columns included.
* `TopListIsTheTop`, `ExportsAreAccepted`, `LossesAreRejected`: the export and the
  verification of the three files are two pieces of code that must agree. Whatever
  findings the export does not refuse, `verify_outputs` accepts, and it stops the
  publication when a row is missing, other than the last of the top list, which it cannot
  miss.

TLC evaluates all these hypotheses on the instance of the `transaction_file` run
(`InstanceIsFine` in `MCTransactionFile`).

### What stays with TLC

Every invariant and every action property that a run checks and that is not violated
there is proved. What is only model-checked:

* Liveness, and with it ENABLED, which are beyond the prover: `EveryDayScanned`,
  `EveryAlertPrepared`, `ErrorsClear` and `StoreCatchesUp`.

In the other direction, these are proved and not listed in a run: the inductive
invariants, the type invariants, `DecisionsStand`, `RecordedRunsWerePublished`,
`TablesNeverGoBack`, `PausesStand`, `RowsUnsettled`, `ScansAreClaimed`, `NoNodeTwice`,
`SignaturesInOrder`, `DecidedOnce`, and `CaughtUpIsTrue` for one process.

## What is not modelled

Prompts, provider clients, validation of the model's text, rendering, argument parsing
and the review document: no state of theirs outlives a call. The counters of `status()`
of governor and monitor, `summary()`, `cluster()` and the lists: reads. SQLite itself: a
transaction is atomic and excludes other writers, as its documentation says, and a reader
sees the last commit. Louvain, PageRank, HITS and betweenness, which networkx computes,
and what depends on the rounding of floats. The hashes of the input files, which
`run_analysis` takes after the analysis (pipeline/service.py:305): the model has no input
files that change under a run.

## The plan

1. `Governor`, `CallAllowance`, with proofs. Done.
2. `AgenticCases`, `ActionLifecycle`. Done, with proofs of the inductive invariant of
   cases, trails and replies, of final decisions and of the refinement.
3. `AutoMonitor`. Done, with liveness.
4. `Artifacts` with its proofs, `GraphCache` with the traces. Done.
5. `Investigations`, `AnalystSession`. Done.
6. `AlertRules`, `MoneyFlows`, `GraphSearch`, `Analysis`, `RoleEngine`, `Exports` over
   `TransactionFile`. Done.
7. Proofs about `AutoMonitor`, `GraphCache`, `AnalystSession` and `Investigations`, and of
   the action properties of `Governor`. Done; one of them, about `caught_up`, in a weaker
   form than it was planned, because the stronger one is false.
8. Facts about the algorithms for every file: the validation, the exports and their
   verification, ranks, scans, effects, searches, queries, clusters, removals and holding
   times. Done. Left: the order in which `common_receivers` lists what it found.
