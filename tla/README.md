# Verification of the ammonia trading desk

The trading desk is an Elixir/Phoenix application with two native helpers. It
keeps the sale and purchase contracts of a product group, reads live data, solves
a linear program for the trades to make under the contracts in force, shows the
result to traders and records every solve. This directory holds TLA+ models of
its stateful core, TLC configurations that check them, and proofs that TLAPS
checks. Source paths below are relative to `src/`; `L/` is `lib/trading_desk/`.

## 1. Inventory

### Components

| Component | Source | State | Operations | Talks to |
|---|---|---|---|---|
| Contracts.Store | `L/contracts/store.ex` | ETS tables: contracts by id, version index by counterparty and product group, active set | ingest, update_status, update_open_position, four `update_*` result fields, reads | DB.Writer (call inside the handler), PubSub |
| LegalReview, SapValidator | `L/contracts/legal_review.ex`, `sap_validator.ex` | none: read, decide, write | submit, approve, reject, validate | two or three calls of the Store, SAP |
| Ingestion | `copilot_ingestion.ex`, `inventory.ex`, `contracts/pipeline.ex`, `seed_loader.ex`, `scan_coordinator.ex` | none | ingest a document, scan a folder, load seeds | Store, NetworkScanner, LLM |
| DB.SnapshotLog | `L/db/snapshot_log.ex` | files per type and day, manifest, sequence number, last hashes | append, read_range, verify, rotation | file system |
| DB.Writer | `L/db/writer.ex` | none; unordered tasks | persist_contract, persist_audit, persist_scenario | SnapshotLog, Postgres |
| DB.SnapshotRestore | `L/db/snapshot_restore.ex` | none | restore_postgres, restore_ets, fill_gaps, verify_all | SnapshotLog, Postgres, Store |
| Solver.Port | `L/solver/port.ex` | the port to the Zig solver | solve, monte_carlo | solver process, one packet per request |
| NetworkScanner | `L/contracts/network_scanner.ex` | port, pending callers by number, token, two timers | scan, diff_hashes, hash_local, ping | Zig scanner, one JSON line per command |
| Solver.Pipeline | `L/solver/pipeline.ex` | none (a process per run) | run, run_async | scanner, Store, Solver.Port, SolveAuditStore, PubSub |
| ScenarioLive | `lib/trading_desk_web/live/scenario_live.ex` | what one page shows | solve, Monte Carlo, reset, save, load | Pipeline, PubSub, Scenarios.Store |
| SolveAuditStore, Scenarios.Store | `L/solver/solve_audit_store.ex`, `L/scenarios/store.ex` | ETS tables; three indexes by time | record, save, delete, link | DB.Writer |
| HiGHS task scheduler | `native/HiGHS/highs/parallel/` | a deque per thread, sleeping workers, semaphores | spawn, sync, steal, sleep, shut down | the solver process, which starts it with its first solve |
| AutoRunner, LiveState, Poller, DeltaConfig | `L/scenarios/auto_runner.ex`, `L/data/*.ex`, `L/config/delta_config.ex` | baseline, last solve, live variables, thresholds | poll, update, auto-solve | PubSub, Pipeline |

The rest (document parsing, LLM prompts, HTTP clients, product-group
configuration, the LP itself, rendering, the chain-commit stub) is computation
or I/O without an interleaving of its own; `PROJECT.json` lists each part and
says why it is not modelled.

### What makes them hard

- Every decision about a contract is read in one call of the Store and written
  in another. Reviewers, SAP answers, ingestions, midnight (expiry) and a
  restart of the Store fall between them.
- An approval changes two contracts and the active set, and persists one.
- The Store calls the log inside its handlers, and dies with its tables, but not
  with the tasks, the database or a recovery, when the log does not answer.
- What has no JSON form never becomes a row, and ends a replay that reaches it.
- The log, the memory and Postgres are written at different times, the last one
  by unordered tasks; any of the three can fail or be lost, and recovery runs
  beside normal work.
- The log appends to files that a death may have left with half a frame, and
  its numbers and hashes restart from a manifest that is up to 50 entries old.
- Neither native helper numbers its answers. Solver.Port relies on having one
  request at a time, NetworkScanner on counting lines; callers time out, and
  the helpers exit and are restarted.
- Postgres refuses rows by a unique index and by foreign keys, in whatever order
  the tasks arrive; a recovery replays three types that refer to one another.
- The solver's worker threads share deques without locks: an owner moves the
  border of what thieves may take while they take it, and one binary semaphore
  per thread says several things.
- A run is a chain of calls, each of which may fail or make the process exit;
  its dashboard learns of the end by broadcast events shared with other
  dashboards, or by the reply of the task, which its LiveView does not handle.

### What makes each one correct

- Store and reviews: one approved contract per key, exactly the active set;
  versions identify contracts; a superseded contract stays so and has a
  successor; decisions name their reviewer; the status that is persisted lags
  memory by supersessions only; approvals follow a SAP run.
- Log: answered appends can be read back; per-type hash chain and global order
  survive rotation and failed writes; a chain breaks at a start only.
- Durability: rows are logged snapshots; what a replay leaves without a row lies
  behind the entry that ended it, and an entry ends it for a reason; what fits a
  row is stored or under way while nothing failed.
- Audits: an audit in Postgres has all its contract links; queries by contract,
  trader or time find audits of that key; what a recovery leaves out has a reason.
- Task scheduler: every spawned call is made once and awaited, no signal is lost,
  every thread ends.
- Ports: a caller gets its own answer; one helper process at a time; calls end.
- Pipeline: results on a page belong to audited runs; a page that says it is
  solving has a reason to, and stops.

## 2. Modules and plan

| Module | Models | Built on |
|---|---|---|
| `ContractStore` | the GenServer: one action per writing `handle_call`, restart | - |
| `ContractReview` | its clients as read-decide-write sessions; the complete system of contracts in memory | EXTENDS ContractStore |
| `ContractBook` | abstract specification: what is in force, what was retired | refined by ContractReview |
| `ContractReviewProofs` | theorems: types, active set, one approved contract; versions, successors, what is persisted, SAP before approval, the refinement | EXTENDS ContractReview |
| `ContractDurability` | persist_contract, its tasks, Postgres, the three recoveries | EXTENDS ContractStore |
| `SnapshotLog` | the log in detail | - |
| `DurabilityProofs` | theorems about the log and what Postgres holds | EXTENDS ContractDurability, SnapshotLog |
| `SolveAudits` | audits and scenarios in memory, log and Postgres, with the contracts they refer to, and their recovery | - |
| `SolverPort`, `SolverPortProofs` | the port server with callers, mailbox and solver; theorems | - |
| `NetworkScanner`, `NetworkScannerProofs` | the other port server; theorems | - |
| `SolvePipeline`, `SolvePipelineProofs` | dashboards, runs, audits, AutoRunner's runs; theorems | - |
| `AutoRun` | the Poller, LiveState, DeltaConfig and AutoRunner's timers, mailbox, baseline and runs | - |
| `SolveProofs` | theorems about what starts solves and what becomes of their records | EXTENDS AutoRun, SolveAudits |
| `WorkStealing`, `WorkStealingProofs` | the task scheduler of the solver, one access to shared memory per step; theorems about its deques | - |
| `ForkJoin` | abstract specification: calls that spawn calls and wait for them | refined by WorkStealing |
| `ForkJoinProofs` | theorems about the threads together: that refinement, and the semaphores | EXTENDS WorkStealingProofs |
| `MC...` | instances for TLC: symmetry sets, a bound of `MCSolveAudits`, the threads and calls of `MCWorkStealing`, a history variable for `v_rebuild` in `MCRestore` | the module of the same name, `MCContractDurability` |

The order of construction was the order of importance: contracts in memory, then
their durability, then the ports that solves depend on, then the runs and what
starts them, then what becomes of their records, and the one concurrent part of
the vendored solver. Left for later, in this order:

1. The readiness gates (StrictGate, Readiness, CurrencyTracker), which read in
   several calls. `strict_gate.ex:33-37` says of its fourth gate that a full
   refresh of the product group ran recently, which `check_pg_currency` does not
   enforce.
2. `ScanCoordinator`, `HashVerifier`, the SAP refresh and the constraint bridge
   as actions that drive `ContractReview`; DeltaConfig's unordered persistence.
3. In `WorkStealing`, task cancellation and the executor's reference count, and
   acquire and release orders in place of sequential consistency.

## 3. How state and actions correspond to the code

**ContractStore.** `contracts`, `index` and `active` are the ETS tables; `logged`
is the last snapshot of each contract given to `DB.Writer.persist_contract`.
`Ingest` is the ingest handler (version from the length of the index entry,
status reset to draft, appended to the index, persisted). `UpdateStatus` is
update_status with `validate_transition`, the supersession of the active
contract, the active set, and the one snapshot persisted. Other handlers are
actions of their own. `Restart` is a new `init/1`. A file hash is the id of the
contract it was computed from, which hides that a file may be ingested again
unchanged; SAP's two fields are one of four values.

**ContractReview.** A client is `idle` or in the middle of an operation; the
`...Read` action has the guard of the code's validation, the `...Write` action
the effect or the refusal of the second call. The seed loader makes three calls
and ignores their results, so its submit and approve are taken whatever the
Store answers. `expired` is the calendar.

**ContractDurability.** The log is a sequence of snapshots (`SnapshotLog` is its
detail), `tasks` the fire-and-forget tasks, `pg` the contracts table with its
primary key and its unique index. `Persist` is the call at the end of an ingest
or a status change, `StoreExit` the same call when the log does not answer
(`snapshot_log.ex:92`): the entry is logged or not, there is no task, and the
Store is started again with empty tables while tasks, recovery and database go
on. The version number that the unique index sees is counted in memory, so after
that, as after `NodeCrash`, the index may refuse a row. More than three deaths
of the Store in five seconds would take the supervisor and the node with them:
that is `NodeCrash`.

A snapshot `fits` a row or does not: `sap_discrepancies` name a price or volume
term by a tuple (`sap_validator.ex:179`), which has no JSON form, so the insert
raises before Postgres sees it. `ValidateSap` decides whether a contract has
such discrepancies (`unfit`). Not modelled are refusals by column widths and by
`validate_required`, which ingested contracts satisfy. A recovery has the positions
of the log still to replay and takes them in order, one database or Store call each;
`cut` is the entry that raised and ended it. A `restore_ets` ends with its process when
the Store does not answer it (`Abandoned`).

**SnapshotLog.** `file[t][d]` holds the frames on disk; `manifest`, `seq`,
`prevHash` and `written` are the manifest file and the process state. An append
is a step; a death after part of the frame, after all of it, or in the write of
the manifest is a fault of its own; after a partial frame later frames are on
disk but `decode_entries` stops before them, and a read may raise, which runs
`terminate/2`.

**SolveAudits.** A run records its audit (`RecordAudit`) and hands it to the
Writer (`PersistAudit`) in two steps, each of which may end it instead
(`RecordExits`, `PersistAuditExits`); the log is one sequence per type, `tasks`
are the Writer's. Each ingest and status change may end the Store (`StoreExits`).
`InsertAudit` is the transaction of a row and its links, which a
contract without a row undoes, and so does a result without a JSON form:
`run[r].encodes` is left open for every run, and false of every Monte Carlo run
in the code, whose sensitivities are tuples (`port.ex:69`). `odd` are the log's
contract entries without a JSON form, known by their position; a task that would
raise for one is not kept, as it would only warn. A scenario with a blank
name (`Nameless`) is refused by its changeset. A recovery reads each type when its turn comes
and replays it entry by entry; the log only grows, so what is still to replay is
a set of positions in it, the least of them next. `Missing` compares ids for contracts and audits
and numbers of rows for scenarios, as the three `find_missing_*` do. Contracts
are reduced to a counterparty and a version, `ContractDurability` being their
detail. A clock reading is a member of a small set, so two audits may have one.
The loss of the database is left to `ContractDurability`.

**SolverPort.** The server waits inside `handle_call`, so its mailbox and the
selective receive are modelled: `Receive` takes the first data or exit_status
message of its port. `late` is history: solvers an answer of which was given up
on. Callers time out; after that they ignore a late reply.

**NetworkScanner.** The server does not wait: `pending` maps request numbers to
callers and every whole line answers the smallest. The mailbox keeps the order
of calls, lines and exit_status; the two timers are counted. The limits on the
length of commands (scanner) and of lines (port) are faults. A command beyond its
limit is answered by several lines, so `Paired` and `AnswerIsMine` exclude it.

**SolvePipeline.** A run has a phase; the order of audit, broadcast and task
reply is the code's. A dashboard has a mailbox, is solving or not, and shows for
each of the two `caller_ref`s the run whose result it got. A page whose process
ends is mounted anew. `LoadScenario` shows a result that was saved before;
`saved` keeps all that were ever saved, which includes what a page lists. Any
`GenServer.call` of a run may exit (`CallExits`), those of `write_audit` before or
after they recorded. The contracts in `src/` never carry Graph ids, so the
contract check of `pipeline.ex:316` is always empty there; `GraphIds = TRUE`
covers the contracts the check is written for, and includes every behaviour of
`GraphIds = FALSE`, as the check may find all current.

**AutoRun.** The Poller's change of LiveState and its event are two steps, as are
AutoRunner's decision and its read of the values it solves. The mailbox is a
sequence; `timers` counts the timers set. `recent` stands for the clock: the
cooldown of the last successful run is not over. `overlooked` is history: since
the last successful run AutoRunner was told of data and left it (disabled, or in
its cooldown), a run failed, or the configuration changed. A supplementary event
matches no clause of `handle_info`, so the process dies and the supervisor
restarts it with an empty state and mailbox; so does a call of LiveState or
DeltaConfig that exits (`CallExits`), which `rescue` does not catch. A source has
one variable. DeltaConfig takes any threshold (`delta_config.ex:375`): 0 stands
for zero and every negative one, which any two values reach, and `MaxValue + 1`
for one that none reach or that is missing. With 0 what was just solved is still
"material", so the properties speak of values that also `Moved`.

**WorkStealing.** A thread is a stack of frames, the running call last; a frame
holds a program counter and the locals. Each action is one access to memory
other threads use, with the local computation around it: `Spawn` is `push`,
`Pop` is `pop` with the moves of the split point (`GrowShared`, `ShrinkShared`)
in frames of their own, `Steal` one read of the victim's tail and split or one
compare-and-swap of them, `Acquire` and `ReleaseSemaphore` the semaphore's count
and its condition variable. A task is a call that spawns the tasks `Calls` names
and waits for them. `begun` and `done` are history for the refinement.

Three limits of this model. Task cancellation (the `Interrupt` path of
`runStolenTask`) is left out. It assumes sequentially consistent memory, where the
code asks for acquire and release orders only. And with default options the
desk's linear programs start this scheduler (`Highs.cpp:847`, from the
`Highs_run` of `solver.zig:266`) and shut it down, but do not spawn:
`HEkk.cpp:1726` takes the parallel dual simplex only when `parallel` is `on`. The
spawning code belongs to that (`HEkkDual.cpp:1284`, `:1824`), to the interior
point solver's factorisation and to the MIP solver.

## 4. Runs

Each run takes less than three minutes on two cores. Deadlock is checked in
`autorun` only, where the fallback timer never ends: every other system may
legitimately stop, when the bounds are used up, when no user asks for anything,
or when its threads have ended.

| Run | Instance | States | Question |
|---|---|---|---|
| `review` | 3 contracts of one key, 2 clients | 304 k | Do concurrent reviews and ingestions keep the book consistent? |
| `review_sap` | 2 contracts, 2 clients, seed loader, SAP, expiry, restarts | 720 k | What do decisions carry and persist, does SAP come first, and do the two-call operations implement `ContractBook`? |
| `wal` | 2 types, 2 days, 5 appends, 2 faults, manifest every 2 | 350 k | What does the log keep through which faults? |
| `durable` | 3 contracts of one key, 3 writes, one of every failure, 1 recovery of any kind | 1.96 M | What may Postgres hold, what was handed over is stored or under way, what may a recovery leave out, and what may end it? |
| `audits` | 2 contracts, 2 runs, 2 clock readings, 3 writes, 1 fault, 1 recovery | 1.06 M | Are indexes faithful and links whole, and why is an audit or a scenario left out? |
| `port` | 2 callers, 5 requests, 3 solvers | 200 k | Is there one request at a time, and does every call end? |
| `scanner` | 2 callers, 3 requests, 3 scanners, one limit | 163 k | Does counting lines pair answers with callers? |
| `pipeline` | 2 dashboards, AutoRunner, 2 runs | 544 k | Is what pages show audited, is a solving page going to hear of its run, and does it settle? |
| `autorun` | 1 source of 3 values, 2 polls, 2 other events | 1.86 M | Is every material change of the live data solved in the end, or known to be left? |
| `stealing` | 2 threads, 9 calls nested three deep, arrays of 3 | 60 k | Is each call made once and awaited, does every thread end? |
| `v_rebuild` | one contract, Postgres lost once | | divergence 1 below |
| `v_stale` | two callers, one solver | | divergence 2 |

Why the bounds are enough. Supersession needs two contracts of a key, and three
for a successor that is itself superseded while another is being approved; a
race needs two clients. The log's carry-over needs two days, its sharing of one
number by several chains two types, a save between two others a manifest every
second entry, and a fault followed by recovery and another fault two faults. The
unique index bites from two contracts with one version (one before, one after a
death of the Store), and three leave one untouched. Two audits with one key and
one time hide one another, and one that is refused precedes one that is not; that
needs two writes. That a contract the index refuses takes an audit with it, and
that audit the scenarios, needs three, but one audit only: so `audits` lets a
second run begin only while two writes suffice (`OneRunOrTwoWrites`). A second
counterparty would only make fewer version numbers collide. A late answer needs a
request that timed out and a next one; five requests and three solvers let that
happen on a restarted solver too. Two pages are needed to share events, and two
runs for one page to hold another's result. Two polls of a source with three
values make one material change out of two that are not, or a change during a
run or after a failed one; two other events are a failure, a death or a
disabling followed by another. The configurations contain every threshold and an
unreachable one. A thief that is robbed in turn, and an owner that steals back
from its thief, need tasks nested three deep; the root syncs its first task so
that the second thread is awake and hunting when it spawns more than the array
holds. With two threads the one that sleeps is the only other one while the
owner steals from itself; what a third that hunts meanwhile sees of the tail is left to the
theorems, as are larger numbers of threads.

Symmetry reduces contracts, keys, clients, entry types, audits and times in the
runs without liveness; the liveness runs use none.

**Fairness.** `SolverPort`: the server handles what is in its mailbox or its
timeout (`WF(ServerStep)`) and a running solver answers (`WF(SolverAnswers(p))`);
callers need not time out. `NetworkScanner`: the same for messages, the restart
timer and the scanner. `SolvePipeline`: a run that can take a step takes one
(`WF(RunStep(r))`; its calls end, as the other two modules show) and a LiveView
handles its mailbox (`WF(HandleInfo(d))`). `AutoRun`: the Poller says what it
changed, AutoRunner is started, handles its mailbox, starts and ends its runs,
timers fire and the cooldown passes; nobody has to poll a new value. The BEAM
schedules every runnable process, and `Process.send_after` and `receive ...
after` fire; nobody has to click, time out or exit. `SolverPort` and
`NetworkScanner` can run out of helper processes to open, which is a bound of the
model and excepted in `EveryCallEnds`. `WorkStealing`: each thread that can take
a step takes one (`WF(Step(w))`), as the operating system schedules it; a
condition variable need not wake anybody without a notification.

## 5. Proofs

Every safety property the passing runs check is proved for all values of the
constants. Each proof rests on the assumptions its module names (`StoreAssumption`, `ReviewAssumption`,
`LogAssumption`, `AutoRunAssumption`, ...: bounds are naturals, nil and the
absent row are not values of the data, the seed loader's name is nobody else's,
SAP never answers "not asked"; the calls of a task are a tree). TLC evaluates
them all.

**ContractReviewProofs**: `TypeCorrect`, `ActiveSetCorrect` (the active set and
the approved contracts are the same thing, so a solve that reads the active set
never uses a contract that is not approved and never misses one) and
`OneApprovedCorrect`. `NextIsStoreStep` shows that, whatever a client's session
holds, a step of the system is one of the Store's operations (`StoreStep`), so
only those have to be examined; `StoreStepCases` shows that the operations on
result fields leave keys, versions, statuses and reviewers alone (`FieldStep`).
`OneApproved` is not inductive by itself: an approval displaces what the *active
set* names, so a second approved contract outside it would survive.
`ActiveSetExact` is inductive given the types, and implies it.

Its second part, on the versions of a contract, goes on from there.
`NextIsReviewStep` ties each step
of the Store to the session that makes it, which the following need: a session
knows what it read. `VersionIdentity` and `PreviousIsOlder` follow from
`IndexExact` (the index holds exactly the stored ids, each at the position that
is its version), the second with what ingestions between read and write remember.
`SupersededHasSuccessor`, `LogLagsOnlySupersession` and `DecisionNamesReviewer`
are invariants of the Store's steps. `ApprovalAfterSapRun` follows from
`ApproversSawSap`: a SAP result is never taken back while its contract exists, and
a restarted Store does not give the id to another. For
the refinement `ImplementsBook`, what is in force is what the active set names
(`InForceIsActive`), so an approval is the abstract replacement and every other
step a stutter or a retirement.

**DurabilityProofs**, on ContractDurability: `RowFromLog`, `NoGapForgotten`,
`StoredOrUnderWay` and `ReplayEndsForAReason`. Tasks and rows are snapshots of the
log, and a replay takes its positions from the log it read. That the unique index
refuses nothing (`NotRefused`) before the first death of the Store or of the node
needs the Store's versions to be exact and rows to agree with them in key and
version; the last two properties rest on it, as a row that is refused is the one
way in which they could fail without a fault.

**DurabilityProofs**, on SnapshotLog: `AckedReadable` is inductive with "no file holds a partial
frame". `BreaksOnlyAtStart` rests on `HashSinceStart`: after an append since the
start, the remembered hash is that of the newest entry, whatever went wrong
before. `ChainLinked` and `SeqIsOrder` hold while nothing killed the process,
because then the process, or while it is down its manifest, knows the highest
number and the newest entry of each type (`KnowsTip`).

**SolverPortProofs**: `OneInFlight` and `StaleOnlyAfterTimeout` from `Exact`,
which says of each solver that was not given up on what is under way: while the
server waits for it, the request or its answer; otherwise nothing.

**NetworkScannerProofs**: lines carry no number, and counting them cannot be
argued by induction here, so the invariant speaks of order: pending requests,
lines in the mailbox and the scanner's work are all in the order of the calls,
without gaps (`InOrder`, `NoGap`), and an exit message is the last a scanner
sends (`ExitLast`). `Paired`, `AnswerIsMine` and `OneScanner` follow.

**SolvePipelineProofs**: `ShownIsAudited` and `SolvingUnderWay` need an invariant
about messages in mailboxes: a completion names an audited run of the right
reference (`DoneIsAudited`), and a page that is solving has a run that listens
or a message (`SolvingWillEnd`); what was saved to be loaded again was audited too
(`SavedIsAudited`).

**SolveProofs**, on AutoRun: `AutoRunTypeCorrect` and `FallbackCorrect`: a timer is set at
most once, and while AutoRunner is up its fallback is one timer or one message;
taking the message sets the timer, so types and mailbox are proved together.
`NoDeltaOverlookedCorrect` is inductive with `RunWillBeTold`: values that moved
since a run read them are announced, or their message is in the mailbox, so the
run's end may make them a new baseline. It speaks of values that `Moved`, as any
two are material to a threshold that is not positive; a run whose values did not
move leaves nothing to be told.

**SolveProofs**, on SolveAudits: `Records` is the common ground: what an index, a task, a
table or a recovery refers to is in the log or was recorded, and a run's contracts
are logged before its audit. Two kinds of step do not interfere, those that touch
the tables (`TableStep`) and those that touch the indexes (`IndexStep`), so
`LinksWhole` and `IndexFaithful` are each proved from `Records` and one of them.
`IndexFaithful` is inductive once it is known that a recorded audit's run has its
keys and time for good. `AuditsFilled` and `RefusalHasReason` need to know what the contracts'
replay left (`ContractsFilled`: each contract it read has a row, is still to
replay, or lies behind an entry that raises, having no JSON form or being refused
by the unique index) and that a replay is refused once
(`RefusedOnce`). `ScenariosFilled` is a counting argument: if as many rows as
scenarios exist and no scenario has two, the pigeonhole principle gives each its
row; a scenario with a blank name counts in the log and never has one.

**WorkStealingProofs**: `StealingTypeCorrect` and `SplitStaysBelowHead`. Neither
the types nor the split can be argued about without the stacks: that the head of
a deque is a slot when a stolen task is popped depends on every call below it.
So the invariant `SInv` says of each thread what its stack looks like
(`Structure`: which call may wait for which, `MayCall`; at which head each body
and each wait began, `Heights`, `Based`), what its running call knows of its own
deque (`Owned`: between calls the tail is below the split and the split below
the head, `Rested`; each place that moves them says how far it is, `Fits`; what
was taken from the owner remains taken, `TakenSlot`), and that any slot a thief
may look at holds a task (`Filled`). A thief's step only moves the tail up to
the split or asks for more (`Raided`), and every statement about an owner
survives that (`RaidedOwned`). A step of an owner replaces, adds or removes one
call: `ReplaceShape`, `PushShape` and `PopShape` are proved once and used by the
lemma of each action.

**ForkJoinProofs**: `StealingForksAndJoins` (the
initial states of the scheduler are initial states of `ForkJoin`, and each of its
steps is a step of `ForkJoin` or leaves `begun` and `done` alone: no call is made
twice, none before the one that spawns it, none returns before those it spawned: `ForksAndJoins`, the safety of `ImplementsForkJoin`), `StealingLosesNoSignal`
and `StolenOnce` (the same stolen slot is never in the hands of two threads,
`TakenOnce`, which follows from `Claims` below and the parts on waiting). That no task is run by its owner and a thief, or by
two thieves, is not a matter of the deque alone: a task leaves it through a read of
the tail, lies in the hands of a thread, or of a sleeper it was injected into, and
begins some steps later, while the same slot is popped and used again. And a
semaphore is released for three reasons, each by whoever happens to learn of it.
The invariant `Orderly`, stated in `WorkStealingProofs`, adds to `SInv`:

- `Work`, what the calls on the stacks stand for (`Job`). Each slot below a head
  holds a call that the innermost body begun below it spawned (`Holds`), in no
  other slot, and its metadata tell whether it was begun and whether it is done
  (`SlotOK`); each call a body has to make is yet to be spawned, in such a slot,
  run or taken back right above it, or done (`BodyOK`); a task taken back by its
  owner was never begun (`OwnOK`); who is to mark a slot stole it, and the slot is
  still there (`MarkOK`). A body returns with its deque where it found it, so all
  its calls are done.
- `Claims`: of each slot taken from a deque and not begun, one thread at most
  holds the claim: the thief about to run it, the injector, or the sleeper it was
  injected into. An untaken slot was never begun by a thief (`Untaken`).
- `Tokens`: a worker that sleeps for a task is on the list once, or held by one
  thread that took it off, or about to be signalled by one, or signalled, and no
  two of these; one that sleeps for the end of a stolen call is signalled only by
  the thief that found its name in the metadata, which then says finished.
- `Waits`: a waiter's slot has a known thief or is finished, and it is popped
  only when finished; nobody hunts its own deque.
- `Stops`: the root is done when the shutdown begins, so no body runs, no deque
  holds a task, nobody sleeps with a task to come, and each worker is told once
  (`NothingRuns`, `NobodyExpects`, `Idle`). Here the tree matters
  (`TreeAssumption`): a body still running would have a chain of unfinished
  callers up to the root.

Each part is an operator on the functions it speaks of (`Job`, `Heads`, `Held`,
`Claim`, ...), so what a kind of step does to it is one lemma about any such
functions (`WorkSpawn`, `WorkBegin`, `WorkDrop`, `WorkMark`, `WorkEnd`;
`ClaimsKeep`, `ClaimsMore`, `ClaimsFewer`, `ClaimsPassed`; `TokensPop`,
`TokensInject`, `TokensAsk`, `TokensEnd`, ...), and an action's lemma says which of
them applies. Most steps change none of these views (`Calm`, `Hushed`).

**Only model-checked**: liveness under fairness (`EveryCallEnds`, `DashboardSettles`,
`DeltasSettle`, `EveryThreadEnds`, and of `ImplementsForkJoin` that every call is
made and returns), which TLAPS cannot prove here, as it could not statements by
induction on data.

## 6. Where the code differs from what it says

The first two have a run that exhibits them.

1. **Replay restores drafts** (`v_rebuild`). `replay_to_postgres` inserts with
   `on_conflict: :nothing` (`snapshot_restore.ex:237`): of a contract's entries
   only the first counts, also when the database was lost with every task run and
   nothing is written during the restore. The log promises "Replay the log →
   rebuild all tables" (`snapshot_log.ex:19`).
2. **Late solver answers go to the next caller** (`v_stale`). After a timeout the
   port is kept (`port.ex:149`) and packets have no number. `SolveAudit` is to
   say "what data went in, what came out".

These are evident from the code, are steps of the models where something is
modelled, and have no run of their own:

- Monte Carlo audits never reach Postgres: the sensitivities of a distribution are
  tuples (`port.ex:69`), `serialize_result` keeps them as they are
  (`solve_audit_record.ex:104`), and the insert raises. "Every pipeline execution
  writes one row here" (`solve_audit_record.ex:5`). `encodes` is false of them.
- After the Store died, alone or with the node, versions are counted from an empty
  index (`store.ex:361`), so the unique index refuses the row of a new contract
  whose number the table has under another id; the task only warns. "New versions
  create new rows" (`contract_record.ex:5`). Hence the condition of
  `StoredOrUnderWay`.
- Tasks of one contract are unordered (`writer.ex:40`), so an older status may be
  written over a newer one and stay. "The DB is the audit record"
  (`contract_record.ex:9`). `RowFromLog` says that a row is some logged snapshot.
- `fill_gaps` "inserts only those" which are missing and is "Safe to run repeatedly"
  (`snapshot_restore.ex:148`), but each run that finds too few scenarios inserts
  the whole log again (`:358`), and scenarios have no unique constraint, contrary
  to the comment at `:357`. Hence the condition of `ScenariosFilled`.
- Files verify only if they start a chain: `do_verify_chain` wants a zero hash
  in the first entry of a file (`snapshot_log.ex:364`), but `prev_hashes` is
  carried over rotation and restarts. `verify_all` promises `:ok` for valid
  chains.
- A run that exits is not audited, although `Pipeline` says every execution
  writes a SolveAudit; a `GenServer.call` that exits ends the process first
  (`pipeline.ex:148`).
- `scenarios/store.ex:5-6` says "Each scenario is linked to its audit_id", but no
  caller passes one and nothing calls `link_to_audit`.

The models also contain these, which are not claimed as violations but which a
reader of the properties should know (hence the conditions in some of them):

- approve does not look at SAP, expiry or clauses again when it writes
  (`legal_review.ex:43`); `ApprovalAfterSapRun` therefore speaks of "SAP was
  run", not of its latest answer.
- The superseded contract is not persisted (`store.ex:228`): Postgres keeps both
  as approved. `LogLagsOnlySupersession` says that status, version and reviewer lag
  in no other way; results of SAP, template, LLM and hash checks and positions are
  not persisted at all until the next change of status (`store.ex:262-334`).
- Approving an older version replaces a newer one; `SupersededHasSuccessor` says
  "another", not "a newer".
- Two ingestions may record the same `previous_hash` (`copilot_ingestion.ex:503`);
  `PreviousIsOlder` holds all the same, unless the Store restarts in between.
- Sequence numbers are reused after a death (`snapshot_log.ex:398`), hence the
  condition of `SeqIsOrder`. A partial frame hides every later entry of its file
  (`snapshot_log.ex:344`), the condition of `AckedReadable`.
- An entry the log refused is written to Postgres nevertheless (`writer.ex:35`),
  the condition of `RowFromLog`. Conversely a replay ends at the first row that
  raises (`snapshot_restore.ex:242`), which has no JSON form or is refused by the
  unique index, and at the first audit that has no JSON form or is refused a link
  (`:271`).
- `restore_ets` ingests, so it yields drafts with new ids (`snapshot_restore.ex:115`)
  to which the links of restored audits do not lead; the audits themselves would
  lose a `scenario_id` set after they were logged.
- An audit whose task runs before that of its contract is not stored
  (`writer.ex:104`) until a recovery is run by hand.
- `Port.command` on a solver whose exit_status is still in the mailbox makes
  Solver.Port itself exit (`port.ex:146`): a step of the model.
- A run that failed its contract check and then its solve broadcasts nothing
  (`pipeline.ex:248`). Pages recover from this, and in fact end every run they
  started, because the task's reply makes the LiveView exit
  (`scenario_live.ex:341`) and the page mounts again: `DashboardSettles` holds
  through that, and a page may lose the result it just got.
- AutoRunner's documentation says that it re-solves only beyond a threshold and
  respects its cooldown (`auto_runner.ex:7`). The comparison is `>=`
  (`auto_runner.ex:241`), and initial, scheduled and manual runs look at neither.
  A change left in the cooldown is not looked at again when the cooldown ends,
  only at the next event or by the fallback, an hour or more later: the reason
  why `DeltasSettle` rests on `FallbackArmed`.
- "Config changed - update behavior immediately" (`auto_runner.ex:111`) precedes
  a handler that does nothing; lower thresholds count from the next event on,
  hence `overlooked` in `UpdateConfig`.
- Every poll of vessels or tides kills AutoRunner (`live_state.ex:106`), which
  then runs once more five seconds later, whatever its cooldown was.
- Whether a contract check has anything to check: no code sets the Graph ids
  (`pipeline.ex:316`), so in `src/` as it stands it never has.

## 7. Not modelled

- **HiGHS** (`native/HiGHS/`, about 197,000 lines of C++, by far the largest part
  of the repository) is a vendored linear-programming library. Presolve, the
  simplex and interior point methods and the MIP solver compute with floating
  point on matrices: their results depend on numerics that a finite model would
  have to leave out, and nothing in them interacts but through the scheduler,
  which `WorkStealing` models. The share of the repository's lines the modules
  stand for is small for this reason; of the program's own stateful code they
  cover nearly all.
- The LP itself (`solver.zig`, `solver_v1_ammonia.zig`), prompts, parsers, HTTP
  clients and rendering: computation or I/O without an interleaving.
- The readiness gates and the drivers of ingestion: planned, see section 2.
- In `WorkStealing`: task cancellation (only the MIP solver cancels), the
  executor's reference count, weaker memory orders.
- `save_scenario` stores the result shown with the variables of now
  (`scenario_live.ex:239`); a property would restate that the handler does so.
