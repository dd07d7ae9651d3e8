# Verification of rust-workflow-orchestration

TLA+ models of the workspace's crates, TLC runs that check them on small
instances, and TLAPS proofs of what matters most for every instance. Line
numbers refer to the sources under `src/`.

## 1. Inventory of the system

| Part | Source | State | Operations | Talks to |
|---|---|---|---|---|
| `Dag<T>` | `crates/dag-core/src/lib.rs` | a petgraph `DiGraph` of payloads | `new`, `add_node`, `add_edge`, `topo_sort`, `cycle_check`, `edges`, `parents`, `children`, `every_task_reachable` | petgraph |
| Spec builders | `dag-core` `DagSpec::build`; `dag-cli` `build_runnable_dag`; `dag-runner` `topo_order_from_resources` | the dag under construction, a map id -> node | one function each | `Dag<T>` |
| `Task`, `Context` | `crates/dag-core/src/task.rs` | a bag of published values behind a mutex | `execute`, `get`, `put` | runner, task bodies |
| `LineageStore` | `crates/dag-lineage/src/lib.rs` | SQLite tables `task_runs` and `lineage_edges` | `open`, `init_schema`, `record_task_run`, `record_edge`, six reads | runners, CLI, demo; shared by processes through the file |
| `Runner`, `RunReport`, `TaskState` | `crates/dag-runner/src/{lib,state}.rs` | none | `run`, `all_succeeded`, `outputs_in_order` | |
| `LocalRunner` | `crates/dag-runner/src/local.rs` | its dag; the locals of each `run()` | `run` | `Dag`, `Task`, `Context`, `LineageStore` |
| `ForjarRunner` | `crates/dag-runner/src/forjar.rs` | the locals of each `run()` | `run`, `check_forjar_present` | the `forjar` process, `LineageStore` |
| `DagScheduler` | `crates/dag-scheduler/src/lib.rs` | a registry behind an `RwLock`, the cron scheduler's jobs | `start`, `schedule`, `unschedule`, `next_fire`, `dag_name`, `job_count`, `shutdown` | tokio-cron-scheduler |
| `dag-cli` | `crates/dag-cli/src/main.rs` | none between commands | `validate`, `run`, `schedule`, `lineage`, `backfill` | all of the above |
| Demo | `crates/dag-cli/examples/etl_pipeline_dag.rs` | a chain of five tasks | asserts C1 to C8 | both runners |
| Contracts | `contracts/dag-rust-v1.yaml` | | eight invariants, FALSIFY-DAG-001 to 008 | |

How they interact. A builder turns a task list into a `Dag`. A runner takes the
`Dag` (or a `forjar.yaml`) and a run id, and writes edges and task rows to the
store with one SQL statement each, awaiting between them. The store is a file:
other runners, other processes and `dag-cli lineage` use it at the same time.
Task bodies talk to each other through the `Context` of their run only.

What is hard.

* **Interleaving.** Nothing in the store or the runner stops two calls of
  `run()` from carrying one run id. The default id of `dag-cli run` is a clock
  reading, the ids of `backfill` are dates, and a scheduler tick may start while
  the one before it is still running.
* **Crashes and partial failure.** Every statement of the store may fail, and
  `?` then drops the report; the process may die at any await. Nothing recovers:
  the rows stay as they are until a retry on the same run id.
* **Order.** Edges before rows, values before downstream tasks, `Running` before
  the result, no execution after the first failure.
* **Data at the boundary.** Repeated ids (checked by one builder of three), the
  empty dag, repeated and self-dependencies.

What makes each part correct.

* *Dag, builders:* what is accepted has a topological order and has exactly the
  nodes and edges the spec declares; what is refused has no meaning; all
  builders agree on specs with distinct ids.
* *Store:* a row is the last write as a whole; edges are never lost.
* *LocalRunner:* tasks run after their upstream tasks and with their values;
  fail-fast; the report and the store say the same; a dead run leaves at most
  one `Running` row; a retry repairs.
* *ForjarRunner:* the same report shape and the same lineage as `LocalRunner`;
  no row claims more than happened.
* *DagScheduler:* the registry and the jobs agree except where a call is under
  way or was dropped; an answer is right about the job it names, and the answers
  tell what is registered; calls return.
* *Backfill:* one run per day of the range, in order, stopping at a failure; a
  second backfill takes over what a broken one left.
* *Reads:* a graph or a list of neighbours put together from two statements shows
  a part of the topology, and all of it that was there when the call began.

The list of hazards, each at its line, is `hazards` in `PROJECT.json`.

## 2. Modules

| Module | Models | State and actions |
|---|---|---|
| `DagCore` | `Dag<T>` and what petgraph promises | operators on records `[ids, edges]`; a `NodeIndex` is a position in `ids`; what a task list declares, and when it is `Acceptable` |
| `LineageStore` | the two tables | `taskRuns`, `lineageEdges`; `RecordTaskRun` and `RecordEdge` are the two upserts |
| `LocalRunner` | `LocalRunner::run` and `persist_state` | one copy of run()'s locals per attempt; the actions below |
| `DagRun` | what `Runner::run` promises of one run | `status` of each node, `outcome` |
| `LocalRunnerImplements` | the mapping from `LocalRunner` to `DagRun` | status = the row in the store |
| `SpecBuild` | the three builders, loop by loop | `builder`, `spec`, loop positions, `indices`, `dag`, `error` |
| `ForjarRunner` | `ForjarRunner::run` over the store and the forjar process | one copy of run()'s locals per attempt; the actions below |
| `FileRun` | what `ForjarRunner::run` promises of one run of a file | `status` of each task, `outcome` |
| `ForjarRunnerImplements` | the mapping from `ForjarRunner` to `FileRun` | status = the row in the store |
| `DagScheduler` | `DagScheduler` around tokio-cron-scheduler | the `pc` of each call, the guards held, `registry`, `jobs`, `running` |
| `Backfill` | `cmd_backfill`, composed with `LocalRunner` | `range`, `bpc`, `cursor`, `runs_executed` of each call |
| `LineageReader` | `cmd_lineage`, `render_mermaid`, `edge_count`, composed with `LocalRunner` | one reader: `query`, `first`, `second` |
| `DagCoreProofs`, `LocalRunnerProofs`, `LocalRunnerImplementsProofs`, `DagSchedulerProofs`, `BackfillProofs`, `LineageReaderProofs`, `ForjarRunnerProofs`, `SpecBuildProofs` | theorems | |
| `MC*` | constants for TLC | |

`LocalRunner` and `ForjarRunner` EXTEND `LineageStore`, which EXTENDS `DagCore`,
and `Backfill` and `LineageReader` EXTEND `LocalRunner`: a store operation
is part of the runner's step, since one awaited SQL statement is atomic and
nothing else happens between it and the assignment that follows.

The actions of `LocalRunner` for an attempt `a`, in the order of `local.rs`:

| Action | Lines | |
|---|---|---|
| `Reject`, `Begin` | 66-67 | the two checks; `Begin` picks any topological order |
| `RecordNextEdge` | 72-84 | one edge per step |
| `StartWalk` | 87-96 | scratch directory, fresh locals |
| `SkipTask` | 103-108 | the row, the local map and the loop head |
| `StartTask` | 110-115 | the row `Running`, then execute is called |
| `ExecuteOk`, `ExecuteErr` | 115-121, 126-128 | the task returns |
| `PersistSucceeded`, `PersistFailed` | 122-124, 129-138 | the final row and the locals |
| `ReturnOk` | 148-153 | the report |
| `ReturnErr` | every `?` from 83 on | drops the report, leaves the store |
| `Crash` | any await | process death, a dropped future, a panicking body |

What is abstracted. Ids are model values. Of a JSON value the model keeps
whether it is absent, a task's value or an error. Of a timestamp it keeps the
attempt whose clock was read, which is what tells executions apart. The field
`by` of a row is a history variable: who wrote it last. `toposort` is any
topological order: the comment at `dag-core/src/lib.rs:109-111` promises
insertion-order ties, and nothing the models show depends on a tie-break.

The actions of `ForjarRunner`, in the order of `forjar.rs`:

| Action | Lines | |
|---|---|---|
| `Reject`, `Begin` | 146-147 | the file cannot be read or parsed, or can |
| `RecordNextEdge` | 149-161 | one edge per step, known dependency or not |
| `CheckForjarPresent` | 164 | `forjar --version` |
| `MarkRunning` | 166-170 | every row becomes `Running` |
| `ValidateOk`, `ValidateFails` | 176-183 | forjar judges the file |
| `MarkFailed`, `Bail` | 184-193 | every row becomes `Failed`, then the error |
| `Sort` | 197-212 | the graph command and `topo_order_from_resources` |
| `MarkSucceeded`, `ReturnOk` | 218-237 | every row becomes `Succeeded`, then the report |
| `ReturnErr`, `Crash` | every `?`, any await | as in `LocalRunner` |

The forjar process is external and free: each command may be missing, fail or
succeed, whatever the file, so the model does not assume that forjar refuses a
file that the sort would refuse. `commands` is a history variable: the commands run() got past.

The actions of `DagScheduler` for a call `c`, in the order of
`dag-scheduler/src/lib.rs`:

| Action | Lines | |
|---|---|---|
| `Start`, `Shutdown` | 91-100, 198-206 | the tick loop changes, or the call fails |
| `CallSchedule` | 108-131 | the job is built, or its expression refused |
| `AddJob`, `Insert` | 133-137, 138-145 | the two halves of `schedule` |
| `CallUnschedule`, `Check` | 149-152 | the guard is dropped with the condition |
| `RemoveJob`, `Erase` | 153-156, 157 | the two halves of `unschedule` |
| `CallQuery`, `Look` | 164-194 | `next_fire`, `dag_name`, `job_count` |
| `Acquire` | each `.read().await`, `.write().await` | the lock is awaited and taken |
| `InnerFails` | 137, 156 | `?` on the inner scheduler |
| `Drop` | any await | the future of a call is dropped |
| `Tick`, `RunEnds` | 121-130 | a run of the body starts and ends |

A method is a call by some task of the process; calls overlap freely. A job id
is named after the `schedule` call that got it, and the registry becomes the set
of its keys. Which expressions the two cron parsers take is a constant for each:
the comment at 172-173 says they are one parser, but the lock file has
tokio-cron-scheduler 0.15.1 use `croner`, and `next_fire` uses `cron` 0.15. The
model assumes nothing about them: `next_fire` of a job may be an error.
Nor does it assume anything of the inner scheduler beyond `add` and `remove`:
`jobs` is what it was given and not asked to forget, a job of it may fire while the
loop runs, and `start` and `shutdown` may return an error, before or after they have
changed the loop. That jobs survive a shutdown and that `start` works after it is
what the comment at 196-197 says of that library; no code under `src/` makes it so,
and no property here depends on it.

The actions of `Backfill` for a call `c`, in the order of `dag-cli/src/main.rs`:

| Action | Lines | |
|---|---|---|
| `Refuse`, `Open` | 299-313 | an inverted range, the file, the database |
| `BuildFails` | 316 | the dag is built again for each day |
| `StartDay`, `RunDay` | 315-322 | one attempt of `LocalRunner`, step by step |
| `NextDay`, `BailDay` | 322-330 | its report, or its error |
| `Done` | 332-338 | "backfill complete" |
| `CrashCall` | any await | the process dies, and its run with it |

The day `d` of a call `c` is the attempt `<<c, d>>`, and its run id is the date.
An instant is a number, `DayLen` of which make a day, so that a range can carry
times of day as `parse_date` (341-350) allows.

`LineageReader` has one action for each statement of a read: `RenderEdges` and
`RenderTasks` (`dag-lineage/src/lib.rs` 282-311), `ReadUpstream` and
`ReadDownstream` (`main.rs` 281-282), `CountEdges`, and `ReadFails` between two
statements. `knownWriters` and `knownReports` are history variables: what the
store and the callers knew when the call began.

`SpecBuild` runs one builder on one spec. The three functions share two loops;
the duplicate check exists in `DagSpec::build` only, the final check is
`cycle_check` in two of them and `topo_sort` in the third, and the resources of
a `forjar.yaml` are the keys of a map, hence distinct.

## 3. Runs

| Run | Checks | Distinct states |
|---|---|---|
| `local_runner` | the invariants of `LocalRunner` and `TerminalIsFinal` with two attempts on **one** run id | 1 115 442 |
| `local_runner_live` | `RetryRepairs`, `Terminates`, `FailureSettlesAll` under fairness | 55 733 |
| `local_runner_implements` | `LocalRunner` implements `DagRun` on a run id of its own, beside another run; `RenderIsTopology` and `NeighboursAreTopology` of a reader beside both | 1 068 648 |
| `spec_build` | the builders against `Acceptable`; `DagIsDeclared`, `DagIsRunnable` | 32 536 |
| `forjar_runner` | the invariants of `ForjarRunner`, `RetryRepairs` and `Terminates`, two attempts on one run id; `ForjarRunner` implements `FileRun` on a run id of its own, beside another run | 147 867 |
| `scheduler` | the invariants of `DagScheduler` and `CallsReturn`, three calls | 51 960 |
| `backfill` | the invariants of `Backfill`, `RerunRepairs`, `BackfillTerminates`, two calls on one database | 76 378 |
| `backfill_last_day` | refutes `EveryDateRuns` | |
| `forjar_runner_apply` | refutes `SucceededWasApplied` | |
| `local_runner_skip` | refutes `SkippedHasFailedUpstream` | |
| `local_runner_row` | refutes `RowIsOneExecution` | |
| `spec_build_orphan` | refutes `NoOrphanTasks` | |

Bounds and why they are enough.

* **Two attempts.** What one attempt can do to another goes through a row or an
  edge of the store; each property relates an attempt with the store, or a row
  with its writer, so two attempts give every overlap, and one dying before the
  other starts gives every retry. The proofs lift the bound for most of them.
* **Dags of up to three nodes:** a join declared after its sink (so insertion
  order is not a topological order), a fork beside a lone task (so that the sort
  has choices and a failure has independent branches), a repeated id, no node, a
  cycle. In `local_runner_live`, where TLC does not use symmetry, a reversed
  pair and a repeated id.
* **Files:** a join declared before its dependencies (so the order of the file is
  not a topological one), a chain of two, unknown and repeated dependencies, a
  cycle, no resources; each attempt may have a different one. Of the three
  attempts two are called: `a1` and `a2` share a run id, `a3` has its own, for the
  refinement, and is called beside a run of the chain (`MCNext`).
* **Specs:** every spec of up to two tasks with up to two dependencies over two
  ids and an unknown one: self-dependencies, repeated dependencies, repeated
  ids, unknown ids and two-cycles. Three tasks add three-cycles, an id shadowed
  by a later task and joins.
* **Three calls of the scheduler:** a `schedule` and two calls about its job are
  enough for two `unschedule` calls to pass the check together, and two
  `schedule` calls and an `unschedule` for the lock to have three parties. The
  three calls give a good expression, one that only the job parser takes and
  one that both refuse. `MaxRuns = 2` runs of a job at once, so that ticks overlap; it is
  the one bound in a guard (`Tick`). The invariants are proved for any number.
* **Two backfills, days of two instants, two dates:** midnight to midnight, noon
  to the next midnight (whose date is left out), noon to noon, and an inverted
  range. The spec file of the first call has one task, that of the second a
  pair, no task, or a cycle: the file was edited in between.
* **One reader, one call:** it changes nothing, so a second call is the first
  one made later. In its run the second attempt, on the other run id, has a
  reversed pair or a cycle (`MCSpec`); the watched run has every dag.
* Nothing else counts without a bound: positions are limited by the dag, so there are
  no state constraints.

Deadlock is not checked: attempts end and builders return, and then nothing is
left to do.

Fairness. `FairSpec` of `LocalRunner` has `WF_vars(Step(a))` for each attempt:
tokio polls a future it has started for as long as it can make progress, SQLite
statements return, and a task body is assumed to return. The last one is an
assumption about the user's code, since `run()` has no timeout (`local.rs:115`):
without it a run may hang for ever. Calling `run()` (`Begin`, `Reject`) and
`Crash` are not fair. `Backfill` has the same for the steps of a command that has
passed `Open`. `DagScheduler` has it for the steps of a call (the RwLock wakes
its waiters, the inner scheduler answers) and for nothing else: `Start`, `Shutdown`,
the calls themselves, `Drop`, `Tick` and `RunEnds` are not fair. Whether a job fires
is up to the cron library and to its expression, which may have no future fire
(`dag-scheduler/src/lib.rs:161-163`). `ForjarRunner` has the same fairness, and the same
assumption about the commands of forjar, which have no timeout either. `SpecBuild`
has none: that its loops over finite lists end is `BuildsAreBounded`.

Properties worth a word.

* `UpstreamsPublished` holds for dags with repeated ids too, where the bag has
  one entry for several nodes.
* `LineageIsTopology` is the reason for recording edges first (`local.rs:69`).
  Its second half is exact about re-runs of a changed dag: the lineage of a run
  id is the union of the dags of its attempts. So the edges that an edited dag no
  longer has stay, as the code has it, and the property permits them.
* `ReportIsDurable` says when a caller may trust the store after a report: the
  row of a task is what the report says unless another attempt on the run wrote
  it since. (With two nodes of one id the report may keep the output of a node
  that ran while the other was skipped; the row then has none.)
* `UpstreamRowsSucceeded` is what a reader of the two tables alone may conclude,
  for a run that one attempt used.
* `RetryRepairs` is about crash recovery: the code has none except calling
  `run()` again on the run id, and that is enough for the tasks of its dag. A
  forjar run has one more way to leave rows `Running` for good: the graph command
  is missing or no order is found (`forjar.rs:197-212`).
* `SucceededUpstreamFirst` and `OneVerdict` say what a reader may conclude from
  the rows of a forjar run that died in one of its loops over the tasks; the
  first holds only because the last loop follows the order and not the file.
* `ReportedEdgesAreKnown`: edges are recorded before any dependency is looked up,
  so a refused file leaves edges from tasks that do not exist; a run that
  returned a report has none.
* `RenderIsTopology` holds because a run writes all its edges before its first
  row and both tables only gain keys: a graph drawn in the middle of a run
  that had a row lacks tasks at most, never an edge, whichever table is read first. With
  the edges first, a run that starts between the two statements may show tasks
  without their edges, which the property allows for.
* `RegistryMatchesJobs` says exactly where the registry and the jobs may differ:
  a job without an entry belongs to a `schedule` call that is between the two or
  was dropped there, and may then fire for ever under an id nobody has, a leak that
  the property permits; an entry
  without a job belongs to an `unschedule` call likewise. The code cannot repair
  the first; the second goes when `unschedule` is called again, since the model
  lets `remove` take an id without a job.
* `AnswersAreRight` has the promise of `UnknownJob` (43-44). Two overlapping
  `unschedule` calls for one id may both return `Ok`.
* `RegistryIsLive` reads the registry off the answers: a removal that failed or was
  dropped can be tried again, and a schedule that failed leaves nothing to remove.
* `CallsReturn` is about the guard of line 150, a temporary that must be dropped
  before line 157 asks for the lock again.
* `CompleteIsComplete` is exact about the days a backfill covers; `EveryDateRuns`
  is what the documentation says of them.
* `RerunRepairs` is about the only recovery a backfill has: being called again.
* `VerdictIsRight` compares the builders with a definition that has no loop: ids
  are distinct, dependencies are distinct, and some numbering of the ids grows
  along every dependency.
* `DagIsDeclared` covers specs with a repeated id too, which `validate` refuses
  and `build_runnable_dag` takes: the edges lead between the last tasks of the
  ids, so an earlier task still runs, but without any edge.
* `ImplementsFileRun` has what the single invariants of `ForjarRunner` leave out:
  a row is set to `Running` before any other, no verdict is written before all
  are, each row gets it once, and the refusal or the report comes after the last.

Where code and documents differ:

* `state.rs:23` and `README.md:55` say that downstream tasks are skipped; the
  walk skips everything that comes later in the order (`local_runner_skip`). The
  model's sort picks any topological order, so the order in the trace need not be
  the one petgraph returns; with petgraph's own the same happens, the lone task
  being first and the one that fails.
* A row is "one recorded task execution" (`dag-lineage/src/lib.rs:38`), but the
  upsert keeps the `started_at` of the first insert (`local_runner_row`).
* The contract `no_orphan_tasks` is not enforced by `DagSpec::build`
  (`spec_build_orphan`).
* The module doc of `forjar.rs` (19-23) has forjar plan and apply the file and
  its status read back; `run()` validates and draws the graph, and records
  `Succeeded` for every resource (`forjar_runner_apply`).
* `dag-cli backfill` is said to be "inclusive on both ends" (`main.rs:80`), but
  the date of `--end` is left out when `--end` is earlier in its day than
  `--start` (`backfill_last_day`).
* `dag-scheduler/src/lib.rs:172-173` says that `cron::Schedule` is the parser that
  tokio-cron-scheduler uses; `Cargo.lock:1562-1575` has it use `croner`. No run is
  spent on it: what the parsers accept is outside the repository.
* `README.md:55` also says that every `Queued` transition is recorded; no code
  ever writes `Queued`. No run is spent on it: the state does not appear in
  `LocalRunner` at all.

## 4. Proofs

All theorems hold for any sets of attempts, run ids, task ids and dags. The
assumptions are `RunOfAssumption` and `DagsAssumption` (a run id for each
attempt, and every dag one that `add_node` and `add_edge` can produce),
`NullAssumption`, for the scheduler `StrangerAssumption` and
`MaxRunsAssumption`, and for backfills `DayAssumption`, `RangesAssumption` (the
dates of each range are among `Dates`) and `AttemptsAreDays` (an attempt for
each call and date, with the date as its run id). For the forjar runner
`FilesAssumption` (a file is a list of resources with distinct ids), for the
builders `SpecsAssumption` (a spec is a list of tasks, repeated ids included) and
for the refinement of `DagRun` `SelfAssumption` (nobody else is given the watched
attempt's run id, and the dags have distinct ids). The refinement of `FileRun` has
the same condition, `Lone`, as a hypothesis of its theorem.

`DagCoreProofs`:

* the operations of `Dag<T>` keep `IsDag`;
* `TopoOrderExcludesCycles` and `AcyclicHasTopoOrder`: a dag has a topological
  order exactly when it has no cycle. The second needs no induction over data:
  take a longest injective sequence of nodes whose every member comes after its
  parents (`PartialExtends` says a shorter one can be extended, since the nodes
  left out are not a cycle);
* `CycleCheckIsTopoSort`: hence `cycle_check` and `topo_sort` agree, and the
  second call at `local.rs:67` cannot fail after the first;
* `ChainHasOneOrder`: a linear chain has one topological order, what the demo's
  contracts on determinism and on agreement of the runners rest on;
* `OrdersThroughIds`: with distinct ids, the orders read as ids depend on the ids
  and the pairs of ids only, not on how the nodes are numbered. It is what lets
  two builders of one task list be compared.

`LocalRunnerProofs` has `Spec => []Inv` for seven invariants that
`local_runner` checks, and for the action property `TerminalIsFinal`. None of
them is inductive. The strengthening, part by part:

| Part | Says | Needed for |
|---|---|---|
| `TypeOK`, `ControlOK` | the locals at each program counter | everything |
| `Published` | each task walked past has its value in the bag | `UpstreamsPublished` |
| `StatesOK` | `task_states` at each position, in every dag | `ReportTellsFailure`, `RunningRowIsInFlight` |
| `ShapeOK` | with distinct ids: Succeeded, one Failed, Skipped, unset, split at a position | `FailFast`, `TerminalIsFinal` |
| `StoreMatchesMemory` | a row holds what its last writer remembers | `RunningRowIsInFlight`, `TerminalIsFinal`, `LineageIsTopology` |
| `EdgesOK` | the edges recorded up to a position of the loop | `LineageIsTopology` |

`ShapeOK` is there because a run that died keeps no usable position: it says
that *some* position splits the states. `StoreMatchesMemory` turns facts about
the locals into facts about rows, which other attempts may overwrite at any
time: it survives because a write changes the row's writer along with it.
Each part is preserved on top of the ones before it, and PTL puts them together.

Its later sections go on from there to the other two invariants, with two parts
more:

| Part | Says | Needed for |
|---|---|---|
| `OutputsOK` | the output of a row goes with its state, and so does the output memory has of a task that ran | `ReportIsDurable` |
| `OwnersOK` | an attempt with a row, dead or not, has begun with an order, its rows are of its dag, and each edge is of an attempt that has begun | `UpstreamRowsSucceeded` |

For `UpstreamRowsSucceeded`, as long as one attempt has begun on the run, every row
and edge of it is its own, so its states along the order (`ShapeOK`) carry over
to the tables.

`RetriesRepair` is a temporal theorem without fairness: from the moment a call is
made with every other attempt on its run id over, `OwnRows` is an invariant. It
says that the others stay over and that the rows of the tasks the call
remembers are its own (`OnlyRivalsTakeRows`).

`FailuresAreInherited` is fail-fast along the edges, at any distance: the code
knows no descendants, only a flag and an order. `Ancestors` is defined by closed
sets and not by paths, so the positions up to a task's own, which are closed under
`Parents`, contain them all, and no induction is needed.

`LocalRunnerImplementsProofs` shows that `LocalRunner` implements `DagRun`
(`RunsImplementDagRun`): each step of the watched attempt is a step of `DagRun` or
leaves the rows of its run as they are, and a step of another attempt does the
latter, since it writes under another run id. `StoreShowsMemory` gives the
abstract status, read from the rows, in terms of the attempt's locals, and
`WriteShows` what a write makes of it.

`DagSchedulerProofs` has the four invariants of `DagScheduler`, for any calls and
any number of overlapping runs. To the types, which say that a writer holds the
lock alone, `IInv` adds

| Part | Says | Needed for |
|---|---|---|
| `CallsInv` | where a call of each method can be, and that it names an id only if the `schedule` call that minted it has returned | that an id is not removed before it is inserted |
| `JobsInv` | where the `schedule` call of a job or of an entry is, and what an `unschedule` call past its removal has done for good | all of them |

The hard case is two `unschedule` calls for one id: the second may remove a
missing job and erase a missing entry, and the first may be dropped in between.

`RegistryIsTheLiveIds` is `RegistryIsLive`, and more: when every call has answered,
the inner scheduler has the same jobs. `CallsAreBounded` is freedom from deadlock put without ENABLED:
`CanGoOn` says when a call's step is possible, and a call that has to wait waits for one
that holds the lock, can go on, and lets go by its next step.

`BackfillProofs` shows first that a behaviour of `Backfill` is one of
`LocalRunner` (`BackfillIsLocalRunner`): every step of a command is a step of
one attempt or leaves the runner alone (`WhoMoves`). So the theorems of `LocalRunnerProofs` hold of the
days of all backfills. On top of its invariant, `CmdOK` says
that the cursor is a whole number of days after the start and within the range
while a run is under way, and `DaysOK` that the dates before the cursor have
succeeded and none after it has started; `DaysInOrder`
follows, for every range and day length. `CompleteMeansComplete` adds `LoopOK`, what holds
when the loop is left: the cursor is past the end by a day at most. Which dates
lie before it is arithmetic of quotients and remainders (`DateIs`, `DaysLater`,
`PastTheEnd`). `RerunsRepair` needs that a call not yet started has no runs
(`RerunIsAlone`), and the argument of `RetriesRepair` for each of its days.

`LineageReaderProofs` shows that the reader changes nothing of the runner
(`ReaderIsHarmless`), so every invariant above holds between its two statements.
`RendersAreTopology` and `NeighboursAreOfTopology` then need only what the runs do to the store
meanwhile: an edge is never removed, a report never taken back, and whoever had
a row keeps its edges. The second also counts edges, so it assumes finitely many
attempts; both use `WatchedAssumption`, that the run id asked about is one of
the runs'.

`ForjarRunnerProofs` has all the invariants of `ForjarRunner`. To the types it adds

| Part | Says | Needed for |
|---|---|---|
| `ControlOK` | what each point of `run()` implies for the locals; a success is remembered only of a task of the order | everything |
| `RowsOK` | a row is Succeeded exactly if its last writer remembers so, and one that wrote Failed remembers no success | `OneVerdict`, `RefusedIsSettled`, `ReportIsDurable` |
| `ProgressOK` | which tasks have a row after how many turns of each loop | `RefusedIsSettled`, `ReportIsDurable` |
| `PrefixOK` | the successes are a prefix of the order, also of a dead attempt | `SucceededUpstreamFirst` |
| `EdgesOK` | the edges recorded so far, and all of them once there is a row | `LineageIsTopology`, `ReportedEdgesAreKnown` |

The pairs of the edge loop are a `FlattenSeq` over the file. That they are the
file's dependencies is shown without induction, from a least counterexample
(`FlattenExists`, `LeastNat`). `RetriesRepair` follows the scheme of the local
runner, with the rows of the first loop: whoever asks forjar has written them all.

`OrdersOfFiles` says of `topo_order_from_resources` what `VerdictIsRight` says of
the builders, without the loop: it finds an order for exactly the acceptable task lists, and the
orders are those of the declared graph. With `OrdersThroughIds` it gives `RunnersAgree`, contract
C3 for every task list that names no dependency twice: a file and a dag with its ids
and dependencies are accepted together and have the same orders, and just one if
the list is a chain. That the dag of a builder is such a dag is `AcceptedDagsRun` of
`SpecBuildProofs`. A list that repeats a dependency is refused on both sides, before
there is a dag to compare (`VerdictIsRight`, `OrdersOfFiles`).

`RunsImplementFileRun` is the refinement of `FileRun`. The invariants above say what a
loop has done; the abstract actions also ask what it has not, so `Untouched` adds
that no row is there, and none is `Failed`, before its turn. That needs a run id
without rivals (`LoneRows`): a second attempt would set a row back to `Running`.

`SpecBuildProofs` has all the invariants of `SpecBuild`, by loop invariants:

| Part | Says | Needed for |
|---|---|---|
| `NodesOK` | the nodes are the tasks walked over, in their order | everything |
| `IndicesOK` | the map gives the last node of each id, and edges lead between such nodes | `DagIsDeclared` |
| `LinkedOK` | the edges are those of the dependencies walked over, none of which occurs twice | `DagIsDeclared`, `VerdictIsRight` |
| `VerdictOK` | an accepted dag can be sorted, a refused spec is not acceptable | `VerdictIsRight`, `DagIsRunnable` |

Each error has a lemma that says what is wrong with the spec
(`DuplicateIsUnacceptable`, `UnknownIsUnacceptable`, `RepeatedIsUnacceptable`,
`CyclicIsUnacceptable`); the other direction takes the positions in a topological
order for the ranks that `Acceptable` asks for.

Termination. Liveness needs fairness and ENABLED and is out of the prover's reach.
What is proved is the other half of each argument, without any bound on the
instance: a number, or a pair, that every step of the actor lowers and no step of
another raises.

| Theorem | Lowered by each step |
|---|---|
| `RunsAreBounded` (`LocalRunnerProofs`) | the edges left, three times the tasks left, and three |
| `RunsAreBounded` (`ForjarRunnerProofs`) | the dependencies left, twice the tasks left, and five |
| `BackfillsAreBounded` | the steps of the command (two for each instant of the range left, and two), or those of the run it waits for |
| `CallsAreBounded` | the steps of a call, five at most |
| `BuildsAreBounded` | the tasks left, then the dependencies left of the task |

So no run, backfill, call or build goes on for ever; that it does not stop short is
what the fair runs check (`Terminates`, `BackfillTerminates`, `CallsReturn`). Only
model-checked: these and `FailureSettlesAll`.

## 5. Not modelled

* `petgraph`, `sqlx`, SQLite and tokio themselves: external. A SQL statement is
  atomic; that a connection pool of an in-memory database is never emptied is
  taken for granted.
* tokio-cron-scheduler and the cron parsers: external. Each of its calls may fail,
  `add` and `remove` with no effect; nothing is assumed about when a job fires.
* `dag-cli run`, `validate` and `schedule` keep no state and add no step of their
  own to the builder, the runner or the scheduler they call. `schedule` never
  starts its scheduler and drops it at once (`main.rs:262-264`), so its job never
  fires.
* Text: YAML and JSON, Mermaid, labels, log lines, error messages.
* The demo (`etl_pipeline_dag.rs`): bodies and data over one chain, run once per
  runner with nothing beside it. That the chain has one order, which its asserts
  C3 and C4 rest on, is proved (`ChainHasOneOrder`); C2, the number of edges, is
  a case of `NeighboursAreTopology`.

## 6. Plan

Done: all modules of section 2, their runs, and the proofs of section 4: every
safety property and every refinement that a passing run checks is a theorem.
What may come next:

* the demo as a module, both runners over one chain and one store, with C1 to C8
  as its properties; C3 and C4 would follow from `RunnersAgree`;
* the lineage of two runners over one task list compared row by row: with
  `LineageIsTopology` and `ReportIsDurable` of each, and `AcceptedDagsRun`, what is
  missing is one module in which both write to one store.
