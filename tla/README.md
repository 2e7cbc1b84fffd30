# V.E.L.O.C.I.T.Y. IDE: concurrent agents, their plans, missions and logs

TLA+ models of the parts of the IDE in which several agents act at once or a
long piece of work must survive a restart: the write gate that admits agents to
files and the threads that use it, the orchestrator panel and the headless team
pipeline that run plans of tasks on worker threads, the unattended mission
runner, the replicated operation log, and the conflict resolver. TLC checks
them on small instances; TLAPS proves the central results for every instance.
Paths below are relative to `src/velocity-mcp/src/` unless they start with
`src/`.

## The system

| component | state | operations | what makes it hard | what makes it correct |
|---|---|---|---|---|
| write gate (`automation/write_gate.rs`) | one mutex over a map from path to edit locks with line range, agent and time | `acquire`, `claim_whole_file`, `release`, `release_for_agent`, `prune_stale`, `clear_all` | `acquire` is two critical sections; paths have several spellings; directories contain files; locks expire | no line has two owners; a refusal has a cause |
| coordination bus (`agent/coordination.rs`) | a shared gate, agents, broadcasts | `claim_file`, `release_file`, messages | `release_file` is test-then-act | a claim is exclusive |
| executor (`agent/executor/loop_runner.rs`) | a conversation; the tool calls of a turn run in parallel | tool call: gates, claim, LSP gate, run, release | early returns after the claim; one agent id for all calls | a call that ended holds nothing |
| workers (`orchestrator/worker/`) | a thread per task, a cancellation channel | lock the scope entry by entry, execute, release | partial locking, panics, opposite lock orders | all or nothing; nobody waits |
| presence telemetry (`src/velocity-ide-gui/src/main.rs`) | none | cursor update: prune, drop, ask | prunes with a threshold of its own | does not disturb others |
| orchestrator panel (`editor/orchestrator/`, `orchestrator/{registry,scheduler,reconcile,load_balancer,blueprint}.rs`) | graph, statuses, outputs, handles, watchdogs, seats, bindings | poll; execute, retry, reset, stop, add, remove, clear, route; cap | results, buttons and time in any order; HashMap order; hung and panicking threads; polling depends on drawing | running tasks are watched, seated, and end; accepted outputs are disjoint; blocking follows causes |
| conflict resolver (`agent/conflict_resolution.rs`) | leases by resource, a bounded history, a JSON file | `try_lock`, `unlock`, expiry, `record_conflict`, `resolve`, `save`, `load` | expiry at the second; re-locks; restart | an exclusive lease is alone; nobody's running lease is ended by another; the history fits |
| mission runner (`automation/mission_runner.rs`) | a progress record in memory and on disk, a budget, a queue, a stop flag, sweep summaries | phases, waves of sectors on worker threads, gates, sweeps, remediation, report; caps; resume | workers share queue, budget and record; caps trip mid-sector; saves fail; the process is killed | what is recorded as done was written; caps overshoot by a bounded amount; audits say what they left out; Completed means whole; a resumed mission settles |
| operation log (`automation/{oplog,op_log_store,change_attribution,governor,principal,replication,merge}.rs`, `agent/peer_link.rs`) | a log file per machine, a clock per producer, an exchange per link | record, deny, append, restart, request, merge, answer | no lock between reading and appending; half-written lines; links that break; concurrent edits | ids unique, logs causally closed, a round delivers everything, equal logs have equal heads |
| team pipeline (`orchestrator/{team_pipeline,checkpoint,directive,live_runs}.rs`, `registry/team_tools.rs`) | registry, handles, assignments, an inbox with its ledger, one checkpoint file per workspace | dispatch, resume, poll, wave, save, amend, deadline | crash between two saves; other runs overwrite the file; directives race spawning; hung workers | Done was done by this team; Done tasks share no file; a directive reaches every worker; the run ends |
| peer link beyond the exchange, background agents, drone bridge (`agent/`) | registries, retry queues | send, reconnect | loss, timeouts | not modelled |
| rate limits, connectors, IPC | counters, a ring | call, refill | time boundaries | not modelled |
| compiler, site map, browser engine, model server, tools, GUI | large | sequential computation, I/O, drawing | — | outside this project |

The chat executor, the orchestrator's workers and the presence thread share one
gate (the executor reaches it through the coordination bus, the workers and the
presence thread through `MediatorArena`, which only forwards). Headless runs
and team routing build a private bus and do not meet the others; every team
run has a `MediatorArena` of its own. Panel and pipeline share the task graph,
the registry and the rules that settle a result. Both know their workers
through handles that they poll; a dropped handle does not stop its thread. A
mission dispatches through headless agent runs. Every writer of files records
its changes in the operation log, as does the governor its denials; peers
exchange the logs.

## Modules

`LockTable` has the gate's data and its operations as operators on a set of
locks. `WriteGate` and `WriteAdmission` share it.

`WriteGate` is the gate as an object: any thread calls any operation for any
agent. `AcquirePrune` and `AcquireAdmit`/`AcquireReject` are the two critical
sections of `acquire`; every other action is one critical section. A lock's
`Instant` is represented by its age, which stops counting one past `LOCK_TTL`:
nothing tells older locks apart. Two equal locks are one: nothing counts them.
`canonicalize_scope_path` is a function from spellings to resources, the
site map a relation between resources.

`ExclusiveRegions` says what a gate promises: agents own lines of resources, no
line has two owners, only free lines are taken. `WriteGate` implements it with
the refinement mapping `owned[a] = Owned(locks, a)`.

`WriteAdmission` composes the gate with its three clients; one action per
stretch of a thread between two critical sections of the gate. `pc` is the
place in the code, `todo`/`held` are the scope entries `acquire_scope_locks` has
still to take and the vector it returns. A refusal by the schema, surface or RBAC
gates is `CallDenied` and `WorkerDenied`; a call that the LSP gate stops behind
its claim is `CallBlocked`; a panic leaves the locks where they are. `lost` is a
history variable: the threads from whom a prune took a lock that had outlived
its threshold (thirty minutes, or the two seconds of telemetry), or whose lock
another thread of the same agent id gave back. Whoever is not in `lost` must be
safe from everybody. The composition implements `WriteGate` (`GateSpec`), so
what is proved there of the lock table holds here.

`TaskGraph` is what the panel and the team pipeline share: the plan, the
statuses, `propagate_blocked_dependents`, `complete_reconcile_root`,
reconciliation of results and the conflict-aware wave, as operators on the
statuses and outputs they read. `propagate_blocked_dependents` is the loop of the
code: `Visit` is its body, `Visits` the passes over the waiting tasks in an order
of the HashMap, and the result is what some order leaves when a pass changes
nothing. The code repeats passes without a bound; on an acyclic plan as many
passes as tasks wait are enough, and an outcome counts only if it is stable.

`Orchestrator` is the panel. `poll_live_workers` is one step, in the order of
the code: collect results and release their seats, reconcile, propagate
blocked dependents, complete the reconcile root, run the watchdog, choose a
conflict-free wave of ready tasks, bind, resize the seat pool, dispatch. The HashMap's
iteration order, and task priorities, are a choice among all outcomes some order
produces. Buttons that poll at once (Execute, Retry) contain the poll. A result
is one of three: good, one that asks for a follow-up, bad. A `Blocked` status is
split by what the code later asks of its message: `FollowUp` and `Dependency`
can be retried, `Unfit` cannot. The watchdog's clock has four places:
`watching`, `expired` (stall or hard limit reached), `cancelled`, `overdue`
(grace period over). `orphans` are threads whose handle was dropped.
`SiteMap::open` succeeds or fails once for a whole poll. A model is taken to be
selected, so every task can be bound.

`MissionRunner` is `run_mission` with its worker threads. `stage` is where the
main thread is, `pc` where a worker is; a unit of a sector is checked against
the caps (`BeginUnit`, `Interrupt`), dispatched, saved (`Checkpoint`) and
marked in separate steps, as the code takes the locks separately. `written`
is the output tree, as the number of leading units a sector has there;
`disk` is `progress.json`; `conventions` says whether a conventions file
exists. A dispatch may fail; a save may fail; `Crash` kills the process
between any two steps. `Start` loads what is on disk, so a mission is a
sequence of runs, each with arguments of `Configs` that `from_args` clamps.
`wave` is the index of the loop over the plan's waves, `waves_processed` the
count that the wave cap is compared with. A sweep's summary tells the sectors
with an audit from those with the note of a failed one; `EndSweep` has the
code's second look at the number of dispatches. Budgets count dispatches; the
wall clock is a flag that comes up once. The final report may fail to be
written, which ends the run with an error and no status.

`OpLog` has a log per machine, which is what a load of the file yields;
`torn` says how the file ends: in a newline, in half a line, or in a whole line
without its newline, which a load reads like any other. The next write behind
either of the last two completes that line into one that no load can parse: the
operation written is `spliced`, and a line that was readable is gone (its node
is in `lost`). `record` is the critical path of a producer up to the stamp,
`append` the write: nothing is held between them. A round on a link is one
POST in five places: the request, the server's load, its merge operation by
operation, the answer, the client's load and merge. Writes fail, producers
restart and rounds break off, at most `MaxFaults` times. Producers may share a
node id, as the agent executor and the governors do with `NodeId::local()`;
`Intact` are the nodes of one producer none of whose lines was written on, and
the passing properties speak of their operations beside those of all others.
`materialize_text` is the last-writer-wins head of each file.

`TeamPipeline` is `run_pipeline` for the dispatches of one team and prompt, in
the order of the loop: drain the directives, poll and settle, dispatch, save.
Between these steps workers end, the operator amends, time passes, another
run of the workspace replaces or removes the one checkpoint file (`OtherRun`),
and the process dies. `achieved` is a history variable: what workers of
this team have finished since it last began with nothing saved.

`ConflictResolver` is the resolver with its file, which `save` rewrites in place:
the write may fail or be cut, and a file that does not parse is no history.

Names kept from the code are written as in the code; actions without a name
there are in capitals.

Mutants (`..._Suffix`, each marked with a comment) are plausible mistakes in
the definition below them; every property is violated by the mutant that
`PROJECT.json` pairs with it.

## Runs

Passing:

| run | question | instance |
|---|---|---|
| `write_gate` | Is ownership exclusive, do refusals have a cause, does the table implement `ExclusiveRegions`? | 2 agents, 2 threads, a directory with 2 files, one of them with 2 spellings, 2 lines; at most 3 locks (`MaxLocks`) |
| `write_admission` | Do claims and scope locks keep writers apart until somebody loses a lock, are partial scopes rolled back, do all threads end, and do the clients use the gate as specified? | a call that the LSP gate may stop, 2 workers whose scopes overlap in opposite orders, one with a directory and a file in it, and the presence thread; the call and one worker may panic |
| `orchestrator` | Are running tasks watched and seated and accepted outputs disjoint, under every button? | reconcile root, a routed and an authored task with colliding scopes and outputs, caps 1 and 2 |
| `orchestrator_live` | Do running tasks end and ready tasks run, and does one poll unblock a whole chain? | 4 authored tasks, 2 of them colliding, a chain of three, 2 seats; stop and retry |
| `conflict_resolver` | Are exclusive leases alone, and does nobody end another's running lease? | 2 actors, 1 resource, leases of 2 seconds, history of 2, clock to 5 (`MaxTime`) |
| `mission` | Is what the record claims true, in memory and on disk? Is what a kill loses and a cap overspends bounded? Are audits that were cut short marked, does every run end, does a resumed mission settle? | 3 sectors, one of two units, in 2 waves; 2 workers, one sweep, gates, remediation; runs without caps, with a dispatch cap and out-of-range arguments, with a wall-clock cap and a sweep cap on one worker, dry, and without a porter; one kill or failed save |
| `op_log` | Are own ids unique and logs closed, do heads agree, does a round deliver? | 2 machines, a human with an id of their own and a governor stamping as `local` on each, 2 versions of a file, one link, 3 operations, one fault |
| `team_pipeline` | Is Done true after a resume, are writes disjoint, do amendments arrive, does the run end? | a lead and two members who may write one file, a directive to two of them, a deadline, one crash or failed write, a moving site map |

Violations, each a disagreement between the code and what the repository says:

| run | what TLC shows |
|---|---|
| `admission_leak` | a call that the LSP gate stops has claimed its file and returns past the release (`loop_runner.rs:3398`; "Release file lock after execution", 3488) |
| `mission_unsaved` | a sector is marked done after its checkpoint, so a kill loses one that no worker has in hand any more ("an interruption loses at most the sectors still in flight", `mission_runner.rs:1577`); `UnsavedBounded`, in `mission`, is the bound that does hold |
| `mission_wave_cap` | a wave with nothing pending counts toward `max_waves`, so a mission resumed with a cap of one wave never reaches its second one ("Caps apply per *run*, not per mission lifetime", `mission_runner.rs:1456`) |
| `op_log_local` | the agent's attributor and the governor stamp as `NodeId::local()`, read one log and mint one id for two operations ("never mints a colliding `op_id` with any other producer on this node", `governor.rs:221`) |

### Why the bounds are enough

Two agents are enough for exclusion and refusals, which are about pairs of locks; two
threads let one run between the two sections of the other's `acquire`. The
tree has the one nesting the code distinguishes. `LOCK_TTL` = 1 gives young, old and
expired locks; `PRESENCE_LOCK_TTL` = 0 lets a cursor movement take any lock that
has aged at all. One call and two workers give every pair of clients; two calls
under one agent id are left to the theorems, which hold for any. Three tasks
give a root with a dependency and a bystander; the chain of three makes the
order of the propagation matter; two seats let the pool shrink under a busy
seat. The resolver's clock passes a lease's end with room for a second
lease; the history overflows at two. Agents, threads and actors that are
interchangeable are symmetric in the safety runs `write_gate` and
`conflict_resolver`.

A mission needs a sector of two units (an interruption inside a sector), two
sectors in a wave (two workers at the queue) and a second wave, which a
resumed run reaches by passing over the first; one kill
followed by a resume meets every place of a run. The queue of a wave and a cap
of two let both workers pass the check before either has counted. Audits in
batches of one and two over three sectors leave a short last batch. Of the
phases only remediation is run by TLC, since every further one in the record
multiplies the states; the theorems are about all of them. Two machines
and one link are what a round is about; counters to two give an operation
that knows another, one concurrent with it and one that is stale. One
fault shows every single failure; the theorems hold for any number. A merged
half of a round without a failed write, a stale message and an answer that
leaves something out all occur with three operations. Two
workers that may write one file, one reached by the directive and one not, and
one dependency before both, are what the pipeline's properties tell apart.

### Fairness

`WriteAdmission`: weak fairness of every call and worker thread, which the
operating system schedules; tools and agent runs have timeouts of their own.
None for the presence thread. `Orchestrator`: weak fairness of `Frame`, since a drawn panel that
runs work asks for another frame within 100 ms, and of time, since the hard
limit on a worker (`max_worker_wall_secs`, 90 minutes unless the operator sets
it to 0) runs out even for a worker that keeps reporting progress. No fairness
for the end of a worker, which may hang, nor for any button.

`MissionRunner`: weak fairness of the main thread and of every worker thread,
since a dispatch is a headless run with time limits of its own; strong fairness
of starting a run with each configuration of `Resumes`, the assumption under
which `MissionSettles` is asked: a caller who keeps resuming. None for kills,
whose number is bounded. `OpLog` assumes none: in this commit only tests call
`sync_ops_with_peer`, so what is checked is that a round delivers when it takes
place (`RoundsDeliver`), not that rounds take place. `TeamPipeline`: weak
fairness of the driver thread and of the clock; none for workers, the operator
or other runs.

### Deviations that show in the models and are not runs

The models contain them; the properties are stated around them.

- `RunningEnds` needs the Orchestrator tab drawn: nothing else polls
  (`editor/app/render.rs:450`), although Mission Control can launch a plan. The
  run that checks it has no `tab` command.
- `DeferredRun` needs a site map that stays: when every task of a wave is found
  stale, `execution_running` becomes false and the deferred task waits for the
  operator (`execution.rs:563`).
- A wave is compared with itself and not with running tasks
  (`orchestrator/registry.rs:86`), so `SameWave` speaks of tasks dispatched
  together.
- Two tool calls of one turn on one file share the id `primary`; the first to
  end releases the claim of the second, and a worker is admitted beside it
  (`loop_runner.rs:3490`, "exclusive writing by a single owner",
  `write_gate.rs:249`). The second call is then in `lost`.
- A cursor movement prunes every lock older than two seconds, a working
  task's among them (`src/velocity-ide-gui/src/main.rs:268`, "no live lock
  lifetime changes", `write_gate.rs:29`). The task is then in `lost`:
  `ExclusiveWork` and `WorkingHoldsScope` say that nobody else is harmed.
- A hung worker's thread outlives its seat, which another task gets
  (`execution.rs:443`): `max_concurrent_workers` bounds seats, not threads
  (`struct_def.rs:59`). Its agent id `task-N` is that of a retry of its task,
  whose locks it releases when it ends.
- Resetting, removing or re-routing a running task drops its handle and not its
  seat (`execution.rs:288`): a pool can be full with nobody running until the
  plan is reset (`execution.rs:37`).
- `set_routed_tasks` lowers `last_issued_task_id` to the new plan's largest id,
  so ids are reused within a session, against `struct_def.rs:81`.
- `acquire` looks up the callers of the requested file only: whether two coupled
  files are kept apart depends on who asks first (USER_GUIDE.md:1265 makes no
  such difference).
- An exclusive request of an actor that shares the resource is answered `Ok` and
  changes nothing (`conflict_resolution.rs:192`), although others share it and
  the comments at 139 and 188 give the holder sole use. A re-lock is not renewed
  either. The properties are about the leases in the table; what an answer of
  `Ok` means is not stated, since the code gives it for leases that differ from
  the one asked for.
- Conflict ids repeat within a second once the history is full
  (`conflict_resolution.rs:276`); `resolve` then reaches the first of the two.
- After a reset of one of its dependencies the reconcile root stays Done; after
  the watchdog failed the last running task its dependents stay Pending, as no
  later poll propagates.
- Mission: phases and sweeps are saved only at the end of the run (against
  `mission_runner.rs:2999`). `run_phase` asks for the stop flag and not for the
  budget, so `OvershootBounded` is about porting and sweeps. A sector cut by a
  cap starts again at its first unit: under a cap smaller than its units it
  never ends. A sweep batch whose dispatch failed counts as covered in the
  summary (`mission_runner.rs:424`) although its report says that it "was NOT
  audited" (2656): `SweepsAreHonest` asks for a report on every sector, audit
  or note. Completed says "the
  gates passed" (`mission_runner.rs:2894`) also when gates were not run, and
  phases without a seat do not prevent it. Two runs on one mission directory
  overwrite each other's record; the model has one run at a time.
- Operation log: `needs` leaves out what the peer's clock dominates, although
  its comment says a dominated and unlisted id "is still shipped"
  (`replication.rs:88`); a failed append is only logged, although `record`
  calls what it returns "already durable" (`change_attribution.rs:112`); a file
  that returns to an earlier content is taken for an echo and its head stays; two
  producers may log one change each, since the look-up and the append are
  apart. A write cut short is glued to the next, although `append` says that an
  interrupt "cannot leave a half-line or splice two records together"
  (`op_log_store.rs:50`): the operation behind it is `spliced`. If only the
  newline was cut, the line is read until the next write destroys it, and a
  producer restarted after that may stamp its id again, against "restarts never
  reuse `op_id`s" (`change_attribution.rs:68`); its node is then in `lost`. It
  takes two faults, one more than the run has; the theorems allow any number.
- Team pipeline: outputs of Failed and Blocked results are restored as if
  accepted (`checkpoint.rs:303`), so that a resumed task may collide with
  nobody's work; an assignment whose task is already terminal still counts as
  pending in the roster, so the ledger records deliveries nobody reads
  (`team_pipeline.rs:856`); a directive pushed after the last drain is accepted
  and not delivered; directives folded into a brief are not in the
  checkpoint; a run past its deadline saves everything unfinished as Failed,
  so resuming it repeats the failures; one file and one temporary sibling
  serve all runs of a workspace; a start without resume leaves the old file
  until the first wave.

## Proofs

`WriteGateProofs`, for every set of agents, threads, paths and requests:

- `TypeCorrect`: the type invariant.
- `Exclusion`: `Exclusive` holds always. With `TypeOK` it is inductive as it
  stands. The work is in the lemma `NoConflictNoSharedCell`
  of `LockTableProofs` (facts about the table that the gate and its clients
  share): if a lock neither collides on
  lines nor overlaps in scope with a request, they cover no common line. Two
  directory scopes over one resource are the case that needs the tree
  assumption.
- `RefusalsHaveAReason`: `NoSpuriousRefusal`, from the converse lemma
  `ConflictSharesCell`. The test is exactly as strong as it must be, apart from
  the semantic coupling.
- `RegionsRefined`: the gate implements `ExclusiveRegions`. An admission is a
  `Grab`, everything that shortens the table a `Yield`, ageing a stutter.

Assumptions: canonicalisation is a function into resources (`PathAssumption`);
two directories over one resource are nested (`TreeAssumption`); lines and range
ends are natural numbers and the whole-file range ends in a sentinel
(`RangeAssumption`); a range starts at a line and does not end before it
(`RangeNotEmpty`); the callers relation is over resources
(`CallersAssumption`); times are natural numbers. `MCWriteGate` has TLC
evaluate them.

`WriteAdmissionProofs`, for every set of tool calls, tasks, scopes and agent
ids:

- `TypeCorrect`: the types, and that a thread is in a phase of its own kind
  and inside `acquire` only with an entry to acquire (`SInv`).
- `NothingLeaks`: `LocksHaveKeepers`. Every lock has a thread that will give it
  back or ended with it in a panic or in the LSP gate; the strengthening `Kept`
  names it, a call by its file, a worker by an entry of `held`.
- `GateRefined`: the composition implements `WriteGate`, so `Exclusion` and
  `RefusalsHaveAReason` hold of its locks.
- `ScopeHeld` and `WorkExclusive`: `WorkingHoldsScope` and `ExclusiveWork`,
  with the telemetry thread, with agent ids shared in any way and for calls on
  any files. The inductive part is `Holding`: whatever a thread outside `lost`
  counts on is covered by a lock of its own. A prune or a release that takes
  the last such lock puts the thread into `lost`; that nothing else takes it is
  what is proved. `Covered` splits the scope into what is locked and what is not.

`ThreadAssumption` (a thread is of one kind) and `NoRequestAssumption` are
evaluated in the `MCWriteAdmission` runs.

`ConflictResolverProofs`, for every actor set, timeout and history limit:

- `TypeCorrect`, and `Bounded`: the history fits in memory and on disk. The
  induction needs both at once, since `load` makes the file the history and the
  types are needed to count it.
- `LeasesKept`: `LeasesAreKept`, from the definitions of the operations.
- `LeaseExclusion`: an exclusive lease is alone; inductive with the types, as
  an admission is refused or answered without a new lease whenever a lease it
  could not stand beside is left after the expiry.

`OrchestratorProofs`, for every plan, conflict relation, number of tasks and
seats, and every order in which a poll treats its workers:

- `TypeCorrect`, `RunningAlwaysWatched`, `SeatsNotShared`,
  `AcceptedNeverOverlap`: the invariants of the run `orchestrator`. They are
  proved as one inductive invariant `Inv`, because each leans on another: a
  kept worker's seat stays busy only because the seats that a poll gives back
  are not shared; an output stays with a task that is Done only because `Running` and a
  handle go together. `Unissued` (an id not yet issued is in no plan) is the
  only strengthening; `add_task` needs it.
- `WavesConflictFree`: `SameWave` as an action property.
- `BlockedForACause`: `BlockedHasCause`, for acyclic plans of any shape and
  depth and any order of the map. What the loop leaves is stable under `Visit`;
  a stable set could still contain tasks that only block each other, and that
  it does not is shown by following blocked dependencies downwards, which ends
  since they have smaller ids (`ChainsEnd`, `SettledCause`).

`poll_live_workers` is one lemma (`PollKeeps`) under the condition `Pollable`
on its arguments, which `CallersPollable` shows for each of its four callers;
all other actions are shown to be `Quiet`. Assumptions: ids and seats are
intervals of naturals, the caps lie in the seats' range, `NoSeat` is no seat,
writes are sets of files (`TaskAssumption`, `ConflictAssumption`,
`SeatAssumption`, evaluated by `MCOrchestrator`). That the conflict relation is symmetric is
not used; that the plan is acyclic is used for `BlockedForACause` alone.

`MissionRunnerProofs`, for every plan of waves, units, configurations, number of
workers and kills. `IInv` is `TypeOK` with three parts: `Places` (who is where
in which stage), `Hands` (a sector in a worker's hands is in nobody else's, not
queued and not done, and its files hold exactly the units before the one at
hand) and `Records` (memory is ahead of disk, both are true). From it follow
`TypeCorrect`, `DoneSectorsAreWritten`, `UnitsAreInOrder`,
`AttemptsAreForFailures` and `CompletionIsWhole`. The two bounds need a
counting argument each, on top of `IInv`: `LossIsBounded` (`Saved`: without a
failed write, what is unsaved was marked by workers that have not saved
since, one each) and `SpendIsBounded` (`Spent`: what is spent and in flight
stays below the cap and one per worker). `RecordOnlyGrows` is the action
property; `FinishedNotRepaid` says that a sector the record calls done is
never dispatched again and its files stay, in this run or a resumed one.

`SweepsCoverEverything` is `SweepsAreHonest`. Its invariant `SInv` says that
every axis is queued, in one worker's hands or swept (`Axes`), that an axis in
hand has covered exactly the batches before the one at hand (`Audits`), and
that somebody is left to come for what is queued (`Crewed`). That a sweep may
stop at its first empty batch is a lemma about ranks: those of a finite set
have no gap (`RanksAreDense`, `BatchesCover`).

`RunsAreFinite` is what `RunEnds` needs besides fairness, for every plan and
every interleaving: each step of a run makes `Measure` smaller, and the order
`Shorter` is well-founded. The measure is lexicographic: the stages left, the
waves left, whether the wave is still to be opened, the length of the queue,
the steps that the workers have left together, the wall clock. A worker's own
number falls with every step but the taking of work, which shortens the queue.
`Ends` makes the components natural numbers: the wave loop does not run past
the last wave nor a sweep past the batch behind the last.

`OpLogProofs`, for every set of machines, producers, links and changes, any
number of faults and node ids shared in any way. The theorems have no
hypothesis; where ids matter, the properties speak of the `Intact` nodes, and
other producers may do what they like beside them: `TypeCorrect`,
`IdsAreUnique`, `LogsAreCausallyClosed`, `RoundsAreComplete`. The invariant
`IInv` is about the operations present in logs and messages. `LogsOK`: they are
well stamped and unique, those of an intact node are in the log of its
producer's machine (`FromHome`), what a clock knows of a node is backed by an
operation there and includes that operation's whole clock (`HistoryBacked`,
`HistoryBehind`), and every operation of a log stands behind its history
(`PrefixClosed`). `ClocksSound` says the same of producers' clocks,
`PendingFresh` that a stamped operation is ahead of every present one of its
node, and `RoundsFit` that a message and what is left of a batch are closed
downwards and that what was sent is merged or still to merge. Closure is why
appending a batch in part is harmless and appending it backwards
(`Merge_Backwards`) is not; a line without its newline is the last of its log,
so that cutting it off keeps prefixes closed. A step of any action is described
once by what it adds to which log (`Step`), and `StepKeeps` is the induction.

On top of it:

- `MachinesAgreeOnHeads`: `HeadsAgree`. The order by clock total, node and
  counter is total up to ids (`OutranksOrders`), a finite set of operations has
  a highest one (`BestExists`), and ids are unique. What the sum of a clock is
  for any number of producers is proved by least counterexample, without the
  library's induction (`SumExists`, `TotalIsSum`, `TotalGrows`); for that
  `ProducerAssumption` says that the producers are finitely many.
- `HeadsAreLatest`: `HeadIsLatest`. An operation that knows another has a
  higher total, since clocks are histories (`HistoryBehind`, `LaterOutranks`).
- `TextNeverGoesBack`: the head of a file on a machine is only ever replaced
  by an operation that outranks it, whatever arrives in whatever order, for
  shared ids too, unless its own line was written on.
- `RoundsAreComplete`: a half of a round whose writes succeeded has brought the
  receiver all that the sender's log had when the message was made, save what
  was spliced. The filter by clock and ids leaves nothing out
  (`FilterComplete`).

`TeamPipelineProofs`, for every plan, directive, deadline and number of
faults: `DoneIsTrue`, `DoneWritesDisjoint`, `AmendmentsReach`. `Inv` adds to the
types that a task is Running exactly while it has a handle (`Handles`), that
the registry holds the outputs of what is Done (`Recorded`, as reconciliation
looks there and not at results), that whoever is at work or yet to be spawned
has what was drained for its scope (`Briefed`), and that a checkpoint of this
team is as true as the state (`Saved`), since a resume makes it the state.
`FinishedTasksStay` is an action property from `Inv`: a run takes no task back
from Done and spawns each assignment at most once, while it is Pending.

Assumptions are the named `ASSUME`s of the modules (`PlanAssumption`,
`ConfigAssumption`; `ProducerAssumption`, `LinkAssumption`, `BoundAssumption`,
`DenialAssumption`; `GraphAssumption`, `ConflictAssumption`,
`PipelineAssumption`), evaluated by TLC in the runs. The bounds of `OpLog`
(`MaxCounter`, `MaxStamps`, `MaxFaults`) are arbitrary numbers.

Every safety property of the passing runs is also a theorem. Only
model-checked: liveness (`EveryThreadEnds`, `RunningEnds`, `DeferredRun`,
`RunEnds`, `MissionSettles`), as fairness and ENABLED are outside the prover's
reach. `FinishedNotRepaid`, `RunsAreFinite`, `TextNeverGoesBack` and
`FinishedTasksStay` are theorems about steps that no run lists as a property.

## Plan

Done: (1) `LockTable`, `WriteGate`, `ExclusiveRegions`, their proofs; (2)
`WriteAdmission`, the clients composed with the gate; (3) `Orchestrator` and
its proofs; (4) `ConflictResolver` and its proofs; (5) `MissionRunner`, (6)
`OpLog`, (7) `TaskGraph` and `TeamPipeline`, each with its proofs; (8)
`BlockedHasCause` proved; (9) the safety of `WriteAdmission`, its refinement of
`WriteGate` and what leases promise proved; (10) the heads and rounds of `OpLog`,
the sweeps and the finiteness of mission runs proved.

What could follow, in this order:

1. The measure of a mission run for the panel's polls and the gate's callers:
   a thread that is scheduled has finitely many steps of its own.
2. Panel, worker threads and gate composed, with a thread's identity apart
   from its agent id.
3. The retry queue of the peer link and the shared-memory ring.

## Not modelled

Compiler, model inference, site map construction, browser engine, drawing and
the tools themselves, which are most of the repository's lines: sequential code
or I/O without a protocol. What a task does inside its scope; the policy
editor; the wording of prompts, conflicts, reports and statuses beyond what the
code later reads from it. Task router, plan synthesis, team classification
and the RBAC decision are pure functions; their results are constants or
nondeterministic choices. `agent/executor/circuit_breaker.rs` is called only
from its tests. Background agents and the drone's scheduler are small
registries under one lock. The crates under `src/shared` and
`src/velocity-workflow-daemon` are outside the workspace build; the workflow
engine does not compile as it stands. The claims and triples of the
operation log have no producer outside tests.
`PROJECT.json` lists every component with the reason.
