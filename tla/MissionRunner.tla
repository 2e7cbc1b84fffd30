---------------------------- MODULE MissionRunner ----------------------------
(***************************************************************************)
(* The unattended rewrite mission of automation/mission_runner.rs: worker  *)
(* threads port the sectors of a plan wave by wave under a spend budget,   *)
(* gates, sweeps and phases follow, and a progress record on disk lets a   *)
(* later run resume.  A run may be killed between any two steps.           *)
(*                                                                         *)
(* Sector and axis numbers follow the order the code uses: sectors are     *)
(* sorted by id in the plan and within a wave; the sweeps are queued as    *)
(* security, durability, performance.                                      *)
(***************************************************************************)
EXTENDS Naturals, Sequences, FiniteSets

CONSTANTS
    NumSectors,     \* the plan's sectors are 1 .. NumSectors
    Units,          \* units (files or line ranges) of a sector
    Waves,          \* a sequence of sets of sectors
    NumAxes,        \* audit sweeps; 3 in the code
    MaxParallelism, \* the clamp on parallelism; 32 in the code
    Manifest,       \* the manifest's parallelism; 1 .. 32 in the code
    Configs,        \* the arguments and teams runs are started with
    Resumes,        \* those the caller keeps resuming the mission with
    MaxFaults       \* bound: kills of the process and failed writes

Sector == 1..NumSectors
Axis   == 1..NumAxes
Worker == 1..MaxParallelism
Phase  == {"design", "remediation", "parity", "documentation"}
Seat   == {"lead", "porter", "qa", "reviewer", "docs"}
NoJob  == 0

\* MissionConfig with the seats that Seats::resolve finds, for the given
\* parallelism, attempts and batch sizes; a cap of 0 is none.
ConfigOf(P, A, B) ==
    [parallelism : P, max_dispatches : Nat, wall_cap : BOOLEAN,
     max_waves : Nat, max_attempts : A, run_gates : BOOLEAN,
     run_sweeps : BOOLEAN, sweep_batch_sectors : B,
     max_sweep_dispatches : Nat, run_documentation : BOOLEAN,
     dry_run : BOOLEAN, seats : SUBSET Seat, auditors : SUBSET Axis]

\* What a caller asks for, and what a run works with.
Arguments == ConfigOf(Nat, Nat, Nat)
Config    == ConfigOf(Worker, Nat \ {0}, Nat \ {0})

ASSUME PlanAssumption ==
    /\ NumSectors \in Nat /\ NumAxes \in Nat /\ MaxParallelism \in Nat \ {0}
    /\ Manifest \in Worker
    /\ Units \in [Sector -> Nat \ {0}]
    /\ Waves \in Seq(SUBSET Sector)
    /\ \A i, j \in DOMAIN Waves : i # j => Waves[i] \cap Waves[j] = {}
    /\ UNION {Waves[i] : i \in DOMAIN Waves} = Sector

ASSUME ConfigAssumption ==
    /\ Configs \subseteq Arguments /\ Configs # {} /\ Resumes \subseteq Configs
    /\ MaxFaults \in Nat

VARIABLES
    disk,        \* progress.json
    conventions, \* is there a conventions file?
    written,     \* leading units of a sector that are in the output tree
    faulted,     \* history: sectors with a dispatch that failed
    faults,      \* kills and failed writes of the record so far
    cfg,         \* this run's configuration
    stage,       \* where run_mission is; "idle" between runs
    progress,    \* Shared::progress
    budget,      \* Budget::dispatches
    late,        \* has the wall-clock cap passed?
    stop,        \* Shared::stop
    wave,        \* waves the loop over the plan has passed
    waves_processed,
    queue,       \* of a wave's sectors, or of the sweeps' axes
    pc, job, unit, outcome, \* a worker: place, sector or axis, unit or batch
    sweeps,      \* SweepSummary by axis
    gates,       \* verdict of the last run_gates
    saveFailed,  \* did a write of the record fail in this run?
    reported     \* status in the report of the last run

kept     == <<conventions, written, faulted, cfg, reported>>
record   == <<disk, progress, saveFailed, faults>>
limits   == <<budget, late, stop>>
loop     == <<wave, waves_processed>>
place    == <<stage, loop, queue>>
workers  == <<pc, job, unit, outcome>>
verdicts == <<sweeps, gates>>
vars == <<kept, record, limits, place, workers, verdicts>>

Progress == [done : SUBSET Sector, attempts : [Sector -> Nat],
             phases : SUBSET Phase,
             status : {"running", "paused", "completed", "failed"}]
\* sectors_covered counts the sectors of both audits that succeeded and audits
\* that failed, whose report says that they were NOT audited.
Summary  == [dispatches : Nat, audited : SUBSET Sector, missed : SUBSET Sector,
             truncated : BOOLEAN]

\* The type invariant.
TypeOK ==
    /\ disk \in Progress /\ progress \in Progress
    /\ conventions \in BOOLEAN
    /\ written \in [Sector -> Nat] /\ faulted \in SUBSET Sector
    /\ faults \in Nat
    /\ cfg \in Config
    /\ stage \in {"idle", "design", "waves", "porting", "gates", "sweeps",
                  "sweeping", "remediation", "parity", "documentation", "final"}
    /\ budget \in Nat /\ late \in BOOLEAN /\ stop \in BOOLEAN
    /\ wave \in Nat /\ waves_processed \in Nat
    /\ queue \in SUBSET Nat
    /\ pc \in [Worker -> {"out", "pull", "unit", "dispatch", "checkpoint",
                          "mark", "axis", "batch", "audit"}]
    /\ job \in [Worker -> Nat] /\ unit \in [Worker -> Nat]
    /\ outcome \in [Worker -> {"done", "failed", "interrupted"}]
    /\ sweeps \in [Axis -> Summary]
    /\ gates \in {"none", "green", "blocked"} /\ saveFailed \in BOOLEAN
    /\ reported \in {"none", "paused", "completed", "failed"}

-----------------------------------------------------------------------------
\* Mutant: the thread count is taken from the caller.
from_args_Trusting(c) ==
    [c EXCEPT !.parallelism = IF @ = 0 THEN Manifest ELSE @,
              !.max_attempts = IF @ = 0 THEN 1 ELSE @,
              !.sweep_batch_sectors = IF @ = 0 THEN 1 ELSE @]

\* MissionConfig::from_args, with the parallelism run_mission settles on.
from_args(c) ==
    [c EXCEPT !.parallelism = IF @ = 0 THEN Manifest
                              ELSE IF @ > MaxParallelism THEN MaxParallelism
                              ELSE @,
              !.max_attempts = IF @ = 0 THEN 1 ELSE @,
              !.sweep_batch_sectors = IF @ = 0 THEN 1 ELSE @]

\* MissionProgress::default; a missing file is read as this.
Fresh == [done |-> {}, attempts |-> [s \in Sector |-> 0], phases |-> {},
          status |-> "running"]

\* MissionProgress::is_done and attempts, as run_mission filters a wave.
Pending(i) == {s \in Waves[i] : /\ s \notin progress.done
                                /\ progress.attempts[s] < cfg.max_attempts}

mark_done(p, s) == [p EXCEPT !.done = @ \cup {s}, !.attempts[s] = 0]

\* Mutant: the failure is noted, the attempt not counted.
mark_failed_NoCount(p, s) == p

mark_failed(p, s) == [p EXCEPT !.attempts[s] = @ + 1]

mark_phase(p, f) == [p EXCEPT !.phases = @ \cup {f}]

\* Budget::exhausted.
exhausted == \/ cfg.max_dispatches > 0 /\ budget >= cfg.max_dispatches
             \/ late

\* A write of the record by temporary file and rename: all or nothing.  A dry
\* run writes nothing.
Save(p) == \/ disk' = (IF cfg.dry_run THEN disk ELSE p) /\ UNCHANGED faults
           \/ /\ ~cfg.dry_run /\ faults < MaxFaults
              /\ faults' = faults + 1 /\ UNCHANGED disk

checkpoint(p) == /\ Save(p)
                 /\ saveFailed' = (saveFailed \/ (disk' # p /\ ~cfg.dry_run))

First(S) == CHOOSE s \in S : \A t \in S : s <= t

NoSweep == [dispatches |-> 0, audited |-> {}, missed |-> {}, truncated |-> FALSE]

\* sweep_batches: the ported sectors in plan order, in chunks.
Rank(s) == Cardinality({t \in progress.done : t <= s})

\* Mutant: whole chunks only.
Batch_Exact(i) ==
    {s \in progress.done :
        /\ (i - 1) * cfg.sweep_batch_sectors < Rank(s)
        /\ Rank(s) <= i * cfg.sweep_batch_sectors
        /\ i * cfg.sweep_batch_sectors <= Cardinality(progress.done)}

Batch(i) == {s \in progress.done :
                /\ (i - 1) * cfg.sweep_batch_sectors < Rank(s)
                /\ Rank(s) <= i * cfg.sweep_batch_sectors}

Batches == {i \in Sector : Batch(i) # {}}

\* What run_mission and Shared::new set up for a run that loaded p.
Reset(p) ==
    /\ progress' = p
    /\ budget' = 0 /\ late' = FALSE /\ stop' = FALSE
    /\ wave' = 0 /\ waves_processed' = 0 /\ queue' = {}
    /\ pc' = [w \in Worker |-> "out"]
    /\ job' = [w \in Worker |-> NoJob]
    /\ unit' = [w \in Worker |-> 0]
    /\ outcome' = [w \in Worker |-> "interrupted"]
    /\ sweeps' = [a \in Axis |-> NoSweep]
    /\ gates' = "none" /\ saveFailed' = FALSE

Init ==
    /\ disk = Fresh /\ progress = Fresh
    /\ conventions = FALSE
    /\ written = [s \in Sector |-> 0] /\ faulted = {}
    /\ faults = 0 /\ stage = "idle" /\ cfg \in {from_args(c) : c \in Configs}
    /\ budget = 0 /\ late = FALSE /\ stop = FALSE
    /\ wave = 0 /\ waves_processed = 0 /\ queue = {}
    /\ pc = [w \in Worker |-> "out"]
    /\ job = [w \in Worker |-> NoJob]
    /\ unit = [w \in Worker |-> 0]
    /\ outcome = [w \in Worker |-> "interrupted"]
    /\ sweeps = [a \in Axis |-> NoSweep]
    /\ gates = "none" /\ saveFailed = FALSE /\ reported = "none"

-----------------------------------------------------------------------------
(* run_mission up to the first wave.                                       *)

\* Mutant: the run starts from an empty record.
Start_Fresh ==
    /\ stage = "idle"
    /\ cfg' \in {from_args(c) : c \in Configs}
    /\ Reset(Fresh)
    /\ stage' = "design" /\ reported' = "none"
    /\ UNCHANGED <<disk, conventions, written, faulted, faults>>

\* A caller starts or resumes the mission: the record is loaded.
Start ==
    /\ stage = "idle"
    /\ cfg' \in {from_args(c) : c \in Configs}
    /\ Reset([disk EXCEPT !.status = "running"])
    /\ stage' = "design" /\ reported' = "none"
    /\ UNCHANGED <<disk, conventions, written, faulted, faults>>

\* run_phase: does it dispatch, and what it leaves behind.  It looks at the stop
\* flag only, not at the budget.
PhaseRuns(f, seat) == /\ seat \in cfg.seats /\ f \notin progress.phases
                      /\ ~stop /\ ~cfg.dry_run

run_phase(f, ok) ==
    /\ budget' = budget + 1
    /\ progress' = IF ok THEN mark_phase(progress, f) ELSE progress

Design ==
    /\ stage = "design"
    /\ IF ~conventions /\ PhaseRuns("design", "lead")
       THEN /\ \E ok \in BOOLEAN : run_phase("design", ok)
            /\ conventions' \in BOOLEAN
       ELSE UNCHANGED <<budget, progress, conventions>>
    /\ stage' = IF "porter" \in cfg.seats THEN "waves" ELSE "gates"
    /\ UNCHANGED <<workers, verdicts, disk, written, faulted, faults, cfg,
                   late, stop, loop, queue, saveFailed, reported>>

-----------------------------------------------------------------------------
(* Porting: the wave loop, and the workers of run_wave and run_sector.     *)

\* The head of the wave loop: the wave cap counts every wave passed, also those
\* with nothing pending.
wave_capped == /\ wave + 1 \in DOMAIN Waves
               /\ cfg.max_waves > 0 /\ waves_processed >= cfg.max_waves

WavesOver == wave + 1 \notin DOMAIN Waves \/ wave_capped \/ stop

LeaveWaves ==
    /\ stage = "waves" /\ WavesOver
    /\ stop' = (stop \/ wave_capped)
    /\ stage' = "gates"
    /\ UNCHANGED <<kept, record, workers, verdicts, budget, late, loop, queue>>

SkipWave ==
    /\ stage = "waves" /\ ~WavesOver /\ Pending(wave + 1) = {}
    /\ wave' = wave + 1 /\ waves_processed' = waves_processed + 1
    /\ UNCHANGED <<kept, record, limits, workers, verdicts, stage, queue>>

StartWave ==
    /\ stage = "waves" /\ ~WavesOver /\ Pending(wave + 1) # {}
    /\ queue' = Pending(wave + 1)
    /\ pc' = [w \in Worker |-> IF w <= cfg.parallelism THEN "pull" ELSE "out"]
    /\ stage' = "porting"
    /\ UNCHANGED <<kept, record, limits, verdicts, loop, job, unit, outcome>>

\* Mutant: the sector stays in the queue.
Pull_Peek(w) ==
    /\ pc[w] = "pull" /\ ~stop /\ queue # {}
    /\ job' = [job EXCEPT ![w] = First(queue)]
    /\ unit' = [unit EXCEPT ![w] = 1]
    /\ outcome' = [outcome EXCEPT ![w] = "done"]
    /\ pc' = [pc EXCEPT ![w] = "unit"]
    /\ UNCHANGED <<kept, limits, record, place, verdicts>>

\* A worker takes the next sector.
Pull(w) ==
    /\ pc[w] = "pull" /\ ~stop /\ queue # {}
    /\ job' = [job EXCEPT ![w] = First(queue)]
    /\ queue' = queue \ {First(queue)}
    /\ unit' = [unit EXCEPT ![w] = 1]
    /\ outcome' = [outcome EXCEPT ![w] = "done"]
    /\ pc' = [pc EXCEPT ![w] = "unit"]
    /\ UNCHANGED <<kept, limits, record, verdicts, stage, loop>>

\* Mutant: a worker that finds the queue empty looks again.
Leave_Spins(w) ==
    \/ /\ \/ pc[w] = "pull" /\ stop
          \/ pc[w] = "axis" /\ queue = {}
       /\ pc' = [pc EXCEPT ![w] = "out"]
       /\ UNCHANGED <<kept, limits, record, place, verdicts, job, unit, outcome>>
    \/ pc[w] = "pull" /\ ~stop /\ queue = {} /\ UNCHANGED vars

\* A worker finds nothing to take: a stop ends the wave, not the sweeps' queue.
Leave(w) ==
    /\ \/ pc[w] = "pull" /\ (stop \/ queue = {})
       \/ pc[w] = "axis" /\ queue = {}
    /\ pc' = [pc EXCEPT ![w] = "out"]
    /\ UNCHANGED <<kept, limits, record, place, verdicts, job, unit, outcome>>

\* Mutant: the budget is not consulted.
BeginUnit_StopOnly(w) ==
    /\ pc[w] = "unit" /\ ~stop
    /\ pc' = [pc EXCEPT ![w] = "dispatch"]
    /\ UNCHANGED <<kept, limits, record, place, verdicts, job, unit, outcome>>

\* Before each unit: the stop flag, then the budget.
BeginUnit(w) ==
    /\ pc[w] = "unit" /\ ~stop /\ ~exhausted
    /\ pc' = [pc EXCEPT ![w] = "dispatch"]
    /\ UNCHANGED <<kept, limits, record, place, verdicts, job, unit, outcome>>

\* Mutant: a sector cut short keeps the outcome it began with.
Interrupt_AsDone(w) ==
    /\ pc[w] = "unit" /\ (stop \/ exhausted)
    /\ stop' = TRUE
    /\ pc' = [pc EXCEPT ![w] = "checkpoint"]
    /\ UNCHANGED <<kept, place, record, verdicts, budget, late, job, unit,
                   outcome>>

Interrupt(w) ==
    /\ pc[w] = "unit" /\ (stop \/ exhausted)
    /\ stop' = TRUE
    /\ outcome' = [outcome EXCEPT ![w] = "interrupted"]
    /\ pc' = [pc EXCEPT ![w] = "checkpoint"]
    /\ UNCHANGED <<kept, place, record, verdicts, budget, late, job, unit>>

\* The dispatch returns.  A unit extends what the earlier units of its sector
\* wrote; a dispatch that failed wrote nothing to rely on.
Dispatch(w) ==
    /\ pc[w] = "dispatch"
    /\ \E ok \in BOOLEAN :
          LET last == unit[w] = Units[job[w]] IN
          /\ cfg.dry_run => ok
          /\ budget' = budget + 1
          /\ written' = IF cfg.dry_run THEN written
                        ELSE [written EXCEPT ![job[w]] =
                                 IF ok THEN unit[w] ELSE unit[w] - 1]
          /\ outcome' = [outcome EXCEPT ![w] = IF ok THEN @ ELSE "failed"]
          /\ unit' = [unit EXCEPT ![w] = IF ok /\ ~last THEN @ + 1 ELSE @]
          /\ pc' = [pc EXCEPT ![w] = IF ok /\ ~last THEN "unit"
                                     ELSE "checkpoint"]
          /\ faulted' = IF ok THEN faulted ELSE faulted \cup {job[w]}
    /\ UNCHANGED <<place, record, verdicts, conventions, cfg, late, stop, job,
                   reported>>

\* The end of run_sector.
Checkpoint(w) ==
    /\ pc[w] = "checkpoint"
    /\ checkpoint(progress)
    /\ pc' = [pc EXCEPT ![w] = "mark"]
    /\ UNCHANGED <<kept, limits, place, verdicts, progress, job, unit,
                   outcome>>

\* Mutant: whatever is not done has failed.
Mark_NotDoneFails(w) ==
    /\ pc[w] = "mark"
    /\ progress' = IF cfg.dry_run THEN progress
                   ELSE IF outcome[w] = "done" THEN mark_done(progress, job[w])
                   ELSE mark_failed(progress, job[w])
    /\ job' = [job EXCEPT ![w] = NoJob]
    /\ pc' = [pc EXCEPT ![w] = "pull"]
    /\ UNCHANGED <<kept, limits, place, verdicts, disk, unit, outcome,
                   saveFailed, faults>>

\* Back in run_wave: the sector's result enters the record in memory.
Mark(w) ==
    /\ pc[w] = "mark"
    /\ progress' = IF cfg.dry_run \/ outcome[w] = "interrupted" THEN progress
                   ELSE IF outcome[w] = "done" THEN mark_done(progress, job[w])
                   ELSE mark_failed(progress, job[w])
    /\ job' = [job EXCEPT ![w] = NoJob]
    /\ pc' = [pc EXCEPT ![w] = "pull"]
    /\ UNCHANGED <<kept, limits, place, verdicts, disk, unit, outcome,
                   saveFailed, faults>>

\* Mutant: no checkpoint after the wave.
EndWave_NoSave ==
    /\ stage = "porting"
    /\ \A w \in Worker : pc[w] = "out"
    /\ wave' = wave + 1 /\ waves_processed' = waves_processed + 1
    /\ stage' = "waves"
    /\ UNCHANGED <<kept, record, workers, limits, verdicts, queue>>

\* All workers of the wave have been joined.
EndWave ==
    /\ stage = "porting"
    /\ \A w \in Worker : pc[w] = "out"
    /\ wave' = wave + 1 /\ waves_processed' = waves_processed + 1
    /\ checkpoint(progress)
    /\ stage' = "waves"
    /\ UNCHANGED <<kept, workers, limits, verdicts, progress, queue>>

-----------------------------------------------------------------------------
(* Gates, sweeps, phases, and the final state.                             *)

\* run_gates: does a blocking gate fail?  Skipped gates do not.
Gates ==
    /\ stage = "gates"
    /\ gates' \in IF cfg.run_gates /\ ~cfg.dry_run THEN {"green", "blocked"}
                  ELSE {gates}
    /\ stage' = "sweeps"
    /\ UNCHANGED <<kept, workers, limits, record, loop, queue, sweeps>>

StartSweeps ==
    /\ stage = "sweeps"
    /\ LET go == /\ cfg.run_sweeps /\ "porter" \in cfg.seats /\ ~cfg.dry_run
                 /\ progress.done # {}
       IN  /\ stage' = IF go THEN "sweeping" ELSE "remediation"
           /\ queue' = IF go THEN Axis ELSE {}
           /\ pc' = [w \in Worker |->
                        IF go /\ w <= cfg.parallelism /\ w <= NumAxes
                        THEN "axis" ELSE "out"]
    /\ UNCHANGED <<kept, limits, record, verdicts, loop, job, unit, outcome>>

\* A worker takes the next axis; one without a seat is reported as cut short.
PullAxis(w) ==
    /\ pc[w] = "axis" /\ queue # {}
    /\ LET a == First(queue) IN
       /\ queue' = queue \ {a}
       /\ job' = [job EXCEPT ![w] = a]
       /\ unit' = [unit EXCEPT ![w] = 1]
       /\ pc' = [pc EXCEPT ![w] =
                    IF a \in cfg.auditors THEN "batch" ELSE "axis"]
       /\ sweeps' = [sweeps EXCEPT ![a].truncated = a \notin cfg.auditors]
    /\ UNCHANGED <<kept, limits, record, stage, loop, outcome, gates>>

\* Before each batch: the sweep's own cap, the stop flag, then the budget.
sweep_full(a) == /\ cfg.max_sweep_dispatches > 0
                 /\ sweeps[a].dispatches >= cfg.max_sweep_dispatches

BeginBatch(w) ==
    /\ pc[w] = "batch" /\ Batch(unit[w]) # {}
    /\ ~sweep_full(job[w]) /\ ~stop /\ ~exhausted
    /\ pc' = [pc EXCEPT ![w] = "audit"]
    /\ UNCHANGED <<kept, limits, record, place, verdicts, job, unit, outcome>>

CutSweep(w) ==
    /\ pc[w] = "batch" /\ Batch(unit[w]) # {}
    /\ sweep_full(job[w]) \/ stop \/ exhausted
    /\ stop' = (stop \/ ~sweep_full(job[w]))
    /\ sweeps' = [sweeps EXCEPT ![job[w]].truncated = TRUE]
    /\ pc' = [pc EXCEPT ![w] = "axis"]
    /\ UNCHANGED <<kept, place, record, budget, late, job, unit, outcome,
                   gates>>

\* No batch is left; one without a dispatch would make the sweep a cut one.
EndSweep(w) ==
    /\ pc[w] = "batch" /\ Batch(unit[w]) = {}
    /\ sweeps' = [sweeps EXCEPT ![job[w]].truncated =
                     @ \/ Cardinality(Batches) > sweeps[job[w]].dispatches]
    /\ pc' = [pc EXCEPT ![w] = "axis"]
    /\ UNCHANGED <<kept, limits, record, place, job, unit, outcome, gates>>

\* An audit dispatch returns; a report is filed whether or not it succeeded.
Audit(w) ==
    /\ pc[w] = "audit"
    /\ budget' = budget + 1
    /\ \E ok \in BOOLEAN :
          LET hit == IF ok THEN Batch(unit[w]) ELSE {} IN
          sweeps' = [sweeps EXCEPT
                       ![job[w]].dispatches = @ + 1,
                       ![job[w]].audited = @ \cup hit,
                       ![job[w]].missed = @ \cup (Batch(unit[w]) \ hit)]
    /\ unit' = [unit EXCEPT ![w] = @ + 1]
    /\ pc' = [pc EXCEPT ![w] = "batch"]
    /\ UNCHANGED <<kept, place, record, late, stop, job, outcome, gates>>

EndSweeps ==
    /\ stage = "sweeping"
    /\ \A w \in Worker : pc[w] = "out"
    /\ stage' = "remediation"
    /\ UNCHANGED <<kept, record, limits, loop, queue, workers, verdicts>>

\* Remediation runs when a sweep filed a report; the gates then run again.
Remediation ==
    /\ stage = "remediation"
    /\ IF /\ \E a \in Axis : sweeps[a].dispatches > 0
          /\ PhaseRuns("remediation", "qa")
       THEN \E ok \in BOOLEAN :
               /\ run_phase("remediation", ok)
               /\ gates' \in IF ok /\ cfg.run_gates THEN {"green", "blocked"}
                             ELSE {gates}
       ELSE UNCHANGED <<budget, progress, gates>>
    /\ stage' = "parity"
    /\ UNCHANGED <<kept, workers, disk, late, stop, loop, queue, sweeps,
                   saveFailed, faults>>

\* The parity review and the documentation, once a sector is ported.
Closing(f, seat, wanted, next) ==
    /\ stage = f
    /\ IF progress.done # {} /\ wanted /\ PhaseRuns(f, seat)
       THEN \E ok \in BOOLEAN : run_phase(f, ok)
       ELSE UNCHANGED <<budget, progress>>
    /\ stage' = next
    /\ UNCHANGED <<kept, workers, verdicts, disk, late, stop, loop, queue,
                   saveFailed, faults>>

Parity == Closing("parity", "reviewer", TRUE, "documentation")

Documentation ==
    Closing("documentation", "docs", cfg.run_documentation, "final")

\* Mutant: a sector given up does not count as remaining.
FinalStatus_Attempted ==
    IF "porter" \notin cfg.seats THEN "failed"
    ELSE IF \/ cfg.dry_run \/ stop \/ gates = "blocked"
            \/ \E i \in DOMAIN Waves : Pending(i) # {} THEN "paused"
    ELSE "completed"

\* The status of the run, the last checkpoint, the report.
FinalStatus ==
    IF "porter" \notin cfg.seats THEN "failed"
    ELSE IF \/ cfg.dry_run \/ stop \/ gates = "blocked"
            \/ NumSectors > Cardinality(progress.done) THEN "paused"
    ELSE "completed"

\* A report that cannot be written is an error of the run, which then reports
\* no status.
Finish ==
    /\ stage = "final"
    /\ Save([progress EXCEPT !.status = FinalStatus])
    /\ reported' \in {FinalStatus} \cup (IF cfg.dry_run THEN {} ELSE {"none"})
    /\ stage' = "idle"
    /\ Reset(disk')
    /\ UNCHANGED <<conventions, written, faulted, cfg>>

\* The process is killed, by a reboot or an operator: the record stays.
Crash ==
    /\ stage # "idle" /\ faults < MaxFaults
    /\ faults' = faults + 1
    /\ stage' = "idle"
    /\ Reset(disk)
    /\ UNCHANGED <<disk, conventions, written, faulted, cfg, reported>>

\* The wall-clock cap passes.
WallClock ==
    /\ stage # "idle" /\ cfg.wall_cap /\ ~late
    /\ late' = TRUE
    /\ UNCHANGED <<kept, workers, place, record, verdicts, budget, stop>>

-----------------------------------------------------------------------------
Step(w) == \/ Pull(w) \/ Leave(w) \/ BeginUnit(w) \/ Interrupt(w) \/ Dispatch(w)
           \/ Checkpoint(w) \/ Mark(w) \/ PullAxis(w) \/ BeginBatch(w)
           \/ CutSweep(w) \/ EndSweep(w) \/ Audit(w)

Main == \/ Design \/ LeaveWaves \/ SkipWave \/ StartWave \/ EndWave
        \/ Gates \/ StartSweeps \/ EndSweeps \/ Remediation \/ Parity
        \/ Documentation \/ Finish

Next == \/ Start \/ Main \/ Crash \/ WallClock
        \/ \E w \in Worker : Step(w)

Spec == Init /\ [][Next]_vars

\* Threads are scheduled and dispatches return: a headless run has limits of its
\* own.  The caller keeps resuming the mission with each of Resumes.
FairSpec == /\ Spec /\ WF_vars(Main)
            /\ \A w \in Worker : WF_vars(Step(w))
            /\ \A c \in Resumes : SF_vars(Start /\ cfg' = from_args(c))

-----------------------------------------------------------------------------
(* Properties.                                                             *)

AtWork(w) == pc[w] \in {"unit", "dispatch", "checkpoint", "mark"}
InFlight  == {w \in Worker : pc[w] \in {"dispatch", "audit"}}

\* What the record calls done, in memory or on disk, is in the output tree with
\* all its units, whatever was interrupted, failed, killed or resumed between;
\* so no run starts a finished sector again ("instead of re-paying for finished
\* work").
DoneIsWritten == \A s \in progress.done \cup disk.done : written[s] = Units[s]

\* No two workers write the files of one sector, and a unit is dispatched onto
\* exactly the units before it ("chunk n needs chunk n-1 already written").
ChunksInOrder ==
    /\ \A v, w \in Worker : AtWork(v) /\ AtWork(w) /\ v # w => job[v] # job[w]
    /\ \A w \in Worker :
          AtWork(w) /\ unit[w] > 1 /\ ~cfg.dry_run
             => written[job[w]] \in {unit[w] - 1, unit[w]}

\* Workers past the check when the cap is reached are all that porting and
\* sweeps spend beyond it ("at most parallelism - 1").
OvershootBounded ==
    stage \in {"porting", "sweeping"} /\ cfg.max_dispatches > 0
       => budget + Cardinality(InFlight)
             <= cfg.max_dispatches + cfg.parallelism - 1

\* "An interruption loses at most the sectors still in flight"
\* (mission_runner.rs:1577-1578): a finished sector is on disk or a worker has
\* not let go of it yet.
FinishedIsSaved ==
    ~saveFailed /\ ~cfg.dry_run
       => \A s \in progress.done \ disk.done :
             \E w \in Worker : AtWork(w) /\ job[w] = s

\* If no write failed, a kill loses at most one finished sector per worker, and
\* none outside a wave.
UnsavedBounded ==
    ~saveFailed /\ ~cfg.dry_run
       => /\ Cardinality(progress.done \ disk.done) <= cfg.parallelism
          /\ stage # "porting" => progress.done = disk.done

\* A sector has used up a retry only if one of its dispatches failed: caps,
\* kills and other workers' halts cost it nothing.
RetriesAreForFailures ==
    \A s \in Sector \ faulted : progress.attempts[s] = 0 /\ disk.attempts[s] = 0

\* A mission reported or recorded as completed has its whole plan in the output
\* tree.
CompletedIsWhole ==
    reported = "completed" \/ disk.status = "completed"
       => \A s \in Sector : written[s] = Units[s]

\* After the sweeps, an axis that does not say it was cut short has a report on
\* every ported sector, be it an audit or the note that the audit failed: no cap,
\* halt, wall clock or missing seat leaves a sector out silently ("a sweep that
\* silently covers 12% of the tree is worse than one that says it covered 12%").
SweepsAreHonest ==
    /\ stage \in {"remediation", "parity", "documentation", "final"}
    /\ cfg.run_sweeps /\ ~cfg.dry_run /\ "porter" \in cfg.seats
    => \A a \in Axis :
          \/ sweeps[a].truncated
          \/ sweeps[a].audited \cup sweeps[a].missed = progress.done

\* The record on disk never forgets a finished sector or phase, over kills,
\* failed writes and resumed runs.
RecordGrows == [][/\ disk.done \subseteq disk'.done
                  /\ disk.phases \subseteq disk'.phases]_vars

\* Every run ends.
RunEnds == stage # "idle" ~> stage = "idle"

\* A mission that is resumed again and again ends with every sector recorded as
\* done or out of attempts.
MissionSettles ==
    <>[](\A s \in Sector :
            \/ s \in disk.done
            \/ \A c \in Configs :
                  disk.attempts[s] >= from_args(c).max_attempts)
=============================================================================
