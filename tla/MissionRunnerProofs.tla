------------------------- MODULE MissionRunnerProofs -------------------------
(***************************************************************************)
(* The safety of the mission runner, and that its runs are finite, for     *)
(* every plan, configuration, number of workers and of kills.              *)
(***************************************************************************)
EXTENDS MissionRunner, FiniteSetTheorems, WellFoundedInduction, TLAPS

-----------------------------------------------------------------------------
(* The inductive invariant. *)

\* The sectors a sweep's reports speak of.
Told(x) == x.audited \cup x.missed

\* Workers port only while a wave is open and audit only during the sweeps, and
\* no more of them than the configuration allows; what they have queued is work
\* of that kind.
Places ==
  /\ \A w \in Worker :
       /\ AtWork(w) \/ pc[w] = "pull" => stage = "porting"
       /\ pc[w] \in {"axis", "batch", "audit"} => stage = "sweeping"
       /\ pc[w] # "out" => w <= cfg.parallelism
       /\ pc[w] \in {"batch", "audit"} => job[w] \in Axis
  /\ stage = "porting" => queue \subseteq Sector \ progress.done
  /\ stage = "sweeping" => queue \subseteq Axis
  /\ stage # "idle" => reported = "none"

\* What a sector's files hold while worker w has it.
Work(w) ==
  /\ pc[w] \in {"unit", "dispatch"} =>
       /\ outcome[w] = "done"
       /\ ~cfg.dry_run /\ unit[w] > 1 => written[job[w]] = unit[w] - 1
  /\ pc[w] \in {"checkpoint", "mark"} =>
       /\ outcome[w] = "failed" => job[w] \in faulted
       /\ ~cfg.dry_run =>
            /\ unit[w] > 1 => written[job[w]] \in {unit[w] - 1, unit[w]}
            /\ outcome[w] = "done" => written[job[w]] = Units[job[w]]

\* A sector in a worker's hands is in nobody else's, not queued and not done.
Hands ==
  \A w \in Worker : AtWork(w) =>
    /\ job[w] \in Sector
    /\ job[w] \notin queue
    /\ job[w] \notin progress.done
    /\ unit[w] \in 1..Units[job[w]]
    /\ \A v \in Worker : AtWork(v) /\ v # w => job[v] # job[w]
    /\ Work(w)

\* The record in memory is ahead of the one on disk, and both are true.
Records ==
  /\ DoneIsWritten
  /\ RetriesAreForFailures
  /\ disk.done \subseteq progress.done
  /\ disk.phases \subseteq progress.phases
  /\ disk.status = "completed" => disk.done = Sector
  /\ progress.status = "completed" => progress.done = Sector
  /\ reported = "completed" => \A s \in Sector : written[s] = Units[s]

IInv == TypeOK /\ Places /\ Hands /\ Records

USE DEF kept, record, limits, loop, place, workers, verdicts

-----------------------------------------------------------------------------
(* Helpers. *)

\* A nonempty set of numbers has a least element, which is what First chooses.
LEMMA FirstIsMember ==
  ASSUME NEW S \in SUBSET Nat, S # {}
  PROVE  First(S) \in S /\ \A y \in S : First(S) <= y
<1> DEFINE R == OpToRel(<, Nat)
<1>1. IsWellFoundedOn(R, Nat)
  BY NatLessThanWellFounded
<1>2. \E x \in S : \A y \in S : ~ (<<y, x>> \in R)
  <2> HIDE DEF R
  <2> QED BY <1>1, WFMin
<1>3. PICK x \in S : \A y \in S : ~ (<<y, x>> \in R)
  BY <1>2
<1>4. \A y \in S : ~ (y < x)
  BY <1>3 DEF OpToRel
<1>5. x \in Nat /\ \A y \in S : y \in Nat
  OBVIOUS
<1>6. \E z \in S : \A y \in S : z <= y
  BY <1>4, <1>5
<1> QED BY <1>6 DEF First

\* The fields of a configuration the proofs use.
LEMMA ConfigFields ==
  ASSUME cfg \in Config
  PROVE  /\ cfg.parallelism \in Worker
         /\ cfg.parallelism \in Nat \ {0}
         /\ cfg.max_dispatches \in Nat
         /\ cfg.max_attempts \in Nat
         /\ cfg.dry_run \in BOOLEAN
BY PlanAssumption DEF Config, ConfigOf, Worker

\* Whatever the caller asks for, a run works with a configuration in its bounds.
LEMMA ArgumentsAreClamped ==
  ASSUME NEW c \in Configs
  PROVE  from_args(c) \in Config
<1>1. c \in Arguments
  BY ConfigAssumption
<1>2. MaxParallelism \in Nat \ {0} /\ Manifest \in Worker
  BY PlanAssumption
<1>3. /\ c.parallelism \in Nat /\ c.max_attempts \in Nat
      /\ c.sweep_batch_sectors \in Nat
  BY <1>1 DEF Arguments, ConfigOf
<1> DEFINE P == IF c.parallelism = 0 THEN Manifest
                ELSE IF c.parallelism > MaxParallelism THEN MaxParallelism
                ELSE c.parallelism
           A == IF c.max_attempts = 0 THEN 1 ELSE c.max_attempts
           B == IF c.sweep_batch_sectors = 0 THEN 1 ELSE c.sweep_batch_sectors
<1>4. P \in Worker /\ A \in Nat \ {0} /\ B \in Nat \ {0}
  BY <1>2, <1>3 DEF Worker
<1>5. from_args(c) = [c EXCEPT !.parallelism = P, !.max_attempts = A,
                               !.sweep_batch_sectors = B]
  BY <1>1 DEF from_args, Arguments, ConfigOf
<1> HIDE DEF P, A, B
<1> QED BY <1>1, <1>4, <1>5 DEF Arguments, Config, ConfigOf

\* What the operators on the record give.
LEMMA RecordOps ==
  ASSUME NEW p \in Progress, NEW s \in Sector, NEW f \in Phase
  PROVE  /\ mark_done(p, s) \in Progress
         /\ mark_done(p, s).done = p.done \cup {s}
         /\ mark_done(p, s).phases = p.phases
         /\ mark_done(p, s).status = p.status
         /\ \A t \in Sector : mark_done(p, s).attempts[t] \in {0, p.attempts[t]}
         /\ mark_failed(p, s) \in Progress
         /\ mark_failed(p, s).done = p.done
         /\ mark_failed(p, s).phases = p.phases
         /\ mark_failed(p, s).status = p.status
         /\ \A t \in Sector \ {s} :
              mark_failed(p, s).attempts[t] = p.attempts[t]
         /\ mark_phase(p, f) \in Progress
         /\ mark_phase(p, f).done = p.done
         /\ mark_phase(p, f).phases = p.phases \cup {f}
         /\ mark_phase(p, f).status = p.status
         /\ mark_phase(p, f).attempts = p.attempts
<1>1. /\ mark_done(p, s) \in Progress
      /\ mark_done(p, s).done = p.done \cup {s}
      /\ mark_done(p, s).phases = p.phases
      /\ mark_done(p, s).status = p.status
      /\ \A t \in Sector : mark_done(p, s).attempts[t] \in {0, p.attempts[t]}
  BY DEF mark_done, Progress
<1>2. /\ mark_failed(p, s) \in Progress
      /\ mark_failed(p, s).done = p.done
      /\ mark_failed(p, s).phases = p.phases
      /\ mark_failed(p, s).status = p.status
      /\ \A t \in Sector \ {s} : mark_failed(p, s).attempts[t] = p.attempts[t]
  BY DEF mark_failed, Progress
<1>3. /\ mark_phase(p, f) \in Progress
      /\ mark_phase(p, f).done = p.done
      /\ mark_phase(p, f).phases = p.phases \cup {f}
      /\ mark_phase(p, f).status = p.status
      /\ mark_phase(p, f).attempts = p.attempts
  BY DEF mark_phase, Progress
<1> QED BY <1>1, <1>2, <1>3

\* Setting the status leaves the rest.
LEMMA StatusOps ==
  ASSUME NEW p \in Progress,
         NEW x \in {"running", "paused", "completed", "failed"}
  PROVE  /\ [p EXCEPT !.status = x] \in Progress
         /\ [p EXCEPT !.status = x].done = p.done
         /\ [p EXCEPT !.status = x].phases = p.phases
         /\ [p EXCEPT !.status = x].attempts = p.attempts
         /\ [p EXCEPT !.status = x].status = x
BY DEF Progress

-----------------------------------------------------------------------------
(* The type invariant. *)

\* What a run starts from has its types.
LEMMA ResetType ==
  ASSUME NEW p \in Progress, Reset(p)
  PROVE  /\ progress' = p
         /\ budget' = 0 /\ late' = FALSE /\ stop' = FALSE
         /\ wave' = 0 /\ waves_processed' = 0
         /\ queue' = {} /\ gates' = "none" /\ saveFailed' = FALSE
         /\ pc' \in [Worker -> {"out"}]
         /\ job' \in [Worker -> Nat] /\ unit' \in [Worker -> Nat]
         /\ outcome' \in [Worker -> {"interrupted"}]
         /\ sweeps' \in [Axis -> Summary]
<1>1. NoSweep \in Summary
  BY DEF NoSweep, Summary
<1> QED BY <1>1 DEF Reset, NoJob

\* What the updates of a sweep summary give.
LEMMA SummaryOps ==
  ASSUME NEW x \in Summary, NEW A \in SUBSET Sector, NEW M \in SUBSET Sector,
         NEW b \in BOOLEAN
  PROVE  /\ [x EXCEPT !.dispatches = x.dispatches + 1,
                      !.audited = x.audited \cup A,
                      !.missed = x.missed \cup M] \in Summary
         /\ [x EXCEPT !.truncated = b] \in Summary
<1>1. [x EXCEPT !.dispatches = x.dispatches + 1] \in Summary
  BY DEF Summary
<1>2. ASSUME NEW y \in Summary
      PROVE  [y EXCEPT !.audited = x.audited \cup A] \in Summary
  BY DEF Summary
<1>3. ASSUME NEW y \in Summary
      PROVE  [y EXCEPT !.missed = x.missed \cup M] \in Summary
  BY DEF Summary
<1>4. [x EXCEPT !.truncated = b] \in Summary
  BY DEF Summary
<1> QED BY <1>1, <1>2, <1>3, <1>4

\* An audit, whether it succeeds or fails, adds its batch to what the axis tells
\* of.
LEMMA AuditEffect ==
  ASSUME TypeOK, NEW w \in Worker, job[w] \in Axis, Audit(w)
  PROVE  \E y \in Summary :
           /\ sweeps' = [sweeps EXCEPT ![job[w]] = y]
           /\ y.dispatches = sweeps[job[w]].dispatches + 1
           /\ Told(y) = Told(sweeps[job[w]]) \cup Batch(unit[w])
           /\ y.truncated = sweeps[job[w]].truncated
<1> DEFINE a == job[w]
           x == sweeps[a]
           U == Batch(unit[w])
<1>1. PICK ok \in BOOLEAN :
        sweeps' = [sweeps EXCEPT
                     ![a].dispatches = @ + 1,
                     ![a].audited = @ \cup (IF ok THEN U ELSE {}),
                     ![a].missed = @ \cup (U \ (IF ok THEN U ELSE {}))]
  BY DEF Audit
<1> DEFINE A == IF ok THEN U ELSE {}
           M == U \ A
           y == [x EXCEPT !.dispatches = x.dispatches + 1,
                          !.audited = x.audited \cup A,
                          !.missed = x.missed \cup M]
<1>2. x \in Summary
  BY DEF TypeOK
<1>3. U \subseteq Sector
  BY DEF Batch, TypeOK, Progress
<1>4. A \subseteq Sector /\ M \subseteq Sector /\ A \cup M = U
  BY <1>3
<1>5. sweeps' = [sweeps EXCEPT ![a] = y]
  BY <1>1 DEF TypeOK, Summary
<1> HIDE DEF a, x, U, A, M
<1>6. y \in Summary
  BY <1>2, <1>4, SummaryOps
<1>7. /\ y.dispatches = x.dispatches + 1 /\ y.truncated = x.truncated
      /\ y.audited = x.audited \cup A /\ y.missed = x.missed \cup M
  BY <1>2 DEF Summary
<1>8. Told(y) = Told(x) \cup U
  BY <1>4, <1>7 DEF Told
<1> HIDE DEF y
<1> QED BY <1>5, <1>6, <1>7, <1>8 DEF a, x, U

\* The end of a sweep sets a flag.
LEMMA EndSweepEffect ==
  ASSUME TypeOK, NEW w \in Worker, job[w] \in Axis, EndSweep(w)
  PROVE  \E b \in BOOLEAN :
           /\ sweeps' = [sweeps EXCEPT ![job[w]].truncated = b]
           /\ sweeps[job[w]].truncated => b
<1> DEFINE c == Cardinality(Batches) > sweeps[job[w]].dispatches
           b == sweeps[job[w]].truncated \/ c
<1>1. sweeps' = [sweeps EXCEPT ![job[w]].truncated = b]
  BY DEF EndSweep, TypeOK, Summary
<1>2. b \in BOOLEAN
  OBVIOUS
<1> HIDE DEF c
<1> QED BY <1>1, <1>2

\* The status a run ends with.
LEMMA FinalStatusType == FinalStatus \in {"paused", "completed", "failed"}
BY DEF FinalStatus

\* The initial state has its types.
LEMMA TypeInit == Init => TypeOK
<1> SUFFICES ASSUME Init PROVE TypeOK
  OBVIOUS
<1>1. Fresh \in Progress
  BY DEF Fresh, Progress
<1>2. NoSweep \in Summary
  BY DEF NoSweep, Summary
<1>3. cfg \in Config
  BY ArgumentsAreClamped DEF Init
<1> QED BY <1>1, <1>2, <1>3 DEF Init, TypeOK, NoJob

\* A worker's step keeps the types.
LEMMA TypeStep ==
  ASSUME TypeOK, Places, Hands, NEW w \in Worker, Step(w)
  PROVE  TypeOK'
<1>0. CASE Pull(w)
  <2>1. First(queue) \in Nat
    BY <1>0, FirstIsMember DEF Pull, TypeOK
  <2> QED BY <1>0, <2>1 DEF Pull, TypeOK
<1>1. CASE Leave(w) \/ BeginUnit(w) \/ BeginBatch(w)
  <2>1. /\ pc' = [pc EXCEPT ![w] = "out"] \/ pc' = [pc EXCEPT ![w] = "dispatch"]
           \/ pc' = [pc EXCEPT ![w] = "audit"]
        /\ UNCHANGED <<kept, limits, record, place, verdicts, job, unit, outcome>>
    BY <1>1 DEF Leave, BeginUnit, BeginBatch
  <2> QED BY <2>1 DEF TypeOK
<1>2. CASE Interrupt(w)
  BY <1>2 DEF Interrupt, TypeOK
<1>3. CASE Dispatch(w)
  <2>1. /\ job[w] \in Sector
        /\ unit[w] \in Nat
        /\ unit[w] - 1 \in Nat
        /\ unit[w] + 1 \in Nat
    BY <1>3, PlanAssumption DEF Dispatch, TypeOK, Hands, AtWork
  <2> QED BY <1>3, <2>1 DEF Dispatch, TypeOK
<1>4. CASE Checkpoint(w)
  BY <1>4 DEF Checkpoint, checkpoint, Save, TypeOK
<1>5. CASE Mark(w)
  <2>1. job[w] \in Sector
    BY <1>5 DEF Mark, Hands, AtWork
  <2>2. progress' \in Progress
    BY <1>5, <2>1, RecordOps DEF Mark, TypeOK, Phase
  <2> QED BY <1>5, <2>2 DEF Mark, TypeOK, NoJob
<1>6. CASE PullAxis(w)
  <2> DEFINE a == First(queue)
  <2>1. a \in Axis /\ a \in Nat
    <3>1. a \in queue
      BY <1>6, FirstIsMember DEF PullAxis, TypeOK
    <3>2. queue \subseteq Axis
      BY <1>6 DEF PullAxis, Places
    <3> QED BY <3>1, <3>2 DEF TypeOK
  <2>2. sweeps' \in [Axis -> Summary]
    <3>1. sweeps[a] \in Summary
      BY <2>1 DEF TypeOK
    <3>2. [sweeps[a] EXCEPT !.truncated = a \notin cfg.auditors] \in Summary
      <4> HIDE DEF a
      <4> QED BY <3>1 DEF Summary
    <3>3. sweeps' =
            [sweeps EXCEPT ![a] =
               [sweeps[a] EXCEPT !.truncated = a \notin cfg.auditors]]
      BY <1>6, <2>1 DEF PullAxis, TypeOK
    <3> HIDE DEF a
    <3> QED BY <2>1, <3>2, <3>3 DEF TypeOK
  <2> QED BY <1>6, <2>1, <2>2 DEF PullAxis, TypeOK
<1>7. CASE CutSweep(w)
  <2>1. job[w] \in Axis
    BY <1>7 DEF CutSweep, Places
  <2>2. sweeps[job[w]] \in Summary
    BY <2>1 DEF TypeOK
  <2>3. [sweeps[job[w]] EXCEPT !.truncated = TRUE] \in Summary
    BY <2>2 DEF Summary
  <2>4. sweeps' =
          [sweeps EXCEPT ![job[w]] =
             [sweeps[job[w]] EXCEPT !.truncated = TRUE]]
    BY <1>7, <2>1 DEF CutSweep, TypeOK
  <2>5. sweeps' \in [Axis -> Summary]
    BY <2>1, <2>3, <2>4 DEF TypeOK
  <2>6. stop' \in BOOLEAN
    BY <1>7 DEF CutSweep, TypeOK
  <2> QED BY <1>7, <2>5, <2>6 DEF CutSweep, TypeOK
<1>8. CASE Audit(w)
  <2>1. job[w] \in Axis
    BY <1>8 DEF Audit, Places
  <2>6. sweeps' \in [Axis -> Summary]
    <3>1. PICK y \in Summary : sweeps' = [sweeps EXCEPT ![job[w]] = y]
      BY <1>8, <2>1, AuditEffect
    <3> QED BY <2>1, <3>1 DEF TypeOK
  <2> QED BY <1>8, <2>6 DEF Audit, TypeOK
<1>9. CASE EndSweep(w)
  <2>1. job[w] \in Axis
    BY <1>9 DEF EndSweep, Places
  <2>2. \E b \in BOOLEAN : sweeps' = [sweeps EXCEPT ![job[w]].truncated = b]
    BY <1>9, <2>1, EndSweepEffect
  <2>3. PICK b \in BOOLEAN : sweeps' = [sweeps EXCEPT ![job[w]].truncated = b]
    BY <2>2
  <2>4. sweeps[job[w]] \in Summary
    BY <2>1 DEF TypeOK
  <2>5. sweeps' =
          [sweeps EXCEPT ![job[w]] = [sweeps[job[w]] EXCEPT !.truncated = b]]
    BY <2>1, <2>3 DEF TypeOK
  <2>6. [sweeps[job[w]] EXCEPT !.truncated = b] \in Summary
    BY <2>4, SummaryOps
  <2>7. sweeps' \in [Axis -> Summary]
    BY <2>1, <2>5, <2>6 DEF TypeOK
  <2> QED BY <1>9, <2>7 DEF EndSweep, TypeOK
<1> QED BY <1>0, <1>1, <1>2, <1>3, <1>4, <1>5, <1>6, <1>7, <1>8, <1>9 DEF Step

\* What a phase leaves in the record.
LEMMA PhaseEffect ==
  ASSUME TypeOK, NEW f \in Phase, NEW ok \in BOOLEAN, run_phase(f, ok)
  PROVE  /\ progress' \in Progress
         /\ budget' = budget + 1
         /\ progress'.done = progress.done
         /\ progress'.attempts = progress.attempts
         /\ progress'.status = progress.status
         /\ progress.phases \subseteq progress'.phases
<1>0. progress \in Progress
  BY DEF TypeOK
<1>1. /\ mark_phase(progress, f) \in Progress
      /\ mark_phase(progress, f).done = progress.done
      /\ mark_phase(progress, f).phases = progress.phases \cup {f}
      /\ mark_phase(progress, f).status = progress.status
      /\ mark_phase(progress, f).attempts = progress.attempts
  BY <1>0 DEF mark_phase, Progress
<1> QED BY <1>0, <1>1 DEF run_phase

\* The phases between waves and sweeps: what they share.
PhaseStep ==
  /\ progress' \in Progress
  /\ budget' \in {budget, budget + 1}
  /\ progress'.done = progress.done
  /\ progress'.attempts = progress.attempts
  /\ progress'.status = progress.status
  /\ progress.phases \subseteq progress'.phases
  /\ UNCHANGED <<workers, disk, written, faulted, faults, cfg, late, stop,
                 loop, queue, saveFailed, reported, sweeps>>

\* What the design phase may change.
LEMMA DesignPhase ==
  ASSUME TypeOK, Design
  PROVE  PhaseStep /\ stage' \in {"waves", "gates"} /\ gates' = gates
<1>1. CASE \E ok \in BOOLEAN : run_phase("design", ok)
  <2>1. PICK ok \in BOOLEAN : run_phase("design", ok)
    BY <1>1
  <2>2. "design" \in Phase
    BY DEF Phase
  <2>3. /\ progress' \in Progress
        /\ budget' = budget + 1
        /\ progress'.done = progress.done
        /\ progress'.attempts = progress.attempts
        /\ progress'.status = progress.status
        /\ progress.phases \subseteq progress'.phases
    BY <2>1, <2>2, PhaseEffect
  <2> QED BY <2>3 DEF Design, PhaseStep
<1>2. CASE UNCHANGED <<budget, progress, conventions>>
  BY <1>2 DEF Design, PhaseStep, TypeOK
<1> QED BY <1>1, <1>2 DEF Design

\* What the remediation phase may change.
LEMMA RemediationPhase ==
  ASSUME TypeOK, Remediation
  PROVE  /\ PhaseStep /\ stage' = "parity"
         /\ gates' \in {"none", "green", "blocked"}
         /\ conventions' = conventions
<1>0. gates' \in {"none", "green", "blocked"}
  BY DEF Remediation, TypeOK
<1>1. CASE \E ok \in BOOLEAN : run_phase("remediation", ok)
  <2>1. PICK ok \in BOOLEAN : run_phase("remediation", ok)
    BY <1>1
  <2>2. "remediation" \in Phase
    BY DEF Phase
  <2>3. /\ progress' \in Progress
        /\ budget' = budget + 1
        /\ progress'.done = progress.done
        /\ progress'.attempts = progress.attempts
        /\ progress'.status = progress.status
        /\ progress.phases \subseteq progress'.phases
    BY <2>1, <2>2, PhaseEffect
  <2> QED BY <1>0, <2>3 DEF Remediation, PhaseStep
<1>2. CASE UNCHANGED <<budget, progress, gates>>
  BY <1>0, <1>2 DEF Remediation, PhaseStep, TypeOK
<1> QED BY <1>1, <1>2 DEF Remediation

\* What the parity review and the documentation may change.
LEMMA ClosingPhase ==
  ASSUME TypeOK, Parity \/ Documentation
  PROVE  /\ PhaseStep /\ stage' \in {"documentation", "final"}
         /\ UNCHANGED <<gates, conventions>>
<1>1. PICK f \in Phase, seat \in Seat, wanted \in BOOLEAN,
           next \in {"documentation", "final"} : Closing(f, seat, wanted, next)
  <2>1. CASE Parity
    BY <2>1 DEF Parity, Phase, Seat
  <2>2. CASE Documentation
    <3>1. Closing("documentation", "docs", cfg.run_documentation, "final")
      BY <2>2 DEF Documentation
    <3>2. cfg.run_documentation \in BOOLEAN
      BY DEF TypeOK, Config, ConfigOf
    <3> QED BY <3>1, <3>2 DEF Phase, Seat
  <2> QED BY <2>1, <2>2
<1>2. CASE \E ok \in BOOLEAN : run_phase(f, ok)
  <2>1. PICK ok \in BOOLEAN : run_phase(f, ok)
    BY <1>2
  <2>2. /\ progress' \in Progress
        /\ budget' = budget + 1
        /\ progress'.done = progress.done
        /\ progress'.attempts = progress.attempts
        /\ progress'.status = progress.status
        /\ progress.phases \subseteq progress'.phases
    BY <2>1, PhaseEffect
  <2> QED BY <1>1, <2>2 DEF Closing, PhaseStep
<1>3. CASE UNCHANGED <<budget, progress>>
  BY <1>1, <1>3 DEF Closing, PhaseStep, TypeOK
<1> QED BY <1>1, <1>2, <1>3 DEF Closing

\* A step of run_mission keeps the types.
LEMMA TypeMain ==
  ASSUME TypeOK, Main
  PROVE  TypeOK'
<1>1. CASE Design
  <2>1. PhaseStep /\ stage' \in {"waves", "gates"} /\ gates' = gates
    BY <1>1, DesignPhase
  <2>2. conventions' \in BOOLEAN
    BY <1>1 DEF Design, TypeOK
  <2> QED BY <2>1, <2>2 DEF PhaseStep, TypeOK
<1>2. CASE LeaveWaves \/ SkipWave
  <2>1. CASE LeaveWaves
    <3>1. stop' \in BOOLEAN
      BY <2>1 DEF LeaveWaves
    <3> QED BY <2>1, <3>1 DEF LeaveWaves, TypeOK
  <2>2. CASE SkipWave
    BY <2>2 DEF SkipWave, TypeOK
  <2> QED BY <1>2, <2>1, <2>2
<1>3. CASE StartWave
  <2>1. Waves[wave + 1] \subseteq Sector
    BY <1>3, PlanAssumption DEF StartWave, WavesOver
  <2>2. queue' \in SUBSET Nat
    BY <1>3, <2>1 DEF StartWave, Pending, Sector
  <2>3. pc' \in [Worker -> {"pull", "out"}]
    BY <1>3 DEF StartWave
  <2> QED BY <1>3, <2>2, <2>3 DEF StartWave, TypeOK
<1>4. CASE EndWave
  BY <1>4 DEF EndWave, checkpoint, Save, TypeOK
<1>5. CASE Gates
  <2>1. gates' \in {"none", "green", "blocked"}
    BY <1>5 DEF Gates, TypeOK
  <2> QED BY <1>5, <2>1 DEF Gates, TypeOK
<1>6. CASE StartSweeps
  <2>1. /\ stage' \in {"sweeping", "remediation"}
        /\ queue' \in {Axis, {}}
        /\ pc' \in [Worker -> {"axis", "out"}]
    BY <1>6 DEF StartSweeps
  <2>2. queue' \in SUBSET Nat
    BY <2>1, PlanAssumption DEF Axis
  <2> QED BY <1>6, <2>1, <2>2 DEF StartSweeps, TypeOK
<1>7. CASE EndSweeps
  BY <1>7 DEF EndSweeps, TypeOK
<1>8. CASE Remediation
  <2>1. /\ PhaseStep /\ stage' = "parity"
        /\ gates' \in {"none", "green", "blocked"}
        /\ conventions' = conventions
    BY <1>8, RemediationPhase
  <2> QED BY <2>1 DEF PhaseStep, TypeOK
<1>9. CASE Parity \/ Documentation
  <2>1. /\ PhaseStep /\ stage' \in {"documentation", "final"}
        /\ UNCHANGED <<gates, conventions>>
    BY <1>9, ClosingPhase
  <2> QED BY <2>1 DEF PhaseStep, TypeOK
<1>10. CASE Finish
  <2>1. disk' \in Progress
    <3>1. progress \in Progress /\ disk \in Progress
      BY DEF TypeOK
    <3>2. [progress EXCEPT !.status = FinalStatus] \in Progress
      BY <3>1, FinalStatusType, StatusOps
    <3> QED BY <1>10, <3>1, <3>2 DEF Finish, Save
  <2>2. Reset(disk') /\ reported' \in {FinalStatus, "none"} /\ stage' = "idle"
        /\ UNCHANGED <<conventions, written, faulted, cfg>>
    BY <1>10 DEF Finish
  <2>3. reported' \in {"none", "paused", "completed", "failed"}
    BY <2>2, FinalStatusType
  <2>4. faults' \in Nat
    BY <1>10 DEF Finish, Save, TypeOK
  <2> QED BY <2>1, <2>2, <2>3, <2>4 DEF Reset, NoJob, NoSweep, Summary, TypeOK
<1> QED BY <1>1, <1>2, <1>3, <1>4, <1>5, <1>6, <1>7, <1>8, <1>9, <1>10 DEF Main

\* A run begins, or ends by a kill.
LEMMA RestartEffect ==
  ASSUME TypeOK, Start \/ Crash
  PROVE  /\ TypeOK'
         /\ disk' = disk
         /\ UNCHANGED <<written, faulted, conventions>>
         /\ pc' \in [Worker -> {"out"}]
         /\ budget' = 0
         /\ queue' = {}
         /\ progress'.done = disk.done
         /\ progress'.phases = disk.phases
         /\ progress'.attempts = disk.attempts
         /\ progress'.status = "completed" => disk.status = "completed"
         /\ saveFailed' = FALSE
<1>0. disk \in Progress
  BY DEF TypeOK
<1>1. CASE Start
  <2>1. /\ [disk EXCEPT !.status = "running"] \in Progress
        /\ [disk EXCEPT !.status = "running"].done = disk.done
        /\ [disk EXCEPT !.status = "running"].phases = disk.phases
        /\ [disk EXCEPT !.status = "running"].attempts = disk.attempts
        /\ [disk EXCEPT !.status = "running"].status = "running"
    BY <1>0, StatusOps
  <2>2. cfg' \in Config
    BY <1>1, ArgumentsAreClamped DEF Start
  <2> DEFINE p == [disk EXCEPT !.status = "running"]
  <2>3. p \in Progress /\ Reset(p)
    BY <1>1, <2>1 DEF Start
  <2>4. /\ progress' = p
        /\ budget' = 0 /\ late' = FALSE /\ stop' = FALSE
        /\ wave' = 0 /\ waves_processed' = 0
        /\ queue' = {} /\ gates' = "none" /\ saveFailed' = FALSE
        /\ pc' \in [Worker -> {"out"}]
        /\ job' \in [Worker -> Nat] /\ unit' \in [Worker -> Nat]
        /\ outcome' \in [Worker -> {"interrupted"}]
        /\ sweeps' \in [Axis -> Summary]
    <3> HIDE DEF p
    <3> QED BY <2>3, ResetType
  <2>5. /\ p.done = disk.done /\ p.phases = disk.phases
        /\ p.attempts = disk.attempts /\ p.status = "running"
    BY <2>1
  <2>6. /\ stage' = "design" /\ reported' = "none"
        /\ UNCHANGED <<disk, conventions, written, faulted, faults>>
    BY <1>1 DEF Start
  <2> HIDE DEF p
  <2>7. TypeOK'
    BY <2>2, <2>3, <2>4, <2>6 DEF TypeOK
  <2> QED BY <2>4, <2>5, <2>6, <2>7
<1>2. CASE Crash
  <2>1. /\ progress' = disk
        /\ budget' = 0 /\ late' = FALSE /\ stop' = FALSE
        /\ wave' = 0 /\ waves_processed' = 0
        /\ queue' = {} /\ gates' = "none" /\ saveFailed' = FALSE
        /\ pc' \in [Worker -> {"out"}]
        /\ job' \in [Worker -> Nat] /\ unit' \in [Worker -> Nat]
        /\ outcome' \in [Worker -> {"interrupted"}]
        /\ sweeps' \in [Axis -> Summary]
    BY <1>0, <1>2, ResetType DEF Crash
  <2>2. TypeOK'
    <3>1. faults' \in Nat /\ stage' = "idle"
      BY <1>2 DEF Crash, TypeOK
    <3>2. UNCHANGED <<disk, conventions, written, faulted, cfg, reported>>
      BY <1>2 DEF Crash
    <3>3. progress' \in Progress
      BY <1>0, <2>1
    <3>4. late' \in BOOLEAN /\ stop' \in BOOLEAN /\ saveFailed' \in BOOLEAN
      BY <2>1
    <3>5. /\ budget' \in Nat /\ wave' \in Nat /\ waves_processed' \in Nat
          /\ queue' \in SUBSET Nat
          /\ gates' \in {"none", "green", "blocked"}
          /\ pc' \in [Worker -> {"out"}]
          /\ outcome' \in [Worker -> {"interrupted"}]
          /\ job' \in [Worker -> Nat] /\ unit' \in [Worker -> Nat]
          /\ sweeps' \in [Axis -> Summary]
      BY <2>1
    <3> QED BY <3>1, <3>2, <3>3, <3>4, <3>5 DEF TypeOK
  <2> QED BY <1>2, <2>1, <2>2 DEF Crash
<1> QED BY <1>1, <1>2

\* Every step keeps the types.
LEMMA TypeNext ==
  ASSUME TypeOK, Places, Hands, [Next]_vars
  PROVE  TypeOK'
<1>1. CASE Main
  BY <1>1, TypeMain
<1>2. CASE Start \/ Crash
  BY <1>2, RestartEffect
<1>3. CASE WallClock \/ UNCHANGED vars
  <2>1. CASE WallClock
    <3>1. /\ late' \in BOOLEAN
          /\ UNCHANGED <<kept, workers, place, record, verdicts, budget, stop>>
      BY <2>1 DEF WallClock
    <3> QED BY <3>1 DEF TypeOK
  <2>2. CASE UNCHANGED vars
    BY <2>2 DEF TypeOK, vars
  <2> QED BY <1>3, <2>1, <2>2
<1>4. CASE \E w \in Worker : Step(w)
  BY <1>4, TypeStep
<1> QED BY <1>1, <1>2, <1>3, <1>4 DEF Next

-----------------------------------------------------------------------------
(* Who works on what. *)

\* The main thread's steps leave no worker at work.
LEMMA MainPlaces ==
  ASSUME TypeOK, Places, Main
  PROVE  /\ Places'
         /\ \A w \in Worker : ~AtWork(w)'
<1>0. cfg.parallelism \in Nat
  BY ConfigFields DEF TypeOK
<1>1. CASE Design \/ Remediation \/ Parity \/ Documentation
  <2>1. /\ PhaseStep
        /\ stage' \notin {"idle", "porting", "sweeping"}
    BY <1>1, DesignPhase, RemediationPhase, ClosingPhase
  <2>2. stage \notin {"idle", "porting", "sweeping"}
    BY <1>1 DEF Design, Remediation, Parity, Documentation, Closing
  <2> QED BY <2>1, <2>2 DEF PhaseStep, Places, AtWork
<1>2. CASE LeaveWaves \/ SkipWave \/ Gates
  BY <1>2 DEF LeaveWaves, SkipWave, Gates, Places, AtWork
<1>3. CASE StartWave
  <2>1. Waves[wave + 1] \subseteq Sector
    BY <1>3, PlanAssumption DEF StartWave, WavesOver
  <2>2. queue' \subseteq Sector \ progress'.done
    BY <1>3, <2>1 DEF StartWave, Pending
  <2>3. \A w \in Worker : pc'[w] \in {"pull", "out"}
    BY <1>3 DEF StartWave
  <2>4. \A w \in Worker : pc'[w] # "out" => w <= cfg'.parallelism
    BY <1>3 DEF StartWave
  <2>5. stage' = "porting" /\ reported' = "none"
    BY <1>3 DEF StartWave, Places
  <2> QED BY <2>2, <2>3, <2>4, <2>5 DEF Places, AtWork
<1>4. CASE EndWave \/ EndSweeps
  BY <1>4 DEF EndWave, EndSweeps, Places, AtWork
<1>5. CASE StartSweeps
  <2>1. /\ stage' \in {"sweeping", "remediation"}
        /\ stage' = "remediation" => pc' = [w \in Worker |-> "out"]
        /\ queue' \subseteq Axis
        /\ \A w \in Worker : pc'[w] \in {"axis", "out"}
        /\ \A w \in Worker : pc'[w] # "out" => w <= cfg'.parallelism
        /\ reported' = "none"
    BY <1>5 DEF StartSweeps, Places
  <2> QED BY <2>1 DEF Places, AtWork
<1>6. CASE Finish
  <2>1. stage' = "idle" /\ pc' = [w \in Worker |-> "out"]
    BY <1>6 DEF Finish, Reset
  <2> QED BY <2>1 DEF Places, AtWork
<1> QED BY <1>1, <1>2, <1>3, <1>4, <1>5, <1>6 DEF Main

\* A worker's step keeps Places.
LEMMA StepPlaces ==
  ASSUME TypeOK, Places, Hands, NEW w \in Worker, Step(w)
  PROVE  Places'
<1>1. CASE Pull(w)
  <2>1. First(queue) \in queue
    BY <1>1, FirstIsMember DEF Pull, TypeOK
  <2> QED BY <1>1, <2>1 DEF Pull, Places, AtWork, TypeOK
<1>2. CASE Leave(w)
  BY <1>2 DEF Leave, Places, AtWork, TypeOK
<1>3. CASE BeginUnit(w) \/ BeginBatch(w) \/ EndSweep(w)
  BY <1>3 DEF BeginUnit, BeginBatch, EndSweep, Places, AtWork, TypeOK
<1>4. CASE Interrupt(w)
  BY <1>4 DEF Interrupt, Places, AtWork, TypeOK
<1>5. CASE Dispatch(w)
  <2>1. /\ UNCHANGED <<stage, queue, progress, cfg, job, reported>>
        /\ \/ pc' = [pc EXCEPT ![w] = "unit"]
           \/ pc' = [pc EXCEPT ![w] = "checkpoint"]
        /\ pc[w] = "dispatch"
    BY <1>5 DEF Dispatch
  <2> QED BY <2>1 DEF Places, AtWork, TypeOK
<1>6. CASE Checkpoint(w)
  BY <1>6 DEF Checkpoint, Places, AtWork, TypeOK
<1>7. CASE Mark(w)
  <2>1. job[w] \in Sector /\ job[w] \notin queue
    BY <1>7 DEF Mark, Hands, AtWork
  <2>2. progress'.done \subseteq progress.done \cup {job[w]}
    BY <1>7, <2>1, RecordOps DEF Mark, TypeOK, Phase
  <2>3. /\ UNCHANGED <<stage, queue, cfg, reported>>
        /\ pc' = [pc EXCEPT ![w] = "pull"]
        /\ job' = [job EXCEPT ![w] = NoJob]
        /\ pc[w] = "mark"
    BY <1>7 DEF Mark
  <2> QED BY <2>1, <2>2, <2>3 DEF Places, AtWork, TypeOK
<1>8. CASE PullAxis(w)
  <2> DEFINE a == First(queue)
  <2>1. a \in Axis
    <3>1. a \in queue
      BY <1>8, FirstIsMember DEF PullAxis, TypeOK
    <3> QED BY <1>8, <3>1 DEF PullAxis, Places
  <2>2. /\ UNCHANGED <<stage, cfg, reported, progress>>
        /\ \/ pc' = [pc EXCEPT ![w] = "batch"]
           \/ pc' = [pc EXCEPT ![w] = "axis"]
        /\ job' = [job EXCEPT ![w] = a]
        /\ queue' \subseteq queue
        /\ pc[w] = "axis"
    BY <1>8 DEF PullAxis
  <2> HIDE DEF a
  <2> QED BY <2>1, <2>2 DEF Places, AtWork, TypeOK
<1>9. CASE CutSweep(w) \/ Audit(w)
  <2>1. /\ UNCHANGED <<stage, queue, progress, cfg, job, reported>>
        /\ \/ pc' = [pc EXCEPT ![w] = "axis"]
           \/ pc' = [pc EXCEPT ![w] = "batch"]
        /\ pc[w] \in {"batch", "audit"}
    BY <1>9 DEF CutSweep, Audit
  <2> QED BY <2>1 DEF Places, AtWork, TypeOK
<1> QED BY <1>1, <1>2, <1>3, <1>4, <1>5, <1>6, <1>7, <1>8, <1>9 DEF Step

\* Steps of the main thread, starts and kills find or leave no worker at work.
LEMMA HandsElsewhere ==
  ASSUME \A w \in Worker : ~AtWork(w)'
  PROVE  Hands'
BY DEF Hands

\* What a step of worker w leaves of the other workers' sectors.
Apart(w) ==
  /\ \A v \in Worker \ {w} :
       /\ pc'[v] = pc[v]
       /\ job'[v] = job[v]
       /\ unit'[v] = unit[v]
       /\ outcome'[v] = outcome[v]
       /\ AtWork(v) => written'[job[v]] = written[job[v]]
  /\ faulted \subseteq faulted'
  /\ UNCHANGED cfg

\* A step that keeps the worker's sector, or leaves it without one.
LEMMA SameJob ==
  ASSUME Hands, NEW w \in Worker, Apart(w),
         queue' \subseteq queue,
         AtWork(w)' => AtWork(w) /\ job'[w] = job[w],
         progress'.done \subseteq progress.done,
         AtWork(w)' => unit'[w] \in 1..Units[job'[w]] /\ Work(w)'
  PROVE  Hands'
<1> SUFFICES ASSUME NEW v \in Worker, AtWork(v)'
             PROVE  /\ job'[v] \in Sector
                    /\ job'[v] \notin queue'
                    /\ job'[v] \notin progress'.done
                    /\ unit'[v] \in 1..Units[job'[v]]
                    /\ \A u \in Worker :
                         AtWork(u)' /\ u # v => job'[u] # job'[v]
                    /\ Work(v)'
  BY DEF Hands
<1>1. \A u \in Worker : AtWork(u)' => AtWork(u) /\ job'[u] = job[u]
  BY DEF Apart, AtWork
<1>2. /\ job'[v] \in Sector
      /\ job'[v] \notin queue'
      /\ job'[v] \notin progress'.done
      /\ \A u \in Worker : AtWork(u)' /\ u # v => job'[u] # job'[v]
  BY <1>1 DEF Hands
<1>3. CASE v = w
  BY <1>2, <1>3
<1>4. CASE v # w
  <2>1. AtWork(v) /\ Work(v) /\ unit[v] \in 1..Units[job[v]]
    BY <1>1 DEF Hands
  <2>2. /\ pc'[v] = pc[v] /\ job'[v] = job[v] /\ unit'[v] = unit[v]
        /\ outcome'[v] = outcome[v] /\ written'[job[v]] = written[job[v]]
        /\ faulted \subseteq faulted' /\ cfg' = cfg
    BY <1>4, <2>1 DEF Apart
  <2>3. Work(v)'
    BY <2>1, <2>2 DEF Work
  <2> QED BY <1>2, <2>1, <2>2, <2>3
<1> QED BY <1>3, <1>4

\* A worker's step keeps Hands.
LEMMA StepHands ==
  ASSUME TypeOK, Places, Hands, NEW w \in Worker, Step(w)
  PROVE  Hands'
<1>1. CASE Pull(w)
  <2> DEFINE s == First(queue)
  <2>1. s \in queue /\ s \in Sector /\ s \notin progress.done
    <3>1. s \in queue
      BY <1>1, FirstIsMember DEF Pull, TypeOK
    <3> QED BY <1>1, <3>1 DEF Pull, Places
  <2>2. /\ job' = [job EXCEPT ![w] = s]
        /\ queue' = queue \ {s}
        /\ unit' = [unit EXCEPT ![w] = 1]
        /\ outcome' = [outcome EXCEPT ![w] = "done"]
        /\ pc' = [pc EXCEPT ![w] = "unit"]
        /\ pc[w] = "pull"
        /\ UNCHANGED <<progress, written, faulted, cfg>>
    BY <1>1 DEF Pull
  <2> HIDE DEF s
  <2>3. /\ pc'[w] = "unit" /\ job'[w] = s /\ unit'[w] = 1
        /\ outcome'[w] = "done"
    BY <2>2 DEF TypeOK
  <2>4. \A v \in Worker \ {w} :
          /\ pc'[v] = pc[v] /\ job'[v] = job[v]
          /\ unit'[v] = unit[v] /\ outcome'[v] = outcome[v]
    BY <2>2 DEF TypeOK
  <2>5. Units[s] \in Nat \ {0}
    BY <2>1, PlanAssumption
  <2>6. \A v \in Worker \ {w} : AtWork(v) => job[v] # s
    BY <2>1 DEF Hands
  <2> SUFFICES ASSUME NEW v \in Worker, AtWork(v)'
               PROVE  /\ job'[v] \in Sector
                      /\ job'[v] \notin queue'
                      /\ job'[v] \notin progress'.done
                      /\ unit'[v] \in 1..Units[job'[v]]
                      /\ \A u \in Worker :
                           AtWork(u)' /\ u # v => job'[u] # job'[v]
                      /\ Work(v)'
    BY DEF Hands
  <2>7. CASE v = w
    <3>1. Work(w)'
      BY <2>2, <2>3 DEF Work
    <3>2. \A u \in Worker : AtWork(u)' /\ u # w => job'[u] # s
      BY <2>4, <2>6 DEF AtWork
    <3> QED BY <2>1, <2>2, <2>3, <2>5, <2>7, <3>1, <3>2
  <2>8. CASE v # w
    <3>1. AtWork(v)
      BY <2>4, <2>8 DEF AtWork
    <3>2. /\ job[v] \in Sector /\ job[v] \notin queue
          /\ job[v] \notin progress.done
          /\ unit[v] \in 1..Units[job[v]]
          /\ Work(v)
          /\ \A u \in Worker : AtWork(u) /\ u # v => job[u] # job[v]
      BY <3>1 DEF Hands
    <3>3. Work(v)'
      BY <2>2, <2>4, <2>8, <3>2 DEF Work
    <3>4. \A u \in Worker : AtWork(u)' /\ u # v => job'[u] # job'[v]
      BY <2>3, <2>4, <2>6, <2>8, <3>1, <3>2 DEF AtWork
    <3> QED BY <2>2, <2>4, <2>8, <3>2, <3>3, <3>4
  <2> QED BY <2>7, <2>8
<1>2. CASE Leave(w) \/ BeginUnit(w) \/ BeginBatch(w) \/ EndSweep(w)
  <2>1. /\ UNCHANGED <<queue, progress, cfg, job, unit, outcome, written,
                       faulted>>
        /\ \E x \in {"out", "dispatch", "audit", "axis"} :
             pc' = [pc EXCEPT ![w] = x]
        /\ pc'[w] = "dispatch" => pc[w] = "unit"
    BY <1>2 DEF Leave, BeginUnit, BeginBatch, EndSweep, TypeOK
  <2>2. Apart(w) /\ pc'[w] \in {"out", "dispatch", "audit", "axis"}
    BY <2>1 DEF Apart, TypeOK
  <2>3. AtWork(w)' => pc[w] = "unit" /\ pc'[w] = "dispatch"
    BY <2>1, <2>2 DEF AtWork
  <2>4. AtWork(w)' => AtWork(w) /\ Work(w)'
    BY <2>1, <2>3 DEF Hands, Work, AtWork
  <2> QED BY <2>1, <2>2, <2>4, SameJob DEF Hands
<1>3. CASE Interrupt(w)
  <2>1. /\ UNCHANGED <<queue, progress, cfg, job, unit, written, faulted>>
        /\ pc' = [pc EXCEPT ![w] = "checkpoint"]
        /\ outcome' = [outcome EXCEPT ![w] = "interrupted"]
        /\ pc[w] = "unit"
    BY <1>3 DEF Interrupt
  <2>2. /\ Apart(w) /\ AtWork(w)
        /\ pc'[w] = "checkpoint" /\ outcome'[w] = "interrupted"
    BY <2>1 DEF Apart, TypeOK, AtWork
  <2>3. Work(w)'
    BY <2>1, <2>2 DEF Hands, Work
  <2> QED BY <2>1, <2>2, <2>3, SameJob DEF Hands
<1>4. CASE Dispatch(w)
  <2>0. pc[w] = "dispatch" /\ AtWork(w)
    BY <1>4 DEF Dispatch, AtWork
  <2>1. /\ job[w] \in Sector /\ unit[w] \in 1..Units[job[w]]
        /\ Units[job[w]] \in Nat /\ Work(w)
        /\ \A v \in Worker \ {w} : AtWork(v) => job[v] # job[w]
    BY <2>0, PlanAssumption DEF Hands
  <2>2. PICK ok \in BOOLEAN :
          LET last == unit[w] = Units[job[w]] IN
          /\ written' = IF cfg.dry_run THEN written
                        ELSE [written EXCEPT ![job[w]] =
                                 IF ok THEN unit[w] ELSE unit[w] - 1]
          /\ outcome' = [outcome EXCEPT ![w] = IF ok THEN @ ELSE "failed"]
          /\ unit' = [unit EXCEPT ![w] = IF ok /\ ~last THEN @ + 1 ELSE @]
          /\ pc' = [pc EXCEPT ![w] = IF ok /\ ~last THEN "unit"
                                     ELSE "checkpoint"]
          /\ faulted' = IF ok THEN faulted ELSE faulted \cup {job[w]}
    BY <1>4 DEF Dispatch
  <2>3. UNCHANGED <<queue, progress, cfg, job>>
    BY <1>4 DEF Dispatch
  <2>4. Apart(w)
    BY <2>1, <2>2, <2>3 DEF Apart, TypeOK
  <2>5. cfg.dry_run \in BOOLEAN
    BY ConfigFields DEF TypeOK
  <2>6. unit'[w] \in 1..Units[job'[w]] /\ Work(w)'
    <3>1. CASE ok = TRUE /\ unit[w] # Units[job[w]]
      <4>1. /\ pc'[w] = "unit" /\ unit'[w] = unit[w] + 1
            /\ outcome'[w] = outcome[w]
            /\ ~cfg.dry_run => written'[job[w]] = unit[w]
        BY <2>1, <2>2, <3>1 DEF TypeOK
      <4>2. outcome[w] = "done"
        BY <2>0, <2>1 DEF Work
      <4> QED BY <2>1, <2>3, <3>1, <4>1, <4>2 DEF Work
    <3>2. CASE ok = TRUE /\ unit[w] = Units[job[w]]
      <4>1. /\ pc'[w] = "checkpoint" /\ unit'[w] = unit[w]
            /\ outcome'[w] = outcome[w]
            /\ ~cfg.dry_run => written'[job[w]] = unit[w]
        BY <2>1, <2>2, <3>2 DEF TypeOK
      <4>2. outcome[w] = "done"
        BY <2>0, <2>1 DEF Work
      <4> QED BY <2>1, <2>3, <3>2, <4>1, <4>2 DEF Work
    <3>3. CASE ok = FALSE
      <4>1. /\ pc'[w] = "checkpoint" /\ unit'[w] = unit[w]
            /\ outcome'[w] = "failed" /\ job[w] \in faulted'
            /\ ~cfg.dry_run => written'[job[w]] = unit[w] - 1
        BY <2>1, <2>2, <3>3 DEF TypeOK
      <4> QED BY <2>1, <2>3, <4>1 DEF Work
    <3>4. ok = TRUE \/ ok = FALSE
      OBVIOUS
    <3> QED BY <3>1, <3>2, <3>3, <3>4
  <2> QED BY <2>0, <2>3, <2>4, <2>6, SameJob
<1>5. CASE Checkpoint(w)
  <2>1. /\ UNCHANGED <<queue, progress, cfg, job, unit, outcome, written,
                       faulted>>
        /\ pc' = [pc EXCEPT ![w] = "mark"]
        /\ pc[w] = "checkpoint"
    BY <1>5 DEF Checkpoint
  <2>2. Apart(w) /\ AtWork(w) /\ pc'[w] = "mark"
    BY <2>1 DEF Apart, TypeOK, AtWork
  <2>3. Work(w)'
    BY <2>1, <2>2 DEF Hands, Work
  <2> QED BY <2>1, <2>2, <2>3, SameJob DEF Hands
<1>6. CASE Mark(w)
  <2>0. AtWork(w) /\ job[w] \in Sector
    BY <1>6 DEF Mark, AtWork, Hands
  <2>1. /\ UNCHANGED <<queue, cfg, unit, outcome, written, faulted>>
        /\ pc' = [pc EXCEPT ![w] = "pull"]
        /\ job' = [job EXCEPT ![w] = NoJob]
    BY <1>6 DEF Mark
  <2>2. progress'.done \subseteq progress.done \cup {job[w]}
    BY <1>6, <2>0, RecordOps DEF Mark, TypeOK, Phase
  <2> SUFFICES ASSUME NEW v \in Worker, AtWork(v)'
               PROVE  /\ job'[v] \in Sector
                      /\ job'[v] \notin queue'
                      /\ job'[v] \notin progress'.done
                      /\ unit'[v] \in 1..Units[job'[v]]
                      /\ \A u \in Worker :
                           AtWork(u)' /\ u # v => job'[u] # job'[v]
                      /\ Work(v)'
    BY DEF Hands
  <2>3. v # w
    BY <2>1 DEF AtWork, TypeOK
  <2>4. \A u \in Worker : AtWork(u)' => u # w /\ AtWork(u) /\ job'[u] = job[u]
    BY <2>1 DEF AtWork, TypeOK
  <2>5. /\ job[v] \in Sector /\ job[v] \notin queue
        /\ job[v] \notin progress.done /\ job[v] # job[w]
        /\ unit[v] \in 1..Units[job[v]]
        /\ Work(v)
        /\ \A u \in Worker : AtWork(u) /\ u # v => job[u] # job[v]
    BY <2>0, <2>3, <2>4 DEF Hands
  <2>6. pc'[v] = pc[v] /\ job'[v] = job[v]
    BY <2>1, <2>3 DEF TypeOK
  <2>7. Work(v)'
    BY <2>1, <2>5, <2>6 DEF Work
  <2> QED BY <2>1, <2>2, <2>4, <2>5, <2>6, <2>7
<1>7. CASE PullAxis(w) \/ CutSweep(w) \/ Audit(w)
  <2>1. stage = "sweeping"
    BY <1>7 DEF PullAxis, CutSweep, Audit, Places
  <2>2. \A v \in Worker : ~AtWork(v)
    BY <2>1 DEF Places
  <2>3. \E x \in {"batch", "axis"} : pc' = [pc EXCEPT ![w] = x]
    BY <1>7 DEF PullAxis, CutSweep, Audit
  <2>4. \A v \in Worker : ~AtWork(v)'
    BY <2>2, <2>3 DEF AtWork, TypeOK
  <2> QED BY <2>4, HandsElsewhere
<1> QED BY <1>1, <1>2, <1>3, <1>4, <1>5, <1>6, <1>7 DEF Step

-----------------------------------------------------------------------------
(* The records. *)

\* Records that gain nothing, on disk at most what memory holds.
LEMMA SameRecords ==
  ASSUME Records,
         progress'.done = progress.done,
         progress'.attempts = progress.attempts,
         progress'.status = progress.status,
         progress.phases \subseteq progress'.phases,
         disk' \in {disk, progress},
         UNCHANGED <<written, faulted>>,
         reported' \in {"none", reported}
  PROVE  Records'
<1>1. CASE disk' = disk
  BY <1>1 DEF Records, DoneIsWritten, RetriesAreForFailures
<1>2. CASE disk' = progress
  BY <1>2 DEF Records, DoneIsWritten, RetriesAreForFailures
<1> QED BY <1>1, <1>2

\* A worker's step, other than the return of a dispatch and the marking.
LEMMA StepRecords ==
  ASSUME TypeOK, Places, Hands, Records, NEW w \in Worker, Step(w)
  PROVE  Records'
<1>1. CASE \/ Pull(w) \/ Leave(w) \/ BeginUnit(w) \/ Interrupt(w)
           \/ PullAxis(w) \/ BeginBatch(w) \/ CutSweep(w) \/ EndSweep(w)
           \/ Audit(w)
  <2>1. UNCHANGED <<progress, disk, written, faulted, reported>>
    BY <1>1 DEF Pull, Leave, BeginUnit, Interrupt, PullAxis, BeginBatch,
                CutSweep, EndSweep, Audit
  <2> QED BY <2>1, SameRecords
<1>2. CASE Checkpoint(w)
  <2>1. /\ disk' \in {disk, progress}
        /\ UNCHANGED <<progress, written, faulted, reported>>
    BY <1>2 DEF Checkpoint, checkpoint, Save
  <2> QED BY <2>1, SameRecords
<1>3. CASE Dispatch(w)
  <2>1. /\ job[w] \notin progress.done
        /\ job[w] \in Sector
        /\ reported = "none"
    BY <1>3 DEF Dispatch, Hands, AtWork, Places
  <2>2. /\ \A s \in Sector \ {job[w]} : written'[s] = written[s]
        /\ faulted \subseteq faulted'
        /\ UNCHANGED <<progress, disk, reported>>
    BY <1>3 DEF Dispatch, TypeOK
  <2>3. progress.done \subseteq Sector /\ disk.done \subseteq Sector
    BY DEF TypeOK, Progress
  <2>4. DoneIsWritten'
    BY <2>1, <2>2, <2>3 DEF Records, DoneIsWritten
  <2>5. RetriesAreForFailures'
    BY <2>2 DEF Records, RetriesAreForFailures
  <2> QED BY <2>1, <2>2, <2>4, <2>5 DEF Records
<1>4. CASE Mark(w)
  <2>0. AtWork(w) /\ job[w] \in Sector /\ Work(w) /\ pc[w] = "mark"
    BY <1>4 DEF Mark, Hands, AtWork
  <2>1. progress \in Progress /\ progress.done \subseteq Sector
    BY DEF TypeOK, Progress
  <2>2. UNCHANGED <<disk, written, faulted, reported>>
    BY <1>4 DEF Mark
  <2>3. CASE progress' = progress
    BY <2>2, <2>3, SameRecords
  <2>4. CASE ~cfg.dry_run /\ outcome[w] = "done"
             /\ progress' = mark_done(progress, job[w])
    <3>1. /\ progress'.done = progress.done \cup {job[w]}
          /\ progress'.phases = progress.phases
          /\ progress'.status = progress.status
          /\ \A t \in Sector :
               progress'.attempts[t] \in {0, progress.attempts[t]}
      BY <2>0, <2>1, <2>4, RecordOps DEF Phase
    <3>2. written[job[w]] = Units[job[w]]
      BY <2>0, <2>4 DEF Work
    <3>3. DoneIsWritten'
      BY <2>2, <3>1, <3>2 DEF Records, DoneIsWritten
    <3>4. RetriesAreForFailures'
      BY <2>2, <3>1 DEF Records, RetriesAreForFailures
    <3> QED BY <2>0, <2>1, <2>2, <3>1, <3>3, <3>4 DEF Records
  <2>5. CASE outcome[w] = "failed" /\ progress' = mark_failed(progress, job[w])
    <3>1. /\ progress'.done = progress.done
          /\ progress'.phases = progress.phases
          /\ progress'.status = progress.status
          /\ \A t \in Sector \ {job[w]} :
               progress'.attempts[t] = progress.attempts[t]
      BY <2>0, <2>1, <2>5, RecordOps DEF Phase
    <3>2. job[w] \in faulted
      BY <2>0, <2>5 DEF Work
    <3>3. RetriesAreForFailures'
      BY <2>2, <3>1, <3>2 DEF Records, RetriesAreForFailures
    <3> QED BY <2>2, <3>1, <3>3 DEF Records, DoneIsWritten
  <2>6. outcome[w] \in {"done", "failed", "interrupted"}
    BY DEF TypeOK
  <2>7. cfg.dry_run \in BOOLEAN
    BY ConfigFields DEF TypeOK
  <2> QED BY <1>4, <2>3, <2>4, <2>5, <2>6, <2>7 DEF Mark
<1> QED BY <1>1, <1>2, <1>3, <1>4 DEF Step

\* A step of run_mission keeps Records.
LEMMA MainRecords ==
  ASSUME TypeOK, Places, Records, Main
  PROVE  Records'
<1>1. CASE Design \/ Remediation \/ Parity \/ Documentation
  <2>1. PhaseStep
    BY <1>1, DesignPhase, RemediationPhase, ClosingPhase
  <2> QED BY <2>1, SameRecords DEF PhaseStep
<1>2. CASE \/ LeaveWaves \/ SkipWave \/ StartWave \/ Gates \/ StartSweeps
           \/ EndSweeps
  <2>1. UNCHANGED <<progress, disk, written, faulted, reported>>
    BY <1>2 DEF LeaveWaves, SkipWave, StartWave, Gates, StartSweeps, EndSweeps
  <2> QED BY <2>1, SameRecords
<1>3. CASE EndWave
  <2>1. /\ disk' \in {disk, progress}
        /\ UNCHANGED <<progress, written, faulted, reported>>
    BY <1>3 DEF EndWave, checkpoint, Save
  <2> QED BY <2>1, SameRecords
<1>4. CASE Finish
  <2> DEFINE p == [progress EXCEPT !.status = FinalStatus]
  <2>1. /\ p.done = progress.done /\ p.phases = progress.phases
        /\ p.attempts = progress.attempts /\ p.status = FinalStatus
    BY FinalStatusType, StatusOps DEF TypeOK
  <2>2. /\ disk' \in {disk, p}
        /\ progress' = disk'
        /\ reported' \in {FinalStatus, "none"}
        /\ UNCHANGED <<written, faulted>>
    BY <1>4 DEF Finish, Save, Reset
  <2>4. progress.done \subseteq Sector
    BY DEF TypeOK, Progress
  <2>3. FinalStatus = "completed" => Sector \subseteq progress.done
    <3>1. IsFiniteSet(Sector) /\ Cardinality(Sector) = NumSectors
      BY PlanAssumption, FS_Interval DEF Sector
    <3>2. /\ IsFiniteSet(progress.done)
          /\ Cardinality(progress.done) <= Cardinality(Sector)
          /\ Cardinality(progress.done) = Cardinality(Sector)
               => progress.done = Sector
      BY <2>4, <3>1, FS_Subset
    <3>3. Cardinality(progress.done) \in Nat /\ NumSectors \in Nat
      BY <3>2, PlanAssumption, FS_CardinalityType
    <3>4. FinalStatus = "completed" => ~ (NumSectors > Cardinality(progress.done))
      BY DEF FinalStatus
    <3> QED BY <3>1, <3>2, <3>3, <3>4
  <2> HIDE DEF p
  <2>5. FinalStatus = "completed" => \A s \in Sector : written[s] = Units[s]
    BY <2>3 DEF Records, DoneIsWritten
  <2>6. CASE disk' = disk
    BY <2>2, <2>5, <2>6 DEF Records, DoneIsWritten, RetriesAreForFailures
  <2>7. CASE disk' = p
    BY <2>1, <2>2, <2>3, <2>4, <2>5, <2>7
       DEF Records, DoneIsWritten, RetriesAreForFailures
  <2> QED BY <2>2, <2>6, <2>7
<1> QED BY <1>1, <1>2, <1>3, <1>4 DEF Main

-----------------------------------------------------------------------------
(* The invariant is inductive. *)

\* The invariant holds initially,
LEMMA InitInvariant == Init => IInv
<1> SUFFICES ASSUME Init PROVE IInv
  OBVIOUS
<1>1. Places /\ Hands
  BY DEF Init, Places, Hands, AtWork
<1>2. Records
  <2>1. /\ disk = progress /\ disk.done = {} /\ disk.phases = {}
        /\ disk.status = "running" /\ \A s \in Sector : disk.attempts[s] = 0
        /\ reported = "none"
    BY DEF Init, Fresh
  <2> QED BY <2>1 DEF Records, DoneIsWritten, RetriesAreForFailures
<1> QED BY <1>1, <1>2, TypeInit DEF IInv

\* every step keeps it,
LEMMA NextInvariant == IInv /\ [Next]_vars => IInv'
<1> SUFFICES ASSUME IInv, [Next]_vars PROVE IInv'
  OBVIOUS
<1>0. TypeOK /\ Places /\ Hands /\ Records
  BY DEF IInv
<1>1. TypeOK'
  BY <1>0, TypeNext
<1>2. CASE Main
  <2>1. Places' /\ \A w \in Worker : ~AtWork(w)'
    BY <1>0, <1>2, MainPlaces
  <2> QED BY <1>0, <1>1, <1>2, <2>1, HandsElsewhere, MainRecords DEF IInv
<1>3. CASE \E w \in Worker : Step(w)
  BY <1>0, <1>1, <1>3, StepPlaces, StepHands, StepRecords DEF IInv
<1>4. CASE Start \/ Crash
  <2>1. /\ disk' = disk
        /\ UNCHANGED <<written, faulted>>
        /\ pc' \in [Worker -> {"out"}]
        /\ queue' = {}
        /\ progress'.done = disk.done
        /\ progress'.phases = disk.phases
        /\ progress'.attempts = disk.attempts
        /\ progress'.status = "completed" => disk.status = "completed"
    BY <1>0, <1>4, RestartEffect
  <2>2. reported' \in {"none", reported} /\ (stage' # "idle" => reported' = "none")
    BY <1>4 DEF Start, Crash
  <2>3. \A w \in Worker : ~AtWork(w)' /\ pc'[w] = "out"
    BY <2>1 DEF AtWork
  <2>4. Places'
    BY <2>1, <2>2, <2>3 DEF Places
  <2>5. Records'
    BY <1>0, <2>1, <2>2 DEF Records, DoneIsWritten, RetriesAreForFailures
  <2> QED BY <1>1, <2>3, <2>4, <2>5, HandsElsewhere DEF IInv
<1>5. CASE WallClock \/ UNCHANGED vars
  <2>1. UNCHANGED <<kept, workers, place, record>>
    BY <1>5 DEF WallClock, vars
  <2>2. Places' /\ Records'
    BY <1>0, <2>1
       DEF Places, AtWork, Records, DoneIsWritten, RetriesAreForFailures
  <2>3. Hands'
    BY <1>0, <2>1 DEF Hands, AtWork, Work
  <2> QED BY <1>1, <2>2, <2>3 DEF IInv
<1> QED BY <1>2, <1>3, <1>4, <1>5 DEF Next

\* and so it always holds.
LEMMA Invariance == Spec => []IInv
BY InitInvariant, NextInvariant, PTL DEF Spec

-----------------------------------------------------------------------------
(* What a kill can lose, and what a run can spend. *)

Unsaved == progress.done \ disk.done
Marking == {w \in Worker : pc[w] = "mark"}

\* A worker that has finished a sector since the last save is past its mark,
\* and must save before it marks another.
Saved ==
  ~saveFailed /\ ~cfg.dry_run =>
    /\ Cardinality(Unsaved) + Cardinality(Marking) <= cfg.parallelism
    /\ stage # "porting" => progress.done = disk.done

\* While workers spend, and in the stages around them.
Spent ==
  cfg.max_dispatches > 0 =>
    /\ stage = "design" => budget = 0
    /\ stage \in {"waves", "porting", "gates", "sweeps", "sweeping"} =>
         budget + Cardinality(InFlight)
            <= cfg.max_dispatches + cfg.parallelism - 1

\* A set of numbers up to n has at most n members.
LEMMA Crew ==
  ASSUME NEW n \in Nat, NEW S \in SUBSET (1..n)
  PROVE  /\ IsFiniteSet(S)
         /\ Cardinality(S) \in Nat
         /\ Cardinality(S) <= n
<1>1. IsFiniteSet(1..n) /\ Cardinality(1..n) = IF 1 > n THEN 0 ELSE n - 1 + 1
  BY FS_Interval
<1>2. Cardinality(1..n) = n
  BY <1>1
<1>3. IsFiniteSet(S) /\ Cardinality(S) <= Cardinality(1..n)
  BY <1>1, FS_Subset
<1> QED BY <1>2, <1>3, FS_CardinalityType

\* Nothing is lost when memory and disk agree.
LEMMA SavedNow ==
  ASSUME TypeOK', Places', progress'.done = disk'.done
  PROVE  Saved'
<1>1. Unsaved' = {}
  BY DEF Unsaved
<1>2. Cardinality(Unsaved') = 0
  BY <1>1, FS_EmptySet
<1>3. /\ Cardinality(Marking)' \in Nat
      /\ Cardinality(Marking)' <= cfg'.parallelism
  <2>1. cfg'.parallelism \in Nat
    BY DEF TypeOK, Config, ConfigOf, Worker
  <2>2. Marking' \in SUBSET (1..cfg'.parallelism)
    BY <2>1 DEF Marking, Places, Worker
  <2> QED BY <2>1, <2>2, Crew
<1>4. Cardinality(Unsaved)' + Cardinality(Marking)' = Cardinality(Marking)'
  BY <1>2, <1>3
<1> QED BY <1>3, <1>4 DEF Saved

\* The same, with the primed cardinalities spelled out for one worker's mark.
LEMMA MarkSaved ==
  ASSUME TypeOK, Places, Hands, Saved, NEW w \in Worker, Mark(w)
  PROVE  Saved'
<1>0. job[w] \in Sector /\ pc[w] = "mark" /\ stage = "porting"
  BY DEF Mark, Hands, AtWork, Places
<1>1. progress'.done \subseteq progress.done \cup {job[w]}
  BY <1>0, RecordOps DEF Mark, TypeOK, Phase
<1>2. /\ UNCHANGED <<disk, cfg, stage, saveFailed>>
      /\ pc' = [pc EXCEPT ![w] = "pull"]
  BY DEF Mark
<1>3. /\ IsFiniteSet(Marking) /\ Cardinality(Marking) \in Nat
      /\ w \in Marking
  <2>1. cfg.parallelism \in Nat
    BY ConfigFields DEF TypeOK
  <2>2. Marking \in SUBSET (1..cfg.parallelism)
    BY <2>1 DEF Marking, Places, Worker
  <2> QED BY <1>0, <2>1, <2>2, Crew DEF Marking
<1>4. Marking' = Marking \ {w}
  BY <1>2 DEF Marking, TypeOK
<1>5. Cardinality(Marking') = Cardinality(Marking) - 1
  BY <1>3, <1>4, FS_RemoveElement
<1>6. Unsaved \in SUBSET Sector
  BY DEF Unsaved, TypeOK, Progress
<1>7. IsFiniteSet(Unsaved) /\ Cardinality(Unsaved) \in Nat
  BY <1>6, PlanAssumption, Crew DEF Sector
<1>8. /\ IsFiniteSet(Unsaved \cup {job[w]})
      /\ Cardinality(Unsaved \cup {job[w]}) \in Nat
      /\ Cardinality(Unsaved \cup {job[w]}) <= Cardinality(Unsaved) + 1
  BY <1>7, FS_AddElement
<1>9. Unsaved' \in SUBSET (Unsaved \cup {job[w]})
  BY <1>1, <1>2 DEF Unsaved
<1>10. /\ Cardinality(Unsaved') <= Cardinality(Unsaved \cup {job[w]})
       /\ Cardinality(Unsaved') \in Nat
  BY <1>8, <1>9, FS_Subset, FS_CardinalityType
<1>11. cfg.parallelism \in Nat
  BY ConfigFields DEF TypeOK
<1> QED BY <1>0, <1>2, <1>3, <1>5, <1>7, <1>8, <1>10, <1>11 DEF Saved

\* Every step keeps Saved.
LEMMA NextSaved ==
  ASSUME IInv, IInv', Saved, [Next]_vars
  PROVE  Saved'
<1>0. TypeOK /\ Places /\ Hands /\ Records /\ TypeOK' /\ Places'
  BY DEF IInv
<1>1. ASSUME NEW w \in Worker, Step(w)
      PROVE  Saved'
  <2>1. CASE Mark(w)
    BY <1>0, <2>1, MarkSaved
  <2>2. CASE Checkpoint(w)
    <3>1. \/ disk' = progress'
          \/ saveFailed' \/ cfg'.dry_run
      BY <2>2 DEF Checkpoint, checkpoint
    <3>2. CASE disk' = progress'
      BY <1>0, <3>2, SavedNow
    <3> QED BY <3>1, <3>2 DEF Saved
  <2>3. CASE \/ Pull(w) \/ Leave(w) \/ BeginUnit(w) \/ Interrupt(w)
             \/ Dispatch(w) \/ PullAxis(w) \/ BeginBatch(w) \/ CutSweep(w)
             \/ EndSweep(w) \/ Audit(w)
    <3>1. /\ UNCHANGED <<progress, disk, saveFailed, cfg, stage>>
          /\ pc[w] # "mark"
          /\ \E x \in {"unit", "out", "dispatch", "checkpoint", "batch",
                       "axis", "audit"} : pc' = [pc EXCEPT ![w] = x]
      BY <2>3 DEF Pull, Leave, BeginUnit, Interrupt, Dispatch, PullAxis,
                  BeginBatch, CutSweep, EndSweep, Audit
    <3>2. Marking' = Marking
      BY <1>0, <3>1 DEF Marking, TypeOK
    <3> QED BY <3>1, <3>2 DEF Saved, Unsaved
  <2> QED BY <1>1, <2>1, <2>2, <2>3 DEF Step
<1>2. CASE Main
  <2>1. CASE EndWave
    <3>1. \/ disk' = progress'
          \/ saveFailed' \/ cfg'.dry_run
      BY <2>1 DEF EndWave, checkpoint
    <3>2. CASE disk' = progress'
      BY <1>0, <3>2, SavedNow
    <3> QED BY <3>1, <3>2 DEF Saved
  <2>2. CASE Finish
    <3>1. disk' = progress'
      BY <2>2 DEF Finish, Reset
    <3> QED BY <1>0, <3>1, SavedNow
  <2>3. CASE ~EndWave /\ ~Finish
    <3>1. /\ UNCHANGED <<disk, saveFailed, cfg>>
          /\ progress'.done = progress.done
          /\ stage # "porting"
      <4>1. CASE Design \/ Remediation \/ Parity \/ Documentation
        <5>1. PhaseStep
          BY <1>0, <4>1, DesignPhase, RemediationPhase, ClosingPhase
        <5>2. stage # "porting"
          BY <4>1 DEF Design, Remediation, Parity, Documentation, Closing
        <5> QED BY <5>1, <5>2 DEF PhaseStep
      <4>2. CASE \/ LeaveWaves \/ SkipWave \/ StartWave \/ Gates
                 \/ StartSweeps \/ EndSweeps
        BY <4>2 DEF LeaveWaves, SkipWave, StartWave, Gates, StartSweeps,
                    EndSweeps
      <4> QED BY <1>2, <2>3, <4>1, <4>2 DEF Main
    <3>2. CASE progress.done = disk.done
      BY <1>0, <3>1, <3>2, SavedNow
    <3>3. CASE progress.done # disk.done
      BY <3>1, <3>3 DEF Saved
    <3> QED BY <3>2, <3>3
  <2> QED BY <2>1, <2>2, <2>3
<1>3. CASE Start \/ Crash
  BY <1>0, <1>3, RestartEffect, SavedNow
<1>4. CASE WallClock \/ UNCHANGED vars
  <2>1. UNCHANGED <<progress, disk, saveFailed, cfg, stage, pc>>
    BY <1>4 DEF WallClock, vars
  <2> QED BY <2>1 DEF Saved, Unsaved, Marking
<1> QED BY <1>1, <1>2, <1>3, <1>4 DEF Next

\* The main thread's steps find and leave nothing in flight.
LEMMA MainInFlight ==
  ASSUME IInv, IInv', Main
  PROVE  InFlight = {} /\ InFlight' = {}
<1>0. TypeOK /\ Places /\ TypeOK' /\ Places'
  BY DEF IInv
<1>1. CASE EndWave \/ EndSweeps
  BY <1>1 DEF EndWave, EndSweeps, InFlight
<1>2. CASE StartWave
  BY <1>0, <1>2 DEF StartWave, InFlight, Places, AtWork
<1>3. CASE StartSweeps
  BY <1>0, <1>3 DEF StartSweeps, InFlight, Places, AtWork
<1>4. CASE Finish
  BY <1>0, <1>4 DEF Finish, Reset, InFlight, Places, AtWork
<1>5. CASE Design \/ Remediation \/ Parity \/ Documentation
  <2>1. pc' = pc
    BY <1>0, <1>5, DesignPhase, RemediationPhase, ClosingPhase DEF PhaseStep
  <2>2. stage \notin {"porting", "sweeping"}
    BY <1>5 DEF Design, Remediation, Parity, Documentation, Closing
  <2> QED BY <1>0, <2>1, <2>2 DEF InFlight, Places, AtWork
<1>6. CASE LeaveWaves \/ SkipWave \/ Gates
  BY <1>0, <1>6 DEF LeaveWaves, SkipWave, Gates, InFlight, Places, AtWork
<1> QED BY <1>1, <1>2, <1>3, <1>4, <1>5, <1>6 DEF Main

\* A worker's step keeps Spent.
LEMMA StepSpent ==
  ASSUME IInv, IInv', Spent, NEW w \in Worker, Step(w)
  PROVE  Spent'
<1>0. TypeOK /\ Places /\ TypeOK' /\ Places' /\ budget \in Nat
  BY DEF IInv, TypeOK
<1>1. cfg.parallelism \in Nat \ {0} /\ cfg.max_dispatches \in Nat
  BY <1>0, ConfigFields DEF TypeOK
<1>2. cfg' = cfg /\ stage' = stage
  BY DEF Step, Pull, Leave, BeginUnit, Interrupt, Dispatch, Checkpoint, Mark,
         PullAxis, BeginBatch, CutSweep, EndSweep, Audit
<1>3. /\ IsFiniteSet(InFlight) /\ Cardinality(InFlight) \in Nat
      /\ Cardinality(InFlight) <= cfg.parallelism
  <2>1. InFlight \in SUBSET (1..cfg.parallelism)
    BY <1>0, <1>1 DEF InFlight, Places, Worker
  <2> QED BY <1>1, <2>1, Crew
<1>4. /\ Cardinality(InFlight)' \in Nat
      /\ Cardinality(InFlight)' <= cfg.parallelism
  <2>1. InFlight' \in SUBSET (1..cfg.parallelism)
    BY <1>0, <1>1, <1>2 DEF InFlight, Places, Worker
  <2> QED BY <1>1, <2>1, Crew
<1>5. stage # "design"
  BY <1>0 DEF Step, Pull, Leave, BeginUnit, Interrupt, Dispatch, Checkpoint,
              Mark, PullAxis, BeginBatch, CutSweep, EndSweep, Audit, Places,
              AtWork
<1>6. CASE BeginUnit(w) \/ BeginBatch(w)
  <2>1. /\ cfg.max_dispatches > 0 => budget < cfg.max_dispatches
        /\ budget' = budget
    BY <1>0, <1>1, <1>6 DEF BeginUnit, BeginBatch, exhausted
  <2> QED BY <1>0, <1>1, <1>2, <1>4, <1>5, <2>1 DEF Spent
<1>7. CASE Dispatch(w) \/ Audit(w)
  <2>1. /\ budget' = budget + 1
        /\ w \in InFlight
        /\ \E x \in {"unit", "checkpoint", "batch"} :
             pc' = [pc EXCEPT ![w] = x]
    BY <1>7 DEF Dispatch, Audit, InFlight
  <2>2. InFlight' = InFlight \ {w}
    BY <1>0, <2>1 DEF InFlight, TypeOK
  <2>3. Cardinality(InFlight') = Cardinality(InFlight) - 1
    BY <1>3, <2>1, <2>2, FS_RemoveElement
  <2> QED BY <1>0, <1>1, <1>2, <1>3, <1>5, <2>1, <2>3 DEF Spent
<1>8. CASE \/ Pull(w) \/ Leave(w) \/ Interrupt(w) \/ Checkpoint(w)
           \/ Mark(w) \/ PullAxis(w) \/ CutSweep(w) \/ EndSweep(w)
  <2>1. /\ budget' = budget
        /\ pc[w] \notin {"dispatch", "audit"}
        /\ \E x \in {"unit", "out", "checkpoint", "mark", "pull", "batch",
                     "axis"} : pc' = [pc EXCEPT ![w] = x]
    BY <1>8 DEF Pull, Leave, Interrupt, Checkpoint, Mark, PullAxis, CutSweep,
                EndSweep
  <2>2. InFlight' = InFlight
    BY <1>0, <2>1 DEF InFlight, TypeOK
  <2> QED BY <1>2, <2>1, <2>2 DEF Spent
<1> QED BY <1>6, <1>7, <1>8 DEF Step

\* Every step keeps Spent.
LEMMA NextSpent ==
  ASSUME IInv, IInv', Spent, [Next]_vars
  PROVE  Spent'
<1>0. TypeOK /\ Places /\ budget \in Nat
  BY DEF IInv, TypeOK
<1>1. cfg.parallelism \in Nat \ {0} /\ cfg.max_dispatches \in Nat
  BY <1>0, ConfigFields DEF TypeOK
<1>2. CASE \E w \in Worker : Step(w)
  BY <1>2, StepSpent
<1>3. CASE Main
  <2>1. Cardinality(InFlight) = 0 /\ Cardinality(InFlight') = 0
    BY <1>3, MainInFlight, FS_EmptySet
  <2>2. CASE Design
    <3>1. /\ budget' \in {budget, budget + 1} /\ cfg' = cfg
          /\ stage' # "design" /\ stage = "design"
      BY <1>0, <2>2, DesignPhase DEF PhaseStep, Design
    <3> QED BY <1>0, <1>1, <2>1, <3>1 DEF Spent
  <2>3. CASE Remediation \/ Parity \/ Documentation \/ Finish
    <3>1. stage' \in {"parity", "documentation", "final", "idle"}
      BY <1>0, <2>3, RemediationPhase, ClosingPhase DEF Finish
    <3> QED BY <3>1 DEF Spent
  <2>4. CASE \/ LeaveWaves \/ SkipWave \/ StartWave \/ EndWave \/ Gates
             \/ StartSweeps \/ EndSweeps
    <3>1. /\ budget' = budget /\ cfg' = cfg
          /\ stage' # "design"
          /\ stage \in {"waves", "porting", "gates", "sweeps", "sweeping"}
      BY <2>4 DEF LeaveWaves, SkipWave, StartWave, EndWave, Gates,
                  StartSweeps, EndSweeps
    <3> QED BY <2>1, <3>1 DEF Spent
  <2> QED BY <1>3, <2>2, <2>3, <2>4 DEF Main
<1>4. CASE Start \/ Crash
  <2>1. budget' = 0 /\ stage' \in {"design", "idle"}
    BY <1>0, <1>4, RestartEffect DEF Start, Crash
  <2> QED BY <2>1 DEF Spent
<1>5. CASE WallClock \/ UNCHANGED vars
  <2>1. UNCHANGED <<budget, cfg, stage, pc>>
    BY <1>5 DEF WallClock, vars
  <2> QED BY <2>1 DEF Spent, InFlight
<1> QED BY <1>2, <1>3, <1>4, <1>5 DEF Next

-----------------------------------------------------------------------------
(* The theorems. *)

\* The variables keep their types; in particular no worker counts below its
\* sector's first unit.
THEOREM TypeCorrect == Spec => []TypeOK
BY Invariance, PTL DEF IInv

\* A sector the record calls done, in memory or on disk, is in the output tree
\* with all its units, whatever was interrupted, failed, killed or resumed.
THEOREM DoneSectorsAreWritten == Spec => []DoneIsWritten
<1>1. IInv => DoneIsWritten
  BY DEF IInv, Records
<1> QED BY <1>1, Invariance, PTL

\* No two workers have one sector, and each unit is dispatched onto exactly the
\* units before it.
THEOREM UnitsAreInOrder == Spec => []ChunksInOrder
<1>1. IInv => ChunksInOrder
  <2> SUFFICES ASSUME IInv PROVE ChunksInOrder
    OBVIOUS
  <2>1. \A w \in Worker :
          AtWork(w) => Work(w) /\ unit[w] \in 1..Units[job[w]]
    BY DEF IInv, Hands
  <2>2. \A v, w \in Worker : AtWork(v) /\ AtWork(w) /\ v # w => job[v] # job[w]
    BY DEF IInv, Hands
  <2>3. ASSUME NEW w \in Worker, AtWork(w), unit[w] > 1, ~cfg.dry_run
        PROVE  written[job[w]] \in {unit[w] - 1, unit[w]}
    BY <2>1, <2>3 DEF Work, AtWork
  <2> QED BY <2>2, <2>3 DEF ChunksInOrder
<1> QED BY <1>1, Invariance, PTL

\* An attempt is charged to a sector only after one of its dispatches failed.
THEOREM AttemptsAreForFailures == Spec => []RetriesAreForFailures
<1>1. IInv => RetriesAreForFailures
  BY DEF IInv, Records
<1> QED BY <1>1, Invariance, PTL

\* A mission reported or recorded as completed is whole in the output tree.
THEOREM CompletionIsWhole == Spec => []CompletedIsWhole
<1>1. IInv => CompletedIsWhole
  BY DEF IInv, Records, DoneIsWritten, CompletedIsWhole
<1> QED BY <1>1, Invariance, PTL

\* Without a failed write, a kill costs at most one finished sector per worker,
\* and none outside a wave.
THEOREM LossIsBounded == Spec => []UnsavedBounded
<1>1. Init => Saved
  <2> SUFFICES ASSUME Init PROVE Saved
    OBVIOUS
  <2>1. Unsaved = {} /\ Marking = {} /\ progress = disk
    BY DEF Init, Unsaved, Marking
  <2>2. Cardinality(Unsaved) = 0 /\ Cardinality(Marking) = 0
    BY <2>1, FS_EmptySet
  <2>3. cfg.parallelism \in Nat
    BY InitInvariant, ConfigFields DEF IInv, TypeOK
  <2> QED BY <2>1, <2>2, <2>3 DEF Saved
<1>2. IInv /\ Saved => UnsavedBounded
  <2> SUFFICES ASSUME IInv, Saved PROVE UnsavedBounded
    OBVIOUS
  <2>1. cfg.parallelism \in Nat
    BY ConfigFields DEF IInv, TypeOK
  <2>2. Marking \in SUBSET (1..cfg.parallelism)
    BY <2>1 DEF IInv, Marking, Places, Worker
  <2>3. Unsaved \in SUBSET (1..NumSectors)
    BY DEF Unsaved, IInv, TypeOK, Progress, Sector
  <2>4. Cardinality(Marking) \in Nat /\ Cardinality(Unsaved) \in Nat
    BY <2>1, <2>2, <2>3, Crew, PlanAssumption
  <2> QED BY <2>1, <2>4 DEF Saved, UnsavedBounded, Unsaved
<1> QED BY <1>1, <1>2, NextSaved, Invariance, PTL DEF Spec

\* Past its dispatch cap a run spends at most parallelism - 1 dispatches on
\* porting and sweeps.
THEOREM SpendIsBounded == Spec => []OvershootBounded
<1>1. Init => Spent
  BY DEF Init, Spent
<1>2. Spent => OvershootBounded
  BY DEF Spent, OvershootBounded
<1> QED BY <1>1, <1>2, NextSpent, Invariance, PTL DEF Spec

\* The record on disk never loses a finished sector or phase.
THEOREM RecordOnlyGrows == Spec => RecordGrows
<1>1. IInv /\ [Next]_vars =>
        [/\ disk.done \subseteq disk'.done
         /\ disk.phases \subseteq disk'.phases]_vars
  <2> SUFFICES ASSUME IInv, [Next]_vars
               PROVE  /\ disk.done \subseteq disk'.done
                      /\ disk.phases \subseteq disk'.phases
    OBVIOUS
  <2>1. /\ disk.done \subseteq progress.done
        /\ disk.phases \subseteq progress.phases
        /\ TypeOK
    BY DEF IInv, Records
  <2>2. CASE Finish
    <3>1. /\ [progress EXCEPT !.status = FinalStatus].done = progress.done
          /\ [progress EXCEPT !.status = FinalStatus].phases = progress.phases
      BY <2>1, FinalStatusType, StatusOps DEF TypeOK
    <3> QED BY <2>1, <2>2, <3>1 DEF Finish, Save
  <2>3. CASE EndWave \/ \E w \in Worker : Checkpoint(w)
    BY <2>1, <2>3 DEF EndWave, Checkpoint, checkpoint, Save
  <2>4. CASE ~Finish /\ ~EndWave /\ ~ \E w \in Worker : Checkpoint(w)
    <3>1. disk' = disk
      BY <2>4 DEF Next, vars, Start, Main, Crash, WallClock, Step, Design,
           LeaveWaves, SkipWave, StartWave, Gates, StartSweeps, EndSweeps,
           Remediation, Parity, Documentation, Closing, Pull, Leave, BeginUnit,
           Interrupt, Dispatch, Mark, PullAxis, BeginBatch, CutSweep, EndSweep,
           Audit
    <3> QED BY <3>1
  <2> QED BY <2>2, <2>3, <2>4
<1> QED BY <1>1, Invariance, PTL DEF Spec, RecordGrows

-----------------------------------------------------------------------------
(* The sweeps.  The batches of a sweep are consecutive: the ranks of the   *)
(* ported sectors have no gap, so an empty batch is behind the last one.   *)

\* The rank of s among the sectors D, and what the first i - 1 batches of b
\* sectors hold.
RankIn(D, s) == Cardinality({t \in D : t <= s})

\* Every rank is positive and the ranks up to any k are followed by k + 1: a
\* stretch of ranks without a sector has none behind it either.
LEMMA RanksAreDense ==
  ASSUME NEW D \in SUBSET Nat, IsFiniteSet(D), NEW k \in Nat,
         \A s \in D : RankIn(D, s) # k + 1
  PROVE  \A s \in D : RankIn(D, s) <= k
<1> DEFINE Up(s) == {t \in D : t <= s}
           S == {s \in D : ~ (RankIn(D, s) <= k)}
<1>0. \A s \in D : s \in Nat
  OBVIOUS
<1>1. ASSUME NEW P \in SUBSET D
      PROVE  IsFiniteSet(P) /\ Cardinality(P) \in Nat
  BY FS_Subset, FS_CardinalityType
<1>2. SUFFICES ASSUME S # {} PROVE FALSE
  OBVIOUS
<1>3. S \in SUBSET Nat
  OBVIOUS
<1>4. PICK s \in S : \A y \in S : s <= y
  <2> HIDE DEF S
  <2> QED BY <1>2, <1>3, FirstIsMember
<1>5. s \in D /\ s \in Nat /\ ~ (RankIn(D, s) <= k)
  BY <1>3
<1>6. PICK P : P = {t \in D : t < s}
  OBVIOUS
<1>7. P \in SUBSET D /\ IsFiniteSet(P) /\ Cardinality(P) \in Nat
  BY <1>1, <1>6
<1>8. Up(s) = P \cup {s} /\ s \notin P
  <2>1. \A t \in D : t <= s <=> (t < s \/ t = s)
    BY <1>0, <1>5
  <2>2. s \in D /\ ~ (s < s)
    BY <1>5
  <2> QED BY <1>6, <2>1, <2>2, Zenon
<1>9. RankIn(D, s) = Cardinality(P) + 1
  BY <1>7, <1>8, FS_AddElement DEF RankIn
<1>10. Cardinality(P) <= k
  <2>1. CASE P = {}
    BY <2>1, FS_EmptySet
  <2>2. CASE P # {}
    <3> DEFINE T == {s - t : t \in P}
    <3>1. \A t \in P : t \in D /\ t \in Nat /\ t < s /\ s - t \in Nat
      BY <1>0, <1>5, <1>6
    <3>2. T \in SUBSET Nat /\ T # {}
      BY <2>2, <3>1
    <3>3. PICK d \in T : \A y \in T : d <= y
      <4> HIDE DEF T
      <4> QED BY <3>2, FirstIsMember
    <3>4. PICK u \in P : d = s - u
      BY <3>3
    <3>5. \A t \in P : s - u <= s - t
      BY <3>3, <3>4
    <3>6. \A t \in P : t <= u
      BY <1>5, <3>1, <3>4, <3>5
    <3>7. Up(u) = P
      <4>1. \A t \in D : t <= u => t < s
        BY <1>0, <1>5, <3>1
      <4> QED BY <1>6, <3>6, <4>1, Zenon
    <3>8. RankIn(D, u) = Cardinality(P)
      BY <3>7 DEF RankIn
    <3>9. u \in D /\ ~ (s <= u)
      BY <1>5, <3>1
    <3>10. u \notin S
      <4> HIDE DEF S
      <4> QED BY <1>4, <3>9
    <3> QED BY <3>8, <3>9, <3>10
  <2> QED BY <2>1, <2>2
<1>11. RankIn(D, s) # k + 1
  BY <1>5
<1> QED BY <1>5, <1>7, <1>9, <1>10, <1>11

\* A ported sector counts itself.
LEMMA RankPositive ==
  ASSUME NEW D \in SUBSET Nat, IsFiniteSet(D), NEW s \in D
  PROVE  RankIn(D, s) \in Nat /\ RankIn(D, s) >= 1
<1>1. PICK P : P = {t \in D : t <= s}
  OBVIOUS
<1>2. IsFiniteSet(P) /\ Cardinality(P) \in Nat
  BY <1>1, FS_Subset, FS_CardinalityType
<1>3. s \in P
  BY <1>1
<1>4. Cardinality(P) # 0
  BY <1>2, <1>3, FS_EmptySet
<1> QED BY <1>1, <1>2, <1>4 DEF RankIn

Auditing(w) == pc[w] \in {"batch", "audit"}

\* What the batches before the i-th hold.
Covers(i) ==
  {s \in progress.done : Rank(s) <= (i - 1) * cfg.sweep_batch_sectors}

Honest(a) == sweeps[a].truncated \/ Told(sweeps[a]) = progress.done

Unswept ==
  stage \in {"idle", "design", "waves", "porting", "gates", "sweeps"} =>
    \A a \in Axis : sweeps[a] = NoSweep

\* As long as an axis is queued, some worker will come for it.
Crewed == stage = "sweeping" /\ queue # {} => \E w \in Worker : pc[w] # "out"

\* An axis in a worker's hands is in nobody else's, and its summary has the
\* batches dispatched so far.
Audits ==
  \A w \in Worker : Auditing(w) =>
    /\ job[w] \notin queue
    /\ unit[w] >= 1
    /\ Told(sweeps[job[w]]) = Covers(unit[w])
    /\ \A v \in Worker : Auditing(v) /\ v # w => job[v] # job[w]

\* Every axis is queued, in a worker's hands, or swept.
Axes ==
  stage = "sweeping" =>
    \A a \in Axis :
      \/ a \in queue /\ sweeps[a] = NoSweep
      \/ \E w \in Worker : Auditing(w) /\ job[w] = a
      \/ a \notin queue /\ Honest(a)

SInv == Unswept /\ Crewed /\ Audits /\ Axes /\ SweepsAreHonest

\* Before the first batch nothing is told of, a batch adds what it holds, and
\* an empty one means that nothing is left.
LEMMA BatchesCover ==
  ASSUME TypeOK, NEW i \in Nat, i >= 1
  PROVE  /\ Covers(1) = {}
         /\ Covers(i + 1) = Covers(i) \cup Batch(i)
         /\ Batch(i) = {} => Covers(i) = progress.done
<1>1. PICK D : D = progress.done
  OBVIOUS
<1>2. PICK b : b = cfg.sweep_batch_sectors
  OBVIOUS
<1>3. D \in SUBSET Nat /\ IsFiniteSet(D) /\ b \in Nat /\ b >= 1
  <2>1. D \in SUBSET Sector
    BY <1>1 DEF TypeOK, Progress
  <2>2. IsFiniteSet(Sector) /\ Sector \in SUBSET Nat
    BY PlanAssumption, FS_Interval DEF Sector
  <2>3. b \in Nat \ {0}
    BY <1>2 DEF TypeOK, Config, ConfigOf
  <2>4. D \in SUBSET Nat /\ b \in Nat /\ b >= 1
    BY <2>1, <2>2, <2>3
  <2>5. IsFiniteSet(D)
    BY <2>1, <2>2, FS_Subset
  <2> QED BY <2>4, <2>5
<1>4. \A s : Rank(s) = RankIn(D, s)
  BY <1>1 DEF Rank, RankIn
<1>5. \A s \in D : RankIn(D, s) \in Nat /\ RankIn(D, s) >= 1
  BY <1>3, RankPositive
<1>6. PICK k : k = (i - 1) * b
  OBVIOUS
<1>7. k \in Nat
  <2>1. i - 1 \in Nat
    OBVIOUS
  <2> QED BY <1>3, <1>6, <2>1
<1>8. i * b = k + b
  BY <1>3, <1>6
<1>9. Covers(1) = {s \in D : RankIn(D, s) <= 0}
  <2>1. (1 - 1) * b = 0
    BY <1>3
  <2> QED BY <1>1, <1>2, <1>4, <2>1 DEF Covers
<1>10. Covers(i) = {s \in D : RankIn(D, s) <= k}
  BY <1>1, <1>2, <1>4, <1>6 DEF Covers
<1>11. Covers(i + 1) = {s \in D : RankIn(D, s) <= k + b}
  <2>1. (i + 1) - 1 = i
    OBVIOUS
  <2> QED BY <1>1, <1>2, <1>4, <1>8, <2>1 DEF Covers
<1>12. Batch(i) = {s \in D : k < RankIn(D, s) /\ RankIn(D, s) <= k + b}
  BY <1>1, <1>2, <1>4, <1>6, <1>8 DEF Batch
<1>13. Covers(1) = {}
  BY <1>5, <1>9
<1>14. Covers(i + 1) = Covers(i) \cup Batch(i)
  <2>1. \A s \in D : RankIn(D, s) <= k + b <=>
          \/ RankIn(D, s) <= k
          \/ k < RankIn(D, s) /\ RankIn(D, s) <= k + b
    BY <1>3, <1>5, <1>7
  <2> QED BY <1>10, <1>11, <1>12, <2>1, Zenon
<1>15. ASSUME Batch(i) = {} PROVE Covers(i) = D
  <2>1. \A s \in D : RankIn(D, s) # k + 1
    BY <1>3, <1>5, <1>7, <1>12, <1>15
  <2>2. \A s \in D : RankIn(D, s) <= k
    BY <1>3, <1>7, <2>1, RanksAreDense
  <2> QED BY <1>10, <2>2
<1> QED BY <1>1, <1>13, <1>14, <1>15

\* Outside the sweeps nobody audits.
LEMMA NoAudit ==
  ASSUME Places', stage' # "sweeping", Unswept', SweepsAreHonest'
  PROVE  SInv'
<1>1. \A w \in Worker : ~ Auditing(w)'
  BY DEF Places, Auditing
<1> QED BY <1>1 DEF SInv, Crewed, Audits, Axes

\* A step of worker w on axis a: the worker takes it, goes on with it, or
\* gives it up in order.
LEMMA AxisStep ==
  ASSUME TypeOK, Places, SInv, stage = "sweeping", NEW w \in Worker,
         NEW a \in Axis,
         UNCHANGED <<stage, cfg, progress>>,
         \A v \in Worker \ {w} :
           pc'[v] = pc[v] /\ job'[v] = job[v] /\ unit'[v] = unit[v],
         \A c \in Axis \ {a} : sweeps'[c] = sweeps[c],
         \A v \in Worker \ {w} : Auditing(v) => job[v] # a,
         Auditing(w) => job[w] = a,
         queue' = queue \ {a},
         pc'[w] # "out",
         \/ /\ Auditing(w)' /\ job'[w] = a /\ unit'[w] >= 1
            /\ Told(sweeps'[a]) = Covers(unit'[w])
         \/ ~ Auditing(w)' /\ Honest(a)'
  PROVE  SInv'
<1>1. Unswept' /\ SweepsAreHonest'
  BY DEF Unswept, SweepsAreHonest
<1>2. Crewed'
  BY DEF Crewed
<1>3. ASSUME NEW i PROVE Covers(i)' = Covers(i)
  BY DEF Covers, Rank
<1>4. \A v \in Worker \ {w} : Auditing(v)' <=> Auditing(v)
  BY DEF Auditing
<1>5. \A v \in Worker : Auditing(v) => job[v] \in Axis
  BY DEF Auditing, Places
<1>6. Audits'
  <2> SUFFICES ASSUME NEW v \in Worker, Auditing(v)'
               PROVE  /\ job'[v] \notin queue'
                      /\ unit'[v] >= 1
                      /\ Told(sweeps'[job'[v]]) = Covers(unit[v])'
                      /\ \A u \in Worker :
                           Auditing(u)' /\ u # v => job'[u] # job'[v]
    BY DEF Audits
  <2>1. PICK i : i = unit'[v]
    OBVIOUS
  <2>2. Covers(unit[v])' = Covers(i)
    <3>1. Covers(i)' = Covers(i)
      BY <1>3
    <3> QED BY <2>1, <3>1 DEF Covers
  <2>3. CASE v = w
    <3>1. /\ job'[w] = a /\ unit'[w] >= 1
          /\ Told(sweeps'[a]) = Covers(i)
      BY <2>1, <2>3
    <3>2. \A u \in Worker : Auditing(u)' /\ u # w => job'[u] # a
      BY <1>4
    <3> QED BY <2>2, <2>3, <3>1, <3>2
  <2>4. CASE v # w
    <3>1. Auditing(v) /\ job'[v] = job[v] /\ unit'[v] = unit[v]
      BY <1>4, <2>4
    <3>2. /\ job[v] \notin queue /\ unit[v] >= 1
          /\ Told(sweeps[job[v]]) = Covers(i)
          /\ \A u \in Worker : Auditing(u) /\ u # v => job[u] # job[v]
      BY <2>1, <3>1 DEF SInv, Audits
    <3>3. job[v] \in Axis \ {a}
      BY <1>5, <2>4, <3>1
    <3>4. \A u \in Worker : Auditing(u)' /\ u # v => job'[u] # job[v]
      <4> SUFFICES ASSUME NEW u \in Worker, Auditing(u)', u # v
                   PROVE  job'[u] # job[v]
        OBVIOUS
      <4>1. CASE u = w
        BY <3>3, <4>1
      <4>2. CASE u # w
        BY <1>4, <3>2, <4>2
      <4> QED BY <4>1, <4>2
    <3> QED BY <2>2, <3>1, <3>2, <3>3, <3>4
  <2> QED BY <2>3, <2>4
<1>7. Axes'
  <2> SUFFICES ASSUME NEW c \in Axis
               PROVE  \/ c \in queue' /\ sweeps'[c] = NoSweep
                      \/ \E v \in Worker : Auditing(v)' /\ job'[v] = c
                      \/ c \notin queue' /\ Honest(c)'
    BY DEF Axes
  <2>1. CASE c = a
    BY <2>1
  <2>2. CASE c # a
    <3>1. \/ c \in queue /\ sweeps[c] = NoSweep
          \/ \E v \in Worker : Auditing(v) /\ job[v] = c
          \/ c \notin queue /\ Honest(c)
      BY DEF SInv, Axes
    <3>2. Honest(c)' <=> Honest(c)
      BY <2>2 DEF Honest
    <3>3. ASSUME NEW v \in Worker, Auditing(v), job[v] = c
          PROVE  Auditing(v)' /\ job'[v] = c
      <4>1. v # w
        BY <2>2, <3>3
      <4> QED BY <1>4, <3>3, <4>1
    <3> QED BY <2>2, <3>1, <3>2, <3>3
  <2> QED BY <2>1, <2>2
<1> QED BY <1>1, <1>2, <1>6, <1>7 DEF SInv

\* A worker's step keeps the invariant of the sweeps.
LEMMA StepHonest ==
  ASSUME IInv, SInv, Places', NEW w \in Worker, Step(w)
  PROVE  SInv'
<1>0. TypeOK /\ Places
  BY DEF IInv
<1>1. CASE stage # "sweeping"
  <2>1. stage' = stage /\ cfg' = cfg
    BY DEF Step, Pull, Leave, BeginUnit, Interrupt, Dispatch, Checkpoint,
           Mark, PullAxis, BeginBatch, CutSweep, EndSweep, Audit
  <2>2. pc[w] \notin {"axis", "batch", "audit"}
    BY <1>0, <1>1 DEF Places
  <2>3. sweeps' = sweeps
    BY <2>2 DEF Step, Pull, Leave, BeginUnit, Interrupt, Dispatch, Checkpoint,
                Mark, PullAxis, BeginBatch, CutSweep, EndSweep, Audit
  <2>4. Unswept'
    BY <2>1, <2>3 DEF SInv, Unswept
  <2>5. pc[w] # "out"
    BY DEF Step, Pull, Leave, BeginUnit, Interrupt, Dispatch, Checkpoint,
           Mark, PullAxis, BeginBatch, CutSweep, EndSweep, Audit
  <2>6. stage = "porting"
    <3>1. pc[w] \in {"out", "pull", "unit", "dispatch", "checkpoint", "mark",
                     "axis", "batch", "audit"}
      BY <1>0 DEF TypeOK
    <3> QED BY <1>0, <2>2, <2>5, <3>1 DEF Places, AtWork
  <2>7. SweepsAreHonest'
    BY <2>1, <2>6 DEF SweepsAreHonest
  <2> QED BY <1>1, <2>1, <2>4, <2>7, NoAudit
<1>2. CASE stage = "sweeping" /\ Leave(w)
  <2>1. pc[w] # "pull"
    BY <1>0, <1>2 DEF Places
  <2>2. /\ queue = {} /\ pc[w] = "axis" /\ pc' = [pc EXCEPT ![w] = "out"]
        /\ UNCHANGED <<stage, cfg, progress, queue, job, unit, sweeps>>
    BY <1>2, <2>1 DEF Leave
  <2>3. \A v \in Worker : Auditing(v)' <=> Auditing(v)
    BY <1>0, <2>2 DEF Auditing, TypeOK
  <2>4. Audits' /\ Axes'
    <3>1. Axes'
      BY <1>2, <2>2, <2>3 DEF SInv, Axes, Honest
    <3>2. Audits'
      <4> SUFFICES ASSUME NEW v \in Worker, Auditing(v)'
                   PROVE  /\ job'[v] \notin queue'
                          /\ unit'[v] >= 1
                          /\ Told(sweeps'[job'[v]]) = Covers(unit[v])'
                          /\ \A u \in Worker :
                               Auditing(u)' /\ u # v => job'[u] # job'[v]
        BY DEF Audits
      <4>1. Covers(unit[v])' = Covers(unit[v])
        BY <2>2 DEF Covers, Rank
      <4> QED BY <2>2, <2>3, <4>1 DEF SInv, Audits
    <3> QED BY <3>1, <3>2
  <2> QED BY <1>2, <2>2, <2>4
          DEF SInv, Unswept, Crewed, SweepsAreHonest
<1>3. CASE stage = "sweeping" /\ ~ Leave(w)
  <2>0. pc[w] \in {"axis", "batch", "audit"}
    <3>1. pc[w] \notin {"pull", "unit", "dispatch", "checkpoint", "mark"}
      BY <1>0, <1>3 DEF Places, AtWork
    <3> QED BY <1>3, <3>1
            DEF Step, Pull, BeginUnit, Interrupt, Dispatch, Checkpoint, Mark,
                PullAxis, BeginBatch, CutSweep, EndSweep, Audit
  <2>1. CASE PullAxis(w)
    <3>1. PICK a : a = First(queue)
      OBVIOUS
    <3>2. a \in queue /\ a \in Axis
      BY <1>0, <1>3, <2>1, <3>1, FirstIsMember DEF PullAxis, TypeOK, Places
    <3>3. /\ queue' = queue \ {a}
          /\ job' = [job EXCEPT ![w] = a]
          /\ unit' = [unit EXCEPT ![w] = 1]
          /\ pc' = [pc EXCEPT ![w] =
                      IF a \in cfg.auditors THEN "batch" ELSE "axis"]
          /\ sweeps' = [sweeps EXCEPT ![a].truncated = a \notin cfg.auditors]
          /\ UNCHANGED <<stage, cfg, progress>>
          /\ pc[w] = "axis"
      BY <2>1, <3>1 DEF PullAxis
    <3>4. \A v \in Worker : Auditing(v) => job[v] # a
      BY <3>2 DEF SInv, Audits
    <3>5. sweeps[a] = NoSweep
      BY <1>3, <3>2, <3>4 DEF SInv, Axes
    <3>6. /\ Told(sweeps'[a]) = {}
          /\ sweeps'[a].truncated = (a \notin cfg.auditors)
          /\ \A c \in Axis \ {a} : sweeps'[c] = sweeps[c]
      BY <1>0, <3>2, <3>3, <3>5 DEF NoSweep, Told, TypeOK
    <3>7. Covers(1) = {}
      BY <1>0, BatchesCover
    <3>8. /\ job'[w] = a /\ unit'[w] = 1
          /\ pc'[w] = IF a \in cfg.auditors THEN "batch" ELSE "axis"
          /\ \A v \in Worker \ {w} :
               pc'[v] = pc[v] /\ job'[v] = job[v] /\ unit'[v] = unit[v]
      BY <1>0, <3>3 DEF TypeOK
    <3>9. \/ /\ Auditing(w)' /\ job'[w] = a /\ unit'[w] >= 1
             /\ Told(sweeps'[a]) = Covers(unit'[w])
          \/ ~ Auditing(w)' /\ Honest(a)'
      <4>1. CASE a \in cfg.auditors
        BY <3>6, <3>7, <3>8, <4>1 DEF Auditing
      <4>2. CASE a \notin cfg.auditors
        <5>1. sweeps'[a].truncated = TRUE
          BY <3>6, <4>2
        <5> QED BY <3>8, <4>2, <5>1 DEF Auditing, Honest
      <4> QED BY <4>1, <4>2
    <3>10. ~ Auditing(w) /\ pc'[w] # "out"
      BY <3>3, <3>8 DEF Auditing
    <3> QED BY <1>0, <1>3, <3>2, <3>3, <3>4, <3>6, <3>8, <3>9, <3>10, AxisStep
  <2>2. CASE BeginBatch(w) \/ EndSweep(w) \/ CutSweep(w) \/ Audit(w)
    <3>1. PICK a : a = job[w]
      OBVIOUS
    <3>2. PICK i : i = unit[w]
      OBVIOUS
    <3>3. Auditing(w) /\ UNCHANGED <<stage, cfg, progress, queue, job>>
      BY <2>2 DEF BeginBatch, EndSweep, CutSweep, Audit, Auditing
    <3>4. /\ a \in Axis /\ a \notin queue /\ i \in Nat /\ i >= 1
          /\ Told(sweeps[a]) = Covers(i)
          /\ \A v \in Worker \ {w} : Auditing(v) => job[v] # a
      BY <1>0, <3>1, <3>2, <3>3 DEF SInv, Audits, Places, Auditing, TypeOK
    <3>5. queue' = queue \ {a}
      BY <3>3, <3>4
    <3>6. /\ Covers(i + 1) = Covers(i) \cup Batch(i)
          /\ Batch(i) = {} => Covers(i) = progress.done
      BY <1>0, <3>4, BatchesCover
    <3>7. pc'[w] # "out"
          /\ \A v \in Worker \ {w} : pc'[v] = pc[v] /\ unit'[v] = unit[v]
      BY <1>0, <2>2 DEF BeginBatch, EndSweep, CutSweep, Audit, TypeOK
    <3>8. \A c \in Axis \ {a} : sweeps'[c] = sweeps[c]
      BY <1>0, <2>2, <3>1, <3>4
         DEF BeginBatch, EndSweep, CutSweep, Audit, TypeOK
    <3>9. \/ /\ Auditing(w)' /\ job'[w] = a /\ unit'[w] >= 1
             /\ Told(sweeps'[a]) = Covers(unit'[w])
          \/ ~ Auditing(w)' /\ Honest(a)'
      <4>1. CASE BeginBatch(w)
        BY <1>0, <3>1, <3>2, <3>3, <3>4, <4>1
           DEF BeginBatch, Auditing, TypeOK
      <4>2. CASE EndSweep(w)
        <5>1. pc'[w] = "axis" /\ Batch(i) = {}
          BY <1>0, <3>2, <4>2 DEF EndSweep, TypeOK
        <5>2. PICK b \in BOOLEAN :
                sweeps' = [sweeps EXCEPT ![a].truncated = b]
          BY <1>0, <3>1, <3>4, <4>2, EndSweepEffect
        <5>3. Told(sweeps'[a]) = Told(sweeps[a])
          BY <1>0, <3>4, <5>2 DEF Told, TypeOK, Summary
        <5> QED BY <3>3, <3>4, <3>6, <5>1, <5>3 DEF Auditing, Honest
      <4>3. CASE CutSweep(w)
        <5>1. pc'[w] = "axis"
          BY <1>0, <4>3 DEF CutSweep, TypeOK
        <5>2. sweeps' = [sweeps EXCEPT ![a].truncated = TRUE]
          BY <3>1, <4>3 DEF CutSweep
        <5>3. sweeps \in [Axis -> Summary]
          BY <1>0 DEF TypeOK
        <5>4. sweeps'[a].truncated
          BY <3>4, <5>2, <5>3 DEF Summary
        <5> QED BY <5>1, <5>4 DEF Auditing, Honest
      <4>4. CASE Audit(w)
        <5>1. pc'[w] = "batch" /\ unit'[w] = i + 1
          BY <1>0, <3>2, <4>4 DEF Audit, TypeOK
        <5>2. PICK y \in Summary :
                /\ sweeps' = [sweeps EXCEPT ![a] = y]
                /\ Told(y) = Told(sweeps[a]) \cup Batch(i)
          BY <1>0, <3>1, <3>2, <3>4, <4>4, AuditEffect
        <5>3. sweeps \in [Axis -> Summary]
          BY <1>0 DEF TypeOK
        <5>4. Told(sweeps'[a]) = Told(sweeps[a]) \cup Batch(i)
          BY <3>4, <5>2, <5>3
        <5>5. i + 1 >= 1
          BY <3>4
        <5> QED BY <3>1, <3>3, <3>4, <3>6, <5>1, <5>4, <5>5 DEF Auditing
      <4> QED BY <2>2, <4>1, <4>2, <4>3, <4>4
    <3> QED BY <1>0, <1>3, <3>1, <3>3, <3>4, <3>5, <3>7, <3>8, <3>9, AxisStep
  <2> QED BY <1>3, <2>0, <2>1, <2>2
          DEF Step, Pull, BeginUnit, Interrupt, Dispatch, Checkpoint, Mark
<1> QED BY <1>1, <1>2, <1>3

\* A step of run_mission keeps it.
LEMMA MainHonest ==
  ASSUME IInv, SInv, Places', Main
  PROVE  SInv'
<1>0. TypeOK /\ Places
  BY DEF IInv
<1>1. CASE Design \/ LeaveWaves \/ SkipWave \/ StartWave \/ EndWave \/ Gates
  <2>1. stage \in {"design", "waves", "porting", "gates"} /\ sweeps' = sweeps
    BY <1>0, <1>1 DEF Design, LeaveWaves, SkipWave, StartWave, EndWave, Gates
  <2>2. stage' \in {"waves", "porting", "gates", "sweeps"}
    BY <1>1, <2>1 DEF Design, LeaveWaves, SkipWave, StartWave, EndWave, Gates
  <2>3. Unswept' /\ SweepsAreHonest'
    BY <2>1, <2>2 DEF SInv, Unswept, SweepsAreHonest
  <2> QED BY <2>2, <2>3, NoAudit
<1>2. CASE StartSweeps
  <2>1. stage = "sweeps" /\ UNCHANGED <<cfg, progress, sweeps>>
    BY <1>2 DEF StartSweeps
  <2>2. \A a \in Axis : sweeps'[a] = NoSweep
    BY <2>1 DEF SInv, Unswept
  <2>3. CASE stage' = "sweeping"
    <3>1. queue' = Axis
      BY <1>2, <2>3 DEF StartSweeps
    <3>2. pc' = [w \in Worker |->
                   IF w <= cfg.parallelism /\ w <= NumAxes
                   THEN "axis" ELSE "out"]
      BY <1>2, <2>3 DEF StartSweeps
    <3>3. \A w \in Worker : ~ Auditing(w)'
      BY <3>2 DEF Auditing
    <3>4. Crewed'
      <4> SUFFICES ASSUME Axis # {} PROVE \E w \in Worker : pc'[w] # "out"
        BY <3>1 DEF Crewed
      <4>1. 1 \in Worker /\ 1 <= NumAxes /\ 1 <= cfg.parallelism
        BY <1>0, PlanAssumption, ConfigFields DEF Axis, Worker, TypeOK
      <4>2. pc'[1] = "axis"
        BY <3>2, <4>1
      <4> QED BY <4>1, <4>2
    <3> QED BY <2>2, <2>3, <3>1, <3>3, <3>4
            DEF SInv, Unswept, Audits, Axes, SweepsAreHonest
  <2>4. CASE stage' # "sweeping"
    <3>1. stage' = "remediation"
      BY <1>2, <2>4 DEF StartSweeps
    <3>2. ~ (cfg.run_sweeps /\ "porter" \in cfg.seats /\ ~cfg.dry_run
             /\ progress.done # {})
      BY <1>2, <2>4 DEF StartSweeps
    <3>3. SweepsAreHonest'
      BY <2>1, <2>2, <3>2 DEF SweepsAreHonest, NoSweep
    <3>4. Unswept'
      BY <3>1 DEF Unswept
    <3> QED BY <2>4, <3>3, <3>4, NoAudit
  <2> QED BY <2>3, <2>4
<1>3. CASE EndSweeps
  <2>1. /\ stage = "sweeping" /\ stage' = "remediation"
        /\ \A w \in Worker : pc[w] = "out"
        /\ UNCHANGED <<cfg, progress, sweeps>>
    BY <1>3 DEF EndSweeps
  <2>2. queue = {} /\ \A w \in Worker : ~ Auditing(w)
    BY <2>1 DEF SInv, Crewed, Auditing
  <2>3. \A a \in Axis : Honest(a)
    BY <2>1, <2>2 DEF SInv, Axes
  <2>4. Unswept' /\ SweepsAreHonest'
    BY <2>1, <2>3 DEF Unswept, SweepsAreHonest, Honest, Told
  <2> QED BY <2>1, <2>4, NoAudit
<1>4. CASE Remediation \/ Parity \/ Documentation
  <2>1. /\ PhaseStep
        /\ stage' \in {"parity", "documentation", "final"}
        /\ stage \in {"remediation", "parity", "documentation"}
    BY <1>0, <1>4, RemediationPhase, ClosingPhase
       DEF Remediation, Parity, Documentation, Closing
  <2>2. Unswept' /\ SweepsAreHonest'
    BY <2>1 DEF SInv, Unswept, SweepsAreHonest, PhaseStep
  <2> QED BY <2>1, <2>2, NoAudit
<1>5. CASE Finish
  <2>1. stage' = "idle" /\ sweeps' = [a \in Axis |-> NoSweep]
    BY <1>5 DEF Finish, Reset
  <2>2. Unswept' /\ SweepsAreHonest'
    BY <2>1 DEF Unswept, SweepsAreHonest
  <2> QED BY <2>1, <2>2, NoAudit
<1> QED BY <1>1, <1>2, <1>3, <1>4, <1>5 DEF Main

\* Every step keeps it.
LEMMA NextHonest ==
  ASSUME IInv, SInv, [Next]_vars
  PROVE  SInv'
<1>0. IInv' /\ Places'
  BY NextInvariant DEF IInv
<1>1. CASE Main
  BY <1>0, <1>1, MainHonest
<1>2. CASE Start \/ Crash
  <2>1. stage' \in {"idle", "design"} /\ sweeps' = [a \in Axis |-> NoSweep]
    BY <1>2 DEF Start, Crash, Reset
  <2>2. Unswept' /\ SweepsAreHonest'
    BY <2>1 DEF Unswept, SweepsAreHonest
  <2> QED BY <1>0, <2>1, <2>2, NoAudit
<1>3. CASE WallClock \/ UNCHANGED vars
  <2>1. UNCHANGED <<stage, queue, cfg, progress, pc, job, unit, sweeps>>
    BY <1>3 DEF WallClock, vars
  <2>2. Audits'
    BY <2>1 DEF SInv, Audits, Auditing, Covers, Rank
  <2> QED BY <2>1, <2>2 DEF SInv, Unswept, Crewed, Axes, Honest, Auditing,
                            SweepsAreHonest
<1>4. CASE \E w \in Worker : Step(w)
  BY <1>0, <1>4, StepHonest
<1> QED BY <1>1, <1>2, <1>3, <1>4 DEF Next

\* A sweep of run_sweeps that does not report itself as truncated has
\* dispatched every ported sector, whatever the number of auditors, batches,
\* workers and caps: batches cut from the plan order leave no sector out, and
\* no queued axis is left behind.
THEOREM SweepsCoverEverything == Spec => []SweepsAreHonest
<1>1. Init => SInv
  BY DEF Init, SInv, Unswept, Crewed, Audits, Axes, SweepsAreHonest, Auditing
<1>2. IInv /\ SInv /\ [Next]_vars => SInv'
  BY NextHonest
<1>3. SInv => SweepsAreHonest
  BY DEF SInv
<1> QED BY <1>1, <1>2, <1>3, Invariance, PTL DEF Spec

-----------------------------------------------------------------------------
(* Every run is finite: each of its steps shortens what is left of it.     *)

Ported == Cardinality(progress.done)

\* The steps worker w can at most take before it comes back for the next
\* sector or axis and finds none.
Left ==
  [w \in Worker |->
     CASE pc[w] \in {"pull", "axis"} -> 1
       [] pc[w] = "mark"       -> 2
       [] pc[w] = "checkpoint" -> 3
       [] pc[w] = "dispatch"   -> 4 + 2 * (Units[job[w]] - unit[w])
       [] pc[w] = "unit"       -> 5 + 2 * (Units[job[w]] - unit[w])
       [] pc[w] = "audit"      -> 2 + 2 * (Ported + 1 - unit[w])
       [] pc[w] = "batch"      -> 3 + 2 * (Ported + 1 - unit[w])
       [] OTHER                -> 0]

\* As many pairs as the numbers f[w] amount to together.
Pairs(f) == UNION {{w} \X (1 .. f[w]) : w \in Worker}

\* The stages still ahead; waves are opened and closed in turn.
StagesLeft ==
  CASE stage = "design"        -> 9
    [] stage \in {"waves", "porting"} -> 8
    [] stage = "gates"         -> 7
    [] stage = "sweeps"        -> 6
    [] stage = "sweeping"      -> 5
    [] stage = "remediation"   -> 4
    [] stage = "parity"        -> 3
    [] stage = "documentation" -> 2
    [] stage = "final"         -> 1
    [] OTHER                   -> 0

Measure ==
  <<StagesLeft, Len(Waves) - wave, IF stage = "waves" THEN 1 ELSE 0,
    Cardinality(queue), Cardinality(Pairs(Left)), IF late THEN 0 ELSE 1>>

Shorter == LexProductOrdering(OpToRel(<, Nat), Nat, 6)

\* A step within a run leaves less to do.
Shortens ==
  stage # "idle" /\ stage' # "idle" => <<Measure', Measure>> \in Shorter

\* The measure is made of numbers: the wave loop and the sweeps do not run
\* past their ends.
Ends ==
  /\ IsFiniteSet(queue)
  /\ wave <= Len(Waves)
  /\ stage = "porting" => wave < Len(Waves)
  /\ \A w \in Worker :
       /\ pc[w] = "batch" => unit[w] <= Ported + 1
       /\ pc[w] = "audit" => unit[w] <= Ported

\* Finitely many numbers make finitely many pairs.
LEMMA PairsFinite ==
  ASSUME NEW f \in [Worker -> Nat]
  PROVE  IsFiniteSet(Pairs(f)) /\ Cardinality(Pairs(f)) \in Nat
<1> DEFINE T == {{w} \X (1 .. f[w]) : w \in Worker}
           g == [w \in Worker |-> {w} \X (1 .. f[w])]
<1>1. IsFiniteSet(Worker)
  BY PlanAssumption, FS_Interval DEF Worker
<1>2. g \in Surjection(Worker, T)
  BY DEF Surjection
<1>3. IsFiniteSet(T)
  <2> HIDE DEF T, g
  <2> QED BY <1>1, <1>2, FS_Surjection DEF ExistsSurjection
<1>4. ASSUME NEW w \in Worker PROVE IsFiniteSet({w} \X (1 .. f[w]))
  <2>1. IsFiniteSet({w})
    BY FS_Singleton
  <2>2. IsFiniteSet(1 .. f[w])
    BY FS_Interval
  <2> QED BY <2>1, <2>2, FS_Product
<1>5. \A S \in T : IsFiniteSet(S)
  BY <1>4
<1>6. IsFiniteSet(UNION T)
  <2> HIDE DEF T
  <2> QED BY <1>3, <1>5, FS_UNION
<1> QED BY <1>6, FS_CardinalityType DEF Pairs

\* One number falls, the others stay: there are fewer pairs.
LEMMA PairsShrink ==
  ASSUME NEW f \in [Worker -> Nat], NEW g \in [Worker -> Nat],
         NEW w \in Worker, g[w] < f[w],
         \A v \in Worker \ {w} : g[v] = f[v]
  PROVE  Cardinality(Pairs(g)) < Cardinality(Pairs(f))
<1>1. \A v \in Worker : f[v] \in Nat /\ g[v] \in Nat /\ g[v] <= f[v]
  OBVIOUS
<1>2. Pairs(g) \subseteq Pairs(f)
  <2>1. \A v \in Worker : 1 .. g[v] \subseteq 1 .. f[v]
    BY <1>1
  <2> SUFFICES ASSUME NEW x \in Pairs(g) PROVE x \in Pairs(f)
    OBVIOUS
  <2>2. PICK v \in Worker : x \in {v} \X (1 .. g[v])
    BY DEF Pairs
  <2>3. x \in {v} \X (1 .. f[v])
    BY <2>1, <2>2
  <2> QED BY <2>3 DEF Pairs
<1>3. <<w, f[w]>> \in Pairs(f)
  <2>1. f[w] \in 1 .. f[w]
    BY <1>1
  <2> QED BY <2>1 DEF Pairs
<1>4. <<w, f[w]>> \notin Pairs(g)
  <2> SUFFICES ASSUME <<w, f[w]>> \in Pairs(g) PROVE FALSE
    OBVIOUS
  <2>1. PICK v \in Worker : <<w, f[w]>> \in {v} \X (1 .. g[v])
    BY DEF Pairs
  <2>2. v = w /\ f[w] \in 1 .. g[w]
    BY <2>1
  <2> QED BY <1>1, <2>2
<1>5. /\ Cardinality(Pairs(g)) <= Cardinality(Pairs(f))
      /\ Cardinality(Pairs(g)) # Cardinality(Pairs(f))
  <2>1. Pairs(g) \in SUBSET Pairs(f) /\ Pairs(f) # Pairs(g)
    BY <1>2, <1>3, <1>4
  <2>2. IsFiniteSet(Pairs(f))
    BY PairsFinite
  <2> HIDE DEF Pairs
  <2> QED BY <2>1, <2>2, FS_Subset
<1> QED BY <1>5, PairsFinite

\* The ported sectors can be counted, and a batch that is not empty is one of
\* that many.
LEMMA BatchesEnd ==
  ASSUME TypeOK
  PROVE  /\ Ported \in Nat
         /\ \A i \in Nat : i >= 1 /\ Batch(i) # {} => i <= Ported
<1>1. PICK D : D = progress.done
  OBVIOUS
<1>2. PICK b : b = cfg.sweep_batch_sectors
  OBVIOUS
<1>3. D \in SUBSET Sector /\ b \in Nat \ {0}
  BY <1>1, <1>2 DEF TypeOK, Progress, Config, ConfigOf
<1>4. IsFiniteSet(D) /\ Cardinality(D) \in Nat
  <2>1. IsFiniteSet(Sector)
    BY PlanAssumption, FS_Interval DEF Sector
  <2>2. IsFiniteSet(D)
    BY <1>3, <2>1, FS_Subset
  <2> QED BY <2>2, FS_CardinalityType
<1>5. ASSUME NEW i \in Nat, i >= 1, Batch(i) # {}
      PROVE  i <= Cardinality(D)
  <2>1. PICK s \in D : (i - 1) * b < Rank(s)
    BY <1>1, <1>2, <1>5 DEF Batch
  <2>2. PICK U : U = {t \in D : t <= s}
    OBVIOUS
  <2>3. Rank(s) = Cardinality(U)
    BY <1>1, <2>2 DEF Rank
  <2>4. U \in SUBSET D
    BY <2>2
  <2>5. IsFiniteSet(U) /\ Cardinality(U) <= Cardinality(D)
    BY <1>4, <2>4, FS_Subset
  <2>6. Cardinality(U) \in Nat
    BY <2>5, FS_CardinalityType
  <2>7. PICK k : k = i - 1
    OBVIOUS
  <2>8. k \in Nat
    BY <1>5, <2>7
  <2>9. k <= k * b
    <3>1. PICK c \in Nat : b = c + 1
      <4>1. b - 1 \in Nat /\ b = (b - 1) + 1
        BY <1>3
      <4> QED BY <4>1
    <3>2. k * b = k * c + k /\ k * c \in Nat
      BY <2>8, <3>1
    <3> QED BY <2>8, <3>2
  <2>10. k * b \in Nat
    BY <1>3, <2>8
  <2> QED BY <1>4, <1>5, <2>1, <2>3, <2>5, <2>6, <2>7, <2>8, <2>9, <2>10
<1> QED BY <1>1, <1>4, <1>5 DEF Ported

\* What a worker has left is a number.
LEMMA LeftType ==
  ASSUME TypeOK, Hands, Ends
  PROVE  Left \in [Worker -> Nat]
<1> SUFFICES ASSUME NEW w \in Worker PROVE Left[w] \in Nat
  BY DEF Left
<1>1. unit[w] \in Nat /\ Ported \in Nat
  BY BatchesEnd DEF TypeOK
<1>2. CASE pc[w] \in {"dispatch", "unit"}
  <2>1. job[w] \in Sector /\ unit[w] \in 1..Units[job[w]]
    BY <1>2 DEF Hands, AtWork
  <2>2. PICK k \in Nat : k = Units[job[w]] - unit[w]
    BY <2>1, PlanAssumption
  <2>3. Left[w] \in {4 + 2 * k, 5 + 2 * k}
    BY <1>2, <2>2 DEF Left
  <2> QED BY <2>3
<1>3. CASE pc[w] \in {"audit", "batch"}
  <2>1. PICK k \in Nat : k = Ported + 1 - unit[w]
    BY <1>1, <1>3 DEF Ends
  <2>2. Left[w] \in {2 + 2 * k, 3 + 2 * k}
    BY <1>3, <2>1 DEF Left
  <2> QED BY <2>2
<1>4. CASE pc[w] \notin {"dispatch", "unit", "audit", "batch"}
  BY <1>4 DEF Left
<1> QED BY <1>2, <1>3, <1>4

\* The wave loop stops behind the last wave, a sweep behind the last batch.
LEMMA EndsInit == Init => Ends
BY PlanAssumption, FS_EmptySet DEF Init, Ends

\* Every step keeps that.
LEMMA EndsNext ==
  ASSUME TypeOK, Places, Places', Ends, Next
  PROVE  Ends'
<1>1. Len(Waves) \in Nat /\ DOMAIN Waves = 1..Len(Waves) /\ wave \in Nat
  BY PlanAssumption DEF TypeOK
<1>2. \A w \in Worker : unit[w] \in Nat
  BY DEF TypeOK
<1>3. IsFiniteSet(queue')
  <2>1. IsFiniteSet(Sector) /\ IsFiniteSet(Axis) /\ IsFiniteSet({})
    BY PlanAssumption, FS_Interval, FS_EmptySet DEF Sector, Axis
  <2>2. CASE StartWave
    <3>1. wave + 1 \in DOMAIN Waves /\ queue' = Pending(wave + 1)
      BY <2>2 DEF StartWave, WavesOver
    <3>2. queue' \in SUBSET Sector
      BY <3>1, PlanAssumption DEF Pending
    <3> QED BY <2>1, <3>2, FS_Subset
  <2>3. CASE ~StartWave
    <3>1. queue' \in {queue, {}, Axis} \/ queue' = queue \ {First(queue)}
      BY <2>3 DEF Next, Start, Main, Crash, WallClock, Step, Design, LeaveWaves,
           SkipWave, EndWave, Gates, StartSweeps, EndSweeps, Remediation,
           Parity, Documentation, Closing, Finish, Reset, Pull, Leave,
           BeginUnit, Interrupt, Dispatch, Checkpoint, Mark, PullAxis,
           BeginBatch, CutSweep, EndSweep, Audit
    <3>2. IsFiniteSet(queue \ {First(queue)})
      BY FS_RemoveElement DEF Ends
    <3> QED BY <2>1, <3>1, <3>2 DEF Ends
  <2> QED BY <2>2, <2>3
<1>4. CASE Start \/ Crash \/ Finish
  BY <1>1, <1>3, <1>4 DEF Start, Crash, Finish, Reset, Ends
<1>5. CASE stage' # "sweeping" /\ (Main \/ WallClock) /\ ~Finish
  <2>1. \A w \in Worker : pc'[w] \notin {"batch", "audit"}
    BY <1>5 DEF Places
  <2>2. wave' <= Len(Waves) /\ (stage' = "porting" => wave' < Len(Waves))
    BY <1>1, <1>5 DEF Main, Design, LeaveWaves, SkipWave, StartWave, EndWave,
         WavesOver, Gates, StartSweeps, EndSweeps, Remediation, Parity,
         Documentation, Closing, WallClock, Ends
  <2> QED BY <1>3, <2>1, <2>2 DEF Ends
<1>6. CASE stage' = "sweeping" /\ (Main \/ WallClock)
  <2>1. wave' = wave /\ progress' = progress
    BY <1>6 DEF Main, Design, LeaveWaves, SkipWave, StartWave, EndWave, Gates,
         StartSweeps, EndSweeps, Remediation, Parity, Documentation, Closing,
         Finish, WallClock
  <2>2. \/ UNCHANGED <<pc, unit>>
        \/ \A w \in Worker : pc'[w] \notin {"batch", "audit"}
    BY <1>6 DEF Main, Design, LeaveWaves, SkipWave, StartWave, EndWave, Gates,
         StartSweeps, EndSweeps, Remediation, Parity, Documentation, Closing,
         Finish, WallClock
  <2> QED BY <1>3, <1>6, <2>1, <2>2 DEF Ends, Ported
<1>7. ASSUME NEW w \in Worker, Step(w) PROVE Ends'
  <2>1. UNCHANGED <<stage, wave>>
    BY <1>7 DEF Step, Pull, Leave, BeginUnit, Interrupt, Dispatch, Checkpoint,
         Mark, PullAxis, BeginBatch, CutSweep, EndSweep, Audit
  <2>2. CASE stage = "sweeping"
    <3>1. pc[w] \in {"axis", "batch", "audit", "out"}
      BY <2>2 DEF Places, AtWork, TypeOK
    <3>2. progress' = progress
      BY <1>7, <3>1 DEF Step, Pull, Leave, BeginUnit, Interrupt, Dispatch,
           Checkpoint, Mark, PullAxis, BeginBatch, CutSweep, EndSweep, Audit
    <3>3. Ported' = Ported /\ Ported \in Nat
      BY <3>2, BatchesEnd DEF Ported
    <3>4. \A v \in Worker \ {w} : pc'[v] = pc[v] /\ unit'[v] = unit[v]
      BY <1>7, <3>1 DEF Step, Pull, Leave, BeginUnit, Interrupt, Dispatch,
           Checkpoint, Mark, PullAxis, BeginBatch, CutSweep, EndSweep, Audit,
           TypeOK
    <3>5. pc'[w] = "batch" => unit'[w] <= Ported + 1
      <4>1. CASE PullAxis(w)
        BY <3>3, <4>1 DEF PullAxis, TypeOK
      <4>2. CASE Audit(w)
        BY <1>2, <3>3, <4>2 DEF Audit, TypeOK, Ends
      <4>3. CASE ~PullAxis(w) /\ ~Audit(w)
        BY <1>7, <3>1, <4>3 DEF Step, Pull, Leave, BeginUnit, Interrupt,
             Dispatch, Checkpoint, Mark, BeginBatch, CutSweep, EndSweep, TypeOK
      <4> QED BY <4>1, <4>2, <4>3
    <3>6. pc'[w] = "audit" => unit'[w] <= Ported
      <4> SUFFICES ASSUME pc'[w] = "audit" PROVE unit'[w] <= Ported
        OBVIOUS
      <4>1. BeginBatch(w)
        BY <1>7, <3>1 DEF Step, Pull, Leave, BeginUnit, Interrupt, Dispatch,
             Checkpoint, Mark, PullAxis, BeginBatch, CutSweep, EndSweep, Audit,
             TypeOK
      <4>2. Batch(unit[w]) # {} /\ unit'[w] = unit[w]
        BY <4>1 DEF BeginBatch
      <4>3. CASE unit[w] >= 1
        BY <1>2, <4>2, <4>3, BatchesEnd
      <4>4. CASE unit[w] = 0
        BY <3>3, <4>2, <4>4
      <4> QED BY <1>2, <4>3, <4>4
    <3> QED BY <1>3, <2>1, <2>2, <3>3, <3>4, <3>5, <3>6 DEF Ends
  <2>3. CASE stage # "sweeping"
    <3>1. \A v \in Worker : pc'[v] \notin {"batch", "audit"}
      BY <2>1, <2>3 DEF Places
    <3> QED BY <1>3, <2>1, <3>1 DEF Ends
  <2> QED BY <2>2, <2>3
<1> QED BY <1>4, <1>5, <1>6, <1>7 DEF Next

\* The measure of a run is made of numbers.
Measured ==
  /\ Left \in [Worker -> Nat]
  /\ Measure \in [1..6 -> Nat]
  /\ Measure[1] = StagesLeft
  /\ Measure[2] = Len(Waves) - wave
  /\ Measure[3] = IF stage = "waves" THEN 1 ELSE 0
  /\ Measure[4] = Cardinality(queue)
  /\ Measure[5] = Cardinality(Pairs(Left))
  /\ Measure[6] = IF late THEN 0 ELSE 1

\* The components of the measure, before a step
LEMMA MeasureType == IInv /\ Ends => Measured
<1> SUFFICES ASSUME IInv, Ends PROVE Measured
  OBVIOUS
<1>1. StagesLeft \in Nat
  BY DEF StagesLeft
<1>2. Len(Waves) - wave \in Nat
  BY PlanAssumption DEF IInv, TypeOK, Ends
<1>3. Cardinality(queue) \in Nat
  BY FS_CardinalityType DEF Ends
<1>4. Left \in [Worker -> Nat] /\ Cardinality(Pairs(Left)) \in Nat
  BY LeftType, PairsFinite DEF IInv
<1> QED BY <1>1, <1>2, <1>3, <1>4 DEF Measure, Measured

\* and after it.
LEMMA MeasureTypeNext == IInv' /\ Ends' => Measured'
BY MeasureType, PTL

\* The order is lexicographic.
LEMMA Falls ==
  ASSUME NEW m \in [1..6 -> Nat], NEW n \in [1..6 -> Nat], NEW j \in 1..6,
         \A i \in 1..(j - 1) : m[i] = n[i], m[j] < n[j]
  PROVE  <<m, n>> \in Shorter
<1>1. <<m[j], n[j]>> \in OpToRel(<, Nat)
  BY DEF OpToRel
<1>2. PICK R : R = OpToRel(<, Nat)
  OBVIOUS
<1>3. <<m, n>> \in LexProductOrdering(R, Nat, 6)
  BY <1>1, <1>2 DEF LexProductOrdering
<1> QED BY <1>2, <1>3 DEF Shorter

\* A worker's step other than taking work leaves it less to do, and the others
\* what they had.
LEMMA StepLeft ==
  ASSUME IInv, Ends, Measured, Measured', NEW w \in Worker,
         Step(w), ~Pull(w), ~PullAxis(w)
  PROVE  /\ UNCHANGED <<stage, wave, queue>>
         /\ Left'[w] < Left[w]
         /\ \A v \in Worker \ {w} : Left'[v] = Left[v]
<1>1. UNCHANGED <<stage, wave, queue, job>> \/ Mark(w)
  BY DEF Step, Leave, BeginUnit, Interrupt, Dispatch, Checkpoint, BeginBatch,
       CutSweep, EndSweep, Audit
<1>2. UNCHANGED <<stage, wave, queue>>
  BY <1>1 DEF Mark
<1>3. /\ job \in [Worker -> Nat] /\ unit \in [Worker -> Nat]
      /\ pc \in [Worker -> {"out", "pull", "unit", "dispatch", "checkpoint",
                            "mark", "axis", "batch", "audit"}]
  BY DEF IInv, TypeOK
<1>4. \A v \in Worker \ {w} :
        pc'[v] = pc[v] /\ job'[v] = job[v] /\ unit'[v] = unit[v]
  BY <1>3 DEF Step, Leave, BeginUnit, Interrupt, Dispatch, Checkpoint, Mark,
       BeginBatch, CutSweep, EndSweep, Audit
<1>5. progress' = progress \/ pc[w] = "mark"
  BY DEF Step, Leave, BeginUnit, Interrupt, Dispatch, Checkpoint, Mark,
       BeginBatch, CutSweep, EndSweep, Audit
<1>6. pc[w] = "mark" => \A v \in Worker : pc[v] \notin {"batch", "audit"}
  BY DEF IInv, Places, AtWork
<1>7. ASSUME NEW v \in Worker \ {w} PROVE Left'[v] = Left[v]
  BY <1>4, <1>5, <1>6 DEF Left, Ported
<1>8. unit[w] \in Nat /\ Ported \in Nat
  BY <1>3, BatchesEnd DEF IInv
<1>9. AtWork(w) => /\ job[w] \in Sector /\ Units[job[w]] \in Nat
                   /\ unit[w] <= Units[job[w]]
  BY PlanAssumption DEF IInv, Hands
<1>10. Left'[w] < Left[w]
  <2>1. CASE Leave(w)
    BY <1>3, <2>1 DEF Leave, Left
  <2>2. CASE BeginUnit(w)
    BY <1>3, <1>8, <1>9, <2>2 DEF BeginUnit, Left, AtWork
  <2>3. CASE Interrupt(w)
    BY <1>3, <1>8, <1>9, <2>3 DEF Interrupt, Left, AtWork
  <2>4. CASE Dispatch(w)
    BY <1>3, <1>8, <1>9, <2>4 DEF Dispatch, Left, AtWork
  <2>5. CASE Checkpoint(w)
    BY <1>3, <2>5 DEF Checkpoint, Left
  <2>6. CASE Mark(w)
    BY <1>3, <2>6 DEF Mark, Left
  <2>7. CASE BeginBatch(w)
    BY <1>3, <1>8, <2>7 DEF BeginBatch, Left, Ends, Ported
  <2>8. CASE CutSweep(w)
    BY <1>3, <1>8, <2>8 DEF CutSweep, Left, Ends, Ported
  <2>9. CASE EndSweep(w)
    BY <1>3, <1>8, <2>9 DEF EndSweep, Left, Ends, Ported
  <2>10. CASE Audit(w)
    BY <1>3, <1>8, <2>10 DEF Audit, Left, Ends, Ported
  <2> QED BY <2>1, <2>2, <2>3, <2>4, <2>5, <2>6, <2>7, <2>8, <2>9, <2>10
          DEF Step
<1> QED BY <1>2, <1>7, <1>10

\* Every step of a run brings its end nearer.
LEMMA StepShortens ==
  ASSUME IInv, Ends, IInv', Ends', Next, stage # "idle", stage' # "idle"
  PROVE  <<Measure', Measure>> \in Shorter
<1>1. Measured /\ Measured'
  BY MeasureType, MeasureTypeNext
<1>2. Measure \in [1..6 -> Nat] /\ Measure' \in [1..6 -> Nat]
  BY <1>1 DEF Measured
<1>3. \A j \in 1..6 :
        (/\ Measure'[j] < Measure[j]
         /\ \A i \in 1..(j - 1) : Measure'[i] = Measure[i])
          => <<Measure', Measure>> \in Shorter
  BY <1>2, Falls
<1>4. ASSUME StagesLeft' < StagesLeft PROVE <<Measure', Measure>> \in Shorter
  <2>1. Measure'[1] < Measure[1]
    BY <1>1, <1>4 DEF Measured
  <2> QED BY <1>3, <2>1
<1>5. CASE Design \/ LeaveWaves \/ Gates \/ StartSweeps \/ EndSweeps
            \/ Remediation \/ Parity \/ Documentation
  <2>1. StagesLeft' < StagesLeft
    BY <1>5 DEF Design, LeaveWaves, Gates, StartSweeps, EndSweeps, Remediation,
         Parity, Documentation, Closing, StagesLeft
  <2> QED BY <1>4, <2>1
<1>6. CASE SkipWave \/ EndWave
  <2>1. StagesLeft' = StagesLeft /\ wave' = wave + 1
    BY <1>6 DEF SkipWave, EndWave, StagesLeft
  <2>2. wave \in Nat /\ Len(Waves) \in Nat
    BY PlanAssumption DEF IInv, TypeOK
  <2>3. Measure'[1] = Measure[1] /\ Measure'[2] < Measure[2]
    BY <1>1, <2>1, <2>2 DEF Measured
  <2> QED BY <1>3, <2>3
<1>7. CASE StartWave
  <2>1. StagesLeft' = StagesLeft /\ wave' = wave
    BY <1>7 DEF StartWave, StagesLeft
  <2>2. Measure'[1] = Measure[1] /\ Measure'[2] = Measure[2]
    BY <1>1, <2>1 DEF Measured
  <2>3. Measure'[3] < Measure[3]
    BY <1>1, <1>7 DEF Measured, StartWave
  <2> QED BY <1>3, <2>2, <2>3
<1>8. CASE WallClock
  <2>1. /\ StagesLeft' = StagesLeft /\ Left' = Left
        /\ UNCHANGED <<stage, wave, queue>>
    BY <1>8 DEF WallClock, StagesLeft, Left, Ported
  <2>2. /\ Measure'[1] = Measure[1] /\ Measure'[2] = Measure[2]
        /\ Measure'[3] = Measure[3] /\ Measure'[4] = Measure[4]
        /\ Measure'[5] = Measure[5]
    BY <1>1, <2>1 DEF Measured
  <2>3. Measure'[6] < Measure[6]
    BY <1>1, <1>8 DEF Measured, WallClock
  <2> QED BY <1>3, <2>2, <2>3
<1>9. ASSUME NEW w \in Worker, Pull(w) \/ PullAxis(w)
      PROVE  <<Measure', Measure>> \in Shorter
  <2>1. /\ UNCHANGED <<stage, wave>> /\ StagesLeft' = StagesLeft
        /\ queue # {} /\ queue' = queue \ {First(queue)}
    BY <1>9 DEF Pull, PullAxis, StagesLeft
  <2>2. First(queue) \in queue
    BY <2>1, FirstIsMember DEF IInv, TypeOK
  <2>3. IsFiniteSet(queue) /\ Cardinality(queue) \in Nat
    BY FS_CardinalityType DEF Ends
  <2>4. Cardinality(queue') = Cardinality(queue) - 1
    BY <2>1, <2>2, <2>3, FS_RemoveElement
  <2>5. /\ Measure'[1] = Measure[1] /\ Measure'[2] = Measure[2]
        /\ Measure'[3] = Measure[3] /\ Measure'[4] < Measure[4]
    BY <1>1, <2>1, <2>3, <2>4 DEF Measured
  <2> QED BY <1>3, <2>5
<1>10. ASSUME NEW w \in Worker, Step(w), ~Pull(w), ~PullAxis(w)
       PROVE  <<Measure', Measure>> \in Shorter
  <2>1. /\ UNCHANGED <<stage, wave, queue>>
        /\ Left'[w] < Left[w]
        /\ \A v \in Worker \ {w} : Left'[v] = Left[v]
    BY <1>1, <1>10, StepLeft
  <2>2. StagesLeft' = StagesLeft
    BY <2>1 DEF StagesLeft
  <2>3. Left \in [Worker -> Nat] /\ Left' \in [Worker -> Nat]
    BY <1>1 DEF Measured
  <2>4. Cardinality(Pairs(Left')) < Cardinality(Pairs(Left))
    BY <2>1, <2>3, PairsShrink
  <2>5. /\ Measure'[1] = Measure[1] /\ Measure'[2] = Measure[2]
        /\ Measure'[3] = Measure[3] /\ Measure'[4] = Measure[4]
        /\ Measure'[5] < Measure[5]
    BY <1>1, <2>1, <2>2, <2>4 DEF Measured
  <2> QED BY <1>3, <2>5
<1>11. ~Start /\ ~Crash /\ ~Finish
  BY DEF Start, Crash, Finish
<1> QED BY <1>5, <1>6, <1>7, <1>8, <1>9, <1>10, <1>11 DEF Next, Main

\* A run cannot go on for ever, whatever its plan, its workers' interleaving,
\* its failures and its caps: in a well-founded order, each of its steps leaves
\* less to do.  (With fairness, which keeps it from standing still, that is
\* why RunEnds holds.)
THEOREM RunsAreFinite ==
  /\ IsWellFoundedOn(Shorter, [1..6 -> Nat])
  /\ Spec => [][Shortens]_vars
<1>1. IsWellFoundedOn(Shorter, [1..6 -> Nat])
  <2>1. PICK R : R = OpToRel(<, Nat)
    OBVIOUS
  <2>2. IsWellFoundedOn(R, Nat)
    BY <2>1, NatLessThanWellFounded
  <2>3. IsWellFoundedOn(LexProductOrdering(R, Nat, 6), [1..6 -> Nat])
    BY <2>2, WFLexProductOrdering
  <2> QED BY <2>1, <2>3 DEF Shorter
<1>2. IInv /\ Ends /\ [Next]_vars => Ends'
  <2> SUFFICES ASSUME IInv, Ends, [Next]_vars PROVE Ends'
    OBVIOUS
  <2>1. IInv'
    BY NextInvariant
  <2>2. CASE Next
    BY <2>1, <2>2, EndsNext DEF IInv
  <2>3. CASE UNCHANGED vars
    BY <2>3 DEF vars, Ends, Ported
  <2> QED BY <2>2, <2>3
<1>3. IInv /\ Ends /\ IInv' /\ Ends' /\ [Next]_vars =>
        [Shortens]_vars
  BY StepShortens DEF Shortens
<1> QED BY <1>1, <1>2, <1>3, EndsInit, Invariance, PTL DEF Spec

\* A sector that the record in memory or on disk calls done is never dispatched
\* again and its files stay as they are: a resumed run does not pay for
\* finished work twice.
NotRepaid ==
  \A s \in progress.done \cup disk.done :
    /\ \A w \in Worker : Dispatch(w) => job[w] # s
    /\ written'[s] = written[s]

\* run_wave and the resumed record keep to that, over kills and failed writes.
THEOREM FinishedNotRepaid == Spec => [][NotRepaid]_vars
<1>1. IInv /\ [Next]_vars => [NotRepaid]_vars
  <2> SUFFICES ASSUME IInv, Next, NEW s \in progress.done \cup disk.done
               PROVE  /\ \A w \in Worker : Dispatch(w) => job[w] # s
                      /\ written'[s] = written[s]
    BY DEF NotRepaid
  <2>1. s \in progress.done /\ s \in Sector
    BY DEF IInv, Records, TypeOK, Progress
  <2>2. ASSUME NEW w \in Worker, Dispatch(w) PROVE job[w] # s
    BY <2>1, <2>2 DEF Dispatch, AtWork, IInv, Hands
  <2>3. CASE \E w \in Worker : Dispatch(w)
    <3>1. PICK w \in Worker : Dispatch(w)
      BY <2>3
    <3>2. job[w] # s
      BY <2>2, <3>1
    <3> QED BY <2>1, <2>2, <3>1, <3>2 DEF Dispatch, IInv, TypeOK
  <2>4. CASE ~ \E w \in Worker : Dispatch(w)
    <3>1. written' = written
      BY <2>4 DEF Next, Start, Main, Crash, WallClock, Step, Design, LeaveWaves,
           SkipWave, StartWave, EndWave, Gates, StartSweeps, EndSweeps,
           Remediation, Parity, Documentation, Closing, Finish, Pull, Leave,
           BeginUnit, Interrupt, Checkpoint, Mark, PullAxis, BeginBatch,
           CutSweep, EndSweep, Audit
    <3> QED BY <2>2, <3>1
  <2> QED BY <2>2, <2>3, <2>4
<1> QED BY <1>1, Invariance, PTL DEF Spec
=============================================================================
