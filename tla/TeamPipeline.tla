----------------------------- MODULE TeamPipeline -----------------------------
(***************************************************************************)
(* A team run without a panel (velocity-mcp/src/orchestrator/              *)
(* team_pipeline.rs, checkpoint.rs, directive.rs, live_runs.rs, and        *)
(* dispatch_via_pipeline, amend_running_team of registry/team_tools.rs).   *)
(*                                                                         *)
(* The run's driver thread turns a loop: take the directives amended since *)
(* the last turn, collect results and settle, dispatch the next wave, save *)
(* a checkpoint.  Between its steps worker threads end, the operator       *)
(* amends, the clock and the site map move, and the process may die.       *)
(*                                                                         *)
(* The model follows the dispatches of one team with one prompt, the two   *)
(* things a checkpoint is matched by.  Runs of other teams or prompts meet *)
(* this one in the checkpoint file, of which a workspace has one: they     *)
(* are the action OtherRun.                                                *)
(***************************************************************************)
EXTENDS TaskGraph

CONSTANTS
  Directive,  \* what the operator amends, each at most once
  Reach,      \* scope_reaches: the tasks whose scope a directive's filter hits
  Deadline,   \* max_wall_secs, in units of the wall clock; 0 is unbounded
  MapMoves,   \* the site map is re-indexed or unreadable at times
  MaxFault,   \* bound on the number of restarts and failed writes
  NoCheckpoint

Role == Task \ {Root}

ASSUME PipelineAssumption ==
  /\ Root = 1 /\ Role # {} /\ Deps[Root] = Role
  /\ Reach \in [Directive -> SUBSET Role]
  /\ Deadline \in Nat /\ MaxFault \in Nat /\ MapMoves \in BOOLEAN

VARIABLES
  pc,         \* where the driver is; "idle" when there is none
  status,     \* registry.statuses
  artifacts,  \* task_result_outputs of the result a terminal status carries
  outputs,    \* registry.outputs
  worker,     \* handles: "none", or what the thread is doing
  unspawned,  \* assignment_by_id
  spent,      \* effective_elapsed
  pending,    \* inbox.pending
  taken,      \* directives the driver has drained
  delivered,  \* inbox.delivered, the ledger
  issued,     \* directives the operator has pushed
  checkpoint, \* <root>/.velocity/orchestrator/checkpoint.json
  faults,
  achieved    \* history: tasks a worker of this team has finished well since
              \* the team last started with nothing saved

vars == <<pc, status, artifacts, outputs, worker, unspawned, spent,
          pending, taken, delivered, issued, checkpoint, faults, achieved>>

Unfinished == {"Pending", "Running"}
Files == [Task -> SUBSET File]

\* What is saved of a run, and whose it is.
Checkpoint == [team : {"this", "other"}, status : [Task -> Status],
               artifacts : Files, spent : 0 .. Deadline]

TypeOK ==
  /\ pc \in {"idle", "drain", "poll", "dispatch", "save", "over"}
  /\ status \in [Task -> Status]
  /\ artifacts \in Files
  /\ outputs \in Files
  /\ worker \in [Task -> {"none", "live"} \cup Result]
  /\ unspawned \subseteq Role
  /\ spent \in 0 .. Deadline
  /\ pending \subseteq Directive
  /\ taken \subseteq Directive
  /\ delivered \subseteq Directive \X Role
  /\ issued \subseteq Directive
  /\ checkpoint = NoCheckpoint \/ checkpoint \in Checkpoint
  /\ faults \in 0 .. MaxFault
  /\ achieved \subseteq Role

Nothing == [t \in Task |-> {}]
AllPending == [t \in Task |-> "Pending"]
NoWorker == [t \in Task |-> "none"]

Init ==
  /\ pc = "idle"
  /\ status = AllPending /\ artifacts = Nothing /\ outputs = Nothing
  /\ worker = NoWorker /\ unspawned = {}
  /\ spent = 0
  /\ pending = {} /\ taken = {} /\ delivered = {} /\ issued = {}
  /\ checkpoint = NoCheckpoint
  /\ faults = 0 /\ achieved = {}

\* The locals of run_pipeline are gone, and its threads are out of reach.
Gone ==
  /\ pc' = "idle"
  /\ status' = AllPending /\ artifacts' = Nothing /\ outputs' = Nothing
  /\ worker' = NoWorker /\ unspawned' = {}
  /\ spent' = 0
  /\ pending' = {} /\ taken' = {} /\ delivered' = {}

-----------------------------------------------------------------------------
(***************************************************************************)
(* The checkpoint file.                                                    *)
(***************************************************************************)
snapshot(st, files) ==
  [team |-> "this", status |-> st, artifacts |-> files, spent |-> spent]

\* Mutant: any team's checkpoint will do.
matches_Any == checkpoint # NoCheckpoint

\* read_checkpoint finds a file, and it names this team and prompt.
matches == checkpoint # NoCheckpoint /\ checkpoint.team = "this"

\* The threads of running tasks died with their process.
restored_statuses ==
  [t \in Task |-> IF checkpoint.status[t] \in Unfinished
                    THEN "Pending" ELSE checkpoint.status[t]]

\* Mutant: the outputs of the saved results are forgotten.
restored_outputs_None == Nothing

\* The outputs of every saved result, whatever its status.
restored_outputs == checkpoint.artifacts

\* The file is replaced or removed, or it is not: the error is ignored.
Replace(cp) ==
  \/ checkpoint' = cp /\ UNCHANGED faults
  \/ faults < MaxFault /\ faults' = faults + 1 /\ UNCHANGED checkpoint

\* A sibling is written and renamed.
write_checkpoint(cp) == Replace(cp)

\* Whoever's file it is.
clear_checkpoint == Replace(NoCheckpoint)

\* Another run of the workspace saves its checkpoint or, complete, removes
\* the file.  The sibling has one name for all runs: of two that save at
\* once, one may rename what the other has half written, which no reader
\* can parse, and that is as good as no file.
OtherRun ==
  /\ checkpoint' \in {NoCheckpoint,
                      [team |-> "other", status |-> Put(AllPending, Role, "Done"),
                       artifacts |-> Nothing, spent |-> 0]}
  /\ UNCHANGED <<pc, status, artifacts, outputs, worker, unspawned,
                 spent, pending, taken, delivered, issued, faults, achieved>>

-----------------------------------------------------------------------------
(***************************************************************************)
(* A dispatch and its driver.                                              *)
(***************************************************************************)
\* Mutant: the root gets an assignment too.
Start_RootToo(resume) ==
  LET restore == resume /\ matches
  IN  /\ pc = "idle"
      /\ pc' = "drain"
      /\ status' = IF restore THEN restored_statuses ELSE AllPending
      /\ artifacts' = IF restore THEN checkpoint.artifacts ELSE Nothing
      /\ outputs' = IF restore THEN restored_outputs ELSE Nothing
      /\ spent' = IF restore THEN checkpoint.spent ELSE 0
      /\ unspawned' = Task
      /\ achieved' = IF matches THEN achieved ELSE {}
      /\ UNCHANGED <<worker, pending, taken, delivered, issued, checkpoint,
                     faults>>

\* team_dispatch, with resume or without: the run starts from its own
\* checkpoint or from all-Pending.
Start(resume) ==
  LET restore == resume /\ matches
  IN  /\ pc = "idle"
      /\ pc' = "drain"
      /\ status' = IF restore THEN restored_statuses ELSE AllPending
      /\ artifacts' = IF restore THEN checkpoint.artifacts ELSE Nothing
      /\ outputs' = IF restore THEN restored_outputs ELSE Nothing
      /\ spent' = IF restore THEN checkpoint.spent ELSE 0
      /\ unspawned' = Role
      /\ achieved' = IF matches THEN achieved ELSE {}
      /\ UNCHANGED <<worker, pending, taken, delivered, issued, checkpoint,
                     faults>>

\* Mutant: only workers in flight are handed a directive.
steerable_Running == {t \in Role : worker[t] = "live"}

\* Who can be handed a directive: a worker whose thread still listens, or an
\* assignment that was not spawned yet, whatever the status of its task.
steerable ==
  {t \in Role : worker[t] = "live" \/ (worker[t] = "none" /\ t \in unspawned)}

\* Each pending directive goes to everyone it reaches, as a note or folded
\* into the brief, and the ledger says so.
publish_and_drain ==
  /\ pc = "drain"
  /\ pc' = "poll"
  /\ delivered' = delivered \cup
       {x \in pending \X steerable : x[2] \in Reach[x[1]]}
  /\ taken' = taken \cup pending
  /\ pending' = {}
  /\ UNCHANGED <<status, artifacts, outputs, worker, unspawned, spent,
                 issued, checkpoint, faults, achieved>>

\* The files a result may name: a run may write less than its task would.
Wrote ==
  {f \in [Ended(worker) -> SUBSET File] :
     \A t \in Ended(worker) : f[t] \subseteq Writes[t]}

\* Blocked dependents, then the reconcile root.
Settle(st) ==
  {complete_reconcile_root(Put(Put(st, Waiting(st), "Pending"), B,
                               "Dependency")) :
     B \in propagate_blocked_dependents(st)}

is_complete(st) == \A t \in Task : st[t] \notin Unfinished

\* Mutant: a run with a worker at work is given more time.
past_deadline_Quiet ==
  Deadline # 0 /\ spent >= Deadline /\ \A t \in Task : worker[t] # "live"

past_deadline == Deadline # 0 /\ spent >= Deadline

\* The plan is complete: a later dispatch starts from scratch.
Complete(st) ==
  /\ is_complete(st)
  /\ status' = st
  /\ worker' = Put(worker, Ended(worker), "none")
  /\ clear_checkpoint
  /\ pc' = "over"

\* The deadline is past: what is unfinished has Failed, the workers are
\* cancelled and left to themselves.
Expire(st, files) ==
  /\ ~ is_complete(st) /\ past_deadline
  /\ \E closed \in Settle([t \in Task |-> IF st[t] \in Unfinished THEN "Failed"
                                                                  ELSE st[t]]) :
       /\ status' = closed
       /\ write_checkpoint(snapshot(closed, files))
  /\ worker' = NoWorker
  /\ pc' = "over"

GoOn(st) ==
  /\ ~ is_complete(st) /\ ~ past_deadline
  /\ status' = st
  /\ worker' = Put(worker, Ended(worker), "none")
  /\ pc' = "dispatch"
  /\ UNCHANGED <<checkpoint, faults>>

\* Results are collected and settled; then the loop goes on or ends.
Poll ==
  /\ pc = "poll"
  /\ \E v \in [Ended(worker) -> {"Done", "Failed", "FollowUp"}], f \in Wrote :
       LET verdict == [t \in Task |-> IF t \in Ended(worker) THEN v[t]
                                                             ELSE status[t]]
           files == [t \in Task |-> IF t \in Ended(worker) THEN f[t]
                                                           ELSE artifacts[t]]
       IN  /\ Reconciled(outputs, f, Ended(worker), worker, v)
           /\ artifacts' = files
           /\ outputs' = [t \in Task |->
                            IF t \in Ended(worker) /\ v[t] = "Done"
                              THEN f[t] ELSE outputs[t]]
           /\ \E st \in Settle(verdict) :
                Complete(st) \/ Expire(st, files) \/ GoOn(st)
  /\ UNCHANGED <<unspawned, spent, pending, taken, delivered, issued,
                 achieved>>

\* The ready wave.  Each task opens the site map for itself: one that finds
\* it unreadable, or not as it was when the run was planned, is
\* Blocked.
Dispatch ==
  /\ pc = "dispatch"
  /\ pc' = "save"
  /\ \E wave \in ready_ids_conflict_aware(status) :
       LET work == wave \cap unspawned
       IN  \E fit \in IF MapMoves THEN SUBSET work ELSE {work} :
             /\ status' = Put(Put(status, work \ fit, "Unfit"), fit, "Running")
             /\ worker' = Put(worker, fit, "live")
             /\ unspawned' = unspawned \ work
  /\ UNCHANGED <<artifacts, outputs, spent, pending, taken, delivered,
                 issued, checkpoint, faults, achieved>>

Save ==
  /\ pc = "save"
  /\ pc' = "drain"
  /\ write_checkpoint(snapshot(status, artifacts))
  /\ UNCHANGED <<status, artifacts, outputs, worker, unspawned, spent,
                 pending, taken, delivered, issued, achieved>>

\* The loop was left, the outcome is reported.
finish_live_run ==
  /\ pc = "over"
  /\ Gone
  /\ UNCHANGED <<issued, checkpoint, faults, achieved>>

Driver == publish_and_drain \/ Poll \/ Dispatch \/ Save \/ finish_live_run

-----------------------------------------------------------------------------
(***************************************************************************)
(* Everyone else.                                                          *)
(***************************************************************************)
\* A worker's thread ends, well or not.
WorkerEnds(t, result) ==
  /\ worker[t] = "live"
  /\ worker' = [worker EXCEPT ![t] = result]
  /\ achieved' = IF result = "good" THEN achieved \cup {t} ELSE achieved
  /\ UNCHANGED <<pc, status, artifacts, outputs, unspawned, spent,
                 pending, taken, delivered, issued, checkpoint, faults>>

\* The run is found in the table and is_running, also when its driver has
\* just left the loop.
amend_running_team(d) ==
  /\ pc # "idle" /\ d \notin issued
  /\ issued' = issued \cup {d}
  /\ pending' = pending \cup {d}
  /\ UNCHANGED <<pc, status, artifacts, outputs, worker, unspawned,
                 spent, taken, delivered, checkpoint, faults, achieved>>

WallClock ==
  /\ pc # "idle" /\ spent < Deadline
  /\ spent' = spent + 1
  /\ UNCHANGED <<pc, status, artifacts, outputs, worker, unspawned,
                 pending, taken, delivered, issued, checkpoint, faults,
                 achieved>>

\* The process dies, and with it the run, its threads and its inbox.
Crash ==
  /\ pc # "idle" /\ faults < MaxFault
  /\ faults' = faults + 1
  /\ Gone
  /\ UNCHANGED <<issued, checkpoint, achieved>>

Next ==
  \/ \E resume \in BOOLEAN : Start(resume)
  \/ Driver
  \/ \E t \in Role, result \in Result : WorkerEnds(t, result)
  \/ \E d \in Directive : amend_running_team(d)
  \/ WallClock
  \/ OtherRun
  \/ Crash

\* The driver's thread is scheduled and time passes.  Nothing makes a worker
\* end, the operator dispatch or the process live on.
Fairness == WF_vars(Driver) /\ WF_vars(WallClock)

Spec == Init /\ [][Next]_vars /\ Fairness

-----------------------------------------------------------------------------
(***************************************************************************)
(* Properties                                                              *)
(***************************************************************************)
\* What a run counts as Done was done by a worker of its own team and
\* prompt, before or after a restart and whatever other runs do to the one
\* checkpoint file; a task is Running or Done only over dependencies that
\* are Done (restore_registry, matches, checkpoint.rs:140-145, 287-308).
DoneIsReal ==
  \A t \in Task :
    /\ status[t] = "Done" => t \in achieved \cup {Root}
    /\ status[t] \in {"Running", "Done"} => \A d \in Deps[t] : status[d] = "Done"

\* Tasks that are Done never wrote the same file, even when one result was
\* accepted before a restart and the other after it (reconciliation_error
\* over the restored registry.outputs, checkpoint.rs:303-305).
DoneDisjoint ==
  \A t, u \in Role :
    status[t] = "Done" /\ status[u] = "Done" /\ t # u =>
      artifacts[t] \cap artifacts[u] = {}

\* A directive that was taken from the inbox is in the ledger for every
\* worker at work in its scope, also for one that started after it was
\* drained: "did the amend reach every in-flight assignment"
\* (team_pipeline.rs:796-801).
AmendReaches ==
  \A d \in taken : \A t \in Reach[d] :
    worker[t] = "live" => <<d, t>> \in delivered

\* With a deadline, a run that was started ends, even if its workers hang
\* (team_pipeline.rs:623-667).
RunEnds == Deadline # 0 => (pc # "idle" ~> pc = "idle")
=============================================================================
