-------------------------- MODULE TeamPipelineProofs --------------------------
(***************************************************************************)
(* What a team run may count as Done, and whom an amendment reaches, for   *)
(* every team and plan, every set of directives and any number of restarts.*)
(***************************************************************************)
EXTENDS TeamPipeline, TLAPS

\* The tasks with a handle are those that are Running; a thread that ended
\* well is in the history; the root has no assignment.
Handles ==
  /\ \A t \in Task : status[t] = "Running" <=> worker[t] # "none"
  /\ \A t \in Task : worker[t] = "good" => t \in achieved
  /\ \A t \in Role : worker[t] # "none" => t \notin unspawned
  /\ worker[Root] = "none"
  /\ \A t \in Task : status[t] # "Absent"
  /\ pc = "idle" => worker = NoWorker /\ taken = {}

\* The registry holds the outputs of what is Done.
Recorded == \A t \in Role : status[t] = "Done" => outputs[t] = artifacts[t]

\* AmendReaches, and the same of assignments yet to be spawned.
Briefed ==
  \A d \in taken : \A t \in Reach[d] :
    worker[t] = "live" \/ t \in unspawned => <<d, t>> \in delivered

\* DoneIsReal and DoneDisjoint of statuses st whose results wrote files.
Real(st, files, did) ==
  /\ \A t \in Task : st[t] # "Absent"
  /\ \A t \in Task : st[t] = "Done" => t \in did \cup {Root}
  /\ \A t \in Task :
       st[t] \in {"Running", "Done"} => \A d \in Deps[t] : st[d] = "Done"
  /\ \A t, u \in Role :
       st[t] = "Done" /\ st[u] = "Done" /\ t # u => files[t] \cap files[u] = {}

\* A checkpoint of this team tells the truth as well.
Saved ==
  matches => Real(checkpoint.status, checkpoint.artifacts, achieved)

(***************************************************************************)
(* The inductive invariant.  Real alone is not inductive: a restart takes  *)
(* over what was saved, and reconciliation looks at the registry's outputs *)
(* and not at the results.                                                 *)
(***************************************************************************)
Inv ==
  /\ TypeOK
  /\ Handles
  /\ Recorded
  /\ Briefed
  /\ Real(status, artifacts, achieved)
  /\ Saved

\* The type of what a result's settlement yields.
Verdict == {"Done", "Failed", "FollowUp"}

-----------------------------------------------------------------------------
\* Propagation and the reconcile root leave what runs and what is Done as it
\* is, and make nothing Done but the root, over dependencies that all are.
LEMMA SettleFacts ==
  ASSUME NEW st \in [Task -> Status], NEW s \in Settle(st),
         \A t \in Task : st[t] # "Absent"
  PROVE  /\ s \in [Task -> Status]
         /\ \A t \in Task : s[t] # "Absent"
         /\ \A t \in Task : s[t] = "Running" <=> st[t] = "Running"
         /\ \A t \in Task : st[t] = "Done" => s[t] = "Done"
         /\ \A t \in Role : s[t] = "Done" => st[t] = "Done"
         /\ s[Root] = "Done" =>
              st[Root] = "Done" \/ \A d \in Deps[Root] : s[d] = "Done"
<1>1. PICK B \in propagate_blocked_dependents(st) :
        s = complete_reconcile_root(
              Put(Put(st, Waiting(st), "Pending"), B, "Dependency"))
  BY DEF Settle
<1> DEFINE q == Put(Put(st, Waiting(st), "Pending"), B, "Dependency")
<1>2. B \subseteq Waiting(st)
  BY <1>1 DEF propagate_blocked_dependents
<1>3. /\ q \in [Task -> Status]
      /\ \A t \in Task : st[t] \notin {"Pending", "Dependency"} => q[t] = st[t]
      /\ \A t \in Task : st[t] \in {"Pending", "Dependency"}
                           => q[t] \in {"Pending", "Dependency"}
  BY <1>2 DEF Put, Waiting, Status, Blocked
<1>4. s = complete_reconcile_root(q)
  BY <1>1
<1> HIDE DEF q
<1>5. \A t \in Task : q[t] # "Absent"
  BY <1>3
<1>6. Plan(q) = Task /\ dependencies(q, Root) = Deps[Root]
  BY <1>5, GraphAssumption, PipelineAssumption
  DEF Plan, dependencies, Task, Role
<1>7. CASE s = q
  <2>1. s[Root] = "Done" => st[Root] = "Done"
    BY <1>3, <1>7, GraphAssumption, PipelineAssumption DEF Task
  <2> QED
    BY <1>3, <1>5, <1>7, <2>1 DEF Role
<1>8. CASE s # q
  <2>1. /\ q[Root] = "Pending" /\ s = [q EXCEPT ![Root] = "Done"]
        /\ \A d \in Deps[Root] : q[d] = "Done"
    BY <1>4, <1>6, <1>8 DEF complete_reconcile_root
  <2>2. Root \in Task /\ Root \notin Deps[Root]
    BY GraphAssumption, PipelineAssumption DEF Task, Role
  <2>3. \A t \in Task : s[t] = IF t = Root THEN "Done" ELSE q[t]
    BY <1>3, <2>1
  <2>4. s \in [Task -> Status]
    BY <1>3, <2>1 DEF Status
  <2>5. \A d \in Deps[Root] : s[d] = "Done"
    BY <2>1, <2>2, <2>3, GraphAssumption
  <2> QED
    BY <1>3, <1>5, <2>1, <2>2, <2>3, <2>4, <2>5 DEF Role
<1> QED
  BY <1>7, <1>8

\* A truthful plan stays so when it is settled.
LEMMA SettleReal ==
  ASSUME NEW st \in [Task -> Status], NEW s \in Settle(st),
         NEW files, NEW did, Real(st, files, did)
  PROVE  Real(s, files, did)
<1>1. \A t \in Task : st[t] # "Absent"
  BY DEF Real
<1>2. /\ s \in [Task -> Status]
      /\ \A t \in Task : s[t] # "Absent"
      /\ \A t \in Task : s[t] = "Running" <=> st[t] = "Running"
      /\ \A t \in Task : st[t] = "Done" => s[t] = "Done"
      /\ \A t \in Role : s[t] = "Done" => st[t] = "Done"
      /\ s[Root] = "Done" =>
           st[Root] = "Done" \/ \A d \in Deps[Root] : s[d] = "Done"
  BY <1>1, SettleFacts
<1>3. \A t \in Task : s[t] = "Done" => t \in did \cup {Root}
  BY <1>2 DEF Real, Role
<1>4. ASSUME NEW t \in Task, s[t] \in {"Running", "Done"}, NEW d \in Deps[t]
      PROVE  s[d] = "Done"
  <2>1. d \in Task
    BY GraphAssumption
  <2>2. CASE st[t] \in {"Running", "Done"}
    BY <1>2, <2>1, <2>2 DEF Real
  <2>3. CASE st[t] \notin {"Running", "Done"}
    <3>1. t = Root
      BY <1>2, <1>4, <2>3 DEF Role
    <3> QED
      BY <1>2, <1>4, <2>3, <3>1
  <2> QED
    BY <2>2, <2>3
<1>5. \A t, u \in Role :
        s[t] = "Done" /\ s[u] = "Done" /\ t # u => files[t] \cap files[u] = {}
  BY <1>2 DEF Real, Role
<1> QED
  BY <1>2, <1>3, <1>4, <1>5 DEF Real

\* What the results in hand make of a truthful registry: the verdicts give
\* Done to what ended well and meets no file of a task that is Done.
LEMMA PollReal ==
  ASSUME Inv,
         NEW v \in [Ended(worker) -> Verdict], NEW f \in Wrote,
         Reconciled(outputs, f, Ended(worker), worker, v),
         NEW st, st = [t \in Task |-> IF t \in Ended(worker) THEN v[t]
                                                            ELSE status[t]],
         NEW fs, fs = [t \in Task |-> IF t \in Ended(worker) THEN f[t]
                                                            ELSE artifacts[t]]
  PROVE  /\ st \in [Task -> Status] /\ fs \in Files
         /\ Real(st, fs, achieved)
         /\ \A t \in Task : st[t] = "Running" <=>
              worker[t] # "none" /\ t \notin Ended(worker)
<1> DEFINE E == Ended(worker)
<1>1. /\ E \subseteq Task
      /\ \A t \in E : worker[t] \in Result
      /\ \A t \in E : status[t] = "Running"
      /\ Root \notin E
  BY DEF Ended, Result, Inv, Handles
<1>2. /\ status \in [Task -> Status] /\ artifacts \in Files
      /\ worker \in [Task -> {"none", "live"} \cup Result]
  BY DEF Inv, TypeOK
<1>3. f \in [E -> SUBSET File]
  BY DEF Wrote
<1> HIDE DEF E
<1>4. st \in [Task -> Status]
  BY <1>1, <1>2 DEF E, Verdict, Status, Blocked
<1>5. fs \in Files
  BY <1>1, <1>2, <1>3 DEF E, Files
<1>6. /\ \A t \in E : st[t] = v[t] /\ v[t] \in Verdict /\ fs[t] = f[t]
      /\ \A t \in Task \ E : st[t] = status[t] /\ fs[t] = artifacts[t]
  BY <1>1 DEF E
<1>7. \A t \in Task :
        st[t] = "Running" <=> worker[t] # "none" /\ t \notin E
  BY <1>1, <1>6 DEF Inv, Handles, Verdict
<1>8. \A t \in E : v[t] = "Done" =>
        /\ worker[t] = "good"
        /\ ~ Collide(outputs, f, t)
        /\ ~ Overlap(f, t, {u \in E : v[u] = "Done"})
  BY <1>1 DEF E, Reconciled, Result
<1>9. \A t \in Task : st[t] = "Done" => t \in achieved \cup {Root}
  BY <1>1, <1>6, <1>8 DEF Inv, Handles, Real
<1>10. ASSUME NEW t \in Task, st[t] \in {"Running", "Done"}, NEW d \in Deps[t]
       PROVE  st[d] = "Done"
  <2>1. status[t] \in {"Running", "Done"}
    BY <1>1, <1>6, <1>10
  <2>2. d \in Task /\ status[d] = "Done"
    BY <2>1, GraphAssumption DEF Inv, Real
  <2>3. d \notin E
    BY <1>1, <2>2
  <2> QED
    BY <1>6, <2>2, <2>3
<1>11. ASSUME NEW t \in Role, NEW u \in Role, t # u,
              st[t] = "Done", st[u] = "Done"
       PROVE  fs[t] \cap fs[u] = {}
  <2>0. t \in Task /\ u \in Task
    BY DEF Role
  <2>1. CASE t \in E /\ u \in E
    BY <1>6, <1>8, <1>11, <2>1 DEF Overlap
  <2>2. CASE t \in E /\ u \notin E
    <3>1. status[u] = "Done" /\ fs[u] = artifacts[u] /\ fs[t] = f[t]
      BY <1>6, <1>11, <2>0, <2>2
    <3>2. outputs[u] = artifacts[u]
      BY <3>1 DEF Inv, Recorded
    <3>3. f[t] \cap outputs[u] = {}
      BY <1>6, <1>8, <1>11, <2>0, <2>2 DEF Collide
    <3> QED
      BY <3>1, <3>2, <3>3
  <2>3. CASE t \notin E /\ u \in E
    <3>1. status[t] = "Done" /\ fs[t] = artifacts[t] /\ fs[u] = f[u]
      BY <1>6, <1>11, <2>0, <2>3
    <3>2. outputs[t] = artifacts[t]
      BY <3>1 DEF Inv, Recorded
    <3>3. f[u] \cap outputs[t] = {}
      BY <1>6, <1>8, <1>11, <2>0, <2>3 DEF Collide
    <3> QED
      BY <3>1, <3>2, <3>3
  <2>4. CASE t \notin E /\ u \notin E
    BY <1>6, <1>11, <2>0, <2>4 DEF Inv, Real
  <2> QED
    BY <2>1, <2>2, <2>3, <2>4
<1>12. \A t \in Task : st[t] # "Absent"
  BY <1>6 DEF Inv, Real, Verdict
<1>13. Real(st, fs, achieved)
  BY <1>9, <1>10, <1>11, <1>12 DEF Real
<1> QED
  BY <1>4, <1>5, <1>7, <1>13 DEF E

-----------------------------------------------------------------------------
\* An idle run satisfies everything that is said of its registry.
LEMMA GoneInv ==
  ASSUME Inv, Gone, UNCHANGED <<issued, checkpoint, achieved>>,
         faults' \in 0 .. MaxFault
  PROVE  Inv'
<1>1. TypeOK'
  BY PipelineAssumption
  DEF Inv, TypeOK, Gone, AllPending, Nothing, NoWorker, Files, Status
<1>2. Handles' /\ Recorded' /\ Briefed'
  BY GraphAssumption, PipelineAssumption
  DEF Gone, Handles, Recorded, Briefed, AllPending, Nothing, NoWorker,
      Task, Role
<1>3. Real(status, artifacts, achieved)'
  BY DEF Gone, Real, AllPending, Role
<1>4. Saved'
  BY DEF Inv, Saved, matches
<1> QED
  BY <1>1, <1>2, <1>3, <1>4 DEF Inv

\* The invariant holds of an idle pipeline with nothing saved.
LEMMA InitInv == Init => Inv
<1> SUFFICES ASSUME Init PROVE Inv
  OBVIOUS
<1>1. TypeOK
  BY PipelineAssumption
  DEF Init, TypeOK, AllPending, Nothing, NoWorker, Files, Status
<1>2. Handles /\ Recorded /\ Briefed
  BY GraphAssumption, PipelineAssumption
  DEF Init, Handles, Recorded, Briefed, AllPending, Nothing, NoWorker,
      Task, Role
<1>3. Real(status, artifacts, achieved)
  BY DEF Init, Real, AllPending, Role
<1>4. Saved
  BY DEF Init, Saved, matches
<1> QED
  BY <1>1, <1>2, <1>3, <1>4 DEF Inv

\* A dispatch, fresh or resumed.
LEMMA StartInv ==
  ASSUME Inv, NEW resume \in BOOLEAN, Start(resume)
  PROVE  Inv'
<1> DEFINE restore == resume /\ matches
<1>0. /\ pc = "idle" /\ pc' = "drain"
      /\ worker = NoWorker /\ taken = {}
      /\ unspawned' = Role
      /\ achieved' = IF matches THEN achieved ELSE {}
      /\ UNCHANGED <<worker, pending, taken, delivered, issued, checkpoint,
                     faults>>
  BY DEF Start, Inv, Handles
<1>1. /\ status' = IF restore THEN restored_statuses ELSE AllPending
      /\ artifacts' = IF restore THEN checkpoint.artifacts ELSE Nothing
      /\ outputs' = IF restore THEN restored_outputs ELSE Nothing
      /\ spent' = IF restore THEN checkpoint.spent ELSE 0
  BY DEF Start
<1>2. matches => /\ checkpoint \in Checkpoint
                 /\ Real(checkpoint.status, checkpoint.artifacts, achieved)
  BY DEF Inv, TypeOK, Saved, matches
<1>3. Nothing \in Files /\ AllPending \in [Task -> Status]
  BY DEF Nothing, Files, AllPending, Status
<1>4. /\ status' \in [Task -> Status]
      /\ artifacts' \in Files /\ outputs' \in Files
      /\ spent' \in 0 .. Deadline
      /\ outputs' = artifacts'
      /\ \A t \in Task : status'[t] \notin {"Running", "Absent"}
  <2>1. CASE restore
    <3>1. checkpoint \in Checkpoint
      BY <1>2, <2>1
    <3>2. /\ restored_statuses \in [Task -> Status]
          /\ \A t \in Task : restored_statuses[t] \notin {"Running", "Absent"}
      BY <1>2, <2>1, <3>1
      DEF restored_statuses, Checkpoint, Unfinished, Status, Real
    <3> QED
      BY <1>1, <2>1, <3>1, <3>2 DEF Checkpoint, restored_outputs
  <2>2. CASE ~ restore
    BY <1>1, <1>3, <2>2, PipelineAssumption DEF AllPending
  <2> QED
    BY <2>1, <2>2
<1>5. TypeOK'
  BY <1>0, <1>4 DEF Inv, TypeOK
<1>6. Handles' /\ Recorded' /\ Briefed'
  <2>1. Root \in Task
    BY GraphAssumption, PipelineAssumption DEF Task
  <2>2. Handles'
    BY <1>0, <1>4, <2>1 DEF Handles, NoWorker, Role
  <2> QED
    BY <1>0, <1>4, <2>2 DEF Recorded, Briefed
<1>7. Real(status, artifacts, achieved)'
  <2>1. CASE restore
    <3>1. /\ status' = restored_statuses
          /\ artifacts' = checkpoint.artifacts
          /\ achieved' = achieved
      BY <1>0, <1>1, <2>1
    <3>2. /\ Real(checkpoint.status, checkpoint.artifacts, achieved)
          /\ checkpoint \in Checkpoint
      BY <1>2, <2>1
    <3>3. \A t \in Task :
            /\ status'[t] = "Done" <=> checkpoint.status[t] = "Done"
            /\ status'[t] \notin {"Running", "Absent"}
      BY <1>4, <3>1 DEF restored_statuses, Unfinished
    <3>4. \A t \in Task : Deps[t] \subseteq Task
      BY GraphAssumption
    <3> QED
      BY <3>1, <3>2, <3>3, <3>4 DEF Real, Role
  <2>2. CASE ~ restore
    BY <1>1, <2>2 DEF Real, AllPending, Role
  <2> QED
    BY <2>1, <2>2
<1>8. Saved'
  <2>1. matches' <=> matches
    BY <1>0 DEF matches
  <2>2. CASE matches
    BY <1>0, <2>2 DEF Inv, Saved
  <2> QED
    BY <2>1, <2>2 DEF Saved
<1> QED
  BY <1>5, <1>6, <1>7, <1>8 DEF Inv

\* The inbox is drained.
LEMMA DrainInv ==
  ASSUME Inv, publish_and_drain
  PROVE  Inv'
<1>1. TypeOK'
  <2>1. steerable \subseteq Role
    BY DEF steerable
  <2>2. delivered' \subseteq Directive \X Role
    BY <2>1 DEF publish_and_drain, Inv, TypeOK
  <2> QED
    BY <2>2 DEF publish_and_drain, Inv, TypeOK
<1>2. Handles' /\ Recorded'
  BY DEF publish_and_drain, Inv, Handles, Recorded
<1>3. Briefed'
  <2> SUFFICES ASSUME NEW d \in taken', NEW t \in Reach[d],
                      worker[t] = "live" \/ t \in unspawned
               PROVE  <<d, t>> \in delivered'
    BY DEF Briefed, publish_and_drain
  <2>1. CASE d \in taken
    BY <2>1 DEF Inv, Briefed, publish_and_drain
  <2>2. CASE d \in pending
    <3>1. d \in Directive /\ t \in Role
      BY <2>2, PipelineAssumption DEF Inv, TypeOK
    <3>2. t \in steerable
      BY <3>1 DEF steerable, Inv, Handles
    <3> QED
      BY <2>2, <3>2 DEF publish_and_drain
  <2> QED
    BY <2>1, <2>2 DEF publish_and_drain
<1>4. Real(status, artifacts, achieved)' /\ Saved'
  BY DEF publish_and_drain, Inv, Real, Saved, matches
<1> QED
  BY <1>1, <1>2, <1>3, <1>4 DEF Inv

\* The checkpoint is replaced by a truthful one, or removed, or neither.
LEMMA ReplaceInv ==
  ASSUME Inv, NEW cp, Replace(cp), achieved' = achieved,
         \/ cp = NoCheckpoint
         \/ cp \in Checkpoint /\ Real(cp.status, cp.artifacts, achieved)
  PROVE  /\ checkpoint' = NoCheckpoint \/ checkpoint' \in Checkpoint
         /\ faults' \in 0 .. MaxFault
         /\ Saved'
<1>1. CASE checkpoint' = cp /\ UNCHANGED faults
  BY <1>1 DEF Inv, TypeOK, Saved, matches
<1>2. CASE faults < MaxFault /\ faults' = faults + 1 /\ UNCHANGED checkpoint
  <2>1. faults' \in 0 .. MaxFault
    BY <1>2, PipelineAssumption DEF Inv, TypeOK
  <2>2. Saved'
    BY <1>2 DEF Inv, Saved, matches
  <2> QED
    BY <1>2, <2>1, <2>2 DEF Inv, TypeOK
<1> QED
  BY <1>1, <1>2 DEF Replace

\* Results are collected, and the loop goes on or ends.
LEMMA PollInv ==
  ASSUME Inv, Poll
  PROVE  Inv'
<1> DEFINE E == Ended(worker)
           St(v) == [t \in Task |-> IF t \in E THEN v[t] ELSE status[t]]
           Fs(f) == [t \in Task |-> IF t \in E THEN f[t] ELSE artifacts[t]]
           Outs(v, f) == [t \in Task |-> IF t \in E /\ v[t] = "Done"
                                          THEN f[t] ELSE outputs[t]]
<1>1. PICK v \in [E -> Verdict], f \in Wrote :
        /\ Reconciled(outputs, f, E, worker, v)
        /\ artifacts' = Fs(f)
        /\ outputs' = Outs(v, f)
        /\ \E s \in Settle(St(v)) :
             Complete(s) \/ Expire(s, Fs(f)) \/ GoOn(s)
  BY Zenon DEF Poll, Verdict
<1>2. PICK s \in Settle(St(v)) : Complete(s) \/ Expire(s, Fs(f)) \/ GoOn(s)
  BY <1>1
<1>3. /\ pc = "poll"
      /\ UNCHANGED <<unspawned, spent, pending, taken, delivered, issued,
                     achieved>>
  BY DEF Poll
<1> DEFINE st == St(v)
           fs == Fs(f)
<1>4. /\ st \in [Task -> Status] /\ fs \in Files
      /\ Real(st, fs, achieved)
      /\ \A t \in Task : st[t] = "Running" <=> worker[t] # "none" /\ t \notin E
  BY <1>1, PollReal
<1>5. \A t \in Task : st[t] # "Absent"
  BY <1>4 DEF Real
<1>6. /\ st = St(v) /\ fs = Fs(f)
      /\ E \subseteq Task
      /\ \A t \in E : worker[t] \in Result
      /\ \A t \in E : f[t] \in SUBSET File
  BY DEF Ended, Wrote
<1>7. \A t \in Task : st[t] = "Done" =>
        \/ t \in E /\ v[t] = "Done"
        \/ t \notin E /\ status[t] = "Done" /\ fs[t] = artifacts[t]
  BY <1>6
<1>8. outputs' \in Files
  BY <1>1, <1>6 DEF Inv, TypeOK, Files
<1>9. ASSUME NEW t \in Role, st[t] = "Done"
      PROVE  outputs'[t] = fs[t]
  <2>1. t \in Task
    BY DEF Role
  <2>2. CASE t \in E /\ v[t] = "Done"
    BY <1>1, <2>1, <2>2
  <2>3. CASE t \notin E /\ status[t] = "Done" /\ fs[t] = artifacts[t]
    <3>1. outputs[t] = artifacts[t]
      BY <2>3 DEF Inv, Recorded
    <3> QED
      BY <1>1, <2>1, <2>3, <3>1
  <2> QED
    BY <1>7, <1>9, <2>1, <2>2, <2>3
<1>10. artifacts' = fs /\ s \in Settle(st)
  BY <1>1, <1>2
<1>11. Complete(s) \/ Expire(s, fs) \/ GoOn(s)
  BY <1>2
<1> HIDE DEF st, fs, E, St, Fs, Outs
<1>12. /\ s \in [Task -> Status]
       /\ \A t \in Task : s[t] # "Absent"
       /\ \A t \in Task : s[t] = "Running" <=> st[t] = "Running"
       /\ \A t \in Role : s[t] = "Done" => st[t] = "Done"
  BY <1>4, <1>5, <1>10, SettleFacts
<1>13. Real(s, fs, achieved)
  BY <1>4, <1>10, SettleReal
<1>14. worker \in [Task -> {"none", "live"} \cup Result]
  BY DEF Inv, TypeOK
<1>15. ASSUME status' = s, worker' = Put(worker, E, "none"),
              pc' \in {"over", "dispatch"},
              checkpoint' = NoCheckpoint \/ checkpoint' \in Checkpoint,
              faults' \in 0 .. MaxFault, Saved'
       PROVE  Inv'
  <2>1. \A t \in Task : worker'[t] = IF t \in E THEN "none" ELSE worker[t]
    BY <1>14, <1>15 DEF Put
  <2>2. worker' \in [Task -> {"none", "live"} \cup Result]
    BY <1>14, <1>15 DEF Put
  <2>3. TypeOK'
    BY <1>3, <1>4, <1>8, <1>10, <1>12, <1>15, <2>2 DEF Inv, TypeOK
  <2>4. Root \in Task
    BY GraphAssumption, PipelineAssumption DEF Task
  <2>5. Handles'
    <3>1. \A t \in Task : status'[t] = "Running" <=> worker'[t] # "none"
      BY <1>4, <1>12, <1>15, <2>1
    <3>2. \A t \in Task : worker'[t] = "good" => t \in achieved'
      BY <1>3, <2>1 DEF Inv, Handles
    <3>3. \A t \in Role : worker'[t] # "none" => t \notin unspawned'
      BY <1>3, <2>1 DEF Inv, Handles, Role
    <3>4. worker'[Root] = "none"
      BY <2>1, <2>4 DEF Inv, Handles
    <3>5. pc' # "idle" /\ \A t \in Task : status'[t] # "Absent"
      BY <1>12, <1>15
    <3> QED
      BY <3>1, <3>2, <3>3, <3>4, <3>5 DEF Handles
  <2>6. Recorded'
    BY <1>9, <1>10, <1>12, <1>15 DEF Recorded
  <2>7. Briefed'
    <3> SUFFICES ASSUME NEW d \in taken, NEW t \in Reach[d],
                        worker'[t] = "live" \/ t \in unspawned
                 PROVE  <<d, t>> \in delivered
      BY <1>3 DEF Briefed
    <3>1. t \in Task
      BY PipelineAssumption DEF Inv, TypeOK, Role
    <3> QED
      BY <2>1, <3>1 DEF Inv, Briefed
  <2>8. Real(status, artifacts, achieved)'
    BY <1>3, <1>10, <1>13, <1>15 DEF Real
  <2> QED
    BY <1>15, <2>3, <2>5, <2>6, <2>7, <2>8 DEF Inv
<1>16. CASE Complete(s)
  <2>1. /\ status' = s /\ worker' = Put(worker, E, "none") /\ pc' = "over"
        /\ Replace(NoCheckpoint)
    BY <1>16 DEF Complete, clear_checkpoint, E
  <2>2. /\ checkpoint' = NoCheckpoint \/ checkpoint' \in Checkpoint
        /\ faults' \in 0 .. MaxFault /\ Saved'
    BY <1>3, <2>1, ReplaceInv
  <2> QED
    BY <1>15, <2>1, <2>2
<1>17. CASE GoOn(s)
  <2>1. /\ status' = s /\ worker' = Put(worker, E, "none")
        /\ pc' = "dispatch" /\ UNCHANGED <<checkpoint, faults>>
    BY <1>17 DEF GoOn, E
  <2>2. Saved'
    BY <1>3, <2>1 DEF Inv, Saved, matches
  <2> QED
    BY <1>15, <2>1, <2>2 DEF Inv, TypeOK
<1>18. CASE Expire(s, fs)
  <2> DEFINE failed == [t \in Task |-> IF s[t] \in Unfinished THEN "Failed"
                                                              ELSE s[t]]
  <2>1. PICK closed \in Settle(failed) :
          status' = closed /\ Replace(snapshot(closed, fs))
    BY <1>18 DEF Expire, write_checkpoint
  <2>2. worker' = NoWorker /\ pc' = "over"
    BY <1>18 DEF Expire
  <2>3. /\ failed \in [Task -> Status]
        /\ \A t \in Task : failed[t] = "Done" <=> s[t] = "Done"
        /\ \A t \in Task : failed[t] \notin {"Running", "Absent"}
    BY <1>12 DEF Unfinished, Status
  <2> HIDE DEF failed
  <2>4. Real(failed, fs, achieved)
    <3>1. \A t \in Task : Deps[t] \subseteq Task
      BY GraphAssumption
    <3> QED
      BY <1>13, <2>3, <3>1 DEF Real, Role
  <2>5. /\ closed \in [Task -> Status]
        /\ \A t \in Task : closed[t] \notin {"Running", "Absent"}
        /\ \A t \in Role : closed[t] = "Done" => failed[t] = "Done"
    BY <2>1, <2>3, SettleFacts
  <2>6. Real(closed, fs, achieved)
    BY <2>1, <2>3, <2>4, SettleReal
  <2>7. snapshot(closed, fs) \in Checkpoint
    BY <1>4, <2>5 DEF snapshot, Checkpoint, Inv, TypeOK
  <2>8. /\ snapshot(closed, fs).status = closed
        /\ snapshot(closed, fs).artifacts = fs
    BY DEF snapshot
  <2>9. /\ checkpoint' = NoCheckpoint \/ checkpoint' \in Checkpoint
        /\ faults' \in 0 .. MaxFault /\ Saved'
    BY <1>3, <2>1, <2>6, <2>7, <2>8, ReplaceInv
  <2>10. TypeOK'
    BY <1>3, <1>4, <1>8, <1>10, <2>1, <2>2, <2>5, <2>9
    DEF Inv, TypeOK, NoWorker
  <2>11. Handles'
    <3>1. Root \in Task
      BY GraphAssumption, PipelineAssumption DEF Task
    <3> QED
      BY <2>1, <2>2, <2>5, <3>1 DEF Handles, NoWorker, Role
  <2>12. Recorded'
    BY <1>9, <1>10, <1>12, <2>1, <2>3, <2>5 DEF Recorded, Role
  <2>13. Briefed'
    <3> SUFFICES ASSUME NEW d \in taken, NEW t \in Reach[d],
                        worker'[t] = "live" \/ t \in unspawned
                 PROVE  <<d, t>> \in delivered
      BY <1>3 DEF Briefed
    <3>1. t \in Task
      BY PipelineAssumption DEF Inv, TypeOK, Role
    <3>2. t \in unspawned
      BY <2>2, <3>1 DEF NoWorker
    <3> QED
      BY <3>2 DEF Inv, Briefed
  <2>14. Real(status, artifacts, achieved)'
    BY <1>3, <1>10, <2>1, <2>6 DEF Real
  <2> QED
    BY <2>9, <2>10, <2>11, <2>12, <2>13, <2>14 DEF Inv
<1> QED
  BY <1>11, <1>16, <1>17, <1>18

\* A wave is dispatched.
LEMMA DispatchInv ==
  ASSUME Inv, Dispatch
  PROVE  Inv'
<1>1. PICK wave \in ready_ids_conflict_aware(status) :
        \E fit \in IF MapMoves THEN SUBSET (wave \cap unspawned)
                               ELSE {wave \cap unspawned} :
          /\ status' = Put(Put(status, (wave \cap unspawned) \ fit, "Unfit"),
                           fit, "Running")
          /\ worker' = Put(worker, fit, "live")
          /\ unspawned' = unspawned \ (wave \cap unspawned)
  BY DEF Dispatch
<1>2. PICK fit \in IF MapMoves THEN SUBSET (wave \cap unspawned)
                               ELSE {wave \cap unspawned} :
          /\ status' = Put(Put(status, (wave \cap unspawned) \ fit, "Unfit"),
                           fit, "Running")
          /\ worker' = Put(worker, fit, "live")
          /\ unspawned' = unspawned \ (wave \cap unspawned)
  BY <1>1
<1> DEFINE work == wave \cap unspawned
<1>3. /\ fit \subseteq work /\ work \subseteq unspawned
      /\ work \subseteq ready_ids(status)
      /\ unspawned' = unspawned \ work
  BY <1>1, <1>2 DEF ready_ids_conflict_aware
<1>4. /\ pc' = "save"
      /\ UNCHANGED <<artifacts, outputs, spent, pending, taken, delivered,
                     issued, checkpoint, faults, achieved>>
  BY DEF Dispatch
<1>5. /\ status \in [Task -> Status]
      /\ worker \in [Task -> {"none", "live"} \cup Result]
      /\ unspawned \subseteq Role
  BY DEF Inv, TypeOK
<1>6. /\ \A t \in Task : status'[t] = IF t \in fit THEN "Running"
                           ELSE IF t \in work THEN "Unfit" ELSE status[t]
      /\ \A t \in Task : worker'[t] = IF t \in fit THEN "live" ELSE worker[t]
      /\ status' \in [Task -> Status]
      /\ worker' \in [Task -> {"none", "live"} \cup Result]
  BY <1>2, <1>3, <1>5 DEF Put, Status, Blocked
<1> HIDE DEF work
<1>7. /\ work \subseteq Role
      /\ \A t \in work : status[t] = "Pending" /\ worker[t] = "none"
      /\ \A t \in work : \A d \in Deps[t] : status[d] = "Done"
  <2>1. Plan(status) = Task
    BY DEF Plan, Inv, Handles
  <2>2. \A t \in Task : dependencies(status, t) = Deps[t]
    BY <2>1, GraphAssumption DEF dependencies
  <2>3. work \subseteq Task
    BY <1>3, <1>5 DEF Role
  <2>4. \A t \in work : status[t] = "Pending"
    BY <1>3 DEF ready_ids
  <2>5. \A t \in work : worker[t] = "none"
    BY <2>3, <2>4 DEF Inv, Handles
  <2>6. \A t \in work : \A d \in Deps[t] : status[d] = "Done"
    BY <1>3, <2>2, <2>3 DEF ready_ids
  <2> QED
    BY <1>3, <1>5, <2>4, <2>5, <2>6
<1>8. TypeOK'
  BY <1>3, <1>4, <1>5, <1>6 DEF Inv, TypeOK
<1>9. Root \in Task /\ Root \notin work
  BY <1>7, GraphAssumption, PipelineAssumption DEF Task, Role
<1>10. Handles'
  <2>1. \A t \in Task : status'[t] = "Running" <=> worker'[t] # "none"
    BY <1>3, <1>6, <1>7 DEF Inv, Handles
  <2>2. \A t \in Task : worker'[t] = "good" => t \in achieved'
    BY <1>4, <1>6 DEF Inv, Handles
  <2>3. \A t \in Role : worker'[t] # "none" => t \notin unspawned'
    BY <1>3, <1>6 DEF Inv, Handles, Role
  <2>4. worker'[Root] = "none"
    BY <1>3, <1>6, <1>9 DEF Inv, Handles
  <2>5. pc' # "idle" /\ \A t \in Task : status'[t] # "Absent"
    BY <1>4, <1>6 DEF Inv, Handles
  <2> QED
    BY <2>1, <2>2, <2>3, <2>4, <2>5 DEF Handles
<1>11. \A t \in Task : status'[t] = "Done" <=> status[t] = "Done"
  BY <1>3, <1>6, <1>7
<1>12. Recorded'
  BY <1>4, <1>11 DEF Inv, Recorded, Role
<1>13. Briefed'
  <2> SUFFICES ASSUME NEW d \in taken, NEW t \in Reach[d],
                      worker'[t] = "live" \/ t \in unspawned'
               PROVE  <<d, t>> \in delivered
    BY <1>4 DEF Briefed
  <2>1. t \in Task
    BY PipelineAssumption DEF Inv, TypeOK, Role
  <2>2. worker[t] = "live" \/ t \in unspawned
    BY <1>3, <1>6, <2>1
  <2> QED
    BY <2>2 DEF Inv, Briefed
<1>14. Real(status, artifacts, achieved)'
  <2>1. ASSUME NEW t \in Task, status'[t] \in {"Running", "Done"},
               NEW d \in Deps[t]
        PROVE  status'[d] = "Done"
    <3>1. d \in Task
      BY GraphAssumption
    <3>2. status[d] = "Done"
      BY <1>3, <1>6, <1>7, <2>1 DEF Inv, Real
    <3> QED
      BY <1>11, <3>1, <3>2
  <2>2. \A t \in Task : status'[t] # "Absent"
    BY <1>6 DEF Inv, Real
  <2> QED
    BY <1>4, <1>11, <2>1, <2>2 DEF Inv, Real, Role
<1>15. Saved'
  BY <1>4 DEF Inv, Saved, matches
<1> QED
  BY <1>8, <1>10, <1>12, <1>13, <1>14, <1>15 DEF Inv

\* The end of a turn: what is saved is what the registry says.
LEMMA SaveInv ==
  ASSUME Inv, Save
  PROVE  Inv'
<1>1. /\ pc' = "drain"
      /\ Replace(snapshot(status, artifacts))
      /\ UNCHANGED <<status, artifacts, outputs, worker, unspawned, spent,
                     pending, taken, delivered, issued, achieved>>
  BY DEF Save, write_checkpoint
<1>2. /\ snapshot(status, artifacts) \in Checkpoint
      /\ snapshot(status, artifacts).status = status
      /\ snapshot(status, artifacts).artifacts = artifacts
  BY DEF snapshot, Checkpoint, Inv, TypeOK
<1>3. Real(status, artifacts, achieved)
  BY DEF Inv
<1>4. /\ checkpoint' = NoCheckpoint \/ checkpoint' \in Checkpoint
      /\ faults' \in 0 .. MaxFault /\ Saved'
  BY <1>1, <1>2, <1>3, ReplaceInv
<1>5. TypeOK'
  BY <1>1, <1>4 DEF Inv, TypeOK
<1>6. Handles' /\ Recorded' /\ Briefed'
  BY <1>1 DEF Inv, Handles, Recorded, Briefed
<1>7. Real(status, artifacts, achieved)'
  BY <1>1, <1>3 DEF Real
<1> QED
  BY <1>4, <1>5, <1>6, <1>7 DEF Inv

\* A worker's thread ends.
LEMMA WorkerEndsInv ==
  ASSUME Inv, NEW t \in Role, NEW result \in Result, WorkerEnds(t, result)
  PROVE  Inv'
<1>1. /\ worker[t] = "live"
      /\ worker' = [worker EXCEPT ![t] = result]
      /\ achieved' = IF result = "good" THEN achieved \cup {t} ELSE achieved
      /\ UNCHANGED <<pc, status, artifacts, outputs, unspawned, spent,
                     pending, taken, delivered, issued, checkpoint, faults>>
  BY DEF WorkerEnds
<1>2. /\ worker \in [Task -> {"none", "live"} \cup Result]
      /\ t \in Task /\ result \in {"good", "follow_up", "bad"}
  BY DEF Inv, TypeOK, Role, Result
<1>3. /\ \A u \in Task : worker'[u] = IF u = t THEN result ELSE worker[u]
      /\ achieved \subseteq achieved' /\ achieved' \subseteq achieved \cup {t}
      /\ result = "good" => t \in achieved'
  BY <1>1, <1>2
<1>4. worker' \in [Task -> {"none", "live"} \cup Result]
  BY <1>1, <1>2 DEF Result
<1>5. TypeOK'
  BY <1>1, <1>3, <1>4 DEF Inv, TypeOK
<1>6. Handles'
  <2>1. Root \in Task /\ Root # t
    BY GraphAssumption, PipelineAssumption DEF Task, Role
  <2>2. pc # "idle"
    BY <1>1, <1>2 DEF Inv, Handles, NoWorker
  <2>3. \A u \in Task : status'[u] = "Running" <=> worker'[u] # "none"
    BY <1>1, <1>2, <1>3 DEF Inv, Handles
  <2>4. \A u \in Task : worker'[u] = "good" => u \in achieved'
    BY <1>3 DEF Inv, Handles
  <2>5. \A u \in Role : worker'[u] # "none" => u \notin unspawned'
    BY <1>1, <1>3 DEF Inv, Handles, Role
  <2> QED
    BY <1>1, <1>3, <2>1, <2>2, <2>3, <2>4, <2>5 DEF Inv, Handles
<1>7. Recorded'
  BY <1>1 DEF Inv, Recorded
<1>8. Briefed'
  <2> SUFFICES ASSUME NEW d \in taken, NEW u \in Reach[d],
                      worker'[u] = "live" \/ u \in unspawned
               PROVE  <<d, u>> \in delivered
    BY <1>1 DEF Briefed
  <2>1. u \in Task
    BY PipelineAssumption DEF Inv, TypeOK, Role
  <2> QED
    BY <1>2, <1>3, <2>1 DEF Inv, Briefed
<1>9. Real(status, artifacts, achieved)'
  BY <1>1, <1>3 DEF Inv, Real
<1>10. Saved'
  BY <1>1, <1>3 DEF Inv, Saved, matches, Real
<1> QED
  BY <1>5, <1>6, <1>7, <1>8, <1>9, <1>10 DEF Inv

\* The operator amends, time passes, another run replaces the checkpoint.
LEMMA OthersInv ==
  ASSUME Inv,
         (\E d \in Directive : amend_running_team(d)) \/ WallClock \/ OtherRun
  PROVE  Inv'
<1>1. CASE \E d \in Directive : amend_running_team(d)
  <2>1. PICK d \in Directive : amend_running_team(d)
    BY <1>1
  <2>2. TypeOK'
    BY <2>1 DEF amend_running_team, Inv, TypeOK
  <2> QED
    BY <2>1, <2>2
    DEF amend_running_team, Inv, Handles, Recorded, Briefed, Real, Saved,
        matches
<1>2. CASE WallClock
  <2>1. spent' \in 0 .. Deadline
    BY <1>2, PipelineAssumption DEF WallClock, Inv, TypeOK
  <2>2. TypeOK'
    BY <1>2, <2>1 DEF WallClock, Inv, TypeOK
  <2> QED
    BY <1>2, <2>2
    DEF WallClock, Inv, Handles, Recorded, Briefed, Real, Saved, matches
<1>3. CASE OtherRun
  <2> DEFINE other == [team |-> "other",
                       status |-> Put(AllPending, Role, "Done"),
                       artifacts |-> Nothing, spent |-> 0]
  <2>1. checkpoint' \in {NoCheckpoint, other}
    BY <1>3 DEF OtherRun
  <2>2. other \in Checkpoint /\ other.team = "other"
    BY PipelineAssumption
    DEF Checkpoint, Put, AllPending, Nothing, Files, Status
  <2> HIDE DEF other
  <2>3. TypeOK'
    BY <1>3, <2>1, <2>2 DEF OtherRun, Inv, TypeOK
  <2>4. Saved'
    BY <2>1, <2>2 DEF Saved, matches
  <2> QED
    BY <1>3, <2>3, <2>4
    DEF OtherRun, Inv, Handles, Recorded, Briefed, Real
<1> QED
  BY <1>1, <1>2, <1>3

\* Every step, and a stutter, keeps the invariant.
LEMMA NextInv == Inv /\ [Next]_vars => Inv'
<1> SUFFICES ASSUME Inv, [Next]_vars PROVE Inv'
  OBVIOUS
<1>1. CASE \E resume \in BOOLEAN : Start(resume)
  BY <1>1, StartInv
<1>2. CASE publish_and_drain
  BY <1>2, DrainInv
<1>3. CASE Poll
  BY <1>3, PollInv
<1>4. CASE Dispatch
  BY <1>4, DispatchInv
<1>5. CASE Save
  BY <1>5, SaveInv
<1>6. CASE finish_live_run
  <2>1. Gone /\ UNCHANGED <<issued, checkpoint, faults, achieved>>
    BY <1>6 DEF finish_live_run
  <2> QED
    BY <2>1, GoneInv DEF Inv, TypeOK
<1>7. CASE \E t \in Role, result \in Result : WorkerEnds(t, result)
  BY <1>7, WorkerEndsInv
<1>8. CASE (\E d \in Directive : amend_running_team(d))
           \/ WallClock \/ OtherRun
  BY <1>8, OthersInv
<1>9. CASE Crash
  <2>1. Gone /\ UNCHANGED <<issued, checkpoint, achieved>>
    BY <1>9 DEF Crash
  <2>2. faults' \in 0 .. MaxFault
    BY <1>9, PipelineAssumption DEF Crash, Inv, TypeOK
  <2> QED
    BY <2>1, <2>2, GoneInv
<1>10. CASE UNCHANGED vars
  <2>1. TypeOK'
    BY <1>10 DEF vars, Inv, TypeOK
  <2> QED
    BY <1>10, <2>1
    DEF vars, Inv, Handles, Recorded, Briefed, Real, Saved, matches
<1> QED
  BY <1>1, <1>2, <1>3, <1>4, <1>5, <1>6, <1>7, <1>8, <1>9, <1>10
  DEF Next, Driver

-----------------------------------------------------------------------------
\* The driver, its workers and the checkpoint file keep their types
\* (run_pipeline's locals, RunCheckpoint).
THEOREM TypeCorrect == Spec => []TypeOK
<1>1. Inv => TypeOK
  BY DEF Inv
<1> QED
  BY <1>1, InitInv, NextInv, PTL DEF Spec

\* What a run counts as Done was done by a worker of its own team and prompt,
\* over dependencies that are Done, whatever restarts and other runs do
\* (restore_registry, matches of checkpoint.rs).
THEOREM DoneIsTrue == Spec => []DoneIsReal
<1>1. Inv => DoneIsReal
  BY DEF Inv, Real, DoneIsReal
<1> QED
  BY <1>1, InitInv, NextInv, PTL DEF Spec

\* No two tasks that are Done wrote the same file, across restarts too
\* (reconciliation_error over registry.outputs).
THEOREM DoneWritesDisjoint == Spec => []DoneDisjoint
<1>1. Inv => DoneDisjoint
  BY DEF Inv, Real, DoneDisjoint
<1> QED
  BY <1>1, InitInv, NextInv, PTL DEF Spec

\* A directive that was drained has reached every worker at work in its
\* scope, also one that was spawned later (publish_and_drain).
THEOREM AmendmentsReach == Spec => []AmendReaches
<1>1. Inv => AmendReaches
  BY DEF Inv, Briefed, AmendReaches
<1> QED
  BY <1>1, InitInv, NextInv, PTL DEF Spec

\* A run never takes back that a task is Done, and it spawns a worker only for
\* an assignment that still waits, once (assignment_by_id.remove): what a
\* resumed run found Done is not run again.
FinishedStay ==
  pc # "idle" /\ pc' # "idle" =>
    \A t \in Task :
      /\ status[t] = "Done" => status'[t] = "Done"
      /\ worker'[t] = "live" /\ worker[t] # "live" =>
           status[t] = "Pending" /\ t \in unspawned \ unspawned'

\* run_pipeline's polls, waves and deadline keep to that, for any plan.
THEOREM FinishedTasksStay == Spec => [][FinishedStay]_vars
<1>1. Inv /\ [Next]_vars => [FinishedStay]_vars
  <2> SUFFICES ASSUME Inv, Next, pc # "idle", pc' # "idle"
               PROVE  \A t \in Task :
                        /\ status[t] = "Done" => status'[t] = "Done"
                        /\ worker'[t] = "live" /\ worker[t] # "live" =>
                             /\ status[t] = "Pending"
                             /\ t \in unspawned \ unspawned'
    BY DEF FinishedStay
  <2>0. /\ status \in [Task -> Status]
        /\ worker \in [Task -> {"none", "live"} \cup Result]
        /\ \A t \in Task : status[t] # "Absent"
        /\ \A t \in Task : status[t] = "Running" <=> worker[t] # "none"
    BY DEF Inv, TypeOK, Handles
  <2>1. CASE Poll
    <3>1. PICK v \in [Ended(worker) -> {"Done", "Failed", "FollowUp"}],
               f \in Wrote :
            LET verdict == [t \in Task |->
                              IF t \in Ended(worker) THEN v[t] ELSE status[t]]
                files == [t \in Task |->
                            IF t \in Ended(worker) THEN f[t] ELSE artifacts[t]]
            IN  \E st \in Settle(verdict) :
                  Complete(st) \/ Expire(st, files) \/ GoOn(st)
      BY <2>1 DEF Poll
    <3> DEFINE verdict == [t \in Task |-> IF t \in Ended(worker) THEN v[t]
                                                                ELSE status[t]]
               files == [t \in Task |-> IF t \in Ended(worker) THEN f[t]
                                                              ELSE artifacts[t]]
    <3>2. PICK st \in Settle(verdict) :
            Complete(st) \/ Expire(st, files) \/ GoOn(st)
      BY <3>1
    <3>3. /\ verdict \in [Task -> Status]
          /\ \A t \in Task : verdict[t] # "Absent"
      BY <2>0 DEF Status, Blocked, Ended
    <3>4. \A t \in Task : status[t] = "Done" => verdict[t] = "Done"
      BY <2>0 DEF Ended, Result
    <3> HIDE DEF verdict, files
    <3>5. /\ st \in [Task -> Status]
          /\ \A t \in Task : st[t] # "Absent"
          /\ \A t \in Task : status[t] = "Done" => st[t] = "Done"
      BY <3>2, <3>3, <3>4, SettleFacts
    <3>6. \A t \in Task : worker'[t] = "live" => worker[t] = "live"
      BY <2>0, <3>2 DEF Complete, Expire, GoOn, NoWorker, Put
    <3>7. CASE Expire(st, files)
      <4> DEFINE cut == [t \in Task |-> IF st[t] \in Unfinished THEN "Failed"
                                                                ELSE st[t]]
      <4>1. status' \in Settle(cut)
        BY <3>7 DEF Expire
      <4>2. /\ cut \in [Task -> Status]
            /\ \A t \in Task : cut[t] # "Absent"
            /\ \A t \in Task : st[t] = "Done" => cut[t] = "Done"
        BY <3>5 DEF Status, Unfinished
      <4> HIDE DEF cut
      <4>3. \A t \in Task : cut[t] = "Done" => status'[t] = "Done"
        BY <4>1, <4>2, SettleFacts
      <4> QED BY <3>5, <3>6, <4>2, <4>3
    <3>8. CASE Complete(st) \/ GoOn(st)
      BY <3>5, <3>6, <3>8 DEF Complete, GoOn
    <3> QED BY <3>2, <3>7, <3>8
  <2>2. CASE Dispatch
    <3>1. PICK wave \in ready_ids_conflict_aware(status) :
            \E fit \in IF MapMoves THEN SUBSET (wave \cap unspawned)
                                   ELSE {wave \cap unspawned} :
              /\ status' = Put(Put(status, (wave \cap unspawned) \ fit,
                                   "Unfit"), fit, "Running")
              /\ worker' = Put(worker, fit, "live")
              /\ unspawned' = unspawned \ (wave \cap unspawned)
      BY <2>2 DEF Dispatch
    <3>2. PICK fit \in IF MapMoves THEN SUBSET (wave \cap unspawned)
                                   ELSE {wave \cap unspawned} :
            /\ status' = Put(Put(status, (wave \cap unspawned) \ fit, "Unfit"),
                             fit, "Running")
            /\ worker' = Put(worker, fit, "live")
            /\ unspawned' = unspawned \ (wave \cap unspawned)
      BY <3>1
    <3>3. fit \subseteq wave \cap unspawned
      BY <3>2
    <3>4. \A t \in wave : status[t] = "Pending"
      BY DEF ready_ids_conflict_aware, ready_ids
    <3>5. \A t \in Task : status[t] = "Done" => status'[t] = "Done"
      BY <2>0, <3>2, <3>3, <3>4 DEF Put
    <3>6. \A t \in Task : worker'[t] = "live" /\ worker[t] # "live" => t \in fit
      BY <2>0, <3>2 DEF Put
    <3> QED BY <3>2, <3>3, <3>4, <3>5, <3>6
  <2>3. CASE ~Poll /\ ~Dispatch
    <3>1. status' = status
      BY <2>3 DEF Next, Start, Driver, publish_and_drain, Save, finish_live_run,
           Gone, WorkerEnds, amend_running_team, WallClock, OtherRun, Crash
    <3>2. \A t \in Task : worker'[t] = "live" => worker[t] = "live"
      BY <2>0, <2>3 DEF Next, Start, Driver, publish_and_drain, Save,
           finish_live_run, Gone, WorkerEnds, amend_running_team, WallClock,
           OtherRun, Crash, Result, Role
    <3> QED BY <3>1, <3>2
  <2> QED BY <2>1, <2>2, <2>3
<1> QED
  BY <1>1, InitInv, NextInv, PTL DEF Spec
=============================================================================
