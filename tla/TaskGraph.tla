------------------------------- MODULE TaskGraph -------------------------------
(***************************************************************************)
(* What the Orchestrator panel and the headless team pipeline share: the   *)
(* graph of a plan (orchestrator/blueprint.rs), the status of its tasks    *)
(* (orchestrator/registry.rs), and the rules that settle a result and pick *)
(* the next wave (editor/orchestrator/types.rs, orchestrator/reconcile.rs).*)
(* The operators take the statuses, the outputs and the handles they read  *)
(* as parameters.                                                          *)
(*                                                                         *)
(* HashMap iteration makes the order in which results and ready tasks are  *)
(* treated arbitrary: an outcome is any one that some order produces.      *)
(***************************************************************************)
EXTENDS Integers, FiniteSets, Functions

CONSTANTS
  MaxTask,    \* task ids are 1 .. MaxTask
  Root,       \* the reconcile node of a routed plan, 0 when none is routed
  Deps,       \* dependencies of a task when it is added
  Conflicts,  \* scopes_conflict, as a relation on tasks
  File,
  Writes      \* task_result_outputs of a task's run, when it runs to the end

Task == 1 .. MaxTask

ASSUME GraphAssumption ==
  /\ MaxTask \in Nat \ {0}
  /\ Root \in {0, 1}
  /\ Deps \in [Task -> SUBSET Task]
  /\ \A t \in Task \ {Root} : \A d \in Deps[t] : d < t /\ d # Root

ASSUME ConflictAssumption ==
  /\ Conflicts \subseteq Task \X Task
  /\ \A t, u \in Task : <<t, u>> \in Conflicts => <<u, t>> \in Conflicts
  /\ Writes \in [Task -> SUBSET File]

\* Blocked is three statuses: FollowUp and Dependency can be retried, Unfit
\* (a stale plan, an unreadable site map) cannot.  Absent: not in the graph.
Blocked == {"FollowUp", "Dependency", "Unfit"}
Status == {"Absent", "Pending", "Running", "Done", "Failed"} \cup Blocked

\* A result, before it is reconciled: succeeded and validated; a mediation
\* conflict, an operator's cancellation or files out of scope; anything
\* else, a panic included.
Result == {"good", "follow_up", "bad"}

\* graph.tasks and a task's dependencies, of which remove_task strips a
\* removed id.
Plan(st) == {t \in Task : st[t] # "Absent"}
dependencies(st, t) == Deps[t] \cap Plan(st)

\* Set a map's values on a set of tasks.
Put(f, S, v) == [t \in DOMAIN f |-> IF t \in S THEN v ELSE f[t]]

\* Workers whose result is in.
Ended(wk) == {t \in Task : wk[t] \in Result}

-----------------------------------------------------------------------------
\* Of the results that wrote the files f: t's meets the outputs outs of
\* others, or another result in S.
Collide(outs, f, t) == \E u \in Task \ {t} : f[t] \cap outs[u] # {}

Overlap(f, t, S) == \E u \in S \ {t} : f[t] \cap f[u] # {}

\* Mutant: a result is compared with the registry only.
Reconciled_Registry(outs, f, ended, wk, v) ==
  \A t \in ended :
    IF wk[t] = "follow_up" \/ Collide(outs, f, t) THEN v[t] = "FollowUp"
    ELSE v[t] = IF wk[t] = "good" THEN "Done" ELSE "Failed"

\* The verdicts v on the ended workers when their results, with the files f
\* they wrote, are reconciled one after the other: a result collides with
\* the outputs outs already in the registry and with those accepted before
\* it in this poll.
Reconciled(outs, f, ended, wk, v) ==
  LET accepted == {t \in ended : v[t] = "Done"}
      Clean(t) == ~ Collide(outs, f, t) /\ ~ Overlap(f, t, accepted)
  IN  \A t \in ended :
        CASE wk[t] = "follow_up" -> v[t] = "FollowUp"
          [] wk[t] = "good" -> v[t] = IF Clean(t) THEN "Done" ELSE "FollowUp"
          [] wk[t] = "bad" -> \/ v[t] = "FollowUp" /\ ~ Clean(t)
                              \/ v[t] = "Failed" /\ ~ Collide(outs, f, t)

Waiting(st) == {t \in Task : st[t] \in {"Pending", "Dependency"}}

\* The tasks that block their dependents, those blocked for a dependency apart.
Stuck(st) == {t \in Task : st[t] \in {"Failed", "FollowUp", "Unfit"}}

\* The body of the loop of propagate_blocked_dependents, with B the tasks blocked
\* for a dependency so far: t is blocked while one of its dependencies failed
\* or is blocked, and Pending otherwise.
Visit(st, B, t) ==
  IF dependencies(st, t) \cap (Stuck(st) \cup B) # {} THEN B \cup {t}
                                                       ELSE B \ {t}

\* What is blocked after each visit of n passes over the n tasks that wait, in
\* an order of the HashMap.  The other tasks are passed over.
Visits(st, order, n) ==
  LET after[i \in 0 .. n * n] ==
        IF i = 0 THEN {{t \in Task : st[t] = "Dependency"}}
        ELSE {Visit(st, B, order[1 + ((i - 1) % n)]) : B \in after[i - 1]}
  IN  after

\* Mutant: the tasks are visited once.
propagate_blocked_dependents_OnePass(st) ==
  LET n == Cardinality(Waiting(st))
  IN  {B \in SUBSET Waiting(st) :
         \E order \in Bijection(1 .. n, Waiting(st)) :
           B \in Visits(st, order, n)[n]}

\* What is blocked when the loop ends, with a pass that changes nothing: an
\* acyclic plan has no more to change after as many passes as tasks wait.
propagate_blocked_dependents(st) ==
  LET n == Cardinality(Waiting(st))
  IN  {B \in SUBSET Waiting(st) :
         /\ \A t \in Waiting(st) : Visit(st, B, t) = B
         /\ \E order \in Bijection(1 .. n, Waiting(st)) :
              B \in Visits(st, order, n)[n * n]}

complete_reconcile_root(st) ==
  IF /\ Root \in Plan(st)
     /\ st[Root] = "Pending"
     /\ dependencies(st, Root) # {}
     /\ \A d \in dependencies(st, Root) : st[d] = "Done"
    THEN [st EXCEPT ![Root] = "Done"]
    ELSE st

ready_ids(st) ==
  {t \in Task : st[t] = "Pending"
                /\ \A d \in dependencies(st, t) : st[d] = "Done"}

\* A first conflict-free wave, in some order of the ready tasks.
ready_ids_conflict_aware(st) ==
  {W \in SUBSET ready_ids(st) :
     /\ \A t, u \in W : t # u => <<t, u>> \notin Conflicts
     /\ \A t \in ready_ids(st) \ W : \E u \in W : <<t, u>> \in Conflicts}
=============================================================================
