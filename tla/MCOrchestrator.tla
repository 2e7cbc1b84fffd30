---------------------------- MODULE MCOrchestrator ----------------------------
(***************************************************************************)
(* Small plans.  Routed: root 1 over task 2, and the hand-authored task 3, *)
(* whose scope collides with that of task 2.  Authored: tasks 1 and 2      *)
(* collide, task 3 depends on task 1 and task 4 on task 3.                 *)
(***************************************************************************)
EXTENDS Orchestrator

RoutedDeps == [t \in Task |-> IF t = Root THEN RoutedTask ELSE {}]
AuthoredDeps ==
  [t \in Task |-> CASE t = 3 -> {1} [] t = 4 -> {3} [] OTHER -> {}]

Pair(t, u) == {<<t, u>>, <<u, t>>}
RoutedConflicts == Pair(2, 3)
AuthoredConflicts == Pair(1, 2)

\* Every task writes the one file, or none of them does.
SharedWrites == [t \in Task |-> {"f"}]
NoWrites == [t \in Task |-> {}]
=============================================================================
