---------------------------- MODULE MCTeamPipeline ----------------------------
(***************************************************************************)
(* A lead that writes nothing, task 2, and two members who wait for it and *)
(* may write the same file; the root, task 1, waits for all of them.       *)
(***************************************************************************)
EXTENDS TeamPipeline

MCDeps == [t \in Task |-> IF t = Root THEN Role
                          ELSE IF t = 2 THEN {} ELSE {2}]
MCWrites == [t \in Task |-> IF t \in {3, 4} THEN {"f"} ELSE {}]
MCReach == [d \in Directive |-> {2, 3}]
=============================================================================
