------------------------------- MODULE MCOpLog -------------------------------
(***************************************************************************)
(* Two machines, of which the first syncs with the second.  A human works  *)
(* on each, under a node id of their own (ChangeAttributor::open_human).   *)
(* On each the governor records denials, both as NodeId::local().          *)
(***************************************************************************)
EXTENDS OpLog, TLC

CONSTANTS v1, v2

\* Two versions of one file.
TwoVersions == {<<"f", v1>>, <<"f", v2>>}

\* Nothing but equality is asked of the versions.
Versions == Permutations({v1, v2})

MCHome == [p \in Producer |-> IF p \in {"bob", "governor2"} THEN "m2" ELSE "m1"]
MCClient == [l \in Link |-> "m1"]
MCServer == [l \in Link |-> "m2"]

\* "human/alice", "human/bob" and "local", in the order of their text.
MCNodeId == [p \in Producer |-> CASE p = "alice" -> 1 [] p = "bob" -> 2
                                   [] OTHER -> 3]
OneHome == [p \in Producer |-> "m1"]
=============================================================================
