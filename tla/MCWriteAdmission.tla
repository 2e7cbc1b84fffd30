--------------------------- MODULE MCWriteAdmission ---------------------------
(***************************************************************************)
(* The directory src holds a.rs and b.rs; b.rs calls a.rs.  Every run      *)
(* picks its tool calls, tasks and scopes from the definitions below.      *)
(***************************************************************************)
EXTENDS WriteAdmission

MCPath == {"src", "src/a.rs", "src/b.rs"}
MCResource == {"dir", "a", "b"}
MCCanon == [p \in MCPath |-> CASE p = "src" -> "dir"
                               [] p = "src/a.rs" -> "a"
                               [] p = "src/b.rs" -> "b"]
MCDirPath == {"src"}
MCInside == {<<"a", "dir">>, <<"b", "dir">>}
MCCallers == [x \in MCResource |-> IF x = "a" THEN {"b"} ELSE {}]
MCLine == {1}
MCScopeEnd == {8, 9}
MCWholeScope == <<1, 8>>
MCPresenceRange == <<1, 6>>
MCLineRange == {MCPresenceRange, MCWholeScope}

MCAgent == {"primary", "task-1", "task-2", "Agent_Thread"}
MCAgentOf ==
  [x \in Actor |-> IF x \in Call THEN "primary"
                   ELSE IF x \in Editor THEN "Agent_Thread"
                   ELSE IF x = "w1" THEN "task-1" ELSE "task-2"]

\* The tool call's file.
OneFile == [c \in Call |-> "src/a.rs"]

\* Tasks that lock overlapping scopes in opposite orders, one of them with a
\* directory and a file inside it.
CrossedScopes ==
  [w \in Task |-> IF w = "w1" THEN <<"src/a.rs", "src/b.rs">>
                             ELSE <<"src/b.rs", "src">>]
=============================================================================
