----------------------------- MODULE MCWriteGate -----------------------------
(***************************************************************************)
(* A workspace with a directory src that holds a.rs and b.rs; a.rs is      *)
(* reachable under a second spelling, ./src/a.rs.  b.rs calls a.rs.        *)
(***************************************************************************)
EXTENDS WriteGate, FiniteSets, TLC

MCPath == {"src", "src/a.rs", "./src/a.rs", "src/b.rs"}
MCResource == {"dir", "a", "b"}
MCCanon == [p \in MCPath |-> CASE p = "src" -> "dir"
                               [] p = "src/b.rs" -> "b"
                               [] OTHER -> "a"]
MCDirPath == {"src"}
MCInside == {<<"a", "dir">>, <<"b", "dir">>}
MCCallers == [x \in MCResource |-> IF x = "a" THEN {"b"} ELSE {}]
MCLine == 1 .. 2
MCScopeEnd == {8, 9}
MCWholeScope == <<1, 8>>
MCLineRange == {<<1, 1>>, <<2, 2>>, <<1, 2>>, MCWholeScope}

\* A mapped scope lock on the directory, a claim of a.rs under its second
\* spelling, mapped range locks on either half of a.rs and on b.rs.
MCRequests ==
  {[path |-> p, range |-> r, agent |-> a, mapped |-> m] :
     <<p, r, m>> \in {<<"src", MCWholeScope, TRUE>>,
                      <<"./src/a.rs", MCWholeScope, FALSE>>,
                      <<"src/a.rs", <<1, 1>>, TRUE>>,
                      <<"src/a.rs", <<2, 2>>, TRUE>>,
                      <<"src/b.rs", <<1, 2>>, TRUE>>},
     a \in Agent}

\* MaxLocks bounds the table, which the code lets grow without limit.
MaxLocks == 3
TableBound == Cardinality(locks) <= MaxLocks

Symmetry == Permutations(Agent) \cup Permutations(Thread)
=============================================================================
