--------------------------- MODULE ExclusiveRegions ---------------------------
(***************************************************************************)
(* What a write gate promises, without saying how: every agent owns a set  *)
(* of cells (lines of resources), no cell has two owners, and ownership    *)
(* is taken only from the free cells.  Ownership may end at any moment,    *)
(* for any number of agents at once: a release, an expiry, a session reset.*)
(***************************************************************************)
CONSTANTS Agent, Cell

VARIABLE owned  \* the cells of every agent

TypeOK == owned \in [Agent -> SUBSET Cell]

Init == owned = [a \in Agent |-> {}]

\* Agent a takes cells no other agent owns.
Grab(a) ==
  /\ owned' \in [Agent -> SUBSET Cell]
  /\ owned[a] \subseteq owned'[a]
  /\ \A b \in Agent \ {a} : /\ owned'[b] = owned[b]
                            /\ owned'[a] \cap owned[b] \subseteq owned[a]

\* Cells become free again.
Yield ==
  /\ owned' \in [Agent -> SUBSET Cell]
  /\ \A a \in Agent : owned'[a] \subseteq owned[a]

Next == Yield \/ \E a \in Agent : Grab(a)

Spec == Init /\ [][Next]_owned

\* No cell has two owners.
Disjoint ==
  \A a, b \in Agent : a # b => owned[a] \cap owned[b] = {}
=============================================================================
