--------------------------- MODULE WriteGateProofs ---------------------------
(***************************************************************************)
(* Type correctness, mutual exclusion and the refinement of               *)
(* ExclusiveRegions by WriteGate, for every set of agents, threads, paths, *)
(* line ranges and requests.                                               *)
(***************************************************************************)
EXTENDS WriteGate, LockTableProofs

(***************************************************************************)
(* Every state of the gate has the declared types: no operation leaves a   *)
(* half-built lock or request behind.                                      *)
(***************************************************************************)
THEOREM TypeCorrect == Spec => []TypeOK
<1>1. Init => TypeOK
  BY DEF Init, TypeOK
<1>2. TypeOK /\ [Next]_vars => TypeOK'
  <2> SUFFICES ASSUME TypeOK, [Next]_vars
               PROVE  TypeOK'
    OBVIOUS
  <2> USE DEF TypeOK
  <2>1. ASSUME NEW t \in Thread, NEW req \in Requests, AcquirePrune(t, req)
        PROVE  TypeOK'
    BY <2>1 DEF AcquirePrune, prune_stale
  <2>2. ASSUME NEW t \in Thread, AcquireAdmit(t)
        PROVE  TypeOK'
    <3>1. pending[t] \in Request
      BY <2>2, RequestsAssumption DEF AcquireAdmit
    <3>2. Granted(locks, pending[t]) \in SUBSET EditLock
      BY <3>1, GrantedIsTyped
    <3> QED
      BY <2>2, <3>2 DEF AcquireAdmit
  <2>3. ASSUME NEW t \in Thread, AcquireReject(t)
        PROVE  TypeOK'
    BY <2>3 DEF AcquireReject
  <2>4. ASSUME NEW p \in Path, NEW a \in Agent, Release(p, a)
        PROVE  TypeOK'
    BY <2>4 DEF Release, release
  <2>5. ASSUME NEW a \in Agent, ReleaseForAgent(a)
        PROVE  TypeOK'
    BY <2>5 DEF ReleaseForAgent, release_for_agent
  <2>6. ASSUME NEW max_age \in PruneAge, PruneStale(max_age)
        PROVE  TypeOK'
    BY <2>6 DEF PruneStale, prune_stale
  <2>7. CASE ClearAll
    BY <2>7 DEF ClearAll
  <2>8. CASE Tick
    BY <2>8, AgedIsTyped DEF Tick
  <2>9. CASE UNCHANGED vars
    BY <2>9 DEF vars
  <2> QED
    BY <2>1, <2>2, <2>3, <2>4, <2>5, <2>6, <2>7, <2>8, <2>9 DEF Next
<1> QED
  BY <1>1, <1>2, PTL DEF Spec

(***************************************************************************)
(* Mutual exclusion: at no moment do the locks of two agents cover the     *)
(* same line of the same resource.  With TypeOK the invariant is inductive *)
(* as it stands: an acquisition is checked against every lock of another   *)
(* agent in the critical section that pushes it, and no other operation    *)
(* adds a lock.                                                            *)
(***************************************************************************)
THEOREM Exclusion == Spec => []Exclusive
<1>1. Init => Exclusive
  BY DEF Init, Exclusive
<1>2. TypeOK /\ Exclusive /\ [Next]_vars => Exclusive'
  <2> SUFFICES ASSUME TypeOK, Exclusive, [Next]_vars
               PROVE  Exclusive'
    OBVIOUS
  <2>0. ASSUME locks' \subseteq locks
        PROVE  Exclusive'
    BY <2>0 DEF Exclusive
  <2>1. ASSUME NEW t \in Thread, NEW req \in Requests, AcquirePrune(t, req)
        PROVE  Exclusive'
    BY <2>0, <2>1 DEF AcquirePrune, prune_stale
  <2>2. ASSUME NEW t \in Thread, AcquireAdmit(t)
        PROVE  Exclusive'
    <3>1. pending[t] \in Request /\ locks \in SUBSET EditLock
      BY <2>2, RequestsAssumption DEF AcquireAdmit, TypeOK
    <3>2. Disjoint(Granted(locks, pending[t]))
      BY <2>2, <3>1, GrantedKeepsDisjoint DEF AcquireAdmit, Exclusive, Disjoint
    <3> QED
      BY <2>2, <3>2 DEF AcquireAdmit, Exclusive, Disjoint
  <2>3. ASSUME NEW t \in Thread, AcquireReject(t)
        PROVE  Exclusive'
    BY <2>0, <2>3 DEF AcquireReject
  <2>4. ASSUME NEW p \in Path, NEW a \in Agent, Release(p, a)
        PROVE  Exclusive'
    BY <2>0, <2>4 DEF Release, release
  <2>5. ASSUME NEW a \in Agent, ReleaseForAgent(a)
        PROVE  Exclusive'
    BY <2>0, <2>5 DEF ReleaseForAgent, release_for_agent
  <2>6. ASSUME NEW max_age \in PruneAge, PruneStale(max_age)
        PROVE  Exclusive'
    BY <2>0, <2>6 DEF PruneStale, prune_stale
  <2>7. CASE ClearAll
    BY <2>0, <2>7 DEF ClearAll
  <2>8. CASE Tick
    <3>1. Disjoint(Aged(locks))
      BY AgedKeepsDisjoint DEF Exclusive, Disjoint, TypeOK
    <3> QED
      BY <2>8, <3>1 DEF Tick, Exclusive, Disjoint
  <2>9. CASE UNCHANGED vars
    BY <2>0, <2>9 DEF vars
  <2> QED
    BY <2>1, <2>2, <2>3, <2>4, <2>5, <2>6, <2>7, <2>8, <2>9 DEF Next
<1> QED
  BY <1>1, <1>2, TypeCorrect, PTL DEF Spec

(***************************************************************************)
(* Ownership under the table operations.                                   *)
(***************************************************************************)
\* What an agent owns is made of cells.
LEMMA OwnedIsCells ==
  ASSUME NEW L, NEW a
  PROVE  Owned(L, a) \subseteq Cell
BY DEF Owned, Footprint

\* Dropping locks (release, prune_stale, clear_all) never adds ownership.
LEMMA FewerLocksOwnLess ==
  ASSUME NEW L, NEW M, M \subseteq L, NEW a
  PROVE  Owned(M, a) \subseteq Owned(L, a)
BY DEF Owned

\* A lock that grows older covers the same cells.
LEMMA TimeKeepsOwnership ==
  ASSUME NEW L \in SUBSET EditLock, NEW a
  PROVE  Owned(Aged(L), a) = Owned(L, a)
<1>1. Owned(Aged(L), a) \subseteq Owned(L, a)
  BY AgedKeepsFootprint DEF Owned
<1>2. ASSUME NEW l \in L, l.agent = a
      PROVE  Footprint(l) \subseteq Owned(Aged(L), a)
  <2> DEFINE k == [l EXCEPT !.age = Older(@)]
  <2>1. k \in Aged(L)
    BY DEF Aged
  <2>2. k.path = l.path /\ k.range = l.range /\ k.agent = a
    BY <1>2 DEF EditLock
  <2>3. Footprint(k) = Footprint(l)
    BY <2>2 DEF Footprint, Covers
  <2> HIDE DEF k
  <2> QED
    BY <2>1, <2>2, <2>3 DEF Owned
<1>3. Owned(L, a) \subseteq Owned(Aged(L), a)
  BY <1>2 DEF Owned
<1> QED
  BY <1>1, <1>3

(***************************************************************************)
(* The gate implements exclusive ownership of regions: an acquisition      *)
(* takes cells that no other agent owns, every other step only gives cells *)
(* back or leaves ownership alone.                                         *)
(***************************************************************************)
THEOREM RegionsRefined == Spec => RegionsSpec
<1> DEFINE owned == [a \in Agent |-> Owned(locks, a)]
<1>1. Init => Regions!Init
  BY DEF Init, Regions!Init, Owned
<1>2. TypeOK /\ [Next]_vars => [Regions!Next]_owned
  <2> SUFFICES ASSUME TypeOK, [Next]_vars
               PROVE  [Regions!Next]_owned
    OBVIOUS
  <2>a. /\ owned \in [Agent -> SUBSET Cell]
        /\ owned' \in [Agent -> SUBSET Cell]
    BY OwnedIsCells
  <2>0. ASSUME locks' \subseteq locks
        PROVE  Regions!Next
    <3>1. \A a \in Agent : owned'[a] \subseteq owned[a]
      BY <2>0, FewerLocksOwnLess
    <3> QED
      BY <2>a, <3>1 DEF Regions!Next, Regions!Yield
  <2>1. ASSUME NEW t \in Thread, NEW req \in Requests, AcquirePrune(t, req)
        PROVE  Regions!Next
    BY <2>0, <2>1 DEF AcquirePrune, prune_stale
  <2>2. ASSUME NEW t \in Thread, AcquireAdmit(t)
        PROVE  Regions!Next
    <3> DEFINE req == pending[t]
               new == [path |-> req.path, range |-> req.range,
                       agent |-> req.agent, age |-> 0]
    <3>1. req \in Request /\ locks \in SUBSET EditLock
      BY <2>2, RequestsAssumption DEF AcquireAdmit, TypeOK
    <3>2. locks' = locks \cup {new} /\ Blockers(locks, req) = {}
      BY <2>2 DEF AcquireAdmit, Granted
    <3>3. new.agent = req.agent /\ req.agent \in Agent
      BY <3>1 DEF Request
    <3>4. Footprint(new) = Footprint(req)
      BY GrantedFootprint
    <3> HIDE DEF new
    <3>5. \A b \in Agent \ {req.agent} : Owned(locks', b) = Owned(locks, b)
      BY <3>2, <3>3 DEF Owned
    <3>6. Owned(locks', req.agent) = Owned(locks, req.agent) \cup Footprint(req)
      BY <3>2, <3>3, <3>4 DEF Owned
    <3>7. \A b \in Agent \ {req.agent} : Footprint(req) \cap Owned(locks, b) = {}
      BY <3>1, <3>2, GrantedIsFree DEF Owned
    <3>8. Regions!Grab(req.agent)
      <4>1. owned[req.agent] \subseteq owned'[req.agent]
        BY <3>3, <3>6
      <4>2. \A b \in Agent \ {req.agent} :
              /\ owned'[b] = owned[b]
              /\ owned'[req.agent] \cap owned[b] \subseteq owned[req.agent]
        BY <3>3, <3>5, <3>6, <3>7
      <4> QED
        BY <2>a, <4>1, <4>2 DEF Regions!Grab
    <3> QED
      BY <3>3, <3>8 DEF Regions!Next
  <2>3. ASSUME NEW t \in Thread, AcquireReject(t)
        PROVE  Regions!Next
    BY <2>0, <2>3 DEF AcquireReject
  <2>4. ASSUME NEW p \in Path, NEW a \in Agent, Release(p, a)
        PROVE  Regions!Next
    BY <2>0, <2>4 DEF Release, release
  <2>5. ASSUME NEW a \in Agent, ReleaseForAgent(a)
        PROVE  Regions!Next
    BY <2>0, <2>5 DEF ReleaseForAgent, release_for_agent
  <2>6. ASSUME NEW max_age \in PruneAge, PruneStale(max_age)
        PROVE  Regions!Next
    BY <2>0, <2>6 DEF PruneStale, prune_stale
  <2>7. CASE ClearAll
    BY <2>0, <2>7 DEF ClearAll
  <2>8. CASE Tick
    <3>1. locks \in SUBSET EditLock /\ locks' = Aged(locks)
      BY <2>8 DEF Tick, TypeOK
    <3>2. \A a \in Agent : Owned(locks', a) = Owned(locks, a)
      BY <3>1, TimeKeepsOwnership
    <3> QED
      BY <3>2
  <2>9. CASE UNCHANGED vars
    BY <2>0, <2>9 DEF vars
  <2> QED
    BY <2>1, <2>2, <2>3, <2>4, <2>5, <2>6, <2>7, <2>8, <2>9 DEF Next
<1> QED
  BY <1>1, <1>2, TypeCorrect, PTL DEF Spec, RegionsSpec, Regions!Spec

(***************************************************************************)
(* acquire refuses only for a reason, for every tree of paths and every    *)
(* set of ranges: a lock that blocks a request covers a line the request   *)
(* covers, or is held on a caller of the requested resource.               *)
(***************************************************************************)
THEOREM RefusalsHaveAReason == Spec => NoSpuriousRefusal
<1> DEFINE Reason(t) ==
      AcquireReject(t) =>
        \E l \in locks :
          /\ l.agent # pending[t].agent
          /\ \/ Footprint(l) \cap Footprint(pending[t]) # {}
             \/ /\ pending[t].mapped
                /\ Canon[l.path] \in Callers[Canon[pending[t].path]]
<1>1. TypeOK /\ [Next]_vars => \A t \in Thread : Reason(t)
  <2> SUFFICES ASSUME TypeOK, NEW t \in Thread, AcquireReject(t)
               PROVE  Reason(t)
    OBVIOUS
  <2>1. pending[t] \in Request
    BY RequestsAssumption DEF AcquireReject, TypeOK
  <2>2. PICK l \in Blockers(locks, pending[t]) : TRUE
    BY DEF AcquireReject
  <2>3. /\ l \in locks /\ l \in EditLock /\ l.agent # pending[t].agent
        /\ \/ DirectLine(pending[t], l) \/ ScopeOverlap(pending[t], l)
           \/ Semantic(pending[t], l)
    BY DEF Blockers, TypeOK
  <2>4. CASE DirectLine(pending[t], l) \/ ScopeOverlap(pending[t], l)
    <3>1. Footprint(l) \cap Footprint(pending[t]) # {}
      BY <2>1, <2>3, <2>4, ConflictSharesCell DEF Request, EditLock
    <3> QED
      BY <2>3, <3>1
  <2>5. CASE Semantic(pending[t], l)
    BY <2>3, <2>5 DEF Semantic
  <2> QED
    BY <2>3, <2>4, <2>5
<1> QED
  BY <1>1, TypeCorrect, PTL DEF Spec, NoSpuriousRefusal
=============================================================================
