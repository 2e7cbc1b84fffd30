--------------------------- MODULE LockTableProofs ---------------------------
(***************************************************************************)
(* Facts about the operations of the lock table, which the gate and its    *)
(* clients share.                                                          *)
(***************************************************************************)
EXTENDS LockTable, TLAPS

(***************************************************************************)
(* The conflict test is strong enough: a lock that neither collides on     *)
(* lines nor overlaps in scope shares no cell with the request.  The case  *)
(* that needs the tree structure of paths is that of two directory scopes  *)
(* that both contain a resource.                                           *)
(***************************************************************************)
LEMMA NoConflictNoSharedCell ==
  ASSUME NEW req, NEW l,
         req.path \in Path, req.range \in LineRange,
         l.path \in Path, l.range \in LineRange,
         ~ DirectLine(req, l), ~ ScopeOverlap(req, l)
  PROVE  Footprint(req) \cap Footprint(l) = {}
<1> SUFFICES ASSUME NEW x \in Resource, NEW n \in Line,
                    Covers(req, x, n), Covers(l, x, n)
             PROVE  FALSE
  BY DEF Footprint, Cell
<1> DEFINE rd == is_dir_scope(req.path, req.range)
           ld == is_dir_scope(l.path, l.range)
           rc == Canon[req.path]
           lc == Canon[l.path]
<1>1. rc \in Resource /\ lc \in Resource
  BY PathAssumption
<1>2. n \in Nat /\ req.range \in Nat \X Nat /\ l.range \in Nat \X Nat
  BY RangeAssumption
<1>3. CASE rc = x /\ lc = x
  <2>1. CASE ~ rd /\ ~ ld
    <3>1. SameFile(req, l)
      BY <1>3, <2>1 DEF SameFile
    <3>2. /\ req.range[1] <= n /\ n <= req.range[2]
          /\ l.range[1] <= n /\ n <= l.range[2]
      BY <1>3, <2>1 DEF Covers
    <3>3. req.range[1] <= l.range[2] /\ req.range[2] >= l.range[1]
      BY <1>2, <3>2
    <3> QED
      BY <3>1, <3>3 DEF DirectLine
  <2>2. CASE rd \/ ld
    BY <1>3, <2>2 DEF ScopeOverlap, SameFile, scopes_overlap
  <2> QED
    BY <2>1, <2>2
<1>4. CASE rc # x
  <2>1. rd /\ <<x, rc>> \in Inside
    BY <1>4 DEF Covers
  <2>2. CASE lc = x
    BY <2>1, <2>2
       DEF ScopeOverlap, SameFile, scopes_overlap, is_canonical_within_scope
  <2>3. CASE lc # x
    <3>1. ld /\ <<x, lc>> \in Inside
      BY <2>3 DEF Covers
    <3>2. rc = lc \/ <<rc, lc>> \in Inside \/ <<lc, rc>> \in Inside
      BY <1>1, <2>1, <3>1, TreeAssumption
    <3> QED
      BY <2>1, <3>1, <3>2
         DEF ScopeOverlap, SameFile, scopes_overlap, is_canonical_within_scope
  <2> QED
    BY <2>2, <2>3
<1>5. CASE lc # x /\ rc = x
  <2>1. ld /\ <<x, lc>> \in Inside
    BY <1>5 DEF Covers
  <2> QED
    BY <1>5, <2>1
       DEF ScopeOverlap, SameFile, scopes_overlap, is_canonical_within_scope
<1> QED
  BY <1>3, <1>4, <1>5

\* The conflict test is not too strong: a lock that collides on lines or
\* overlaps in scope shares a cell with the request.
LEMMA ConflictSharesCell ==
  ASSUME NEW req, NEW l,
         req.path \in Path, req.range \in LineRange,
         l.path \in Path, l.range \in LineRange,
         DirectLine(req, l) \/ ScopeOverlap(req, l)
  PROVE  Footprint(l) \cap Footprint(req) # {}
<1>0. ASSUME NEW x \in Resource, NEW n \in Line,
             Covers(req, x, n), Covers(l, x, n)
      PROVE  Footprint(l) \cap Footprint(req) # {}
  <2>1. <<x, n>> \in Footprint(l) /\ <<x, n>> \in Footprint(req)
    BY <1>0 DEF Footprint, Cell
  <2> QED
    BY <2>1
<1> DEFINE rc == Canon[req.path]
           lc == Canon[l.path]
           r == req.range[1]
           s == l.range[1]
<1>1. /\ rc \in Resource /\ lc \in Resource
      /\ r \in Line /\ r \in Nat /\ req.range[2] \in Nat /\ r <= req.range[2]
      /\ s \in Line /\ s \in Nat /\ l.range[2] \in Nat /\ s <= l.range[2]
  BY PathAssumption, RangeAssumption, RangeNotEmpty
<1>2. CASE DirectLine(req, l)
  <2>1. rc = lc /\ r <= l.range[2] /\ s <= req.range[2]
    BY <1>1, <1>2 DEF DirectLine, SameFile
  <2>2. CASE r <= s
    <3>1. Covers(req, rc, s) /\ Covers(l, rc, s)
      BY <1>1, <2>1, <2>2 DEF Covers
    <3> QED
      BY <1>0, <1>1, <3>1
  <2>3. CASE s <= r
    <3>1. Covers(req, rc, r) /\ Covers(l, rc, r)
      BY <1>1, <2>1, <2>3 DEF Covers
    <3> QED
      BY <1>0, <1>1, <3>1
  <2> QED
    BY <1>1, <2>2, <2>3
<1>3. CASE ScopeOverlap(req, l)
  <2>1. CASE is_dir_scope(req.path, req.range)
    <3>1. CASE rc = lc \/ <<lc, rc>> \in Inside
      <4>1. Covers(req, lc, s) /\ Covers(l, lc, s)
        BY <1>1, <2>1, <3>1 DEF Covers
      <4> QED
        BY <1>0, <1>1, <4>1
    <3>2. CASE is_dir_scope(l.path, l.range) /\ <<rc, lc>> \in Inside
      <4>1. Covers(req, rc, r) /\ Covers(l, rc, r)
        BY <1>1, <2>1, <3>2 DEF Covers
      <4> QED
        BY <1>0, <1>1, <4>1
    <3> QED
      BY <1>3, <3>1, <3>2
      DEF ScopeOverlap, scopes_overlap, is_canonical_within_scope
  <2>2. CASE ~ is_dir_scope(req.path, req.range)
    <3>1. /\ is_dir_scope(l.path, l.range)
          /\ rc = lc \/ <<rc, lc>> \in Inside
      BY <1>3, <2>2
      DEF ScopeOverlap, SameFile, scopes_overlap, is_canonical_within_scope
    <3>2. Covers(req, rc, r) /\ Covers(l, rc, r)
      BY <1>1, <3>1 DEF Covers
    <3> QED
      BY <1>0, <1>1, <3>2
  <2> QED
    BY <2>1, <2>2
<1> QED
  BY <1>2, <1>3

(***************************************************************************)
(* Facts about the table operations.                                       *)
(***************************************************************************)
\* Every lock that survives a step in which time passes is an older copy of
\* a lock that covers the same cells for the same agent.
LEMMA AgedKeepsFootprint ==
  ASSUME NEW L \in SUBSET EditLock, NEW k \in Aged(L)
  PROVE  \E l \in L : k.agent = l.agent /\ Footprint(k) = Footprint(l)
<1>1. PICK l \in L : k = [l EXCEPT !.age = Older(@)]
  BY DEF Aged
<1>2. k.path = l.path /\ k.range = l.range /\ k.agent = l.agent
  BY <1>1 DEF EditLock
<1>3. Footprint(k) = Footprint(l)
  BY <1>2 DEF Footprint, Covers
<1> QED
  BY <1>2, <1>3

\* A granted lock shares no cell with a lock of another agent.
LEMMA GrantedIsFree ==
  ASSUME NEW L \in SUBSET EditLock, NEW req \in Request,
         Blockers(L, req) = {},
         NEW l \in L, l.agent # req.agent
  PROVE  Footprint(req) \cap Footprint(l) = {}
<1>1. ~ DirectLine(req, l) /\ ~ ScopeOverlap(req, l)
  BY DEF Blockers
<1>2. /\ req.path \in Path /\ req.range \in LineRange
      /\ l.path \in Path /\ l.range \in LineRange
  BY DEF Request, EditLock
<1> QED
  BY <1>1, <1>2, NoConflictNoSharedCell

\* The lock a request becomes covers what the request covers.
LEMMA GrantedFootprint ==
  ASSUME NEW req
  PROVE  Footprint([path |-> req.path, range |-> req.range,
                    agent |-> req.agent, age |-> 0]) = Footprint(req)
BY DEF Footprint, Covers

\* No line of any resource is covered by the locks of two agents.
Disjoint(L) ==
  \A k, l \in L : k.agent # l.agent => Footprint(k) \cap Footprint(l) = {}

\* An acquisition that nothing blocks keeps the table disjoint.
LEMMA GrantedKeepsDisjoint ==
  ASSUME NEW L \in SUBSET EditLock, NEW req \in Request,
         Blockers(L, req) = {}, Disjoint(L)
  PROVE  Disjoint(Granted(L, req))
<1> DEFINE new == [path |-> req.path, range |-> req.range,
                   agent |-> req.agent, age |-> 0]
<1>1. Granted(L, req) = L \cup {new}
  BY DEF Granted
<1>2. \A l \in L :
        l.agent # req.agent => Footprint(new) \cap Footprint(l) = {}
  BY GrantedIsFree, GrantedFootprint
<1>3. new.agent = req.agent
  OBVIOUS
<1> HIDE DEF new
<1> SUFFICES ASSUME NEW k \in L \cup {new}, NEW l \in L \cup {new},
                    k.agent # l.agent
             PROVE  Footprint(k) \cap Footprint(l) = {}
  BY <1>1 DEF Disjoint
<1>4. CASE k \in L /\ l \in L
  BY <1>4 DEF Disjoint
<1>5. CASE k = new /\ l \in L
  BY <1>2, <1>3, <1>5
<1>6. CASE k \in L /\ l = new
  BY <1>2, <1>3, <1>6
<1> QED
  BY <1>4, <1>5, <1>6

\* So does the passing of time.
LEMMA AgedKeepsDisjoint ==
  ASSUME NEW L \in SUBSET EditLock, Disjoint(L)
  PROVE  Disjoint(Aged(L))
<1> SUFFICES ASSUME NEW k \in Aged(L), NEW l \in Aged(L), k.agent # l.agent
             PROVE  Footprint(k) \cap Footprint(l) = {}
  BY DEF Disjoint
<1>1. PICK k0 \in L : k.agent = k0.agent /\ Footprint(k) = Footprint(k0)
  BY AgedKeepsFootprint
<1>2. PICK l0 \in L : l.agent = l0.agent /\ Footprint(l) = Footprint(l0)
  BY AgedKeepsFootprint
<1> QED
  BY <1>1, <1>2 DEF Disjoint

\* Locks and requests are what the operations make of them.
LEMMA GrantedIsTyped ==
  ASSUME NEW L \in SUBSET EditLock, NEW req \in Request
  PROVE  Granted(L, req) \in SUBSET EditLock
<1>1. [path |-> req.path, range |-> req.range, agent |-> req.agent,
       age |-> 0] \in EditLock
  BY TTLAssumption DEF Request, EditLock, Age
<1> QED
  BY <1>1 DEF Granted

\* A lock keeps its type while it ages.
LEMMA AgedIsTyped ==
  ASSUME NEW L \in SUBSET EditLock
  PROVE  Aged(L) \in SUBSET EditLock
<1>1. ASSUME NEW l \in EditLock
      PROVE  [l EXCEPT !.age = Older(@)] \in EditLock
  BY TTLAssumption DEF EditLock, Age, Older
<1> QED
  BY <1>1 DEF Aged
=============================================================================
