------------------------ MODULE ConflictResolverProofs ------------------------
(***************************************************************************)
(* Theorems about ConflictResolver, for any actors, resources, lease times *)
(* and history sizes.                                                      *)
(***************************************************************************)
EXTENDS ConflictResolver, SequenceTheorems, TLAPS

\* What record_conflict keeps of a history is a history that fits.
LEMMA RecordedFits ==
  ASSUME NEW c \in Seq(OperationConflict), NEW e \in OperationConflict,
         Len(c) <= max_conflicts
  PROVE  LET all == Append(c, e)
             new == IF Len(all) > max_conflicts
                      THEN SubSeq(all, Len(all) - max_conflicts + 1, Len(all))
                      ELSE all
         IN  new \in Seq(OperationConflict) /\ Len(new) <= max_conflicts
<1> DEFINE all == Append(c, e)
<1>1. all \in Seq(OperationConflict) /\ Len(all) = Len(c) + 1 /\ Len(c) \in Nat
  OBVIOUS
<1>2. CASE Len(all) > max_conflicts
  <2> DEFINE m == Len(all) - max_conflicts + 1
  <2>1. m \in 1 .. Len(all) + 1 /\ Len(all) \in m - 1 .. Len(all)
    BY <1>1, <1>2, HistoryAssumption
  <2>2. SubSeq(all, m, Len(all)) \in Seq(OperationConflict)
    <3>1. \A i \in m .. Len(all) : all[i] \in OperationConflict
      BY <1>1, <2>1
    <3>2. QED BY <1>1, <2>1, <3>1, SubSeqProperties
  <2>3. Len(SubSeq(all, m, Len(all))) = max_conflicts
    BY <1>1, <2>1, HistoryAssumption, SubSeqProperties
  <2>4. QED BY <1>2, <2>2, <2>3, HistoryAssumption
<1>3. CASE ~ (Len(all) > max_conflicts)
  BY <1>1, <1>3, HistoryAssumption
<1>4. QED BY <1>2, <1>3

\* Resolving an entry keeps the history a history of the same length.
LEMMA ResolvedFits ==
  ASSUME NEW c \in Seq(OperationConflict), NEW i \in DOMAIN c
  PROVE  /\ [c EXCEPT ![i].resolved = TRUE] \in Seq(OperationConflict)
         /\ Len([c EXCEPT ![i].resolved = TRUE]) = Len(c)
<1> DEFINE d == [c EXCEPT ![i].resolved = TRUE]
<1>1. Len(c) \in Nat /\ DOMAIN c = 1 .. Len(c)
  OBVIOUS
<1>2. \A j \in 1 .. Len(c) : c[j] \in OperationConflict
  OBVIOUS
<1>3. d \in [1 .. Len(c) -> OperationConflict]
  BY <1>1, <1>2 DEF OperationConflict
<1>4. QED BY <1>1, <1>3

\* The resolver keeps its types and its history fits (every operation,
\* conflict_resolution.rs:169-384).
LEMMA TypesAndBound == Spec => [](TypeOK /\ HistoryBounded)
<1>1. Init => TypeOK /\ HistoryBounded
  BY ClockAssumption, HistoryAssumption DEF Init, TypeOK, HistoryBounded
<1>2. TypeOK /\ HistoryBounded /\ [Next]_vars => (TypeOK /\ HistoryBounded)'
  <2> SUFFICES ASSUME TypeOK, HistoryBounded, [Next]_vars
               PROVE  (TypeOK /\ HistoryBounded)'
    OBVIOUS
  <2> USE DEF TypeOK, HistoryBounded
  <2>1. CASE \E r \in Resource, a \in Actor, kind \in LockKind :
               try_lock(r, a, kind)
    <3> PICK r \in Resource, a \in Actor, kind \in LockKind :
               try_lock(r, a, kind)
      BY <2>1
    <3>1. now + lock_timeout_secs \in Nat
      BY ClockAssumption
    <3>2. locks' \subseteq ResourceLock
      BY <3>1 DEF try_lock, expire_old_locks, ResourceLock
    <3>3. QED BY <3>2 DEF try_lock
  <2>2. CASE \E r \in Resource, a \in Actor : unlock(r, a)
    BY <2>2 DEF unlock
  <2>3. CASE record_conflict
    <3>1. [id |-> <<now, Len(conflicts)>>, resolved |-> FALSE]
            \in OperationConflict
      BY DEF OperationConflict
    <3>2. conflicts' \in Seq(OperationConflict) /\ Len(conflicts') <= max_conflicts
      BY <2>3, <3>1, RecordedFits DEF record_conflict
    <3>3. QED BY <2>3, <3>2 DEF record_conflict
  <2>4. CASE \E i \in DOMAIN conflicts : resolve(conflicts[i].id)
    <3> PICK i \in DOMAIN conflicts :
               conflicts' = [conflicts EXCEPT ![i].resolved = TRUE]
      BY <2>4 DEF resolve
    <3>1. conflicts' \in Seq(OperationConflict) /\ Len(conflicts') = Len(conflicts)
      BY ResolvedFits
    <3>2. QED BY <2>4, <3>1 DEF resolve
  <2>5. CASE save
    <3>1. /\ <<>> \in Seq(OperationConflict) /\ Len(<<>>) = 0
          /\ 0 <= max_conflicts
      BY HistoryAssumption
    <3>2. disk' \in Seq(OperationConflict) /\ Len(disk') <= max_conflicts
      BY <2>5, <3>1 DEF save
    <3>3. QED BY <2>5, <3>2 DEF save
  <2>6. CASE load
    BY <2>6 DEF load
  <2>7. CASE Tick
    BY <2>7 DEF Tick
  <2>8. CASE UNCHANGED vars
    BY <2>8 DEF vars
  <2>9. QED BY <2>1, <2>2, <2>3, <2>4, <2>5, <2>6, <2>7, <2>8 DEF Next
<1>3. QED BY <1>1, <1>2, PTL DEF Spec

\* Every reachable state has its types.
THEOREM TypeCorrect == Spec => []TypeOK
BY TypesAndBound, PTL

\* The history never outgrows max_conflicts, whatever the order of records,
\* resolutions, saves and restarts (record_conflict, save, load).
THEOREM Bounded == Spec => []HistoryBounded
BY TypesAndBound, PTL

\* An exclusive lease is alone on its resource in every reachable state
\* (try_lock, unlock, expire_old_locks, load).
THEOREM LeaseExclusion == Spec => []ExclusiveAlone
<1>1. Init => ExclusiveAlone
  BY DEF Init, ExclusiveAlone
<1>2. ExclusiveAlone /\ [Next]_vars => ExclusiveAlone'
  <2> SUFFICES ASSUME ExclusiveAlone, [Next]_vars
               PROVE  ExclusiveAlone'
    OBVIOUS
  <2> USE DEF ExclusiveAlone
  <2>1. ASSUME NEW r \in Resource, NEW a \in Actor, NEW kind \in LockKind,
               try_lock(r, a, kind)
        PROVE  ExclusiveAlone'
    <3> DEFINE L == expire_old_locks
               lock == [resource |-> r, holder_id |-> a, kind |-> kind,
                        expires_at |-> now + lock_timeout_secs]
    <3>1. L \subseteq locks
      BY DEF expire_old_locks
    <3>2. CASE locks' = L
      BY <3>1, <3>2
    <3>3. CASE /\ locks' = L \cup {lock}
               /\ ~ Refuses(L, r, a, kind) /\ ~ Relocks(L, r, a, kind)
      <4>1. kind = "Exclusive" => On(L, r) = {}
        BY <3>3 DEF Refuses, Relocks
      <4>2. \A l \in L : l.resource = r => kind = "Shared" /\ l.kind # "Exclusive"
        BY <3>3, <4>1 DEF Refuses, On, LockKind
      <4>3. lock.resource = r /\ lock.kind = kind
        OBVIOUS
      <4>4. QED BY <3>1, <3>3, <4>2, <4>3
    <3>4. QED BY <2>1, <3>2, <3>3 DEF try_lock
  <2>2. ASSUME NEW r \in Resource, NEW a \in Actor, unlock(r, a)
        PROVE  ExclusiveAlone'
    BY <2>2 DEF unlock
  <2>3. CASE load
    BY <2>3 DEF load
  <2>4. CASE UNCHANGED locks
    BY <2>4
  <2>5. QED
    BY <2>1, <2>2, <2>3, <2>4
    DEF Next, vars, record_conflict, resolve, save, Tick
<1>3. QED BY <1>1, <1>2, PTL DEF Spec

\* Apart from a new session, a step ends the running leases of one actor on one
\* resource at most, and none when it grants one (unlock, expire_old_locks,
\* try_lock, load).
THEOREM LeasesKept == Spec => LeasesAreKept
<1> DEFINE gone == {l \in locks \ locks' : l.expires_at > now}
           Kept == \/ load
                   \/ /\ \A k, l \in gone : /\ k.resource = l.resource
                                             /\ k.holder_id = l.holder_id
                      /\ gone # {} => locks' \subseteq locks
<1>1. TypeOK /\ [Next]_vars => [Kept]_vars
  <2> SUFFICES ASSUME TypeOK, [Next]_vars
               PROVE  Kept
    OBVIOUS
  <2>1. ASSUME NEW r \in Resource, NEW a \in Actor, NEW kind \in LockKind,
               try_lock(r, a, kind)
        PROVE  Kept
    <3>1. \A l \in locks \ locks' : l \notin expire_old_locks
      BY <2>1 DEF try_lock
    <3>2. \A l \in locks : l.expires_at \in Nat /\ now \in Nat
      BY DEF TypeOK, ResourceLock
    <3>3. gone = {}
      BY <3>1, <3>2 DEF expire_old_locks
    <3> QED
      BY <3>3
  <2>2. ASSUME NEW r \in Resource, NEW a \in Actor, unlock(r, a)
        PROVE  Kept
    <3>1. /\ \A l \in locks \ locks' : l.resource = r /\ l.holder_id = a
          /\ locks' \subseteq locks
      BY <2>2 DEF unlock
    <3> QED
      BY <2>2, <3>1
  <2>3. CASE load
    BY <2>3
  <2>4. CASE UNCHANGED locks
    BY <2>4
  <2> QED
    BY <2>1, <2>2, <2>3, <2>4
    DEF Next, vars, record_conflict, resolve, save, Tick
<1> QED
  BY <1>1, TypeCorrect, PTL DEF Spec, LeasesAreKept
=============================================================================
