------------------------------ MODULE WriteGate ------------------------------
(***************************************************************************)
(* WriteGate (velocity-mcp/src/automation/write_gate.rs) as a shared       *)
(* object: any thread may call any operation for any agent id at any time. *)
(* acquire is two critical sections: it prunes the stale locks, gives the  *)
(* mutex back, takes it again, looks for conflicts and pushes the lock.    *)
(* Other threads and the clock run between the two.                        *)
(***************************************************************************)
EXTENDS LockTable

CONSTANTS
  Thread,    \* threads that call the gate
  Requests,  \* the acquisitions they ask for
  PruneAge,  \* thresholds callers hand to prune_stale
  NoRequest  \* pending value of a thread that is not inside acquire

ASSUME RequestsAssumption == Requests \subseteq Request

ASSUME PruneAssumption == PruneAge \subseteq Nat

ASSUME NoRequestAssumption == NoRequest \notin Requests

VARIABLES
  locks,     \* the table
  pending    \* the request of a thread between acquire's two sections

vars == <<locks, pending>>

TypeOK ==
  /\ locks \subseteq EditLock
  /\ pending \in [Thread -> Requests \cup {NoRequest}]

Init ==
  /\ locks = {}
  /\ pending = [t \in Thread |-> NoRequest]

\* acquire, first section: prune_stale(LOCK_TTL).
AcquirePrune(t, req) ==
  /\ pending[t] = NoRequest
  /\ locks' = prune_stale(locks, LOCK_TTL)
  /\ pending' = [pending EXCEPT ![t] = req]

\* acquire, second section, no conflict: Ok(()).
AcquireAdmit(t) ==
  /\ pending[t] # NoRequest
  /\ Blockers(locks, pending[t]) = {}
  /\ locks' = Granted(locks, pending[t])
  /\ pending' = [pending EXCEPT ![t] = NoRequest]

\* acquire, second section, a conflict: Err(Conflict).
AcquireReject(t) ==
  /\ pending[t] # NoRequest
  /\ Blockers(locks, pending[t]) # {}
  /\ pending' = [pending EXCEPT ![t] = NoRequest]
  /\ UNCHANGED locks

Release(p, a) ==
  /\ locks' = release(locks, p, a)
  /\ UNCHANGED pending

ReleaseForAgent(a) ==
  /\ locks' = release_for_agent(locks, a)
  /\ UNCHANGED pending

PruneStale(max_age) ==
  /\ locks' = prune_stale(locks, max_age)
  /\ UNCHANGED pending

ClearAll ==
  /\ locks' = {}
  /\ UNCHANGED pending

\* Time passes for every held lock.
Tick ==
  /\ locks' = Aged(locks)
  /\ UNCHANGED pending

Next ==
  \/ \E t \in Thread, req \in Requests : AcquirePrune(t, req)
  \/ \E t \in Thread : AcquireAdmit(t) \/ AcquireReject(t)
  \/ \E p \in Path, a \in Agent : Release(p, a)
  \/ \E a \in Agent : ReleaseForAgent(a)
  \/ \E max_age \in PruneAge : PruneStale(max_age)
  \/ ClearAll
  \/ Tick

Spec == Init /\ [][Next]_vars

-----------------------------------------------------------------------------
(***************************************************************************)
(* Properties                                                              *)
(***************************************************************************)
\* No line of any resource is covered by the locks of two agents, whichever
\* spellings, ranges and directories they were taken through (acquire's
\* conflict loop, write_gate.rs:181-216).
Exclusive ==
  \A k, l \in locks :
    k.agent # l.agent => Footprint(k) \cap Footprint(l) = {}

\* acquire refuses only for a reason: at that moment another agent covers a
\* line the request covers, or holds a caller of the requested resource.
NoSpuriousRefusal ==
  [][\A t \in Thread :
       AcquireReject(t) =>
         \E l \in locks :
           /\ l.agent # pending[t].agent
           /\ \/ Footprint(l) \cap Footprint(pending[t]) # {}
              \/ /\ pending[t].mapped
                 /\ Canon[l.path] \in Callers[Canon[pending[t].path]]]_vars

\* The table implements exclusive ownership of regions.
Regions ==
  INSTANCE ExclusiveRegions WITH owned <- [a \in Agent |-> Owned(locks, a)]

RegionsSpec == Regions!Spec
=============================================================================
