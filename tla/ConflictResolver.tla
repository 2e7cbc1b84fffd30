--------------------------- MODULE ConflictResolver ---------------------------
(***************************************************************************)
(* ConflictResolver (velocity-mcp/src/agent/conflict_resolution.rs): leases *)
(* on named resources, shared or exclusive, that expire by the wall clock, *)
(* and a bounded history of conflicts that is saved to and loaded from the *)
(* workspace.                                                              *)
(*                                                                         *)
(* Two equal leases are one element of the set: no operation counts them.  *)
(* A conflict keeps its id and whether it was resolved.                    *)
(***************************************************************************)
EXTENDS Integers, Sequences

CONSTANTS
  Actor,
  Resource,
  lock_timeout_secs, \* 300 in the code
  max_conflicts,     \* 200 in the code
  Start,             \* the wall clock when the session begins
  MaxTime            \* bound on the wall clock

ASSUME ClockAssumption ==
  /\ lock_timeout_secs \in Nat \ {0}
  /\ Start \in Nat /\ MaxTime \in Nat

ASSUME HistoryAssumption == max_conflicts \in Nat \ {0}

LockKind == {"Exclusive", "Shared"}

ResourceLock ==
  [resource : Resource, holder_id : Actor, kind : LockKind, expires_at : Nat]

\* conflict_{now}_{len}: both numbers are part of the id.
OperationConflict == [id : Nat \X Nat, resolved : BOOLEAN]

VARIABLES
  now,        \* now_secs()
  locks,
  conflicts,  \* oldest first
  disk        \* what conflict_history.json reads as; <<>> if it does not parse

vars == <<now, locks, conflicts, disk>>

TypeOK ==
  /\ now \in Nat
  /\ locks \subseteq ResourceLock
  /\ conflicts \in Seq(OperationConflict)
  /\ disk \in Seq(OperationConflict)

Init ==
  /\ now = Start
  /\ locks = {}
  /\ conflicts = <<>>
  /\ disk = <<>>

\* The table without the leases that have timed out.
expire_old_locks == {l \in locks : l.expires_at = 0 \/ l.expires_at > now}

On(L, r) == {l \in L : l.resource = r}

\* Mutant: a shared request looks at other actors' exclusive leases only.
Refuses_OwnExclusive(L, r, a, kind) ==
  \/ /\ kind = "Exclusive"
     /\ On(L, r) # {}
     /\ \A l \in On(L, r) : l.holder_id # a
  \/ /\ kind = "Shared"
     /\ \E l \in On(L, r) : l.kind = "Exclusive" /\ l.holder_id # a

\* When try_lock answers AlreadyLocked.
Refuses(L, r, a, kind) ==
  \/ /\ kind = "Exclusive"
     /\ On(L, r) # {}
     /\ \A l \in On(L, r) : l.holder_id # a
  \/ /\ kind = "Shared"
     /\ \E l \in On(L, r) : l.kind = "Exclusive"

\* An exclusive request of an actor that holds any lease on the resource is
\* answered Ok(()) and leaves the table as it is.
Relocks(L, r, a, kind) ==
  /\ kind = "Exclusive"
  /\ \E l \in On(L, r) : l.holder_id = a

try_lock(r, a, kind) ==
  LET L == expire_old_locks
      lock == [resource |-> r, holder_id |-> a, kind |-> kind,
               expires_at |-> now + lock_timeout_secs]
  IN  /\ locks' = IF Refuses(L, r, a, kind) \/ Relocks(L, r, a, kind)
                    THEN L ELSE L \cup {lock}
      /\ UNCHANGED <<now, conflicts, disk>>

\* Mutant: the resource is freed, whoever holds it.
unlock_Resource(r, a) ==
  /\ locks' = {l \in locks : l.resource # r}
  /\ UNCHANGED <<now, conflicts, disk>>

unlock(r, a) ==
  /\ locks' = {l \in locks : ~ (l.resource = r /\ l.holder_id = a)}
  /\ UNCHANGED <<now, conflicts, disk>>

\* The newest entry is appended, then the oldest go until the rest fits.
record_conflict ==
  /\ LET all == Append(conflicts, [id |-> <<now, Len(conflicts)>>,
                                   resolved |-> FALSE])
     IN  conflicts' = IF Len(all) > max_conflicts
                        THEN SubSeq(all, Len(all) - max_conflicts + 1, Len(all))
                        ELSE all
  /\ UNCHANGED <<now, locks, disk>>

\* The first entry with the id is resolved.
resolve(id) ==
  /\ \E i \in DOMAIN conflicts :
       /\ conflicts[i].id = id
       /\ \A j \in 1 .. i - 1 : conflicts[j].id # id
       /\ conflicts' = [conflicts EXCEPT ![i].resolved = TRUE]
  /\ UNCHANGED <<now, locks, disk>>

\* The file is truncated and written in place.  The write may fail before it
\* has touched the file, or be cut: what is left does not parse, and load takes
\* that for no history.
save ==
  /\ disk' \in {conflicts, disk, <<>>}
  /\ UNCHANGED <<now, locks, conflicts>>

\* Another session: the history comes from the disk, the leases are gone.
load ==
  /\ conflicts' = disk
  /\ locks' = {}
  /\ UNCHANGED <<now, disk>>

\* A second passes.
Tick ==
  /\ now < MaxTime
  /\ now' = now + 1
  /\ UNCHANGED <<locks, conflicts, disk>>

Next ==
  \/ \E r \in Resource, a \in Actor :
       unlock(r, a) \/ \E kind \in LockKind : try_lock(r, a, kind)
  \/ record_conflict
  \/ \E i \in DOMAIN conflicts : resolve(conflicts[i].id)
  \/ save \/ load
  \/ Tick

Spec == Init /\ [][Next]_vars

-----------------------------------------------------------------------------
(***************************************************************************)
(* Properties                                                              *)
(***************************************************************************)
\* An exclusive lease is the only lease on its resource: no sequence of
\* requests, re-locks and expiries puts another beside it (try_lock).
ExclusiveAlone ==
  \A k, l \in locks :
    k.resource = l.resource /\ k.kind = "Exclusive" => k = l

\* What an actor holds stays its own: apart from a new session, a step ends the
\* running leases of one actor on one resource at most, and none when it grants
\* one (unlock, expire_old_locks, try_lock).
LeasesAreKept ==
  [][LET gone == {l \in locks \ locks' : l.expires_at > now}
     IN  \/ load
         \/ /\ \A k, l \in gone : /\ k.resource = l.resource
                                   /\ k.holder_id = l.holder_id
            /\ gone # {} => locks' \subseteq locks]_vars

\* The history never outgrows max_conflicts, in memory or on disk
\* ("Maximum conflicts to retain", conflict_resolution.rs:152).
HistoryBounded == Len(conflicts) <= max_conflicts /\ Len(disk) <= max_conflicts
=============================================================================
