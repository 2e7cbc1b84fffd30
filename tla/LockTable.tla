------------------------------ MODULE LockTable ------------------------------
(***************************************************************************)
(* The lock table of velocity-mcp/src/automation/write_gate.rs, as         *)
(* operators on a set of held locks.  Everything that wants to write into  *)
(* a workspace (the chat agent's tool calls, the orchestrator's workers,   *)
(* the editor's cursor presence) is admitted through one such table.       *)
(*                                                                         *)
(* A path is a PathBuf as some caller spells it; a resource is the         *)
(* canonical identity canonicalize_scope_path gives it.  The table keys    *)
(* its entries by spelling, compares them by resource.  A lock's timestamp *)
(* is represented by its age, which stops counting one past LOCK_TTL: no   *)
(* operation tells older locks apart.  Identical locks are one element of  *)
(* the set: no operation counts them.                                      *)
(***************************************************************************)
EXTENDS Integers

CONSTANTS
  Agent,       \* agent ids: "primary", "task-N", "Agent_Thread"
  Path,        \* spellings of paths handed to the gate
  Resource,    \* canonical identities
  Canon,       \* canonicalize_scope_path: [Path -> Resource]
  DirPath,     \* spellings taken for a directory whatever the range
  Inside,      \* <<x, y>>: resource x lies strictly below resource y
  Callers,     \* SiteMap::get_callers: [Resource -> SUBSET Resource]
  LineRange,   \* line ranges <<first, last>> that callers ask for
  Line,        \* the lines of a file
  ScopeEnd,    \* last lines that mean "everything": usize::MAX, usize::MAX / 4
  WHOLE_SCOPE, \* the range of a whole-file or directory lock
  LOCK_TTL     \* age beyond which an acquisition prunes a lock

ASSUME PathAssumption ==
  /\ Canon \in [Path -> Resource]
  /\ DirPath \subseteq Path

\* Two directories that contain the same resource are nested.
ASSUME TreeAssumption ==
  /\ Inside \subseteq Resource \X Resource
  /\ \A x, y, z \in Resource :
       <<x, y>> \in Inside /\ <<x, z>> \in Inside
         => y = z \/ <<y, z>> \in Inside \/ <<z, y>> \in Inside

ASSUME CallersAssumption == Callers \in [Resource -> SUBSET Resource]

ASSUME RangeAssumption ==
  /\ LineRange \subseteq Nat \X Nat
  /\ Line \subseteq Nat
  /\ WHOLE_SCOPE \in LineRange
  /\ WHOLE_SCOPE[2] \in ScopeEnd

\* A range runs from a line of the file to that line or a later one.
ASSUME RangeNotEmpty == \A r \in LineRange : r[1] \in Line /\ r[1] <= r[2]

ASSUME TTLAssumption == LOCK_TTL \in Nat

Age == 0 .. LOCK_TTL + 1

EditLock == [path : Path, range : LineRange, agent : Agent, age : Age]

\* The arguments of acquire; mapped says whether a site map is supplied.
Request == [path : Path, range : LineRange, agent : Agent, mapped : BOOLEAN]

-----------------------------------------------------------------------------
(***************************************************************************)
(* Scopes                                                                  *)
(***************************************************************************)
is_dir_scope(p, r) == p \in DirPath \/ r[2] \in ScopeEnd

is_canonical_within_scope(x, root) == x = root \/ <<x, root>> \in Inside

\* Mutant: paths are compared as they are spelled.
scopes_overlap_Spelled(a, aIsDir, b, bIsDir) ==
  \/ a = b
  \/ aIsDir /\ <<Canon[b], Canon[a]>> \in Inside
  \/ bIsDir /\ <<Canon[a], Canon[b]>> \in Inside

\* Mutant: only the requested scope is looked into for a nested lock.
scopes_overlap_OneWay(a, aIsDir, b, bIsDir) ==
  \/ Canon[a] = Canon[b]
  \/ aIsDir /\ is_canonical_within_scope(Canon[b], Canon[a])

scopes_overlap(a, aIsDir, b, bIsDir) ==
  \/ Canon[a] = Canon[b]
  \/ aIsDir /\ is_canonical_within_scope(Canon[b], Canon[a])
  \/ bIsDir /\ is_canonical_within_scope(Canon[a], Canon[b])

(***************************************************************************)
(* Why a held lock of another agent refuses a request.                     *)
(***************************************************************************)
\* Two locks on the lines of one file: only their ranges matter.
SameFile(req, l) ==
  /\ ~ is_dir_scope(req.path, req.range)
  /\ ~ is_dir_scope(l.path, l.range)
  /\ Canon[l.path] = Canon[req.path]

\* Mutant: any two locks on a file collide, whatever their lines.
DirectLine_AnyLine(req, l) == SameFile(req, l)

DirectLine(req, l) ==
  /\ SameFile(req, l)
  /\ req.range[1] <= l.range[2]
  /\ req.range[2] >= l.range[1]

ScopeOverlap(req, l) ==
  /\ ~ SameFile(req, l)
  /\ scopes_overlap(req.path, is_dir_scope(req.path, req.range),
                    l.path, is_dir_scope(l.path, l.range))

Semantic(req, l) ==
  /\ req.mapped
  /\ Canon[l.path] # Canon[req.path]
  /\ Canon[l.path] \in Callers[Canon[req.path]]

\* The locks for which acquire returns Err(Conflict).
Blockers(L, req) ==
  {l \in L : /\ l.agent # req.agent
             /\ DirectLine(req, l) \/ ScopeOverlap(req, l) \/ Semantic(req, l)}

-----------------------------------------------------------------------------
(***************************************************************************)
(* The operations, each one critical section on the table's mutex.         *)
(***************************************************************************)
\* The tail of acquire: the lock is pushed with the current instant.
Granted(L, req) ==
  L \cup {[path |-> req.path, range |-> req.range, agent |-> req.agent,
           age |-> 0]}

\* Mutant: the owner is not compared.
release_AnyAgent(L, p, a) == {l \in L : Canon[l.path] # Canon[p]}

release(L, p, a) ==
  {l \in L : ~ (Canon[l.path] = Canon[p] /\ l.agent = a)}

release_for_agent(L, a) == {l \in L : l.agent # a}

\* Mutant: a lock exactly max_age old is dropped.
prune_stale_OffByOne(L, max_age) == {l \in L : l.age < max_age}

prune_stale(L, max_age) == {l \in L : l.age <= max_age}

holds(L, a, p) == \E l \in L : Canon[l.path] = Canon[p] /\ l.agent = a

\* A unit of time passes.
Older(n) == IF n <= LOCK_TTL THEN n + 1 ELSE n

Aged(L) == {[l EXCEPT !.age = Older(@)] : l \in L}

-----------------------------------------------------------------------------
(***************************************************************************)
(* What a lock is for: the lines of the resources it lets its agent write. *)
(***************************************************************************)
Cell == Resource \X Line

Covers(l, x, n) ==
  \/ /\ Canon[l.path] = x
     /\ is_dir_scope(l.path, l.range) \/ (l.range[1] <= n /\ n <= l.range[2])
  \/ /\ is_dir_scope(l.path, l.range)
     /\ <<x, Canon[l.path]>> \in Inside

Footprint(l) == {c \in Cell : Covers(l, c[1], c[2])}

\* The cells agent a holds in table L.
Owned(L, a) == UNION {Footprint(l) : l \in {k \in L : k.agent = a}}
=============================================================================
