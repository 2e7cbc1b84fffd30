---------------------------- MODULE WriteAdmission ----------------------------
(***************************************************************************)
(* The three clients of the application's one write gate, as threads that  *)
(* interleave between any two critical sections of the gate:               *)
(*                                                                         *)
(*  - tool calls of the chat agent (agent/executor/loop_runner.rs): the    *)
(*    calls of one turn run in parallel, every one claims its file through *)
(*    CoordinationBus under the one agent id "primary";                    *)
(*  - orchestrator workers (orchestrator/worker): each locks every entry   *)
(*    of its task's scope in order, gives all of them back on a conflict;  *)
(*  - the telemetry server (velocity-ide-gui/src/main.rs), which turns a   *)
(*    cursor movement into a short-lived presence lock.                    *)
(*                                                                         *)
(* Tool calls and workers may panic: the thread ends where it stands and   *)
(* nothing releases its locks.                                             *)
(***************************************************************************)
EXTENDS LockTable, Sequences

CONSTANTS
  Call,              \* the tool calls of a turn
  Task,              \* the tasks handed to workers
  Editor,            \* the telemetry server's thread ({} without it)
  AgentOf,           \* the agent id a thread acts under
  CallPath,          \* the file a tool call writes
  Scope,             \* the scope of a task, a sequence of paths
  MayPanic,          \* threads that may panic while they work
  PresencePath,      \* resolve_presence_file
  PresenceRange,     \* five lines either side of the cursor
  PRESENCE_LOCK_TTL, \* two seconds, against the thirty minutes of LOCK_TTL
  NoRequest

Actor == Call \cup Task \cup Editor

ASSUME ActorAssumption ==
  /\ AgentOf \in [Actor -> Agent]
  /\ CallPath \in [Call -> Path]
  /\ Scope \in [Task -> Seq(Path)]
  /\ MayPanic \subseteq Call \cup Task
  /\ PresencePath \in Path
  /\ PresenceRange \in LineRange
  /\ PRESENCE_LOCK_TTL \in Nat

\* A thread is a tool call, a worker or the telemetry server.
ASSUME ThreadAssumption ==
  /\ Call \cap Task = {}
  /\ Call \cap Editor = {}
  /\ Task \cap Editor = {}

ASSUME NoRequestAssumption == NoRequest \notin Request

VARIABLES
  locks,    \* the gate's table
  pc,       \* where every thread is
  todo,     \* scope entries a worker has yet to lock
  held,     \* locked_scopes: entries a worker has locked and not given back
  lost      \* threads whose lock others took from them (history)

vars == <<locks, pc, todo, held, lost>>

Phase == {"start", "checking", "locking", "working", "releasing", "rollback",
          "pruned", "dropped", "done", "failed", "blocked", "panicked"}

TypeOK ==
  /\ locks \subseteq EditLock
  /\ pc \in [Actor -> Phase]
  /\ todo \in [Task -> Seq(Path)]
  /\ held \in [Task -> Seq(Path)]
  /\ lost \subseteq Actor

Init ==
  /\ locks = {}
  /\ pc = [x \in Actor |-> IF x \in Task THEN "locking" ELSE "start"]
  /\ todo = Scope
  /\ held = [w \in Task |-> <<>>]
  /\ lost = {}

Finished(x) == pc[x] \in {"done", "failed", "blocked", "panicked"}

Goto(x, phase) == pc' = [pc EXCEPT ![x] = phase]

\* How a thread asks for p: a tool call without a site map, the telemetry server
\* for the lines around the cursor.
Ask(x, p) == [path |-> p,
              range |-> IF x \in Editor THEN PresenceRange ELSE WHOLE_SCOPE,
              agent |-> AgentOf[x], mapped |-> x \notin Call]

\* The acquisition a thread asks for next, or is in the middle of.
RequestOf(x) == Ask(x, IF x \in Call THEN CallPath[x]
                       ELSE IF x \in Task THEN Head(todo[x])
                       ELSE PresencePath)

\* Thread x counts on its lock on p.
CountsOn(x, p) ==
  \/ x \in Call /\ pc[x] = "working" /\ p = CallPath[x]
  \/ /\ x \in Task /\ pc[x] \in {"locking", "checking", "working"}
     /\ \E i \in DOMAIN held[x] : held[x][i] = p

\* The locks of L that serve thread x on p.
Own(L, x, p) == {l \in L : /\ l.path = p /\ l.range = WHOLE_SCOPE
                           /\ l.agent = AgentOf[x]}

\* A prune; a thread loses a lock that has outlived max_age.
Prunes(max_age) ==
  /\ locks' = prune_stale(locks, max_age)
  /\ lost' = lost \cup
               {y \in Actor :
                  \E p \in Path :
                    /\ CountsOn(y, p)
                    /\ \A l \in Own(locks, y, p) : l.age > max_age}

\* x gives locks back; the gate knows them by agent id, so a thread that shares
\* the id loses its own with them.
GivesBack(x, L) ==
  /\ locks' = L
  /\ lost' = lost \cup
               {y \in Actor \ {x} :
                  /\ AgentOf[y] = AgentOf[x]
                  /\ \E p \in Path : CountsOn(y, p) /\ Own(L, y, p) = {}}

\* The two critical sections of acquire.
PruneForAcquire(x) ==
  /\ Prunes(LOCK_TTL)
  /\ Goto(x, "checking")

Admitted(x) ==
  /\ pc[x] = "checking"
  /\ Blockers(locks, RequestOf(x)) = {}
  /\ locks' = Granted(locks, RequestOf(x))

Refused(x) ==
  /\ pc[x] = "checking"
  /\ Blockers(locks, RequestOf(x)) # {}
  /\ UNCHANGED locks

-----------------------------------------------------------------------------
(***************************************************************************)
(* A tool call.                                                            *)
(***************************************************************************)
\* Schema, surface or RBAC gate: the call returns before it claims.
CallDenied(c) ==
  /\ pc[c] = "start"
  /\ Goto(c, "done")
  /\ UNCHANGED <<locks, todo, held, lost>>

CallClaims(c) ==
  /\ pc[c] = "start"
  /\ PruneForAcquire(c)
  /\ UNCHANGED <<todo, held>>

\* claim_file succeeds.
CallAdmitted(c) ==
  /\ Admitted(c)
  /\ Goto(c, "working")
  /\ UNCHANGED <<todo, held, lost>>

\* claim_file succeeds, but the file was written earlier in the session and the
\* last build reports errors in it: the LSP gate returns from the thread, past
\* the release below.
CallBlocked(c) ==
  /\ Admitted(c)
  /\ Goto(c, "blocked")
  /\ UNCHANGED <<todo, held, lost>>

\* "Error: File ... is locked by another agent."
CallRefused(c) ==
  /\ Refused(c)
  /\ Goto(c, "failed")
  /\ UNCHANGED <<todo, held, lost>>

\* The tool has returned; release_file looks whether the claim is held ...
CallReturns(c) ==
  /\ pc[c] = "working"
  /\ Goto(c, IF holds(locks, AgentOf[c], CallPath[c]) THEN "releasing"
                                                      ELSE "done")
  /\ UNCHANGED <<locks, todo, held, lost>>

\* ... and then drops every lock of the agent on the file.
CallReleases(c) ==
  /\ pc[c] = "releasing"
  /\ GivesBack(c, release(locks, CallPath[c], AgentOf[c]))
  /\ Goto(c, "done")
  /\ UNCHANGED <<todo, held>>

-----------------------------------------------------------------------------
(***************************************************************************)
(* A worker: run_assignment and acquire_scope_locks.                       *)
(***************************************************************************)
\* No site map, a stale plan or an RBAC denial: the worker fails unlocked.
WorkerDenied(w) ==
  /\ pc[w] = "locking"
  /\ todo[w] = Scope[w] /\ held[w] = <<>>
  /\ Goto(w, "failed")
  /\ UNCHANGED <<locks, todo, held, lost>>

WorkerTriesNext(w) ==
  /\ pc[w] = "locking"
  /\ todo[w] # <<>>
  /\ PruneForAcquire(w)
  /\ UNCHANGED <<todo, held>>

WorkerAdmitted(w) ==
  /\ Admitted(w)
  /\ held' = [held EXCEPT ![w] = Append(@, Head(todo[w]))]
  /\ todo' = [todo EXCEPT ![w] = Tail(@)]
  /\ Goto(w, "locking")
  /\ UNCHANGED lost

\* Mutant: the worker fails at once, with the locks it already took.
WorkerRefused_NoRollback(w) ==
  /\ Refused(w)
  /\ Goto(w, "failed")
  /\ UNCHANGED <<todo, held, lost>>

\* Mutant: the worker keeps its locks and tries the same entry again.
WorkerRefused_Retries(w) ==
  /\ Refused(w)
  /\ Goto(w, "locking")
  /\ UNCHANGED <<todo, held, lost>>

WorkerRefused(w) ==
  /\ Refused(w)
  /\ Goto(w, "rollback")
  /\ UNCHANGED <<todo, held, lost>>

\* The whole scope is locked: execute_live_task.
WorkerExecutes(w) ==
  /\ pc[w] = "locking"
  /\ todo[w] = <<>>
  /\ Goto(w, "working")
  /\ UNCHANGED <<locks, todo, held, lost>>

\* execute_live_task returns, whatever its outcome.
WorkerReturns(w) ==
  /\ pc[w] = "working"
  /\ Goto(w, "releasing")
  /\ UNCHANGED <<locks, todo, held, lost>>

WorkerReleasesOne(w) ==
  /\ pc[w] \in {"releasing", "rollback"}
  /\ held[w] # <<>>
  /\ GivesBack(w, release(locks, Head(held[w]), AgentOf[w]))
  /\ held' = [held EXCEPT ![w] = Tail(@)]
  /\ UNCHANGED <<pc, todo>>

WorkerEnds(w) ==
  /\ pc[w] \in {"releasing", "rollback"}
  /\ held[w] = <<>>
  /\ Goto(w, IF pc[w] = "rollback" THEN "failed" ELSE "done")
  /\ UNCHANGED <<locks, todo, held, lost>>

\* A panic inside the tool or inside execute_live_task.
Panics(x) ==
  /\ x \in MayPanic
  /\ pc[x] = "working"
  /\ Goto(x, "panicked")
  /\ UNCHANGED <<locks, todo, held, lost>>

-----------------------------------------------------------------------------
(***************************************************************************)
(* A cursor movement: handle_presence_update.                              *)
(***************************************************************************)
PresencePrunes(e) ==
  /\ pc[e] = "start"
  /\ Prunes(PRESENCE_LOCK_TTL)
  /\ Goto(e, "pruned")
  /\ UNCHANGED <<todo, held>>

PresenceDrops(e) ==
  /\ pc[e] = "pruned"
  /\ GivesBack(e, release_for_agent(locks, AgentOf[e]))
  /\ Goto(e, "dropped")
  /\ UNCHANGED <<todo, held>>

\* No site map is open: no lock is asked for.
PresenceUnmapped(e) ==
  /\ pc[e] = "dropped"
  /\ Goto(e, "start")
  /\ UNCHANGED <<locks, todo, held, lost>>

PresenceAsks(e) ==
  /\ pc[e] = "dropped"
  /\ PruneForAcquire(e)
  /\ UNCHANGED <<todo, held>>

\* Mutant: the lock is taken despite the warning.
PresenceAnswered_Forced(e) ==
  /\ pc[e] = "checking"
  /\ locks' = Granted(locks, RequestOf(e))
  /\ Goto(e, "start")
  /\ UNCHANGED <<todo, held, lost>>

\* A conflict only produces a warning.
PresenceAnswered(e) ==
  /\ Admitted(e) \/ Refused(e)
  /\ Goto(e, "start")
  /\ UNCHANGED <<todo, held, lost>>

-----------------------------------------------------------------------------
\* A unit of time passes, as far as the gate can tell.
Tick ==
  /\ locks' = Aged(locks)
  /\ UNCHANGED <<pc, todo, held, lost>>

CallStep(c) ==
  \/ CallDenied(c) \/ CallClaims(c) \/ CallAdmitted(c) \/ CallBlocked(c)
  \/ CallRefused(c) \/ CallReturns(c) \/ CallReleases(c) \/ Panics(c)

WorkerStep(w) ==
  \/ WorkerDenied(w) \/ WorkerTriesNext(w) \/ WorkerAdmitted(w)
  \/ WorkerRefused(w) \/ WorkerExecutes(w) \/ WorkerReturns(w)
  \/ WorkerReleasesOne(w) \/ WorkerEnds(w) \/ Panics(w)

PresenceStep(e) ==
  \/ PresencePrunes(e) \/ PresenceDrops(e) \/ PresenceUnmapped(e)
  \/ PresenceAsks(e) \/ PresenceAnswered(e)

Next ==
  \/ \E c \in Call : CallStep(c)
  \/ \E w \in Task : WorkerStep(w)
  \/ \E e \in Editor : PresenceStep(e)
  \/ Tick

\* The operating system schedules every tool and worker thread; tools and
\* agent runs end by themselves (each has its own timeout).
Fairness ==
  /\ \A c \in Call : WF_vars(CallStep(c))
  /\ \A w \in Task : WF_vars(WorkerStep(w))

Spec == Init /\ [][Next]_vars /\ Fairness

-----------------------------------------------------------------------------
(***************************************************************************)
(* Properties                                                              *)
(***************************************************************************)
\* What a thread is writing while it works.
Region(x) ==
  LET Whole(p) == Footprint([path |-> p, range |-> WHOLE_SCOPE])
  IN  IF pc[x] # "working" THEN {}
      ELSE IF x \in Call THEN Whole(CallPath[x])
      ELSE UNION {Whole(held[x][i]) : i \in DOMAIN held[x]}

\* A claimed file or a locked scope is written by one agent at a time, until the
\* lock outlives the thirty minutes of acquire or the two seconds of telemetry,
\* or a thread under the same agent id gives the file back (write_gate.rs:28-37,
\* 249): no refusal, rollback, panic, blocked call or cursor movement lets a
\* second one in.
ExclusiveWork ==
  \A x, y \in (Call \cup Task) \ lost :
    AgentOf[x] # AgentOf[y] => Region(x) \cap Region(y) = {}

\* A worker executes with its whole scope locked, not with a part of it
\* (acquire_scope_locks), unless it lost a lock in one of these ways.
WorkingHoldsScope ==
  \A w \in Task \ lost :
    pc[w] = "working"
      => \A i \in DOMAIN Scope[w] : holds(locks, AgentOf[w], Scope[w][i])

\* "Release file lock after execution" (loop_runner.rs:3488): a thread that has
\* returned leaves no lock behind, every lock belongs to an agent with a thread
\* still at work or to a panicked one.
NoLeakedLock ==
  \A l \in locks :
    \E x \in Actor : /\ AgentOf[x] = l.agent
                     /\ pc[x] \notin {"done", "failed", "blocked"}

\* Thread x answers for lock l: it will give it back, or it ended holding it by
\* a panic or in the LSP gate.
Keeps(x, l) ==
  /\ AgentOf[x] = l.agent
  /\ \/ /\ x \in Call /\ l.path = CallPath[x]
        /\ pc[x] \in {"working", "releasing", "panicked", "blocked"}
     \/ /\ x \in Task /\ pc[x] \notin {"done", "failed"}
        /\ \E i \in DOMAIN held[x] : held[x][i] = l.path
     \/ x \in Editor /\ l.path = PresencePath

\* Every lock, on every file, has such a thread: denials, refusals, half-locked
\* scopes, rollbacks and returns leave none behind; a panic and the LSP gate are
\* the only ways to leak one.
LocksHaveKeepers == \A l \in locks : \E x \in Actor : Keeps(x, l)

\* Nobody waits for a lock, so nobody waits for ever: every tool call and
\* every worker ends, whatever the others hold (no deadlock between workers
\* that lock the same scopes in opposite orders).
EveryThreadEnds == <>[](\A x \in Call \cup Task : Finished(x))

\* The three clients use the gate as WriteGate says, so what is proved of
\* WriteGate holds of the locks here.
Gate ==
  INSTANCE WriteGate WITH
    Thread <- Actor,
    Requests <- {Ask(x, p) : x \in Actor, p \in Path},
    PruneAge <- {PRESENCE_LOCK_TTL},
    pending <- [x \in Actor |-> IF pc[x] = "checking" THEN RequestOf(x)
                                                      ELSE NoRequest]

GateSpec == Gate!Spec
=============================================================================
