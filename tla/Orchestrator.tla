----------------------------- MODULE Orchestrator -----------------------------
(***************************************************************************)
(* The Orchestrator panel (velocity-mcp/src/editor/orchestrator): a plan   *)
(* of tasks with dependencies, run by worker threads.  The panel looks at  *)
(* its workers only when it is drawn: one poll collects results, settles   *)
(* statuses, runs the watchdog and dispatches the next wave.  Between two  *)
(* polls threads end, time passes, the site map moves and the operator     *)
(* presses any button that is enabled.                                     *)
(*                                                                         *)
(* A model is assumed to be selected, so that every task can be bound.     *)
(***************************************************************************)
EXTENDS TaskGraph

CONSTANTS
  RoutedTask, \* ids of the tasks a routed plan holds besides its root
  MaxSeats,   \* largest max_concurrent_workers the operator sets
  Caps,       \* the values the operator gives it
  FirstCap,   \* its value when the panel opens
  Command,    \* what the operator and the world do in an instance
  NoSeat

Seat == 0 .. MaxSeats - 1

ASSUME RoutedAssumption ==
  /\ RoutedTask \subseteq Task \ {Root}
  /\ \/ Root = 0 /\ RoutedTask = {}
     \/ Root = 1 /\ Deps[Root] = RoutedTask

ASSUME SeatAssumption ==
  /\ MaxSeats \in Nat \ {0}
  /\ Caps \subseteq 1 .. MaxSeats
  /\ FirstCap \in 1 .. MaxSeats
  /\ NoSeat \notin Seat

VARIABLES
  status,    \* registry.statuses; "Absent" for an id not in the graph
  outputs,   \* registry.outputs
  worker,    \* running_workers: "none", or what the handle's thread is doing
  watchdog,  \* worker_watchdog: "none", or how far its clock has come
  seat,      \* worker_seats
  active,    \* load_balancer: active_tasks of a seat, -1 when not registered
  cap,       \* max_concurrent_workers
  binding,   \* bindings: planned against the current site map or an older one
  last_issued_task_id,
  execution_running,
  drawn,     \* the Orchestrator tab is on screen
  orphans    \* tasks with a thread alive that no handle refers to

vars == <<status, outputs, worker, watchdog, seat, active, cap, binding,
          last_issued_task_id, execution_running, drawn, orphans>>

Alive == {"live", "cancelled"}

TypeOK ==
  /\ status \in [Task -> Status]
  /\ outputs \in [Task -> SUBSET File]
  /\ worker \in [Task -> {"none"} \cup Alive \cup Result]
  /\ watchdog \in [Task -> {"none", "watching", "expired", "cancelled",
                            "overdue"}]
  /\ seat \in [Task -> Seat \cup {NoSeat}]
  /\ active \in [Seat -> {-1, 0, 1}]
  /\ cap \in 1 .. MaxSeats
  /\ binding \in [Task -> {"unbound", "current", "outdated"}]
  /\ last_issued_task_id \in 0 .. MaxTask
  /\ execution_running \in BOOLEAN
  /\ drawn \in BOOLEAN
  /\ orphans \subseteq Task

Init ==
  /\ status = [t \in Task |-> "Absent"]
  /\ outputs = [t \in Task |-> {}]
  /\ worker = [t \in Task |-> "none"]
  /\ watchdog = [t \in Task |-> "none"]
  /\ seat = [t \in Task |-> NoSeat]
  /\ active = [s \in Seat |-> -1]
  /\ cap = FirstCap
  /\ binding = [t \in Task |-> "unbound"]
  /\ last_issued_task_id = 0
  /\ execution_running = FALSE
  /\ drawn = TRUE
  /\ orphans = {}

\* running_workers of a handle map.
Handles(wk) == {t \in Task : wk[t] # "none"}

\* The threads whose handles are dropped while they run.
Abandoned(wk, S) == {t \in S : wk[t] \in Alive}

-----------------------------------------------------------------------------
(***************************************************************************)
(* poll_live_workers, in the order of its parts.                           *)
(***************************************************************************)
\* Mutant: the seat of a finished task is not given back.
ReleaseSeats_Never(S) == active

\* record_task_complete for the seats of the tasks in S.
ReleaseSeats(S) ==
  [s \in Seat |-> IF active[s] = 1 /\ \E t \in S : seat[t] = s
                    THEN 0 ELSE active[s]]

\* Mutant: a seat past the cap goes even when a task holds it.
sync_seat_pool_Eager(pool) ==
  [s \in Seat |-> IF s >= cap THEN -1 ELSE IF pool[s] = -1 THEN 0 ELSE pool[s]]

\* Mutant: a new seat starts with the cap as its number of tasks.
sync_seat_pool_Swapped(pool) ==
  [s \in Seat |-> IF s < cap /\ pool[s] = -1 THEN cap ELSE pool[s]]

\* Every seat below the cap exists; one past it goes when it is idle.
sync_seat_pool(pool) ==
  [s \in Seat |-> IF s < cap /\ pool[s] = -1 THEN 0
                  ELSE IF s >= cap /\ pool[s] = 0 THEN -1
                  ELSE pool[s]]

\* How assign_task seats the tasks of fit, in some order: the lowest free
\* seats first, until there are no more tasks or no more seats.
Seating(fit, pool) ==
  LET free == {s \in Seat : pool[s] = 0}
  IN  UNION {{f \in Injection(S, free) :
                /\ S = fit \/ Range(f) = free
                /\ \A s \in Range(f), r \in free : r < s => r \in Range(f)} :
               S \in SUBSET fit}

bind_unbound_tasks(st, readable) ==
  [t \in Task |-> IF t \in Plan(st) \ {Root} /\ binding[t] = "unbound"
                    THEN IF readable THEN "current" ELSE "outdated"
                    ELSE binding[t]]

\* Whether SiteMap::open succeeds during a poll.
Readable == IF "site_map" \in Command THEN BOOLEAN ELSE {TRUE}

\* Mutant: the watchdog cancels and then waits.
Overdue_Never(wk, wd) == {}

\* Workers the watchdog gives up.
Overdue(wk, wd) == {t \in Handles(wk) \ Ended(wk) : wd[t] = "overdue"}

\* The files of the results: a run that failed may have written less than
\* its task would, or nothing.
Wrote(wk) ==
  {f \in [Task -> SUBSET File] :
     \A t \in Task : f[t] = Writes[t] \/ (wk[t] = "bad" /\ f[t] = {})}

\* The statuses when a poll comes to its dispatch.
Settled(st, wk, wd) ==
  LET Reconcile(v) == [t \in Task |-> IF t \in DOMAIN v THEN v[t] ELSE st[t]]
      Propagate(s) == {Put(Put(s, Waiting(s), "Pending"), B, "Dependency") :
                         B \in propagate_blocked_dependents(s)}
      verdicts == {v \in [Ended(wk) -> {"Done", "Failed", "FollowUp"}] :
                     \E f \in Wrote(wk) :
                       Reconciled(outputs, f, Ended(wk), wk, v)}
  IN  {Put(complete_reconcile_root(s), Overdue(wk, wd), "Failed") :
         s \in UNION {Propagate(Reconcile(v)) : v \in verdicts}}

\* One poll of a panel whose statuses, handles and watchdogs are st, wk, wd.
poll_live_workers(st, wk, wd) ==
  LET gone == Ended(wk) \cup Overdue(wk, wd)
      kept == Handles(wk) \ gone
      expired == {t \in kept : wd[t] = "expired"}
      pool == sync_seat_pool(ReleaseSeats(gone))
  IN  \E settled \in Settled(st, wk, wd), readable \in Readable :
      \E wave \in ready_ids_conflict_aware(settled) :
        LET bound == bind_unbound_tasks(st, readable)
            work == wave \ {Root}
            fit == {t \in work : readable /\ bound[t] = "current"}
        IN  \E f \in Seating(fit, pool) :
              /\ status' = Put(Put(settled, work \ fit, "Unfit"),
                               DOMAIN f, "Running")
              /\ outputs' = [t \in Task |->
                               IF t \in Ended(wk) /\ settled[t] = "Done"
                                 THEN Writes[t] ELSE outputs[t]]
              /\ worker' = Put(Put(Put(wk, gone, "none"), expired, "cancelled"),
                               DOMAIN f, "live")
              /\ watchdog' = [t \in Task |->
                                IF t \notin kept THEN "none"
                                ELSE IF wd[t] = "none" THEN "watching"
                                ELSE IF wd[t] = "expired" THEN "cancelled"
                                ELSE wd[t]]
              /\ seat' = [t \in Task |-> IF t \in DOMAIN f THEN f[t]
                                         ELSE IF t \in gone THEN NoSeat
                                         ELSE seat[t]]
              /\ active' = Put(pool, Range(f), 1)
              /\ binding' = bound
              /\ orphans' = orphans \cup Abandoned(wk, gone)
              /\ execution_running' = (kept \cup DOMAIN f # {})
              /\ UNCHANGED <<cap, last_issued_task_id, drawn>>

\* The panel is drawn while work runs.
Frame ==
  /\ drawn /\ execution_running
  /\ poll_live_workers(status, worker, watchdog)

-----------------------------------------------------------------------------
(***************************************************************************)
(* Worker threads and time.                                                *)
(***************************************************************************)
\* run_assignment returns, or panics; the handle's channel says so.
WorkerEnds(t, r) ==
  /\ worker[t] \in Alive
  /\ worker' = [worker EXCEPT ![t] = r]
  /\ UNCHANGED <<status, outputs, watchdog, seat, active, cap, binding,
                 last_issued_task_id, execution_running, drawn, orphans>>

OrphanEnds(t) ==
  /\ t \in orphans
  /\ orphans' = orphans \ {t}
  /\ UNCHANGED <<status, outputs, worker, watchdog, seat, active, cap, binding,
                 last_issued_task_id, execution_running, drawn>>

\* WORKER_STALL_TIMEOUT without an event, or the hard limit, goes by; after
\* the cancellation, WORKER_CANCEL_GRACE does.
TimePasses(t) ==
  /\ \/ /\ watchdog[t] = "watching"
        /\ watchdog' = [watchdog EXCEPT ![t] = "expired"]
     \/ /\ watchdog[t] = "cancelled"
        /\ watchdog' = [watchdog EXCEPT ![t] = "overdue"]
  /\ UNCHANGED <<status, outputs, worker, seat, active, cap, binding,
                 last_issued_task_id, execution_running, drawn, orphans>>

\* The workspace is indexed anew: the site map has another root.
SiteMapMoves ==
  /\ "site_map" \in Command
  /\ binding' = [t \in Task |-> IF binding[t] = "current" THEN "outdated"
                                                          ELSE binding[t]]
  /\ UNCHANGED <<status, outputs, worker, watchdog, seat, active, cap,
                 last_issued_task_id, execution_running, drawn, orphans>>

-----------------------------------------------------------------------------
(***************************************************************************)
(* The operator.                                                           *)
(***************************************************************************)
\* The routed tasks under their reconcile root, all of them Pending.
build_routed_graph ==
  [t \in Task |-> IF t \in RoutedTask \cup {Root} THEN "Pending" ELSE "Absent"]

\* A goal is routed: the plan is replaced, its handles are dropped.
set_routed_tasks ==
  /\ "route" \in Command /\ Root # 0
  /\ status' = build_routed_graph
  /\ outputs' = [t \in Task |-> {}]
  /\ worker' = [t \in Task |-> "none"]
  /\ orphans' = orphans \cup Abandoned(worker, Task)
  /\ binding' = [t \in Task |-> IF t \in RoutedTask THEN "current"
                                                    ELSE "unbound"]
  /\ last_issued_task_id' \in
       {n \in RoutedTask \cup {Root} : \A m \in RoutedTask : m <= n}
  /\ execution_running' = FALSE
  /\ UNCHANGED <<watchdog, seat, active, cap, drawn>>

\* The largest id in the graph is never above the last issued one.
next_task_id == last_issued_task_id + 1

\* An unknown dependency is an error; a new task closes no cycle.  Where plans
\* are routed, the operator adds to a routed plan.
add_task ==
  /\ "author" \in Command
  /\ last_issued_task_id < MaxTask
  /\ LET id == next_task_id
     IN  /\ Deps[id] \subseteq Plan(status)
         /\ id # Root
         /\ status' = [status EXCEPT ![id] = "Pending"]
         /\ last_issued_task_id' = id
  /\ UNCHANGED <<outputs, worker, watchdog, seat, active, cap, binding,
                 execution_running, drawn, orphans>>

remove_task(t) ==
  /\ "remove" \in Command
  /\ t \in Plan(status) \ {Root}
  /\ status' = [status EXCEPT ![t] = "Absent"]
  /\ outputs' = [outputs EXCEPT ![t] = {}]
  /\ worker' = [worker EXCEPT ![t] = "none"]
  /\ binding' = [binding EXCEPT ![t] = "unbound"]
  /\ orphans' = orphans \cup Abandoned(worker, {t})
  /\ execution_running' = (Handles(worker') # {})
  /\ UNCHANGED <<watchdog, seat, active, cap, last_issued_task_id, drawn>>

clear_plan ==
  /\ "remove" \in Command
  /\ ~ execution_running /\ Plan(status) # {}
  /\ status' = [t \in Task |-> "Absent"]
  /\ outputs' = [t \in Task |-> {}]
  /\ worker' = [t \in Task |-> "none"]
  /\ binding' = [t \in Task |-> "unbound"]
  /\ orphans' = orphans \cup Abandoned(worker, Task)
  /\ execution_running' = FALSE
  /\ UNCHANGED <<watchdog, seat, active, cap, last_issued_task_id, drawn>>

\* Work runs already, or there is none (has_dispatchable_work).
execution_blocker == execution_running \/ Plan(status) \ {Root} = {}

\* Execute, or Approve & launch in Mission Control.
start_execution ==
  /\ ~ execution_blocker
  /\ poll_live_workers(status, worker, watchdog)

\* Mutant: the button stays enabled while work runs.
retry_blocked_tasks_AnyTime ==
  /\ "retry" \in Command
  /\ LET retried == {t \in Task : status[t] \in {"FollowUp", "Dependency"}}
     IN  /\ retried # {}
         /\ poll_live_workers(Put(status, retried, "Pending"),
                              Put(worker, Task, "none"),
                              Put(watchdog, Task, "none"))

\* Retry Blocked, enabled at rest.
retry_blocked_tasks ==
  /\ "retry" \in Command
  /\ ~ execution_running
  /\ LET retried == {t \in Task : status[t] \in {"FollowUp", "Dependency"}}
     IN  /\ retried # {}
         /\ poll_live_workers(Put(status, retried, "Pending"),
                              Put(worker, Task, "none"),
                              Put(watchdog, Task, "none"))

retry_task(t) ==
  /\ "retry" \in Command
  /\ status[t] \in {"FollowUp", "Dependency"}
  /\ poll_live_workers([status EXCEPT ![t] = "Pending"],
                       [worker EXCEPT ![t] = "none"],
                       [watchdog EXCEPT ![t] = "none"])

\* Reset on a task, whatever its status.
reset_task(t) ==
  /\ "reset_task" \in Command
  /\ t \in Plan(status)
  /\ status' = [status EXCEPT ![t] = "Pending"]
  /\ outputs' = [outputs EXCEPT ![t] = {}]
  /\ worker' = [worker EXCEPT ![t] = "none"]
  /\ watchdog' = [watchdog EXCEPT ![t] = "none"]
  /\ orphans' = orphans \cup Abandoned(worker, {t})
  /\ execution_running' = (Handles(worker') # {})
  /\ UNCHANGED <<seat, active, cap, binding, last_issued_task_id, drawn>>

\* Reset on the plan: everything starts anew, the seat pool too.
reset_runtime ==
  /\ "reset" \in Command
  /\ status' = Put(status, Plan(status), "Pending")
  /\ outputs' = [t \in Task |-> {}]
  /\ worker' = [t \in Task |-> "none"]
  /\ watchdog' = [t \in Task |-> "none"]
  /\ seat' = [t \in Task |-> NoSeat]
  /\ active' = [s \in Seat |-> -1]
  /\ binding' = [t \in Task |-> IF t \in RoutedTask THEN binding[t]
                                                    ELSE "unbound"]
  /\ orphans' = orphans \cup Abandoned(worker, Task)
  /\ execution_running' = FALSE
  /\ UNCHANGED <<cap, last_issued_task_id, drawn>>

\* Stop: the thread is asked to end, once.
stop_task(t) ==
  /\ "stop" \in Command
  /\ worker[t] = "live"
  /\ worker' = [worker EXCEPT ![t] = "cancelled"]
  /\ UNCHANGED <<status, outputs, watchdog, seat, active, cap, binding,
                 last_issued_task_id, execution_running, drawn, orphans>>

\* "Max concurrent agents".
SetCap(n) ==
  /\ cap' = n
  /\ UNCHANGED <<status, outputs, worker, watchdog, seat, active, binding,
                 last_issued_task_id, execution_running, drawn, orphans>>

\* Another tab covers the Orchestrator's, or no longer does.
SwitchTab ==
  /\ "tab" \in Command
  /\ drawn' = ~ drawn
  /\ UNCHANGED <<status, outputs, worker, watchdog, seat, active, cap, binding,
                 last_issued_task_id, execution_running, orphans>>

Operator ==
  \/ set_routed_tasks \/ add_task \/ clear_plan
  \/ start_execution \/ retry_blocked_tasks \/ reset_runtime
  \/ \E t \in Task : remove_task(t) \/ retry_task(t) \/ reset_task(t)
                       \/ stop_task(t)
  \/ \E n \in Caps : SetCap(n)
  \/ SwitchTab

Next ==
  \/ Frame
  \/ \E t \in Task : \/ \E r \in Result : WorkerEnds(t, r)
                     \/ OrphanEnds(t)
                     \/ TimePasses(t)
  \/ SiteMapMoves
  \/ Operator

\* While work runs the panel asks to be drawn again every 100 ms; time
\* passes.  Nothing makes a worker end.
Fairness == WF_vars(Frame) /\ \A t \in Task : WF_vars(TimePasses(t))

Spec == Init /\ [][Next]_vars /\ Fairness

-----------------------------------------------------------------------------
(***************************************************************************)
(* Properties                                                              *)
(***************************************************************************)
\* A task shown as Running has a handle, and then the panel polls it: no
\* button leaves a task Running that nobody looks at any more
\* (execution.rs:221-304, ui_render.rs:217).
RunningIsWatched ==
  \A t \in Task :
    /\ status[t] = "Running" <=> worker[t] # "none"
    /\ worker[t] # "none" => execution_running

\* Every running task holds a seat of its own that the balancer counts as
\* busy, across cap changes, resets and re-dispatches (sync_seat_pool,
\* worker_seats): the workers with a handle never outnumber the seats.
SeatPerWorker ==
  \A t \in Handles(worker) :
    /\ seat[t] # NoSeat /\ active[seat[t]] = 1
    /\ \A u \in Handles(worker) \ {t} : seat[u] # seat[t]

\* The outputs the registry accepted never overlap, even when colliding
\* results are collected by one poll, and they belong to tasks that are
\* Done (reconciliation_error, execution.rs:346-361).
AcceptedDisjoint ==
  \A t \in Task :
    /\ outputs[t] # {} => status[t] = "Done"
    /\ \A u \in Task \ {t} : outputs[t] \cap outputs[u] = {}

\* Tasks that one poll dispatches together have scopes that do not collide
\* (ready_ids_conflict_aware).
SameWave ==
  [][\A t, u \in Task :
       /\ t # u
       /\ status[t] # "Running" /\ status'[t] = "Running"
       /\ status[u] # "Running" /\ status'[u] = "Running"
       => <<t, u>> \notin Conflicts]_vars

\* The tasks that failed or wait for a follow-up, and all that are blocked for
\* one of them through any number of dependencies: the least set closed so.
Downstream(st) ==
  LET Closed(C) ==
        \A t \in Task :
          \/ st[t] \in {"Failed", "FollowUp", "Unfit"}
          \/ st[t] = "Dependency" /\ dependencies(st, t) \cap C # {}
          => t \in C
  IN  {t \in Task : \A C \in SUBSET Task : Closed(C) => t \in C}

\* The steps that poll.
Polls ==
  \/ Frame \/ start_execution \/ retry_blocked_tasks
  \/ \E t \in Task : retry_task(t)

\* After a poll every task blocked for its dependencies lies downstream of one
\* that went wrong: when a task is retried or was reset, one poll unblocks the
\* whole chain below it, in whatever order the HashMap lists the tasks
\* (propagate_blocked_dependents).
BlockedHasCause ==
  [][Polls => \A t \in Task : status'[t] = "Dependency"
                               => t \in Downstream(status')]_vars

\* A running task does not stay so for ever, even if its thread hangs:
\* "Cancel a hung worker, then fail the task after a grace period so one
\* stall cannot hold the plan open." (execution.rs:395-396)
RunningEnds ==
  \A t \in Task : (status[t] = "Running") ~> (status[t] # "Running")

\* A task that is ready while the plan runs gets its turn: "Deferred tasks
\* reappear on a later tick once the contested scope frees up"
\* (execution.rs:463-464).
DeferredRun ==
  \A t \in Task :
    (execution_running /\ t \in ready_ids(status)) ~> (status[t] # "Pending")
=============================================================================
