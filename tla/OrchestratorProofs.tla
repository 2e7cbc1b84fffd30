-------------------------- MODULE OrchestratorProofs --------------------------
(***************************************************************************)
(* Watching, seating and acceptance in the Orchestrator panel, for every   *)
(* plan, every number of tasks and seats, and whatever the operator, the   *)
(* threads and the clock do.                                               *)
(***************************************************************************)
EXTENDS Orchestrator, WellFoundedInduction, TLAPS

\* An id that was not issued is in no plan.
Unissued ==
  \A t \in Task : t > last_issued_task_id => status[t] = "Absent"

(***************************************************************************)
(* The inductive invariant.  Unissued is what add_task needs: the id it    *)
(* takes belongs to no task with a handle, an output or a status.          *)
(***************************************************************************)
Inv ==
  /\ TypeOK
  /\ RunningIsWatched
  /\ SeatPerWorker
  /\ AcceptedDisjoint
  /\ Unissued

Handle == {"none"} \cup Alive \cup Result
Clock == {"none", "watching", "expired", "cancelled", "overdue"}

\* What every caller of poll_live_workers hands it: the handles are some of
\* the panel's, the tasks Running are those with a handle, and nothing that
\* has an output or no place in the plan is touched.
Pollable(st, wk, wd) ==
  /\ st \in [Task -> Status]
  /\ wk \in [Task -> Handle]
  /\ wd \in [Task -> Clock]
  /\ \A t \in Task : wk[t] # "none" => worker[t] # "none"
  /\ \A t \in Task : st[t] = "Running" <=> wk[t] # "none"
  /\ \A t \in Task : status[t] \in {"Done", "Absent"} => st[t] = status[t]

\* What SameWave says of one step.
WaveStep ==
  \A t, u \in Task :
    /\ t # u
    /\ status[t] # "Running" /\ status'[t] = "Running"
    /\ status[u] # "Running" /\ status'[u] = "Running"
    => <<t, u>> \notin Conflicts

\* Where the loop ends: what is blocked has a dependency that blocks it.
Caused(st) ==
  \A t \in Task :
    st[t] = "Dependency" =>
      \E d \in dependencies(st, t) : st[d] \in Blocked \cup {"Failed"}

CauseStep == Caused(status')

\* A set of natural numbers has a least one.
LEMMA LeastNatural ==
  ASSUME NEW S \in SUBSET Nat, S # {}
  PROVE  \E m \in S : \A n \in S : m <= n
<1>1. PICK R : R = {ss \in Nat \X Nat : ss[1] < ss[2]}
  OBVIOUS
<1>2. IsWellFoundedOn(R, Nat)
  BY <1>1, NatLessThanWellFounded DEF OpToRel
<1>3. PICK m \in S : \A n \in S : ~ (<<n, m>> \in R)
  BY <1>2, WFMin
<1>4. ASSUME NEW n \in S
      PROVE  m <= n
  <2>1. m \in Nat /\ n \in Nat
    OBVIOUS
  <2>2. ~ (n < m)
    BY <1>1, <1>3, <2>1
  <2> QED
    BY <2>1, <2>2
<1> QED
  BY <1>4

\* In a plan without cycles a chain of blocked tasks ends at one that went
\* wrong: dependencies have smaller ids, but for the root's.
LEMMA ChainsEnd ==
  ASSUME NEW st, Caused(st), NEW t \in Task, st[t] = "Dependency"
  PROVE  t \in Downstream(st)
<1> SUFFICES ASSUME NEW C \in SUBSET Task,
                    \A u \in Task :
                      \/ st[u] \in {"Failed", "FollowUp", "Unfit"}
                      \/ /\ st[u] = "Dependency"
                         /\ dependencies(st, u) \cap C # {}
                      => u \in C
             PROVE  t \in C
  BY DEF Downstream
<1>1. ASSUME NEW u \in Task, st[u] = "Dependency", u \notin C
      PROVE  \E d \in Deps[u] :
               d \in Task /\ st[d] = "Dependency" /\ d \notin C
  <2>1. PICK d \in dependencies(st, u) : st[d] \in Blocked \cup {"Failed"}
    BY <1>1 DEF Caused
  <2>2. d \in Deps[u] /\ d \in Task /\ d \notin C
    BY <1>1, <2>1 DEF dependencies, Plan
  <2> QED
    BY <2>1, <2>2 DEF Blocked
<1>2. \A u \in Task \ {Root} : ~ (st[u] = "Dependency" /\ u \notin C)
  <2> DEFINE bad == {u \in Task \ {Root} : st[u] = "Dependency" /\ u \notin C}
  <2>1. bad \in SUBSET Nat
    BY DEF Task
  <2>2. CASE bad # {}
    <3>1. PICK m \in bad : \A n \in bad : m <= n
      BY <2>1, <2>2, LeastNatural
    <3>2. PICK d \in Deps[m] : d \in Task /\ st[d] = "Dependency" /\ d \notin C
      BY <1>1, <3>1
    <3>3. d < m /\ d # Root
      BY <3>1, <3>2, GraphAssumption
    <3>4. d \in bad /\ d \in Nat /\ m \in Nat
      BY <2>1, <3>2, <3>3
    <3> QED
      BY <3>1, <3>3, <3>4
  <2> QED
    BY <2>2
<1>3. CASE t = Root /\ t \notin C
  <2>1. Root \notin Deps[Root]
    BY <1>3, RoutedAssumption DEF Task
  <2> QED
    BY <1>1, <1>2, <1>3, <2>1
<1> QED
  BY <1>2, <1>3

\* The statuses a poll settles on before it dispatches: still Running are the
\* tasks whose handle is kept, Done and Absent stay, and what is newly Done
\* among the ended has passed reconciliation.
LEMMA SettledFacts ==
  ASSUME NEW st, NEW wk, NEW wd, Pollable(st, wk, wd),
         NEW s \in Settled(st, wk, wd)
  PROVE  /\ s \in [Task -> Status]
         /\ \A t \in Task :
              s[t] = "Running"
                <=> t \in Handles(wk) \ (Ended(wk) \cup Overdue(wk, wd))
         /\ \A t \in Task : st[t] \in {"Done", "Absent"} => s[t] = st[t]
         /\ \A t \in Ended(wk) :
              s[t] = "Done" =>
                /\ \A u \in Task \ {t} : Writes[t] \cap outputs[u] = {}
                /\ \A u \in Ended(wk) \ {t} :
                     s[u] = "Done" => Writes[t] \cap Writes[u] = {}
<1> DEFINE E == Ended(wk)
           O == Overdue(wk, wd)
           Verdicts == {v \in [E -> {"Done", "Failed", "FollowUp"}] :
                          \E f \in Wrote(wk) :
                            Reconciled(outputs, f, E, wk, v)}
           Rec(v) == [t \in Task |-> IF t \in DOMAIN v THEN v[t] ELSE st[t]]
           Prop(q) == {Put(Put(q, Waiting(q), "Pending"), B, "Dependency") :
                         B \in propagate_blocked_dependents(q)}
<1>1. PICK v \in Verdicts :
        \E q \in Prop(Rec(v)) : s = Put(complete_reconcile_root(q), O, "Failed")
  BY DEF Settled
<1>2. PICK q \in Prop(Rec(v)) : s = Put(complete_reconcile_root(q), O, "Failed")
  BY <1>1
<1> DEFINE r == Rec(v)
<1>3. PICK B \in propagate_blocked_dependents(r) :
        q = Put(Put(r, Waiting(r), "Pending"), B, "Dependency")
  BY <1>2
<1>4. /\ st \in [Task -> Status] /\ wk \in [Task -> Handle]
      /\ E \subseteq Task /\ O \subseteq Task
      /\ \A t \in E : wk[t] \in Result
      /\ \A t \in Task : st[t] = "Running" <=> wk[t] # "none"
  BY DEF Pollable, Ended, Overdue, Handles
<1>5. \A t \in E : st[t] = "Running"
  BY <1>4 DEF Result
<1>6. \A t \in O : st[t] = "Running" /\ t \notin E
  BY <1>4 DEF Overdue, Handles
<1>7. v \in [E -> {"Done", "Failed", "FollowUp"}]
  BY <1>1
<1>7f. PICK f \in Wrote(wk) : Reconciled(outputs, f, E, wk, v)
  BY <1>1
<1>8. /\ r \in [Task -> Status]
      /\ \A t \in E : r[t] = v[t]
      /\ \A t \in Task \ E : r[t] = st[t]
  BY <1>4, <1>7 DEF Status, Blocked
<1> HIDE DEF r
<1>9. B \subseteq Waiting(r)
  BY <1>3 DEF propagate_blocked_dependents
<1>10. /\ q \in [Task -> Status]
       /\ \A t \in Task : r[t] \notin {"Pending", "Dependency"} => q[t] = r[t]
       /\ \A t \in Task : r[t] \in {"Pending", "Dependency"}
                            => q[t] \in {"Pending", "Dependency"}
  BY <1>3, <1>8, <1>9 DEF Put, Waiting, Status, Blocked
<1> DEFINE c == complete_reconcile_root(q)
<1>11. /\ c \in [Task -> Status]
       /\ \A t \in Task : q[t] # "Pending" => c[t] = q[t]
       /\ \A t \in Task : q[t] = "Pending" => c[t] \in {"Pending", "Done"}
  BY <1>10 DEF complete_reconcile_root, Plan, Status, Blocked
<1>12. s = Put(c, O, "Failed")
  BY <1>2
<1> HIDE DEF c
<1>13. /\ s \in [Task -> Status]
       /\ \A t \in O : s[t] = "Failed"
       /\ \A t \in Task \ O : s[t] = c[t]
  BY <1>4, <1>11, <1>12 DEF Put, Status, Blocked
<1>14. ASSUME NEW t \in E
       PROVE  s[t] = v[t]
  BY <1>4, <1>6, <1>7, <1>8, <1>10, <1>11, <1>13
<1>15. ASSUME NEW t \in Task
       PROVE  s[t] = "Running" <=> t \in Handles(wk) \ (E \cup O)
  <2>1. CASE t \in E
    BY <1>7, <1>14, <2>1
  <2>2. CASE t \in O
    BY <1>13, <2>2
  <2>3. CASE t \notin E \cup O
    <3>1. s[t] = c[t] /\ r[t] = st[t]
      BY <1>8, <1>13, <2>3
    <3>2. s[t] = "Running" <=> st[t] = "Running"
      BY <1>10, <1>11, <3>1
    <3>3. t \in Handles(wk) <=> st[t] = "Running"
      BY <1>4 DEF Handles
    <3> QED
      BY <2>3, <3>2, <3>3
  <2> QED
    BY <2>1, <2>2, <2>3
<1>16. ASSUME NEW t \in Task, st[t] \in {"Done", "Absent"}
       PROVE  s[t] = st[t]
  <2>1. t \notin E /\ t \notin O
    BY <1>5, <1>6, <1>16
  <2> QED
    BY <1>8, <1>10, <1>11, <1>13, <1>16, <2>1
<1>17. ASSUME NEW t \in E, s[t] = "Done"
       PROVE  /\ \A u \in Task \ {t} : Writes[t] \cap outputs[u] = {}
              /\ \A u \in E \ {t} :
                   s[u] = "Done" => Writes[t] \cap Writes[u] = {}
  <2>1. v[t] = "Done"
    BY <1>14, <1>17
  <2>2. \A u \in E : v[u] = "Done" => wk[u] = "good" /\ f[u] = Writes[u]
    BY <1>4, <1>7, <1>7f DEF Reconciled, Result, Wrote
  <2>3. /\ ~ Collide(outputs, f, t)
        /\ ~ Overlap(f, t, {u \in E : v[u] = "Done"})
    BY <1>7f, <2>1, <2>2 DEF Reconciled
  <2>4. \A u \in Task \ {t} : Writes[t] \cap outputs[u] = {}
    BY <2>1, <2>2, <2>3 DEF Collide
  <2>5. \A u \in E \ {t} : v[u] = "Done" => Writes[t] \cap Writes[u] = {}
    BY <2>1, <2>2, <2>3 DEF Overlap
  <2> QED
    BY <1>14, <2>4, <2>5
<1> QED
  BY <1>13, <1>15, <1>16, <1>17

\* After a poll has settled, what is blocked for a dependency has one that
\* failed or is blocked: whatever was so blocked before was unblocked first.
LEMMA SettledCause ==
  ASSUME NEW st, NEW wk, NEW wd, Pollable(st, wk, wd),
         NEW s \in Settled(st, wk, wd)
  PROVE  \A t \in Task :
           s[t] = "Dependency" =>
             \E d \in Deps[t] \cap Task : s[d] \in Blocked \cup {"Failed"}
<1> DEFINE E == Ended(wk)
           O == Overdue(wk, wd)
           Verdicts == {v \in [E -> {"Done", "Failed", "FollowUp"}] :
                          \E f \in Wrote(wk) :
                            Reconciled(outputs, f, E, wk, v)}
           Rec(v) == [t \in Task |-> IF t \in DOMAIN v THEN v[t] ELSE st[t]]
           Prop(q) == {Put(Put(q, Waiting(q), "Pending"), B, "Dependency") :
                         B \in propagate_blocked_dependents(q)}
<1>1. PICK v \in Verdicts :
        \E q \in Prop(Rec(v)) : s = Put(complete_reconcile_root(q), O, "Failed")
  BY DEF Settled
<1>2. PICK q \in Prop(Rec(v)) : s = Put(complete_reconcile_root(q), O, "Failed")
  BY <1>1
<1> DEFINE r == Rec(v)
<1>3. PICK B \in propagate_blocked_dependents(r) :
        q = Put(Put(r, Waiting(r), "Pending"), B, "Dependency")
  BY <1>2
<1>4. /\ st \in [Task -> Status] /\ v \in [E -> {"Done", "Failed", "FollowUp"}]
      /\ O \subseteq Task
  BY <1>1 DEF Pollable, Overdue, Handles
<1>5. r \in [Task -> Status]
  BY <1>4 DEF Status, Blocked
<1> HIDE DEF r
<1> DEFINE stuck == {t \in Task : r[t] \in {"Failed", "FollowUp", "Unfit"}}
<1>6. /\ B \subseteq Waiting(r)
      /\ \A t \in B : dependencies(r, t) \cap (stuck \cup B) # {}
  <2>1. B \subseteq Waiting(r) /\ \A t \in Waiting(r) : Visit(r, B, t) = B
    BY <1>3 DEF propagate_blocked_dependents
  <2>2. ASSUME NEW t \in B
        PROVE  dependencies(r, t) \cap (stuck \cup B) # {}
    <3>1. Visit(r, B, t) = B
      BY <2>1
    <3>2. t \notin B \ {t}
      OBVIOUS
    <3> QED
      BY <3>1, <3>2 DEF Visit, Stuck
  <2> QED
    BY <2>1, <2>2
<1>7. /\ q \in [Task -> Status]
      /\ \A t \in Task : q[t] = "Dependency" <=> t \in B
      /\ \A t \in stuck : q[t] = r[t]
  BY <1>3, <1>5, <1>6 DEF Put, Waiting, Status, Blocked
<1> DEFINE c == complete_reconcile_root(q)
<1>8. /\ c \in [Task -> Status]
      /\ \A t \in Task : q[t] # "Pending" => c[t] = q[t]
      /\ \A t \in Task : q[t] = "Pending" => c[t] \in {"Pending", "Done"}
  BY <1>7 DEF complete_reconcile_root, Plan, Status, Blocked
<1>9. s = Put(c, O, "Failed")
  BY <1>2
<1> HIDE DEF c
<1>10. \A t \in Task : s[t] = IF t \in O THEN "Failed" ELSE c[t]
  BY <1>8, <1>9 DEF Put
<1>11. \A t \in stuck \cup B : t \in Task /\ s[t] \in Blocked \cup {"Failed"}
  <2>1. \A t \in B : t \in Task
    BY <1>6 DEF Waiting
  <2> QED
    BY <1>7, <1>8, <1>10, <2>1 DEF Blocked
<1>12. ASSUME NEW t \in Task, s[t] = "Dependency"
       PROVE  \E d \in Deps[t] \cap Task : s[d] \in Blocked \cup {"Failed"}
  <2>1. t \in B
    BY <1>7, <1>8, <1>10, <1>12
  <2>2. PICK d \in dependencies(r, t) : d \in stuck \cup B
    BY <1>6, <2>1
  <2> QED
    BY <1>11, <2>2 DEF dependencies
<1> QED
  BY <1>12

\* assign_task seats tasks of the wave, each on an idle seat of its own.
LEMMA SeatingFacts ==
  ASSUME NEW fit, NEW pool, NEW f \in Seating(fit, pool)
  PROVE  /\ DOMAIN f \subseteq fit
         /\ \A t \in DOMAIN f : f[t] \in Seat /\ pool[f[t]] = 0
         /\ \A t, u \in DOMAIN f : f[t] = f[u] => t = u
         /\ \A x : x \in Range(f) <=> \E t \in DOMAIN f : x = f[t]
<1> DEFINE free == {x \in Seat : pool[x] = 0}
<1>1. PICK S \in SUBSET fit : f \in Injection(S, free)
  BY DEF Seating
<1>2. /\ f \in [S -> free]
      /\ \A t, u \in S : f[t] = f[u] => t = u
  BY <1>1 DEF Injection, IsInjective
<1> QED
  BY <1>1, <1>2 DEF Range

\* Giving back the seats of workers that are gone and adapting the pool to
\* the cap leaves the seats of the other workers busy: seats are not shared.
LEMMA PoolFacts ==
  ASSUME Inv, NEW gone \in SUBSET Handles(worker)
  PROVE  /\ sync_seat_pool(ReleaseSeats(gone)) \in [Seat -> {-1, 0, 1}]
         /\ \A t \in Handles(worker) \ gone :
              /\ seat[t] \in Seat
              /\ sync_seat_pool(ReleaseSeats(gone))[seat[t]] = 1
<1> DEFINE freed == ReleaseSeats(gone)
<1>1. /\ active \in [Seat -> {-1, 0, 1}]
      /\ seat \in [Task -> Seat \cup {NoSeat}]
      /\ Handles(worker) \subseteq Task
  BY DEF Inv, TypeOK, Handles
<1>2. freed \in [Seat -> {-1, 0, 1}]
  BY <1>1 DEF ReleaseSeats
<1>3. ASSUME NEW t \in Handles(worker) \ gone
      PROVE  seat[t] \in Seat /\ freed[seat[t]] = 1
  <2>1. seat[t] \in Seat /\ active[seat[t]] = 1
    BY <1>1 DEF Inv, SeatPerWorker
  <2>2. \A u \in gone : seat[u] # seat[t]
    BY DEF Inv, SeatPerWorker
  <2> QED
    BY <2>1, <2>2 DEF ReleaseSeats
<1> HIDE DEF freed
<1>4. sync_seat_pool(freed) \in [Seat -> {-1, 0, 1}]
  BY <1>2 DEF sync_seat_pool
<1>5. \A x \in Seat : freed[x] = 1 => sync_seat_pool(freed)[x] = 1
  BY DEF sync_seat_pool
<1> QED
  BY <1>3, <1>4, <1>5 DEF freed

\* A poll, whoever calls it, keeps the invariant and dispatches tasks whose
\* scopes do not collide.
LEMMA PollKeeps ==
  ASSUME Inv, NEW st, NEW wk, NEW wd, Pollable(st, wk, wd),
         poll_live_workers(st, wk, wd)
  PROVE  Inv' /\ WaveStep /\ CauseStep
<1> DEFINE E == Ended(wk)
           gone == E \cup Overdue(wk, wd)
           kept == Handles(wk) \ gone
           expired == {t \in kept : wd[t] = "expired"}
           pool == sync_seat_pool(ReleaseSeats(gone))
           Bound(b) == bind_unbound_tasks(st, b)
           Fit(w, b) == {t \in w \ {Root} : b /\ Bound(b)[t] = "current"}
           Outcome(s, b, w, f) ==
             /\ status' = Put(Put(s, (w \ {Root}) \ Fit(w, b), "Unfit"),
                              DOMAIN f, "Running")
             /\ outputs' = [t \in Task |-> IF t \in E /\ s[t] = "Done"
                                             THEN Writes[t] ELSE outputs[t]]
             /\ worker' = Put(Put(Put(wk, gone, "none"), expired, "cancelled"),
                              DOMAIN f, "live")
             /\ watchdog' = [t \in Task |->
                               IF t \notin kept THEN "none"
                               ELSE IF wd[t] = "none" THEN "watching"
                               ELSE IF wd[t] = "expired" THEN "cancelled"
                               ELSE wd[t]]
             /\ seat' = [t \in Task |-> IF t \in DOMAIN f THEN f[t]
                                        ELSE IF t \in gone THEN NoSeat
                                        ELSE seat[t]]
             /\ active' = Put(pool, Range(f), 1)
             /\ binding' = Bound(b)
             /\ orphans' = orphans \cup Abandoned(wk, gone)
             /\ execution_running' = (kept \cup DOMAIN f # {})
             /\ UNCHANGED <<cap, last_issued_task_id, drawn>>
<1>1. PICK s \in Settled(st, wk, wd), b \in Readable :
        \E w \in ready_ids_conflict_aware(s) :
          \E f \in Seating(Fit(w, b), pool) : Outcome(s, b, w, f)
  BY DEF poll_live_workers
<1>2. PICK w \in ready_ids_conflict_aware(s) :
        \E f \in Seating(Fit(w, b), pool) : Outcome(s, b, w, f)
  BY <1>1
<1>3. PICK f \in Seating(Fit(w, b), pool) : Outcome(s, b, w, f)
  BY <1>2
<1> DEFINE work == w \ {Root}
           fit == Fit(w, b)
<1>4. /\ gone \subseteq Handles(wk)
      /\ Handles(wk) \subseteq Handles(worker)
      /\ Handles(worker) \subseteq Task
      /\ E \subseteq Task
  BY DEF Pollable, Handles, Ended, Overdue, Result
<1>5. /\ pool \in [Seat -> {-1, 0, 1}]
      /\ \A t \in kept : seat[t] \in Seat /\ pool[seat[t]] = 1
  BY <1>4, PoolFacts
<1>6. /\ DOMAIN f \subseteq fit
      /\ \A t \in DOMAIN f : f[t] \in Seat /\ pool[f[t]] = 0
      /\ \A t, u \in DOMAIN f : f[t] = f[u] => t = u
      /\ \A x : x \in Range(f) <=> \E t \in DOMAIN f : x = f[t]
  BY SeatingFacts
<1>7. /\ s \in [Task -> Status]
      /\ \A t \in Task : s[t] = "Running" <=> t \in kept
      /\ \A t \in Task : st[t] \in {"Done", "Absent"} => s[t] = st[t]
      /\ \A t \in E :
           s[t] = "Done" =>
             /\ \A u \in Task \ {t} : Writes[t] \cap outputs[u] = {}
             /\ \A u \in E \ {t} : s[u] = "Done" => Writes[t] \cap Writes[u] = {}
  BY SettledFacts
<1>8. /\ work \subseteq {t \in Task : s[t] = "Pending"}
      /\ fit \subseteq work
  BY DEF ready_ids_conflict_aware, ready_ids
<1>9. /\ status' \in [Task -> Status]
      /\ \A t \in DOMAIN f : status'[t] = "Running"
      /\ \A t \in work \ DOMAIN f : status'[t] # "Running"
      /\ \A t \in Task \ work : status'[t] = s[t]
  BY <1>3, <1>6, <1>7, <1>8 DEF Put, Status, Blocked
<1>10. /\ worker' \in [Task -> Handle]
       /\ \A t \in Task : worker'[t] # "none" <=> t \in kept \cup DOMAIN f
  BY <1>3, <1>4, <1>6, <1>8 DEF Put, Pollable, Handles, Handle, Alive, Result
<1>11. /\ \A t \in kept : t \notin DOMAIN f /\ t \notin work
       /\ DOMAIN f \subseteq Task /\ kept \subseteq Task
  BY <1>4, <1>6, <1>7, <1>8
<1>12. TypeOK'
  <2>1. outputs' \in [Task -> SUBSET File]
    BY <1>3, ConflictAssumption DEF Inv, TypeOK
  <2>2. watchdog' \in [Task -> Clock]
    BY <1>3 DEF Pollable, Clock
  <2>3. seat' \in [Task -> Seat \cup {NoSeat}]
    BY <1>3, <1>6 DEF Inv, TypeOK
  <2>4. active' \in [Seat -> {-1, 0, 1}]
    BY <1>3, <1>5 DEF Put
  <2>5. binding' \in [Task -> {"unbound", "current", "outdated"}]
    BY <1>3 DEF Inv, TypeOK, bind_unbound_tasks
  <2>6. orphans' \subseteq Task
    BY <1>3, <1>4 DEF Inv, TypeOK, Abandoned
  <2>7. /\ cap' \in 1 .. MaxSeats
        /\ last_issued_task_id' \in 0 .. MaxTask
        /\ drawn' \in BOOLEAN
    BY <1>3 DEF Inv, TypeOK
  <2>8. execution_running' \in BOOLEAN
    BY <1>3
  <2> QED
    BY <1>9, <1>10, <2>1, <2>2, <2>3, <2>4, <2>5, <2>6, <2>7, <2>8
       DEF TypeOK, Handle, Clock
<1>13. RunningIsWatched'
  <2>1. \A t \in Task : status'[t] = "Running" <=> t \in kept \cup DOMAIN f
    BY <1>7, <1>9, <1>11
  <2>2. execution_running' = (kept \cup DOMAIN f # {})
    BY <1>3
  <2> QED
    BY <1>10, <2>1, <2>2 DEF RunningIsWatched
<1>14. SeatPerWorker'
  <2>1. /\ \A t \in DOMAIN f : seat'[t] = f[t]
        /\ \A t \in kept : seat'[t] = seat[t]
    BY <1>3, <1>11
  <2>2. /\ \A x \in Seat : pool[x] = 1 => active'[x] = 1
        /\ \A x \in Seat : x \in Range(f) => active'[x] = 1
    BY <1>3, <1>5 DEF Put
  <2>3. Handles(worker)' = kept \cup DOMAIN f
    BY <1>10, <1>11 DEF Handles
  <2>4. \A x, y \in kept : x # y => seat[x] # seat[y]
    BY <1>4 DEF Inv, SeatPerWorker
  <2> HIDE DEF kept, pool
  <2>5. ASSUME NEW t \in kept \cup DOMAIN f
        PROVE  seat'[t] \in Seat /\ active'[seat'[t]] = 1
    <3>1. CASE t \in kept
      BY <1>5, <2>1, <2>2, <3>1
    <3>2. CASE t \in DOMAIN f
      <4>1. f[t] \in Range(f) /\ f[t] \in Seat
        BY <1>6, <3>2
      <4>2. active'[f[t]] = 1
        BY <2>2, <4>1
      <4>3. seat'[t] = f[t]
        BY <2>1, <3>2
      <4> QED
        BY <4>1, <4>2, <4>3
    <3> QED
      BY <3>1, <3>2
  <2>6. ASSUME NEW t \in kept \cup DOMAIN f, NEW u \in kept \cup DOMAIN f,
               u # t
        PROVE  seat'[u] # seat'[t]
    <3>1. \A x \in kept, y \in DOMAIN f : seat[x] # f[y]
      BY <1>5, <1>6
    <3> QED
      BY <1>6, <2>1, <2>4, <2>6, <3>1
  <2> QED
    BY <2>3, <2>5, <2>6, SeatAssumption DEF SeatPerWorker
<1>15. AcceptedDisjoint'
  <2>1. ASSUME NEW t \in Task
        PROVE  outputs'[t] = IF t \in E /\ s[t] = "Done" THEN Writes[t]
                                                         ELSE outputs[t]
    BY <1>3
  <2>2. \A t \in Task : s[t] = "Done" => status'[t] = "Done"
    BY <1>8, <1>9
  <2>3. ASSUME NEW t \in Task, outputs'[t] # {}
        PROVE  status'[t] = "Done"
    <3>1. CASE t \in E /\ s[t] = "Done"
      BY <2>2, <3>1
    <3>2. CASE ~ (t \in E /\ s[t] = "Done")
      <4>1. status[t] = "Done"
        BY <2>1, <2>3, <3>2 DEF Inv, AcceptedDisjoint
      <4> QED
        BY <1>7, <2>2, <4>1 DEF Pollable
    <3> QED
      BY <3>1, <3>2
  <2>4. ASSUME NEW t \in Task, NEW u \in Task \ {t}
        PROVE  outputs'[t] \cap outputs'[u] = {}
    <3>1. outputs[t] \cap outputs[u] = {}
      BY DEF Inv, AcceptedDisjoint
    <3>2. t \in E /\ s[t] = "Done" => Writes[t] \cap outputs[u] = {}
      BY <1>7
    <3>3. u \in E /\ s[u] = "Done" => Writes[u] \cap outputs[t] = {}
      BY <1>7
    <3>4. t \in E /\ s[t] = "Done" /\ u \in E /\ s[u] = "Done"
            => Writes[t] \cap Writes[u] = {}
      BY <1>7
    <3> QED
      BY <2>1, <3>1, <3>2, <3>3, <3>4
  <2> QED
    BY <2>3, <2>4 DEF AcceptedDisjoint
<1>16. Unissued'
  <2>1. last_issued_task_id' = last_issued_task_id
    BY <1>3
  <2>2. \A t \in Task : status[t] = "Absent" => status'[t] = "Absent"
    BY <1>7, <1>8, <1>9 DEF Pollable
  <2> QED
    BY <2>1, <2>2 DEF Inv, Unissued
<1>17. WaveStep
  <2>1. ASSUME NEW t \in Task, status[t] # "Running", status'[t] = "Running"
        PROVE  t \in w
    <3>1. t \notin kept
      BY <1>4, <2>1 DEF Inv, RunningIsWatched, Handles
    <3>2. t \in DOMAIN f
      BY <1>7, <1>9, <2>1, <3>1
    <3> QED
      BY <1>6, <3>2
  <2>2. \A t, u \in w : t # u => <<t, u>> \notin Conflicts
    BY DEF ready_ids_conflict_aware
  <2> QED
    BY <2>1, <2>2 DEF WaveStep
<1>18. CauseStep
  <2> SUFFICES ASSUME NEW t \in Task, status'[t] = "Dependency"
               PROVE  \E d \in dependencies(status', t) :
                        status'[d] \in Blocked \cup {"Failed"}
    BY DEF CauseStep, Caused
  <2>1. \A u \in work : status'[u] \in {"Unfit", "Running", "Pending"}
    BY <1>3, <1>6, <1>7, <1>8 DEF Put
  <2>2. s[t] = "Dependency"
    BY <1>9, <2>1
  <2>3. PICK d \in Deps[t] \cap Task : s[d] \in Blocked \cup {"Failed"}
    BY <2>2, SettledCause
  <2>4. status'[d] = s[d]
    BY <1>8, <1>9, <2>3 DEF Blocked
  <2>5. d \in dependencies(status', t)
    BY <2>3, <2>4 DEF dependencies, Plan, Blocked
  <2> QED
    BY <2>3, <2>4, <2>5
<1> QED
  BY <1>12, <1>13, <1>14, <1>15, <1>16, <1>17, <1>18 DEF Inv

\* The panel opens with nothing planned and nothing running.
LEMMA InitHolds == Init => Inv
<1> SUFFICES ASSUME Init PROVE Inv
  OBVIOUS
<1>1. /\ cap \in 1 .. MaxSeats
      /\ last_issued_task_id \in 0 .. MaxTask
      /\ active \in [Seat -> {-1, 0, 1}]
      /\ seat \in [Task -> Seat \cup {NoSeat}]
  BY GraphAssumption, RoutedAssumption, SeatAssumption DEF Init
<1>2. /\ status \in [Task -> Status]
      /\ outputs \in [Task -> SUBSET File]
      /\ worker \in [Task -> {"none"} \cup Alive \cup Result]
      /\ watchdog \in [Task -> {"none", "watching", "expired", "cancelled",
                                "overdue"}]
      /\ binding \in [Task -> {"unbound", "current", "outdated"}]
      /\ orphans \subseteq Task
  BY DEF Init, Status
<1>3. execution_running \in BOOLEAN /\ drawn \in BOOLEAN
  BY DEF Init
<1>4. TypeOK
  BY <1>1, <1>2, <1>3 DEF TypeOK
<1>5. RunningIsWatched /\ SeatPerWorker /\ AcceptedDisjoint /\ Unissued
  BY DEF Init, RunningIsWatched, SeatPerWorker, AcceptedDisjoint, Unissued,
         Handles
<1> QED
  BY <1>4, <1>5 DEF Inv

\* Every caller of poll_live_workers hands it statuses, handles and clocks
\* that fit together: a button that re-queues tasks does so where none of
\* them has a handle.
LEMMA CallersPollable ==
  ASSUME Inv
  PROVE  /\ Pollable(status, worker, watchdog)
         /\ retry_blocked_tasks =>
              \E R \in SUBSET Task :
                /\ Pollable(Put(status, R, "Pending"), Put(worker, Task, "none"),
                            Put(watchdog, Task, "none"))
                /\ poll_live_workers(Put(status, R, "Pending"),
                                     Put(worker, Task, "none"),
                                     Put(watchdog, Task, "none"))
         /\ \A t \in Task :
              status[t] \in {"FollowUp", "Dependency"} =>
                Pollable([status EXCEPT ![t] = "Pending"],
                         [worker EXCEPT ![t] = "none"],
                         [watchdog EXCEPT ![t] = "none"])
<1>1. /\ status \in [Task -> Status]
      /\ worker \in [Task -> Handle]
      /\ watchdog \in [Task -> Clock]
      /\ \A t \in Task : status[t] = "Running" <=> worker[t] # "none"
      /\ ~ execution_running => \A t \in Task : worker[t] = "none"
  BY DEF Inv, TypeOK, RunningIsWatched, Handle, Clock
<1>2. Pollable(status, worker, watchdog)
  BY <1>1 DEF Pollable
<1>3. ASSUME retry_blocked_tasks
      PROVE  LET R == {t \in Task : status[t] \in {"FollowUp", "Dependency"}}
             IN  /\ Pollable(Put(status, R, "Pending"),
                             Put(worker, Task, "none"),
                             Put(watchdog, Task, "none"))
                 /\ poll_live_workers(Put(status, R, "Pending"),
                                      Put(worker, Task, "none"),
                                      Put(watchdog, Task, "none"))
  <2> DEFINE R == {t \in Task : status[t] \in {"FollowUp", "Dependency"}}
             st == Put(status, R, "Pending")
             wk == Put(worker, Task, "none")
             wd == Put(watchdog, Task, "none")
  <2>1. ~ execution_running /\ poll_live_workers(st, wk, wd)
    BY <1>3 DEF retry_blocked_tasks
  <2>2. /\ st \in [Task -> Status]
        /\ \A t \in Task : st[t] = "Running" <=> status[t] = "Running"
        /\ \A t \in Task : status[t] \in {"Done", "Absent"} => st[t] = status[t]
    BY <1>1 DEF Put, Status, Blocked
  <2>3. /\ wk \in [Task -> Handle] /\ wd \in [Task -> Clock]
        /\ \A t \in Task : wk[t] = "none"
    BY <1>1 DEF Put, Handle, Clock
  <2>4. Pollable(st, wk, wd)
    <3> HIDE DEF st, wk, wd
    <3> QED
      BY <1>1, <2>1, <2>2, <2>3 DEF Pollable
  <2> QED
    BY <2>1, <2>4
<1>4. ASSUME NEW t \in Task, status[t] \in {"FollowUp", "Dependency"}
      PROVE  Pollable([status EXCEPT ![t] = "Pending"],
                      [worker EXCEPT ![t] = "none"],
                      [watchdog EXCEPT ![t] = "none"])
  BY <1>1, <1>4 DEF Pollable, Status, Blocked, Handle, Clock
<1> QED
  BY <1>2, <1>3, <1>4

\* A step that dispatches nothing: handles can only go, together with their
\* Running, and so can outputs; seats stay as they are unless every handle
\* goes.
Quiet ==
  /\ \A t \in Task : worker'[t] # "none" => worker[t] # "none"
  /\ \A t \in Task : status'[t] = "Running" <=> worker'[t] # "none"
  /\ \A t \in Task : worker'[t] # "none" => execution_running'
  /\ \/ seat' = seat /\ active' = active
     \/ \A t \in Task : worker'[t] = "none"
  /\ \A t \in Task : /\ outputs'[t] \subseteq outputs[t]
                     /\ outputs'[t] # {} => status'[t] = status[t]

\* A quiet step keeps what the invariant says of handles, seats and outputs.
LEMMA QuietKeeps ==
  ASSUME Inv, Quiet
  PROVE  RunningIsWatched' /\ SeatPerWorker' /\ AcceptedDisjoint' /\ WaveStep
<1>1. RunningIsWatched'
  BY DEF Quiet, RunningIsWatched
<1>2. SeatPerWorker'
  <2>1. Handles(worker)' \subseteq Handles(worker)
    BY DEF Quiet, Handles
  <2>2. CASE \A t \in Task : worker'[t] = "none"
    BY <2>2 DEF SeatPerWorker, Handles
  <2>3. CASE seat' = seat /\ active' = active
    BY <2>1, <2>3 DEF Inv, SeatPerWorker
  <2> QED
    BY <2>2, <2>3 DEF Quiet
<1>3. AcceptedDisjoint'
  <2>1. ASSUME NEW t \in Task
        PROVE  outputs'[t] # {} => status'[t] = "Done"
    <3>1. outputs'[t] # {} => outputs[t] # {}
      BY DEF Quiet
    <3> QED
      BY <3>1 DEF Quiet, Inv, AcceptedDisjoint
  <2>2. ASSUME NEW t \in Task, NEW u \in Task \ {t}
        PROVE  outputs'[t] \cap outputs'[u] = {}
    <3>1. outputs'[t] \subseteq outputs[t] /\ outputs'[u] \subseteq outputs[u]
      BY DEF Quiet
    <3>2. outputs[t] \cap outputs[u] = {}
      BY DEF Inv, AcceptedDisjoint
    <3> QED
      BY <3>1, <3>2
  <2> QED
    BY <2>1, <2>2 DEF AcceptedDisjoint
<1>4. WaveStep
  BY DEF Quiet, Inv, RunningIsWatched, WaveStep
<1> QED
  BY <1>1, <1>2, <1>3, <1>4

\* Everything that happens between two polls is quiet, keeps the types and
\* takes no id before it is issued.
LEMMA QuietActions ==
  ASSUME Inv,
         \/ \E t \in Task : \/ \E x \in Result : WorkerEnds(t, x)
                            \/ OrphanEnds(t)
                            \/ TimePasses(t)
                            \/ remove_task(t)
                            \/ reset_task(t)
                            \/ stop_task(t)
         \/ SiteMapMoves \/ set_routed_tasks \/ add_task \/ clear_plan
         \/ reset_runtime \/ SwitchTab
         \/ \E n \in Caps : SetCap(n)
  PROVE  TypeOK' /\ Quiet /\ Unissued'
<1>0. TypeOK /\ RunningIsWatched /\ AcceptedDisjoint /\ Unissued
  BY DEF Inv
<1>1. ASSUME NEW t \in Task, NEW x \in Result, WorkerEnds(t, x)
      PROVE  TypeOK' /\ Quiet /\ Unissued'
  <2>1. TypeOK'
    BY <1>0, <1>1 DEF WorkerEnds, TypeOK, Alive, Result
  <2>2. Quiet
    BY <1>0, <1>1 DEF WorkerEnds, TypeOK, Quiet, RunningIsWatched, Alive, Result
  <2>3. Unissued'
    BY <1>0, <1>1 DEF WorkerEnds, Unissued
  <2> QED
    BY <2>1, <2>2, <2>3
<1>2. ASSUME NEW t \in Task, OrphanEnds(t)
      PROVE  TypeOK' /\ Quiet /\ Unissued'
  <2>1. TypeOK'
    BY <1>0, <1>2 DEF OrphanEnds, TypeOK
  <2>2. Quiet
    BY <1>0, <1>2 DEF OrphanEnds, Quiet, RunningIsWatched
  <2>3. Unissued'
    BY <1>0, <1>2 DEF OrphanEnds, Unissued
  <2> QED
    BY <2>1, <2>2, <2>3
<1>3. ASSUME NEW t \in Task, TimePasses(t)
      PROVE  TypeOK' /\ Quiet /\ Unissued'
  <2>1. TypeOK'
    BY <1>0, <1>3 DEF TimePasses, TypeOK
  <2>2. Quiet
    BY <1>0, <1>3 DEF TimePasses, Quiet, RunningIsWatched
  <2>3. Unissued'
    BY <1>0, <1>3 DEF TimePasses, Unissued
  <2> QED
    BY <2>1, <2>2, <2>3
<1>4. ASSUME SiteMapMoves
      PROVE  TypeOK' /\ Quiet /\ Unissued'
  <2>1. TypeOK'
    BY <1>0, <1>4 DEF SiteMapMoves, TypeOK
  <2>2. Quiet
    BY <1>0, <1>4 DEF SiteMapMoves, Quiet, RunningIsWatched
  <2>3. Unissued'
    BY <1>0, <1>4 DEF SiteMapMoves, Unissued
  <2> QED
    BY <2>1, <2>2, <2>3
<1>5. ASSUME set_routed_tasks
      PROVE  TypeOK' /\ Quiet /\ Unissued'
  <2>1. PICK n \in RoutedTask \cup {Root} :
          /\ last_issued_task_id' = n
          /\ \A m \in RoutedTask : m <= n
    BY <1>5 DEF set_routed_tasks
  <2>2. /\ MaxTask \in Nat /\ Root = 1 /\ RoutedTask \subseteq 2 .. MaxTask
        /\ n \in 1 .. MaxTask
    BY <1>5, GraphAssumption, RoutedAssumption DEF set_routed_tasks, Task
  <2>3. TypeOK'
    <3>1. last_issued_task_id' \in 0 .. MaxTask
      BY <2>1, <2>2
    <3> QED
      BY <1>0, <1>5, <3>1
         DEF set_routed_tasks, TypeOK, build_routed_graph, Status, Abandoned
  <2>4. Quiet
    BY <1>5 DEF set_routed_tasks, Quiet, build_routed_graph
  <2>5. Unissued'
    <3>1. \A t \in Task : t > n => t \notin RoutedTask \cup {Root}
      BY <2>1, <2>2 DEF Task
    <3>2. \A t \in Task \ (RoutedTask \cup {Root}) : status'[t] = "Absent"
      BY <1>5 DEF set_routed_tasks, build_routed_graph
    <3> QED
      BY <2>1, <3>1, <3>2 DEF Unissued
  <2> QED
    BY <2>3, <2>4, <2>5
<1>6. ASSUME add_task
      PROVE  TypeOK' /\ Quiet /\ Unissued'
  <2> DEFINE id == last_issued_task_id + 1
  <2>1. /\ id \in Task /\ id > last_issued_task_id
        /\ id \in 0 .. MaxTask
        /\ status' = [status EXCEPT ![id] = "Pending"]
        /\ last_issued_task_id' = id
        /\ UNCHANGED <<outputs, worker, watchdog, seat, active, cap, binding,
                       execution_running, drawn, orphans>>
    BY <1>0, <1>6, GraphAssumption, RoutedAssumption DEF add_task, next_task_id, TypeOK, Task
  <2>2. status[id] = "Absent" /\ worker[id] = "none" /\ outputs[id] = {}
    BY <1>0, <2>1 DEF Unissued, RunningIsWatched, AcceptedDisjoint
  <2>3. \A t \in Task : t > id => t > last_issued_task_id /\ t # id
    BY <1>0 DEF TypeOK, Task
  <2> HIDE DEF id
  <2>4. TypeOK'
    BY <1>0, <2>1 DEF TypeOK, Status
  <2>5. Quiet
    BY <1>0, <2>1, <2>2 DEF TypeOK, Quiet, RunningIsWatched
  <2>6. Unissued'
    BY <1>0, <2>1, <2>3 DEF TypeOK, Unissued
  <2> QED
    BY <2>4, <2>5, <2>6
<1>7. ASSUME NEW t \in Task, remove_task(t)
      PROVE  TypeOK' /\ Quiet /\ Unissued'
  <2>1. TypeOK'
    BY <1>0, <1>7 DEF remove_task, TypeOK, Status, Abandoned
  <2>2. Quiet
    BY <1>0, <1>7 DEF remove_task, TypeOK, Quiet, RunningIsWatched, Handles
  <2>3. Unissued'
    BY <1>0, <1>7 DEF remove_task, TypeOK, Unissued
  <2> QED
    BY <2>1, <2>2, <2>3
<1>8. ASSUME clear_plan
      PROVE  TypeOK' /\ Quiet /\ Unissued'
  <2>1. TypeOK'
    BY <1>0, <1>8 DEF clear_plan, TypeOK, Status, Abandoned
  <2>2. Quiet
    BY <1>0, <1>8 DEF clear_plan, Quiet
  <2>3. Unissued'
    BY <1>0, <1>8 DEF clear_plan, Unissued
  <2> QED
    BY <2>1, <2>2, <2>3
<1>9. ASSUME NEW t \in Task, reset_task(t)
      PROVE  TypeOK' /\ Quiet /\ Unissued'
  <2>1. TypeOK'
    BY <1>0, <1>9 DEF reset_task, TypeOK, Status, Abandoned
  <2>2. Quiet
    BY <1>0, <1>9 DEF reset_task, TypeOK, Quiet, RunningIsWatched, Handles
  <2>3. Unissued'
    BY <1>0, <1>9 DEF reset_task, TypeOK, Unissued, Plan
  <2> QED
    BY <2>1, <2>2, <2>3
<1>10. ASSUME reset_runtime
       PROVE  TypeOK' /\ Quiet /\ Unissued'
  <2>1. TypeOK'
    BY <1>0, <1>10 DEF reset_runtime, TypeOK, Status, Abandoned, Plan, Put
  <2>2. Quiet
    BY <1>0, <1>10 DEF reset_runtime, TypeOK, Quiet, RunningIsWatched, Plan, Put
  <2>3. Unissued'
    BY <1>0, <1>10 DEF reset_runtime, TypeOK, Unissued, Plan, Put
  <2> QED
    BY <2>1, <2>2, <2>3
<1>11. ASSUME NEW t \in Task, stop_task(t)
       PROVE  TypeOK' /\ Quiet /\ Unissued'
  <2>1. TypeOK'
    BY <1>0, <1>11 DEF stop_task, TypeOK, Alive
  <2>2. Quiet
    BY <1>0, <1>11 DEF stop_task, TypeOK, Quiet, RunningIsWatched
  <2>3. Unissued'
    BY <1>0, <1>11 DEF stop_task, Unissued
  <2> QED
    BY <2>1, <2>2, <2>3
<1>12. ASSUME NEW n \in Caps, SetCap(n)
       PROVE  TypeOK' /\ Quiet /\ Unissued'
  <2>1. TypeOK'
    BY <1>0, <1>12, SeatAssumption DEF SetCap, TypeOK
  <2>2. Quiet
    BY <1>0, <1>12 DEF SetCap, Quiet, RunningIsWatched
  <2>3. Unissued'
    BY <1>0, <1>12 DEF SetCap, Unissued
  <2> QED
    BY <2>1, <2>2, <2>3
<1>13. ASSUME SwitchTab
       PROVE  TypeOK' /\ Quiet /\ Unissued'
  <2>1. TypeOK'
    BY <1>0, <1>13 DEF SwitchTab, TypeOK
  <2>2. Quiet
    BY <1>0, <1>13 DEF SwitchTab, Quiet, RunningIsWatched
  <2>3. Unissued'
    BY <1>0, <1>13 DEF SwitchTab, Unissued
  <2> QED
    BY <2>1, <2>2, <2>3
<1> QED
  BY <1>1, <1>2, <1>3, <1>4, <1>5, <1>6, <1>7, <1>8, <1>9, <1>10,
     <1>11, <1>12, <1>13

\* Every step of the panel, its threads and its operator keeps the invariant
\* and dispatches no two tasks with colliding scopes.
LEMMA NextKeeps ==
  ASSUME Inv, [Next]_vars
  PROVE  Inv' /\ WaveStep
<1>1. CASE Frame
  BY <1>1, CallersPollable, PollKeeps DEF Frame
<1>2. CASE start_execution
  BY <1>2, CallersPollable, PollKeeps DEF start_execution
<1>3. CASE retry_blocked_tasks
  BY <1>3, CallersPollable, PollKeeps
<1>4. ASSUME NEW t \in Task, retry_task(t)
      PROVE  Inv' /\ WaveStep
  BY <1>4, CallersPollable, PollKeeps DEF retry_task
<1>5. CASE \/ \E t \in Task : \/ \E x \in Result : WorkerEnds(t, x)
                              \/ OrphanEnds(t)
                              \/ TimePasses(t)
                              \/ remove_task(t)
                              \/ reset_task(t)
                              \/ stop_task(t)
           \/ SiteMapMoves \/ set_routed_tasks \/ add_task \/ clear_plan
           \/ reset_runtime \/ SwitchTab
           \/ \E n \in Caps : SetCap(n)
  <2>1. TypeOK' /\ Quiet /\ Unissued'
    BY <1>5, QuietActions
  <2> QED
    BY <2>1, QuietKeeps DEF Inv
<1>6. CASE UNCHANGED vars
  BY <1>6 DEF vars, Inv, TypeOK, RunningIsWatched, SeatPerWorker,
              AcceptedDisjoint, Unissued, Handles, WaveStep
<1> QED
  BY <1>1, <1>2, <1>3, <1>4, <1>5, <1>6 DEF Next, Operator

\* The invariant holds of the whole specification.
LEMMA Invariance == Spec => []Inv
<1>1. Init => Inv
  BY InitHolds
<1>2. Inv /\ [Next]_vars => Inv'
  BY NextKeeps
<1> QED
  BY <1>1, <1>2, PTL DEF Spec

\* The panel's maps keep their types: in particular a seat is never counted
\* twice and task ids are never issued past the last.
THEOREM TypeCorrect == Spec => []TypeOK
<1>1. Inv => TypeOK
  BY DEF Inv
<1> QED
  BY <1>1, Invariance, PTL

\* Whatever buttons are pressed, a task is Running exactly while the panel
\* holds its handle, and then the panel polls (execution.rs:221-304).
THEOREM RunningAlwaysWatched == Spec => []RunningIsWatched
<1>1. Inv => RunningIsWatched
  BY DEF Inv
<1> QED
  BY <1>1, Invariance, PTL

\* Workers with a handle sit on distinct busy seats, through every change of
\* the cap, reset and re-dispatch (sync_seat_pool, worker_seats).
THEOREM SeatsNotShared == Spec => []SeatPerWorker
<1>1. Inv => SeatPerWorker
  BY DEF Inv
<1> QED
  BY <1>1, Invariance, PTL

\* The registry never holds two outputs that overlap, in whatever order one
\* poll reconciles the results it collects (reconciliation_error).
THEOREM AcceptedNeverOverlap == Spec => []AcceptedDisjoint
<1>1. Inv => AcceptedDisjoint
  BY DEF Inv
<1> QED
  BY <1>1, Invariance, PTL

\* No step starts two tasks with colliding scopes, whichever caller polled
\* (ready_ids_conflict_aware).
THEOREM WavesConflictFree == Spec => SameWave
<1>1. Inv /\ [Next]_vars => [WaveStep]_vars
  BY NextKeeps
<1> QED
  BY <1>1, Invariance, PTL DEF Spec, SameWave, WaveStep

\* After every poll a task blocked for its dependencies lies downstream of one
\* that failed or waits for a follow-up, in every plan without cycles, at any
\* distance and in any order of the HashMap (propagate_blocked_dependents).
THEOREM BlockedForACause == Spec => BlockedHasCause
<1> DEFINE Step == Polls => \A t \in Task : status'[t] = "Dependency"
                                             => t \in Downstream(status')
<1>1. Inv /\ [Next]_vars => [Polls => CauseStep]_vars
  BY CallersPollable, PollKeeps
  DEF Polls, Frame, start_execution, retry_blocked_tasks, retry_task
<1>2. CauseStep => \A t \in Task : status'[t] = "Dependency"
                                   => t \in Downstream(status')
  BY ChainsEnd DEF CauseStep
<1>3. Inv /\ [Next]_vars => [Step]_vars
  BY <1>1, <1>2
<1> QED
  BY <1>3, Invariance, PTL DEF Spec, BlockedHasCause
=============================================================================
