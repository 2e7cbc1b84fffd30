-------------------------------- MODULE OpLog --------------------------------
(***************************************************************************)
(* The replicated operation log: one append-only file per machine          *)
(* (op_log_store.rs), the producers that stamp operations into it          *)
(* (change_attribution.rs, governor.rs) and the rounds in which two        *)
(* machines exchange what they have (replication.rs, peer_link.rs).        *)
(*                                                                         *)
(* A producer reads the whole log, stamps the next operation of its node   *)
(* and appends one line; nothing locks the log between the two.  A round   *)
(* is one POST: the client sends its whole log, the server appends what it *)
(* lacks, answers with what the client may lack, and the client appends    *)
(* that.  A write may fail, having put down nothing, half a line, or all   *)
(* but its newline; a producer may be restarted; a round may break off     *)
(* anywhere.                                                               *)
(***************************************************************************)
EXTENDS Integers, Sequences, FiniteSetsExt

CONSTANTS
  Machine,
  Producer,
  Attributor,     \* the producers that record changes of files
  Governor,       \* the producers that record denials
  Home,           \* the machine a producer writes on
  NodeId,         \* the node id a producer stamps with, ordered like its text
  Link,           \* the pairs a sync may join
  Client, Server, \* the two ends of a link
  Change,         \* <<path, digest>> pairs
  Denial,         \* the effect of a governor's operation (OpEffect::Legacy)
  NoOp,
  MaxCounter,     \* bound: the largest counter of a node
  MaxStamps,      \* bound: the operations stamped
  MaxFaults       \* bound: failed writes, restarts and broken rounds

Node == {NodeId[p] : p \in Producer}
Effect == Change \cup {Denial}

ASSUME ProducerAssumption ==
  /\ IsFiniteSet(Producer)
  /\ Attributor \subseteq Producer
  /\ Governor \subseteq Producer
  /\ Home \in [Producer -> Machine]
  /\ NodeId \in [Producer -> Nat]
ASSUME LinkAssumption ==
  /\ Client \in [Link -> Machine]
  /\ Server \in [Link -> Machine]
ASSUME BoundAssumption ==
  /\ MaxCounter \in Nat
  /\ MaxStamps \in Nat
  /\ MaxFaults \in Nat
ASSUME DenialAssumption == Denial \notin Change

VARIABLES
  log,      \* the operations a load of the machine's file yields, in order
  torn,     \* how the machine's file ends
  clock,    \* the clock an attributor keeps between two records
  pending,  \* the operation a producer has stamped and not yet appended
  round,    \* the exchange under way on a link
  stamps,   \* the operations stamped so far
  faults,   \* the faults so far
  spliced,  \* the operations some machine wrote behind an unfinished line
  lost      \* the nodes of operations whose line was written on

vars ==
  <<log, torn, clock, pending, round, stamps, faults, spliced, lost>>

Counter == 0..MaxCounter
VectorClock == [Node -> Counter]
Op == [node : Node, n : Counter, clock : VectorClock, effect : Effect]
OpId == Node \X Counter

ASSUME NoOpAssumption == NoOp \notin Op

-----------------------------------------------------------------------------
(* Clocks and identities. *)

VectorClock_new == [nd \in Node |-> 0]
increment(c, nd) == [c EXCEPT ![nd] = @ + 1]

\* The join of two histories.
merge(c, d) == [nd \in Node |-> IF d[nd] > c[nd] THEN d[nd] ELSE c[nd]]

op_id(o) == <<o.node, o.n>>

\* ReplicationView::from_log: the join of every clock, and the ids.
Entries(s, nd) == {0} \cup {s[i].clock[nd] : i \in DOMAIN s}
observed(s) == [nd \in Node |-> Max(Entries(s, nd))]
seen_ids(s) == {op_id(s[i]) : i \in DOMAIN s}

\* Mutant: an operation is new if it tops every component.
needs_Dominates(obs, ids, o) ==
  /\ op_id(o) \notin ids
  /\ \A nd \in Node : o.clock[nd] >= obs[nd]

\* The operation may be new to a peer with that view: its clock is ahead
\* somewhere, or its counter is.
needs(obs, ids, o) ==
  /\ op_id(o) \notin ids
  /\ \/ \E nd \in Node : o.clock[nd] > obs[nd]
     \/ obs[o.node] < o.n

\* ReplicationView::from_wire: an id raises its node's component.
from_wire(obs, ids) ==
  [nd \in Node |-> Max({obs[nd]} \cup {id[2] : id \in {i \in ids : i[1] = nd}})]

\* Mutant: the counter is read before the clock is bumped.
stamp_Early(p, base, effect) ==
  LET c == increment(base, NodeId[p])
  IN  [node |-> NodeId[p], n |-> base[NodeId[p]], clock |-> c, effect |-> effect]

\* Op::new_text and the denial of record_denial: the clock is bumped, and the
\* id is read off it.
stamp(p, base, effect) ==
  LET c == increment(base, NodeId[p])
  IN  [node |-> NodeId[p], n |-> c[NodeId[p]], clock |-> c, effect |-> effect]

-----------------------------------------------------------------------------
(* The store. *)

\* A file ends in a newline, in half a line, or in a line without newline,
\* which load reads as any other.
FileEnd == {"newline", "half", "line"}

\* What load still reads of the file when something is written behind its end:
\* a line without newline grows into one that it skips.
Kept(m) == IF torn[m] = "line" THEN SubSeq(log[m], 1, Len(log[m]) - 1)
                               ELSE log[m]
Overwritten(m) == IF torn[m] = "line" THEN {log[m][Len(log[m])].node} ELSE {}

\* append of one operation: one line and its newline.  Behind an unfinished
\* line it completes that line instead, which load then skips.
Write(m, o) ==
  /\ log' = [log EXCEPT ![m] = IF torn[m] = "newline" THEN Append(@, o)
                                                     ELSE Kept(m)]
  /\ spliced' = IF torn[m] = "newline" THEN spliced ELSE spliced \cup {o}
  /\ lost' = lost \cup Overwritten(m)
  /\ torn' = [torn EXCEPT ![m] = "newline"]

\* An append that fails, having written nothing, a part of the line, or the
\* line without its newline.
WriteFails(m, o) ==
  \/ UNCHANGED <<log, torn, spliced, lost>>
  \/ /\ log' = [log EXCEPT ![m] = Kept(m)]
     /\ torn' = [torn EXCEPT ![m] = "half"]
     /\ lost' = lost \cup Overwritten(m)
     /\ UNCHANGED spliced
  \/ /\ torn[m] = "newline"
     /\ log' = [log EXCEPT ![m] = Append(@, o)]
     /\ torn' = [torn EXCEPT ![m] = "line"]
     /\ UNCHANGED <<spliced, lost>>

Fault ==
  /\ faults < MaxFaults
  /\ faults' = faults + 1

\* The bounds on what is stamped, from a counter on.
Counts(n) ==
  /\ n < MaxCounter
  /\ stamps < MaxStamps
  /\ stamps' = stamps + 1

-----------------------------------------------------------------------------
(* The producers. *)

\* Mutant: the clock is kept as it is.
refresh_from_log_Own(c, m) == c

\* ChangeAttributor::refresh_from_log: an attributor's clock after it read the
\* machine's log.
refresh_from_log(c, m) == merge(c, observed(log[m]))

seen(p) == {log[Home[p]][i].effect : i \in DOMAIN log[Home[p]]} \cap Change

\* ChangeAttributor::record, up to the append.
record(p, c) ==
  LET fresh == refresh_from_log(clock[p], Home[p])
      op == stamp(p, fresh, c)
  IN  /\ pending[p] = NoOp
      /\ c \notin seen(p)
      /\ Counts(fresh[NodeId[p]])
      /\ clock' = [clock EXCEPT ![p] = op.clock]
      /\ pending' = [pending EXCEPT ![p] = op]
      /\ UNCHANGED <<log, torn, round, faults, spliced, lost>>

\* The same content again: nothing is recorded.
record_echo(p, c) ==
  /\ pending[p] = NoOp
  /\ c \in seen(p)
  /\ clock' = [clock EXCEPT ![p] = refresh_from_log(@, Home[p])]
  /\ UNCHANGED <<log, torn, pending, round, stamps, faults, spliced, lost>>

\* Governor::record_denial, up to the append: the clock is the log's.
record_denial(p) ==
  LET base == observed(log[Home[p]])
  IN  /\ pending[p] = NoOp
      /\ Counts(base[NodeId[p]])
      /\ pending' = [pending EXCEPT ![p] = stamp(p, base, Denial)]
      /\ UNCHANGED <<log, torn, clock, round, faults, spliced, lost>>

append(p) ==
  /\ pending[p] # NoOp
  /\ Write(Home[p], pending[p])
  /\ pending' = [pending EXCEPT ![p] = NoOp]
  /\ UNCHANGED <<clock, round, stamps, faults>>

\* The failure is logged and the operation forgotten.
append_fails(p) ==
  /\ pending[p] # NoOp
  /\ Fault
  /\ WriteFails(Home[p], pending[p])
  /\ pending' = [pending EXCEPT ![p] = NoOp]
  /\ UNCHANGED <<clock, round, stamps>>

\* The producer's process ends, and ChangeAttributor::open reads the log.
Restart(p) ==
  /\ Fault
  /\ pending' = [pending EXCEPT ![p] = NoOp]
  /\ clock' = IF p \in Attributor
              THEN [clock EXCEPT ![p] =
                      refresh_from_log(VectorClock_new, Home[p])]
              ELSE clock
  /\ UNCHANGED <<log, torn, round, stamps, spliced, lost>>

-----------------------------------------------------------------------------
(* A round of replication.  A message is a log and the positions of it that *)
(* are sent; while one is merged, they are the positions still to append,   *)
(* and it is cut once append_many has failed.                               *)

Phase == {"idle", "asked", "serving", "answered", "applying"}
Idle == [phase |-> "idle", ops |-> <<>>, sent |-> {}, cut |-> FALSE]

\* sync_ops_with_peer: the client's whole log goes out.
Request(l) ==
  /\ round[l].phase = "idle"
  /\ round' = [round EXCEPT ![l] = [phase |-> "asked", ops |-> log[Client[l]],
                                   sent |-> DOMAIN log[Client[l]],
                                   cut |-> FALSE]]
  /\ UNCHANGED <<log, torn, clock, pending, stamps, faults, spliced, lost>>

\* The first position of each id the machine does not have.
to_append(r, m) ==
  {i \in r.sent : /\ op_id(r.ops[i]) \notin seen_ids(log[m])
                  /\ \A j \in r.sent : op_id(r.ops[j]) = op_id(r.ops[i])
                                          => i <= j}

\* merge_remote_ops, up to the append: what the machine lacks.
Load(l, from, to, m) ==
  /\ round[l].phase = from
  /\ round' = [round EXCEPT ![l].phase = to, ![l].sent = to_append(round[l], m)]
  /\ UNCHANGED <<log, torn, clock, pending, stamps, faults, spliced, lost>>

\* Mutant: the newest operation first.
Merge_Backwards(l, phase, m) ==
  /\ round[l].phase = phase
  /\ \E i \in round[l].sent :
       /\ \A j \in round[l].sent : i >= j
       /\ Write(m, round[l].ops[i])
       /\ round' = [round EXCEPT ![l].sent = @ \ {i}]
  /\ UNCHANGED <<clock, pending, stamps, faults>>

\* append_many, the next of its operations.
Merge(l, phase, m) ==
  /\ round[l].phase = phase
  /\ \E i \in round[l].sent :
       /\ \A j \in round[l].sent : i <= j
       /\ Write(m, round[l].ops[i])
       /\ round' = [round EXCEPT ![l].sent = @ \ {i}]
  /\ UNCHANGED <<clock, pending, stamps, faults>>

\* A write of the batch fails, and the rest of it is dropped.
MergeFails(l, phase, m) ==
  /\ round[l].phase = phase
  /\ Fault
  /\ \E i \in round[l].sent :
       /\ \A j \in round[l].sent : i <= j
       /\ WriteFails(m, round[l].ops[i])
  /\ round' = [round EXCEPT ![l].sent = {}, ![l].cut = TRUE]
  /\ UNCHANGED <<clock, pending, stamps>>

\* handle_exchange, second half: the answer is what the view of the client,
\* as of its request, says it may lack.
Answer(l) ==
  LET r == round[l]
      local == log[Server[l]]
      ids == seen_ids(r.ops)
      obs == from_wire(observed(r.ops), ids)
  IN  /\ r.phase = "serving"
      /\ r.sent = {}
      /\ round' =
           [round EXCEPT ![l] =
              [phase |-> "answered", ops |-> local,
               sent |-> {i \in DOMAIN local : needs(obs, ids, local[i])},
               cut |-> FALSE]]
      /\ UNCHANGED <<log, torn, clock, pending, stamps, faults, spliced, lost>>

Done(l) ==
  /\ round[l].phase = "applying"
  /\ round[l].sent = {}
  /\ round' = [round EXCEPT ![l] = Idle]
  /\ UNCHANGED <<log, torn, clock, pending, stamps, faults, spliced, lost>>

\* The request or the answer is lost, or an end goes down.
Break(l) ==
  /\ round[l].phase # "idle"
  /\ Fault
  /\ round' = [round EXCEPT ![l] = Idle]
  /\ UNCHANGED <<log, torn, clock, pending, stamps, spliced, lost>>

Round(l) ==
  \/ Request(l)
  \/ Load(l, "asked", "serving", Server[l])
  \/ Merge(l, "serving", Server[l])
  \/ Answer(l)
  \/ Load(l, "answered", "applying", Client[l])
  \/ Merge(l, "applying", Client[l])
  \/ Done(l)

RoundFails(l) ==
  \/ MergeFails(l, "serving", Server[l])
  \/ MergeFails(l, "applying", Client[l])
  \/ Break(l)

-----------------------------------------------------------------------------
Init ==
  /\ log = [m \in Machine |-> <<>>]
  /\ torn = [m \in Machine |-> "newline"]
  /\ clock = [p \in Producer |-> VectorClock_new]
  /\ pending = [p \in Producer |-> NoOp]
  /\ round = [l \in Link |-> Idle]
  /\ stamps = 0
  /\ faults = 0
  /\ spliced = {}
  /\ lost = {}

Next ==
  \/ \E p \in Attributor, c \in Change : record(p, c) \/ record_echo(p, c)
  \/ \E p \in Governor : record_denial(p)
  \/ \E p \in Producer : append(p) \/ append_fails(p) \/ Restart(p)
  \/ \E l \in Link : Round(l) \/ RoundFails(l)

Spec == Init /\ [][Next]_vars

-----------------------------------------------------------------------------
(* Text convergence (merge.rs). *)

total(c) == MapThenSumSet(LAMBDA nd : c[nd], Node)

Above(o, q) == o.node > q.node \/ (o.node = q.node /\ o.n > q.n)

\* Mutant: the clock's magnitude decides alone.
Outranks_NoTie(o, q) == total(o.clock) > total(q.clock)

\* Mutant: the operation id decides alone.
Outranks_ById(o, q) == Above(o, q)

\* rank: the clock's magnitude, then the id.
Outranks(o, q) ==
  \/ total(o.clock) > total(q.clock)
  \/ total(o.clock) = total(q.clock) /\ Above(o, q)

Candidates(s, path) ==
  {i \in DOMAIN s : s[i].effect \in {c \in Change : c[1] = path}}

\* LastWriteWins::resolve_text: the first operation that no other outranks.
resolve_text(s, path) ==
  s[CHOOSE i \in Candidates(s, path) :
      \A j \in Candidates(s, path) :
        /\ ~ Outranks(s[j], s[i])
        /\ Outranks(s[i], s[j]) \/ i <= j]

materialize_text(s) ==
  [path \in {c[1] : c \in Change} |->
     IF Candidates(s, path) = {} THEN NoOp ELSE resolve_text(s, path)]

-----------------------------------------------------------------------------
(* Properties. *)

Ops(m) == {log[m][i] : i \in DOMAIN log[m]}
Durable == UNION {Ops(m) : m \in Machine}

\* What was in the log that a message was made from, and who merges it.
Carried(l) == {round[l].ops[i] : i \in DOMAIN round[l].ops}
Receiver(l) ==
  IF round[l].phase \in {"asked", "serving"} THEN Server[l] ELSE Client[l]

\* The nodes that one producer stamps for ("two nodes must never share one"),
\* as long as no operation of theirs had its line written on.
Sole == {nd \in Node : \A p, q \in Producer :
                         NodeId[p] = nd /\ NodeId[q] = nd => p = q}
Intact == Sole \ lost

\* q is in the history that o was stamped with, or is o.
Past(q, o) == q.n <= o.clock[q.node]

\* What an operation looks like: its id is its own component of its clock.
Stamped(o) == o.n = o.clock[o.node] /\ o.n > 0

\* The types of the variables.
TypeOK ==
  /\ log \in [Machine -> Seq(Op)]
  /\ torn \in [Machine -> FileEnd]
  /\ \A m \in Machine : torn[m] = "line" => log[m] # <<>>
  /\ clock \in [Producer -> VectorClock]
  /\ pending \in [Producer -> Op \cup {NoOp}]
  /\ stamps \in 0..MaxStamps
  /\ faults \in 0..MaxFaults
  /\ spliced \subseteq Op
  /\ lost \subseteq Node
  /\ round \in [Link -> [phase : Phase, ops : Seq(Op), sent : SUBSET Nat,
                         cut : BOOLEAN]]
  /\ \A l \in Link : round[l].sent \subseteq DOMAIN round[l].ops
  /\ \A o \in Durable : Stamped(o)

\* Two operations never share an id, on whatever machines they are ("A
\* globally-unique operation identifier"; a producer that re-derives its clock
\* from the log "never mints a colliding op_id").
UniqueIds == \A o, q \in Durable : op_id(o) = op_id(q) => o = q

\* A producer with a node id of its own never stamps an id twice, whatever
\* other producers, failed writes, restarts and broken rounds do ("restarts
\* never reuse op_ids").
OwnIdsUnique ==
  \A o, q \in Durable :
    op_id(o) = op_id(q) /\ o.node \in Intact => o = q

\* A machine that has an operation has its whole history: "a peer claiming
\* node#N provably carries every lower counter too".  It is what allows an
\* answer to leave out every operation the client's clock dominates.  Only an
\* operation that a machine spliced into an unfinished line may be missing.
CausallyClosed ==
  \A m \in Machine : \A o \in Ops(m) : \A q \in Durable :
    q.node \in Intact /\ Past(q, o) => q \in Ops(m) \cup spliced

\* Machines that carry the same changes of a file have the same head of it, in
\* whatever order and however often the changes reached them.
HeadsAgree ==
  \A m, k \in Machine : \A path \in {c[1] : c \in Change} :
    LET ids(x) == {op_id(log[x][i]) : i \in Candidates(log[x], path)}
    IN  ids(m) = ids(k) /\ (\A id \in ids(m) : id[1] \in Intact) =>
          materialize_text(log[m])[path] = materialize_text(log[k])[path]

\* The head of a file is never an operation that a later one knew of: last
\* write wins means the last write in the history.
HeadIsLatest ==
  \A m \in Machine : \A path \in {c[1] : c \in Change} :
    LET head == materialize_text(log[m])[path]
    IN  \A i \in Candidates(log[m], path) :
          head.node \in Intact /\ Past(head, log[m][i]) => log[m][i] = head

\* When the half of a round is merged and no write of it failed, the receiver
\* has all that the sender's log had when the message was made: the filter of
\* an answer leaves out nothing that the client lacks ("merge whatever the
\* peer returns").  Only an operation spliced into an unfinished line may stay
\* away.
RoundsDeliver ==
  \A l \in Link :
    /\ round[l].phase \in {"serving", "applying"}
    /\ round[l].sent = {}
    /\ ~ round[l].cut
    => \A o \in Carried(l) :
         o.node \in Intact => o \in Ops(Receiver(l)) \cup spliced
=============================================================================
