----------------------------- MODULE OpLogProofs -----------------------------
(***************************************************************************)
(* What replication keeps true for every number of machines, producers,    *)
(* links, operations and faults, producers that share NodeId::local()      *)
(* among them.  The theorems speak of the intact nodes: those one producer *)
(* stamps for and none of whose operations had its line written on.  What  *)
(* other producers do with a shared id cannot disturb them.                *)
(***************************************************************************)
EXTENDS OpLog, FiniteSetTheorems, WellFoundedInduction, TLAPS

-----------------------------------------------------------------------------
(* The inductive invariant. *)

\* The operations there are, in logs and in messages.
Present == Durable \cup UNION {Carried(l) : l \in Link}

\* q is an operation of an intact node that the clock counts.
Seen(q, c) == q.node \in Intact /\ q.n <= c[q.node]

Behind(c, d) == \A nd \in Node : c[nd] <= d[nd]

\* Some operation of the node is that far.
Backed(nd, k) == k = 0 \/ \E d \in Present : d.node = nd /\ k <= d.n

AllStamped == \A o \in Present : Stamped(o)

IdsUnique ==
  \A o, q \in Present : op_id(o) = op_id(q) /\ o.node \in Intact => o = q

\* A node's operations are in the log of its producer's machine.
FromHome ==
  \A p \in Producer : \A o \in Present :
    o.node = NodeId[p] /\ NodeId[p] \in Intact => o \in Ops(Home[p])

\* Whatever an operation counts of a node, the node has stamped.
HistoryBacked ==
  \A o \in Present : \A nd \in Intact : Backed(nd, o.clock[nd])

\* The history of an operation is behind it, and not it in theirs.
Follows(o, q) == Behind(q.clock, o.clock) /\ q.clock[o.node] < o.n
HistoryBehind ==
  \A o, q \in Present : Seen(q, o.clock) /\ q # o => Follows(o, q)

\* Every operation stands behind its history.
PrefixClosed ==
  \A m \in Machine : \A i \in DOMAIN log[m] : \A q \in Present :
    Seen(q, log[m][i].clock) =>
      q \in spliced \/ \E j \in DOMAIN log[m] : j <= i /\ log[m][j] = q

LogsOK ==
  /\ AllStamped
  /\ IdsUnique
  /\ FromHome
  /\ HistoryBacked
  /\ HistoryBehind
  /\ PrefixClosed

\* What a producer's clock counts of other nodes has been stamped, and is on
\* the producer's machine and behind the clock.
Sound(p, c) ==
  /\ \A nd \in Intact \ {NodeId[p]} : Backed(nd, c[nd])
  /\ \A q \in Present :
       Seen(q, c) /\ q.node # NodeId[p] =>
         q \in Ops(Home[p]) \cup spliced /\ Behind(q.clock, c)

ClocksSound == \A p \in Producer : Sound(p, clock[p])

\* A draft is sound, follows its history, and its counter is new.
Fresh(p, o) ==
  /\ o.node = NodeId[p]
  /\ Stamped(o)
  /\ Sound(p, o.clock)
  /\ \A q \in Present : Seen(q, o.clock) => Follows(o, q)
  /\ \A q \in Present : q.node = o.node /\ o.node \in Intact => q.n < o.n

PendingFresh == \A p \in Producer : pending[p] # NoOp => Fresh(p, pending[p])

\* The machine whose log a message is a copy of, and the one that merges it.
From(l, r) == IF r.phase \in {"asked", "serving"} THEN Client[l] ELSE Server[l]
To(l, r) == IF r.phase \in {"asked", "serving"} THEN Server[l] ELSE Client[l]

\* The history of a message is on the machine it comes from.
MessageClosed(l, r) ==
  \A i \in DOMAIN r.ops : \A q \in Present :
    Seen(q, r.ops[i].clock) => q \in Ops(From(l, r)) \cup spliced

\* What is left of a message is behind its history, or its history is there.
BatchClosed(l, r) ==
  \A i \in r.sent : \A q \in Present :
    Seen(q, r.ops[i].clock) =>
      \/ q \in Ops(To(l, r)) \cup spliced
      \/ \E j \in r.sent : j <= i /\ r.ops[j] = q

\* Whatever a message was made from, the receiver has, or it is still to come
\* with the message, or it was spliced, or a write failed.
Delivering(l, r) ==
  ~ r.cut => \A i \in DOMAIN r.ops :
               r.ops[i].node \in Intact =>
                 \/ r.ops[i] \in Ops(To(l, r)) \cup spliced
                 \/ \E j \in r.sent : r.ops[j] = r.ops[i]

RoundFits(l, r) ==
  /\ MessageClosed(l, r)
  /\ BatchClosed(l, r)
  /\ Delivering(l, r)

RoundsFit == \A l \in Link : RoundFits(l, round[l])

IInv ==
  /\ TypeOK
  /\ LogsOK
  /\ ClocksSound
  /\ PendingFresh
  /\ RoundsFit

-----------------------------------------------------------------------------
(* Maxima and minima of bounded sets of numbers. *)

\* A nonempty set of numbers has a least element.
LEMMA LeastElement ==
  ASSUME NEW S \in SUBSET Nat, S # {}
  PROVE  \E x \in S : \A y \in S : x <= y
<1> DEFINE R == OpToRel(<, Nat)
<1>1. IsWellFoundedOn(R, Nat)
  BY NatLessThanWellFounded
<1>2. \E x \in S : \A y \in S : ~ (<<y, x>> \in R)
  <2> HIDE DEF R
  <2> QED BY <1>1, WFMin
<1>3. PICK x \in S : \A y \in S : ~ (<<y, x>> \in R)
  BY <1>2
<1>4. \A y \in S : ~ (y < x)
  BY <1>3 DEF OpToRel
<1>5. x \in Nat /\ \A y \in S : y \in Nat
  OBVIOUS
<1> QED BY <1>4, <1>5

\* A nonempty bounded set of numbers has a greatest element, which is what
\* Max chooses.
LEMMA MaxIsGreatest ==
  ASSUME NEW N \in Nat, NEW S \in SUBSET (0..N), S # {}
  PROVE  Max(S) \in S /\ \A y \in S : y <= Max(S)
<1> DEFINE T == {N - x : x \in S}
<1>0. \A x \in S : x \in Nat /\ N - x \in Nat
  OBVIOUS
<1>1. T \in SUBSET Nat /\ T # {}
  <2>1. T \subseteq Nat
    BY <1>0
  <2>2. PICK x \in S : TRUE
    OBVIOUS
  <2>3. N - x \in T
    BY <2>2
  <2> QED BY <2>1, <2>3
<1>2. PICK t \in T : \A y \in T : t <= y
  <2> HIDE DEF T
  <2> QED BY <1>1, LeastElement
<1>3. PICK x \in S : t = N - x
  BY <1>2
<1>4. \A y \in S : N - x <= N - y
  BY <1>2, <1>3
<1>5. \A y \in S : x >= y
  BY <1>0, <1>4
<1>6. Max(S) \in S /\ \A y \in S : Max(S) >= y
  BY <1>5 DEF Max
<1>7. Max(S) \in Nat
  BY <1>0, <1>6
<1> QED BY <1>0, <1>6, <1>7

\* observed is the least upper bound of the clocks of a log.
LEMMA ObservedIsJoin ==
  ASSUME NEW s \in Seq(Op)
  PROVE  /\ observed(s) \in VectorClock
         /\ \A nd \in Node : \A i \in DOMAIN s :
              s[i].clock[nd] <= observed(s)[nd]
         /\ \A nd \in Node :
              \/ observed(s)[nd] = 0
              \/ \E i \in DOMAIN s : observed(s)[nd] = s[i].clock[nd]
<1>1. ASSUME NEW nd \in Node
      PROVE  /\ Entries(s, nd) \in SUBSET (0..MaxCounter)
             /\ Entries(s, nd) # {}
  <2>0. \A i \in DOMAIN s : s[i] \in Op
    OBVIOUS
  <2>1. \A i \in DOMAIN s : s[i].clock[nd] \in 0..MaxCounter
    BY <2>0 DEF Op, VectorClock, Counter
  <2>2. 0 \in 0..MaxCounter
    BY BoundAssumption
  <2> QED BY <2>1, <2>2 DEF Entries
<1>2. ASSUME NEW nd \in Node
      PROVE  /\ observed(s)[nd] \in Entries(s, nd)
             /\ \A k \in Entries(s, nd) : k <= observed(s)[nd]
  <2>1. observed(s)[nd] = Max(Entries(s, nd))
    BY DEF observed
  <2> QED BY <1>1, <2>1, MaxIsGreatest, BoundAssumption
<1>3. \A nd \in Node : observed(s)[nd] \in Counter
  BY <1>1, <1>2 DEF Counter
<1>4. observed(s) \in VectorClock
  BY <1>3 DEF observed, VectorClock
<1> QED BY <1>2, <1>4 DEF Entries

-----------------------------------------------------------------------------
(* The operations there are. *)

RoundRecord ==
  [phase : Phase, ops : Seq(Op), sent : SUBSET Nat, cut : BOOLEAN]

\* The parts of an operation.
LEMMA OpTypes ==
  ASSUME NEW o \in Op
  PROVE  /\ o.node \in Node
         /\ o.n \in Nat
         /\ o.clock \in VectorClock
         /\ \A nd \in Node : o.clock[nd] \in Nat
BY DEF Op, VectorClock, Counter

\* What is in a log or a message is present.
LEMMA PresentTypes ==
  ASSUME TypeOK
  PROVE  /\ \A m \in Machine : Ops(m) \subseteq Present
         /\ \A l \in Link : Carried(l) \subseteq Present
         /\ \A m \in Machine : \A i \in DOMAIN log[m] :
              log[m][i] \in Ops(m) /\ log[m][i] \in Op
         /\ \A l \in Link : \A i \in DOMAIN round[l].ops :
              round[l].ops[i] \in Present /\ round[l].ops[i] \in Op
         /\ Durable \subseteq Present
         /\ Present \subseteq Op
<1>1. \A m \in Machine : \A i \in DOMAIN log[m] : log[m][i] \in Op
  BY DEF TypeOK
<1>2. \A l \in Link : \A i \in DOMAIN round[l].ops : round[l].ops[i] \in Op
  BY DEF TypeOK
<1>3. Durable \subseteq Op
  BY <1>1 DEF Durable, Ops
<1>4. \A l \in Link : Carried(l) \subseteq Op
  BY <1>2 DEF Carried
<1>5. \A l \in Link : \A i \in DOMAIN round[l].ops :
        round[l].ops[i] \in Carried(l)
  BY DEF Carried
<1>6. \A m \in Machine : \A i \in DOMAIN log[m] : log[m][i] \in Ops(m)
  BY DEF Ops
<1>7. \A m \in Machine : Ops(m) \subseteq Durable
  BY DEF Durable
<1>8. Durable \subseteq Present /\ \A l \in Link : Carried(l) \subseteq Present
  BY DEF Present
<1>9. Present \subseteq Op
  BY <1>3, <1>4 DEF Present
<1> QED BY <1>1, <1>2, <1>5, <1>6, <1>7, <1>8, <1>9

\* A producer has a machine and a node.
LEMMA Homes ==
  ASSUME NEW p \in Producer
  PROVE  Home[p] \in Machine /\ NodeId[p] \in Node /\ NodeId[p] \in Nat
BY ProducerAssumption DEF Node

\* An intact node has one producer.
LEMMA IntactNode ==
  ASSUME NEW nd \in Intact
  PROVE  /\ nd \in Node
         /\ \E p \in Producer : nd = NodeId[p]
         /\ \A p, q \in Producer : NodeId[p] = nd /\ NodeId[q] = nd => p = q
BY DEF Intact, Sole, Node

-----------------------------------------------------------------------------
(* What a step does to the logs. *)

\* The logs grow, and by nothing but operations of S on machine m.  What a
\* log loses is of a node that is then no longer intact.
Moves(m, S) ==
  /\ lost \subseteq lost'
  /\ spliced \subseteq spliced'
  /\ \A k \in Machine : \A i \in DOMAIN log[k] :
       \/ i \in DOMAIN log'[k] /\ log'[k][i] = log[k][i]
       \/ log[k][i].node \in lost'
  /\ \A k \in Machine : \A i \in DOMAIN log'[k] :
       \/ i \in DOMAIN log[k] /\ log'[k][i] = log[k][i]
       \/ /\ k = m
          /\ log'[k][i] \in S
          /\ \A j \in DOMAIN log'[k] : j <= i

\* What the file of a machine keeps when something is written behind its end.
LEMMA KeptPrefix ==
  ASSUME TypeOK, NEW m \in Machine
  PROVE  /\ Kept(m) \in Seq(Op)
         /\ Overwritten(m) \subseteq Node
         /\ \A i \in DOMAIN Kept(m) : i \in DOMAIN log[m]
                                      /\ Kept(m)[i] = log[m][i]
         /\ \A i \in DOMAIN log[m] : \/ i \in DOMAIN Kept(m)
                                     \/ log[m][i].node \in Overwritten(m)
<1>1. PICK s : s = log[m]
  OBVIOUS
<1>2. /\ s \in Seq(Op) /\ Len(s) \in Nat
      /\ torn[m] = "line" => s # <<>>
      /\ DOMAIN s = 1..Len(s)
      /\ \A i \in DOMAIN s : s[i] \in Op /\ s[i].node \in Node
  BY <1>1, OpTypes DEF TypeOK
<1>3. CASE torn[m] = "line"
  <2>1. /\ Kept(m) = SubSeq(s, 1, Len(s) - 1)
        /\ Overwritten(m) = {s[Len(s)].node}
    BY <1>1, <1>3 DEF Kept, Overwritten
  <2>2. Len(s) \in DOMAIN s
    BY <1>2, <1>3
  <2>3. /\ SubSeq(s, 1, Len(s) - 1) \in Seq(Op)
        /\ DOMAIN SubSeq(s, 1, Len(s) - 1) = 1..(Len(s) - 1)
        /\ \A i \in 1..(Len(s) - 1) : SubSeq(s, 1, Len(s) - 1)[i] = s[i]
    BY <1>2, <2>2
  <2>4. \A i \in DOMAIN s : i \in 1..(Len(s) - 1) \/ i = Len(s)
    BY <1>2
  <2>5. \A i \in 1..(Len(s) - 1) : i \in DOMAIN s
    BY <1>2
  <2> QED BY <1>1, <1>2, <2>1, <2>2, <2>3, <2>4, <2>5
<1>4. CASE torn[m] # "line"
  BY <1>1, <1>2, <1>4 DEF Kept, Overwritten
<1> QED BY <1>3, <1>4

\* Write and WriteFails.
LEMMA WriteMoves ==
  ASSUME TypeOK, NEW m \in Machine, NEW o \in Op,
         Write(m, o) \/ WriteFails(m, o)
  PROVE  /\ Moves(m, {o})
         /\ log' \in [Machine -> Seq(Op)]
         /\ torn' \in [Machine -> FileEnd]
         /\ \A k \in Machine : torn'[k] = "line" => log'[k] # <<>>
         /\ spliced' \subseteq Op
         /\ lost' \subseteq Node
         /\ Write(m, o) => o \in Ops(m)' \cup spliced'
<1>0. /\ log \in [Machine -> Seq(Op)]
      /\ torn \in [Machine -> FileEnd]
      /\ \A k \in Machine : torn[k] = "line" => log[k] # <<>>
      /\ spliced \subseteq Op /\ lost \subseteq Node
  BY DEF TypeOK
<1>1. ASSUME UNCHANGED <<log, torn, spliced, lost>>
      PROVE  /\ Moves(m, {o})
             /\ log' \in [Machine -> Seq(Op)]
             /\ torn' \in [Machine -> FileEnd]
             /\ \A k \in Machine : torn'[k] = "line" => log'[k] # <<>>
             /\ spliced' \subseteq Op
             /\ lost' \subseteq Node
  BY <1>0, <1>1 DEF Moves
<1>2. ASSUME log' = [log EXCEPT ![m] = Kept(m)],
             lost' = lost \cup Overwritten(m),
             spliced' \in {spliced, spliced \cup {o}},
             torn' \in {[torn EXCEPT ![m] = "half"],
                        [torn EXCEPT ![m] = "newline"]}
      PROVE  /\ Moves(m, {o})
             /\ log' \in [Machine -> Seq(Op)]
             /\ torn' \in [Machine -> FileEnd]
             /\ \A k \in Machine : torn'[k] = "line" => log'[k] # <<>>
             /\ spliced' \subseteq Op
             /\ lost' \subseteq Node
  <2>1. /\ Kept(m) \in Seq(Op)
        /\ Overwritten(m) \subseteq Node
        /\ \A i \in DOMAIN Kept(m) : i \in DOMAIN log[m]
                                     /\ Kept(m)[i] = log[m][i]
        /\ \A i \in DOMAIN log[m] : \/ i \in DOMAIN Kept(m)
                                    \/ log[m][i].node \in Overwritten(m)
    BY KeptPrefix
  <2>2. \A k \in Machine : log'[k] = IF k = m THEN Kept(m) ELSE log[k]
    BY <1>0, <1>2
  <2>3. \A k \in Machine : torn'[k] = "line" => k # m /\ torn[k] = "line"
    BY <1>0, <1>2
  <2>4. log' \in [Machine -> Seq(Op)] /\ torn' \in [Machine -> FileEnd]
    BY <1>0, <1>2, <2>1 DEF FileEnd
  <2>5. Moves(m, {o})
    BY <1>2, <2>1, <2>2 DEF Moves
  <2> QED BY <1>0, <1>2, <2>1, <2>2, <2>3, <2>4, <2>5
<1>3. ASSUME log' = [log EXCEPT ![m] = Append(@, o)],
             UNCHANGED <<spliced, lost>>,
             torn' \in {[torn EXCEPT ![m] = "line"],
                        [torn EXCEPT ![m] = "newline"]}
      PROVE  /\ Moves(m, {o})
             /\ log' \in [Machine -> Seq(Op)]
             /\ torn' \in [Machine -> FileEnd]
             /\ \A k \in Machine : torn'[k] = "line" => log'[k] # <<>>
             /\ spliced' \subseteq Op
             /\ lost' \subseteq Node
             /\ o \in Ops(m)'
  <2>1. /\ DOMAIN log'[m] = 1..(Len(log[m]) + 1)
        /\ DOMAIN log[m] = 1..Len(log[m])
        /\ Len(log[m]) \in Nat
        /\ log'[m][Len(log[m]) + 1] = o
        /\ \A i \in DOMAIN log[m] : log'[m][i] = log[m][i]
    BY <1>0, <1>3
  <2>2. \A k \in Machine : k # m => log'[k] = log[k]
    BY <1>0, <1>3
  <2>3. \A k \in Machine : torn'[k] = "line" => k = m \/ torn[k] = "line"
    BY <1>0, <1>3
  <2>4. log' \in [Machine -> Seq(Op)] /\ torn' \in [Machine -> FileEnd]
    BY <1>0, <1>3 DEF FileEnd
  <2>5. Len(log[m]) + 1 \in DOMAIN log'[m] /\ log'[m] # <<>>
    BY <2>1
  <2>6. o \in Ops(m)'
    BY <2>1, <2>5 DEF Ops
  <2>7. \A i \in DOMAIN log'[m] :
          \/ i \in DOMAIN log[m]
          \/ i = Len(log[m]) + 1 /\ \A j \in DOMAIN log'[m] : j <= i
    BY <2>1
  <2>8. \A i \in DOMAIN log[m] : i \in DOMAIN log'[m]
    BY <2>1
  <2>9. Moves(m, {o})
    BY <1>3, <2>1, <2>2, <2>7, <2>8 DEF Moves
  <2> QED BY <1>0, <1>3, <2>2, <2>3, <2>4, <2>5, <2>6, <2>9
<1>4. CASE Write(m, o)
  <2>1. CASE torn[m] = "newline"
    <3>1. Overwritten(m) = {}
      BY <2>1 DEF Overwritten
    <3> QED BY <1>3, <1>4, <2>1, <3>1 DEF Write
  <2>2. CASE torn[m] # "newline"
    <3>1. o \in spliced'
      BY <1>4, <2>2 DEF Write
    <3> QED BY <1>2, <1>4, <2>2, <3>1 DEF Write
  <2> QED BY <2>1, <2>2
<1>5. CASE WriteFails(m, o) /\ ~ Write(m, o)
  BY <1>1, <1>2, <1>3, <1>5 DEF WriteFails
<1> QED BY <1>4, <1>5

\* A step that leaves the logs alone.
LEMMA StillMoves ==
  ASSUME UNCHANGED <<log, spliced, lost>>, NEW m, NEW S
  PROVE  Moves(m, S)
BY DEF Moves

-----------------------------------------------------------------------------
(* A step that adds operations to the log of one machine. *)

\* A new operation is ahead of all there are, and on its node's machine.
New(m, o) ==
  o.node \in Intact =>
    /\ \A q \in Present : q.clock[o.node] < o.n
    /\ \A p \in Producer : NodeId[p] = o.node => Home[p] = m

\* The operation may be added to the log of the machine: its history is there
\* and behind it, and it is one there is or a new one.
Joins(m, o) ==
  /\ o \in Op
  /\ Stamped(o)
  /\ \A nd \in Intact \ {o.node} : Backed(nd, o.clock[nd])
  /\ \A q \in Present : Seen(q, o.clock) /\ q # o =>
                          Follows(o, q) /\ q \in Ops(m) \cup spliced
  /\ o \in Present \/ New(m, o)

Step(m, S) ==
  /\ Moves(m, S)
  /\ \A o \in S : Joins(m, o)
  /\ \A o, q \in S : o = q
  /\ \A l \in Link : Carried(l)' \subseteq Present

\* What stays, and what is new, after such a step.
LEMMA StepFacts ==
  ASSUME IInv, NEW m \in Machine, NEW S, Step(m, S)
  PROVE  /\ Intact' \subseteq Intact
         /\ spliced \subseteq spliced'
         /\ \A q \in Present' : q \in Present
                                \/ (q \in S /\ q \in Ops(m)' /\ New(m, q))
         /\ \A k \in Machine : \A q \in Ops(k) :
              q.node \in Intact' => q \in Ops(k)'
         /\ \A q \in Present : q.node \in Intact' => q \in Present'
         /\ \A nd \in Intact' : \A x : Backed(nd, x) => Backed(nd, x)'
<1>1. Intact' \subseteq Intact /\ spliced \subseteq spliced'
  BY DEF Step, Moves, Intact
<1>2. ASSUME NEW k \in Machine, NEW q \in Ops(k), q.node \in Intact'
      PROVE  q \in Ops(k)'
  <2>1. PICK i \in DOMAIN log[k] : q = log[k][i]
    BY DEF Ops
  <2>2. log[k][i].node \notin lost'
    BY <1>2, <2>1 DEF Intact
  <2>3. i \in DOMAIN log'[k] /\ log'[k][i] = log[k][i]
    BY <2>2 DEF Step, Moves
  <2> QED BY <2>1, <2>3 DEF Ops
<1>3. ASSUME NEW q \in Durable'
      PROVE  q \in Present \/ (q \in S /\ q \in Ops(m)')
  <2>1. PICK k \in Machine : q \in Ops(k)'
    BY DEF Durable
  <2>2. PICK i \in DOMAIN log'[k] : q = log'[k][i]
    BY <2>1 DEF Ops
  <2>3. CASE i \in DOMAIN log[k] /\ log'[k][i] = log[k][i]
    <3>1. log[k][i] \in Present
      BY <2>3, PresentTypes DEF IInv
    <3> QED BY <2>2, <2>3, <3>1
  <2>4. CASE k = m /\ log'[k][i] \in S
    BY <2>1, <2>2, <2>4
  <2> QED BY <2>3, <2>4 DEF Step, Moves
<1>4. ASSUME NEW q \in Present'
      PROVE  q \in Present \/ (q \in S /\ q \in Ops(m)' /\ New(m, q))
  <2>1. q \in Durable' \/ \E l \in Link : q \in Carried(l)'
    BY DEF Present
  <2>2. CASE q \in Durable'
    <3>1. \A o \in S : o \in Present \/ New(m, o)
      BY DEF Step, Joins
    <3> QED BY <1>3, <2>2, <3>1
  <2>3. CASE \E l \in Link : q \in Carried(l)'
    <3>1. \A l \in Link : Carried(l)' \subseteq Present
      BY DEF Step
    <3> QED BY <2>3, <3>1
  <2> QED BY <2>1, <2>2, <2>3
<1>5. ASSUME NEW q \in Present, q.node \in Intact'
      PROVE  q \in Present'
  <2>0. q.node \in Intact
    BY <1>1, <1>5
  <2>1. PICK p \in Producer : q.node = NodeId[p]
    BY <2>0, IntactNode
  <2>2. q \in Ops(Home[p]) /\ Home[p] \in Machine
    BY <2>0, <2>1, Homes DEF IInv, LogsOK, FromHome
  <2>3. q \in Ops(Home[p])'
    BY <1>2, <1>5, <2>2
  <2> QED BY <2>2, <2>3 DEF Present, Durable
<1>6. ASSUME NEW nd \in Intact', NEW x, Backed(nd, x)
      PROVE  Backed(nd, x)'
  <2>1. CASE x = 0
    BY <2>1 DEF Backed
  <2>2. CASE \E d \in Present : d.node = nd /\ x <= d.n
    BY <1>5, <2>2 DEF Backed
  <2> QED BY <1>6, <2>1, <2>2 DEF Backed
<1> QED BY <1>1, <1>2, <1>4, <1>5, <1>6

\* Nothing that the operations there are count reaches a new one.
LEMMA NewIsAhead ==
  ASSUME IInv, NEW m \in Machine, NEW o, Joins(m, o), New(m, o),
         o.node \in Intact, NEW x \in Nat, Backed(o.node, x)
  PROVE  ~ o.n <= x
<1>0. o \in Op /\ o.node \in Node /\ o.n \in Nat /\ o.n > 0
  BY OpTypes DEF Joins, Stamped
<1>1. CASE x = 0
  BY <1>0, <1>1
<1>2. CASE \E d \in Present : d.node = o.node /\ x <= d.n
  <2>1. PICK d \in Present : d.node = o.node /\ x <= d.n
    BY <1>2
  <2>2. d \in Op /\ Stamped(d)
    BY PresentTypes DEF IInv, LogsOK, AllStamped
  <2>3. d.n < o.n /\ d.n \in Nat
    BY <2>1, <2>2, OpTypes DEF New, Stamped
  <2> QED BY <1>0, <2>1, <2>3
<1> QED BY <1>1, <1>2 DEF Backed

\* The logs stay as they must be.
LEMMA LogsKept ==
  ASSUME IInv, NEW m \in Machine, NEW S, Step(m, S)
  PROVE  LogsOK'
<1>0. /\ Intact' \subseteq Intact
      /\ spliced \subseteq spliced'
      /\ \A q \in Present' : q \in Present
                             \/ (q \in S /\ q \in Ops(m)' /\ New(m, q))
      /\ \A k \in Machine : \A q \in Ops(k) :
           q.node \in Intact' => q \in Ops(k)'
      /\ \A nd \in Intact' : \A x : Backed(nd, x) => Backed(nd, x)'
  BY StepFacts
<1>1. /\ AllStamped /\ IdsUnique /\ FromHome /\ HistoryBacked
      /\ HistoryBehind /\ PrefixClosed
  BY DEF IInv, LogsOK
<1>2. /\ \A o \in S : Joins(m, o)
      /\ \A o, q \in S : o = q
  BY DEF Step
<1>t. /\ \A q \in Present : q \in Op
      /\ \A q \in Present' : q \in Op
      /\ \A q \in Op : /\ q.node \in Node
                       /\ q.n \in Nat
                       /\ \A nd \in Node : q.clock[nd] \in Nat
  <2>1. \A q \in Present : q \in Op
    BY PresentTypes DEF IInv
  <2>2. \A q \in S : q \in Op
    BY <1>2 DEF Joins
  <2> QED BY <1>0, <2>1, <2>2, OpTypes
<1>3. AllStamped'
  <2>1. \A q \in Present' : Stamped(q)
    BY <1>0, <1>1, <1>2 DEF AllStamped, Joins
  <2> QED BY <2>1 DEF AllStamped, Stamped
<1>n. ASSUME NEW o \in Present, NEW q \in S, New(m, q), q.node \in Intact'
      PROVE  ~ q.n <= o.clock[q.node]
  <2>1. o.clock[q.node] < q.n
    BY <1>0, <1>n DEF New
  <2>2. q.n \in Nat /\ o.clock[q.node] \in Nat
    BY <1>2, <1>t DEF Joins
  <2> QED BY <2>1, <2>2
<1>4. IdsUnique'
  <2> SUFFICES ASSUME NEW o \in Present', NEW q \in Present',
                      op_id(o) = op_id(q), o.node \in Intact'
               PROVE  o = q
    BY DEF IdsUnique, op_id
  <2>1. /\ o.node = q.node /\ o.n = q.n
        /\ o.n = o.clock[o.node] /\ q.n = q.clock[q.node]
        /\ o.n \in Nat
    BY <1>0, <1>1, <1>2, <1>t DEF op_id, AllStamped, Joins, Stamped
  <2>2. CASE o \in Present /\ q \in Present
    BY <1>0, <1>1, <2>2 DEF IdsUnique
  <2>3. CASE o \in Present /\ q \in S /\ New(m, q)
    <3>1. ~ q.n <= o.clock[q.node]
      BY <1>n, <2>1, <2>3
    <3> QED BY <2>1, <3>1
  <2>4. CASE q \in Present /\ o \in S /\ New(m, o)
    <3>1. ~ o.n <= q.clock[o.node]
      BY <1>n, <2>1, <2>4
    <3>2. q.clock[o.node] = o.n
      BY <2>1
    <3> QED BY <2>1, <3>1, <3>2
  <2>5. CASE o \in S /\ q \in S
    BY <1>2, <2>5
  <2> QED BY <1>0, <2>2, <2>3, <2>4, <2>5
<1>5. FromHome'
  <2> SUFFICES ASSUME NEW p \in Producer, NEW o \in Present',
                      o.node = NodeId[p], NodeId[p] \in Intact'
               PROVE  o \in Ops(Home[p])'
    BY DEF FromHome
  <2>1. CASE o \in Present
    BY <1>0, <1>1, <2>1, Homes DEF FromHome
  <2>2. CASE o \in S /\ o \in Ops(m)' /\ New(m, o)
    BY <1>0, <2>2 DEF New
  <2> QED BY <1>0, <2>1, <2>2
<1>6. HistoryBacked'
  <2> SUFFICES ASSUME NEW o \in Present', NEW nd \in Intact'
               PROVE  Backed(nd, o.clock[nd])'
    BY DEF HistoryBacked
  <2>1. PICK x : x = o.clock[nd]
    OBVIOUS
  <2>2. CASE o \in Present \/ nd # o.node
    <3>1. Backed(nd, x)
      BY <1>0, <1>1, <1>2, <2>1, <2>2 DEF HistoryBacked, Joins
    <3>2. Backed(nd, x)'
      BY <1>0, <3>1
    <3> QED BY <2>1, <3>2 DEF Backed
  <2>3. CASE nd = o.node
    <3>1. x = o.n /\ o.n \in Nat
      BY <1>3, <1>t, <2>1, <2>3 DEF AllStamped, Stamped
    <3> QED BY <2>1, <2>3, <3>1 DEF Backed
  <2> QED BY <2>2, <2>3
<1>7. HistoryBehind'
  <2> SUFFICES ASSUME NEW o \in Present', NEW q \in Present',
                      Seen(q, o.clock)', q # o
               PROVE  Follows(o, q)
    BY DEF HistoryBehind, Follows, Behind
  <2>1. q.node \in Intact' /\ q.n <= o.clock[q.node] /\ Seen(q, o.clock)
    BY <1>0 DEF Seen
  <2>2. CASE o \in Present /\ q \in Present
    BY <1>1, <2>1, <2>2 DEF HistoryBehind
  <2>3. CASE o \in S /\ q \in Present
    BY <1>2, <2>1, <2>3 DEF Joins
  <2>4. CASE o \in Present /\ q \in S /\ New(m, q)
    BY <1>n, <2>1, <2>4
  <2>5. CASE o \in S /\ q \in S
    BY <1>2, <2>5
  <2> QED BY <1>0, <2>2, <2>3, <2>4, <2>5
<1>8. PrefixClosed'
  <2> SUFFICES ASSUME NEW k \in Machine, NEW i \in DOMAIN log'[k],
                      NEW q \in Present', Seen(q, log[k][i].clock)',
                      q \notin spliced'
               PROVE  \E j \in DOMAIN log'[k] : j <= i /\ log'[k][j] = q
    BY DEF PrefixClosed
  <2>0. PICK o : o = log'[k][i]
    OBVIOUS
  <2>1. /\ q.node \in Intact' /\ q.n <= o.clock[q.node]
        /\ Seen(q, o.clock) /\ q \notin spliced
    BY <1>0, <2>0 DEF Seen
  <2>2. ASSUME NEW j \in DOMAIN log[k], log[k][j] = q
        PROVE  j \in DOMAIN log'[k] /\ log'[k][j] = q
    <3>1. log[k][j].node \notin lost'
      BY <2>1, <2>2 DEF Intact
    <3> QED BY <2>2, <3>1 DEF Step, Moves
  <2>3. CASE i \in DOMAIN log[k] /\ log'[k][i] = log[k][i]
    <3>1. o \in Present
      BY <2>0, <2>3, PresentTypes DEF IInv
    <3>2. q \in Present
      BY <1>0, <1>n, <2>1, <3>1
    <3>3. PICK j \in DOMAIN log[k] : j <= i /\ log[k][j] = q
      BY <1>1, <2>0, <2>1, <2>3, <3>2 DEF PrefixClosed
    <3> QED BY <2>2, <3>3
  <2>4. CASE k = m /\ o \in S /\ \A j \in DOMAIN log'[k] : j <= i
    <3>1. CASE q = o
      BY <2>0, <2>4, <3>1
    <3>2. CASE q # o /\ q \in Present
      <4>1. q \in Ops(m)
        BY <1>2, <2>1, <2>4, <3>2 DEF Joins
      <4>2. PICK j \in DOMAIN log[k] : log[k][j] = q
        BY <2>4, <4>1 DEF Ops
      <4> QED BY <2>2, <2>4, <4>2
    <3>3. CASE q \in S
      BY <1>2, <2>4, <3>1, <3>3
    <3> QED BY <1>0, <3>1, <3>2, <3>3
  <2> QED BY <2>0, <2>3, <2>4 DEF Step, Moves
<1> QED BY <1>3, <1>4, <1>5, <1>6, <1>7, <1>8 DEF LogsOK

\* A sound clock stays sound.
LEMMA SoundKept ==
  ASSUME IInv, NEW m \in Machine, NEW S, Step(m, S),
         NEW p \in Producer, NEW c \in VectorClock, Sound(p, c)
  PROVE  Sound(p, c)'
<1>0. /\ Intact' \subseteq Intact
      /\ spliced \subseteq spliced'
      /\ \A q \in Present' : q \in Present
                             \/ (q \in S /\ q \in Ops(m)' /\ New(m, q))
      /\ \A k \in Machine : \A q \in Ops(k) :
           q.node \in Intact' => q \in Ops(k)'
      /\ \A nd \in Intact' : \A x : Backed(nd, x) => Backed(nd, x)'
  BY StepFacts
<1>1. /\ \A nd \in Intact \ {NodeId[p]} : Backed(nd, c[nd])
      /\ \A q \in Present :
           Seen(q, c) /\ q.node # NodeId[p] =>
             q \in Ops(Home[p]) \cup spliced /\ Behind(q.clock, c)
  BY DEF Sound
<1>2. ASSUME NEW q \in Present', q.node \in Intact', q.n <= c[q.node],
             q.node # NodeId[p]
      PROVE  /\ q \in Present
             /\ q \in Ops(Home[p])' \cup spliced'
             /\ Behind(q.clock, c)
  <2>0. q.node \in Intact /\ q.node \in Node
    BY <1>0, <1>2, IntactNode
  <2>1. q \in Present
    <3>1. SUFFICES ASSUME q \in S, New(m, q)
                   PROVE  FALSE
      BY <1>0
    <3>2. Joins(m, q) /\ c[q.node] \in Nat
      BY <2>0, <3>1 DEF Step, VectorClock, Counter
    <3>3. Backed(q.node, c[q.node])
      BY <1>1, <1>2, <2>0
    <3> QED BY <1>2, <2>0, <3>1, <3>2, <3>3, NewIsAhead
  <2>2. Seen(q, c)
    BY <1>2, <2>0 DEF Seen
  <2>3. q \in Ops(Home[p]) \cup spliced /\ Behind(q.clock, c)
    BY <1>1, <1>2, <2>1, <2>2
  <2> QED BY <1>0, <1>2, <2>1, <2>3, Homes
<1>3. \A nd \in Intact' \ {NodeId[p]} : Backed(nd, c[nd])'
  BY <1>0, <1>1
<1>4. \A q \in Present' :
        (q.node \in Intact' /\ q.n <= c[q.node]) /\ q.node # NodeId[p] =>
          q \in Ops(Home[p])' \cup spliced' /\ Behind(q.clock, c)
  BY <1>2
<1> QED BY <1>3, <1>4 DEF Sound, Seen, Behind

\* A draft stays fresh, unless what is new is of its node.
LEMMA FreshKept ==
  ASSUME IInv, NEW m \in Machine, NEW S, Step(m, S),
         NEW p \in Producer, NEW o \in Op, Fresh(p, o),
         \A q \in S : q \in Present \/ q.node \notin Intact \/ q.node # o.node
  PROVE  Fresh(p, o)'
<1>0. /\ Intact' \subseteq Intact
      /\ \A q \in Present' : q \in Present
                             \/ (q \in S /\ q \in Ops(m)' /\ New(m, q))
  BY StepFacts
<1>1. /\ o.node = NodeId[p]
      /\ Stamped(o)
      /\ Sound(p, o.clock)
      /\ \A q \in Present : Seen(q, o.clock) => Follows(o, q)
      /\ \A q \in Present : q.node = o.node /\ o.node \in Intact => q.n < o.n
  BY DEF Fresh
<1>2. Sound(p, o.clock)'
  <2>1. PICK c : c = o.clock
    OBVIOUS
  <2>2. c \in VectorClock /\ Sound(p, c)
    BY <1>1, <2>1, OpTypes
  <2>3. Sound(p, c)'
    BY <2>2, SoundKept
  <2> QED BY <2>1, <2>3
<1>3. ASSUME NEW q \in Present', q.node \in Intact',
             q.n <= o.clock[q.node] \/ q.node = o.node
      PROVE  q \in Present
  <2>0. q.node \in Intact /\ q.node \in Node
    BY <1>0, <1>3, IntactNode
  <2>1. SUFFICES ASSUME q \in S, q \notin Present, New(m, q)
                 PROVE  FALSE
    BY <1>0
  <2>2. q.node # o.node
    BY <2>0, <2>1
  <2>3. Joins(m, q) /\ o.clock[q.node] \in Nat
    BY <2>0, <2>1, OpTypes DEF Step
  <2>4. Backed(q.node, o.clock[q.node])
    BY <1>1, <2>0, <2>2 DEF Sound
  <2> QED BY <1>3, <2>0, <2>1, <2>2, <2>3, <2>4, NewIsAhead
<1>4. \A q \in Present' :
        q.node \in Intact' /\ q.n <= o.clock[q.node] => Follows(o, q)
  BY <1>0, <1>1, <1>3 DEF Seen
<1>5. \A q \in Present' : q.node = o.node /\ o.node \in Intact' => q.n < o.n
  BY <1>0, <1>1, <1>3
<1> QED
  BY <1>1, <1>2, <1>4, <1>5 DEF Fresh, Seen, Follows, Behind, Stamped

\* A message of operations there are stays fit.
LEMMA RoundKept ==
  ASSUME IInv, NEW m \in Machine, NEW S, Step(m, S),
         NEW l \in Link, NEW r, RoundFits(l, r),
         \A i \in DOMAIN r.ops : r.ops[i] \in Present,
         r.sent \subseteq DOMAIN r.ops
  PROVE  RoundFits(l, r)'
<1>0. /\ Intact' \subseteq Intact
      /\ spliced \subseteq spliced'
      /\ \A q \in Present' : q \in Present
                             \/ (q \in S /\ q \in Ops(m)' /\ New(m, q))
      /\ \A k \in Machine : \A q \in Ops(k) :
           q.node \in Intact' => q \in Ops(k)'
  BY StepFacts
<1>1. /\ From(l, r) \in Machine /\ To(l, r) \in Machine
      /\ From(l, r)' = From(l, r) /\ To(l, r)' = To(l, r)
  BY LinkAssumption DEF From, To
<1>2. ASSUME NEW i \in DOMAIN r.ops, NEW q \in Present',
             Seen(q, r.ops[i].clock)'
      PROVE  /\ q \in Present
             /\ Seen(q, r.ops[i].clock)
             /\ q.node \in Intact'
  <2>0. /\ q.node \in Intact' /\ q.node \in Intact
        /\ q.n <= r.ops[i].clock[q.node]
    BY <1>0, <1>2 DEF Seen
  <2>1. q \in Present
    <3>1. SUFFICES ASSUME q \in S, New(m, q)
                   PROVE  FALSE
      BY <1>0
    <3>2. r.ops[i].clock[q.node] < q.n
      BY <2>0, <3>1 DEF New
    <3>3. q \in Op /\ r.ops[i] \in Op
      BY <3>1, PresentTypes DEF IInv, Step, Joins
    <3>4. q.n \in Nat /\ r.ops[i].clock[q.node] \in Nat
      BY <3>3, OpTypes
    <3> QED BY <2>0, <3>2, <3>4
  <2> QED BY <2>0, <2>1 DEF Seen
<1>3. \A k \in Machine : \A q : q.node \in Intact' /\ q \in Ops(k) \cup spliced
                                  => q \in Ops(k)' \cup spliced'
  BY <1>0
<1>4. MessageClosed(l, r)'
  <2> SUFFICES ASSUME NEW i \in DOMAIN r.ops, NEW q \in Present',
                      Seen(q, r.ops[i].clock)'
               PROVE  q \in Ops(From(l, r))' \cup spliced'
    BY <1>1 DEF MessageClosed
  <2>1. /\ q \in Present
        /\ Seen(q, r.ops[i].clock)
        /\ q.node \in Intact'
    BY <1>2
  <2>2. q \in Ops(From(l, r)) \cup spliced
    BY <2>1 DEF RoundFits, MessageClosed
  <2> QED BY <1>1, <1>3, <2>1, <2>2
<1>5. BatchClosed(l, r)'
  <2> SUFFICES ASSUME NEW i \in r.sent, NEW q \in Present',
                      Seen(q, r.ops[i].clock)'
               PROVE  \/ q \in Ops(To(l, r))' \cup spliced'
                      \/ \E j \in r.sent : j <= i /\ r.ops[j] = q
    BY <1>1 DEF BatchClosed
  <2>1. /\ q \in Present
        /\ Seen(q, r.ops[i].clock)
        /\ q.node \in Intact'
    BY <1>2
  <2>2. \/ q \in Ops(To(l, r)) \cup spliced
        \/ \E j \in r.sent : j <= i /\ r.ops[j] = q
    BY <2>1 DEF RoundFits, BatchClosed
  <2> QED BY <1>1, <1>3, <2>1, <2>2
<1>6. Delivering(l, r)'
  <2> SUFFICES ASSUME ~ r.cut, NEW i \in DOMAIN r.ops,
                      r.ops[i].node \in Intact'
               PROVE  \/ r.ops[i] \in Ops(To(l, r))' \cup spliced'
                      \/ \E j \in r.sent : r.ops[j] = r.ops[i]
    BY <1>1 DEF Delivering
  <2>1. \/ r.ops[i] \in Ops(To(l, r)) \cup spliced
        \/ \E j \in r.sent : r.ops[j] = r.ops[i]
    BY <1>0 DEF RoundFits, Delivering
  <2> QED BY <1>1, <1>3, <2>1
<1> QED BY <1>4, <1>5, <1>6 DEF RoundFits

\* TypeOK, but for what the operations look like.
Typed ==
  /\ log \in [Machine -> Seq(Op)]
  /\ torn \in [Machine -> FileEnd]
  /\ \A m \in Machine : torn[m] = "line" => log[m] # <<>>
  /\ clock \in [Producer -> VectorClock]
  /\ pending \in [Producer -> Op \cup {NoOp}]
  /\ stamps \in 0..MaxStamps
  /\ faults \in 0..MaxFaults
  /\ spliced \subseteq Op
  /\ lost \subseteq Node
  /\ round \in [Link -> RoundRecord]
  /\ \A l \in Link : round[l].sent \subseteq DOMAIN round[l].ops

\* TypeOK is that and what operations look like.
LEMMA TypedParts == TypeOK <=> Typed /\ \A o \in Durable : Stamped(o)
BY DEF TypeOK, Typed, RoundRecord

\* What a step has to show to keep the invariant.
LEMMA StepKeeps ==
  ASSUME IInv, NEW m \in Machine, NEW S, Step(m, S), Typed',
         \A p \in Producer : Sound(p, clock'[p]),
         \A p \in Producer : pending'[p] # NoOp =>
           /\ Fresh(p, pending'[p])
           /\ \A q \in S : \/ q \in Present
                           \/ q.node \notin Intact
                           \/ q.node # pending'[p].node,
         \A l \in Link : \/ RoundFits(l, round'[l])
                         \/ RoundFits(l, round[l])'
  PROVE  IInv'
<1>1. LogsOK'
  BY LogsKept
<1>2. TypeOK'
  <2>1. \A o \in Durable' : Stamped(o)'
    BY <1>1 DEF LogsOK, AllStamped, Present
  <2>2. (\A o \in Durable : Stamped(o))'
    BY <2>1
  <2> QED BY <2>2, TypedParts, PTL
<1>3. ClocksSound'
  <2> SUFFICES ASSUME NEW p \in Producer
               PROVE  Sound(p, clock[p])'
    BY DEF ClocksSound
  <2>1. PICK c : c = clock'[p]
    OBVIOUS
  <2>2. c \in VectorClock
    BY <2>1 DEF Typed
  <2>3. Sound(p, c)
    BY <2>1
  <2>4. Sound(p, c)'
    BY <2>2, <2>3, SoundKept
  <2> QED BY <2>1, <2>4 DEF Sound, Seen, Behind
<1>4. PendingFresh'
  <2> SUFFICES ASSUME NEW p \in Producer, pending'[p] # NoOp
               PROVE  Fresh(p, pending[p])'
    BY DEF PendingFresh
  <2>1. PICK o : o = pending'[p]
    OBVIOUS
  <2>2. o \in Op
    BY <2>1 DEF Typed
  <2>3. /\ Fresh(p, o)
        /\ \A q \in S : \/ q \in Present
                        \/ q.node \notin Intact
                        \/ q.node # o.node
    BY <2>1
  <2>4. Fresh(p, o)'
    BY <2>2, <2>3, FreshKept
  <2> QED BY <2>1, <2>4
<1>5. RoundsFit'
  <2> SUFFICES ASSUME NEW l \in Link, RoundFits(l, round'[l])
               PROVE  RoundFits(l, round[l])'
    BY DEF RoundsFit
  <2>1. PICK r : r = round'[l]
    OBVIOUS
  <2>2. /\ r.sent \subseteq DOMAIN r.ops
        /\ \A i \in DOMAIN r.ops : r.ops[i] \in Carried(l)'
    BY <2>1 DEF Typed, Carried
  <2>3. \A i \in DOMAIN r.ops : r.ops[i] \in Present
    BY <2>2 DEF Step
  <2>4. RoundFits(l, r)
    BY <2>1
  <2>5. RoundFits(l, r)'
    BY <2>2, <2>3, <2>4, RoundKept
  <2> QED BY <2>1, <2>5
<1> QED BY <1>1, <1>2, <1>3, <1>4, <1>5 DEF IInv

\* What holds of clocks, drafts and messages as they are.
LEMMA AsItIs ==
  ASSUME IInv
  PROVE  /\ Typed
         /\ \A p \in Producer : Sound(p, clock[p])
         /\ \A p \in Producer : pending[p] # NoOp => Fresh(p, pending[p])
         /\ \A l \in Link : RoundFits(l, round[l])
         /\ LogsOK
BY TypedParts DEF IInv, ClocksSound, PendingFresh, RoundsFit

-----------------------------------------------------------------------------
(* The producers. *)

\* A step that leaves the logs alone and makes messages of what there is.
LEMMA StillStep ==
  ASSUME UNCHANGED <<log, spliced, lost>>, NEW m \in Machine,
         \A l \in Link : Carried(l)' \subseteq Present
  PROVE  Step(m, {})
BY StillMoves DEF Step

\* The log of a producer's machine yields a sound clock, with all that its
\* node has stamped behind it.
LEMMA ObservedSound ==
  ASSUME IInv, NEW p \in Producer, NEW c, c = observed(log[Home[p]])
  PROVE  /\ c \in VectorClock
         /\ Sound(p, c)
         /\ \A q \in Present : q.node = NodeId[p] /\ q.node \in Intact =>
                                 Behind(q.clock, c)
<1>0. /\ Home[p] \in Machine
      /\ log[Home[p]] \in Seq(Op)
  BY Homes DEF IInv, TypeOK
<1>1. PICK s : s = log[Home[p]]
  OBVIOUS
<1>2. /\ c \in VectorClock
      /\ \A nd \in Node : \A i \in DOMAIN s : s[i].clock[nd] <= c[nd]
      /\ \A nd \in Node : c[nd] = 0 \/ \E i \in DOMAIN s : c[nd] = s[i].clock[nd]
  BY <1>0, <1>1, ObservedIsJoin
<1>3. /\ \A i \in DOMAIN s : s[i] \in Ops(Home[p]) /\ s[i] \in Present
      /\ \A q \in Ops(Home[p]) : \E i \in DOMAIN s : q = s[i]
      /\ \A q \in Present : q \in Op
  BY <1>0, <1>1, PresentTypes DEF IInv, Ops
<1>4. LogsOK
  BY DEF IInv
<1>5. \A q \in Ops(Home[p]) : Behind(q.clock, c)
  BY <1>2, <1>3 DEF Behind
<1>6. ASSUME NEW nd \in Intact
      PROVE  Backed(nd, c[nd])
  <2>1. nd \in Node
    BY IntactNode
  <2> QED BY <1>2, <1>3, <1>4, <2>1 DEF LogsOK, HistoryBacked, Backed
<1>7. ASSUME NEW q \in Present, Seen(q, c)
      PROVE  q \in Ops(Home[p]) \cup spliced /\ Behind(q.clock, c)
  <2>0. /\ q.node \in Intact /\ q.node \in Node /\ q.n <= c[q.node]
        /\ q.n \in Nat /\ q.n > 0 /\ c[q.node] \in Nat
    BY <1>2, <1>3, <1>4, <1>7, OpTypes
       DEF Seen, LogsOK, AllStamped, Stamped, VectorClock, Counter
  <2>1. PICK i \in DOMAIN s : c[q.node] = s[i].clock[q.node]
    BY <1>2, <2>0
  <2>2. Seen(q, s[i].clock)
    BY <2>0, <2>1 DEF Seen
  <2>3. q \in Ops(Home[p]) \cup spliced
    BY <1>0, <1>1, <1>3, <1>4, <2>2 DEF LogsOK, PrefixClosed
  <2>4. q = s[i] \/ Behind(q.clock, s[i].clock)
    BY <1>3, <1>4, <2>2 DEF LogsOK, HistoryBehind, Follows
  <2>5. Behind(s[i].clock, c)
    BY <1>3, <1>5
  <2>6. \A nd \in Node : /\ q.clock[nd] \in Nat
                         /\ s[i].clock[nd] \in Nat
                         /\ c[nd] \in Nat
    BY <1>2, <1>3, OpTypes DEF VectorClock, Counter
  <2>7. Behind(q.clock, c)
    BY <2>4, <2>5, <2>6 DEF Behind
  <2> QED BY <2>3, <2>7
<1>8. \A q \in Present : q.node = NodeId[p] /\ q.node \in Intact =>
                           Behind(q.clock, c)
  BY <1>4, <1>5 DEF LogsOK, FromHome
<1> QED BY <1>2, <1>6, <1>7, <1>8 DEF Sound

\* What a clock is after the log was read, and that it is sound if it was.
LEMMA RefreshSound ==
  ASSUME IInv, NEW p \in Producer, NEW b \in VectorClock, Sound(p, b),
         NEW c, c = refresh_from_log(b, Home[p])
  PROVE  /\ c \in VectorClock
         /\ Sound(p, c)
         /\ \A q \in Present : q.node = NodeId[p] /\ q.node \in Intact =>
                                 Behind(q.clock, c)
<1>0. PICK d : d = observed(log[Home[p]])
  OBVIOUS
<1>1. /\ d \in VectorClock
      /\ Sound(p, d)
      /\ \A q \in Present : q.node = NodeId[p] /\ q.node \in Intact =>
                              Behind(q.clock, d)
  BY <1>0, ObservedSound
<1>2. \A nd \in Node : /\ b[nd] \in Counter /\ d[nd] \in Counter
                       /\ b[nd] \in Nat /\ d[nd] \in Nat
  BY <1>1 DEF VectorClock, Counter
<1>3. c = [nd \in Node |-> IF d[nd] > b[nd] THEN d[nd] ELSE b[nd]]
  BY <1>0 DEF refresh_from_log, merge
<1>4. \A nd \in Node : /\ c[nd] = b[nd] \/ c[nd] = d[nd]
                       /\ b[nd] <= c[nd] /\ d[nd] <= c[nd]
                       /\ c[nd] \in Counter /\ c[nd] \in Nat
  BY <1>2, <1>3
<1>5. c \in VectorClock
  BY <1>3, <1>4 DEF VectorClock
<1>6. \A q \in Op : Behind(q.clock, b) \/ Behind(q.clock, d)
                      => Behind(q.clock, c)
  BY <1>2, <1>4, OpTypes DEF Behind
<1>7. \A q \in Present : q \in Op /\ q.node \in Node
  BY PresentTypes, OpTypes DEF IInv
<1>8. ASSUME NEW nd \in Intact \ {NodeId[p]}
      PROVE  Backed(nd, c[nd])
  <2>1. nd \in Node
    BY IntactNode
  <2>2. Backed(nd, b[nd]) /\ Backed(nd, d[nd])
    BY <1>1 DEF Sound
  <2> QED BY <1>4, <2>1, <2>2
<1>9. ASSUME NEW q \in Present, Seen(q, c), q.node # NodeId[p]
      PROVE  q \in Ops(Home[p]) \cup spliced /\ Behind(q.clock, c)
  <2>1. Seen(q, b) \/ Seen(q, d)
    BY <1>4, <1>7, <1>9 DEF Seen
  <2> QED BY <1>1, <1>6, <1>7, <1>9, <2>1 DEF Sound
<1> QED BY <1>1, <1>5, <1>6, <1>7, <1>8, <1>9 DEF Sound

\* An operation stamped with a sound clock that has all of its node behind it
\* is a fresh draft.
LEMMA StampFresh ==
  ASSUME IInv, NEW p \in Producer, NEW c \in VectorClock, Sound(p, c),
         \A q \in Present : q.node = NodeId[p] /\ q.node \in Intact =>
                              Behind(q.clock, c),
         c[NodeId[p]] < MaxCounter, NEW e \in Effect,
         NEW x, x = stamp(p, c, e)
  PROVE  x \in Op /\ Fresh(p, x)
<1>0. NodeId[p] \in Node
  BY Homes
<1>1. PICK d : d = increment(c, NodeId[p])
  OBVIOUS
<1>2. /\ d = [c EXCEPT ![NodeId[p]] = @ + 1]
      /\ c \in [Node -> 0..MaxCounter]
      /\ MaxCounter \in Nat
  BY <1>1, BoundAssumption DEF increment, VectorClock, Counter
<1>3. /\ d \in [Node -> 0..MaxCounter]
      /\ d[NodeId[p]] = c[NodeId[p]] + 1
      /\ \A nd \in Node : nd # NodeId[p] => d[nd] = c[nd]
  BY <1>0, <1>2
<1>4. \A nd \in Node : c[nd] \in Nat /\ d[nd] \in Nat /\ c[nd] <= d[nd]
  BY <1>2, <1>3
<1>5. x = [node |-> NodeId[p], n |-> d[NodeId[p]], clock |-> d, effect |-> e]
  BY <1>1 DEF stamp
<1>6. /\ x \in Op
      /\ x.node = NodeId[p] /\ x.clock = d /\ x.n = d[NodeId[p]]
  BY <1>0, <1>3, <1>5 DEF Op, VectorClock, Counter
<1>7. Stamped(x)
  BY <1>0, <1>3, <1>4, <1>6 DEF Stamped
<1>8. \A q \in Present : q \in Op /\ Stamped(q)
  BY PresentTypes DEF IInv, LogsOK, AllStamped
<1>9. \A q \in Present : Behind(q.clock, c) => Behind(q.clock, d)
  BY <1>4, <1>8, OpTypes DEF Behind
<1>10. Sound(p, d)
  <2>1. \A nd \in Intact \ {NodeId[p]} : Backed(nd, d[nd])
    BY <1>3, IntactNode DEF Sound
  <2>2. \A q \in Present : Seen(q, d) /\ q.node # NodeId[p] => Seen(q, c)
    BY <1>3, <1>8, OpTypes DEF Seen
  <2> QED BY <1>9, <2>1, <2>2 DEF Sound
<1>11. ASSUME NEW q \in Present, Seen(q, d)
       PROVE  Behind(q.clock, c)
  <2>1. CASE q.node = NodeId[p]
    BY <1>11, <2>1 DEF Seen
  <2>2. CASE q.node # NodeId[p]
    <3>1. Seen(q, c)
      BY <1>3, <1>8, <1>11, <2>2, OpTypes DEF Seen
    <3> QED BY <2>2, <3>1 DEF Sound
  <2> QED BY <2>1, <2>2
<1>12. \A q \in Present : Behind(q.clock, c) => q.clock[NodeId[p]] < x.n
  BY <1>0, <1>3, <1>4, <1>6, <1>8, OpTypes DEF Behind
<1>13. \A q \in Present : Seen(q, d) => Follows(x, q)
  BY <1>6, <1>9, <1>11, <1>12 DEF Follows
<1>14. \A q \in Present : q.node = x.node /\ x.node \in Intact => q.n < x.n
  BY <1>6, <1>8, <1>12 DEF Stamped
<1> QED BY <1>6, <1>7, <1>10, <1>13, <1>14 DEF Fresh

\* Nothing is known to a new clock.
LEMMA NewSound ==
  ASSUME IInv, NEW p \in Producer
  PROVE  VectorClock_new \in VectorClock /\ Sound(p, VectorClock_new)
<1>1. VectorClock_new \in VectorClock
  BY BoundAssumption DEF VectorClock_new, VectorClock, Counter
<1>2. \A nd \in Node : VectorClock_new[nd] = 0
  BY DEF VectorClock_new
<1>3. \A nd \in Intact : Backed(nd, VectorClock_new[nd])
  BY <1>2, IntactNode DEF Backed
<1>4. \A q \in Present : ~ Seen(q, VectorClock_new)
  <2>1. \A q \in Present : q \in Op /\ Stamped(q)
    BY PresentTypes DEF IInv, LogsOK, AllStamped
  <2> QED BY <1>2, <2>1, OpTypes DEF Seen, Stamped
<1> QED BY <1>1, <1>3, <1>4 DEF Sound

\* The messages stay where they are.
LEMMA MessagesStay ==
  ASSUME IInv, UNCHANGED round
  PROVE  \A l \in Link : Carried(l)' \subseteq Present
BY PresentTypes DEF IInv, Carried

\* A producer reads the log, and may stamp a draft.
LEMMA ProducerKeeps ==
  ASSUME IInv, NEW p \in Producer, NEW c \in VectorClock, Sound(p, c),
         NEW x \in Op \cup {NoOp}, x # NoOp => Fresh(p, x),
         clock' = [clock EXCEPT ![p] = c],
         pending' = [pending EXCEPT ![p] = x],
         stamps' \in 0..MaxStamps, faults' \in 0..MaxFaults,
         UNCHANGED <<log, torn, round, spliced, lost>>
  PROVE  IInv'
<1>0. Home[p] \in Machine
  BY Homes
<1>1. /\ Typed
      /\ \A r \in Producer : Sound(r, clock[r])
      /\ \A r \in Producer : pending[r] # NoOp => Fresh(r, pending[r])
      /\ \A l \in Link : RoundFits(l, round[l])
  BY AsItIs
<1>2. Step(Home[p], {})
  BY <1>0, MessagesStay, StillStep
<1>3. Typed'
  BY <1>1 DEF Typed
<1>4. ASSUME NEW r \in Producer
      PROVE  /\ clock'[r] = IF r = p THEN c ELSE clock[r]
             /\ pending'[r] = IF r = p THEN x ELSE pending[r]
  BY <1>1 DEF Typed
<1>5. \A r \in Producer : Sound(r, clock'[r])
  BY <1>1, <1>4
<1>6. \A r \in Producer : pending'[r] # NoOp => Fresh(r, pending'[r])
  BY <1>1, <1>4
<1>7. \A l \in Link : RoundFits(l, round'[l])
  BY <1>1
<1> QED BY <1>0, <1>2, <1>3, <1>5, <1>6, <1>7, StepKeeps

\* record: the draft of a change.
LEMMA RecordKeeps ==
  ASSUME IInv, NEW p \in Attributor, NEW c \in Change, record(p, c)
  PROVE  IInv'
<1>0. /\ p \in Producer /\ c \in Effect
      /\ clock[p] \in VectorClock /\ Sound(p, clock[p])
  BY ProducerAssumption, AsItIs DEF Effect, Typed
<1>1. PICK f : f = refresh_from_log(clock[p], Home[p])
  OBVIOUS
<1>2. PICK x : x = stamp(p, f, c)
  OBVIOUS
<1>3. /\ f[NodeId[p]] < MaxCounter
      /\ stamps < MaxStamps /\ stamps' = stamps + 1
      /\ clock' = [clock EXCEPT ![p] = x.clock]
      /\ pending' = [pending EXCEPT ![p] = x]
      /\ UNCHANGED <<log, torn, round, faults, spliced, lost>>
  BY <1>1, <1>2 DEF record, Counts
<1>4. /\ f \in VectorClock
      /\ Sound(p, f)
      /\ \A q \in Present : q.node = NodeId[p] /\ q.node \in Intact =>
                              Behind(q.clock, f)
  <2>1. PICK b : b = clock[p]
    OBVIOUS
  <2> QED BY <1>0, <1>1, <2>1, RefreshSound
<1>5. x \in Op /\ Fresh(p, x)
  BY <1>0, <1>2, <1>3, <1>4, StampFresh
<1>6. x.clock \in VectorClock /\ Sound(p, x.clock)
  BY <1>5, OpTypes DEF Fresh
<1>7. stamps' \in 0..MaxStamps /\ faults' \in 0..MaxFaults
  BY <1>3, BoundAssumption DEF IInv, TypeOK
<1> QED BY <1>0, <1>3, <1>5, <1>6, <1>7, ProducerKeeps

\* record_echo: nothing but the clock.
LEMMA RecordEchoKeeps ==
  ASSUME IInv, NEW p \in Attributor, NEW c \in Change, record_echo(p, c)
  PROVE  IInv'
<1>0. /\ p \in Producer /\ clock[p] \in VectorClock /\ Sound(p, clock[p])
      /\ pending \in [Producer -> Op \cup {NoOp}]
  BY ProducerAssumption, AsItIs DEF Typed
<1>1. PICK f : f = refresh_from_log(clock[p], Home[p])
  OBVIOUS
<1>2. f \in VectorClock /\ Sound(p, f)
  <2>1. PICK b : b = clock[p]
    OBVIOUS
  <2> QED BY <1>0, <1>1, <2>1, RefreshSound
<1>3. /\ clock' = [clock EXCEPT ![p] = f]
      /\ pending' = [pending EXCEPT ![p] = NoOp]
      /\ stamps' = stamps /\ faults' = faults
      /\ UNCHANGED <<log, torn, round, spliced, lost>>
  BY <1>0, <1>1 DEF record_echo
<1>4. stamps' \in 0..MaxStamps /\ faults' \in 0..MaxFaults
  BY <1>3 DEF IInv, TypeOK
<1> QED BY <1>0, <1>2, <1>3, <1>4, ProducerKeeps

\* record_denial: the draft of a denial.
LEMMA RecordDenialKeeps ==
  ASSUME IInv, NEW p \in Governor, record_denial(p)
  PROVE  IInv'
<1>0. /\ p \in Producer /\ clock \in [Producer -> VectorClock]
      /\ Sound(p, clock[p])
  BY ProducerAssumption, AsItIs DEF Typed
<1>1. PICK f : f = observed(log[Home[p]])
  OBVIOUS
<1>2. PICK x : x = stamp(p, f, Denial)
  OBVIOUS
<1>3. /\ f[NodeId[p]] < MaxCounter
      /\ stamps < MaxStamps /\ stamps' = stamps + 1
      /\ clock' = [clock EXCEPT ![p] = clock[p]]
      /\ pending' = [pending EXCEPT ![p] = x]
      /\ UNCHANGED <<log, torn, round, faults, spliced, lost>>
  BY <1>0, <1>1, <1>2 DEF record_denial, Counts
<1>4. /\ f \in VectorClock
      /\ Sound(p, f)
      /\ \A q \in Present : q.node = NodeId[p] /\ q.node \in Intact =>
                              Behind(q.clock, f)
  BY <1>0, <1>1, ObservedSound
<1>5. x \in Op /\ Fresh(p, x)
  BY <1>0, <1>2, <1>3, <1>4, StampFresh DEF Effect
<1>6. stamps' \in 0..MaxStamps /\ faults' \in 0..MaxFaults
  BY <1>3, BoundAssumption DEF IInv, TypeOK
<1>7. PICK b : b = clock[p]
  OBVIOUS
<1>8. b \in VectorClock /\ Sound(p, b) /\ clock' = [clock EXCEPT ![p] = b]
  BY <1>0, <1>3, <1>7
<1> QED BY <1>0, <1>3, <1>5, <1>6, <1>8, ProducerKeeps

\* Restart: the draft is gone and the clock new.
LEMMA RestartKeeps ==
  ASSUME IInv, NEW p \in Producer, Restart(p)
  PROVE  IInv'
<1>0. clock \in [Producer -> VectorClock] /\ Sound(p, clock[p])
  BY AsItIs DEF Typed
<1>1. PICK f : f = refresh_from_log(VectorClock_new, Home[p])
  OBVIOUS
<1>2. f \in VectorClock /\ Sound(p, f)
  <2>1. PICK b : b = VectorClock_new
    OBVIOUS
  <2>2. b \in VectorClock /\ Sound(p, b)
    BY <2>1, NewSound
  <2> QED BY <1>1, <2>1, <2>2, RefreshSound
<1>3. PICK b : b = IF p \in Attributor THEN f ELSE clock[p]
  OBVIOUS
<1>4. b \in VectorClock /\ Sound(p, b) /\ clock' = [clock EXCEPT ![p] = b]
  BY <1>0, <1>1, <1>2, <1>3 DEF Restart
<1>5. /\ pending' = [pending EXCEPT ![p] = NoOp]
      /\ UNCHANGED <<log, torn, round, spliced, lost>>
  BY DEF Restart
<1>6. stamps' \in 0..MaxStamps /\ faults' \in 0..MaxFaults
  BY BoundAssumption DEF Restart, Fault, IInv, TypeOK
<1> QED BY <1>4, <1>5, <1>6, ProducerKeeps

\* A draft may be added to the log of its producer's machine.
LEMMA DraftJoins ==
  ASSUME IInv, NEW p \in Producer, NEW o \in Op, Fresh(p, o)
  PROVE  Joins(Home[p], o) /\ New(Home[p], o)
<1>1. /\ o.node = NodeId[p]
      /\ Stamped(o)
      /\ Sound(p, o.clock)
      /\ \A q \in Present : Seen(q, o.clock) => Follows(o, q)
      /\ \A q \in Present : q.node = o.node /\ o.node \in Intact => q.n < o.n
  BY DEF Fresh
<1>2. LogsOK
  BY DEF IInv
<1>3. \A q \in Present : Seen(q, o.clock) => q \in Ops(Home[p]) \cup spliced
  <2> SUFFICES ASSUME NEW q \in Present, Seen(q, o.clock)
               PROVE  q \in Ops(Home[p]) \cup spliced
    OBVIOUS
  <2>1. CASE q.node = NodeId[p]
    BY <1>2, <2>1 DEF LogsOK, FromHome, Seen
  <2>2. CASE q.node # NodeId[p]
    BY <1>1, <2>2 DEF Sound
  <2> QED BY <2>1, <2>2
<1>4. ASSUME o.node \in Intact, NEW q \in Present
      PROVE  q.clock[o.node] < o.n
  <2>1. /\ o.node \in Node /\ o.n \in Nat /\ o.n > 0
        /\ q.clock[o.node] \in Nat
    BY <1>1, OpTypes, PresentTypes DEF Stamped, IInv
  <2>2. Backed(o.node, q.clock[o.node])
    BY <1>2, <1>4 DEF LogsOK, HistoryBacked
  <2>3. ASSUME NEW d \in Present, d.node = o.node, q.clock[o.node] <= d.n
        PROVE  q.clock[o.node] < o.n
    <3>1. d.n < o.n /\ d.n \in Nat
      BY <1>1, <1>4, <2>3, OpTypes, PresentTypes DEF IInv
    <3> QED BY <2>1, <2>3, <3>1
  <2> QED BY <2>1, <2>2, <2>3 DEF Backed
<1>5. \A r \in Producer : o.node \in Intact /\ NodeId[r] = o.node
                            => Home[r] = Home[p]
  BY <1>1, IntactNode
<1>6. New(Home[p], o)
  BY <1>4, <1>5 DEF New
<1>7. \A nd \in Intact \ {o.node} : Backed(nd, o.clock[nd])
  BY <1>1 DEF Sound
<1> QED BY <1>1, <1>3, <1>6, <1>7 DEF Joins

\* append and append_fails.
LEMMA AppendKeeps ==
  ASSUME IInv, NEW p \in Producer, append(p) \/ append_fails(p)
  PROVE  IInv'
<1>0. Home[p] \in Machine
  BY Homes
<1>1. /\ Typed
      /\ \A r \in Producer : Sound(r, clock[r])
      /\ \A r \in Producer : pending[r] # NoOp => Fresh(r, pending[r])
      /\ \A l \in Link : RoundFits(l, round[l])
  BY AsItIs
<1>2. PICK o : o = pending[p]
  OBVIOUS
<1>3. /\ o \in Op /\ Fresh(p, o)
      /\ Write(Home[p], o) \/ WriteFails(Home[p], o)
      /\ pending' = [pending EXCEPT ![p] = NoOp]
      /\ UNCHANGED <<clock, round, stamps>>
      /\ faults' \in 0..MaxFaults
  <2>1. o # NoOp /\ o \in Op
    BY <1>1, <1>2 DEF append, append_fails, Typed
  <2>2. Fresh(p, o)
    BY <1>1, <1>2, <2>1
  <2>3. faults \in 0..MaxFaults /\ MaxFaults \in Nat
    BY <1>1, BoundAssumption DEF Typed
  <2>4. faults' \in 0..MaxFaults
    BY <2>3 DEF append, append_fails, Fault
  <2> QED BY <1>2, <2>1, <2>2, <2>4 DEF append, append_fails
<1>4. Joins(Home[p], o)
  BY <1>3, DraftJoins
<1>5. /\ Moves(Home[p], {o})
      /\ log' \in [Machine -> Seq(Op)]
      /\ torn' \in [Machine -> FileEnd]
      /\ \A k \in Machine : torn'[k] = "line" => log'[k] # <<>>
      /\ spliced' \subseteq Op
      /\ lost' \subseteq Node
  BY <1>0, <1>3, WriteMoves DEF IInv
<1>6. Step(Home[p], {o})
  <2>1. \A l \in Link : Carried(l)' \subseteq Present
    BY <1>3, MessagesStay
  <2> QED BY <1>4, <1>5, <2>1 DEF Step
<1>7. Typed'
  BY <1>1, <1>3, <1>5 DEF Typed
<1>8. \A r \in Producer : Sound(r, clock'[r])
  BY <1>1, <1>3
<1>9. \A r \in Producer : pending'[r] # NoOp =>
        /\ Fresh(r, pending'[r])
        /\ \A q \in {o} : \/ q \in Present
                          \/ q.node \notin Intact
                          \/ q.node # pending'[r].node
  <2> SUFFICES ASSUME NEW r \in Producer, pending'[r] # NoOp
               PROVE  /\ Fresh(r, pending'[r])
                      /\ o.node \notin Intact \/ o.node # pending'[r].node
    OBVIOUS
  <2>1. r # p /\ pending'[r] = pending[r]
    BY <1>1, <1>3 DEF Typed
  <2>2. Fresh(r, pending[r])
    BY <1>1, <2>1
  <2>3. pending[r].node = NodeId[r] /\ o.node = NodeId[p]
    BY <1>3, <2>2 DEF Fresh
  <2>4. o.node \notin Intact \/ NodeId[p] # NodeId[r]
    BY <2>1, <2>3, IntactNode
  <2> QED BY <2>1, <2>2, <2>3, <2>4
<1>10. \A l \in Link : RoundFits(l, round'[l])
  BY <1>1, <1>3
<1> QED BY <1>0, <1>6, <1>7, <1>8, <1>9, <1>10, StepKeeps

-----------------------------------------------------------------------------
(* The rounds. *)

\* A link gets a message of operations there are that is fit.
LEMMA RoundKeeps ==
  ASSUME IInv, NEW l \in Link, NEW r \in RoundRecord, RoundFits(l, r),
         \A i \in DOMAIN r.ops : r.ops[i] \in Present,
         r.sent \subseteq DOMAIN r.ops,
         round' = [round EXCEPT ![l] = r],
         faults' \in 0..MaxFaults,
         UNCHANGED <<log, torn, clock, pending, stamps, spliced, lost>>
  PROVE  IInv'
<1>0. Client[l] \in Machine
  BY LinkAssumption
<1>1. /\ Typed
      /\ \A p \in Producer : Sound(p, clock[p])
      /\ \A p \in Producer : pending[p] # NoOp => Fresh(p, pending[p])
      /\ \A k \in Link : RoundFits(k, round[k])
  BY AsItIs
<1>2. \A k \in Link : round'[k] = IF k = l THEN r ELSE round[k]
  BY <1>1 DEF Typed
<1>3. \A k \in Link : Carried(k)' \subseteq Present
  <2> SUFFICES ASSUME NEW k \in Link, NEW i \in DOMAIN round'[k].ops
               PROVE  round'[k].ops[i] \in Present
    BY DEF Carried
  <2>1. CASE k = l
    BY <1>2, <2>1
  <2>2. CASE k # l
    <3>1. round'[k] = round[k]
      BY <1>2, <2>2
    <3> QED BY <3>1, PresentTypes DEF IInv
  <2> QED BY <2>1, <2>2
<1>4. Step(Client[l], {})
  BY <1>0, <1>3, StillStep
<1>5. Typed'
  <2>1. \A k \in Link : round'[k].sent \subseteq DOMAIN round'[k].ops
    BY <1>1, <1>2 DEF Typed
  <2>2. round' \in [Link -> RoundRecord]
    BY <1>1 DEF Typed
  <2> QED BY <1>1, <2>1, <2>2 DEF Typed
<1>6. \A k \in Link : RoundFits(k, round'[k])
  BY <1>1, <1>2
<1>7. /\ \A p \in Producer : Sound(p, clock'[p])
      /\ \A p \in Producer : pending'[p] # NoOp => Fresh(p, pending'[p])
  BY <1>1
<1> QED BY <1>0, <1>4, <1>5, <1>6, <1>7, StepKeeps

\* What a log holds is a message whose history is there.
LEMMA LogIsMessage ==
  ASSUME IInv, NEW m \in Machine
  PROVE  /\ log[m] \in Seq(Op)
         /\ \A i \in DOMAIN log[m] : log[m][i] \in Present
         /\ \A i \in DOMAIN log[m] : \A q \in Present :
              Seen(q, log[m][i].clock) =>
                q \in spliced \/ \E j \in DOMAIN log[m] :
                                   j <= i /\ log[m][j] = q
         /\ \A i \in DOMAIN log[m] : log[m][i] \in Ops(m)
         /\ DOMAIN log[m] \subseteq Nat
<1>1. log[m] \in Seq(Op)
  BY DEF IInv, TypeOK
<1>2. DOMAIN log[m] = 1..Len(log[m]) /\ Len(log[m]) \in Nat
  BY <1>1
<1> QED BY <1>1, <1>2, PresentTypes DEF IInv, LogsOK, PrefixClosed

\* Request: the whole log of the client.
LEMMA RequestKeeps ==
  ASSUME IInv, NEW l \in Link, Request(l)
  PROVE  IInv'
<1>1. PICK s : s = log[Client[l]]
  OBVIOUS
<1>2. PICK r : r = [phase |-> "asked", ops |-> s, sent |-> DOMAIN s,
                    cut |-> FALSE]
  OBVIOUS
<1>3. /\ s \in Seq(Op)
      /\ \A i \in DOMAIN s : s[i] \in Present
      /\ \A i \in DOMAIN s : \A q \in Present :
           Seen(q, s[i].clock) =>
             q \in spliced \/ \E j \in DOMAIN s : j <= i /\ s[j] = q
      /\ \A i \in DOMAIN s : s[i] \in Ops(Client[l])
      /\ DOMAIN s \subseteq Nat
  BY <1>1, LogIsMessage, LinkAssumption
<1>4. /\ r.phase = "asked" /\ r.ops = s /\ r.sent = DOMAIN s
      /\ r.cut = FALSE /\ r \in RoundRecord
  BY <1>2, <1>3 DEF RoundRecord, Phase
<1>5. From(l, r) = Client[l]
  BY <1>4 DEF From
<1>6. RoundFits(l, r)
  <2>1. MessageClosed(l, r)
    BY <1>3, <1>4, <1>5 DEF MessageClosed
  <2>2. BatchClosed(l, r)
    BY <1>3, <1>4 DEF BatchClosed
  <2>3. Delivering(l, r)
    BY <1>4 DEF Delivering
  <2> QED BY <2>1, <2>2, <2>3 DEF RoundFits
<1>7. /\ round' = [round EXCEPT ![l] = r]
      /\ UNCHANGED <<log, torn, clock, pending, stamps, faults, spliced, lost>>
  BY <1>1, <1>2 DEF Request
<1>8. faults' \in 0..MaxFaults
  BY <1>7 DEF IInv, TypeOK
<1> QED BY <1>3, <1>4, <1>6, <1>7, <1>8, RoundKeeps

\* What a message holds of an intact node is on the machine, or among what it
\* still has to append.
LEMMA ToAppendCovers ==
  ASSUME IInv, NEW l \in Link, NEW m \in Machine, NEW j \in round[l].sent,
         NEW q, q = round[l].ops[j], q.node \in Intact
  PROVE  \/ q \in Ops(m)
         \/ \E k \in to_append(round[l], m) : k <= j /\ round[l].ops[k] = q
<1> DEFINE r == round[l]
           T == {k \in r.sent : op_id(r.ops[k]) = op_id(q)}
<1>0. /\ r.sent \subseteq DOMAIN r.ops /\ r.sent \subseteq Nat
      /\ \A i \in DOMAIN r.ops : r.ops[i] \in Present
  BY PresentTypes DEF IInv, TypeOK
<1>1. q \in Present /\ \A x \in Present : op_id(x) = op_id(q) => x = q
  BY <1>0 DEF IInv, LogsOK, IdsUnique
<1>2. CASE op_id(q) \in seen_ids(log[m])
  <2>1. PICK i \in DOMAIN log[m] : op_id(q) = op_id(log[m][i])
    BY <1>2 DEF seen_ids
  <2>2. log[m][i] \in Present /\ log[m][i] \in Ops(m)
    BY PresentTypes DEF IInv
  <2> QED BY <1>1, <2>1, <2>2
<1>3. CASE op_id(q) \notin seen_ids(log[m])
  <2>1. T \in SUBSET Nat /\ j \in T
    BY <1>0
  <2>2. PICK k \in T : \A y \in T : k <= y
    <3> HIDE DEF T
    <3> QED BY <2>1, LeastElement
  <2>3. /\ k \in r.sent /\ op_id(r.ops[k]) = op_id(q)
        /\ r.ops[k] \in Present
    BY <1>0, <2>2
  <2>4. r.ops[k] = q /\ k <= j
    BY <1>1, <2>1, <2>2, <2>3
  <2>5. k \in to_append(r, m)
    BY <1>3, <2>2, <2>3 DEF to_append
  <2> QED BY <2>4, <2>5
<1> QED BY <1>2, <1>3

\* Load: what the receiver lacks.
LEMMA LoadKeeps ==
  ASSUME IInv, NEW l \in Link,
         \/ Load(l, "asked", "serving", Server[l])
         \/ Load(l, "answered", "applying", Client[l])
  PROVE  IInv'
<1>1. PICK s : s = round[l]
  OBVIOUS
<1>2. PICK m : m = To(l, s)
  OBVIOUS
<1>3. PICK T : T = to_append(s, m)
  OBVIOUS
<1>4. PICK to : to = IF s.phase = "asked" THEN "serving" ELSE "applying"
  OBVIOUS
<1>5. /\ s \in RoundRecord
      /\ s.sent \subseteq DOMAIN s.ops
      /\ \A i \in DOMAIN s.ops : s.ops[i] \in Present
      /\ RoundFits(l, s)
      /\ round \in [Link -> RoundRecord]
  BY <1>1, PresentTypes, AsItIs DEF Typed, IInv
<1>6. m \in Machine /\ T \subseteq s.sent
  BY <1>2, <1>3, LinkAssumption DEF To, to_append
<1>7. PICK r : r = [s EXCEPT !.phase = to, !.sent = T]
  OBVIOUS
<1>8. /\ s.phase \in {"asked", "answered"}
      /\ round' = [round EXCEPT ![l] = r]
      /\ UNCHANGED <<log, torn, clock, pending, stamps, faults, spliced, lost>>
  <2>1. CASE Load(l, "asked", "serving", Server[l])
    <3>1. s.phase = "asked" /\ to = "serving" /\ m = Server[l]
      BY <1>1, <1>2, <1>4, <2>1 DEF Load, To
    <3> QED BY <1>1, <1>3, <1>5, <1>7, <2>1, <3>1 DEF Load, RoundRecord
  <2>2. CASE Load(l, "answered", "applying", Client[l])
    <3>1. s.phase = "answered" /\ to = "applying" /\ m = Client[l]
      BY <1>1, <1>2, <1>4, <2>2 DEF Load, To
    <3> QED BY <1>1, <1>3, <1>5, <1>7, <2>2, <3>1 DEF Load, RoundRecord
  <2> QED BY <2>1, <2>2
<1>9. /\ r \in RoundRecord
      /\ r.ops = s.ops /\ r.sent = T /\ r.cut = s.cut
      /\ From(l, r) = From(l, s) /\ To(l, r) = m
  <2>1. /\ r \in RoundRecord
        /\ r.ops = s.ops /\ r.sent = T /\ r.cut = s.cut /\ r.phase = to
    BY <1>4, <1>5, <1>6, <1>7 DEF RoundRecord, Phase
  <2> QED BY <1>2, <1>4, <1>8, <2>1 DEF From, To
<1>10. ASSUME NEW j \in s.sent, s.ops[j].node \in Intact
       PROVE  \/ s.ops[j] \in Ops(m)
              \/ \E k \in T : k <= j /\ s.ops[k] = s.ops[j]
  BY <1>1, <1>3, <1>6, <1>10, ToAppendCovers
<1>11. MessageClosed(l, r)
  BY <1>5, <1>9 DEF RoundFits, MessageClosed
<1>12. BatchClosed(l, r)
  <2> SUFFICES ASSUME NEW i \in T, NEW q \in Present,
                      Seen(q, s.ops[i].clock), q \notin Ops(m) \cup spliced
               PROVE  \E k \in T : k <= i /\ s.ops[k] = q
    BY <1>9 DEF BatchClosed
  <2>1. PICK j \in s.sent : j <= i /\ s.ops[j] = q
    BY <1>2, <1>5, <1>6 DEF RoundFits, BatchClosed
  <2>2. PICK k \in T : k <= j /\ s.ops[k] = q
    BY <1>10, <2>1 DEF Seen
  <2>3. i \in Nat /\ j \in Nat /\ k \in Nat
    BY <1>5, <1>6 DEF RoundRecord
  <2> QED BY <2>1, <2>2, <2>3
<1>13. Delivering(l, r)
  <2> SUFFICES ASSUME ~ s.cut, NEW i \in DOMAIN s.ops,
                      s.ops[i].node \in Intact,
                      s.ops[i] \notin Ops(m) \cup spliced
               PROVE  \E k \in T : s.ops[k] = s.ops[i]
    BY <1>9 DEF Delivering
  <2>1. PICK j \in s.sent : s.ops[j] = s.ops[i]
    BY <1>2, <1>5 DEF RoundFits, Delivering
  <2> QED BY <1>10, <2>1
<1>14. faults' \in 0..MaxFaults
  BY <1>8 DEF IInv, TypeOK
<1>15. RoundFits(l, r)
  BY <1>11, <1>12, <1>13 DEF RoundFits
<1>16. r.sent \subseteq DOMAIN r.ops
       /\ \A i \in DOMAIN r.ops : r.ops[i] \in Present
  BY <1>5, <1>6, <1>9
<1> QED BY <1>8, <1>9, <1>14, <1>15, <1>16, RoundKeeps

\* The filter of an answer lets through all that the client lacks: whatever
\* the client's view counts, the client has.
LEMMA FilterComplete ==
  ASSUME IInv, NEW l \in Link, round[l].phase = "serving",
         NEW q \in Present, q.node \in Intact,
         q \notin Ops(Client[l]) \cup spliced
  PROVE  LET ids == seen_ids(round[l].ops)
         IN  needs(from_wire(observed(round[l].ops), ids), ids, q)
<1> DEFINE req == round[l].ops
           ids == seen_ids(req)
           obs == from_wire(observed(req), ids)
<1>0. /\ req \in Seq(Op)
      /\ From(l, round[l]) = Client[l]
      /\ MessageClosed(l, round[l])
  BY AsItIs DEF Typed, RoundRecord, From, RoundFits
<1>1. \A i \in DOMAIN req : /\ req[i] \in Present
                            /\ req[i] \in Op
                            /\ Stamped(req[i])
  BY PresentTypes DEF IInv, LogsOK, AllStamped
<1>2. /\ q \in Op /\ q.node \in Node /\ q.n \in Nat /\ q.n > 0
      /\ Stamped(q)
  BY PresentTypes, OpTypes DEF IInv, LogsOK, AllStamped, Stamped
<1>3. \A i \in DOMAIN req : ~ Seen(q, req[i].clock)
  BY <1>0 DEF MessageClosed
<1>4. op_id(q) \notin ids
  <2> SUFFICES ASSUME op_id(q) \in ids PROVE FALSE
    OBVIOUS
  <2>1. PICK i \in DOMAIN req : op_id(q) = op_id(req[i])
    BY DEF seen_ids
  <2>2. q = req[i]
    BY <1>1, <2>1 DEF IInv, LogsOK, IdsUnique
  <2>3. Seen(q, req[i].clock)
    BY <1>2, <2>2 DEF Seen, Stamped
  <2> QED BY <1>3, <2>3
<1>5. ASSUME NEW nd \in Node
      PROVE  /\ obs[nd] \in Nat
             /\ obs[nd] # 0 =>
                  \E i \in DOMAIN req : obs[nd] = req[i].clock[nd]
  <2> DEFINE S == {observed(req)[nd]} \cup
                  {id[2] : id \in {i \in ids : i[1] = nd}}
  <2>1. observed(req)[nd] \in 0..MaxCounter
    BY <1>0, ObservedIsJoin DEF VectorClock, Counter
  <2>2. \A id \in ids : id[1] = nd =>
          \E i \in DOMAIN req : id[2] = req[i].clock[nd]
    BY <1>1 DEF seen_ids, op_id, Stamped
  <2>3. \A i \in DOMAIN req : req[i].clock[nd] \in 0..MaxCounter
    BY <1>1 DEF Op, VectorClock, Counter
  <2>4. S \in SUBSET (0..MaxCounter) /\ S # {}
    BY <2>1, <2>2, <2>3
  <2>5. obs[nd] = Max(S)
    BY DEF from_wire
  <2>6. obs[nd] \in S
    <3> HIDE DEF S, obs
    <3> QED BY <2>4, <2>5, MaxIsGreatest, BoundAssumption
  <2>7. \/ obs[nd] = observed(req)[nd]
        \/ \E i \in DOMAIN req : obs[nd] = req[i].clock[nd]
    BY <2>2, <2>6
  <2>8. obs[nd] \in Nat
    <3>1. S \subseteq Nat
      BY <2>4
    <3> HIDE DEF S, obs
    <3> QED BY <2>6, <3>1
  <2> QED BY <1>0, <2>7, <2>8, ObservedIsJoin
<1> HIDE DEF obs, ids, req
<1>6. obs[q.node] < q.n
  <2> SUFFICES ASSUME q.n <= obs[q.node] PROVE FALSE
    BY <1>2, <1>5
  <2>1. PICK i \in DOMAIN req : obs[q.node] = req[i].clock[q.node]
    BY <1>2, <1>5
  <2>2. Seen(q, req[i].clock)
    BY <2>1 DEF Seen
  <2> QED BY <1>3, <2>2
<1>7. needs(obs, ids, q)
  BY <1>4, <1>6 DEF needs
<1> QED BY <1>7 DEF obs, ids, req

\* Answer: what the client's request does not cover.
LEMMA AnswerKeeps ==
  ASSUME IInv, NEW l \in Link, Answer(l)
  PROVE  IInv'
<1>1. PICK s : s = log[Server[l]]
  OBVIOUS
<1>2. PICK ids : ids = seen_ids(round[l].ops)
  OBVIOUS
<1>3. PICK obs : obs = from_wire(observed(round[l].ops), ids)
  OBVIOUS
<1>4. PICK T : T = {i \in DOMAIN s : needs(obs, ids, s[i])}
  OBVIOUS
<1>5. PICK r : r = [phase |-> "answered", ops |-> s, sent |-> T, cut |-> FALSE]
  OBVIOUS
<1>6. /\ round[l].phase = "serving"
      /\ round' = [round EXCEPT ![l] = r]
      /\ UNCHANGED <<log, torn, clock, pending, stamps, faults, spliced, lost>>
  BY <1>1, <1>2, <1>3, <1>4, <1>5 DEF Answer
<1>7. /\ s \in Seq(Op)
      /\ \A i \in DOMAIN s : s[i] \in Present
      /\ \A i \in DOMAIN s : \A q \in Present :
           Seen(q, s[i].clock) =>
             q \in spliced \/ \E j \in DOMAIN s : j <= i /\ s[j] = q
      /\ \A i \in DOMAIN s : s[i] \in Ops(Server[l])
      /\ DOMAIN s \subseteq Nat
  BY <1>1, LogIsMessage, LinkAssumption
<1>8. /\ r.phase = "answered" /\ r.ops = s /\ r.sent = T
      /\ r.cut = FALSE /\ r \in RoundRecord
      /\ T \subseteq DOMAIN s
  BY <1>4, <1>5, <1>7 DEF RoundRecord, Phase
<1>9. From(l, r) = Server[l] /\ To(l, r) = Client[l]
  BY <1>8 DEF From, To
<1>10. ASSUME NEW i \in DOMAIN s, s[i].node \in Intact,
              s[i] \notin Ops(Client[l]) \cup spliced
       PROVE  i \in T
  <2>1. needs(obs, ids, s[i])
    BY <1>2, <1>3, <1>6, <1>7, <1>10, FilterComplete
  <2> QED BY <1>4, <2>1
<1>11. RoundFits(l, r)
  <2>1. MessageClosed(l, r)
    BY <1>7, <1>8, <1>9 DEF MessageClosed
  <2>2. BatchClosed(l, r)
    <3> SUFFICES ASSUME NEW i \in T, NEW q \in Present,
                        Seen(q, s[i].clock),
                        q \notin Ops(Client[l]) \cup spliced
                 PROVE  \E j \in T : j <= i /\ s[j] = q
      BY <1>8, <1>9 DEF BatchClosed
    <3>1. PICK j \in DOMAIN s : j <= i /\ s[j] = q
      BY <1>7, <1>8
    <3> QED BY <1>10, <3>1 DEF Seen
  <2>3. Delivering(l, r)
    BY <1>8, <1>9, <1>10 DEF Delivering
  <2> QED BY <2>1, <2>2, <2>3 DEF RoundFits
<1>12. faults' \in 0..MaxFaults
  BY <1>6 DEF IInv, TypeOK
<1> QED BY <1>6, <1>7, <1>8, <1>11, <1>12, RoundKeeps

\* Done and Break: nothing is left of the round.
LEMMA EndKeeps ==
  ASSUME IInv, NEW l \in Link, Done(l) \/ Break(l)
  PROVE  IInv'
<1>1. PICK r : r = Idle
  OBVIOUS
<1>2. /\ r.ops = <<>> /\ r.sent = {} /\ r.cut = FALSE /\ DOMAIN r.ops = {}
      /\ r \in RoundRecord
  BY <1>1 DEF Idle, RoundRecord, Phase
<1>3. RoundFits(l, r)
  BY <1>2 DEF RoundFits, MessageClosed, BatchClosed, Delivering
<1>4. /\ round' = [round EXCEPT ![l] = r]
      /\ UNCHANGED <<log, torn, clock, pending, stamps, spliced, lost>>
      /\ faults' = faults \/ Fault
  BY <1>1 DEF Done, Break
<1>5. faults' \in 0..MaxFaults
  BY <1>4, BoundAssumption DEF IInv, TypeOK, Fault
<1> QED BY <1>2, <1>3, <1>4, <1>5, RoundKeeps

\* What a message still has to append first may join the receiver's log.
LEMMA NextJoins ==
  ASSUME IInv, NEW l \in Link, NEW i \in round[l].sent,
         \A j \in round[l].sent : i <= j,
         NEW o, o = round[l].ops[i]
  PROVE  Joins(To(l, round[l]), o) /\ o \in Present
<1>0. /\ round[l].sent \subseteq DOMAIN round[l].ops
      /\ round[l].sent \subseteq Nat
  BY AsItIs DEF Typed, RoundRecord
<1>1. o \in Present /\ o \in Op
  BY <1>0, PresentTypes DEF IInv
<1>2. LogsOK
  BY DEF IInv
<1>3. \A q \in Present : Seen(q, o.clock) /\ q # o =>
                           q \in Ops(To(l, round[l])) \cup spliced
  <2> SUFFICES ASSUME NEW q \in Present, Seen(q, o.clock), q # o,
                      q \notin Ops(To(l, round[l])) \cup spliced
               PROVE  FALSE
    OBVIOUS
  <2>1. PICK j \in round[l].sent : j <= i /\ round[l].ops[j] = q
    BY AsItIs DEF RoundFits, BatchClosed
  <2>2. j = i
    BY <1>0, <2>1
  <2> QED BY <2>1, <2>2
<1> QED
  BY <1>1, <1>2, <1>3
     DEF Joins, LogsOK, AllStamped, HistoryBacked, HistoryBehind

\* An operation of a message is written, or its write fails; the step leaves
\* of the message what it says.
LEMMA WriteKeeps ==
  ASSUME IInv, NEW l \in Link, NEW m, m = To(l, round[l]),
         NEW i \in round[l].sent, \A j \in round[l].sent : i <= j,
         \/ /\ Write(m, round[l].ops[i])
            /\ round' = [round EXCEPT ![l].sent = @ \ {i}]
         \/ /\ WriteFails(m, round[l].ops[i])
            /\ round' = [round EXCEPT ![l].sent = {}, ![l].cut = TRUE],
         faults' \in 0..MaxFaults,
         UNCHANGED <<clock, pending, stamps>>
  PROVE  IInv'
<1>0. m \in Machine
  BY LinkAssumption DEF To
<1>1. /\ Typed
      /\ \A p \in Producer : Sound(p, clock[p])
      /\ \A p \in Producer : pending[p] # NoOp => Fresh(p, pending[p])
      /\ \A k \in Link : RoundFits(k, round[k])
  BY AsItIs
<1>2. PICK s : s = round[l]
  OBVIOUS
<1>3. PICK o : o = s.ops[i]
  OBVIOUS
<1>4. /\ s \in RoundRecord
      /\ s.sent \subseteq DOMAIN s.ops
      /\ \A j \in DOMAIN s.ops : s.ops[j] \in Present
      /\ RoundFits(l, s)
      /\ round \in [Link -> RoundRecord]
  BY <1>1, <1>2, PresentTypes DEF Typed, IInv
<1>5. Joins(m, o) /\ o \in Present /\ o \in Op
  BY <1>2, <1>3, NextJoins, PresentTypes DEF IInv
<1>6. /\ Moves(m, {o})
      /\ log' \in [Machine -> Seq(Op)]
      /\ torn' \in [Machine -> FileEnd]
      /\ \A k \in Machine : torn'[k] = "line" => log'[k] # <<>>
      /\ spliced' \subseteq Op
      /\ lost' \subseteq Node
      /\ Write(m, o) => o \in Ops(m)' \cup spliced'
  BY <1>0, <1>2, <1>3, <1>5, WriteMoves DEF IInv
<1>7. PICK r : r = round'[l]
  OBVIOUS
<1>8. /\ r \in RoundRecord
      /\ r.ops = s.ops /\ r.phase = s.phase
      /\ \/ r.sent = s.sent \ {i} /\ r.cut = s.cut /\ Write(m, o)
         \/ r.sent = {} /\ r.cut = TRUE
      /\ \A k \in Link : k # l => round'[k] = round[k]
      /\ round' \in [Link -> RoundRecord]
  <2>1. CASE /\ Write(m, round[l].ops[i])
             /\ round' = [round EXCEPT ![l].sent = @ \ {i}]
    <3>1. round' = [round EXCEPT ![l] = [s EXCEPT !.sent = @ \ {i}]]
      BY <1>2, <1>4, <2>1
    <3>2. /\ r = [s EXCEPT !.sent = @ \ {i}]
          /\ \A k \in Link : k # l => round'[k] = round[k]
      BY <1>4, <1>7, <3>1
    <3>3. /\ r \in RoundRecord /\ r.ops = s.ops /\ r.phase = s.phase
          /\ r.sent = s.sent \ {i} /\ r.cut = s.cut
      BY <1>4, <3>2 DEF RoundRecord
    <3>4. round' \in [Link -> RoundRecord]
      BY <1>4, <3>1, <3>2, <3>3
    <3> QED BY <1>2, <1>3, <2>1, <3>2, <3>3, <3>4
  <2>2. CASE round' = [round EXCEPT ![l].sent = {}, ![l].cut = TRUE]
    <3>1. round' = [round EXCEPT ![l] = [s EXCEPT !.sent = {}, !.cut = TRUE]]
      BY <1>2, <1>4, <2>2
    <3>2. /\ r = [s EXCEPT !.sent = {}, !.cut = TRUE]
          /\ \A k \in Link : k # l => round'[k] = round[k]
      BY <1>4, <1>7, <3>1
    <3>3. /\ r \in RoundRecord /\ r.ops = s.ops /\ r.phase = s.phase
          /\ r.sent = {} /\ r.cut = TRUE
      BY <1>4, <3>2 DEF RoundRecord
    <3>4. round' \in [Link -> RoundRecord]
      BY <1>4, <3>1, <3>2, <3>3
    <3> QED BY <3>2, <3>3, <3>4
  <2> QED BY <2>1, <2>2
<1>9. \A k \in Link : Carried(k)' \subseteq Present
  <2>1. \A k \in Link : round'[k].ops = round[k].ops
    BY <1>2, <1>7, <1>8
  <2> QED BY <2>1, PresentTypes DEF IInv, Carried
<1>10. Step(m, {o})
  BY <1>5, <1>6, <1>9 DEF Step
<1>11. Typed'
  <2>1. \A k \in Link : round'[k].sent \subseteq DOMAIN round'[k].ops
    BY <1>1, <1>2, <1>4, <1>7, <1>8 DEF Typed
  <2> QED BY <1>1, <1>6, <1>8, <2>1 DEF Typed
<1>12. RoundFits(l, s)'
  BY <1>0, <1>4, <1>10, RoundKept
<1>13. /\ From(l, r)' = From(l, s)' /\ To(l, r)' = To(l, s)'
       /\ To(l, s)' = m
  BY <1>2, <1>8 DEF From, To
<1>14. RoundFits(l, r)'
  <2>1. MessageClosed(l, r)'
    BY <1>8, <1>12, <1>13 DEF RoundFits, MessageClosed
  <2>2. CASE r.sent = s.sent \ {i} /\ r.cut = s.cut /\ Write(m, o)
    <3>0. o \in Ops(m)' \cup spliced'
      BY <1>6, <2>2
    <3>1. BatchClosed(l, r)'
      <4> SUFFICES ASSUME NEW j \in r.sent, NEW q \in Present',
                          Seen(q, s.ops[j].clock)',
                          q \notin Ops(m)' \cup spliced'
                   PROVE  \E k \in r.sent : k <= j /\ s.ops[k] = q
        BY <1>8, <1>13 DEF BatchClosed
      <4>1. PICK k \in s.sent : k <= j /\ s.ops[k] = q
        BY <1>12, <1>13, <2>2 DEF RoundFits, BatchClosed
      <4>2. k # i
        BY <1>3, <3>0, <4>1
      <4> QED BY <2>2, <4>1, <4>2
    <3>2. Delivering(l, r)'
      <4> SUFFICES ASSUME ~ s.cut, NEW j \in DOMAIN s.ops,
                          s.ops[j].node \in Intact',
                          s.ops[j] \notin Ops(m)' \cup spliced'
                   PROVE  \E k \in r.sent : s.ops[k] = s.ops[j]
        BY <1>8, <1>13, <2>2 DEF Delivering
      <4>1. PICK k \in s.sent : s.ops[k] = s.ops[j]
        BY <1>12, <1>13 DEF RoundFits, Delivering
      <4>2. k # i
        BY <1>3, <3>0, <4>1
      <4> QED BY <2>2, <4>1, <4>2
    <3> QED BY <2>1, <3>1, <3>2 DEF RoundFits
  <2>3. CASE r.sent = {} /\ r.cut = TRUE
    BY <2>1, <2>3 DEF RoundFits, BatchClosed, Delivering
  <2> QED BY <1>8, <2>2, <2>3
<1>15. RoundFits(l, round[l])'
  BY <1>7, <1>14
<1>16. \A k \in Link : RoundFits(k, round'[k]) \/ RoundFits(k, round[k])'
  BY <1>1, <1>8, <1>15
<1>17. /\ \A p \in Producer : Sound(p, clock'[p])
       /\ \A p \in Producer : pending'[p] # NoOp =>
            /\ Fresh(p, pending'[p])
            /\ \A q \in {o} : \/ q \in Present
                              \/ q.node \notin Intact
                              \/ q.node # pending'[p].node
  BY <1>1, <1>5
<1> QED BY <1>0, <1>10, <1>11, <1>16, <1>17, StepKeeps

\* Merge and MergeFails, at either end.
LEMMA MergeKeeps ==
  ASSUME IInv, NEW l \in Link, NEW phase, NEW m,
         \/ phase = "serving" /\ m = Server[l]
         \/ phase = "applying" /\ m = Client[l],
         Merge(l, phase, m) \/ MergeFails(l, phase, m)
  PROVE  IInv'
<1>1. round[l].phase = phase
  BY DEF Merge, MergeFails
<1>2. m = To(l, round[l])
  BY <1>1 DEF To
<1>3. CASE Merge(l, phase, m)
  <2>1. PICK i \in round[l].sent :
          /\ \A j \in round[l].sent : i <= j
          /\ Write(m, round[l].ops[i])
          /\ round' = [round EXCEPT ![l].sent = @ \ {i}]
    BY <1>3 DEF Merge
  <2>2. faults' \in 0..MaxFaults /\ UNCHANGED <<clock, pending, stamps>>
    BY <1>3 DEF Merge, IInv, TypeOK
  <2> QED BY <1>2, <2>1, <2>2, WriteKeeps
<1>4. CASE MergeFails(l, phase, m)
  <2>1. PICK i \in round[l].sent :
          /\ \A j \in round[l].sent : i <= j
          /\ WriteFails(m, round[l].ops[i])
    BY <1>4 DEF MergeFails
  <2>2. /\ round' = [round EXCEPT ![l].sent = {}, ![l].cut = TRUE]
        /\ UNCHANGED <<clock, pending, stamps>>
    BY <1>4 DEF MergeFails
  <2>3. faults' \in 0..MaxFaults
    BY <1>4, BoundAssumption DEF MergeFails, Fault, IInv, TypeOK
  <2> QED BY <1>2, <2>1, <2>2, <2>3, WriteKeeps
<1> QED BY <1>3, <1>4

-----------------------------------------------------------------------------
(* The invariant. *)

\* Init.
LEMMA InitInvariant == Init => IInv
<1> SUFFICES ASSUME Init PROVE IInv
  OBVIOUS
<1>1. /\ \A m \in Machine : log[m] = <<>> /\ DOMAIN log[m] = {}
      /\ \A l \in Link : /\ round[l].ops = <<>> /\ DOMAIN round[l].ops = {}
                         /\ round[l].sent = {} /\ round[l].cut = FALSE
  BY DEF Init, Idle
<1>2. Present = {} /\ Durable = {}
  BY <1>1 DEF Present, Durable, Ops, Carried
<1>3. VectorClock_new \in VectorClock /\ \A nd \in Node : VectorClock_new[nd] = 0
  BY BoundAssumption DEF VectorClock_new, VectorClock, Counter
<1>4. TypeOK
  <2>1. Typed
    <3>1. Idle \in RoundRecord
      BY DEF Idle, RoundRecord, Phase
    <3>2. round \in [Link -> RoundRecord]
      BY <3>1 DEF Init
    <3> QED BY <1>1, <1>3, <3>2, BoundAssumption DEF Typed, Init, FileEnd
  <2> QED BY <1>2, <2>1, TypedParts
<1>5. LogsOK
  BY <1>2 DEF LogsOK, AllStamped, IdsUnique, FromHome, HistoryBacked,
              HistoryBehind, PrefixClosed
<1>6. ClocksSound
  <2>1. \A p \in Producer : clock[p] = VectorClock_new
    BY DEF Init
  <2>2. \A nd \in Intact : Backed(nd, VectorClock_new[nd])
    BY <1>3, IntactNode DEF Backed
  <2> QED BY <1>2, <2>1, <2>2 DEF ClocksSound, Sound
<1>7. PendingFresh
  BY DEF Init, PendingFresh
<1>8. RoundsFit
  BY <1>1 DEF RoundsFit, RoundFits, MessageClosed, BatchClosed, Delivering
<1> QED BY <1>4, <1>5, <1>6, <1>7, <1>8 DEF IInv

\* Every step.
LEMMA NextInvariant == IInv /\ [Next]_vars => IInv'
<1> SUFFICES ASSUME IInv, [Next]_vars PROVE IInv'
  OBVIOUS
<1>1. ASSUME NEW p \in Attributor, NEW c \in Change,
             record(p, c) \/ record_echo(p, c)
      PROVE  IInv'
  BY <1>1, RecordKeeps, RecordEchoKeeps
<1>2. ASSUME NEW p \in Governor, record_denial(p)
      PROVE  IInv'
  BY <1>2, RecordDenialKeeps
<1>3. ASSUME NEW p \in Producer, append(p) \/ append_fails(p) \/ Restart(p)
      PROVE  IInv'
  BY <1>3, AppendKeeps, RestartKeeps
<1>4. ASSUME NEW l \in Link, Round(l)
      PROVE  IInv'
  <2>1. CASE Request(l)
    BY <2>1, RequestKeeps
  <2>2. CASE \/ Load(l, "asked", "serving", Server[l])
             \/ Load(l, "answered", "applying", Client[l])
    BY <2>2, LoadKeeps
  <2>3. CASE Merge(l, "serving", Server[l])
    BY <2>3, MergeKeeps
  <2>4. CASE Merge(l, "applying", Client[l])
    BY <2>4, MergeKeeps
  <2>5. CASE Answer(l)
    BY <2>5, AnswerKeeps
  <2>6. CASE Done(l)
    BY <2>6, EndKeeps
  <2> QED BY <1>4, <2>1, <2>2, <2>3, <2>4, <2>5, <2>6 DEF Round
<1>5. ASSUME NEW l \in Link, RoundFails(l)
      PROVE  IInv'
  <2>1. CASE MergeFails(l, "serving", Server[l])
    BY <2>1, MergeKeeps
  <2>2. CASE MergeFails(l, "applying", Client[l])
    BY <2>2, MergeKeeps
  <2>3. CASE Break(l)
    BY <2>3, EndKeeps
  <2> QED BY <1>5, <2>1, <2>2, <2>3 DEF RoundFails
<1>6. CASE UNCHANGED vars
  <2>1. TypeOK'
    BY <1>6 DEF vars, IInv, TypeOK, Durable, Ops, Stamped
  <2>2. LogsOK'
    BY <1>6 DEF vars, IInv, LogsOK, AllStamped, IdsUnique, FromHome,
                HistoryBacked, HistoryBehind, PrefixClosed, Seen, Backed,
                Follows, Behind, Present, Durable, Ops, Carried, Intact,
                Stamped, op_id
  <2>3. ClocksSound' /\ PendingFresh'
    BY <1>6 DEF vars, IInv, ClocksSound, PendingFresh, Sound, Fresh, Seen,
                Backed, Follows, Behind, Present, Durable, Ops, Carried,
                Intact, Stamped
  <2>4. RoundsFit'
    BY <1>6 DEF vars, IInv, RoundsFit, RoundFits, MessageClosed, BatchClosed,
                Delivering, From, To, Seen, Present, Durable, Ops, Carried,
                Intact
  <2> QED BY <2>1, <2>2, <2>3, <2>4 DEF IInv
<1> QED BY <1>1, <1>2, <1>3, <1>4, <1>5, <1>6 DEF Next

\* The invariant holds throughout.
LEMMA Invariance == Spec => []IInv
BY InitInvariant, NextInvariant, PTL DEF Spec

-----------------------------------------------------------------------------
(* Ids and histories. *)

\* A producer that has a node id to itself never stamps an id twice, for any
\* machines, links and faults and whatever other producers share an id
\* (ChangeAttributor::record re-reads the log before it stamps).
THEOREM IdsAreUnique == Spec => []OwnIdsUnique
<1>1. IInv => OwnIdsUnique
  BY PresentTypes DEF IInv, LogsOK, IdsUnique, OwnIdsUnique
<1> QED BY <1>1, Invariance, PTL

\* A machine that has an operation has the whole history of it that intact
\* nodes stamped, but for what was spliced into an unfinished line: what the
\* filter of handle_exchange relies on.
THEOREM LogsAreCausallyClosed == Spec => []CausallyClosed
<1>1. IInv => CausallyClosed
  <2> SUFFICES ASSUME IInv, NEW m \in Machine, NEW o \in Ops(m),
                      NEW q \in Durable, q.node \in Intact, Past(q, o)
               PROVE  q \in Ops(m) \cup spliced
    BY DEF CausallyClosed
  <2>1. PICK i \in DOMAIN log[m] : o = log[m][i]
    BY DEF Ops
  <2>2. q \in Present /\ Seen(q, log[m][i].clock)
    BY <2>1, PresentTypes DEF IInv, Seen, Past
  <2>3. q \in spliced \/ \E j \in DOMAIN log[m] : log[m][j] = q
    BY <2>2 DEF IInv, LogsOK, PrefixClosed
  <2> QED BY <2>3 DEF Ops
<1> QED BY <1>1, Invariance, PTL

\* The types, among them that the id of every operation in a log is its own
\* component of its clock.
THEOREM TypeCorrect == Spec => []TypeOK
<1>1. IInv => TypeOK
  BY DEF IInv
<1> QED BY <1>1, Invariance, PTL

\* A half of a round that was merged with no failing write has brought the
\* receiver all that the sender's log had of intact nodes when the message
\* was made: merge_remote_ops and the filter of handle_exchange leave out
\* nothing.
THEOREM RoundsAreComplete == Spec => []RoundsDeliver
<1>1. IInv => RoundsDeliver
  <2> SUFFICES ASSUME IInv, NEW l \in Link, round[l].sent = {},
                      ~ round[l].cut, NEW o \in Carried(l), o.node \in Intact
               PROVE  o \in Ops(Receiver(l)) \cup spliced
    BY DEF RoundsDeliver
  <2>1. PICK i \in DOMAIN round[l].ops : o = round[l].ops[i]
    BY DEF Carried
  <2>2. Delivering(l, round[l])
    BY DEF IInv, RoundsFit, RoundFits
  <2>3. o \in Ops(To(l, round[l])) \cup spliced
    BY <2>1, <2>2 DEF Delivering
  <2> QED BY <2>3 DEF To, Receiver
<1> QED BY <1>1, Invariance, PTL

-----------------------------------------------------------------------------
(* The magnitude of a clock. *)

\* The element a sum takes next, and what the sum of c over s is when g has
\* the sums over the smaller sets.
Any(s) == CHOOSE x \in s : TRUE
SumFrom(c, g, s) == IF s = {} THEN 0 ELSE c[Any(s)] + g[s \ {Any(s)}]

\* The chosen element of a nonempty set is in it.
LEMMA AnyIsMember ==
  ASSUME NEW s, s # {}
  PROVE  Any(s) \in s
BY DEF Any

\* Taking the chosen element out of a finite set makes it smaller.
LEMMA AnySmaller ==
  ASSUME NEW s, IsFiniteSet(s), s # {}
  PROVE  /\ IsFiniteSet(s \ {Any(s)})
         /\ Cardinality(s \ {Any(s)}) \in Nat
         /\ Cardinality(s) = Cardinality(s \ {Any(s)}) + 1
<1>1. Any(s) \in s
  BY AnyIsMember
<1>2. /\ IsFiniteSet(s \ {Any(s)})
      /\ Cardinality(s \ {Any(s)}) = Cardinality(s) - 1
  BY <1>1, FS_RemoveElement
<1>3. Cardinality(s) \in Nat /\ Cardinality(s \ {Any(s)}) \in Nat
  BY <1>2, FS_CardinalityType
<1> QED BY <1>2, <1>3

\* The recursion of MapThenSumSet has a solution on every finite set.
LEMMA SumExists ==
  ASSUME NEW N, IsFiniteSet(N), NEW c
  PROVE  \E g : g = [s \in SUBSET N |-> SumFrom(c, g, s)]
<1> DEFINE Sub(n) == {s \in SUBSET N : Cardinality(s) <= n}
           Good(n) == \E g : g = [s \in Sub(n) |-> SumFrom(c, g, s)]
           Bad == {n \in Nat : ~ Good(n)}
<1>0. \A s \in SUBSET N : IsFiniteSet(s) /\ Cardinality(s) \in Nat
                          /\ Cardinality(s) <= Cardinality(N)
  BY FS_Subset, FS_CardinalityType
<1>1. Bad = {}
  <2> SUFFICES ASSUME Bad # {} PROVE FALSE
    OBVIOUS
  <2>0. Bad \in SUBSET Nat
    OBVIOUS
  <2>1. PICK b \in Bad : \A y \in Bad : b <= y
    <3> HIDE DEF Bad
    <3> QED BY <2>0, LeastElement
  <2>2. b \in Nat /\ ~ Good(b)
    OBVIOUS
  <2>3. b # 0
    <3> SUFFICES ASSUME b = 0 PROVE FALSE
      OBVIOUS
    <3> DEFINE g == [s \in Sub(0) |-> 0]
    <3>1. \A s \in Sub(0) : s = {}
      <4> SUFFICES ASSUME NEW s \in Sub(0) PROVE s = {}
        OBVIOUS
      <4>1. IsFiniteSet(s) /\ Cardinality(s) \in Nat /\ Cardinality(s) <= 0
        BY <1>0
      <4>2. Cardinality(s) = 0
        BY <4>1
      <4> QED BY <4>1, <4>2, FS_EmptySet
    <3>2. \A s \in Sub(0) : 0 = SumFrom(c, g, s)
      BY <3>1 DEF SumFrom
    <3>3. g = [s \in Sub(0) |-> SumFrom(c, g, s)]
      <4> HIDE DEF Sub
      <4> QED BY <3>2
    <3>4. Good(0)
      <4> HIDE DEF g
      <4> QED BY <3>3
    <3> QED BY <2>2, <3>4
  <2>4. b - 1 \in Nat /\ ~ (b <= b - 1)
    BY <2>2, <2>3
  <2>5. Good(b - 1)
    <3> HIDE DEF Good
    <3> QED BY <2>1, <2>4
  <2>6. PICK g : g = [s \in Sub(b - 1) |-> SumFrom(c, g, s)]
    BY <2>5
  <2> DEFINE h == [s \in Sub(b) |-> SumFrom(c, g, s)]
  <2>7. \A s \in Sub(b - 1) : s \in Sub(b) /\ g[s] = SumFrom(c, g, s)
    <3> SUFFICES ASSUME NEW s \in Sub(b - 1)
                 PROVE  s \in Sub(b) /\ g[s] = SumFrom(c, g, s)
      OBVIOUS
    <3>1. s \in SUBSET N /\ Cardinality(s) <= b - 1
      OBVIOUS
    <3>2. Cardinality(s) <= b
      BY <1>0, <2>2, <3>1
    <3>3. s \in Sub(b)
      BY <3>1, <3>2
    <3> HIDE DEF Sub
    <3> QED BY <2>6, <3>3
  <2>8. \A s \in Sub(b) : s # {} => s \ {Any(s)} \in Sub(b - 1)
    <3> SUFFICES ASSUME NEW s \in Sub(b), s # {}
                 PROVE  s \ {Any(s)} \in Sub(b - 1)
      OBVIOUS
    <3>1. IsFiniteSet(s) /\ Cardinality(s) \in Nat /\ Cardinality(s) <= b
      BY <1>0
    <3>2. /\ Cardinality(s \ {Any(s)}) \in Nat
          /\ Cardinality(s) = Cardinality(s \ {Any(s)}) + 1
      BY <3>1, AnySmaller
    <3>3. b \in Nat
      BY <2>2
    <3>4. Cardinality(s \ {Any(s)}) <= b - 1
      <4> HIDE DEF Sub, Bad
      <4> QED BY <3>1, <3>2, <3>3
    <3> QED BY <3>4
  <2> HIDE DEF Sub
  <2>9. \A s \in Sub(b) : SumFrom(c, h, s) = SumFrom(c, g, s)
    <3> SUFFICES ASSUME NEW s \in Sub(b)
                 PROVE  SumFrom(c, h, s) = SumFrom(c, g, s)
      OBVIOUS
    <3>1. CASE s = {}
      BY <3>1 DEF SumFrom
    <3>2. CASE s # {}
      <4>1. PICK t : t = s \ {Any(s)}
        OBVIOUS
      <4>2. t \in Sub(b - 1) /\ t \in Sub(b)
        BY <2>7, <2>8, <3>2, <4>1
      <4>3. h[t] = g[t]
        BY <2>7, <4>2
      <4> HIDE DEF h
      <4> QED BY <4>1, <4>3 DEF SumFrom
    <3> QED BY <3>1, <3>2
  <2>10. h = [s \in Sub(b) |-> SumFrom(c, h, s)]
    <3>1. h = [s \in Sub(b) |-> SumFrom(c, g, s)]
      OBVIOUS
    <3> HIDE DEF h
    <3> QED BY <2>9, <3>1
  <2>11. Good(b)
    <3> HIDE DEF h
    <3> QED BY <2>10
  <2> QED BY <2>2, <2>11
<1>2. Cardinality(N) \in Nat
  BY FS_CardinalityType
<1>3. Good(Cardinality(N))
  <2> HIDE DEF Good
  <2> QED BY <1>1, <1>2
<1>4. Sub(Cardinality(N)) = SUBSET N
  BY <1>0
<1> HIDE DEF Sub
<1> QED BY <1>3, <1>4

\* There are finitely many producers, and so finitely many nodes.
LEMMA NodesFinite == IsFiniteSet(Node)
<1> DEFINE f == [p \in Producer |-> NodeId[p]]
<1>1. f \in Surjection(Producer, Node)
  BY DEF Surjection, Node
<1> HIDE DEF f
<1> QED BY <1>1, FS_Surjection, ProducerAssumption

\* The sums of a clock over the sets of nodes.
Sums(c) == CHOOSE g : g = [s \in SUBSET Node |-> SumFrom(c, g, s)]

\* total is the sum over all nodes, and a sum is one summand and the sum of
\* the rest.
LEMMA TotalIsSum ==
  ASSUME NEW c
  PROVE  /\ total(c) = Sums(c)[Node]
         /\ Sums(c)[{}] = 0
         /\ \A s \in SUBSET Node :
              s # {} => Sums(c)[s] = c[Any(s)] + Sums(c)[s \ {Any(s)}]
<1>1. total(c) = Sums(c)[Node]
  BY DEF total, MapThenSumSet, MapThenFoldSet, Sums, SumFrom, Any
<1>2. Sums(c) = [s \in SUBSET Node |-> SumFrom(c, Sums(c), s)]
  BY SumExists, NodesFinite DEF Sums
<1>3. PICK g : g = Sums(c)
  OBVIOUS
<1>4. g = [s \in SUBSET Node |-> SumFrom(c, g, s)]
  BY <1>2, <1>3
<1>5. \A s \in SUBSET Node : g[s] = SumFrom(c, g, s)
  BY <1>4
<1>6. {} \in SUBSET Node
  OBVIOUS
<1> QED BY <1>1, <1>3, <1>5, <1>6 DEF SumFrom

\* A clock that is behind nowhere has no smaller magnitude, and a larger one
\* if it is ahead somewhere.
LEMMA TotalGrows ==
  ASSUME NEW c \in VectorClock, NEW d \in VectorClock,
         \A nd \in Node : c[nd] <= d[nd]
  PROVE  /\ total(c) \in Nat /\ total(d) \in Nat
         /\ total(c) <= total(d)
         /\ (\E nd \in Node : c[nd] < d[nd]) => total(c) < total(d)
<1>1. PICK C : C = Sums(c)
  OBVIOUS
<1>2. PICK D : D = Sums(d)
  OBVIOUS
<1> DEFINE P(s) == /\ C[s] \in Nat /\ D[s] \in Nat
                   /\ C[s] <= D[s]
                   /\ (\E nd \in s : c[nd] < d[nd]) => C[s] < D[s]
           Bad == {n \in Nat : \E s \in SUBSET Node :
                                 Cardinality(s) = n /\ ~ P(s)}
<1>0. \A s \in SUBSET Node : IsFiniteSet(s) /\ Cardinality(s) \in Nat
  BY NodesFinite, FS_Subset, FS_CardinalityType
<1>3. \A nd \in Node : c[nd] \in Nat /\ d[nd] \in Nat
  BY DEF VectorClock, Counter
<1>4. P({})
  BY <1>1, <1>2, TotalIsSum
<1>5. Bad = {}
  <2> SUFFICES ASSUME Bad # {} PROVE FALSE
    OBVIOUS
  <2>0. Bad \in SUBSET Nat
    OBVIOUS
  <2>1. PICK b \in Bad : \A y \in Bad : b <= y
    <3> HIDE DEF Bad
    <3> QED BY <2>0, LeastElement
  <2>2. PICK s \in SUBSET Node : Cardinality(s) = b /\ ~ P(s)
    OBVIOUS
  <2>3. s # {} /\ IsFiniteSet(s) /\ b \in Nat
    BY <1>0, <1>4, <2>2
  <2>4. PICK x : x = Any(s)
    OBVIOUS
  <2>5. x \in s /\ x \in Node
    BY <2>3, <2>4, AnyIsMember
  <2>6. PICK t : t = s \ {x}
    OBVIOUS
  <2>7. /\ t \in SUBSET Node /\ Cardinality(t) \in Nat
        /\ b = Cardinality(t) + 1
    BY <2>2, <2>3, <2>4, <2>6, AnySmaller
  <2>8. P(t)
    <3>1. ~ (b <= Cardinality(t))
      BY <2>7
    <3>2. Cardinality(t) \notin Bad
      <4> HIDE DEF Bad
      <4> QED BY <2>1, <3>1
    <3> HIDE DEF P
    <3> QED BY <2>7, <3>2
  <2>9. C[s] = c[x] + C[t] /\ D[s] = d[x] + D[t]
    BY <1>1, <1>2, <2>3, <2>4, <2>6, TotalIsSum
  <2>10. c[x] \in Nat /\ d[x] \in Nat /\ c[x] <= d[x]
    BY <1>3, <2>5
  <2>11. (\E nd \in s : c[nd] < d[nd]) =>
           c[x] < d[x] \/ \E nd \in t : c[nd] < d[nd]
    BY <2>6
  <2>12. P(s)
    BY <2>8, <2>9, <2>10, <2>11
  <2> QED BY <2>2, <2>12
<1>6. P(Node)
  <2>1. Cardinality(Node) \notin Bad
    BY <1>5
  <2>2. Cardinality(Node) \in Nat
    BY <1>0
  <2> HIDE DEF P
  <2> QED BY <2>1, <2>2
<1>7. total(c) = C[Node] /\ total(d) = D[Node]
  BY <1>1, <1>2, TotalIsSum
<1> QED BY <1>6, <1>7

-----------------------------------------------------------------------------
(* Last write wins. *)

\* The parts of a rank are numbers.
LEMMA RankTypes ==
  ASSUME NEW o \in Op
  PROVE  total(o.clock) \in Nat /\ o.node \in Nat /\ o.n \in Nat
<1>1. o.clock \in VectorClock /\ o.node \in Node /\ o.n \in Nat
  BY DEF Op, Counter
<1>2. \A nd \in Node : o.clock[nd] <= o.clock[nd]
  BY <1>1 DEF VectorClock, Counter
<1>3. o.node \in Nat
  BY <1>1, ProducerAssumption DEF Node
<1> QED BY <1>1, <1>2, <1>3, TotalGrows

\* Outranks is a strict order, total up to the id.
LEMMA OutranksOrders ==
  /\ \A o, q \in Op : Outranks(o, q) => ~ Outranks(q, o)
  /\ \A o, q, r \in Op :
       ~ Outranks(o, q) /\ ~ Outranks(q, r) => ~ Outranks(o, r)
  /\ \A o, q \in Op :
       ~ Outranks(o, q) /\ ~ Outranks(q, o) => op_id(o) = op_id(q)
<1>1. \A o \in Op : total(o.clock) \in Nat /\ o.node \in Nat /\ o.n \in Nat
  BY RankTypes
<1> QED BY <1>1 DEF Outranks, Above, op_id

\* Of a nonempty set of positions of a log, one is the first that no other
\* outranks.
LEMMA BestExists ==
  ASSUME NEW s \in Seq(Op), NEW C \in SUBSET (DOMAIN s), C # {}
  PROVE  \E i \in C : \A j \in C : /\ ~ Outranks(s[j], s[i])
                                   /\ Outranks(s[i], s[j]) \/ i <= j
<1> DEFINE Best(i, n) == \A j \in C : j <= n => 
                           /\ ~ Outranks(s[j], s[i])
                           /\ Outranks(s[i], s[j]) \/ i <= j
           Bad == {n \in Nat : /\ \E i \in C : i <= n
                               /\ ~ \E i \in C : i <= n /\ Best(i, n)}
<1>0. \A i \in C : i \in Nat /\ i <= Len(s) /\ s[i] \in Op
  OBVIOUS
<1>1. Bad = {}
  <2> SUFFICES ASSUME Bad # {} PROVE FALSE
    OBVIOUS
  <2>0. Bad \in SUBSET Nat
    OBVIOUS
  <2>1. PICK b \in Bad : \A y \in Bad : b <= y
    <3> HIDE DEF Bad
    <3> QED BY <2>0, LeastElement
  <2>2. b \in Nat
    BY <2>0
  <2>3. \A i \in C : i <= b => ~ Best(i, b)
    OBVIOUS
  <2>4. PICK k \in C : k <= b
    OBVIOUS
  <2>5. b # 0 /\ b - 1 \in Nat
    BY <1>0, <2>2, <2>4
  <2>6. b - 1 \notin Bad
    <3> HIDE DEF Bad
    <3> QED BY <2>1, <2>2, <2>5
  <2>7. CASE \E i \in C : i <= b - 1
    <3>1. PICK i \in C : i <= b - 1 /\ Best(i, b - 1)
      BY <2>5, <2>6, <2>7
    <3>2. i \in Nat /\ s[i] \in Op /\ i <= b
      BY <1>0, <2>2, <3>1
    <3>3. \A j \in C : j <= b => j = b \/ j <= b - 1
      BY <1>0, <2>2
    <3>4. ASSUME NEW j \in C, j <= b - 1
          PROVE  ~ Outranks(s[j], s[i]) /\ (Outranks(s[i], s[j]) \/ i <= j)
      BY <3>1, <3>4
    <3> HIDE DEF Bad
    <3>5. CASE b \in C
      <4>1. s[b] \in Op
        BY <1>0, <3>5
      <4>2. CASE Outranks(s[b], s[i])
        <5>1. ~ Outranks(s[b], s[b])
          BY <4>1, OutranksOrders
        <5>2. ASSUME NEW j \in C, j <= b - 1
              PROVE  Outranks(s[b], s[j]) /\ ~ Outranks(s[j], s[b])
          <6>1. s[j] \in Op /\ ~ Outranks(s[j], s[i])
            BY <1>0, <3>4, <5>2
          <6> QED BY <3>2, <4>1, <4>2, <6>1, OutranksOrders
        <5>3. Best(b, b)
          BY <2>2, <3>3, <5>1, <5>2
        <5> HIDE DEF Best
        <5> QED BY <2>2, <2>3, <3>5, <5>3
      <4>3. CASE ~ Outranks(s[b], s[i])
        <5>1. Best(i, b)
          BY <3>2, <3>3, <3>4, <4>3
        <5> HIDE DEF Best
        <5> QED BY <2>3, <3>2, <5>1
      <4> QED BY <4>2, <4>3
    <3>6. CASE b \notin C
      <4>1. Best(i, b)
        BY <3>3, <3>4, <3>6
      <4> HIDE DEF Best
      <4> QED BY <2>3, <3>2, <4>1
    <3> QED BY <3>5, <3>6
  <2>8. CASE ~ \E i \in C : i <= b - 1
    <3>1. \A i \in C : i <= b => i = b
      BY <1>0, <2>2, <2>8
    <3>2. k = b /\ s[k] \in Op
      BY <1>0, <2>4, <3>1
    <3>3. Best(b, b)
      BY <1>0, <2>2, <3>1, <3>2, OutranksOrders
    <3> QED BY <2>2, <2>3, <2>4, <3>2, <3>3
  <2> QED BY <2>7, <2>8
<1>2. PICK k \in C : TRUE
  OBVIOUS
<1>3. Len(s) \in Nat /\ k <= Len(s)
  BY <1>0
<1>4. \E i \in C : i <= Len(s) /\ Best(i, Len(s))
  BY <1>1, <1>3
<1> QED BY <1>0, <1>4

\* resolve_text: it picks the first candidate that none outranks.
LEMMA ResolveIsBest ==
  ASSUME NEW s \in Seq(Op), NEW path, Candidates(s, path) # {}
  PROVE  \E i \in Candidates(s, path) :
           /\ resolve_text(s, path) = s[i]
           /\ \A j \in Candidates(s, path) :
                /\ ~ Outranks(s[j], s[i])
                /\ Outranks(s[i], s[j]) \/ i <= j
<1> DEFINE C == Candidates(s, path)
<1>1. C \in SUBSET (DOMAIN s) /\ C # {}
  BY DEF Candidates
<1>2. resolve_text(s, path) =
        s[CHOOSE i \in C : \A j \in C : /\ ~ Outranks(s[j], s[i])
                                        /\ Outranks(s[i], s[j]) \/ i <= j]
  BY DEF resolve_text
<1> HIDE DEF C
<1>3. \E i \in C : \A j \in C : /\ ~ Outranks(s[j], s[i])
                                /\ Outranks(s[i], s[j]) \/ i <= j
  BY <1>1, BestExists
<1>4. PICK i : i = CHOOSE k \in C : \A j \in C :
                       /\ ~ Outranks(s[j], s[k])
                       /\ Outranks(s[k], s[j]) \/ k <= j
  OBVIOUS
<1>5. /\ i \in C
      /\ \A j \in C : /\ ~ Outranks(s[j], s[i])
                      /\ Outranks(s[i], s[j]) \/ i <= j
  BY <1>3, <1>4
<1>6. resolve_text(s, path) = s[i]
  BY <1>2, <1>4
<1>7. \A j \in Candidates(s, path) : /\ ~ Outranks(s[j], s[i])
                                     /\ Outranks(s[i], s[j]) \/ i <= j
  BY <1>5 DEF C
<1>8. i \in Candidates(s, path)
  BY <1>5 DEF C
<1> QED BY <1>6, <1>7, <1>8

\* Two machines with the same changes of a file, all of intact nodes, have the
\* same head of it: LastWriteWins::resolve_text picks the same one in whatever
\* order and however often the operations reached them.
THEOREM MachinesAgreeOnHeads == Spec => []HeadsAgree
<1>1. IInv => HeadsAgree
  <2> DEFINE ids(x, path) ==
               {op_id(log[x][i]) : i \in Candidates(log[x], path)}
  <2> SUFFICES ASSUME IInv, NEW m \in Machine, NEW k \in Machine,
                      NEW path \in {c[1] : c \in Change},
                      ids(m, path) = ids(k, path),
                      \A id \in ids(m, path) : id[1] \in Intact
               PROVE  materialize_text(log[m])[path]
                        = materialize_text(log[k])[path]
    BY DEF HeadsAgree
  <2>1. PICK s : s = log[m]
    OBVIOUS
  <2>2. PICK t : t = log[k]
    OBVIOUS
  <2>3. s \in Seq(Op) /\ t \in Seq(Op)
    BY <2>1, <2>2 DEF IInv, TypeOK
  <2>4. /\ \A i \in Candidates(s, path) :
             /\ s[i] \in Present /\ s[i] \in Op
             /\ s[i].node \in Intact
        /\ \A j \in Candidates(t, path) : t[j] \in Present /\ t[j] \in Op
    <3>1. /\ \A i \in Candidates(s, path) : i \in DOMAIN s
          /\ \A j \in Candidates(t, path) : j \in DOMAIN t
      BY DEF Candidates
    <3>2. ASSUME NEW i \in Candidates(s, path)
          PROVE  s[i].node \in Intact
      <4>1. op_id(s[i]) \in ids(m, path)
        BY <2>1
      <4>2. op_id(s[i])[1] \in Intact
        BY <4>1
      <4> QED BY <4>2 DEF op_id
    <3> QED BY <2>1, <2>2, <3>1, <3>2, PresentTypes DEF IInv
  <2>5. \A o, q \in Present : op_id(o) = op_id(q) /\ o.node \in Intact => o = q
    BY DEF IInv, LogsOK, IdsUnique
  <2>6. \A i \in Candidates(s, path) :
          \E j \in Candidates(t, path) : s[i] = t[j]
    <3> SUFFICES ASSUME NEW i \in Candidates(s, path)
                 PROVE  \E j \in Candidates(t, path) : s[i] = t[j]
      OBVIOUS
    <3>1. op_id(s[i]) \in ids(k, path)
      BY <2>1
    <3>2. PICK j \in Candidates(t, path) : op_id(s[i]) = op_id(t[j])
      BY <2>2, <3>1
    <3> QED BY <2>4, <2>5, <3>2
  <2>7. \A j \in Candidates(t, path) :
          \E i \in Candidates(s, path) : t[j] = s[i]
    <3> SUFFICES ASSUME NEW j \in Candidates(t, path)
                 PROVE  \E i \in Candidates(s, path) : t[j] = s[i]
      OBVIOUS
    <3>1. op_id(t[j]) \in ids(m, path)
      BY <2>2
    <3>2. PICK i \in Candidates(s, path) : op_id(t[j]) = op_id(s[i])
      BY <2>1, <3>1
    <3> QED BY <2>4, <2>5, <3>2
  <2> HIDE DEF ids
  <2>8. CASE Candidates(s, path) = {}
    <3>1. Candidates(t, path) = {}
      BY <2>7, <2>8
    <3> QED BY <2>1, <2>2, <2>8, <3>1 DEF materialize_text
  <2>9. CASE Candidates(s, path) # {}
    <3>0. Candidates(t, path) # {}
      BY <2>6, <2>9
    <3>1. PICK i \in Candidates(s, path) :
            /\ resolve_text(s, path) = s[i]
            /\ \A j \in Candidates(s, path) : ~ Outranks(s[j], s[i])
      BY <2>3, <2>9, ResolveIsBest
    <3>2. PICK j \in Candidates(t, path) :
            /\ resolve_text(t, path) = t[j]
            /\ \A x \in Candidates(t, path) : ~ Outranks(t[x], t[j])
      BY <2>3, <3>0, ResolveIsBest
    <3>3. ~ Outranks(s[i], t[j]) /\ ~ Outranks(t[j], s[i])
      BY <2>6, <2>7, <3>1, <3>2
    <3>4. op_id(s[i]) = op_id(t[j])
      BY <2>4, <3>3, OutranksOrders
    <3>5. s[i] = t[j]
      BY <2>4, <2>5, <3>4
    <3> QED BY <2>1, <2>2, <2>9, <3>0, <3>1, <3>2, <3>5 DEF materialize_text
  <2> QED BY <2>8, <2>9
<1> QED BY <1>1, Invariance, PTL

\* An operation outranks those of intact nodes in its history.
LEMMA LaterOutranks ==
  ASSUME IInv, NEW o \in Present, NEW q \in Present, Seen(q, o.clock), q # o
  PROVE  Outranks(o, q)
<1>1. o \in Op /\ q \in Op /\ Stamped(o)
  BY PresentTypes DEF IInv, LogsOK, AllStamped
<1>2. /\ o.clock \in VectorClock /\ q.clock \in VectorClock
      /\ o.node \in Node /\ o.clock[o.node] = o.n
  BY <1>1, OpTypes DEF Stamped
<1>3. Follows(o, q)
  BY DEF IInv, LogsOK, HistoryBehind
<1>4. /\ \A nd \in Node : q.clock[nd] <= o.clock[nd]
      /\ q.clock[o.node] < o.clock[o.node]
  BY <1>2, <1>3 DEF Follows, Behind
<1>5. /\ total(q.clock) < total(o.clock)
      /\ total(q.clock) \in Nat /\ total(o.clock) \in Nat
  BY <1>2, <1>4, TotalGrows
<1> QED BY <1>5 DEF Outranks

\* The head of a file that LastWriteWins::resolve_text picks is never an
\* operation of an intact node that another candidate was stamped with
\* knowledge of, however the machines' writes, faults and rounds fall.
THEOREM HeadsAreLatest == Spec => []HeadIsLatest
<1>1. IInv => HeadIsLatest
  <2> SUFFICES ASSUME IInv, NEW m \in Machine,
                      NEW path \in {c[1] : c \in Change},
                      NEW i \in Candidates(log[m], path),
                      materialize_text(log[m])[path].node \in Intact,
                      Past(materialize_text(log[m])[path], log[m][i])
               PROVE  log[m][i] = materialize_text(log[m])[path]
    BY DEF HeadIsLatest
  <2>1. PICK s : s = log[m]
    OBVIOUS
  <2>2. s \in Seq(Op) /\ Candidates(s, path) # {}
    BY <2>1 DEF IInv, TypeOK
  <2>3. PICK k \in Candidates(s, path) :
          /\ resolve_text(s, path) = s[k]
          /\ \A j \in Candidates(s, path) : ~ Outranks(s[j], s[k])
    BY <2>2, ResolveIsBest
  <2>4. materialize_text(s)[path] = s[k]
    BY <2>2, <2>3 DEF materialize_text
  <2>5. s[i] \in Present /\ s[k] \in Present
    BY <2>1, <2>3, PresentTypes DEF Candidates, IInv
  <2>6. ~ Outranks(s[i], s[k]) /\ Seen(s[k], s[i].clock)
    BY <2>1, <2>3, <2>4 DEF Past, Seen
  <2> QED BY <2>1, <2>4, <2>5, <2>6, LaterOutranks
<1> QED BY <1>1, Invariance, PTL

-----------------------------------------------------------------------------
(* What a step does to the text. *)

\* What a log has after a step, it had at that place, or it is its last.
OnlyTheLastIsNew ==
  \A m \in Machine : \A i \in DOMAIN log'[m] :
    \/ i \in DOMAIN log[m] /\ log'[m][i] = log[m][i]
    \/ \A j \in DOMAIN log'[m] : j <= i

\* Every step is such.
LEMMA StepsAppend ==
  ASSUME IInv, [Next]_vars
  PROVE  OnlyTheLastIsNew
<1>1. ASSUME UNCHANGED log PROVE OnlyTheLastIsNew
  BY <1>1 DEF OnlyTheLastIsNew
<1>2. ASSUME NEW m \in Machine, NEW o \in Op,
             Write(m, o) \/ WriteFails(m, o)
      PROVE  OnlyTheLastIsNew
  <2>1. Moves(m, {o})
    BY <1>2, WriteMoves DEF IInv
  <2> QED BY <2>1 DEF Moves, OnlyTheLastIsNew
<1>3. ASSUME NEW p \in Producer, append(p) \/ append_fails(p)
      PROVE  OnlyTheLastIsNew
  <2>1. /\ Home[p] \in Machine /\ pending[p] \in Op
        /\ Write(Home[p], pending[p]) \/ WriteFails(Home[p], pending[p])
    BY <1>3, Homes DEF append, append_fails, IInv, TypeOK
  <2> QED BY <1>2, <2>1
<1>4. ASSUME NEW l \in Link, NEW m \in Machine, NEW phase,
             Merge(l, phase, m) \/ MergeFails(l, phase, m)
      PROVE  OnlyTheLastIsNew
  <2>1. PICK i \in round[l].sent : \/ Write(m, round[l].ops[i])
                                   \/ WriteFails(m, round[l].ops[i])
    BY <1>4 DEF Merge, MergeFails
  <2>2. round[l].ops[i] \in Op
    BY <2>1 DEF IInv, TypeOK
  <2> QED BY <1>2, <2>1, <2>2
<1>5. ASSUME NEW l \in Link, Round(l) \/ RoundFails(l)
      PROVE  OnlyTheLastIsNew
  <2>1. Server[l] \in Machine /\ Client[l] \in Machine
    BY LinkAssumption
  <2>2. \/ UNCHANGED log
        \/ Merge(l, "serving", Server[l]) \/ Merge(l, "applying", Client[l])
        \/ MergeFails(l, "serving", Server[l])
        \/ MergeFails(l, "applying", Client[l])
    BY <1>5 DEF Round, RoundFails, Request, Load, Answer, Done, Break
  <2> QED BY <1>1, <1>4, <2>1, <2>2
<1>6. CASE \/ \E p \in Attributor, c \in Change :
                record(p, c) \/ record_echo(p, c)
           \/ \E p \in Governor : record_denial(p)
           \/ \E p \in Producer : Restart(p)
           \/ UNCHANGED vars
  BY <1>1, <1>6 DEF record, record_echo, record_denial, Restart, vars
<1> QED BY <1>3, <1>5, <1>6 DEF Next

\* The text a machine shows for a file never goes back: its head stays, or
\* gives way to an operation of higher rank, unless its own line was written
\* on.
HeadsMoveUp ==
  \A m \in Machine : \A path \in {c[1] : c \in Change} :
    LET old == materialize_text(log[m])[path]
        new == materialize_text(log'[m])[path]
    IN  Candidates(log[m], path) # {} /\ old \in Ops(m)' =>
          new = old \/ Outranks(new, old)

\* materialize_text only moves forward, whatever a machine appends or merges
\* and in whatever order operations arrive, shared node ids or not.
THEOREM TextNeverGoesBack == Spec => [][HeadsMoveUp]_vars
<1>1. IInv /\ [Next]_vars => HeadsMoveUp
  <2> SUFFICES ASSUME IInv, [Next]_vars, NEW m \in Machine,
                      NEW path \in {c[1] : c \in Change},
                      Candidates(log[m], path) # {},
                      materialize_text(log[m])[path] \in Ops(m)'
               PROVE  \/ materialize_text(log'[m])[path]
                           = materialize_text(log[m])[path]
                      \/ Outranks(materialize_text(log'[m])[path],
                                  materialize_text(log[m])[path])
    BY DEF HeadsMoveUp
  <2>0. IInv' /\ OnlyTheLastIsNew
    BY NextInvariant, StepsAppend
  <2>1. PICK s : s = log[m]
    OBVIOUS
  <2>2. PICK t : t = log'[m]
    OBVIOUS
  <2>3. s \in Seq(Op) /\ t \in Seq(Op)
    BY <2>0, <2>1, <2>2 DEF IInv, TypeOK
  <2>4. \A x \in DOMAIN t : \/ x \in DOMAIN s /\ t[x] = s[x]
                            \/ \A y \in DOMAIN t : y <= x
    BY <2>0, <2>1, <2>2 DEF OnlyTheLastIsNew
  <2>5. PICK i \in Candidates(s, path) :
          /\ resolve_text(s, path) = s[i]
          /\ \A x \in Candidates(s, path) :
               ~ Outranks(s[x], s[i]) /\ (Outranks(s[i], s[x]) \/ i <= x)
    BY <2>1, <2>3, ResolveIsBest
  <2>6. materialize_text(s)[path] = s[i]
    BY <2>1, <2>5 DEF materialize_text
  <2>7. PICK k \in DOMAIN t : t[k] = s[i]
    <3>1. s[i] \in Ops(m)'
      BY <2>1, <2>6
    <3> QED BY <2>2, <3>1 DEF Ops
  <2>8. k \in Candidates(t, path)
    BY <2>5, <2>7 DEF Candidates
  <2>9. PICK j \in Candidates(t, path) :
          /\ resolve_text(t, path) = t[j]
          /\ \A x \in Candidates(t, path) :
               ~ Outranks(t[x], t[j]) /\ (Outranks(t[j], t[x]) \/ j <= x)
    BY <2>3, <2>8, ResolveIsBest
  <2>10. materialize_text(t)[path] = t[j]
    BY <2>8, <2>9 DEF materialize_text
  <2>11. /\ i \in DOMAIN s /\ j \in DOMAIN t
         /\ s[i] \in Op /\ t[j] \in Op
         /\ \A x \in DOMAIN s : x \in Nat /\ x >= 1
         /\ \A x \in DOMAIN t : x \in Nat /\ \A y \in Nat : 1 <= y /\ y <= x
                                                     => y \in DOMAIN t
    BY <2>3, <2>5, <2>9 DEF Candidates
  <2>12. CASE Outranks(t[j], t[k])
    BY <2>1, <2>2, <2>6, <2>7, <2>10, <2>12
  <2>13. CASE ~ Outranks(t[j], t[k])
    <3>1. j <= k
      BY <2>8, <2>9, <2>13
    <3>2. CASE \A y \in DOMAIN t : y <= j
      <4>1. k = j
        BY <2>7, <2>11, <3>1, <3>2
      <4> QED BY <2>1, <2>2, <2>6, <2>7, <2>10, <4>1
    <3>3. CASE j \in DOMAIN s /\ t[j] = s[j]
      <4>1. j \in Candidates(s, path)
        BY <2>9, <3>3 DEF Candidates
      <4>2. ~ Outranks(s[i], s[j])
        BY <2>7, <2>8, <2>9, <3>3
      <4>3. i <= j
        BY <2>5, <4>1, <4>2
      <4>4. i \in DOMAIN t
        BY <2>11, <4>3
      <4>5. CASE t[i] = s[i]
        <5>1. i \in Candidates(t, path)
          BY <2>5, <4>4, <4>5 DEF Candidates
        <5>2. j <= i
          BY <2>7, <2>9, <2>13, <4>5, <5>1
        <5>3. j = i
          BY <2>11, <4>3, <5>2
        <5> QED BY <2>1, <2>2, <2>6, <2>10, <4>5, <5>3
      <4>6. CASE \A y \in DOMAIN t : y <= i
        <5>1. j = i
          BY <2>11, <4>3, <4>6
        <5> QED BY <2>1, <2>2, <2>6, <2>10, <3>3, <5>1
      <4> QED BY <2>4, <4>4, <4>5, <4>6
    <3> QED BY <2>4, <2>11, <3>2, <3>3
  <2> QED BY <2>12, <2>13
<1> QED BY <1>1, Invariance, PTL DEF Spec
=============================================================================
