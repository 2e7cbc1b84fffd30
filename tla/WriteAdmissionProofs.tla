------------------------- MODULE WriteAdmissionProofs -------------------------
(***************************************************************************)
(* Theorems about the clients of the write gate, for any tool calls, tasks *)
(* and scopes.                                                             *)
(***************************************************************************)
EXTENDS WriteAdmission, LockTableProofs

(***************************************************************************)
(* Types and phases                                                        *)
(***************************************************************************)
\* The places a thread of each kind can be in.
Phases ==
  /\ \A c \in Call : pc[c] \in {"start", "checking", "working", "releasing",
                                "done", "failed", "blocked", "panicked"}
  /\ \A w \in Task : pc[w] \in {"locking", "checking", "working", "releasing",
                                "rollback", "done", "failed", "panicked"}
  /\ \A e \in Editor : pc[e] \in {"start", "pruned", "dropped", "checking"}

\* A worker inside acquire has an entry to acquire; one that executes has
\* none left.
Entries ==
  \A w \in Task : /\ pc[w] = "checking" => todo[w] # <<>>
                  /\ pc[w] = "working" => todo[w] = <<>>

SInv == TypeOK /\ Phases /\ Entries

\* Every thread inside acquire, or about to enter it, asks for something the
\* gate can grant.
LEMMA RequestIsTyped ==
  ASSUME SInv, NEW x \in Actor,
         pc[x] = "checking" \/ (x \in Task => todo[x] # <<>>)
  PROVE  RequestOf(x) \in Request
<1>1. AgentOf[x] \in Agent
  BY ActorAssumption
<1>2. CASE x \in Call
  BY <1>1, <1>2, ActorAssumption, RangeAssumption DEF RequestOf, Ask, Request
<1>3. CASE x \in Task
  <2>1. todo[x] \in Seq(Path) /\ todo[x] # <<>>
    BY <1>3 DEF SInv, TypeOK, Entries
  <2>2. Head(todo[x]) \in Path
    BY <2>1
  <2> QED
    BY <1>1, <1>3, <2>2, ThreadAssumption, RangeAssumption
    DEF RequestOf, Ask, Request
<1>4. CASE x \in Editor
  BY <1>1, <1>4, ThreadAssumption, ActorAssumption DEF RequestOf, Ask, Request
<1> QED
  BY <1>2, <1>3, <1>4 DEF Actor

\* What a thread asks for is one of the requests it can make.
LEMMA RequestIsAsked ==
  ASSUME SInv, NEW x \in Actor, x \in Task => todo[x] # <<>>
  PROVE  RequestOf(x) \in {Ask(y, p) : y \in Actor, p \in Path}
<1>1. CASE x \in Call
  BY <1>1, ActorAssumption DEF RequestOf
<1>2. CASE x \in Task
  <2>1. todo[x] \in Seq(Path) /\ todo[x] # <<>>
    BY <1>2 DEF SInv, TypeOK
  <2>2. Head(todo[x]) \in Path
    BY <2>1
  <2> QED
    BY <1>2, <2>2, ThreadAssumption DEF RequestOf
<1>3. CASE x \in Editor
  BY <1>3, ThreadAssumption, ActorAssumption DEF RequestOf
<1> QED
  BY <1>1, <1>2, <1>3 DEF Actor

\* A step drops locks, or adds the one a request is granted, or lets them
\* all grow older.
LEMMA TableMoves ==
  ASSUME [Next]_vars
  PROVE  \/ locks' \subseteq locks
         \/ \E x \in Actor : Admitted(x)
         \/ locks' = Aged(locks)
<1>1. ASSUME NEW c \in Call, CallStep(c), ~ Admitted(c)
      PROVE  locks' \subseteq locks
  BY <1>1
  DEF CallStep, CallDenied, CallClaims, CallAdmitted, CallBlocked,
      CallRefused, CallReturns,
      CallReleases, Panics, PruneForAcquire, Prunes, GivesBack, prune_stale,
      Refused, release
<1>2. ASSUME NEW w \in Task, WorkerStep(w), ~ Admitted(w)
      PROVE  locks' \subseteq locks
  BY <1>2
  DEF WorkerStep, WorkerDenied, WorkerTriesNext, WorkerAdmitted, WorkerRefused,
      WorkerExecutes, WorkerReturns, WorkerReleasesOne, WorkerEnds, Panics,
      PruneForAcquire, Prunes, GivesBack, prune_stale, Refused, release
<1>3. ASSUME NEW e \in Editor, PresenceStep(e), ~ Admitted(e)
      PROVE  locks' \subseteq locks
  BY <1>3
  DEF PresenceStep, PresencePrunes, PresenceDrops, PresenceUnmapped,
      PresenceAsks, PresenceAnswered, PruneForAcquire, Prunes, GivesBack,
      prune_stale, Refused, release_for_agent
<1> QED
  BY <1>1, <1>2, <1>3 DEF Next, Tick, vars, Actor

\* A step leaves locks in the table that have their types.
LEMMA TableIsTyped ==
  ASSUME SInv, [Next]_vars
  PROVE  locks' \subseteq EditLock
<1>1. locks \in SUBSET EditLock
  BY DEF SInv, TypeOK
<1>2. ASSUME NEW x \in Actor, Admitted(x)
      PROVE  locks' \subseteq EditLock
  <2>1. RequestOf(x) \in Request
    BY <1>2, RequestIsTyped DEF Admitted
  <2>2. Granted(locks, RequestOf(x)) \in SUBSET EditLock
    BY <1>1, <2>1, GrantedIsTyped
  <2> QED
    BY <1>2, <2>2 DEF Admitted
<1>3. CASE locks' = Aged(locks)
  BY <1>1, <1>3, AgedIsTyped
<1> QED
  BY <1>1, <1>2, <1>3, TableMoves

\* What a step does to the rest of the state: the thread that moves keeps to
\* its phases, the sequences stay sequences of paths.
LEMMA SInvInductive ==
  ASSUME SInv, [Next]_vars
  PROVE  SInv'
<1>1. locks' \subseteq EditLock
  BY TableIsTyped
<1>2. /\ pc \in [Actor -> Phase] /\ lost \subseteq Actor
      /\ todo \in [Task -> Seq(Path)] /\ held \in [Task -> Seq(Path)]
      /\ Phases /\ Entries
  BY DEF SInv, TypeOK
<1>3. ASSUME lost' = lost \/ \E n : Prunes(n) \/ \E x, L : GivesBack(x, L)
      PROVE  lost' \subseteq Actor
  BY <1>2, <1>3 DEF Prunes, GivesBack
<1>4. ASSUME NEW c \in Call, CallStep(c)
      PROVE  SInv'
  <2>1. c \in Actor /\ c \notin Task /\ c \notin Editor
    BY ThreadAssumption DEF Actor
  <2>2. UNCHANGED <<todo, held>>
    BY <1>4 DEF CallStep, CallDenied, CallClaims, CallAdmitted, CallBlocked,
                CallRefused,
                CallReturns, CallReleases, Panics
  <2>3. lost' \subseteq Actor
    BY <1>3, <1>4
    DEF CallStep, CallDenied, CallClaims, CallAdmitted, CallBlocked,
        CallRefused,
        CallReturns, CallReleases, Panics, PruneForAcquire
  <2>4. PICK phase \in {"checking", "working", "releasing", "done", "failed",
                        "blocked", "panicked"} :
          pc' = [pc EXCEPT ![c] = phase]
    BY <1>4
    DEF CallStep, CallDenied, CallClaims, CallAdmitted, CallBlocked,
        CallRefused,
        CallReturns, CallReleases, Panics, PruneForAcquire, Goto
  <2>5. pc' \in [Actor -> Phase]
    BY <1>2, <2>4 DEF Phase
  <2>6. Phases'
    BY <1>2, <2>1, <2>4 DEF Phases, Actor
  <2>7. Entries'
    BY <1>2, <2>1, <2>2, <2>4 DEF Entries, Actor
  <2> QED
    BY <1>1, <1>2, <2>2, <2>3, <2>5, <2>6, <2>7 DEF SInv, TypeOK
<1>5. ASSUME NEW w \in Task, WorkerStep(w)
      PROVE  SInv'
  <2>1. w \in Actor /\ w \notin Call /\ w \notin Editor
    BY ThreadAssumption DEF Actor
  <2>2. lost' \subseteq Actor
    BY <1>3, <1>5
    DEF WorkerStep, WorkerDenied, WorkerTriesNext, WorkerAdmitted,
        WorkerRefused, WorkerExecutes, WorkerReturns, WorkerReleasesOne,
        WorkerEnds, Panics, PruneForAcquire
  <2>3. PICK phase \in {"locking", "checking", "working", "releasing",
                        "rollback", "done", "failed", "panicked"} :
          pc' = [pc EXCEPT ![w] = phase]
    <3>1. CASE WorkerReleasesOne(w)
      BY <1>2, <2>1, <3>1 DEF WorkerReleasesOne, Phases
    <3>2. CASE ~ WorkerReleasesOne(w)
      BY <1>5, <3>2
      DEF WorkerStep, WorkerDenied, WorkerTriesNext, WorkerAdmitted,
          WorkerRefused, WorkerExecutes, WorkerReturns, WorkerEnds, Panics,
          PruneForAcquire, Goto
    <3> QED
      BY <3>1, <3>2
  <2>4. pc' \in [Actor -> Phase]
    BY <1>2, <2>3 DEF Phase
  <2>5. Phases'
    BY <1>2, <2>1, <2>3 DEF Phases, Actor
  <2>6. CASE WorkerAdmitted(w)
    <3>1. todo[w] \in Seq(Path) /\ todo[w] # <<>> /\ held[w] \in Seq(Path)
      BY <1>2, <2>6 DEF WorkerAdmitted, Admitted, Entries
    <3>2. /\ Tail(todo[w]) \in Seq(Path)
          /\ Append(held[w], Head(todo[w])) \in Seq(Path)
      BY <3>1
    <3>3. /\ todo' = [todo EXCEPT ![w] = Tail(todo[w])]
          /\ held' = [held EXCEPT ![w] = Append(held[w], Head(todo[w]))]
      BY <2>6 DEF WorkerAdmitted
    <3>4. todo' \in [Task -> Seq(Path)] /\ held' \in [Task -> Seq(Path)]
      BY <1>2, <3>2, <3>3
    <3>5. pc' = [pc EXCEPT ![w] = "locking"]
      BY <2>6 DEF WorkerAdmitted, Goto
    <3>6. Entries'
      BY <1>2, <2>1, <3>3, <3>5 DEF Entries, Actor
    <3> QED
      BY <1>1, <2>2, <2>4, <2>5, <3>4, <3>6 DEF SInv, TypeOK
  <2>7. CASE WorkerReleasesOne(w)
    <3>1. held' \in [Task -> Seq(Path)]
      <4>1. held[w] \in Seq(Path) /\ held[w] # <<>>
        BY <1>2, <2>7 DEF WorkerReleasesOne
      <4>2. Tail(held[w]) \in Seq(Path)
        BY <4>1
      <4> QED
        BY <1>2, <2>7, <4>2 DEF WorkerReleasesOne
    <3>2. Entries'
      BY <1>2, <2>7 DEF WorkerReleasesOne, Entries
    <3> QED
      BY <1>1, <1>2, <2>2, <2>4, <2>5, <2>7, <3>1, <3>2
      DEF SInv, TypeOK, WorkerReleasesOne
  <2>8. CASE ~ WorkerAdmitted(w) /\ ~ WorkerReleasesOne(w)
    <3>1. UNCHANGED <<todo, held>>
      BY <1>5, <2>8
      DEF WorkerStep, WorkerDenied, WorkerTriesNext, WorkerRefused,
          WorkerExecutes, WorkerReturns, WorkerEnds, Panics
    <3>2. /\ pc'[w] = "checking" => todo[w] # <<>>
          /\ pc'[w] = "working" => todo[w] = <<>>
      BY <1>2, <1>5, <2>1, <2>8
      DEF WorkerStep, WorkerDenied, WorkerTriesNext, WorkerRefused, Refused,
          WorkerExecutes, WorkerReturns, WorkerEnds, Panics, PruneForAcquire,
          Goto
    <3>3. Entries'
      BY <1>2, <2>1, <2>3, <3>1, <3>2 DEF Entries, Actor
    <3> QED
      BY <1>1, <1>2, <2>2, <2>4, <2>5, <3>1, <3>3 DEF SInv, TypeOK
  <2> QED
    BY <2>6, <2>7, <2>8
<1>6. ASSUME NEW e \in Editor, PresenceStep(e)
      PROVE  SInv'
  <2>1. e \in Actor /\ e \notin Call /\ e \notin Task
    BY ThreadAssumption DEF Actor
  <2>2. UNCHANGED <<todo, held>> /\ lost' \subseteq Actor
    BY <1>3, <1>6
    DEF PresenceStep, PresencePrunes, PresenceDrops, PresenceUnmapped,
        PresenceAsks, PresenceAnswered, PruneForAcquire
  <2>3. PICK phase \in {"start", "pruned", "dropped", "checking"} :
          pc' = [pc EXCEPT ![e] = phase]
    BY <1>6
    DEF PresenceStep, PresencePrunes, PresenceDrops, PresenceUnmapped,
        PresenceAsks, PresenceAnswered, PruneForAcquire, Goto
  <2>4. pc' \in [Actor -> Phase]
    BY <1>2, <2>3 DEF Phase
  <2>5. Phases'
    BY <1>2, <2>1, <2>3 DEF Phases, Actor
  <2>6. Entries'
    BY <1>2, <2>1, <2>2, <2>3 DEF Entries, Actor
  <2> QED
    BY <1>1, <1>2, <2>2, <2>4, <2>5, <2>6 DEF SInv, TypeOK
<1>7. CASE Tick
  BY <1>1, <1>2, <1>7 DEF Tick, SInv, TypeOK, Phases, Entries
<1>8. CASE UNCHANGED vars
  BY <1>1, <1>2, <1>8 DEF vars, SInv, TypeOK, Phases, Entries
<1> QED
  BY <1>4, <1>5, <1>6, <1>7, <1>8 DEF Next

\* Every reachable state has its types, and every thread is in a phase of
\* its own kind.
THEOREM TypeCorrect == Spec => []SInv
<1>1. Init => SInv
  BY ThreadAssumption, ActorAssumption
  DEF Init, SInv, TypeOK, Phases, Entries, Actor, Phase
<1> QED
  BY <1>1, SInvInductive, PTL DEF Spec

(***************************************************************************)
(* Locks and the threads that will give them back                          *)
(***************************************************************************)
\* A worker that gives back the lock on the first entry it recorded keeps
\* the others.
LEMMA TailKeeps ==
  ASSUME NEW s \in Seq(Path), s # <<>>, NEW i \in DOMAIN s, s[i] # Head(s)
  PROVE  \E j \in DOMAIN Tail(s) : Tail(s)[j] = s[i]
<1>1. Len(s) \in Nat /\ DOMAIN s = 1 .. Len(s) /\ Len(s) >= 1 /\ Head(s) = s[1]
  OBVIOUS
<1>2. i \in 2 .. Len(s)
  BY <1>1
<1>3. /\ DOMAIN Tail(s) = 1 .. Len(s) - 1
      /\ \A j \in 1 .. Len(s) - 1 : Tail(s)[j] = s[j + 1]
  BY <1>1
<1>4. i - 1 \in DOMAIN Tail(s) /\ Tail(s)[i - 1] = s[i]
  BY <1>1, <1>2, <1>3
<1> QED
  BY <1>4

\* No step takes a lock from the thread that answers for it.
LEMMA KeptInductive ==
  ASSUME SInv, LocksHaveKeepers, [Next]_vars
  PROVE  LocksHaveKeepers'
<1>1. /\ pc \in [Actor -> Phase] /\ locks \in SUBSET EditLock
      /\ todo \in [Task -> Seq(Path)] /\ held \in [Task -> Seq(Path)]
      /\ Phases
  BY DEF SInv, TypeOK
<1>2. ASSUME locks' \subseteq locks,
             \A x \in Actor : \A l \in locks' :
               Keeps(x, l) => Keeps(x, l)'
      PROVE  LocksHaveKeepers'
  BY <1>2 DEF LocksHaveKeepers
<1>3. ASSUME NEW c \in Call, CallStep(c)
      PROVE  LocksHaveKeepers'
  <2>1. c \in Actor /\ c \notin Task /\ c \notin Editor /\ pc[c] \in Phase
    BY <1>1, ThreadAssumption DEF Actor
  <2>2. UNCHANGED held
    BY <1>3 DEF CallStep, CallDenied, CallClaims, CallAdmitted, CallBlocked,
                CallRefused,
                CallReturns, CallReleases, Panics
  <2>3. \A x \in Actor \ {c} : pc'[x] = pc[x]
    BY <1>1, <1>3
    DEF CallStep, CallDenied, CallClaims, CallAdmitted, CallBlocked,
        CallRefused,
        CallReturns, CallReleases, Panics, PruneForAcquire, Goto
  <2>4. \A x \in Actor \ {c} : \A l : Keeps(x, l) => Keeps(x, l)'
    BY <2>2, <2>3 DEF Keeps, Actor
  <2>5. CASE CallAdmitted(c) \/ CallBlocked(c)
    <3> DEFINE new == [path |-> CallPath[c], range |-> WHOLE_SCOPE,
                       agent |-> AgentOf[c], age |-> 0]
    <3>1. locks' = locks \cup {new} /\ pc[c] = "checking"
      BY <2>1, <2>5
      DEF CallAdmitted, CallBlocked, Admitted, Granted, RequestOf, Ask
    <3>2. pc'[c] \in {"working", "blocked"}
      BY <1>1, <2>1, <2>5 DEF CallAdmitted, CallBlocked, Goto
    <3>3. new.path = CallPath[c] /\ new.agent = AgentOf[c]
      OBVIOUS
    <3> HIDE DEF new
    <3>4. Keeps(c, new)'
      BY <3>2, <3>3 DEF Keeps
    <3>5. \A l : ~ Keeps(c, l)
      BY <2>1, <3>1 DEF Keeps
    <3> QED
      BY <2>1, <2>4, <3>1, <3>3, <3>4, <3>5 DEF LocksHaveKeepers
  <2>6. CASE CallDenied(c) \/ CallClaims(c) \/ CallRefused(c)
    <3>1. locks' \subseteq locks /\ pc[c] \in {"start", "checking"}
      BY <2>6 DEF CallDenied, CallClaims, CallRefused, Refused,
                  PruneForAcquire, Prunes, prune_stale
    <3>2. \A l : ~ Keeps(c, l)
      BY <2>1, <3>1 DEF Keeps
    <3> QED
      BY <1>2, <2>4, <3>1, <3>2
  <2>7. CASE CallReturns(c) \/ Panics(c)
    <3>1. locks' = locks
      BY <2>7 DEF CallReturns, Panics
    <3>2. CASE pc'[c] \in {"releasing", "panicked"}
      <4>1. \A l : Keeps(c, l) => Keeps(c, l)'
        BY <2>1, <3>2 DEF Keeps
      <4> QED
        BY <1>2, <2>4, <3>1, <4>1
    <3>3. CASE ~ holds(locks, AgentOf[c], CallPath[c])
      <4>1. \A l \in locks : ~ Keeps(c, l)
        BY <2>1, <3>3 DEF holds, Keeps
      <4> QED
        BY <1>2, <2>4, <3>1, <4>1
    <3> QED
      BY <1>1, <2>1, <2>7, <3>2, <3>3 DEF CallReturns, Panics, Goto
  <2>8. CASE CallReleases(c)
    <3>1. locks' = release(locks, CallPath[c], AgentOf[c])
      BY <2>8 DEF CallReleases, GivesBack
    <3>2. \A l \in locks' : /\ l \in locks
                           /\ ~ Keeps(c, l)
      BY <2>1, <3>1 DEF release, Keeps
    <3> QED
      BY <1>2, <2>4, <3>2
  <2> QED
    BY <1>3, <2>5, <2>6, <2>7, <2>8 DEF CallStep
<1>4. ASSUME NEW w \in Task, WorkerStep(w)
      PROVE  LocksHaveKeepers'
  <2>1. /\ w \in Actor /\ w \notin Call /\ w \notin Editor /\ pc[w] \in Phase
        /\ held[w] \in Seq(Path) /\ todo[w] \in Seq(Path)
    BY <1>1, ThreadAssumption DEF Actor
  <2>2. \A x \in Task \ {w} : held'[x] = held[x]
    BY <1>1, <1>4
    DEF WorkerStep, WorkerDenied, WorkerTriesNext, WorkerAdmitted,
        WorkerRefused, WorkerExecutes, WorkerReturns, WorkerReleasesOne,
        WorkerEnds, Panics
  <2>3. \A x \in Actor \ {w} : pc'[x] = pc[x]
    BY <1>1, <1>4
    DEF WorkerStep, WorkerDenied, WorkerTriesNext, WorkerAdmitted,
        WorkerRefused, WorkerExecutes, WorkerReturns, WorkerReleasesOne,
        WorkerEnds, Panics, PruneForAcquire, Goto
  <2>4. \A x \in Actor \ {w} : \A l : Keeps(x, l) => Keeps(x, l)'
    BY <2>2, <2>3 DEF Keeps, Actor
  <2>5. CASE WorkerAdmitted(w)
    <3>0. PICK p, new :
            /\ p = Head(todo[w])
            /\ new = [path |-> p, range |-> WHOLE_SCOPE, agent |-> AgentOf[w],
                      age |-> 0]
      OBVIOUS
    <3>1. locks' = locks \cup {new} /\ pc[w] = "checking"
      BY <2>1, <2>5, <3>0 DEF WorkerAdmitted, Admitted, Granted, RequestOf, Ask
    <3>2. pc'[w] = "locking" /\ held'[w] = Append(held[w], p)
      BY <1>1, <2>1, <2>5, <3>0 DEF WorkerAdmitted, Goto
    <3>3. new.path = p /\ new.agent = AgentOf[w]
      BY <3>0
    <3>4. /\ Len(held[w]) + 1 \in DOMAIN Append(held[w], p)
          /\ Append(held[w], p)[Len(held[w]) + 1] = p
          /\ \A i \in DOMAIN held[w] :
               /\ i \in DOMAIN Append(held[w], p)
               /\ Append(held[w], p)[i] = held[w][i]
      BY <2>1
    <3>5. Keeps(w, new)'
      BY <2>1, <3>2, <3>3, <3>4 DEF Keeps
    <3>6. \A l : Keeps(w, l) => Keeps(w, l)'
      BY <2>1, <3>2, <3>4 DEF Keeps
    <3> QED
      BY <2>1, <2>4, <3>1, <3>3, <3>5, <3>6 DEF LocksHaveKeepers
  <2>6. CASE WorkerReleasesOne(w)
    <3>1. /\ locks' = release(locks, Head(held[w]), AgentOf[w])
          /\ held[w] # <<>> /\ held'[w] = Tail(held[w]) /\ pc' = pc
      BY <1>1, <2>6 DEF WorkerReleasesOne, GivesBack
    <3>2. ASSUME NEW l \in locks', Keeps(w, l)
          PROVE  Keeps(w, l)'
      <4>1. l \in locks /\ l.path # Head(held[w])
        BY <3>1, <3>2 DEF release, Keeps
      <4>2. PICK i \in DOMAIN held[w] : held[w][i] = l.path
        BY <2>1, <3>2 DEF Keeps
      <4>3. \E j \in DOMAIN Tail(held[w]) : Tail(held[w])[j] = l.path
        BY <2>1, <3>1, <4>1, <4>2, TailKeeps
      <4> QED
        BY <2>1, <3>1, <3>2, <4>3 DEF Keeps
    <3>3. locks' \subseteq locks
      BY <3>1 DEF release
    <3> QED
      BY <1>2, <2>4, <3>2, <3>3
  <2>7. CASE WorkerDenied(w) \/ WorkerEnds(w)
    <3>1. locks' = locks /\ held[w] = <<>>
      BY <2>7 DEF WorkerDenied, WorkerEnds
    <3>2. \A l : ~ Keeps(w, l)
      BY <2>1, <3>1 DEF Keeps
    <3> QED
      BY <1>2, <2>4, <3>1, <3>2
  <2>8. CASE \/ WorkerTriesNext(w) \/ WorkerRefused(w) \/ WorkerExecutes(w)
             \/ WorkerReturns(w) \/ Panics(w)
    <3>1. locks' \subseteq locks /\ held' = held
      BY <2>8 DEF WorkerTriesNext, WorkerRefused, WorkerExecutes, Refused,
                  WorkerReturns, Panics, PruneForAcquire, Prunes, prune_stale
    <3>2. pc'[w] \notin {"done", "failed"}
      BY <1>1, <2>1, <2>8
      DEF WorkerTriesNext, WorkerRefused, WorkerExecutes, WorkerReturns,
          Panics, PruneForAcquire, Goto
    <3>3. \A l : Keeps(w, l) => Keeps(w, l)'
      BY <2>1, <3>1, <3>2 DEF Keeps
    <3> QED
      BY <1>2, <2>4, <3>1, <3>3
  <2> QED
    BY <1>4, <2>5, <2>6, <2>7, <2>8 DEF WorkerStep
<1>5. ASSUME NEW e \in Editor, PresenceStep(e)
      PROVE  LocksHaveKeepers'
  <2>1. e \in Actor /\ e \notin Call /\ e \notin Task
    BY ThreadAssumption DEF Actor
  <2>2. UNCHANGED held /\ \A x \in Actor \ {e} : pc'[x] = pc[x]
    BY <1>1, <1>5
    DEF PresenceStep, PresencePrunes, PresenceDrops, PresenceUnmapped,
        PresenceAsks, PresenceAnswered, PruneForAcquire, Goto
  <2>3. \A x \in Actor : \A l : Keeps(x, l) => Keeps(x, l)'
    BY <2>1, <2>2 DEF Keeps, Actor
  <2>4. CASE Admitted(e)
    <3> DEFINE new == [path |-> PresencePath, range |-> PresenceRange,
                       agent |-> AgentOf[e], age |-> 0]
    <3>1. locks' = locks \cup {new}
      BY <2>1, <2>4 DEF Admitted, Granted, RequestOf, Ask
    <3>2. new.agent = AgentOf[e] /\ new.path = PresencePath
      OBVIOUS
    <3> HIDE DEF new
    <3>3. Keeps(e, new)'
      BY <3>2 DEF Keeps
    <3> QED
      BY <2>1, <2>3, <3>1, <3>3 DEF LocksHaveKeepers
  <2>5. CASE ~ Admitted(e)
    <3>1. locks' \subseteq locks
      BY <1>5, <2>5
      DEF PresenceStep, PresencePrunes, PresenceDrops, PresenceUnmapped,
          PresenceAsks, PresenceAnswered, Refused, PruneForAcquire,
          Prunes, GivesBack, prune_stale, release_for_agent
    <3> QED
      BY <1>2, <2>3, <3>1
  <2> QED
    BY <2>4, <2>5
<1>6. CASE Tick
  <2>1. UNCHANGED <<pc, held>> /\ locks' = Aged(locks)
    BY <1>6 DEF Tick
  <2>2. ASSUME NEW k \in locks'
        PROVE  \E x \in Actor : Keeps(x, k)'
    <3>1. PICK l \in locks : k = [l EXCEPT !.age = Older(@)]
      BY <2>1, <2>2 DEF Aged
    <3>2. k.path = l.path /\ k.agent = l.agent
      BY <1>1, <3>1 DEF EditLock
    <3>3. PICK x \in Actor : Keeps(x, l)
      BY DEF LocksHaveKeepers
    <3>4. Keeps(x, k)'
      BY <2>1, <3>2, <3>3 DEF Keeps
    <3> QED
      BY <3>4
  <2> QED
    BY <2>2 DEF LocksHaveKeepers
<1>7. CASE UNCHANGED vars
  BY <1>7 DEF vars, LocksHaveKeepers, Keeps
<1> QED
  BY <1>3, <1>4, <1>5, <1>6, <1>7 DEF Next

\* Whatever the number of calls, tasks and overlapping scopes, every lock has a
\* thread that will give it back, or that panicked or was stopped by the LSP
\* gate of loop_runner.rs: those two are the only ways to leak one.
THEOREM NothingLeaks == Spec => []LocksHaveKeepers
<1>1. Init => LocksHaveKeepers
  BY DEF Init, LocksHaveKeepers
<1>2. SInv /\ LocksHaveKeepers /\ [Next]_vars => LocksHaveKeepers'
  BY KeptInductive
<1> QED
  BY <1>1, <1>2, TypeCorrect, PTL DEF Spec

(***************************************************************************)
(* The clients use the gate through its operations                         *)
(***************************************************************************)
\* The request of a thread inside acquire, as the gate sees it.
Pending == [x \in Actor |-> IF pc[x] = "checking" THEN RequestOf(x)
                                                  ELSE NoRequest]

\* A request depends on nothing but the entries its own thread has to lock.
LEMMA RequestOfStays ==
  ASSUME NEW x \in Actor, x \in Task => todo'[x] = todo[x]
  PROVE  RequestOf(x)' = RequestOf(x)
BY DEF RequestOf, Ask

\* A thread that neither enters nor leaves acquire changes no request, one
\* that does changes its own.
LEMMA PendingMoves ==
  ASSUME NEW x \in Actor,
         \A y \in Actor \ {x} : /\ pc'[y] = pc[y]
                                /\ y \in Task => todo'[y] = todo[y]
  PROVE  Pending' = [Pending EXCEPT ![x] = IF pc'[x] = "checking"
                                             THEN RequestOf(x)'
                                             ELSE NoRequest]
<1>1. \A y \in Actor \ {x} : RequestOf(y)' = RequestOf(y)
  BY RequestOfStays
<1> QED
  BY <1>1 DEF Pending

\* The gate's operations on the table are the clients'.
LEMMA OneTable ==
  /\ \A L, n : Gate!prune_stale(L, n) = prune_stale(L, n)
  /\ \A L, r : Gate!Granted(L, r) = Granted(L, r)
  /\ \A L, r : Gate!Blockers(L, r) = Blockers(L, r)
  /\ \A L, p, a : Gate!release(L, p, a) = release(L, p, a)
  /\ \A L, a : Gate!release_for_agent(L, a) = release_for_agent(L, a)
  /\ \A L : Gate!Aged(L) = Aged(L)
BY DEF Gate!prune_stale, prune_stale, Gate!Granted, Granted,
       Gate!Blockers, Blockers, Gate!DirectLine, DirectLine,
       Gate!ScopeOverlap, ScopeOverlap, Gate!Semantic, Semantic,
       Gate!SameFile, SameFile, Gate!scopes_overlap, scopes_overlap,
       Gate!is_dir_scope, is_dir_scope,
       Gate!is_canonical_within_scope, is_canonical_within_scope,
       Gate!release, release, Gate!release_for_agent, release_for_agent,
       Gate!Aged, Aged, Gate!Older, Older

\* Every critical section of a client is a critical section of the gate, and
\* a step outside them is none.
LEMMA GateStep ==
  ASSUME SInv, [Next]_vars
  PROVE  [Gate!Next]_<<locks, Pending>>
<1>1. /\ pc \in [Actor -> Phase]
      /\ todo \in [Task -> Seq(Path)] /\ held \in [Task -> Seq(Path)]
  BY DEF SInv, TypeOK
<1>2. ASSUME NEW x \in Actor, PruneForAcquire(x), UNCHANGED todo,
             pc[x] # "checking", x \in Task => todo[x] # <<>>
      PROVE  Gate!Next
  <2>1. pc' = [pc EXCEPT ![x] = "checking"]
    BY <1>2 DEF PruneForAcquire, Goto
  <2>2. RequestOf(x)' = RequestOf(x)
    BY <1>2, RequestOfStays
  <2>3. RequestOf(x) \in Request
    BY <1>2, RequestIsTyped
  <2>4. Pending' = [Pending EXCEPT ![x] = RequestOf(x)]
    BY <1>1, <1>2, <2>1, <2>2, PendingMoves
  <2>5. Pending[x] = NoRequest
    BY <1>2 DEF Pending
  <2>6. PICK req \in {Ask(y, p) : y \in Actor, p \in Path} :
          req = RequestOf(x)
    BY <1>2, <2>3, RequestIsAsked
  <2>7. Gate!AcquirePrune(x, req)
    BY <1>2, <2>4, <2>5, <2>6, OneTable
    DEF Gate!AcquirePrune, Pending, PruneForAcquire, Prunes
  <2> QED
    BY <2>7 DEF Gate!Next
<1>3. ASSUME NEW x \in Actor, Admitted(x) \/ Refused(x), pc'[x] # "checking",
             \A y \in Actor \ {x} : /\ pc'[y] = pc[y]
                                    /\ y \in Task => todo'[y] = todo[y]
      PROVE  Gate!Next
  <2>1. Pending' = [Pending EXCEPT ![x] = NoRequest]
    BY <1>3, PendingMoves
  <2>2. Pending[x] = RequestOf(x)
    BY <1>3 DEF Pending, Admitted, Refused
  <2>3. RequestOf(x) # NoRequest
    BY <1>3, RequestIsTyped, NoRequestAssumption DEF Admitted, Refused
  <2>4. Gate!AcquireAdmit(x) \/ Gate!AcquireReject(x)
    BY <1>3, <2>1, <2>2, <2>3, OneTable
    DEF Gate!AcquireAdmit, Gate!AcquireReject, Pending, Admitted, Refused
  <2> QED
    BY <2>4 DEF Gate!Next
<1>4. ASSUME NEW x \in Actor, pc[x] # "checking", pc'[x] # "checking",
             \A y \in Actor \ {x} : pc'[y] = pc[y], UNCHANGED todo
      PROVE  Pending' = Pending
  BY <1>4, RequestOfStays DEF Pending
<1>5. ASSUME NEW p \in Path, NEW a \in Agent, locks' = release(locks, p, a),
             Pending' = Pending
      PROVE  Gate!Next
  BY <1>5, OneTable DEF Gate!Next, Gate!Release, Pending
<1>6. ASSUME NEW c \in Call, CallStep(c)
      PROVE  [Gate!Next]_<<locks, Pending>>
  <2>1. /\ c \in Actor /\ c \notin Task
        /\ AgentOf[c] \in Agent /\ CallPath[c] \in Path
    BY ThreadAssumption, ActorAssumption DEF Actor
  <2>2. \A y \in Actor \ {c} : pc'[y] = pc[y]
    BY <1>1, <1>6
    DEF CallStep, CallDenied, CallClaims, CallAdmitted, CallBlocked,
        CallRefused,
        CallReturns, CallReleases, Panics, PruneForAcquire, Goto
  <2>3. UNCHANGED todo
    BY <1>6 DEF CallStep, CallDenied, CallClaims, CallAdmitted, CallBlocked,
                CallRefused,
                CallReturns, CallReleases, Panics
  <2>4. CASE CallClaims(c)
    BY <1>2, <2>1, <2>4 DEF CallClaims
  <2>5. CASE CallAdmitted(c) \/ CallBlocked(c) \/ CallRefused(c)
    <3>1. pc'[c] # "checking"
      BY <1>1, <2>1, <2>5 DEF CallAdmitted, CallBlocked, CallRefused, Goto
    <3> QED
      BY <1>3, <2>1, <2>2, <2>3, <2>5, <3>1
      DEF CallAdmitted, CallBlocked, CallRefused
  <2>6. CASE CallDenied(c) \/ CallReturns(c) \/ Panics(c) \/ CallReleases(c)
    <3>1. pc[c] # "checking" /\ pc'[c] # "checking"
      BY <1>1, <2>1, <2>6
      DEF CallDenied, CallReturns, Panics, CallReleases, Goto
    <3>2. Pending' = Pending
      BY <1>4, <2>1, <2>2, <2>3, <3>1
    <3> QED
      BY <1>5, <2>1, <2>6, <3>2
      DEF CallDenied, CallReturns, Panics, CallReleases, GivesBack
  <2> QED
    BY <1>6, <2>4, <2>5, <2>6 DEF CallStep
<1>7. ASSUME NEW w \in Task, WorkerStep(w)
      PROVE  [Gate!Next]_<<locks, Pending>>
  <2>1. w \in Actor /\ AgentOf[w] \in Agent /\ held[w] \in Seq(Path)
    BY <1>1, ActorAssumption DEF Actor
  <2>2. \A y \in Actor \ {w} : /\ pc'[y] = pc[y]
                               /\ y \in Task => todo'[y] = todo[y]
    BY <1>1, <1>7
    DEF WorkerStep, WorkerDenied, WorkerTriesNext, WorkerAdmitted,
        WorkerRefused, WorkerExecutes, WorkerReturns, WorkerReleasesOne,
        WorkerEnds, Panics, PruneForAcquire, Goto
  <2>3. CASE WorkerTriesNext(w)
    BY <1>2, <2>1, <2>3 DEF WorkerTriesNext
  <2>4. CASE WorkerAdmitted(w) \/ WorkerRefused(w)
    <3>1. pc'[w] # "checking"
      BY <1>1, <2>1, <2>4 DEF WorkerAdmitted, WorkerRefused, Goto
    <3> QED
      BY <1>3, <2>1, <2>2, <2>4, <3>1 DEF WorkerAdmitted, WorkerRefused
  <2>5. CASE WorkerReleasesOne(w)
    <3>1. pc[w] # "checking" /\ pc'[w] # "checking" /\ UNCHANGED todo
      BY <2>5 DEF WorkerReleasesOne
    <3>2. Pending' = Pending
      BY <1>4, <2>1, <2>2, <3>1
    <3>3. Head(held[w]) \in Path
      BY <2>1, <2>5 DEF WorkerReleasesOne
    <3> QED
      BY <1>5, <2>1, <2>5, <3>2, <3>3 DEF WorkerReleasesOne, GivesBack
  <2>6. CASE \/ WorkerDenied(w) \/ WorkerExecutes(w) \/ WorkerReturns(w)
             \/ WorkerEnds(w) \/ Panics(w)
    <3>1. pc[w] # "checking" /\ pc'[w] # "checking" /\ UNCHANGED <<locks, todo>>
      BY <1>1, <2>1, <2>6
      DEF WorkerDenied, WorkerExecutes, WorkerReturns, WorkerEnds, Panics, Goto
    <3> QED
      BY <1>4, <2>1, <2>2, <3>1
  <2> QED
    BY <1>7, <2>3, <2>4, <2>5, <2>6 DEF WorkerStep
<1>8. ASSUME NEW e \in Editor, PresenceStep(e)
      PROVE  [Gate!Next]_<<locks, Pending>>
  <2>1. e \in Actor /\ e \notin Task /\ AgentOf[e] \in Agent
    BY ThreadAssumption, ActorAssumption DEF Actor
  <2>2. \A y \in Actor \ {e} : pc'[y] = pc[y]
    BY <1>1, <1>8
    DEF PresenceStep, PresencePrunes, PresenceDrops, PresenceUnmapped,
        PresenceAsks, PresenceAnswered, PruneForAcquire, Goto
  <2>3. UNCHANGED todo
    BY <1>8 DEF PresenceStep, PresencePrunes, PresenceDrops, PresenceUnmapped,
                PresenceAsks, PresenceAnswered
  <2>4. CASE PresenceAsks(e)
    BY <1>2, <2>1, <2>4 DEF PresenceAsks
  <2>5. CASE PresenceAnswered(e)
    <3>1. pc'[e] # "checking"
      BY <1>1, <2>1, <2>5 DEF PresenceAnswered, Goto
    <3> QED
      BY <1>3, <2>1, <2>2, <2>3, <2>5, <3>1 DEF PresenceAnswered
  <2>6. CASE PresencePrunes(e) \/ PresenceDrops(e) \/ PresenceUnmapped(e)
    <3>1. pc[e] # "checking" /\ pc'[e] # "checking"
      BY <1>1, <2>1, <2>6 DEF PresencePrunes, PresenceDrops, PresenceUnmapped,
                              Goto
    <3>2. Pending' = Pending
      BY <1>4, <2>1, <2>2, <2>3, <3>1
    <3>3. CASE PresencePrunes(e)
      BY <3>2, <3>3, OneTable
      DEF PresencePrunes, Prunes, Gate!Next, Gate!PruneStale, Pending
    <3>4. CASE PresenceDrops(e)
      BY <2>1, <3>2, <3>4, OneTable
      DEF PresenceDrops, GivesBack, Gate!Next, Gate!ReleaseForAgent, Pending
    <3>5. CASE PresenceUnmapped(e)
      BY <3>2, <3>5 DEF PresenceUnmapped
    <3> QED
      BY <2>6, <3>3, <3>4, <3>5
  <2> QED
    BY <1>8, <2>4, <2>5, <2>6 DEF PresenceStep
<1>9. CASE Tick
  <2>1. Pending' = Pending
    BY <1>9, RequestOfStays DEF Pending, Tick
  <2> QED
    BY <1>9, <2>1, OneTable DEF Tick, Gate!Next, Gate!Tick, Pending
<1>10. CASE UNCHANGED vars
  <2>1. Pending' = Pending
    BY <1>10, RequestOfStays DEF Pending, vars
  <2> QED
    BY <1>10, <2>1 DEF vars
<1> QED
  BY <1>6, <1>7, <1>8, <1>9, <1>10 DEF Next

\* The composition of tool calls, workers and telemetry implements the gate's
\* specification (write_gate.rs:153-247): what is proved of WriteGate holds of
\* the locks of any number of clients.
THEOREM GateRefined == Spec => GateSpec
<1>1. Init => Gate!Init
  BY DEF Init, Gate!Init
<1>2. SInv /\ [Next]_vars => [Gate!Next]_(Gate!vars)
  BY GateStep DEF Gate!vars, Pending
<1> QED
  BY <1>1, <1>2, TypeCorrect, PTL DEF Spec, GateSpec, Gate!Spec

(***************************************************************************)
(* Exclusive work                                                          *)
(***************************************************************************)
\* A thread that lost no lock has the ones it counts on.
Holding ==
  \A x \in Actor \ lost : \A p \in Path :
    CountsOn(x, p) => Own(locks, x, p) # {}

\* Every entry of its scope is locked or still to be locked, until a worker
\* begins to give its locks back.
Covered ==
  \A w \in Task :
    pc[w] \in {"locking", "checking", "working"} =>
      \A j \in DOMAIN Scope[w] :
        \/ \E i \in DOMAIN held[w] : held[w][i] = Scope[w][j]
        \/ \E i \in DOMAIN todo[w] : todo[w][i] = Scope[w][j]

\* A grant is checked against every lock of another agent.
LEMMA DisjointInductive ==
  ASSUME SInv, Disjoint(locks), [Next]_vars
  PROVE  Disjoint(locks')
<1>1. locks \in SUBSET EditLock
  BY DEF SInv, TypeOK
<1>2. CASE locks' \subseteq locks
  BY <1>2 DEF Disjoint
<1>3. ASSUME NEW x \in Actor, Admitted(x)
      PROVE  Disjoint(locks')
  <2>1. RequestOf(x) \in Request
    BY <1>3, RequestIsTyped DEF Admitted
  <2>2. Disjoint(Granted(locks, RequestOf(x)))
    BY <1>1, <1>3, <2>1, GrantedKeepsDisjoint DEF Admitted
  <2> QED
    BY <1>3, <2>2 DEF Admitted
<1>4. CASE locks' = Aged(locks)
  BY <1>1, <1>4, AgedKeepsDisjoint
<1> QED
  BY <1>2, <1>3, <1>4, TableMoves

\* The scope is split between what is locked and what is not.
LEMMA CoveredInductive ==
  ASSUME SInv, Covered, [Next]_vars
  PROVE  Covered'
<1>1. /\ pc \in [Actor -> Phase]
      /\ todo \in [Task -> Seq(Path)] /\ held \in [Task -> Seq(Path)]
  BY DEF SInv, TypeOK
<1>2. ASSUME UNCHANGED <<todo, held>>,
             \A w \in Task :
               \/ pc'[w] = pc[w]
               \/ pc'[w] \notin {"locking", "checking", "working"}
               \/ pc[w] \in {"locking", "checking", "working"}
      PROVE  Covered'
  BY <1>2 DEF Covered
<1>3. ASSUME NEW c \in Call, CallStep(c)
      PROVE  Covered'
  <2>1. \A w \in Task : w \in Actor \ {c}
    BY ThreadAssumption DEF Actor
  <2>2. \A w \in Task : pc'[w] = pc[w]
    BY <1>1, <1>3, <2>1
    DEF CallStep, CallDenied, CallClaims, CallAdmitted, CallBlocked,
        CallRefused,
        CallReturns, CallReleases, Panics, PruneForAcquire, Goto
  <2>3. UNCHANGED <<todo, held>>
    BY <1>3 DEF CallStep, CallDenied, CallClaims, CallAdmitted, CallBlocked,
                CallRefused,
                CallReturns, CallReleases, Panics
  <2> QED
    BY <1>2, <2>2, <2>3
<1>4. ASSUME NEW w \in Task, WorkerStep(w)
      PROVE  Covered'
  <2>1. /\ w \in Actor /\ Task \subseteq Actor
        /\ held[w] \in Seq(Path) /\ todo[w] \in Seq(Path)
    BY <1>1 DEF Actor
  <2>2. CASE WorkerAdmitted(w)
    <3>1. todo[w] # <<>> /\ pc[w] = "checking"
      BY <2>2 DEF WorkerAdmitted, Admitted, SInv, Entries
    <3>2. /\ todo'[w] = Tail(todo[w])
          /\ held'[w] = Append(held[w], Head(todo[w]))
          /\ \A v \in Task \ {w} : todo'[v] = todo[v] /\ held'[v] = held[v]
          /\ \A v \in Task \ {w} : pc'[v] = pc[v]
      BY <1>1, <2>1, <2>2 DEF WorkerAdmitted, Goto
    <3>3. ASSUME NEW j \in DOMAIN Scope[w]
          PROVE  \/ \E i \in DOMAIN held'[w] : held'[w][i] = Scope[w][j]
                 \/ \E i \in DOMAIN todo'[w] : todo'[w][i] = Scope[w][j]
      <4> DEFINE p == Scope[w][j]
                 h == Append(held[w], Head(todo[w]))
      <4>1. /\ Len(held[w]) + 1 \in DOMAIN h
            /\ h[Len(held[w]) + 1] = Head(todo[w])
            /\ \A i \in DOMAIN held[w] : i \in DOMAIN h /\ h[i] = held[w][i]
        BY <2>1
      <4> HIDE DEF h
      <4>2. CASE \E i \in DOMAIN held[w] : held[w][i] = p
        BY <3>2, <4>1, <4>2 DEF h
      <4>3. CASE p = Head(todo[w])
        BY <3>2, <4>1, <4>3 DEF h
      <4>4. CASE \E i \in DOMAIN todo[w] : todo[w][i] = p /\ p # Head(todo[w])
        BY <2>1, <3>1, <3>2, <4>4, TailKeeps
      <4> QED
        BY <3>1, <4>2, <4>3, <4>4 DEF Covered
    <3> SUFFICES ASSUME NEW v \in Task,
                        pc'[v] \in {"locking", "checking", "working"},
                        NEW j \in DOMAIN Scope[v]
                 PROVE  \/ \E i \in DOMAIN held'[v] : held'[v][i] = Scope[v][j]
                        \/ \E i \in DOMAIN todo'[v] : todo'[v][i] = Scope[v][j]
      BY DEF Covered
    <3>4. CASE v = w
      BY <3>3, <3>4
    <3>5. CASE v # w
      BY <3>2, <3>5 DEF Covered
    <3> QED
      BY <3>4, <3>5
  <2>3. CASE WorkerReleasesOne(w)
    <3>1. /\ pc' = pc /\ todo' = todo
          /\ pc[w] \notin {"locking", "checking", "working"}
          /\ \A v \in Task \ {w} : held'[v] = held[v]
      BY <1>1, <2>3 DEF WorkerReleasesOne
    <3> QED
      BY <3>1 DEF Covered
  <2>4. CASE ~ WorkerAdmitted(w) /\ ~ WorkerReleasesOne(w)
    <3>1. UNCHANGED <<todo, held>>
      BY <1>4, <2>4
      DEF WorkerStep, WorkerDenied, WorkerTriesNext, WorkerRefused,
          WorkerExecutes, WorkerReturns, WorkerEnds, Panics
    <3>2. \A v \in Task \ {w} : pc'[v] = pc[v]
      BY <1>1, <1>4, <2>1, <2>4
      DEF WorkerStep, WorkerDenied, WorkerTriesNext, WorkerRefused,
          WorkerExecutes, WorkerReturns, WorkerEnds, Panics, PruneForAcquire,
          Goto
    <3>3. \/ pc'[w] \notin {"locking", "checking", "working"}
          \/ pc[w] \in {"locking", "checking", "working"}
      BY <1>1, <1>4, <2>1, <2>4
      DEF WorkerStep, WorkerDenied, WorkerTriesNext, WorkerRefused,
          WorkerExecutes, WorkerReturns, WorkerEnds, Panics, PruneForAcquire,
          Goto, Refused
    <3> QED
      BY <1>2, <3>1, <3>2, <3>3
  <2> QED
    BY <2>2, <2>3, <2>4
<1>5. ASSUME NEW e \in Editor, PresenceStep(e)
      PROVE  Covered'
  <2>1. \A w \in Task : w \in Actor \ {e}
    BY ThreadAssumption DEF Actor
  <2>2. UNCHANGED <<todo, held>> /\ \A w \in Task : pc'[w] = pc[w]
    BY <1>1, <1>5, <2>1
    DEF PresenceStep, PresencePrunes, PresenceDrops, PresenceUnmapped,
        PresenceAsks, PresenceAnswered, PruneForAcquire, Goto
  <2> QED
    BY <1>2, <2>2
<1>6. CASE Tick \/ UNCHANGED vars
  BY <1>2, <1>6 DEF Tick, vars
<1> QED
  BY <1>3, <1>4, <1>5, <1>6 DEF Next

\* The locks a thread counts on outlive every step of the other threads that
\* does not count as a loss.
LEMMA HoldingInductive ==
  ASSUME SInv, Holding, [Next]_vars
  PROVE  Holding'
<1>1. /\ pc \in [Actor -> Phase] /\ locks \in SUBSET EditLock
      /\ todo \in [Task -> Seq(Path)] /\ held \in [Task -> Seq(Path)]
  BY DEF SInv, TypeOK
<1>2. \A l \in locks : l.age \in Nat
  BY <1>1, TTLAssumption DEF Age, EditLock
\* Thread x moves; the others keep counting on what they counted on.
<1>3. ASSUME NEW x \in Actor,
             \A y \in Actor \ {x} : /\ pc'[y] = pc[y]
                                    /\ y \in Task => held'[y] = held[y],
             lost \subseteq lost',
             \A y \in Actor \ (lost' \cup {x}) : \A p \in Path :
               CountsOn(y, p) /\ Own(locks, y, p) # {}
                 => Own(locks', y, p) # {},
             \A p \in Path : x \notin lost' /\ CountsOn(x, p)'
                               => Own(locks', x, p) # {}
      PROVE  Holding'
  <2> SUFFICES ASSUME NEW y \in Actor, y \notin lost', NEW p \in Path,
                      CountsOn(y, p)'
               PROVE  Own(locks', y, p) # {}
    BY DEF Holding, Own
  <2>1. CASE y = x
    BY <1>3, <2>1
  <2>2. CASE y # x
    <3>1. CountsOn(y, p)
      BY <1>3, <2>2 DEF CountsOn
    <3>2. y \in Actor \ lost /\ Own(locks, y, p) # {}
      BY <1>3, <3>1 DEF Holding
    <3> QED
      BY <1>3, <2>2, <3>1, <3>2
  <2> QED
    BY <2>1, <2>2
\* A lock that falls to a prune is a loss.
<1>4. ASSUME NEW n \in Nat, Prunes(n)
      PROVE  /\ lost \subseteq lost'
             /\ \A y \in Actor \ lost' : \A p \in Path :
                  CountsOn(y, p) => Own(locks', y, p) # {}
  <2>1. lost \subseteq lost' /\ locks' = prune_stale(locks, n)
    BY <1>4 DEF Prunes
  <2> SUFFICES ASSUME NEW y \in Actor, y \notin lost', NEW p \in Path,
                      CountsOn(y, p)
               PROVE  Own(locks', y, p) # {}
    BY <2>1
  <2>2. PICK l \in Own(locks, y, p) : ~ (l.age > n)
    BY <1>4 DEF Prunes
  <2>3. l \in locks /\ l \in Own({l}, y, p)
    BY <2>2 DEF Own
  <2>4. l \in prune_stale(locks, n)
    BY <1>2, <1>4, <2>2, <2>3 DEF prune_stale
  <2> QED
    BY <2>1, <2>2, <2>4 DEF Own
\* So is one that another thread of the same agent gives back.
<1>5. ASSUME NEW x \in Actor, NEW L, GivesBack(x, L),
             \A l \in locks \ L : l.agent = AgentOf[x]
      PROVE  /\ lost \subseteq lost'
             /\ \A y \in Actor \ (lost' \cup {x}) : \A p \in Path :
                  CountsOn(y, p) /\ Own(locks, y, p) # {}
                    => Own(locks', y, p) # {}
  <2>1. lost \subseteq lost' /\ locks' = L
    BY <1>5 DEF GivesBack
  <2> SUFFICES ASSUME NEW y \in Actor, y \notin lost', y # x, NEW p \in Path,
                      CountsOn(y, p), Own(locks, y, p) # {}
               PROVE  Own(locks', y, p) # {}
    BY <2>1
  <2>2. CASE AgentOf[y] = AgentOf[x]
    BY <1>5, <2>1, <2>2 DEF GivesBack
  <2>3. CASE AgentOf[y] # AgentOf[x]
    <3>1. PICK l \in locks : l \in Own(locks, y, p)
      BY DEF Own
    <3>2. l \in L
      BY <1>5, <2>3, <3>1 DEF Own
    <3> QED
      BY <2>1, <3>1, <3>2 DEF Own
  <2> QED
    BY <2>2, <2>3
<1>6. ASSUME NEW y, NEW p, locks \subseteq locks', Own(locks, y, p) # {}
      PROVE  Own(locks', y, p) # {}
  BY <1>6 DEF Own
<1>7. ASSUME NEW c \in Call, CallStep(c)
      PROVE  Holding'
  <2>1. c \in Actor /\ c \notin Task /\ CallPath[c] \in Path
    BY ThreadAssumption, ActorAssumption DEF Actor
  <2>2. \A y \in Actor \ {c} : /\ pc'[y] = pc[y]
                               /\ y \in Task => held'[y] = held[y]
    BY <1>1, <1>7
    DEF CallStep, CallDenied, CallClaims, CallAdmitted, CallBlocked,
        CallRefused, CallReturns, CallReleases, Panics, PruneForAcquire, Goto
  <2>3. CASE CallAdmitted(c)
    <3>0. PICK new : new = [path |-> CallPath[c], range |-> WHOLE_SCOPE,
                            agent |-> AgentOf[c], age |-> 0]
      OBVIOUS
    <3>1. locks' = locks \cup {new} /\ lost' = lost
      BY <2>1, <2>3, <3>0, ThreadAssumption
      DEF CallAdmitted, Admitted, Granted, RequestOf, Ask
    <3>2. new \in Own(locks', c, CallPath[c])
      BY <3>0, <3>1 DEF Own
    <3>3. \A p \in Path : CountsOn(c, p)' => p = CallPath[c]
      BY <2>1 DEF CountsOn
    <3> QED
      BY <1>3, <1>6, <2>1, <2>2, <3>1, <3>2, <3>3
  <2>4. CASE ~ CallAdmitted(c)
    <3>1. pc'[c] # "working"
      BY <1>1, <1>7, <2>1, <2>4
      DEF CallStep, CallDenied, CallClaims, CallBlocked, CallRefused,
          CallReturns, CallReleases, Panics, PruneForAcquire, Goto
    <3>2. \A p \in Path : ~ CountsOn(c, p)'
      BY <2>1, <3>1 DEF CountsOn
    <3>3. \/ locks \subseteq locks' /\ lost' = lost
          \/ Prunes(LOCK_TTL)
          \/ GivesBack(c, release(locks, CallPath[c], AgentOf[c]))
      BY <1>7, <2>4
      DEF CallStep, CallDenied, CallClaims, CallBlocked, CallRefused,
          CallReturns, CallReleases, Panics, PruneForAcquire, Refused,
          Admitted, Granted
    <3>4. \A l \in locks \ release(locks, CallPath[c], AgentOf[c]) :
            l.agent = AgentOf[c]
      BY DEF release
    <3>5. CASE locks \subseteq locks' /\ lost' = lost
      BY <1>3, <1>6, <2>1, <2>2, <3>2, <3>5
    <3>6. CASE Prunes(LOCK_TTL)
      BY <1>3, <1>4, <2>1, <2>2, <3>2, <3>6, TTLAssumption
    <3>7. CASE GivesBack(c, release(locks, CallPath[c], AgentOf[c]))
      BY <1>3, <1>5, <2>1, <2>2, <3>2, <3>4, <3>7
    <3> QED
      BY <3>3, <3>5, <3>6, <3>7
  <2> QED
    BY <2>3, <2>4
<1>8. ASSUME NEW w \in Task, WorkerStep(w)
      PROVE  Holding'
  <2>1. /\ w \in Actor /\ w \notin Call /\ w \notin Editor
        /\ held[w] \in Seq(Path) /\ todo[w] \in Seq(Path)
    BY <1>1, ThreadAssumption DEF Actor
  <2>2. \A y \in Actor \ {w} : /\ pc'[y] = pc[y]
                               /\ y \in Task => held'[y] = held[y]
    BY <1>1, <1>8
    DEF WorkerStep, WorkerDenied, WorkerTriesNext, WorkerAdmitted,
        WorkerRefused, WorkerExecutes, WorkerReturns, WorkerReleasesOne,
        WorkerEnds, Panics, PruneForAcquire, Goto
  <2>3. CASE WorkerAdmitted(w)
    <3>0. PICK q, new :
            /\ q = Head(todo[w])
            /\ new = [path |-> q, range |-> WHOLE_SCOPE, agent |-> AgentOf[w],
                      age |-> 0]
      OBVIOUS
    <3>1. locks' = locks \cup {new} /\ lost' = lost /\ pc[w] = "checking"
      BY <2>1, <2>3, <3>0
      DEF WorkerAdmitted, Admitted, Granted, RequestOf, Ask
    <3>2. held'[w] = Append(held[w], q)
      BY <1>1, <2>1, <2>3, <3>0 DEF WorkerAdmitted
    <3>3. new \in Own(locks', w, q)
      BY <3>0, <3>1 DEF Own
    <3>4. \A i \in DOMAIN Append(held[w], q) :
            \/ Append(held[w], q)[i] = q
            \/ i \in DOMAIN held[w] /\ Append(held[w], q)[i] = held[w][i]
      BY <2>1
    <3>5. ASSUME NEW p \in Path, w \notin lost', CountsOn(w, p)'
          PROVE  Own(locks', w, p) # {}
      <4>1. PICK i \in DOMAIN Append(held[w], q) : Append(held[w], q)[i] = p
        BY <2>1, <3>2, <3>5 DEF CountsOn
      <4>2. CASE p = q
        BY <3>3, <4>2
      <4>3. CASE i \in DOMAIN held[w] /\ p = held[w][i]
        <5>1. CountsOn(w, p)
          BY <3>1, <4>3 DEF CountsOn
        <5> QED
          BY <1>6, <2>1, <3>1, <3>5, <5>1 DEF Holding
      <4> QED
        BY <3>4, <4>1, <4>2, <4>3
    <3> QED
      BY <1>3, <1>6, <2>1, <2>2, <3>1, <3>5
  <2>4. CASE WorkerTriesNext(w)
    <3>1. Prunes(LOCK_TTL) /\ held' = held /\ pc[w] = "locking"
      BY <2>4 DEF WorkerTriesNext, PruneForAcquire
    <3>2. \A p \in Path : CountsOn(w, p)' => CountsOn(w, p)
      BY <2>1, <3>1 DEF CountsOn
    <3> QED
      BY <1>3, <1>4, <2>1, <2>2, <3>1, <3>2, TTLAssumption
  <2>5. CASE WorkerReleasesOne(w)
    <3>1. /\ GivesBack(w, release(locks, Head(held[w]), AgentOf[w]))
          /\ pc'[w] \in {"releasing", "rollback"}
      BY <2>5 DEF WorkerReleasesOne
    <3>2. \A p \in Path : ~ CountsOn(w, p)'
      BY <2>1, <3>1 DEF CountsOn
    <3>3. \A l \in locks \ release(locks, Head(held[w]), AgentOf[w]) :
            l.agent = AgentOf[w]
      BY DEF release
    <3> QED
      BY <1>3, <1>5, <2>1, <2>2, <3>1, <3>2, <3>3
  <2>6. CASE WorkerExecutes(w)
    <3>1. UNCHANGED <<locks, held, lost>> /\ pc[w] = "locking"
      BY <2>6 DEF WorkerExecutes
    <3>2. \A p \in Path : CountsOn(w, p)' => CountsOn(w, p)
      BY <2>1, <3>1 DEF CountsOn
    <3>3. \A p \in Path : w \notin lost' /\ CountsOn(w, p)'
                            => Own(locks', w, p) # {}
      BY <2>1, <3>1, <3>2 DEF Holding
    <3> QED
      BY <1>3, <2>1, <2>2, <3>1, <3>3
  <2>7. CASE \/ WorkerDenied(w) \/ WorkerRefused(w) \/ WorkerReturns(w)
             \/ WorkerEnds(w) \/ Panics(w)
    <3>1. /\ locks' = locks /\ lost' = lost
          /\ pc'[w] \notin {"locking", "checking", "working"}
      BY <1>1, <2>1, <2>7
      DEF WorkerDenied, WorkerRefused, WorkerReturns, WorkerEnds, Panics,
          Refused, Goto
    <3>2. \A p \in Path : ~ CountsOn(w, p)'
      BY <2>1, <3>1 DEF CountsOn
    <3> QED
      BY <1>3, <2>1, <2>2, <3>1, <3>2
  <2> QED
    BY <1>8, <2>3, <2>4, <2>5, <2>6, <2>7 DEF WorkerStep
<1>9. ASSUME NEW e \in Editor, PresenceStep(e)
      PROVE  Holding'
  <2>1. e \in Actor /\ e \notin Call /\ e \notin Task
    BY ThreadAssumption DEF Actor
  <2>2. \A y \in Actor \ {e} : /\ pc'[y] = pc[y]
                               /\ y \in Task => held'[y] = held[y]
    BY <1>1, <1>9
    DEF PresenceStep, PresencePrunes, PresenceDrops, PresenceUnmapped,
        PresenceAsks, PresenceAnswered, PruneForAcquire, Goto
  <2>3. \A p \in Path : ~ CountsOn(e, p)'
    BY <2>1 DEF CountsOn
  <2>4. \/ locks \subseteq locks' /\ lost' = lost
        \/ Prunes(LOCK_TTL) \/ Prunes(PRESENCE_LOCK_TTL)
        \/ GivesBack(e, release_for_agent(locks, AgentOf[e]))
    BY <1>9
    DEF PresenceStep, PresencePrunes, PresenceDrops, PresenceUnmapped,
        PresenceAsks, PresenceAnswered, PruneForAcquire, Refused, Admitted,
        Granted
  <2>5. \A l \in locks \ release_for_agent(locks, AgentOf[e]) :
          l.agent = AgentOf[e]
    BY DEF release_for_agent
  <2>6. CASE locks \subseteq locks' /\ lost' = lost
    BY <1>3, <1>6, <2>1, <2>2, <2>3, <2>6
  <2>7. CASE Prunes(LOCK_TTL) \/ Prunes(PRESENCE_LOCK_TTL)
    BY <1>3, <1>4, <2>1, <2>2, <2>3, <2>7, TTLAssumption, ActorAssumption
  <2>8. CASE GivesBack(e, release_for_agent(locks, AgentOf[e]))
    BY <1>3, <1>5, <2>1, <2>2, <2>3, <2>5, <2>8
  <2> QED
    BY <2>4, <2>6, <2>7, <2>8
<1>10. CASE Tick
  <2>1. UNCHANGED <<pc, held, lost>> /\ locks' = Aged(locks)
    BY <1>10 DEF Tick
  <2> SUFFICES ASSUME NEW x \in Actor, x \notin lost, NEW p \in Path,
                      CountsOn(x, p)
               PROVE  Own(locks', x, p) # {}
    BY <2>1 DEF Holding, CountsOn, Own
  <2>2. PICK l \in locks : l \in Own(locks, x, p)
    BY DEF Holding, Own
  <2>3. PICK k : k = [l EXCEPT !.age = Older(@)]
    OBVIOUS
  <2>4. k \in locks'
    BY <2>1, <2>3 DEF Aged
  <2>5. k.path = l.path /\ k.range = l.range /\ k.agent = l.agent
    BY <1>1, <2>3 DEF EditLock
  <2> QED
    BY <2>2, <2>4, <2>5 DEF Own
<1>11. CASE UNCHANGED vars
  BY <1>11 DEF vars, Holding, CountsOn, Own
<1> QED
  BY <1>7, <1>8, <1>9, <1>10, <1>11 DEF Next

\* What the clients of the gate preserve together.
HInv == SInv /\ Disjoint(locks) /\ Covered /\ Holding

\* They do so in every reachable state.
LEMMA HInvHolds == Spec => []HInv
<1> DEFINE Rest == Disjoint(locks) /\ Covered /\ Holding
<1>1. Init => Rest
  <2> SUFFICES ASSUME Init
               PROVE  Rest
    OBVIOUS
  <2>1. Disjoint(locks)
    BY DEF Init, Disjoint
  <2>2. Covered
    BY DEF Init, Covered
  <2>3. Holding
    BY ThreadAssumption DEF Init, Holding, CountsOn, Actor
  <2> QED
    BY <2>1, <2>2, <2>3
<1>2. SInv /\ Rest /\ [Next]_vars => Rest'
  BY DisjointInductive, CoveredInductive, HoldingInductive
<1>3. SInv /\ Rest <=> HInv
  BY DEF HInv
<1> QED
  BY <1>1, <1>2, <1>3, TypeCorrect, PTL DEF Spec

\* A worker executes with its whole scope locked (acquire_scope_locks) until
\* one of its locks outlives a prune or is given back under its own agent id,
\* for any scopes, with tool calls and telemetry at the same gate.
THEOREM ScopeHeld == Spec => []WorkingHoldsScope
<1>1. HInv => WorkingHoldsScope
  <2> SUFFICES ASSUME HInv, NEW w \in Task \ lost, pc[w] = "working",
                      NEW i \in DOMAIN Scope[w]
               PROVE  holds(locks, AgentOf[w], Scope[w][i])
    BY DEF WorkingHoldsScope
  <2>1. w \in Actor /\ todo[w] = <<>> /\ Scope[w] \in Seq(Path)
    BY ActorAssumption DEF HInv, SInv, Entries, Actor
  <2>2. CountsOn(w, Scope[w][i]) /\ Scope[w][i] \in Path
    BY <2>1 DEF HInv, Covered, CountsOn
  <2>3. PICK l \in locks : l \in Own(locks, w, Scope[w][i])
    BY <2>1, <2>2 DEF HInv, Holding, Own
  <2> QED
    BY <2>3 DEF Own, holds
<1> QED
  BY <1>1, HInvHolds, PTL

\* A claimed file or a locked scope is written by one agent at a time, for any
\* number of calls, workers, cursor movements and overlapping scopes, until a
\* lock outlives a prune or is given back under the same agent id.
THEOREM WorkExclusive == Spec => []ExclusiveWork
<1>1. ASSUME HInv, NEW x \in (Call \cup Task) \ lost, NEW cell \in Region(x)
      PROVE  \E l \in locks : l.agent = AgentOf[x] /\ cell \in Footprint(l)
  <2>1. x \in Actor \ lost /\ pc[x] = "working"
    BY <1>1 DEF Actor, Region
  <2>2. \E p \in Path :
          /\ CountsOn(x, p)
          /\ cell \in Footprint([path |-> p, range |-> WHOLE_SCOPE])
    <3>1. CASE x \in Call
      BY <1>1, <2>1, <3>1, ActorAssumption DEF Region, CountsOn
    <3>2. CASE x \in Task
      <4>1. held[x] \in Seq(Path) /\ x \notin Call
        BY <1>1, <3>2, ThreadAssumption DEF HInv, SInv, TypeOK
      <4>2. PICK i \in DOMAIN held[x] :
              cell \in Footprint([path |-> held[x][i], range |-> WHOLE_SCOPE])
        BY <1>1, <2>1, <4>1 DEF Region
      <4>3. held[x][i] \in Path /\ CountsOn(x, held[x][i])
        BY <2>1, <3>2, <4>1 DEF CountsOn
      <4> QED
        BY <4>2, <4>3
    <3> QED
      BY <1>1, <3>1, <3>2
  <2>3. PICK p \in Path :
          /\ CountsOn(x, p)
          /\ cell \in Footprint([path |-> p, range |-> WHOLE_SCOPE])
    BY <2>2
  <2>4. PICK l \in locks : l \in Own(locks, x, p)
    BY <1>1, <2>1, <2>3 DEF HInv, Holding, Own
  <2>5. Footprint(l) = Footprint([path |-> p, range |-> WHOLE_SCOPE])
    BY <2>4 DEF Own, Footprint, Covers
  <2> QED
    BY <2>3, <2>4, <2>5 DEF Own
<1>2. HInv => ExclusiveWork
  <2> SUFFICES ASSUME HInv, NEW x \in (Call \cup Task) \ lost,
                      NEW y \in (Call \cup Task) \ lost,
                      AgentOf[x] # AgentOf[y],
                      NEW cell, cell \in Region(x), cell \in Region(y)
               PROVE  FALSE
    BY DEF ExclusiveWork
  <2>1. PICK k \in locks : k.agent = AgentOf[x] /\ cell \in Footprint(k)
    BY <1>1
  <2>2. PICK l \in locks : l.agent = AgentOf[y] /\ cell \in Footprint(l)
    BY <1>1
  <2> QED
    BY <2>1, <2>2 DEF HInv, Disjoint
<1> QED
  BY <1>2, HInvHolds, PTL
=============================================================================
