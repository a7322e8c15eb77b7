--------------------------- MODULE Detached_proofs ---------------------------
(***************************************************************************)
(* Theorems of Detached, for any work items, argument variants, clients,    *)
(* threads and bounds, and for either backend.                              *)
(***************************************************************************)
EXTENDS Detached, LedgerFacts

EventSet == [work : Works, state : WorkStates, attempt : Nat,
             variant : Variants \cup {None}, outcome : Outcomes \cup {None}]
ItemSet == [attempt : Nat, left : SUBSET {"retrying", "start"}]
ThreadPcs == {"none", "start", "dispatch", "waiting", "terminal", "pop", "dead"}
ThreadSet == [pc : ThreadPcs, work : Works \cup {None}, attempt : Nat, outcome : Outcomes \cup {None}]
SubmissionSet == [pc : {"idle", "project", "start"}, work : Works \cup {None}, attempt : Nat]

\* The ledger has a RUNNING event of this attempt.
Ran(w, a) == \E j \in EventsOf(w) : log[j].state = "RUNNING" /\ log[j].attempt = a

\* A live thread carries accepted work, is the one registered for it, and past
\* its first append its attempt has begun.
ThreadsOK ==
    \A t \in Threads :
        Alive(t) =>
            /\ th[t].work \in Works /\ registry[th[t].work] = t /\ EventsOf(th[t].work) # {}
            /\ th[t].pc \in {"dispatch", "waiting", "terminal"} => Ran(th[t].work, th[t].attempt)

\* A registered thread that is alive carries the work it is registered for.
RegistryOK == \A w \in Works : \A t \in Threads : registry[w] = t /\ Alive(t) => th[t].work = w

SubmissionsOK ==
    \A c \in Clients :
        sub[c].pc # "idle" => sub[c].work \in Works /\ EventsOf(sub[c].work) # {}

\* Recovery will start every item it holds that has arguments, and records a
\* retry only of an attempt that began.
ItemsOK ==
    \A w \in Works :
        /\ todo[w].left # {} => EventsOf(w) # {}
        /\ todo[w].left # {} /\ HasArguments(w) => "start" \in todo[w].left
        /\ "retrying" \in todo[w].left => Ran(w, todo[w].attempt - 1)

\* As long as no append failed, a thread that has only its pop left has
\* recorded a terminal event.
PopsOK == faults = 0 => \A t \in Threads : th[t].pc = "pop" => ~HasArguments(th[t].work)

\* Someone acts on the work, and a submission that will find it RUNNING does
\* not count: it leaves the work to the thread.
Held(w) ==
    \/ \E t \in Threads : Alive(t) /\ th[t].work = w
    \/ todo[w].left # {}
    \/ Status(w).state # "RUNNING" /\ \E c \in Clients : sub[c].pc # "idle" /\ sub[c].work = w

Lossless ==
    phase \in {"recovering", "serving"} /\ faults = 0 =>
        \A w \in Works : EventsOf(w) # {} /\ HasArguments(w) => Held(w)

LogOK == AcceptedOnce /\ AttemptsRan

\* The inductive invariant.
Inv ==
    /\ TypeOK /\ LogOK
    /\ ThreadsOK /\ RegistryOK /\ SubmissionsOK /\ ItemsOK
    /\ PopsOK /\ Lossless

-----------------------------------------------------------------------------
(* The ledger: what an append does to the events of a work item.             *)

LEMMA LogType == ASSUME TypeOK PROVE log \in Seq(EventSet)
BY DEF TypeOK, EventSet

\* The latest event of an accepted work item is well defined.
LEMMA LastIsLatest ==
    ASSUME TypeOK, NEW w, EventsOf(w) # {}
    PROVE  /\ LastOf(w) \in EventsOf(w) /\ \A j \in EventsOf(w) : j <= LastOf(w)
           /\ Status(w) \in EventSet /\ Status(w).work = w
<1>1. log \in Seq(EventSet)
    BY LogType
<1>2. Len(log) \in Nat /\ EventsOf(w) \subseteq 0..Len(log)
    BY <1>1 DEF EventsOf
<1>3. \E x \in EventsOf(w) : \A y \in EventsOf(w) : y <= x
    BY <1>2, GreatestExists
<1>4. LastOf(w) \in EventsOf(w) /\ \A j \in EventsOf(w) : j <= LastOf(w)
    BY <1>3 DEF LastOf
<1> QED BY <1>1, <1>4 DEF Status, EventsOf

LEMMA Recorded ==
    ASSUME TypeOK, NEW e \in EventSet, Record(e)
    PROVE  /\ log' \in Seq(EventSet)
           /\ Len(log) \in Nat /\ DOMAIN log = 1..Len(log)
           /\ DOMAIN log' = 1..(Len(log) + 1) /\ Len(log) + 1 \notin DOMAIN log
           /\ \A i \in DOMAIN log : i \in DOMAIN log' /\ log'[i] = log[i] /\ i < Len(log) + 1
           /\ \A i \in DOMAIN log' : i \in DOMAIN log \/ i = Len(log) + 1
           /\ log'[Len(log) + 1] = e
<1>1. log \in Seq(EventSet)
    BY LogType
<1>2. /\ log' \in Seq(EventSet)
      /\ Len(log) \in Nat /\ DOMAIN log = 1..Len(log)
      /\ DOMAIN log' = 1..(Len(log) + 1)
      /\ \A i \in 1..Len(log) : log'[i] = log[i]
      /\ log'[Len(log) + 1] = e
    BY <1>1, AppendFacts DEF Record
<1>3. \A i \in 1..Len(log) : i \in 1..(Len(log) + 1) /\ i < Len(log) + 1
    BY <1>2
<1>4. \A i \in 1..(Len(log) + 1) : i \in 1..Len(log) \/ i = Len(log) + 1
    BY <1>2
<1> QED BY <1>2, <1>3, <1>4

\* The events of a work item over an append.
LEMMA RecordedEvents ==
    ASSUME TypeOK, NEW e \in EventSet, Record(e), NEW w
    PROVE  /\ EventsOf(w)' = EventsOf(w) \cup (IF e.work = w THEN {Len(log) + 1} ELSE {})
           /\ HasArguments(w)' <=> HasArguments(w) /\ (e.work = w => e.state \notin Terminal)
           /\ \A a : Ran(w, a) => Ran(w, a)'
           /\ e.work = w => Status(w)' = e
           /\ e.work # w /\ EventsOf(w) # {} => Status(w)' = Status(w)
<1>1. /\ Len(log) \in Nat /\ DOMAIN log = 1..Len(log)
      /\ DOMAIN log' = 1..(Len(log) + 1) /\ Len(log) + 1 \notin DOMAIN log
      /\ \A i \in DOMAIN log : i \in DOMAIN log' /\ log'[i] = log[i] /\ i < Len(log) + 1
      /\ \A i \in DOMAIN log' : i \in DOMAIN log \/ i = Len(log) + 1
      /\ log'[Len(log) + 1] = e
    BY Recorded
<1>2. Len(log) + 1 \in DOMAIN log'
    BY <1>1
<1>3. EventsOf(w)' = EventsOf(w) \cup (IF e.work = w THEN {Len(log) + 1} ELSE {})
    BY <1>1, <1>2 DEF EventsOf
<1>4. \A i \in EventsOf(w) : log'[i] = log[i]
    BY <1>1 DEF EventsOf
<1>5. HasArguments(w)' <=> HasArguments(w) /\ (e.work = w => e.state \notin Terminal)
    BY <1>1, <1>3, <1>4 DEF HasArguments
<1>6. ASSUME NEW a, Ran(w, a) PROVE Ran(w, a)'
    BY <1>3, <1>4, <1>6 DEF Ran
<1>7. ASSUME e.work = w PROVE Status(w)' = e
  <2>1. Len(log) + 1 \in EventsOf(w)' /\ \A j \in EventsOf(w)' : j <= Len(log) + 1
      BY <1>1, <1>3, <1>7 DEF EventsOf
  <2>2. \A i \in EventsOf(w)' : (\A j \in EventsOf(w)' : j <= i) => i = Len(log) + 1
    <3>1. \A i \in EventsOf(w)' : i \in Nat
        BY <1>1 DEF EventsOf
    <3> QED BY <2>1, <3>1
  <2>3. LastOf(w)' = Len(log) + 1
      BY <2>1, <2>2 DEF LastOf
  <2> QED BY <1>1, <2>3 DEF Status
<1>8. ASSUME e.work # w, EventsOf(w) # {} PROVE Status(w)' = Status(w)
  <2>1. EventsOf(w)' = EventsOf(w)
      BY <1>3, <1>8
  <2>2. LastOf(w)' = LastOf(w)
      BY <2>1 DEF LastOf
  <2>3. LastOf(w) \in EventsOf(w)
      BY <1>8, LastIsLatest
  <2> QED BY <1>4, <2>2, <2>3 DEF Status
<1> QED BY <1>3, <1>5, <1>6, <1>7, <1>8

\* What the other parts of the invariant need of the ledger.
Kept ==
    \A w \in Works :
        /\ EventsOf(w) # {} => EventsOf(w)' # {}
        /\ HasArguments(w)' => HasArguments(w)
        /\ \A a : Ran(w, a) => Ran(w, a)'

LEMMA KeptSame ==
    ASSUME log' = log
    PROVE  /\ Kept
           /\ \A w : EventsOf(w)' = EventsOf(w)
           /\ \A w : HasArguments(w)' <=> HasArguments(w)
           /\ \A w : Status(w)' = Status(w)
BY DEF Kept, EventsOf, HasArguments, Ran, Status, LastOf

LEMMA KeptAppend ==
    ASSUME TypeOK, NEW e \in EventSet, Record(e) PROVE Kept
<1>1. ASSUME NEW w \in Works
      PROVE  /\ EventsOf(w) # {} => EventsOf(w)' # {}
             /\ HasArguments(w)' => HasArguments(w)
             /\ \A a : Ran(w, a) => Ran(w, a)'
    BY RecordedEvents
<1> QED BY <1>1 DEF Kept

\* An event that may follow the events of its work item keeps the ledger sound.
LEMMA LogStep ==
    ASSUME TypeOK, LogOK, NEW e \in EventSet, Record(e),
           e.state = "QUEUED" => EventsOf(e.work) = {} /\ e.variant # None,
           e.state # "QUEUED" => EventsOf(e.work) # {} /\ e.variant = None,
           e.state = "RETRYING" => Ran(e.work, e.attempt - 1),
           e.state \in Terminal => Ran(e.work, e.attempt)
    PROVE  LogOK'
<1> DEFINE n == Len(log) + 1
<1>1. /\ Len(log) \in Nat /\ n \notin DOMAIN log /\ n \in DOMAIN log'
      /\ \A i \in DOMAIN log : i \in DOMAIN log' /\ log'[i] = log[i] /\ i < n
      /\ \A i \in DOMAIN log' : i \in DOMAIN log \/ i = n
      /\ log'[n] = e
    BY Recorded
<1>2. \A w : EventsOf(w)' = EventsOf(w) \cup (IF e.work = w THEN {n} ELSE {})
    BY RecordedEvents
<1>3. \A w : \A j \in EventsOf(w) : j \in DOMAIN log /\ log'[j] = log[j] /\ j < n /\ j \in Nat
    BY <1>1, LogType DEF EventsOf
<1> HIDE DEF n
\* The events of a work item after the step.
<1> DEFINE After(w) == {j \in DOMAIN log' : log'[j].work = w}
<1>w. \A w : After(w) = EventsOf(w) \cup (IF e.work = w THEN {n} ELSE {})
    BY <1>2 DEF EventsOf
<1> HIDE DEF After
<1>4. ASSUME NEW i \in DOMAIN log'
      PROVE  /\ log'[i].state = "QUEUED" => \A j \in After(log'[i].work) : i <= j
             /\ (\A j \in After(log'[i].work) : i <= j) =>
                   log'[i].state = "QUEUED" /\ log'[i].variant # None
             /\ log'[i].state # "QUEUED" => log'[i].variant = None
  <2>1. CASE i = n
    <3>1. e.state = "QUEUED" => After(e.work) = {n}
        BY <1>w
    <3>2. e.state # "QUEUED" => \E j \in After(e.work) : ~(n <= j)
      <4> SUFFICES ASSUME e.state # "QUEUED" PROVE \E j \in After(e.work) : ~(n <= j)
          OBVIOUS
      <4>1. PICK j \in EventsOf(e.work) : TRUE
          OBVIOUS
      <4>2. j \in After(e.work) /\ j < n /\ j \in Nat /\ n \in Nat
          BY <1>1, <1>w, <1>3, <4>1 DEF n
      <4> QED BY <4>2
    <3>3. n <= n
        BY <1>1 DEF n
    <3> QED BY <1>1, <2>1, <3>1, <3>2, <3>3
  <2>2. CASE i \in DOMAIN log
    <3>1. log'[i] = log[i] /\ i < n /\ i \in Nat /\ n \in Nat
        BY <1>1, <2>2, LogType DEF n
    <3>2. \A j \in After(log[i].work) : j \in EventsOf(log[i].work) \/ j = n
        BY <1>w
    <3>3. (\A j \in After(log[i].work) : i <= j) <=> (\A j \in EventsOf(log[i].work) : i <= j)
        BY <1>w, <3>1, <3>2
    <3> QED BY <2>2, <3>1, <3>3 DEF LogOK, AcceptedOnce
  <2> QED BY <1>1, <2>1, <2>2
<1>5. ASSUME NEW i \in DOMAIN log', NEW a,
             \/ i = n /\ Ran(e.work, a)
             \/ i \in DOMAIN log /\ \E j \in EventsOf(log[i].work) :
                                       j < i /\ log[j].state = "RUNNING" /\ log[j].attempt = a
      PROVE  \E j \in After(log'[i].work) :
                 j < i /\ log'[j].state = "RUNNING" /\ log'[j].attempt = a
  <2>1. CASE i = n /\ Ran(e.work, a)
    <3>1. PICK j \in EventsOf(e.work) : log[j].state = "RUNNING" /\ log[j].attempt = a
        BY <2>1 DEF Ran
    <3> QED BY <1>1, <1>w, <1>3, <2>1, <3>1
  <2>2. CASE i \in DOMAIN log /\ \E j \in EventsOf(log[i].work) :
                                       j < i /\ log[j].state = "RUNNING" /\ log[j].attempt = a
      BY <1>1, <1>w, <1>3, <2>2
  <2> QED BY <1>5, <2>1, <2>2
<1>6. AcceptedOnce'
    BY <1>4 DEF AcceptedOnce, EventsOf, After
<1>7. AttemptsRan'
  <2>0. ASSUME NEW i \in DOMAIN log'
        PROVE  /\ log'[i].state = "RETRYING" =>
                     \E j \in After(log'[i].work) :
                         j < i /\ log'[j].state = "RUNNING" /\ log'[j].attempt = log'[i].attempt - 1
               /\ log'[i].state \in Terminal =>
                     \E j \in After(log'[i].work) :
                         j < i /\ log'[j].state = "RUNNING" /\ log'[j].attempt = log'[i].attempt
    <3>1. CASE i = n
        BY <1>1, <1>5, <3>1
    <3>2. CASE i \in DOMAIN log
      <4>1. /\ log[i].state = "RETRYING" =>
                  \E j \in EventsOf(log[i].work) :
                      j < i /\ log[j].state = "RUNNING" /\ log[j].attempt = log[i].attempt - 1
            /\ log[i].state \in Terminal =>
                  \E j \in EventsOf(log[i].work) :
                      j < i /\ log[j].state = "RUNNING" /\ log[j].attempt = log[i].attempt
          BY <3>2 DEF LogOK, AttemptsRan
      <4>2. log'[i] = log[i]
          BY <1>1, <3>2
      <4>3. CASE log[i].state = "RETRYING"
        <5> DEFINE a == log[i].attempt - 1
        <5>1. \E j \in EventsOf(log[i].work) : j < i /\ log[j].state = "RUNNING" /\ log[j].attempt = a
            BY <4>1, <4>3
        <5> HIDE DEF a
        <5>2. \E j \in After(log'[i].work) : j < i /\ log'[j].state = "RUNNING" /\ log'[j].attempt = a
            BY <1>5, <3>2, <5>1
        <5> QED BY <4>2, <4>3, <5>2 DEF a, Terminal
      <4>4. CASE log[i].state # "RETRYING"
          BY <1>5, <3>2, <4>1, <4>2, <4>4
      <4> QED BY <4>3, <4>4
    <3> QED BY <1>1, <3>1, <3>2
  <2> QED BY <2>0 DEF AttemptsRan, EventsOf, After
<1> QED BY <1>6, <1>7 DEF LogOK

LEMMA LogSame == ASSUME LogOK, log' = log PROVE LogOK'
BY DEF LogOK, AcceptedOnce, AttemptsRan, EventsOf

-----------------------------------------------------------------------------
(* Threads, submissions and recovery items.                                  *)

LEMMA ThreadsSame ==
    ASSUME TypeOK, ThreadsOK, RegistryOK, Kept, UNCHANGED <<th, registry>>
    PROVE  ThreadsOK' /\ RegistryOK'
BY DEF ThreadsOK, RegistryOK, Kept, Alive

LEMMA SubmissionsSame ==
    ASSUME SubmissionsOK, Kept, sub' = sub
    PROVE  SubmissionsOK'
BY DEF SubmissionsOK, Kept

LEMMA ItemsSame ==
    ASSUME ItemsOK, Kept, todo' = todo
    PROVE  ItemsOK'
BY DEF ItemsOK, Kept

LEMMA PopsSame ==
    ASSUME TypeOK, ThreadsOK, PopsOK, Kept, faults' = faults,
           \A t \in Threads : th'[t].pc = "pop" => th'[t] = th[t]
    PROVE  PopsOK'
<1> SUFFICES ASSUME faults = 0, NEW t \in Threads, th'[t].pc = "pop"
             PROVE  ~HasArguments(th[t].work)'
    BY DEF PopsOK
<1>1. PICK w : w = th[t].work
    OBVIOUS
<1>2. th'[t].work = w /\ w \in Works /\ ~HasArguments(w)
    BY <1>1 DEF PopsOK, ThreadsOK, Alive
<1> QED BY <1>2 DEF Kept

\* A thread goes on with its work, or dies.
LEMMA ThreadMoves ==
    ASSUME TypeOK, ThreadsOK, RegistryOK, Kept, registry' = registry,
           NEW t \in Threads, Alive(t), NEW pc \in ThreadPcs \ {"none"},
           NEW outcome \in Outcomes \cup {None},
           th' = [th EXCEPT ![t] = [th[t] EXCEPT !.pc = pc, !.outcome = outcome]],
           pc \in {"dispatch", "waiting", "terminal"} => \E a : a = th[t].attempt /\
                                                          \E w : w = th[t].work /\ Ran(w, a)'
    PROVE  /\ th' \in [Threads -> ThreadSet]
           /\ th'[t].pc = pc /\ th'[t].work = th[t].work /\ th'[t].attempt = th[t].attempt
           /\ th'[t].outcome = outcome
           /\ \A u \in Threads \ {t} : th'[u] = th[u]
           /\ ThreadsOK' /\ RegistryOK'
<1>0. th \in [Threads -> ThreadSet] /\ th[t] \in ThreadSet
    BY DEF TypeOK, ThreadSet, ThreadPcs
<1> DEFINE x == [th[t] EXCEPT !.pc = pc, !.outcome = outcome]
<1>1. /\ x \in ThreadSet
      /\ x.pc = pc /\ x.work = th[t].work /\ x.attempt = th[t].attempt /\ x.outcome = outcome
    BY <1>0 DEF ThreadSet
<1> HIDE DEF x
<1>2. th' \in [Threads -> ThreadSet] /\ th'[t] = x /\ \A u \in Threads \ {t} : th'[u] = th[u]
    BY <1>0, <1>1 DEF x
<1>3. \A u \in Threads : th'[u].work = th[u].work /\ th'[u].attempt = th[u].attempt
    BY <1>1, <1>2
<1>4. \A u \in Threads : Alive(u)' => Alive(u)
    BY <1>2 DEF Alive
<1>5. \A u \in Threads : u # t => (Alive(u)' <=> Alive(u))
    BY <1>2 DEF Alive
<1>6. ASSUME NEW u \in Threads, Alive(u)'
      PROVE  /\ th'[u].work \in Works /\ registry'[th'[u].work] = u /\ EventsOf(th[u].work)' # {}
             /\ th'[u].pc \in {"dispatch", "waiting", "terminal"} => Ran(th[u].work, th[u].attempt)'
  <2>1. PICK w, a : w = th[u].work /\ a = th[u].attempt
      OBVIOUS
  <2>2. w \in Works /\ registry[w] = u /\ EventsOf(w) # {} /\ th'[u].work = w /\ th'[u].attempt = a
      BY <1>3, <1>4, <1>6, <2>1 DEF ThreadsOK
  <2>3. EventsOf(w)' # {}
      BY <2>2 DEF Kept
  <2>4. th'[u].pc \in {"dispatch", "waiting", "terminal"} => Ran(w, a)'
    <3>1. CASE u = t
        BY <1>1, <1>2, <2>1, <3>1
    <3>2. CASE u # t
        BY <1>2, <1>4, <1>6, <2>1, <2>2, <3>2 DEF ThreadsOK, Kept
    <3> QED BY <3>1, <3>2
  <2> QED BY <2>2, <2>3, <2>4
<1>7. ThreadsOK'
    BY <1>6 DEF ThreadsOK
<1>8. RegistryOK'
    BY <1>3, <1>4 DEF RegistryOK
<1> QED BY <1>1, <1>2, <1>7, <1>8

\* After _start_detached a live thread carries the work.
LEMMA StartFacts ==
    ASSUME TypeOK, ThreadsOK, RegistryOK, NEW w \in Works, NEW attempt \in Nat,
           EventsOf(w) # {}, StartThread(w, attempt), log' = log
    PROVE  /\ th' \in [Threads -> ThreadSet] /\ registry' \in [Works -> Threads \cup {None}]
           /\ ThreadsOK' /\ RegistryOK'
           /\ \E t \in Threads : Alive(t)' /\ th'[t].work = w
           /\ \A t \in Threads : Alive(t) => th'[t] = th[t]
           /\ \A t \in Threads : th'[t].pc = "pop" => th'[t] = th[t]
<1>0. th \in [Threads -> ThreadSet] /\ registry \in [Works -> Threads \cup {None}]
    BY DEF TypeOK, ThreadSet, ThreadPcs
<1>k. Kept /\ (\A x : EventsOf(x)' = EventsOf(x)) /\ (\A x, a : Ran(x, a)' <=> Ran(x, a))
    BY KeptSame DEF Ran, EventsOf
<1>1. CASE Occupied(w) /\ UNCHANGED <<registry, th>>
  <2>1. \E t \in Threads : Alive(t) /\ th[t].work = w
      BY <1>1 DEF Occupied, RegistryOK
  <2>2. \A t \in Threads : Alive(t)' <=> Alive(t)
      BY <1>1 DEF Alive
  <2> QED BY <1>0, <1>1, <1>k, <2>1, <2>2, ThreadsSame
<1>2. ASSUME ~Occupied(w), NEW t \in Threads,
             ~Alive(t), \A x \in Works \ {w} : registry[x] # t,
             th' = [th EXCEPT ![t] = [pc |-> "start", work |-> w, attempt |-> attempt, outcome |-> None]],
             registry' = [registry EXCEPT ![w] = t]
      PROVE  /\ th' \in [Threads -> ThreadSet] /\ registry' \in [Works -> Threads \cup {None}]
             /\ ThreadsOK' /\ RegistryOK'
             /\ \E u \in Threads : Alive(u)' /\ th'[u].work = w
             /\ \A u \in Threads : Alive(u) => th'[u] = th[u]
             /\ \A u \in Threads : th'[u].pc = "pop" => th'[u] = th[u]
  <2> DEFINE x == [pc |-> "start", work |-> w, attempt |-> attempt, outcome |-> None]
  <2>1. x \in ThreadSet /\ x.pc = "start" /\ x.work = w
      BY DEF ThreadSet, ThreadPcs
  <2>2. th' \in [Threads -> ThreadSet] /\ th'[t] = x /\ \A u \in Threads \ {t} : th'[u] = th[u]
    <3> HIDE DEF x
    <3> QED BY <1>0, <1>2, <2>1 DEF x
  <2> HIDE DEF x
  <2>3. /\ registry' \in [Works -> Threads \cup {None}]
        /\ registry'[w] = t /\ \A y \in Works \ {w} : registry'[y] = registry[y]
      BY <1>0, <1>2
  <2>4. Alive(t)' /\ \A u \in Threads \ {t} : Alive(u)' <=> Alive(u)
      BY <2>1, <2>2 DEF Alive
  <2>5. \A u \in Threads \ {t} : Alive(u) => th[u].work # w
      BY <1>2 DEF ThreadsOK, Occupied
  <2>6. ASSUME NEW u \in Threads, Alive(u)'
        PROVE  /\ th'[u].work \in Works /\ registry'[th'[u].work] = u /\ EventsOf(th[u].work)' # {}
               /\ th'[u].pc \in {"dispatch", "waiting", "terminal"} => Ran(th[u].work, th[u].attempt)'
    <3>1. CASE u = t
      <4>1. th'[u].work = w /\ th'[u].pc = "start"
          BY <2>1, <2>2, <3>1
      <4> QED BY <1>k, <2>3, <3>1, <4>1
    <3>2. CASE u # t
      <4>1. PICK y, a : y = th[u].work /\ a = th[u].attempt
          OBVIOUS
      <4>2. /\ th'[u] = th[u] /\ Alive(u) /\ y \in Works /\ registry[y] = u /\ EventsOf(y) # {} /\ y # w
            /\ th[u].pc \in {"dispatch", "waiting", "terminal"} => Ran(y, a)
          BY <2>2, <2>4, <2>5, <2>6, <3>2, <4>1 DEF ThreadsOK
      <4> QED BY <1>k, <2>3, <4>1, <4>2
    <3> QED BY <3>1, <3>2
  <2>7. ThreadsOK'
      BY <2>6 DEF ThreadsOK
  <2>8. ASSUME NEW y \in Works, NEW u \in Threads, registry'[y] = u, Alive(u)' PROVE th'[u].work = y
    <3>1. CASE y = w
        BY <2>1, <2>2, <2>3, <2>8, <3>1
    <3>2. CASE y # w
        BY <1>2, <2>2, <2>3, <2>4, <2>8, <3>2 DEF RegistryOK
    <3> QED BY <3>1, <3>2
  <2>9. RegistryOK'
      BY <2>8 DEF RegistryOK
  <2> QED BY <1>2, <2>1, <2>2, <2>3, <2>4, <2>7, <2>9
<1> QED BY <1>1, <1>2 DEF StartThread

-----------------------------------------------------------------------------
(* Every action keeps the invariant.                                         *)

\* TypeOK by its parts, with the record sets named.
LEMMA TypeParts ==
    TypeOK <=>
    /\ log \in Seq(EventSet)
    /\ phase \in {"down", "listening", "recovering", "serving"}
    /\ todo \in [Works -> ItemSet]
    /\ registry \in [Works -> Threads \cup {None}]
    /\ th \in [Threads -> ThreadSet]
    /\ sub \in [Clients -> SubmissionSet]
    /\ submits \in 0..MaxSubmits /\ crashes \in 0..MaxCrashes /\ faults \in 0..MaxFaults
BY DEF TypeOK, EventSet, ItemSet, ThreadSet, ThreadPcs, SubmissionSet

LEMMA TypeNext ==
    ASSUME log' \in Seq(EventSet),
           phase' \in {"down", "listening", "recovering", "serving"},
           todo' \in [Works -> ItemSet],
           registry' \in [Works -> Threads \cup {None}],
           th' \in [Threads -> ThreadSet],
           sub' \in [Clients -> SubmissionSet],
           submits' \in 0..MaxSubmits, crashes' \in 0..MaxCrashes, faults' \in 0..MaxFaults
    PROVE  TypeOK'
BY DEF TypeOK, EventSet, ItemSet, ThreadSet, ThreadPcs, SubmissionSet

LEMMA InitInv == Init => Inv
<1> SUFFICES ASSUME Init PROVE Inv
    OBVIOUS
<1>1. NoItem \in ItemSet /\ NoThread \in ThreadSet /\ NoSubmission \in SubmissionSet
    BY DEF NoItem, NoThread, NoSubmission, ItemSet, ThreadSet, ThreadPcs, SubmissionSet
<1>2. TypeOK
    BY <1>1, DetachedBounds, TypeParts DEF Init
<1>3. DOMAIN log = {}
    BY DEF Init
<1>4. LogOK
    BY <1>3 DEF LogOK, AcceptedOnce, AttemptsRan
<1>5. \A t \in Threads : th[t].pc = "none"
    BY DEF Init, NoThread
<1>6. ThreadsOK /\ RegistryOK /\ PopsOK
    BY <1>5 DEF ThreadsOK, RegistryOK, PopsOK, Alive
<1>7. SubmissionsOK /\ ItemsOK /\ Lossless
    BY DEF Init, SubmissionsOK, ItemsOK, Lossless, NoSubmission, NoItem
<1> QED BY <1>2, <1>4, <1>6, <1>7 DEF Inv

\* A step that changes no work's holder keeps what is held.
LEMMA LosslessKept ==
    ASSUME Lossless, Kept, phase' \in {"recovering", "serving"} /\ faults' = 0 =>
               /\ phase \in {"recovering", "serving"} /\ faults = 0
               /\ \A w \in Works : /\ EventsOf(w)' # {} /\ HasArguments(w)' =>
                                        \/ Held(w)'
                                        \/ EventsOf(w) # {} /\ (Held(w) => Held(w)')
    PROVE  Lossless'
BY DEF Lossless, Kept

LEMMA SubmitAppendInv ==
    ASSUME Inv, NEW c \in Clients, NEW w \in Works, NEW v \in Variants, SubmitAppend(c, w, v)
    PROVE  Inv'
<1> USE DEF Inv
<1>0. sub \in [Clients -> SubmissionSet] /\ log \in Seq(EventSet) /\ submits' \in 0..MaxSubmits
    BY DetachedBounds DEF SubmitAppend, TypeOK, EventSet, SubmissionSet
<1> DEFINE e == Event(w, "QUEUED", 1, v, None)
           x == [pc |-> "project", work |-> w, attempt |-> 0]
<1>1. e \in EventSet /\ e.work = w /\ e.state = "QUEUED" /\ e.variant = v /\ v # None
    BY DetachedNone DEF Event, EventSet, WorkStates
<1>2. x \in SubmissionSet /\ x.pc = "project" /\ x.work = w
    BY DEF SubmissionSet
<1>3. \/ EventsOf(w) = {} /\ Record(e) /\ sub' = [sub EXCEPT ![c] = x]
      \/ EventsOf(w) # {} /\ log' = log /\ sub' \in {sub, [sub EXCEPT ![c] = x]}
    BY DEF SubmitAppend
<1>u. sub[c].pc = "idle" /\ UNCHANGED <<phase, todo, registry, th, crashes, faults>>
    BY DEF SubmitAppend
<1> HIDE DEF e, x
<1>4. Kept /\ LogOK' /\ log' \in Seq(EventSet)
  <2>1. CASE Record(e) /\ EventsOf(w) = {}
      BY <1>1, <2>1, KeptAppend, LogStep, Recorded DEF Terminal
  <2>2. CASE log' = log
      BY <1>0, <2>2, KeptSame, LogSame
  <2> QED BY <1>3, <2>1, <2>2
<1>5. sub' \in [Clients -> SubmissionSet] /\ \A d \in Clients \ {c} : sub'[d] = sub[d]
    BY <1>0, <1>2, <1>3
<1>6. sub'[c] = x \/ sub' = sub
    BY <1>0, <1>3
<1>7. EventsOf(w)' # {}
  <2>1. Record(e) => EventsOf(w)' # {}
      BY <1>1, RecordedEvents
  <2>2. log' = log => EventsOf(w)' = EventsOf(w)
      BY KeptSame
  <2> QED BY <1>3, <2>1, <2>2
<1>8. TypeOK'
    BY <1>0, <1>4, <1>5, <1>u, TypeParts, TypeNext
<1>9. ThreadsOK' /\ RegistryOK' /\ ItemsOK' /\ PopsOK'
    BY <1>4, <1>u, ThreadsSame, ItemsSame, PopsSame
<1>10. SubmissionsOK'
  <2>1. ASSUME NEW d \in Clients, sub'[d].pc # "idle"
        PROVE  \E y : y = sub'[d].work /\ y \in Works /\ EventsOf(y)' # {}
    <3>1. CASE d = c /\ sub'[c] = x
        BY <1>2, <1>7, <3>1
    <3>2. CASE sub'[d] = sub[d]
        BY <1>4, <2>1, <3>2 DEF SubmissionsOK, Kept
    <3> QED BY <1>5, <1>6, <3>1, <3>2
  <2> QED BY <2>1 DEF SubmissionsOK
<1>11. Lossless'
  <2>1. ASSUME NEW y \in Works, EventsOf(y)' # {}
        PROVE  Held(y)' \/ (EventsOf(y) # {} /\ (Held(y) => Held(y)'))
    <3>1. CASE y = w /\ Record(e) /\ EventsOf(w) = {}
      <4>1. Status(w)' = e
          BY <1>1, <3>1, RecordedEvents
      <4>2. sub'[c] = x
          BY <1>0, <1>3, <3>1
      <4> QED BY <1>1, <1>2, <3>1, <4>1, <4>2 DEF Held
    <3>2. CASE y # w /\ Record(e)
      <4>1. EventsOf(y) # {} /\ Status(y)' = Status(y)
          BY <1>1, <2>1, <3>2, RecordedEvents
      <4>2. \A d \in Clients : sub[d].pc # "idle" => sub'[d] = sub[d]
          BY <1>5, <1>u
      <4> QED BY <1>u, <4>1, <4>2 DEF Held, Alive
    <3>3. CASE log' = log
      <4>1. EventsOf(y) # {} /\ Status(y)' = Status(y)
          BY <2>1, <3>3, KeptSame
      <4>2. \A d \in Clients : sub[d].pc # "idle" => sub'[d] = sub[d]
          BY <1>5, <1>u
      <4> QED BY <1>u, <4>1, <4>2 DEF Held, Alive
    <3> QED BY <1>3, <3>1, <3>2, <3>3
  <2> QED BY <1>4, <1>u, <2>1, LosslessKept
<1> QED BY <1>4, <1>8, <1>9, <1>10, <1>11

LEMMA SubmitAppendFailsInv ==
    ASSUME Inv, NEW w \in Works, NEW v \in Variants, SubmitAppendFails(w, v)
    PROVE  Inv'
<1> USE DEF Inv
<1> DEFINE e == Event(w, "QUEUED", 1, v, None)
<1>1. e \in EventSet /\ e.work = w /\ e.state = "QUEUED" /\ e.variant = v /\ v # None
    BY DetachedNone DEF Event, EventSet, WorkStates
<1>2. /\ EventsOf(w) = {} /\ Record(e) /\ faults' = faults + 1
      /\ submits' = submits + 1 /\ submits < MaxSubmits /\ faults < MaxFaults
      /\ UNCHANGED <<phase, todo, registry, th, sub, crashes>>
    BY DEF SubmitAppendFails
<1> HIDE DEF e
<1>3. Kept /\ LogOK' /\ log' \in Seq(EventSet)
    BY <1>1, <1>2, KeptAppend, LogStep, Recorded DEF Terminal
<1>4. submits' \in 0..MaxSubmits /\ faults' \in 0..MaxFaults /\ faults' # 0
    BY <1>2, DetachedBounds DEF TypeOK
<1>5. TypeOK'
    BY <1>2, <1>3, <1>4, TypeParts, TypeNext
<1>6. ThreadsOK' /\ RegistryOK' /\ SubmissionsOK' /\ ItemsOK'
    BY <1>2, <1>3, ThreadsSame, SubmissionsSame, ItemsSame
<1>7. PopsOK' /\ Lossless'
    BY <1>4 DEF PopsOK, Lossless
<1> QED BY <1>3, <1>5, <1>6, <1>7

LEMMA SubmitProjectInv ==
    ASSUME Inv, NEW c \in Clients, SubmitProject(c)
    PROVE  Inv'
<1> USE DEF Inv
<1>0. sub \in [Clients -> SubmissionSet] /\ sub[c] \in SubmissionSet
    BY DEF TypeOK, SubmissionSet
<1>1. /\ sub[c].pc = "project" /\ log' = log
      /\ UNCHANGED <<phase, todo, registry, th, submits, crashes, faults>>
    BY DEF SubmitProject
<1>w. PICK w \in Works : w = sub[c].work /\ EventsOf(w) # {}
    BY <1>1 DEF SubmissionsOK
<1>s. Status(w) \in EventSet
    BY <1>w, LastIsLatest
<1> DEFINE s == Status(w)
           x == [sub[c] EXCEPT !.pc = "start", !.attempt = s.attempt]
<1>2. x \in SubmissionSet /\ x.pc = "start" /\ x.work = w
    BY <1>0, <1>s, <1>w DEF SubmissionSet, EventSet
<1>3. \/ s.state \in {"QUEUED", "RETRYING"} /\ sub' = [sub EXCEPT ![c] = x]
      \/ s.state \notin {"QUEUED", "RETRYING"} /\ sub' = [sub EXCEPT ![c] = NoSubmission]
    BY <1>0, <1>w DEF SubmitProject
<1>4. NoSubmission \in SubmissionSet /\ NoSubmission.pc = "idle"
    BY DEF NoSubmission, SubmissionSet
<1> HIDE DEF s, x
<1>5. /\ sub' \in [Clients -> SubmissionSet] /\ \A d \in Clients \ {c} : sub'[d] = sub[d]
      /\ \/ s.state \in {"QUEUED", "RETRYING"} /\ sub'[c] = x
         \/ s.state \notin {"QUEUED", "RETRYING"} /\ sub'[c] = NoSubmission
    BY <1>0, <1>2, <1>3, <1>4
<1>k. Kept /\ \A y : EventsOf(y)' = EventsOf(y) /\ (HasArguments(y)' <=> HasArguments(y))
                     /\ Status(y)' = Status(y)
    BY <1>1, KeptSame
<1>6. TypeOK' /\ LogOK'
    BY <1>1, <1>5, LogSame, TypeParts, TypeNext
<1>7. ThreadsOK' /\ RegistryOK' /\ ItemsOK' /\ PopsOK'
    BY <1>1, <1>k, ThreadsSame, ItemsSame, PopsSame
<1>8. SubmissionsOK'
  <2>1. ASSUME NEW d \in Clients, sub'[d].pc # "idle"
        PROVE  \E y : y = sub'[d].work /\ y \in Works /\ EventsOf(y)' # {}
    <3>1. CASE d = c
        BY <1>2, <1>4, <1>5, <1>k, <1>w, <2>1, <3>1
    <3>2. CASE d # c
        BY <1>5, <1>k, <2>1, <3>2 DEF SubmissionsOK
    <3> QED BY <3>1, <3>2
  <2> QED BY <2>1 DEF SubmissionsOK
\* A submission that finds its work RUNNING leaves it to the thread.
<1>9. Lossless'
  <2>1. ASSUME NEW y \in Works, EventsOf(y)' # {}, HasArguments(y)', Held(y)
        PROVE  Held(y)'
    <3>1. CASE y # w
      <4>1. \A d \in Clients : sub[d].pc # "idle" /\ sub[d].work = y => sub'[d] = sub[d]
          BY <1>5, <1>w, <3>1
      <4> QED BY <1>1, <1>k, <2>1, <4>1 DEF Held, Alive
    <3>2. CASE y = w /\ s.state \in {"QUEUED", "RETRYING"}
      <4>1. \A d \in Clients : sub[d].pc # "idle" /\ sub[d].work = y =>
                                  sub'[d].pc # "idle" /\ sub'[d].work = y
          BY <1>2, <1>5, <3>2
      <4> QED BY <1>1, <1>k, <2>1, <4>1 DEF Held, Alive
    <3>3. CASE y = w /\ s.state \notin {"QUEUED", "RETRYING"}
      <4>1. s.state \notin Terminal
        <5>1. LastOf(w) \in EventsOf(w)
            BY <1>w, LastIsLatest
        <5> QED BY <1>k, <2>1, <3>3, <5>1 DEF HasArguments, Status, s
      <4>2. s.state = "RUNNING"
          BY <1>s, <3>3, <4>1 DEF EventSet, WorkStates, s
      <4> QED BY <1>1, <2>1, <3>3, <4>2 DEF Held, Alive, s
    <3> QED BY <3>1, <3>2, <3>3
  <2> QED BY <1>1, <1>k, <2>1, LosslessKept
<1> QED BY <1>6, <1>7, <1>8, <1>9

LEMMA SubmitStartInv ==
    ASSUME Inv, NEW c \in Clients, SubmitStart(c)
    PROVE  Inv'
<1> USE DEF Inv
<1>0. sub \in [Clients -> SubmissionSet] /\ sub[c] \in SubmissionSet
    BY DEF TypeOK, SubmissionSet
<1>w. PICK w \in Works, a \in Nat : w = sub[c].work /\ a = sub[c].attempt /\ EventsOf(w) # {}
    BY <1>0 DEF SubmissionsOK, SubmitStart, SubmissionSet
<1>1. /\ StartThread(w, a) /\ log' = log /\ sub' = [sub EXCEPT ![c] = NoSubmission]
      /\ UNCHANGED <<phase, todo, submits, crashes, faults>>
    BY <1>w DEF SubmitStart
<1>2. NoSubmission \in SubmissionSet /\ NoSubmission.pc = "idle"
    BY DEF NoSubmission, SubmissionSet
<1>3. /\ sub' \in [Clients -> SubmissionSet] /\ sub'[c] = NoSubmission
      /\ \A d \in Clients \ {c} : sub'[d] = sub[d]
    BY <1>0, <1>1, <1>2
<1>k. Kept /\ \A y : EventsOf(y)' = EventsOf(y) /\ (HasArguments(y)' <=> HasArguments(y))
                     /\ Status(y)' = Status(y)
    BY <1>1, KeptSame
<1>t. /\ th' \in [Threads -> ThreadSet] /\ registry' \in [Works -> Threads \cup {None}]
      /\ ThreadsOK' /\ RegistryOK'
      /\ \E t \in Threads : Alive(t)' /\ th'[t].work = w
      /\ \A t \in Threads : Alive(t) => th'[t] = th[t]
      /\ \A t \in Threads : th'[t].pc = "pop" => th'[t] = th[t]
    BY <1>1, <1>w, StartFacts
<1>4. TypeOK' /\ LogOK'
    BY <1>1, <1>3, <1>t, LogSame, TypeParts, TypeNext
<1>5. ItemsOK' /\ PopsOK'
    BY <1>1, <1>k, <1>t, ItemsSame, PopsSame
<1>6. SubmissionsOK'
    BY <1>2, <1>3, <1>k DEF SubmissionsOK
<1>7. Lossless'
  <2>1. ASSUME NEW y \in Works, Held(y) PROVE Held(y)'
    <3>1. CASE y = w
        BY <1>t, <3>1 DEF Held
    <3>2. CASE y # w
      <4>1. \A d \in Clients : sub[d].pc # "idle" /\ sub[d].work = y => sub'[d] = sub[d]
          BY <1>3, <1>w, <3>2
      <4>2. \A t \in Threads : Alive(t) => Alive(t)' /\ th'[t].work = th[t].work
          BY <1>t DEF Alive
      <4> QED BY <1>1, <1>k, <2>1, <4>1, <4>2 DEF Held
    <3> QED BY <3>1, <3>2
  <2> QED BY <1>1, <1>k, <2>1, LosslessKept
<1> QED BY <1>4, <1>5, <1>6, <1>7, <1>t
\* A thread takes its next step: it may append an event of its own work.
LEMMA ThreadGoesOn ==
    ASSUME Inv, NEW t \in Threads, Alive(t), NEW w, w = th[t].work,
           NEW pc \in ThreadPcs \ {"none"}, NEW outcome \in Outcomes \cup {None},
           th' = [th EXCEPT ![t] = [th[t] EXCEPT !.pc = pc, !.outcome = outcome]],
           UNCHANGED <<phase, todo, registry, sub, submits, crashes>>,
           faults' = faults \/ faults' \in (0..MaxFaults) \ {0},
           \/ log' = log
           \/ \E e \in EventSet :
                 /\ Record(e) /\ e.work = w /\ e.variant = None
                 /\ e.state \notin {"QUEUED", "RETRYING"}
                 /\ e.state \in Terminal => Ran(w, e.attempt),
           pc \in {"dispatch", "waiting", "terminal"} => \E a : a = th[t].attempt /\ Ran(w, a)',
           faults' = 0 /\ pc = "pop" => ~HasArguments(w)',
           faults' = 0 => pc # "dead"
    PROVE  Inv'
<1> USE DEF Inv
<1>w. w \in Works /\ EventsOf(w) # {}
    BY DEF ThreadsOK
<1>1. Kept /\ LogOK' /\ log' \in Seq(EventSet)
      /\ \A y : y # w /\ EventsOf(y)' # {} => EventsOf(y) # {} /\ Status(y)' = Status(y)
  <2>1. CASE log' = log
      BY <2>1, KeptSame, LogSame, LogType
  <2>2. ASSUME NEW e \in EventSet, Record(e), e.work = w, e.variant = None,
               e.state \notin {"QUEUED", "RETRYING"}, e.state \in Terminal => Ran(w, e.attempt)
        PROVE  Kept /\ LogOK' /\ log' \in Seq(EventSet)
               /\ \A y : y # w /\ EventsOf(y)' # {} => EventsOf(y) # {} /\ Status(y)' = Status(y)
    <3>1. Kept /\ LogOK' /\ log' \in Seq(EventSet)
        BY <1>w, <2>2, KeptAppend, LogStep, Recorded
    <3>2. ASSUME NEW y, y # w, EventsOf(y)' # {} PROVE EventsOf(y) # {} /\ Status(y)' = Status(y)
        BY <2>2, <3>2, RecordedEvents
    <3> QED BY <3>1, <3>2
  <2> QED BY <2>1, <2>2
<1>2. /\ th' \in [Threads -> ThreadSet] /\ ThreadsOK' /\ RegistryOK'
      /\ th'[t].pc = pc /\ th'[t].work = w
      /\ \A u \in Threads \ {t} : th'[u] = th[u]
    BY <1>1, ThreadMoves
<1>3. TypeOK'
    BY <1>1, <1>2, TypeParts, TypeNext
<1>4. SubmissionsOK' /\ ItemsOK'
    BY <1>1, SubmissionsSame, ItemsSame
<1>5. PopsOK'
  <2>1. ASSUME faults' = 0, NEW u \in Threads, th'[u].pc = "pop"
        PROVE  \E y : y = th'[u].work /\ ~HasArguments(y)'
    <3>1. CASE u = t
        BY <1>2, <2>1, <3>1
    <3>2. CASE u # t
      <4>1. PICK y : y = th[u].work
          OBVIOUS
      <4>2. th'[u] = th[u] /\ faults = 0
          BY <1>2, <2>1, <3>2
      <4>3. y \in Works /\ ~HasArguments(y)
          BY <2>1, <4>1, <4>2 DEF PopsOK, ThreadsOK, Alive
      <4> QED BY <1>1, <4>1, <4>2, <4>3 DEF Kept
    <3> QED BY <3>1, <3>2
  <2> QED BY <2>1 DEF PopsOK
<1>6. Lossless'
  <2>1. ASSUME faults' = 0, NEW y \in Works, EventsOf(y)' # {}
        PROVE  Held(y)' \/ (EventsOf(y) # {} /\ (Held(y) => Held(y)'))
    <3>1. CASE y = w
      <4>1. Alive(t)'
          BY <1>2, <2>1 DEF Alive
      <4> QED BY <1>2, <3>1, <4>1 DEF Held
    <3>2. CASE y # w
      <4>1. \A u \in Threads : Alive(u) /\ th[u].work = y => Alive(u)' /\ th'[u].work = y
          BY <1>2, <3>2 DEF Alive
      <4>2. EventsOf(y) # {} /\ Status(y)' = Status(y)
          BY <1>1, <2>1, <3>2
      <4> QED BY <4>1, <4>2 DEF Held
    <3> QED BY <3>1, <3>2
  <2> QED BY <1>1, <2>1, LosslessKept
<1> QED BY <1>1, <1>2, <1>3, <1>4, <1>5, <1>6

\* The event a thread appends first, and what it makes true of its attempt.
LEMMA RunningFacts ==
    ASSUME Inv, NEW t \in Threads, Alive(t)
    PROVE  /\ RunningEvent(t) \in EventSet
           /\ RunningEvent(t).work = th[t].work /\ RunningEvent(t).attempt = th[t].attempt
           /\ RunningEvent(t).state = "RUNNING" /\ RunningEvent(t).variant = None
<1>1. th[t] \in ThreadSet /\ th[t].work \in Works
    BY DEF Inv, TypeOK, ThreadSet, ThreadPcs, ThreadsOK
<1> QED BY <1>1 DEF RunningEvent, Event, EventSet, WorkStates, ThreadSet

LEMMA TerminalFacts ==
    ASSUME Inv, NEW t \in Threads, Alive(t)
    PROVE  /\ TerminalEvent(t) \in EventSet
           /\ TerminalEvent(t).work = th[t].work /\ TerminalEvent(t).attempt = th[t].attempt
           /\ TerminalEvent(t).state \in Terminal /\ TerminalEvent(t).variant = None
<1>1. th[t] \in ThreadSet /\ th[t].work \in Works
    BY DEF Inv, TypeOK, ThreadSet, ThreadPcs, ThreadsOK
<1> QED BY <1>1 DEF TerminalEvent, Event, EventSet, WorkStates, ThreadSet, Terminal

\* A thread record with another program counter.
LEMMA ThreadPc ==
    ASSUME TypeOK, NEW t \in Threads, NEW pc \in ThreadPcs
    PROVE  /\ th[t].outcome \in Outcomes \cup {None}
           /\ [th EXCEPT ![t].pc = pc] =
                 [th EXCEPT ![t] = [th[t] EXCEPT !.pc = pc, !.outcome = th[t].outcome]]
<1>1. th \in [Threads -> ThreadSet] /\ th[t] \in ThreadSet
    BY DEF TypeOK, ThreadSet, ThreadPcs
<1>2. [th[t] EXCEPT !.pc = pc] = [th[t] EXCEPT !.pc = pc, !.outcome = th[t].outcome]
    BY <1>1 DEF ThreadSet
<1> QED BY <1>1, <1>2 DEF ThreadSet
LEMMA ThreadRunningInv ==
    ASSUME Inv, NEW t \in Threads, ThreadRunning(t) PROVE Inv'
<1>1. /\ Alive(t) /\ Record(RunningEvent(t)) /\ th' = [th EXCEPT ![t].pc = "dispatch"]
      /\ UNCHANGED <<phase, todo, registry, sub, submits, crashes, faults>>
    BY DEF ThreadRunning, Alive
<1>2. PICK w, a, e : w = th[t].work /\ a = th[t].attempt /\ e = RunningEvent(t)
    OBVIOUS
<1>3. /\ e \in EventSet /\ e.work = w /\ e.attempt = a
      /\ e.state = "RUNNING" /\ e.variant = None
    BY <1>1, <1>2, RunningFacts
<1>4. Ran(w, a)'
  <2>1. /\ Len(log) + 1 \in EventsOf(w)' /\ log'[Len(log) + 1] = e
      BY <1>1, <1>2, <1>3, Recorded, RecordedEvents DEF Inv
  <2> QED BY <1>3, <2>1 DEF Ran
<1>5. PICK o \in Outcomes \cup {None} :
          th' = [th EXCEPT ![t] = [th[t] EXCEPT !.pc = "dispatch", !.outcome = o]]
    BY <1>1, ThreadPc DEF Inv, ThreadPcs
<1>p. "dispatch" \in ThreadPcs \ {"none"}
    BY DEF ThreadPcs
<1>e. \/ log' = log
      \/ \E x \in EventSet :
            /\ Record(x) /\ x.work = w /\ x.variant = None
            /\ x.state \notin {"QUEUED", "RETRYING"}
            /\ x.state \in Terminal => Ran(w, x.attempt)
    BY <1>1, <1>2, <1>3, <1>4 DEF Terminal
<1> QED BY <1>1, <1>2, <1>3, <1>4, <1>5, <1>e, <1>p, ThreadGoesOn

LEMMA ThreadRunningFailsInv ==
    ASSUME Inv, NEW t \in Threads, ThreadRunningFails(t) PROVE Inv'
<1>1. /\ Alive(t) /\ th' = [th EXCEPT ![t].pc = "dead"]
      /\ log' = log \/ Record(RunningEvent(t))
      /\ UNCHANGED <<phase, todo, registry, sub, submits, crashes>>
    BY DEF ThreadRunningFails, Alive, Record
<1>2. faults' \in (0..MaxFaults) \ {0}
    BY DetachedBounds DEF ThreadRunningFails, Inv, TypeOK
<1>3. PICK w, e : w = th[t].work /\ e = RunningEvent(t)
    OBVIOUS
<1>4. e \in EventSet /\ e.work = w /\ e.state = "RUNNING" /\ e.variant = None
    BY <1>1, <1>3, RunningFacts
<1>5. PICK o \in Outcomes \cup {None} :
          th' = [th EXCEPT ![t] = [th[t] EXCEPT !.pc = "dead", !.outcome = o]]
    BY <1>1, ThreadPc DEF Inv, ThreadPcs
<1>p. "dead" \in ThreadPcs \ {"none"}
    BY DEF ThreadPcs
<1>e. \/ log' = log
      \/ \E x \in EventSet :
            /\ Record(x) /\ x.work = w /\ x.variant = None
            /\ x.state \notin {"QUEUED", "RETRYING"}
            /\ x.state \in Terminal => Ran(w, x.attempt)
    BY <1>1, <1>2, <1>3, <1>4 DEF Terminal
<1> QED BY <1>1, <1>2, <1>3, <1>4, <1>5, <1>e, <1>p, ThreadGoesOn

\* A thread past its first append goes on without appending.
LEMMA ThreadSilent ==
    ASSUME Inv, NEW t \in Threads, th[t].pc \in {"dispatch", "waiting"},
           NEW pc \in {"waiting", "terminal"}, NEW outcome \in Outcomes \cup {None},
           th' = [th EXCEPT ![t] = [th[t] EXCEPT !.pc = pc, !.outcome = outcome]],
           UNCHANGED <<log, phase, todo, registry, sub, submits, crashes, faults>>
    PROVE  Inv'
<1>1. PICK w, a : w = th[t].work /\ a = th[t].attempt
    OBVIOUS
<1>2. Alive(t) /\ w \in Works /\ Ran(w, a)
    BY <1>1 DEF Inv, ThreadsOK, Alive
<1>3. Ran(w, a)'
    BY <1>2, KeptSame DEF Kept
<1> QED BY <1>1, <1>2, <1>3, ThreadGoesOn DEF ThreadPcs

LEMMA ThreadDispatchInv ==
    ASSUME Inv, NEW t \in Threads, ThreadDispatch(t) PROVE Inv'
<1>0. th \in [Threads -> ThreadSet]
    BY DEF Inv, TypeOK, ThreadSet, ThreadPcs
<1>1. CASE th' = [th EXCEPT ![t] = [th[t] EXCEPT !.pc = "terminal", !.outcome = "unconfigured"]]
    BY <1>1, ThreadSilent DEF ThreadDispatch, Outcomes
<1>2. CASE th' = [th EXCEPT ![t].pc = "waiting"]
  <2>1. PICK o \in Outcomes \cup {None} :
            th' = [th EXCEPT ![t] = [th[t] EXCEPT !.pc = "waiting", !.outcome = o]]
      BY <1>2, ThreadPc DEF Inv, ThreadPcs
  <2> QED BY <2>1, ThreadSilent DEF ThreadDispatch
<1> QED BY <1>0, <1>1, <1>2 DEF ThreadDispatch

LEMMA ThreadReturnInv ==
    ASSUME Inv, NEW t \in Threads, NEW outcome \in Outcomes, ThreadReturn(t, outcome) PROVE Inv'
<1>0. th \in [Threads -> ThreadSet]
    BY DEF Inv, TypeOK, ThreadSet, ThreadPcs
<1>1. th' = [th EXCEPT ![t] = [th[t] EXCEPT !.pc = "terminal", !.outcome = outcome]]
    BY <1>0 DEF ThreadReturn
<1> QED BY <1>1, ThreadSilent DEF ThreadReturn

LEMMA ThreadTerminalInv ==
    ASSUME Inv, NEW t \in Threads, ThreadTerminal(t) PROVE Inv'
<1>1. /\ Alive(t) /\ Record(TerminalEvent(t)) /\ th' = [th EXCEPT ![t].pc = "pop"]
      /\ UNCHANGED <<phase, todo, registry, sub, submits, crashes, faults>>
    BY DEF ThreadTerminal, Alive
<1>2. PICK w, a, e : w = th[t].work /\ a = th[t].attempt /\ e = TerminalEvent(t)
    OBVIOUS
<1>3. /\ e \in EventSet /\ e.work = w /\ e.attempt = a
      /\ e.state \in Terminal /\ e.variant = None
    BY <1>1, <1>2, TerminalFacts
<1>4. Ran(w, a)
    BY <1>1, <1>2 DEF Inv, ThreadsOK, ThreadTerminal
<1>5. ~HasArguments(w)'
    BY <1>1, <1>2, <1>3, RecordedEvents DEF Inv
<1>6. PICK o \in Outcomes \cup {None} :
          th' = [th EXCEPT ![t] = [th[t] EXCEPT !.pc = "pop", !.outcome = o]]
    BY <1>1, ThreadPc DEF Inv, ThreadPcs
<1>p. "pop" \in ThreadPcs \ {"none"}
    BY DEF ThreadPcs
<1>e. \/ log' = log
      \/ \E x \in EventSet :
            /\ Record(x) /\ x.work = w /\ x.variant = None
            /\ x.state \notin {"QUEUED", "RETRYING"}
            /\ x.state \in Terminal => Ran(w, x.attempt)
    BY <1>1, <1>2, <1>3, <1>4 DEF Terminal
<1>7. /\ Alive(t) /\ w = th[t].work
      /\ UNCHANGED <<phase, todo, registry, sub, submits, crashes>> /\ faults' = faults
    BY <1>1, <1>2
<1> QED BY <1>5, <1>6, <1>7, <1>e, <1>p, ThreadGoesOn

LEMMA ThreadTerminalFailsInv ==
    ASSUME Inv, NEW t \in Threads, ThreadTerminalFails(t) PROVE Inv'
<1>1. /\ Alive(t) /\ th' = [th EXCEPT ![t].pc = "pop"]
      /\ log' = log \/ Record(TerminalEvent(t))
      /\ UNCHANGED <<phase, todo, registry, sub, submits, crashes>>
    BY DEF ThreadTerminalFails, Alive, Record
<1>2. faults' \in (0..MaxFaults) \ {0}
    BY DetachedBounds DEF ThreadTerminalFails, Inv, TypeOK
<1>3. PICK w, a, e : w = th[t].work /\ a = th[t].attempt /\ e = TerminalEvent(t)
    OBVIOUS
<1>4. /\ e \in EventSet /\ e.work = w /\ e.attempt = a
      /\ e.state \in Terminal /\ e.variant = None
    BY <1>1, <1>3, TerminalFacts
<1>5. Ran(w, a)
    BY <1>1, <1>3 DEF Inv, ThreadsOK, ThreadTerminalFails
<1>6. PICK o \in Outcomes \cup {None} :
          th' = [th EXCEPT ![t] = [th[t] EXCEPT !.pc = "pop", !.outcome = o]]
    BY <1>1, ThreadPc DEF Inv, ThreadPcs
<1>p. "pop" \in ThreadPcs \ {"none"}
    BY DEF ThreadPcs
<1>e. \/ log' = log
      \/ \E x \in EventSet :
            /\ Record(x) /\ x.work = w /\ x.variant = None
            /\ x.state \notin {"QUEUED", "RETRYING"}
            /\ x.state \in Terminal => Ran(w, x.attempt)
    BY <1>1, <1>2, <1>3, <1>4, <1>5 DEF Terminal
<1> QED BY <1>1, <1>2, <1>3, <1>4, <1>5, <1>6, <1>e, <1>p, ThreadGoesOn

\* The thread ends.  No append failed, so its work has a terminal event.
LEMMA ThreadPopInv ==
    ASSUME Inv, NEW t \in Threads, ThreadPop(t) PROVE Inv'
<1> USE DEF Inv
<1>0. th \in [Threads -> ThreadSet] /\ registry \in [Works -> Threads \cup {None}]
    BY DEF TypeOK, ThreadSet, ThreadPcs
<1>1. /\ th[t].pc = "pop" /\ Alive(t) /\ log' = log /\ th' = [th EXCEPT ![t] = NoThread]
      /\ UNCHANGED <<phase, todo, sub, submits, crashes, faults>>
    BY DEF ThreadPop, Alive
<1>w. PICK w \in Works : w = th[t].work /\ registry[w] = t /\ registry' = [registry EXCEPT ![w] = None]
    BY <1>1 DEF ThreadsOK, ThreadPop
<1>2. NoThread \in ThreadSet /\ NoThread.pc = "none"
    BY DEF NoThread, ThreadSet, ThreadPcs
<1>3. /\ th' \in [Threads -> ThreadSet] /\ th'[t] = NoThread
      /\ \A u \in Threads \ {t} : th'[u] = th[u]
    BY <1>0, <1>1, <1>2
<1>4. /\ registry' \in [Works -> Threads \cup {None}] /\ registry'[w] = None
      /\ \A y \in Works \ {w} : registry'[y] = registry[y]
    BY <1>0, <1>w
<1>k. Kept /\ \A y : EventsOf(y)' = EventsOf(y) /\ (HasArguments(y)' <=> HasArguments(y))
                     /\ Status(y)' = Status(y)
    BY <1>1, KeptSame
<1>5. ~Alive(t)' /\ \A u \in Threads \ {t} : Alive(u)' <=> Alive(u)
    BY <1>2, <1>3 DEF Alive
<1>6. ThreadsOK'
  <2>1. ASSUME NEW u \in Threads, Alive(u)'
        PROVE  \E y, a : /\ y = th'[u].work /\ a = th'[u].attempt
                         /\ y \in Works /\ registry'[y] = u /\ EventsOf(y)' # {}
                         /\ th'[u].pc \in {"dispatch", "waiting", "terminal"} => Ran(y, a)'
    <3>1. PICK y, a : y = th[u].work /\ a = th[u].attempt
        OBVIOUS
    <3>2. th'[u] = th[u] /\ Alive(u) /\ u # t
        BY <1>3, <1>5, <2>1
    <3>3. /\ y \in Works /\ registry[y] = u /\ EventsOf(y) # {}
          /\ th[u].pc \in {"dispatch", "waiting", "terminal"} => Ran(y, a)
        BY <3>1, <3>2 DEF ThreadsOK
    <3> QED BY <1>4, <1>k, <1>w, <3>1, <3>2, <3>3 DEF Kept
  <2> QED BY <2>1 DEF ThreadsOK
<1>7. RegistryOK'
    BY <1>3, <1>4, <1>5, DetachedNone DEF RegistryOK
<1>8. TypeOK' /\ LogOK'
    BY <1>1, <1>3, <1>4, LogSame, TypeParts, TypeNext
<1>9. SubmissionsOK' /\ ItemsOK' /\ PopsOK'
    BY <1>1, <1>2, <1>3, <1>k, SubmissionsSame, ItemsSame, PopsSame
<1>10. Lossless'
  <2>1. ASSUME faults' = 0, NEW y \in Works, HasArguments(y)', Held(y) PROVE Held(y)'
    <3>1. y # w
        BY <1>1, <1>k, <1>w, <2>1 DEF PopsOK
    <3>2. \A u \in Threads : Alive(u) /\ th[u].work = y => Alive(u)' /\ th'[u].work = y
        BY <1>3, <1>5, <1>w, <3>1
    <3> QED BY <1>1, <1>k, <2>1, <3>2 DEF Held
  <2> QED BY <1>1, <1>k, <2>1, LosslessKept
<1> QED BY <1>6, <1>7, <1>8, <1>9, <1>10
-----------------------------------------------------------------------------
(* ControllerService.run keeps the invariant.                                *)

\* A step that leaves the ledger, the threads and the submissions alone.
LEMMA RunKeeps ==
    ASSUME Inv, UNCHANGED <<log, registry, th, sub, submits, crashes, faults>>,
           phase' \in {"down", "listening", "recovering", "serving"},
           todo' \in [Works -> ItemSet], ItemsOK', Lossless'
    PROVE  Inv'
<1> USE DEF Inv
<1>1. Kept
    BY KeptSame
<1>2. TypeOK'
    BY TypeParts, TypeNext
<1>3. LogOK'
    BY LogSame
<1>4. ThreadsOK' /\ RegistryOK' /\ SubmissionsOK' /\ PopsOK'
    BY <1>1, ThreadsSame, SubmissionsSame, PopsSame
<1> QED BY <1>2, <1>3, <1>4

LEMMA ListenInv == ASSUME Inv, Listen PROVE Inv'
<1>1. todo' \in [Works -> ItemSet]
    BY DEF Inv, TypeOK, ItemSet, Listen
<1>2. ItemsOK'
    BY ItemsSame, KeptSame DEF Inv, Listen
<1>3. Lossless'
    BY DEF Lossless, Listen
<1> QED BY <1>1, <1>2, <1>3, RunKeeps DEF Listen

LEMMA ServeInv == ASSUME Inv, Serve PROVE Inv'
<1>1. todo' \in [Works -> ItemSet]
    BY DEF Inv, TypeOK, ItemSet, Serve
<1>2. ItemsOK'
    BY ItemsSame, KeptSame DEF Inv, Serve
<1>3. Lossless'
  <2>1. \A w \in Works : Held(w) => Held(w)'
      BY KeptSame DEF Serve, Held, Alive
  <2> QED BY <2>1, KeptSame, LosslessKept DEF Inv, Serve
<1> QED BY <1>1, <1>2, <1>3, RunKeeps DEF Serve

\* The snapshot takes up every unfinished work item, so none is lost.
LEMMA RecoverSnapshotInv == ASSUME Inv, RecoverSnapshot PROVE Inv'
<1> DEFINE running(w) == Status(w).state = "RUNNING"
           item(w) == [attempt |-> Status(w).attempt + (IF running(w) THEN 1 ELSE 0),
                       left |-> (IF running(w) THEN {"retrying"} ELSE {})
                                \cup (IF HasArguments(w) THEN {"start"} ELSE {})]
<1>1. /\ log' = log /\ phase' = "recovering"
      /\ UNCHANGED <<registry, th, sub, submits, crashes, faults>>
      /\ todo' = [w \in Works |-> IF w \notin Unfinished THEN NoItem ELSE item(w)]
    BY DEF RecoverSnapshot
<1>k. \A w : EventsOf(w)' = EventsOf(w) /\ (HasArguments(w)' <=> HasArguments(w))
    BY <1>1, KeptSame
<1>2. ASSUME NEW w \in Works
      PROVE  /\ todo'[w] \in ItemSet
             /\ todo'[w].left # {} => EventsOf(w) # {}
             /\ todo'[w].left # {} /\ HasArguments(w) => "start" \in todo'[w].left
             /\ "retrying" \in todo'[w].left => \E a : a = todo'[w].attempt - 1 /\ Ran(w, a)'
             /\ EventsOf(w) # {} /\ HasArguments(w) => "start" \in todo'[w].left
  <2>1. CASE w \notin Unfinished
    <3>1. todo'[w] = NoItem
        BY <1>1, <2>1
    <3>2. NoItem \in ItemSet /\ NoItem.left = {}
        BY DEF NoItem, ItemSet
    <3>3. EventsOf(w) # {} => ~HasArguments(w)
      <4>1. EventsOf(w) # {} => LastOf(w) \in EventsOf(w)
          BY LastIsLatest DEF Inv
      <4> QED BY <2>1, <4>1 DEF Unfinished, HasArguments, Status
    <3> QED BY <3>1, <3>2, <3>3
  <2>2. CASE w \in Unfinished
    <3>1. todo'[w] = item(w)
        BY <1>1, <2>2
    <3>2. EventsOf(w) # {}
        BY <2>2 DEF Unfinished
    <3>3. LastOf(w) \in EventsOf(w) /\ Status(w).attempt \in Nat
        BY <3>2, LastIsLatest DEF Inv, EventSet
    <3>4. /\ item(w) \in ItemSet
          /\ HasArguments(w) => "start" \in item(w).left
          /\ "retrying" \in item(w).left => running(w) /\ item(w).attempt - 1 = Status(w).attempt
        BY <3>3 DEF ItemSet
    <3>5. running(w) => Ran(w, Status(w).attempt)
        BY <3>3 DEF Ran, Status
    <3>6. \A a : Ran(w, a) => Ran(w, a)'
        BY <1>1, KeptSame DEF Kept
    <3> HIDE DEF item, running
    <3> QED BY <3>1, <3>2, <3>4, <3>5, <3>6
  <2> QED BY <2>1, <2>2
<1>3. todo' \in [Works -> ItemSet]
  <2> DEFINE f(w) == IF w \notin Unfinished THEN NoItem ELSE item(w)
  <2>1. todo' = [w \in Works |-> f(w)]
      BY <1>1
  <2> HIDE DEF f
  <2> QED BY <1>2, <2>1
<1> HIDE DEF item, running
<1>4. ItemsOK'
    BY <1>2, <1>k DEF ItemsOK
<1>5. Lossless'
    BY <1>2, <1>k DEF Lossless, Held
<1> QED BY <1>1, <1>3, <1>4, <1>5, RunKeeps

LEMMA RecoverRetryingInv ==
    ASSUME Inv, NEW w \in Works, RecoverRetrying(w) PROVE Inv'
<1> USE DEF Inv
<1>0. todo \in [Works -> ItemSet] /\ todo[w] \in ItemSet
    BY DEF TypeOK, ItemSet
<1> DEFINE e == Event(w, "RETRYING", todo[w].attempt, None, None)
           x == [todo[w] EXCEPT !.left = @ \ {"retrying"}]
<1>1. /\ "retrying" \in todo[w].left /\ Record(e) /\ todo' = [todo EXCEPT ![w] = x]
      /\ UNCHANGED <<phase, registry, th, sub, submits, crashes, faults>>
    BY <1>0 DEF RecoverRetrying
<1>2. /\ e \in EventSet /\ e.work = w /\ e.state = "RETRYING"
      /\ e.attempt = todo[w].attempt /\ e.variant = None
    BY <1>0 DEF Event, EventSet, WorkStates, ItemSet
<1>3. x \in ItemSet /\ x.left = todo[w].left \ {"retrying"} /\ x.attempt = todo[w].attempt
    BY <1>0 DEF ItemSet
<1> HIDE DEF e, x
<1>4. /\ todo' \in [Works -> ItemSet] /\ todo'[w] = x
      /\ \A y \in Works \ {w} : todo'[y] = todo[y]
    BY <1>0, <1>1, <1>3
<1>5. EventsOf(w) # {} /\ Ran(w, e.attempt - 1)
    BY <1>1, <1>2 DEF ItemsOK
<1>6. Kept /\ LogOK' /\ log' \in Seq(EventSet)
    BY <1>1, <1>2, <1>5, KeptAppend, LogStep, Recorded DEF Terminal
<1>7. TypeOK'
    BY <1>1, <1>4, <1>6, TypeParts, TypeNext
<1>8. ThreadsOK' /\ RegistryOK' /\ SubmissionsOK' /\ PopsOK'
    BY <1>1, <1>6, ThreadsSame, SubmissionsSame, PopsSame
<1>9. ItemsOK'
  <2>1. ASSUME NEW y \in Works
        PROVE  /\ todo'[y].left # {} => EventsOf(y)' # {}
               /\ todo'[y].left # {} /\ HasArguments(y)' => "start" \in todo'[y].left
               /\ "retrying" \in todo'[y].left => \E a : a = todo'[y].attempt - 1 /\ Ran(y, a)'
    <3>1. CASE y = w
        BY <1>1, <1>3, <1>4, <1>5, <1>6, <3>1 DEF ItemsOK, Kept
    <3>2. CASE y # w
      <4>1. todo'[y] = todo[y]
          BY <1>4, <3>2
      <4> QED BY <1>6, <4>1 DEF ItemsOK, Kept
    <3> QED BY <3>1, <3>2
  <2> QED BY <2>1 DEF ItemsOK
<1>10. Lossless'
  <2>1. ASSUME NEW y \in Works, EventsOf(y)' # {}, HasArguments(y)'
        PROVE  Held(y)' \/ (EventsOf(y) # {} /\ (Held(y) => Held(y)'))
    <3>1. CASE y = w
      <4>1. "start" \in todo'[w].left
          BY <1>1, <1>3, <1>4, <1>6, <2>1, <3>1 DEF ItemsOK, Kept
      <4> QED BY <3>1, <4>1 DEF Held
    <3>2. CASE y # w
      <4>1. EventsOf(y) # {} /\ Status(y)' = Status(y) /\ todo'[y] = todo[y]
          BY <1>1, <1>2, <1>4, <2>1, <3>2, RecordedEvents
      <4> QED BY <1>1, <4>1 DEF Held, Alive
    <3> QED BY <3>1, <3>2
  <2> QED BY <1>1, <1>6, <2>1, LosslessKept
<1> QED BY <1>6, <1>7, <1>8, <1>9, <1>10

LEMMA RecoverStartInv ==
    ASSUME Inv, NEW w \in Works, RecoverStart(w) PROVE Inv'
<1> USE DEF Inv
<1>0. todo \in [Works -> ItemSet] /\ todo[w] \in ItemSet
    BY DEF TypeOK, ItemSet
<1>w. PICK a \in Nat : a = todo[w].attempt
    BY <1>0 DEF ItemSet
<1>1. /\ StartThread(w, a) /\ log' = log /\ todo' = [todo EXCEPT ![w] = NoItem]
      /\ todo[w].left = {"start"}
      /\ UNCHANGED <<phase, sub, submits, crashes, faults>>
    BY <1>w DEF RecoverStart
<1>e. EventsOf(w) # {}
    BY <1>1 DEF ItemsOK
<1>2. NoItem \in ItemSet /\ NoItem.left = {}
    BY DEF NoItem, ItemSet
<1>3. /\ todo' \in [Works -> ItemSet] /\ todo'[w] = NoItem
      /\ \A y \in Works \ {w} : todo'[y] = todo[y]
    BY <1>0, <1>1, <1>2
<1>k. Kept /\ \A y : EventsOf(y)' = EventsOf(y) /\ (HasArguments(y)' <=> HasArguments(y))
                     /\ Status(y)' = Status(y)
    BY <1>1, KeptSame
<1>t. /\ th' \in [Threads -> ThreadSet] /\ registry' \in [Works -> Threads \cup {None}]
      /\ ThreadsOK' /\ RegistryOK'
      /\ \E t \in Threads : Alive(t)' /\ th'[t].work = w
      /\ \A t \in Threads : Alive(t) => th'[t] = th[t]
      /\ \A t \in Threads : th'[t].pc = "pop" => th'[t] = th[t]
    BY <1>1, <1>e, StartFacts
<1>4. TypeOK'
    BY <1>1, <1>3, <1>t, TypeParts, TypeNext
<1>5. LogOK' /\ SubmissionsOK' /\ PopsOK'
    BY <1>1, <1>k, <1>t, LogSame, SubmissionsSame, PopsSame
<1>6. ItemsOK'
  <2>1. ASSUME NEW y \in Works
        PROVE  /\ todo'[y].left # {} => EventsOf(y)' # {}
               /\ todo'[y].left # {} /\ HasArguments(y)' => "start" \in todo'[y].left
               /\ "retrying" \in todo'[y].left => \E b : b = todo'[y].attempt - 1 /\ Ran(y, b)'
    <3>1. CASE y = w
        BY <1>2, <1>3, <3>1
    <3>2. CASE y # w
      <4>1. todo'[y] = todo[y]
          BY <1>3, <3>2
      <4> QED BY <1>k, <4>1 DEF ItemsOK, Kept
    <3> QED BY <3>1, <3>2
  <2> QED BY <2>1 DEF ItemsOK
<1>7. Lossless'
  <2>1. ASSUME NEW y \in Works, Held(y) PROVE Held(y)'
    <3>1. CASE y = w
        BY <1>t, <3>1 DEF Held
    <3>2. CASE y # w
      <4>1. \A t \in Threads : Alive(t) => Alive(t)' /\ th'[t].work = th[t].work
          BY <1>t DEF Alive
      <4> QED BY <1>1, <1>3, <1>k, <2>1, <3>2, <4>1 DEF Held
    <3> QED BY <3>1, <3>2
  <2> QED BY <1>1, <1>k, <2>1, LosslessKept
<1> QED BY <1>4, <1>5, <1>6, <1>7, <1>t

LEMMA CrashInv == ASSUME Inv, Crash PROVE Inv'
<1> USE DEF Inv
<1>1. /\ log' = log /\ phase' = "down" /\ UNCHANGED <<submits, faults>>
      /\ todo' = [w \in Works |-> NoItem]
      /\ registry' = [w \in Works |-> None]
      /\ th' = [t \in Threads |-> NoThread]
      /\ sub' = [c \in Clients |-> NoSubmission]
      /\ crashes' \in 0..MaxCrashes
    BY DetachedBounds DEF Crash, TypeOK
<1>2. NoItem \in ItemSet /\ NoThread \in ThreadSet /\ NoSubmission \in SubmissionSet
    BY DEF NoItem, NoThread, NoSubmission, ItemSet, ThreadSet, ThreadPcs, SubmissionSet
<1>3. TypeOK'
    BY <1>1, <1>2, TypeParts, TypeNext
<1>4. LogOK'
    BY <1>1, LogSame
<1>5. \A t \in Threads : th'[t].pc = "none"
    BY <1>1 DEF NoThread
<1>6. ThreadsOK' /\ RegistryOK' /\ PopsOK'
    BY <1>5 DEF ThreadsOK, RegistryOK, PopsOK, Alive
<1>7. SubmissionsOK' /\ ItemsOK' /\ Lossless'
    BY <1>1 DEF SubmissionsOK, ItemsOK, Lossless, NoSubmission, NoItem
<1> QED BY <1>3, <1>4, <1>6, <1>7
-----------------------------------------------------------------------------
(* The theorems.                                                             *)

LEMMA StutterInv == ASSUME Inv, UNCHANGED dvars PROVE Inv'
<1>1. UNCHANGED <<log, phase, todo, registry, th, sub, submits, crashes, faults>>
    BY DEF dvars
<1>2. todo' \in [Works -> ItemSet] /\ phase' \in {"down", "listening", "recovering", "serving"}
    BY <1>1 DEF Inv, TypeOK, ItemSet
<1>3. ItemsOK'
    BY <1>1, ItemsSame, KeptSame DEF Inv
<1>4. Lossless'
  <2>1. \A w \in Works : Held(w) => Held(w)'
      BY <1>1, KeptSame DEF Held, Alive
  <2> QED BY <1>1, <2>1, KeptSame, LosslessKept DEF Inv
<1> QED BY <1>1, <1>2, <1>3, <1>4, RunKeeps

LEMMA InvStep == Inv /\ [Next]_dvars => Inv'
<1> SUFFICES ASSUME Inv, [Next]_dvars PROVE Inv'
    OBVIOUS
<1>1. ASSUME NEW c \in Clients, NEW w \in Works, NEW v \in Variants, SubmitAppend(c, w, v)
      PROVE  Inv'
    BY <1>1, SubmitAppendInv
<1>2. ASSUME NEW w \in Works, NEW v \in Variants, SubmitAppendFails(w, v) PROVE Inv'
    BY <1>2, SubmitAppendFailsInv
<1>3. ASSUME NEW c \in Clients, SubmitStep(c) PROVE Inv'
    BY <1>3, SubmitProjectInv, SubmitStartInv DEF SubmitStep
<1>4. ASSUME NEW t \in Threads, ThreadStep(t) \/ ThreadRunningFails(t) \/ ThreadTerminalFails(t)
      PROVE  Inv'
    BY <1>4, ThreadRunningInv, ThreadDispatchInv, ThreadTerminalInv, ThreadPopInv,
       ThreadRunningFailsInv, ThreadTerminalFailsInv DEF ThreadStep
<1>5. ASSUME NEW t \in Threads, NEW outcome \in Outcomes, ThreadReturn(t, outcome) PROVE Inv'
    BY <1>5, ThreadReturnInv
<1>6. CASE RunStep
    BY <1>6, ListenInv, RecoverSnapshotInv, ServeInv, RecoverRetryingInv, RecoverStartInv DEF RunStep
<1>7. CASE Crash
    BY <1>7, CrashInv
<1>8. CASE UNCHANGED dvars
    BY <1>8, StutterInv
<1> QED BY <1>1, <1>2, <1>3, <1>4, <1>5, <1>6, <1>7, <1>8 DEF Next

LEMMA InvAlways == Spec => []Inv
BY InitInv, InvStep, PTL DEF Spec

LEMMA InvImplies == Inv => TypeOK /\ CarriedOnce /\ NoLostWork
<1> SUFFICES ASSUME Inv PROVE TypeOK /\ CarriedOnce /\ NoLostWork
    OBVIOUS
<1>1. OneThread
    BY DEF Inv, OneThread, ThreadsOK
<1>2. ASSUME NEW w \in Works, Held(w) PROVE Carried(w)
    BY <1>2 DEF Held, Carried
<1>3. NoLostWork
    BY <1>2 DEF Inv, Lossless, NoLostWork
<1> QED BY <1>1, <1>3 DEF Inv, LogOK, CarriedOnce

\* The ledger, the threads, the submissions and the recovery items keep their
\* types, and no counter passes its bound.
THEOREM DetachedTypes == Spec => []TypeOK
BY InvAlways, InvImplies, PTL

\* However submissions, threads, failed appends, restarts and recoveries
\* interleave, a work item is accepted once with one set of arguments, at most
\* one thread carries it, and every retry and terminal event follows the
\* RUNNING event of the attempt it is about (_submit_detached,
\* _start_detached, _run_detached, _recover_detached).
THEOREM WorkCarriedOnce == Spec => []CarriedOnce
BY InvAlways, InvImplies, PTL

\* In a running controller whose appends have not failed, accepted work without
\* a terminal event is held by a thread, a submission or the recovery, whatever
\* the points at which the process ended before (_recover_detached).
THEOREM WorkNeverLost == Spec => []NoLostWork
BY InvAlways, InvImplies, PTL
=============================================================================
