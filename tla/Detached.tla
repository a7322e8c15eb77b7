------------------------------ MODULE Detached ------------------------------
(***************************************************************************)
(* Detached execution in the persistent controller (controller_service.py): *)
(* submission, the thread that carries one work item, restart recovery and  *)
(* the start-up order of ControllerService.run.  The detached ledger is     *)
(* durable; threads, the thread registry and half-done submissions are not. *)
(*                                                                          *)
(* A work item is one (client identity, idempotency key); its variant is    *)
(* the request identity of the submitted arguments.  What a dispatch does   *)
(* is left open here (ThreadReturn) and bound to a worker in Execution.     *)
(***************************************************************************)
EXTENDS Integers, Sequences, FiniteSets

CONSTANTS
    Works,          \* work ids
    Variants,       \* request identities of submitted arguments
    Clients,        \* service connections that submit
    Threads,        \* names for the controller's work threads
    None,
    Backend,        \* "endpoint": worker client; "rendezvous": sessions only
    MaxSubmits,     \* bound: submissions in a behaviour
    MaxCrashes,     \* bound: controller process ends
    MaxFaults       \* bound: ledger appends that raise

ASSUME DetachedNone == None \notin Threads /\ None \notin Works /\ None \notin Variants
ASSUME DetachedBounds ==
    MaxSubmits \in Nat /\ MaxCrashes \in Nat /\ MaxFaults \in Nat

VARIABLES
    log,            \* detached-execution.jsonl (durable)
    phase,          \* how far ControllerService.run has come
    todo,           \* _recover_detached: the snapshot items still to handle
    registry,       \* _detached_threads: work -> thread
    th,             \* the threads
    sub,            \* the submissions in progress
    submits, crashes, faults

dvars == <<log, phase, todo, registry, th, sub, submits, crashes, faults>>

-----------------------------------------------------------------------------
Terminal == {"COMPLETED", "FAILED"}
WorkStates == {"QUEUED", "RUNNING", "RETRYING"} \cup Terminal

\* What _execute_dispatch_arguments came back with: results that carry an
\* execution record, results without one, an exception, or the exception
\* "persistent execution backend is not configured".
Outcomes == {"record", "norecord", "raised", "unconfigured"}

Event(w, state, attempt, variant, outcome) ==
    [work |-> w, state |-> state, attempt |-> attempt, variant |-> variant, outcome |-> outcome]

EventsOf(w) == {i \in DOMAIN log : log[i].work = w}

\* _detached_projection: the latest event of a work item decides its status.
LastOf(w) == CHOOSE i \in EventsOf(w) : \A j \in EventsOf(w) : j <= i
FirstOf(w) == CHOOSE i \in EventsOf(w) : \A j \in EventsOf(w) : i <= j
Status(w) == log[LastOf(w)]

\* _ensure_detached_index: a work item is dropped at each terminal event and
\* comes back with a later event, then without the submission's arguments.
Unfinished == {w \in Works : EventsOf(w) # {} /\ Status(w).state \notin Terminal}
HasArguments(w) == \A i \in EventsOf(w) : log[i].state \notin Terminal

NoThread == [pc |-> "none", work |-> None, attempt |-> 0, outcome |-> None]
NoItem == [attempt |-> 0, left |-> {}]
NoSubmission == [pc |-> "idle", work |-> None, attempt |-> 0]
\* A thread is_alive from start() until its target returns.
Alive(t) == th[t].pc \notin {"none", "dead"}
Occupied(w) == \E t \in Threads : registry[w] = t /\ Alive(t)

Record(event) == log' = Append(log, event)

-----------------------------------------------------------------------------
Init ==
    /\ log = <<>>
    /\ phase = "down"
    /\ todo = [w \in Works |-> NoItem]
    /\ registry = [w \in Works |-> None]
    /\ th = [t \in Threads |-> NoThread]
    /\ sub = [c \in Clients |-> NoSubmission]
    /\ submits = 0 /\ crashes = 0 /\ faults = 0

\* Mutant: a thread is started whether or not one is alive.
StartThreadUnchecked(w, attempt) ==
    \E t \in Threads :
        /\ ~Alive(t)
        /\ th' = [th EXCEPT ![t] = [pc |-> "start", work |-> w, attempt |-> attempt, outcome |-> None]]
        /\ registry' = [registry EXCEPT ![w] = t]

(* _start_detached, under _detached_lock: nothing if the registered thread   *)
(* is alive, else a new thread takes over the registration.  A dead thread's *)
(* name is not given to a thread for other work while it is registered.      *)
StartThread(w, attempt) ==
    \/ /\ Occupied(w)
       /\ UNCHANGED <<registry, th>>
    \/ /\ ~Occupied(w)
       /\ \E t \in Threads :
             /\ ~Alive(t) /\ \A x \in Works \ {w} : registry[x] # t
             /\ th' = [th EXCEPT ![t] = [pc |-> "start", work |-> w, attempt |-> attempt, outcome |-> None]]
             /\ registry' = [registry EXCEPT ![w] = t]

-----------------------------------------------------------------------------
(* _submit_detached, run by a service connection.                            *)

\* append_if under the ledger lock: new work is QUEUED, a repeat passes, a
\* repeat with other arguments is refused.
SubmitAppend(c, w, v) ==
    /\ phase # "down" /\ sub[c].pc = "idle" /\ submits < MaxSubmits
    /\ submits' = submits + 1
    /\ \/ /\ EventsOf(w) = {}
          /\ Record(Event(w, "QUEUED", 1, v, None))
          /\ sub' = [sub EXCEPT ![c] = [pc |-> "project", work |-> w, attempt |-> 0]]
       \/ /\ EventsOf(w) # {} /\ log[FirstOf(w)].variant = v
          /\ sub' = [sub EXCEPT ![c] = [pc |-> "project", work |-> w, attempt |-> 0]]
          /\ UNCHANGED log
       \/ /\ EventsOf(w) # {} /\ log[FirstOf(w)].variant # v
          /\ UNCHANGED <<sub, log>>
    /\ UNCHANGED <<phase, todo, registry, th, crashes, faults>>

\* The submission's append raises although its line is in the file: the client
\* gets an error for work that is accepted and that nobody starts.
SubmitAppendFails(w, v) ==
    /\ phase # "down" /\ submits < MaxSubmits /\ faults < MaxFaults
    /\ EventsOf(w) = {}
    /\ Record(Event(w, "QUEUED", 1, v, None))
    /\ submits' = submits + 1
    /\ faults' = faults + 1
    /\ UNCHANGED <<phase, todo, registry, th, sub, crashes>>

\* The projection is read after the append returned, and acted on later.
SubmitProject(c) ==
    /\ sub[c].pc = "project"
    /\ LET s == Status(sub[c].work) IN
       sub' = [sub EXCEPT ![c] =
                 IF s.state \in {"QUEUED", "RETRYING"}
                 THEN [@ EXCEPT !.pc = "start", !.attempt = s.attempt]
                 ELSE NoSubmission]
    /\ UNCHANGED <<log, phase, todo, registry, th, submits, crashes, faults>>

SubmitStart(c) ==
    /\ sub[c].pc = "start"
    /\ StartThread(sub[c].work, sub[c].attempt)
    /\ sub' = [sub EXCEPT ![c] = NoSubmission]
    /\ UNCHANGED <<log, phase, todo, submits, crashes, faults>>

-----------------------------------------------------------------------------
(* _run_detached, one thread.                                                *)

RunningEvent(t) == Event(th[t].work, "RUNNING", th[t].attempt, None, None)

ThreadRunning(t) ==
    /\ th[t].pc = "start"
    /\ Record(RunningEvent(t))
    /\ th' = [th EXCEPT ![t].pc = "dispatch"]
    /\ UNCHANGED <<phase, todo, registry, sub, submits, crashes, faults>>

\* The RUNNING append raises outside the try, before or after its line is in
\* the file: the thread dies registered.
ThreadRunningFails(t) ==
    /\ th[t].pc = "start" /\ faults < MaxFaults
    /\ log' \in {log, Append(log, RunningEvent(t))}
    /\ th' = [th EXCEPT ![t].pc = "dead"]
    /\ faults' = faults + 1
    /\ UNCHANGED <<phase, todo, registry, sub, submits, crashes>>

\* The backend check at the top of _execute_dispatch_arguments: a controller
\* without a worker client needs the bound rendezvous listener.
ThreadDispatch(t) ==
    /\ th[t].pc = "dispatch"
    /\ th' = [th EXCEPT ![t] =
                IF Backend = "rendezvous" /\ phase # "serving"
                THEN [@ EXCEPT !.pc = "terminal", !.outcome = "unconfigured"]
                ELSE [@ EXCEPT !.pc = "waiting"]]
    /\ UNCHANGED <<log, phase, todo, registry, sub, submits, crashes, faults>>

\* The dispatch to the worker returns results or raises.
ThreadReturn(t, outcome) ==
    /\ th[t].pc = "waiting"
    /\ th' = [th EXCEPT ![t].pc = "terminal", ![t].outcome = outcome]
    /\ UNCHANGED <<log, phase, todo, registry, sub, submits, crashes, faults>>

\* Whatever the results say, results are COMPLETED and an exception is FAILED.
TerminalEvent(t) ==
    Event(th[t].work,
          IF th[t].outcome \in {"record", "norecord"} THEN "COMPLETED" ELSE "FAILED",
          th[t].attempt, None, th[t].outcome)

ThreadTerminal(t) ==
    /\ th[t].pc = "terminal"
    /\ Record(TerminalEvent(t))
    /\ th' = [th EXCEPT ![t].pc = "pop"]
    /\ UNCHANGED <<phase, todo, registry, sub, submits, crashes, faults>>

\* The terminal append, or saving the result before it, raises; finally still runs.
ThreadTerminalFails(t) ==
    /\ th[t].pc = "terminal" /\ faults < MaxFaults
    /\ log' \in {log, Append(log, TerminalEvent(t))}
    /\ th' = [th EXCEPT ![t].pc = "pop"]
    /\ faults' = faults + 1
    /\ UNCHANGED <<phase, todo, registry, sub, submits, crashes>>

ThreadPop(t) ==
    /\ th[t].pc = "pop"
    /\ registry' = [registry EXCEPT ![th[t].work] = None]
    /\ th' = [th EXCEPT ![t] = NoThread]
    /\ UNCHANGED <<log, phase, todo, sub, submits, crashes, faults>>

-----------------------------------------------------------------------------
(* ControllerService.run: ownership, service socket, recovery, rendezvous.   *)

\* server.start(): submissions are served from here on.
Listen ==
    /\ phase = "down"
    /\ phase' = "listening"
    /\ UNCHANGED <<log, todo, registry, th, sub, submits, crashes, faults>>

\* Mutant: work that was queued and not started is not recovered.
RecoverSnapshotRunningOnly ==
    /\ phase = "listening"
    /\ phase' = "recovering"
    /\ todo' = [w \in Works |->
                  IF w \in Unfinished /\ Status(w).state = "RUNNING"
                  THEN [attempt |-> Status(w).attempt + 1,
                        left |-> {"retrying"} \cup (IF HasArguments(w) THEN {"start"} ELSE {})]
                  ELSE NoItem]
    /\ UNCHANGED <<log, registry, th, sub, submits, crashes, faults>>

\* _recover_detached reads the unfinished items once.  An interrupted RUNNING
\* item is to be recorded RETRYING under a new attempt; an item with arguments
\* is to be started.  The items are independent, so their order is left open.
RecoverSnapshot ==
    /\ phase = "listening"
    /\ phase' = "recovering"
    /\ todo' = [w \in Works |->
                  IF w \notin Unfinished THEN NoItem
                  ELSE LET running == Status(w).state = "RUNNING" IN
                       [attempt |-> Status(w).attempt + (IF running THEN 1 ELSE 0),
                        left |-> (IF running THEN {"retrying"} ELSE {})
                                 \cup (IF HasArguments(w) THEN {"start"} ELSE {})]]
    /\ UNCHANGED <<log, registry, th, sub, submits, crashes, faults>>

RecoverRetrying(w) ==
    /\ phase = "recovering" /\ "retrying" \in todo[w].left
    /\ Record(Event(w, "RETRYING", todo[w].attempt, None, None))
    /\ todo' = [todo EXCEPT ![w].left = @ \ {"retrying"}]
    /\ UNCHANGED <<phase, registry, th, sub, submits, crashes, faults>>

\* Mutant: recovery records the retry and leaves the start to a resubmission.
RecoverStartForgotten(w) ==
    /\ phase = "recovering" /\ todo[w].left = {"start"}
    /\ todo' = [todo EXCEPT ![w] = NoItem]
    /\ UNCHANGED <<log, phase, registry, th, sub, submits, crashes, faults>>

RecoverStart(w) ==
    /\ phase = "recovering" /\ todo[w].left = {"start"}
    /\ StartThread(w, todo[w].attempt)
    /\ todo' = [todo EXCEPT ![w] = NoItem]
    /\ UNCHANGED <<log, phase, sub, submits, crashes, faults>>

\* Recovery is over; the rendezvous listener is bound.
Serve ==
    /\ phase = "recovering" /\ \A w \in Works : todo[w].left = {}
    /\ phase' = "serving"
    /\ UNCHANGED <<log, todo, registry, th, sub, submits, crashes, faults>>

\* The process ends, by a crash or a stop: daemon threads end with it.
Crash ==
    /\ phase # "down" /\ crashes < MaxCrashes
    /\ phase' = "down"
    /\ todo' = [w \in Works |-> NoItem]
    /\ registry' = [w \in Works |-> None]
    /\ th' = [t \in Threads |-> NoThread]
    /\ sub' = [c \in Clients |-> NoSubmission]
    /\ crashes' = crashes + 1
    /\ UNCHANGED <<log, submits, faults>>

ThreadStep(t) ==
    \/ ThreadRunning(t) \/ ThreadDispatch(t) \/ ThreadTerminal(t) \/ ThreadPop(t)

SubmitStep(c) == SubmitProject(c) \/ SubmitStart(c)

RunStep ==
    \/ Listen \/ RecoverSnapshot \/ Serve
    \/ \E w \in Works : RecoverRetrying(w) \/ RecoverStart(w)

Next ==
    \/ \E c \in Clients, w \in Works, v \in Variants : SubmitAppend(c, w, v)
    \/ \E w \in Works, v \in Variants : SubmitAppendFails(w, v)
    \/ \E c \in Clients : SubmitStep(c)
    \/ \E t \in Threads :
          \/ ThreadStep(t) \/ ThreadRunningFails(t) \/ ThreadTerminalFails(t)
          \/ \E outcome \in Outcomes \ {"unconfigured"} : ThreadReturn(t, outcome)
    \/ RunStep
    \/ Crash

\* Threads keep running, the transport's deadlines bound every dispatch, and
\* the service manager restarts the controller.
Fairness ==
    /\ WF_dvars(RunStep)
    /\ \A c \in Clients : WF_dvars(SubmitStep(c))
    /\ \A t \in Threads :
          /\ WF_dvars(ThreadStep(t))
          /\ WF_dvars(\E outcome \in Outcomes : ThreadReturn(t, outcome))

Spec == Init /\ [][Next]_dvars /\ Fairness

-----------------------------------------------------------------------------
\* Types of the detached ledger, the threads and the recovery items.
TypeOK ==
    /\ log \in Seq([work : Works, state : WorkStates, attempt : Nat,
                    variant : Variants \cup {None}, outcome : Outcomes \cup {None}])
    /\ phase \in {"down", "listening", "recovering", "serving"}
    /\ todo \in [Works -> [attempt : Nat, left : SUBSET {"retrying", "start"}]]
    /\ registry \in [Works -> Threads \cup {None}]
    /\ th \in [Threads -> [pc : {"none", "start", "dispatch", "waiting", "terminal", "pop", "dead"},
                           work : Works \cup {None}, attempt : Nat, outcome : Outcomes \cup {None}]]
    /\ sub \in [Clients -> [pc : {"idle", "project", "start"}, work : Works \cup {None}, attempt : Nat]]
    /\ submits \in 0..MaxSubmits /\ crashes \in 0..MaxCrashes /\ faults \in 0..MaxFaults

\* A work item is accepted once: its QUEUED event is its first event and the
\* only one that binds arguments, however many clients submit it at once and
\* whatever restarts happen (controller_service.py:740-759).
AcceptedOnce ==
    \A i \in DOMAIN log :
        /\ log[i].state = "QUEUED" => \A j \in EventsOf(log[i].work) : i <= j
        /\ (\A j \in EventsOf(log[i].work) : i <= j) =>
              log[i].state = "QUEUED" /\ log[i].variant # None
        /\ log[i].state # "QUEUED" => log[i].variant = None

\* At most one thread at a time carries a work item, through all starts by
\* submissions and by recovery (controller_service.py:641-654).
OneThread ==
    \A t, u \in Threads : Alive(t) /\ Alive(u) /\ th[t].work = th[u].work => t = u

\* Someone will still act on an unfinished work item.
Carried(w) ==
    \/ \E t \in Threads : Alive(t) /\ th[t].work = w
    \/ \E c \in Clients : sub[c].work = w
    \/ todo[w].left # {}

\* Accepted work is never lost: in a running controller whose appends have not
\* failed, work without a terminal event is being carried, across any number of
\* crashes at any point (controller_service.py:770-784).
NoLostWork ==
    phase \in {"recovering", "serving"} /\ faults = 0 =>
        \A w \in Works : EventsOf(w) # {} /\ HasArguments(w) => Carried(w)

\* A new attempt is recorded only for an attempt that really began, and a
\* terminal event belongs to an attempt that really began.
AttemptsRan ==
    \A i \in DOMAIN log :
        LET before(a) == \E j \in EventsOf(log[i].work) :
                            j < i /\ log[j].state = "RUNNING" /\ log[j].attempt = a
        IN  /\ log[i].state = "RETRYING" => before(log[i].attempt - 1)
            /\ log[i].state \in Terminal => before(log[i].attempt)

\* However submissions, threads, failed appends and recoveries interleave, a
\* work item is one piece of work: bound to its arguments once, carried by at
\* most one thread, with attempts that follow one another
\* (_submit_detached, _start_detached_thread, _recover_detached).
CarriedOnce == AcceptedOnce /\ OneThread /\ AttemptsRan

\* Every accepted work item gets a terminal event, unless an append failed.
AcceptedSettles ==
    \A w \in Works : EventsOf(w) # {} ~> (~HasArguments(w) \/ faults > 0)

\* What the ledger's projection promises of finished work: once COMPLETED or
\* FAILED, a work item gets no further event.
TerminalIsFinal ==
    \A i, j \in DOMAIN log :
        i < j /\ log[i].work = log[j].work => log[i].state \notin Terminal
=============================================================================
