----------------------------- MODULE Execution ------------------------------
(***************************************************************************)
(* Detached work carried end to end: the controller of Detached dispatching *)
(* to the worker of WorkerReplay over one bounded connection per attempt.   *)
(* The work id is the dispatch's request id (_submit_detached), so every    *)
(* retry, of either process, meets the worker's replay ledger.  There is    *)
(* one worker, named in the submission or the only one the scheduler can    *)
(* choose; management requests to it are in WorkerReplay.                   *)
(*                                                                          *)
(* The binding of an attempt is left open: the payload picks up the         *)
(* controller's current runtime observation of the worker, which may have   *)
(* changed since an earlier attempt.                                        *)
(***************************************************************************)
EXTENDS WorkerReplay

CONSTANTS Variants, Clients, Threads, Backend, MaxSubmits, MaxCrashes, MaxFaults

VARIABLES log, phase, todo, registry, th, sub, submits, crashes, faults     \* of Detached
VARIABLE link       \* the connection on which a thread awaits its response

\* A work id is the request id of its dispatches.
D == INSTANCE Detached WITH Works <- Requests

\* The connection was closed without a response.
Broken == "broken"

ASSUME LinkAssumption == None \notin Conns /\ Broken \notin Conns /\ None \notin D!Outcomes

dvars == <<log, phase, todo, registry, th, sub, submits, crashes, faults>>
evars == <<dvars, vars, link>>

SystemInit ==
    /\ D!Init
    /\ Init
    /\ link = [t \in Threads |-> None]

Unlinked(c) == \A t \in Threads : link[t] # c

-----------------------------------------------------------------------------
\* dispatch_via: one connection to the worker, one dispatch.request on it.
Send(t, c, b) ==
    /\ th[t].pc = "waiting" /\ link[t] = None
    /\ Receive(c, th[t].work, b)
    /\ link' = [link EXCEPT ![t] = c]
    /\ UNCHANGED dvars

\* The response reaches the thread: execution.result carries a record,
\* dispatch.ack and replay.disposition carry none, and all are results.
Deliver(t, c) ==
    /\ link[t] = c
    /\ Respond(c)
    /\ D!ThreadReturn(t, IF h[c].kind \in ResultKinds THEN "record" ELSE "norecord")
    /\ link' = [link EXCEPT ![t] = None]

\* The worker cannot be reached, the connection breaks or its deadline passes:
\* an UNKNOWN result when the worker was scheduled, an exception when it was
\* named.  The worker goes on with what it received.
Unreachable(t, outcome) ==
    /\ D!ThreadReturn(t, outcome)
    /\ link' = [link EXCEPT ![t] = None]
    /\ UNCHANGED vars

\* Nobody waits for this response any more.
RespondUnheard(c) ==
    /\ Unlinked(c)
    /\ Respond(c)
    /\ UNCHANGED <<dvars, link>>

WorkerStep(c) ==
    /\ \/ CheckAcceptsWork(c) \/ CheckPrior(c) \/ Admit(c)
       \/ AppendDispatch(c) \/ PublishDispatch(c)
       \/ StartExecution(c) \/ FinishExecution(c)
       \/ AppendResult(c) \/ PublishResult(c)
    /\ UNCHANGED <<dvars, link>>

\* The worker has closed connections: their threads can only give up.
Closed ==
    link' = [t \in Threads |->
               IF link[t] \in Conns /\ h'[link[t]].pc = "idle" THEN Broken ELSE link[t]]

WorkerRaises(c) ==
    /\ Reject(c) \/ AppendFails(c) \/ HandlerRaises(c)
    /\ Closed
    /\ UNCHANGED dvars

WorkerCrash == Crash /\ Closed /\ UNCHANGED dvars
WorkerRestart == Restart /\ UNCHANGED <<dvars, link>>

Submit(c, w, v) == D!SubmitAppend(c, w, v) /\ UNCHANGED <<vars, link>>
SubmitStep(c) == D!SubmitStep(c) /\ UNCHANGED <<vars, link>>
ThreadStep(t) == D!ThreadStep(t) /\ UNCHANGED <<vars, link>>
RunStep == D!RunStep /\ UNCHANGED <<vars, link>>

\* A ledger append of the controller raises.
SubmitFault(w, v) == D!SubmitAppendFails(w, v) /\ UNCHANGED <<vars, link>>
ThreadFault(t) ==
    /\ D!ThreadRunningFails(t) \/ D!ThreadTerminalFails(t)
    /\ UNCHANGED <<vars, link>>

ControllerCrash ==
    /\ D!Crash
    /\ link' = [t \in Threads |-> None]
    /\ UNCHANGED vars

SystemNext ==
    \/ \E c \in Clients, w \in Requests, v \in Variants : Submit(c, w, v)
    \/ \E w \in Requests, v \in Variants : SubmitFault(w, v)
    \/ \E c \in Clients : SubmitStep(c)
    \/ \E t \in Threads : ThreadStep(t) \/ ThreadFault(t)
    \/ RunStep
    \/ ControllerCrash
    \/ \E t \in Threads, c \in Conns :
          Deliver(t, c) \/ \E b \in Bindings : Send(t, c, b)
    \/ \E t \in Threads, outcome \in {"norecord", "raised"} : Unreachable(t, outcome)
    \/ \E c \in Conns : WorkerStep(c) \/ WorkerRaises(c) \/ RespondUnheard(c)
    \/ WorkerCrash
    \/ WorkerRestart

\* The component's own fairness; a waiting thread's deadline always passes.
SystemFairness ==
    /\ WF_evars(RunStep)
    /\ \A c \in Clients : WF_evars(SubmitStep(c))
    /\ \A t \in Threads : WF_evars(ThreadStep(t))
    /\ \A t \in Threads : WF_evars(\E outcome \in {"norecord", "raised"} : Unreachable(t, outcome))
    /\ \A c \in Conns : WF_evars(WorkerStep(c))
    /\ WF_evars(WorkerRestart)

SystemSpec == SystemInit /\ [][SystemNext]_evars /\ SystemFairness

-----------------------------------------------------------------------------
\* Work the controller holds as COMPLETED with a record was executed, and the
\* worker's ledger still has that result, whichever process crashed since.
CompletedIsDurable ==
    \A i \in DOMAIN log :
        log[i].outcome = "record" =>
            /\ \E n \in DOMAIN runs : runs[n].req = log[i].work
            /\ \E j \in DOMAIN ledger : ledger[j].type = "result" /\ ledger[j].req = log[i].work

\* Every accepted work item gets a terminal event although worker and
\* controller crash, replies are lost and deadlines pass.
WorkSettles ==
    \A w \in Requests : D!EventsOf(w) # {} ~> (~D!HasArguments(w) \/ faults > 0)
=============================================================================
