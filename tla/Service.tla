------------------------------- MODULE Service -------------------------------
(***************************************************************************)
(* The controller's local service (controller_service.py): one thread per   *)
(* connection, each request checked against the replay cache and then       *)
(* handled by the component its operation belongs to.  Here: the scheduled- *)
(* work queue and the execution on exact targets; none of their operations  *)
(* is restricted to the administrator's socket.                             *)
(*                                                                          *)
(* A request has a deadline and may be delivered any number of times.  The  *)
(* process may crash at any step; the ledgers, the replay state, the index  *)
(* file and the workers remain.                                             *)
(***************************************************************************)
EXTENDS WorkQueue, TargetEvidence

CONSTANTS
    Requests,       \* request ids
    Operation,      \* request -> [kind, and work, or exec and client]
    Expiry,         \* request -> expires_at
    Capacity,       \* SERVICE_REPLAY_MAX_ENTRIES
    MaxTime, MaxArrivals, MaxFailures    \* bounds of the model

ASSUME ServiceAssumption ==
    /\ Expiry \in [Requests -> Nat] /\ Capacity \in Nat
    /\ \A r \in Requests :
          \/ Operation[r].kind \in QueueOps /\ (Operation[r].kind = "enqueue" => Operation[r].work \in Works)
          \/ Operation[r].kind = "target" /\ Operation[r].exec \in Executions /\ Operation[r].client \in Clients

VARIABLES
    clock, up, arrivals,
    failures,       \* crashes, and saves that failed
    th,             \* requests at the replay check
    seen,           \* the replay cache's entries in memory
    seenFile,       \* and in its file
    accepted,       \* how often each request got past the check
    overlapped      \* two operations of the queue overlapped since the start

boundVars == <<arrivals, failures>>
replayVars == <<th, seen, seenFile, accepted>>
vars == <<clock, up, boundVars, replayVars, overlapped, queueVars, targetVars>>

NoRequest == [pc |-> "idle"]

Init ==
    /\ clock = 0 /\ up = TRUE /\ arrivals = 0 /\ failures = 0
    /\ th = [t \in Threads |-> NoRequest]
    /\ seen = {} /\ seenFile = {} /\ accepted = [r \in Requests |-> 0]
    /\ overlapped = FALSE
    /\ QueueInit
    /\ TargetInit

(***************************************************************************)
(* The replay cache                                                         *)
(***************************************************************************)
Free(t) == th[t] = NoRequest /\ qth[t] = QueueIdle /\ eth[t] = TargetIdle

\* handle_service_request; check_and_record takes its time before its lock.
Arrive(t, r) ==
    /\ up /\ Free(t) /\ arrivals < MaxArrivals
    /\ clock < Expiry[r]
    /\ arrivals' = arrivals + 1
    /\ th' = [th EXCEPT ![t] = [pc |-> "check", req |-> r, at |-> clock]]
    /\ UNCHANGED <<clock, up, failures, seen, seenFile, accepted, overlapped, queueVars, targetVars>>

Checking(t) == th[t].pc = "check"
\* The entries that have not expired at the time the thread took
Live(t) == {r \in seen : Expiry[r] > th[t].at}
Acceptable(t) == th[t].req \notin Live(t) /\ Cardinality(Live(t)) < Capacity
Leave(t) == th' = [th EXCEPT ![t] = NoRequest]
PrunedFile(t) == IF Live(t) = seen THEN seenFile ELSE Live(t)

\* A replay, or a full cache: expired entries are gone, the request is refused.
Refuse(t) ==
    /\ Checking(t) /\ ~Acceptable(t)
    /\ seen' = Live(t)
    /\ seenFile' = PrunedFile(t)
    /\ Leave(t)
    /\ UNCHANGED <<clock, up, boundVars, accepted, overlapped, queueVars, targetVars>>

\* The request goes to its component.
StartOperation(t) ==
    LET op == Operation[th[t].req] IN
    \/ /\ op.kind \in QueueOps
       /\ qth' = [qth EXCEPT ![t] = QueueCall(op.kind, op.work)]
       /\ overlapped' = (overlapped \/ \E u \in Threads : qth[u] # QueueIdle)
       /\ UNCHANGED <<qlog, heap, cache, token, targetVars>>
    \/ /\ op.kind = "target"
       /\ eth' = [eth EXCEPT ![t] = TargetCall(op.exec, op.client)]
       /\ UNCHANGED <<tlog, index, indexFile, lock, ran, answers, overlapped, queueVars>>

\* Mutant: the entry is kept in memory only.
AcceptUnsaved(t) ==
    /\ Checking(t) /\ Acceptable(t)
    /\ seen' = Live(t) \cup {th[t].req}
    /\ seenFile' = PrunedFile(t)
    /\ accepted' = [accepted EXCEPT ![th[t].req] = @ + 1]
    /\ Leave(t)
    /\ StartOperation(t)
    /\ UNCHANGED <<clock, up, boundVars>>

Accept(t) ==
    /\ Checking(t) /\ Acceptable(t)
    /\ seen' = Live(t) \cup {th[t].req}
    /\ seenFile' = seen'
    /\ accepted' = [accepted EXCEPT ![th[t].req] = @ + 1]
    /\ Leave(t)
    /\ StartOperation(t)
    /\ UNCHANGED <<clock, up, boundVars>>

\* _persist_locked raises, on the pruned entries or on the new one, which is
\* taken out again.
PersistFails(t) ==
    /\ Checking(t) /\ failures < MaxFailures
    /\ failures' = failures + 1
    /\ seen' = Live(t)
    /\ \/ Live(t) # seen /\ UNCHANGED seenFile
       \/ Acceptable(t) /\ seenFile' = PrunedFile(t)
    /\ Leave(t)
    /\ UNCHANGED <<clock, up, arrivals, accepted, overlapped, queueVars, targetVars>>

(***************************************************************************)
(* Composition                                                              *)
(***************************************************************************)
Queue(t) ==
    /\ QueueStep(t)
    /\ UNCHANGED <<clock, up, boundVars, replayVars, overlapped, targetVars>>

Target(t) ==
    /\ TargetStep(t)
    /\ UNCHANGED <<clock, up, boundVars, replayVars, overlapped, queueVars>>

TargetFault(t) ==
    /\ failures < MaxFailures /\ failures' = failures + 1
    /\ IndexWriteFails(t)
    /\ UNCHANGED <<clock, up, arrivals, replayVars, overlapped, queueVars>>

\* Every thread and cache is gone until the service is started again.
Crash ==
    /\ up /\ failures < MaxFailures
    /\ failures' = failures + 1
    /\ up' = FALSE
    /\ th' = [t \in Threads |-> NoRequest]
    /\ seen' = {} /\ overlapped' = FALSE
    /\ QueueRestart
    /\ TargetRestart
    /\ UNCHANGED <<clock, arrivals, seenFile, accepted>>

\* _load_locked, at the first request
Restart ==
    /\ ~up /\ up' = TRUE
    /\ seen' = seenFile
    /\ UNCHANGED <<clock, boundVars, th, seenFile, accepted, overlapped, queueVars, targetVars>>

Elapse ==
    /\ clock < MaxTime
    /\ clock' = clock + 1
    /\ UNCHANGED <<up, boundVars, replayVars, overlapped, queueVars, targetVars>>

Next ==
    \/ \E t \in Threads, r \in Requests : Arrive(t, r)
    \/ \E t \in Threads :
          Refuse(t) \/ Accept(t) \/ PersistFails(t) \/ Queue(t) \/ Target(t) \/ TargetFault(t)
    \/ Crash \/ Restart \/ Elapse

Spec == Init /\ [][Next]_vars

(***************************************************************************)
(* Properties                                                               *)
(***************************************************************************)
TypeOK ==
    /\ clock \in 0..MaxTime /\ up \in BOOLEAN /\ overlapped \in BOOLEAN
    /\ seen \subseteq Requests /\ seenFile \subseteq Requests
    /\ accepted \in [Requests -> Nat]
    /\ \A t \in Threads : Checking(t) => th[t].req \in Requests /\ th[t].at \in 0..clock
    /\ \A t \in Threads : ~Free(t) => up
    /\ QueueTypeOK
    /\ TargetTypeOK

\* Until its deadline a request is handled at most once, over crashes, failed
\* saves and a cache at its capacity, because its entry is in the file as long as
\* that and in memory whenever the service is up (_ServiceReplayCache, controller_service.py:63-146).
ReplayWindow ==
    /\ \A r \in Requests : clock < Expiry[r] => accepted[r] <= 1
    /\ \A r \in Requests : clock < Expiry[r] /\ accepted[r] = 1 => r \in seenFile /\ (up => r \in seen)
    /\ Cardinality(seen) <= Capacity

\* While no two operations of the queue overlapped since the service started,
\* the projection an operation leaves behind, though patched and not read again,
\* is what the ledger says (work_queue.py:151-155, 166-170, 181-185, 211-218).
ExactWithoutOverlap ==
    (~overlapped /\ token = Len(qlog) /\ \A t \in Threads : qth[t] = QueueIdle) =>
        /\ heap[cache.map] = Projection(qlog)
        /\ cache.paused = Paused(qlog)

\* What the queue's operations see is what was recorded: a work is admitted once
\* and before it is dispatched, whatever overlaps, and the projection is exact as
\* long as nothing overlapped (work_queue.py:141-218).
QueueExact == AdmittedOnce /\ ExactWithoutOverlap
=============================================================================
