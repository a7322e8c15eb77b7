------------------------------ MODULE WorkQueue ------------------------------
(***************************************************************************)
(* The scheduled-work queue of the controller (work_queue.py): a ledger of  *)
(* works and of operator pauses, and a projection of it, _state_cache, that *)
(* the request threads read and mutate without a lock.                      *)
(*                                                                          *)
(* A step is what happens between two points where another thread can run   *)
(* and the order matters: an append under the ledger's file lock, the read  *)
(* of the ledger in _ensure_state, the installation of what was read, and   *)
(* the assignments after an append.  The maps are objects: a thread holds   *)
(* a reference, and mutates an object that is, or is no longer, the cached  *)
(* one.  The stat token of the ledger is its length: every append changes   *)
(* it.  Works are numbered in the order (priority, work_id) of tick, and a  *)
(* worker is eligible for a work or not at any time.                        *)
(***************************************************************************)
EXTENDS RequestThreads

CONSTANT
    Works           \* numbers of works (client and idempotency key)

ASSUME WorksAssumption == Works \subseteq Nat /\ IsFiniteSet(Works)

VARIABLES
    qth,            \* what each thread does in the queue
    qlog,           \* schedule_ledger
    heap,           \* the map objects
    cache,          \* _state_cache
    token           \* _state_token; 0 is None

queueVars == <<qth, qlog, heap, cache, token>>

NoObject == 0
Objects == 1..(Cardinality(Threads) + 2)
States == {"ABSENT", "QUEUED", "DISPATCHED"}
EmptyMap == [w \in Works |-> "ABSENT"]

QueueIdle ==
    [op |-> "none", pc |-> "idle", then |-> "idle", work |-> 0, todo |-> {},
     map |-> NoObject, paused |-> FALSE, scanned |-> EmptyMap, tok |-> 0, start |-> 0]

QueueInit ==
    /\ qth = [t \in Threads |-> QueueIdle]
    /\ qlog = <<>>
    /\ heap = [o \in Objects |-> EmptyMap]
    /\ cache = [map |-> 1, paused |-> FALSE]
    /\ token = 0

WorkRecord(w, s) == [work |-> w, state |-> s]
Control(s) == [work |-> -1, state |-> s]

\* The last record of the log that is about w (-1: the operator's control)
LastState(log, w, default) ==
    LET I == {i \in DOMAIN log : log[i].work = w}
    IN  IF I = {} THEN default ELSE log[CHOOSE i \in I : \A j \in I : j <= i].state

\* What _ensure_state derives from the ledger.  The service runs tick without a
\* dispatcher, so that no terminal state is ever written.
Projection(log) == [w \in Works |-> LastState(log, w, "ABSENT")]
Paused(log) == LastState(log, -1, "RESUMED") = "PAUSED"

\* The contents of the objects someone can still reach
Reachable(h, c, q) ==
    [o \in Objects |-> IF o = c.map \/ \E t \in Threads : q[t].map = o THEN h[o] ELSE EmptyMap]

InQueue(t, pc) == qth[t].pc = pc
\* A call of _ensure_state, after which the thread is at pc
EnsureThen(t, pc) == [qth[t] EXCEPT !.pc = "ensure", !.then = pc]
Becomes(t, v) == qth' = [qth EXCEPT ![t] = v]

(***************************************************************************)
(* _ensure_state                                                            *)
(***************************************************************************)

\* The token is the ledger's: the cached pair is returned.
EnsureCached(t) ==
    /\ InQueue(t, "ensure")
    /\ qlog # <<>> /\ token = Len(qlog)
    /\ Becomes(t, [qth[t] EXCEPT !.pc = qth[t].then, !.map = cache.map, !.paused = cache.paused])
    /\ UNCHANGED <<qlog, heap, cache, token>>

\* Otherwise the ledger is read (there is nothing to read before it exists) ...
EnsureScan(t) ==
    /\ InQueue(t, "ensure")
    /\ qlog = <<>> \/ token # Len(qlog)
    /\ Becomes(t, [qth[t] EXCEPT !.pc = "install", !.scanned = Projection(qlog),
                                 !.paused = Paused(qlog), !.tok = Len(qlog)])
    /\ UNCHANGED <<qlog, heap, cache, token>>

\* ... and what was read becomes the cached pair, under the token of the read.
EnsureInstall(t) ==
    /\ InQueue(t, "install")
    /\ LET used == {cache.map} \cup {qth[u].map : u \in Threads}
           o    == CHOOSE n \in Objects \ used : \A m \in Objects \ used : n <= m
       IN  /\ cache' = [map |-> o, paused |-> qth[t].paused]
           /\ Becomes(t, [qth[t] EXCEPT !.pc = qth[t].then, !.map = o, !.scanned = EmptyMap, !.tok = 0])
           /\ heap' = Reachable([heap EXCEPT ![o] = qth[t].scanned], cache', qth')
    /\ token' = qth[t].tok
    /\ UNCHANGED qlog

(***************************************************************************)
(* enqueue, pause, resume and tick, up to their append                      *)
(***************************************************************************)

\* enqueue: append_if, or the latest state of a work accepted before
Enqueue(t) ==
    /\ InQueue(t, "enqueue")
    /\ \/ /\ Projection(qlog)[qth[t].work] = "ABSENT"
          /\ qlog' = Append(qlog, WorkRecord(qth[t].work, "QUEUED"))
          /\ Becomes(t, EnsureThen(t, "finish"))
       \/ /\ Projection(qlog)[qth[t].work] # "ABSENT"
          /\ Becomes(t, EnsureThen(t, "return"))
          /\ UNCHANGED qlog
    /\ UNCHANGED <<heap, cache, token>>

\* pause and resume append whatever the state is.
PauseOrResume(t) ==
    /\ InQueue(t, "control")
    /\ qlog' = Append(qlog, Control(IF qth[t].op = "pause" THEN "PAUSED" ELSE "RESUMED"))
    /\ Becomes(t, EnsureThen(t, "finish"))
    /\ UNCHANGED <<heap, cache, token>>

\* tick: paused() stops it, but for a last look at the queue (schedule.list makes
\* the same two calls, and ends) ...
CheckPaused(t) ==
    /\ InQueue(t, "paused")
    /\ Becomes(t, EnsureThen(t, IF qth[t].paused THEN "return" ELSE "queued"))
    /\ UNCHANGED <<qlog, heap, cache, token>>

\* ... and queued() is the list it works through.
TickQueued(t) ==
    /\ InQueue(t, "queued")
    /\ Becomes(t, [qth[t] EXCEPT !.pc = "next",
                                 !.todo = {w \in Works : heap[qth[t].map][w] = "QUEUED"}])
    /\ UNCHANGED <<qlog, heap, cache, token>>

NextWork(t) == CHOOSE w \in qth[t].todo : \A v \in qth[t].todo : w <= v

\* No worker is eligible: the work is held.
TickHold(t) ==
    /\ InQueue(t, "next") /\ qth[t].todo # {}
    /\ Becomes(t, [qth[t] EXCEPT !.todo = @ \ {NextWork(t)}])
    /\ UNCHANGED <<qlog, heap, cache, token>>

\* _select_worker finds one; _append_state begins with latest.
TickSelect(t) ==
    /\ InQueue(t, "next") /\ qth[t].todo # {}
    /\ Becomes(t, [EnsureThen(t, "append") EXCEPT !.work = NextWork(t)])
    /\ UNCHANGED <<qlog, heap, cache, token>>

TickAppend(t) ==
    /\ InQueue(t, "append")
    /\ qlog' = Append(qlog, WorkRecord(qth[t].work, "DISPATCHED"))
    /\ Becomes(t, EnsureThen(t, "finish"))
    /\ UNCHANGED <<heap, cache, token>>

(***************************************************************************)
(* What follows the append: the map the thread holds, and the token         *)
(***************************************************************************)

\* Mutant: resume is a copy of pause.
FinishControlPauses(t) ==
    /\ InQueue(t, "finish") /\ qth[t].op \in {"pause", "resume"}
    /\ cache' = [map |-> qth[t].map, paused |-> TRUE]
    /\ token' = Len(qlog)
    /\ Becomes(t, QueueIdle)
    /\ heap' = Reachable(heap, cache', qth')
    /\ UNCHANGED qlog

FinishControl(t) ==
    /\ InQueue(t, "finish") /\ qth[t].op \in {"pause", "resume"}
    /\ cache' = [map |-> qth[t].map, paused |-> qth[t].op = "pause"]
    /\ token' = Len(qlog)
    /\ Becomes(t, QueueIdle)
    /\ heap' = Reachable(heap, cache', qth')
    /\ UNCHANGED qlog

FinishEnqueue(t) ==
    /\ InQueue(t, "finish") /\ qth[t].op = "enqueue"
    /\ token' = Len(qlog)
    /\ Becomes(t, QueueIdle)
    /\ heap' = Reachable([heap EXCEPT ![qth[t].map][qth[t].work] = "QUEUED"], cache, qth')
    /\ UNCHANGED <<qlog, cache>>

FinishDispatch(t) ==
    /\ InQueue(t, "finish") /\ qth[t].op = "tick"
    /\ token' = Len(qlog)
    /\ Becomes(t, [qth[t] EXCEPT !.pc = "next", !.todo = @ \ {qth[t].work},
                                 !.work = 0, !.map = NoObject])
    /\ heap' = Reachable([heap EXCEPT ![qth[t].map][qth[t].work] = "DISPATCHED"], cache, qth')
    /\ UNCHANGED <<qlog, cache>>

Return(t) ==
    /\ InQueue(t, "return") \/ (InQueue(t, "next") /\ qth[t].todo = {})
    /\ Becomes(t, QueueIdle)
    /\ heap' = Reachable(heap, cache, qth')
    /\ UNCHANGED <<qlog, cache, token>>

QueueStep(t) ==
    \/ EnsureCached(t) \/ EnsureScan(t) \/ EnsureInstall(t)
    \/ Enqueue(t) \/ PauseOrResume(t)
    \/ CheckPaused(t) \/ TickQueued(t) \/ TickHold(t) \/ TickSelect(t) \/ TickAppend(t)
    \/ FinishControl(t) \/ FinishEnqueue(t) \/ FinishDispatch(t) \/ Return(t)

\* The first state of an operation, of work w for enqueue
QueueCall(op, w) ==
    [QueueIdle EXCEPT
        !.op = op,
        !.work = IF op = "enqueue" THEN w ELSE 0,
        !.pc = CASE op = "enqueue" -> "enqueue" [] op = "tick" -> "ensure" [] OTHER -> "control",
        !.then = IF op = "tick" THEN "paused" ELSE "idle",
        !.start = Len(qlog)]

QueueOps == {"enqueue", "pause", "resume", "tick"}

\* The process starts again: the ledger is what is left.
QueueRestart ==
    /\ qth' = [t \in Threads |-> QueueIdle]
    /\ heap' = [o \in Objects |-> EmptyMap]
    /\ cache' = [map |-> 1, paused |-> FALSE]
    /\ token' = 0
    /\ UNCHANGED qlog

(***************************************************************************)
(* Properties                                                               *)
(***************************************************************************)
QueueTypeOK ==
    /\ \A t \in Threads :
          /\ qth[t].todo \subseteq Works /\ qth[t].map \in Objects \cup {NoObject}
          /\ qth[t].scanned \in [Works -> States]
          /\ qth[t].pc \in {"finish", "queued", "paused"} => qth[t].map # NoObject
    /\ \A i \in DOMAIN qlog :
          \/ qlog[i].work \in Works /\ qlog[i].state \in States \ {"ABSENT"}
          \/ qlog[i] \in {Control("PAUSED"), Control("RESUMED")}
    /\ heap \in [Objects -> [Works -> States]]
    /\ cache \in [map : Objects, paused : BOOLEAN]
    /\ token \in 0..Len(qlog)

\* However often and by however many threads a work is submitted, over restarts
\* too, it is admitted once, and nothing is dispatched that was not admitted
\* (enqueue, work_queue.py:141-150).
AdmittedOnce ==
    \A i \in DOMAIN qlog : qlog[i].work \in Works =>
        /\ qlog[i].state = "QUEUED" => \A j \in DOMAIN qlog : qlog[j] = qlog[i] => j = i
        /\ qlog[i].state = "DISPATCHED" =>
              \E j \in 1..i : qlog[j] = WorkRecord(qlog[i].work, "QUEUED")

\* A tick that begins when the dispatch of a work is in the ledger does not
\* dispatch the work again: "Recurrence identity plus idempotency prevent
\* duplicate recurring triggers." (work_queue.py:3-4)
NotDispatchedAgain ==
    \A t \in Threads : InQueue(t, "append") =>
        \A i \in 1..qth[t].start : qlog[i] # WorkRecord(qth[t].work, "DISPATCHED")
=============================================================================
