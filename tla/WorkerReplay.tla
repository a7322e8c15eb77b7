---------------------------- MODULE WorkerReplay ----------------------------
(***************************************************************************)
(* The worker's dispatch handler and its replay ledger (worker.py,          *)
(* LocalWorker.handle) behind the TLS endpoint (transport.py,               *)
(* TLSWorkerServer), which serves |slots| requests at a time                *)
(* (max_concurrent_connections, by default 1).  A handler is a sequence of  *)
(* steps between which the other handlers run and the process may die; the  *)
(* ledger survives, the two replay dictionaries and the management state    *)
(* do not.                                                                  *)
(*                                                                          *)
(* A dispatch is a request id and a binding (dispatch_binding_identity: the *)
(* job, manifest, bundle, challenge and peer).  Messages are not tracked:   *)
(* any dispatch may arrive at any time and any number of times, which is    *)
(* what loss, reordering and controller retries amount to.  Every envelope  *)
(* is new (dispatch_via stamps the time into its message id), so the ledger *)
(* never finds its record to be one it already has.  A ledger line is       *)
(* written whole or not at all: a torn tail stops the worker until it is    *)
(* repaired.                                                                *)
(* An execution record is numbered by the execution that produced it.       *)
(***************************************************************************)
EXTENDS Integers, Sequences, FiniteSets

CONSTANTS
    Requests,       \* request ids
    Bindings,       \* dispatch binding identities
    Conns,          \* connection slots an endpoint may have
    None,           \* "no entry" in a replay dictionary
    MaxMessages,    \* bound: envelopes received in a behaviour
    MaxExits        \* bound: times the worker process ends

ASSUME NoneAssumption == None \notin Bindings /\ None \notin Requests
ASSUME BoundAssumption == MaxMessages \in Nat /\ MaxExits \in Nat

VARIABLES
    slots,          \* the slots this endpoint was started with
    ledger,         \* the worker's append-only ledger (durable)
    dispatchBy,     \* _dispatch_by_request: request -> its binding
    resultBy,       \* _result_by_request: request -> its record, 0 for none
    mgmt,           \* _management_state["state"]
    h,              \* the handler running in each connection slot
    up,             \* the worker process is alive
    runs,           \* history: the executions begun, in order
    replies,        \* history: the responses sent
    received,       \* envelopes received so far
    exits           \* process ends so far

vars == <<slots, ledger, dispatchBy, resultBy, mgmt, h, up, runs, replies, received, exits>>

-----------------------------------------------------------------------------
(* Management states a worker process can reach through its own handler.    *)
States == {"READY", "BUSY", "DRAINING", "MAINTENANCE", "VERIFYING", "DEGRADED", "QUARANTINED"}
Schedulable == {"READY", "BUSY"}

\* _TRANSITIONS with the reflexive closure of can_transition.
Transitions == [
    READY       |-> {"READY", "BUSY", "DRAINING", "MAINTENANCE", "VERIFYING", "QUARANTINED", "DEGRADED"},
    BUSY        |-> {"BUSY", "READY", "DRAINING", "QUARANTINED"},
    DRAINING    |-> {"DRAINING", "MAINTENANCE", "READY", "QUARANTINED", "DEGRADED"},
    MAINTENANCE |-> {"MAINTENANCE", "VERIFYING", "DEGRADED", "QUARANTINED", "READY"},
    VERIFYING   |-> {"VERIFYING", "READY", "DEGRADED", "QUARANTINED", "MAINTENANCE"},
    DEGRADED    |-> {"DEGRADED", "DRAINING", "MAINTENANCE", "QUARANTINED", "READY"},
    QUARANTINED |-> {"QUARANTINED", "DRAINING", "MAINTENANCE", "VERIFYING", "READY"}]

\* active_jobs of the worker's own state is never raised, so drain always
\* targets MAINTENANCE.
Target(command) ==
    CASE command = "drain"      -> "MAINTENANCE"
      [] command = "resume"     -> "READY"
      [] command = "quarantine" -> "QUARANTINED"
      [] OTHER                  -> mgmt

Commands == {"status", "drain", "resume", "quarantine"}

Kinds == {"EXECUTED", "DUPLICATE_IDEMPOTENT", "DUPLICATE_IN_PROGRESS",
          "CONFLICTING_REPLAY", "UNKNOWN", "OTHER"}

\* Responses that carry an execution record.
ResultKinds == {"EXECUTED", "DUPLICATE_IDEMPOTENT"}

Idle == [pc |-> "idle", req |-> None, binding |-> None, record |-> 0, kind |-> "OTHER"]

Entry(type, req, binding, record) ==
    [type |-> type, req |-> req, binding |-> binding, record |-> record]

\* Positions of a request's entries of one type in the ledger.
Positions(type, r) == {i \in DOMAIN ledger : ledger[i].type = type /\ ledger[i].req = r}

\* The constructor's replay of the ledger: a later entry overwrites an earlier one.
Latest(type, r) == CHOOSE i \in Positions(type, r) : \A j \in Positions(type, r) : j <= i

\* At most one connection at a time: serve_once, or serve_forever's inline mode.
Serial == \A c, d \in slots : c = d

-----------------------------------------------------------------------------
Init ==
    /\ slots \in SUBSET Conns \ {{}}
    /\ ledger = <<>>
    /\ dispatchBy = [r \in Requests |-> None]
    /\ resultBy = [r \in Requests |-> 0]
    /\ mgmt = "READY"
    /\ h = [c \in Conns |-> Idle]
    /\ up = TRUE
    /\ runs = <<>>
    /\ replies = {}
    /\ received = 0
    /\ exits = 0

Step(c, from, to) == /\ up
                     /\ h[c].pc = from
                     /\ h' = [h EXCEPT ![c].pc = to]

\* The handler returns a response; it is on the wire only after Respond.
Return(c, from, kind, record) ==
    /\ up
    /\ h[c].pc = from
    /\ h' = [h EXCEPT ![c].pc = "reply", ![c].kind = kind, ![c].record = record]

\* A dispatch.request arrives on a free connection, authorised and well formed.
Receive(c, r, b) ==
    /\ up /\ c \in slots /\ h[c].pc = "idle" /\ received < MaxMessages
    /\ h' = [h EXCEPT ![c] = [Idle EXCEPT !.pc = "accepts", !.req = r, !.binding = b]]
    /\ received' = received + 1
    /\ UNCHANGED <<slots, ledger, dispatchBy, resultBy, mgmt, up, runs, replies, exits>>

\* accepts_work(): a drained or quarantined worker answers UNKNOWN.
CheckAcceptsWork(c) ==
    /\ \/ mgmt \in Schedulable /\ Step(c, "accepts", "prior")
       \/ mgmt \notin Schedulable /\ Return(c, "accepts", "UNKNOWN", 0)
    /\ UNCHANGED <<slots, ledger, dispatchBy, resultBy, mgmt, up, runs, replies, received, exits>>

\* Mutant: a dispatch without a result is taken for one that never started.
CheckPriorRetriesInterrupted(c) ==
    LET r == h[c].req IN
    /\ up /\ h[c].pc = "prior"
    /\ \/ resultBy[r] = 0 /\ Step(c, "prior", "admit")
       \/ resultBy[r] # 0 /\ Return(c, "prior", "DUPLICATE_IDEMPOTENT", resultBy[r])
    /\ UNCHANGED <<slots, ledger, dispatchBy, resultBy, mgmt, up, runs, replies, received, exits>>

\* Mutant: a recorded result answers its request id, whatever the binding.
CheckPriorIgnoresBinding(c) ==
    LET r == h[c].req IN
    /\ up /\ h[c].pc = "prior"
    /\ \/ dispatchBy[r] = None /\ Step(c, "prior", "admit")
       \/ dispatchBy[r] # None /\ resultBy[r] # 0 /\ Return(c, "prior", "DUPLICATE_IDEMPOTENT", resultBy[r])
       \/ dispatchBy[r] # None /\ resultBy[r] = 0 /\ Return(c, "prior", "DUPLICATE_IN_PROGRESS", 0)
    /\ UNCHANGED <<slots, ledger, dispatchBy, resultBy, mgmt, up, runs, replies, received, exits>>

\* _prior_dispatch under _replay_lock, then the replay disposition.
CheckPrior(c) ==
    LET r == h[c].req IN
    /\ up /\ h[c].pc = "prior"
    /\ \/ dispatchBy[r] = None /\ Step(c, "prior", "admit")
       \/ /\ dispatchBy[r] \notin {None, h[c].binding}
          /\ Return(c, "prior", "CONFLICTING_REPLAY", 0)
       \/ /\ dispatchBy[r] = h[c].binding /\ resultBy[r] # 0
          /\ Return(c, "prior", "DUPLICATE_IDEMPOTENT", resultBy[r])
       \/ /\ dispatchBy[r] = h[c].binding /\ resultBy[r] = 0
          /\ Return(c, "prior", "DUPLICATE_IN_PROGRESS", 0)
    /\ UNCHANGED <<slots, ledger, dispatchBy, resultBy, mgmt, up, runs, replies, received, exits>>

\* Placement admission and the published bundle: admitted, or refused with UNKNOWN.
Admit(c) ==
    /\ \/ Step(c, "admit", "intent")
       \/ Return(c, "admit", "UNKNOWN", 0)
    /\ UNCHANGED <<slots, ledger, dispatchBy, resultBy, mgmt, up, runs, replies, received, exits>>

\* ledger.append("protocol.dispatch"): the durable intent, before anything runs.
AppendDispatch(c) ==
    /\ Step(c, "intent", "publish")
    /\ ledger' = Append(ledger, Entry("dispatch", h[c].req, h[c].binding, 0))
    /\ UNCHANGED <<slots, dispatchBy, resultBy, mgmt, up, runs, replies, received, exits>>

PublishDispatch(c) ==
    /\ Step(c, "publish", "execute")
    /\ dispatchBy' = [dispatchBy EXCEPT ![h[c].req] = h[c].binding]
    /\ UNCHANGED <<slots, ledger, resultBy, mgmt, up, runs, replies, received, exits>>

\* execute_local starts the workload ...
StartExecution(c) ==
    /\ Step(c, "execute", "running")
    /\ runs' = Append(runs, [req |-> h[c].req, binding |-> h[c].binding, slot |-> c])
    /\ UNCHANGED <<slots, ledger, dispatchBy, resultBy, mgmt, up, replies, received, exits>>

\* ... and its record is built; the workload's own outcome is in the record.
FinishExecution(c) ==
    /\ up /\ h[c].pc = "running"
    /\ \E n \in DOMAIN runs :
          /\ runs[n].slot = c
          /\ \A m \in DOMAIN runs : runs[m].slot = c => m <= n
          /\ h' = [h EXCEPT ![c].pc = "result", ![c].record = n]
    /\ UNCHANGED <<slots, ledger, dispatchBy, resultBy, mgmt, up, runs, replies, received, exits>>

\* Mutant: the result is kept in memory only.
AppendResultInMemory(c) ==
    /\ Step(c, "result", "publishResult")
    /\ UNCHANGED <<slots, ledger, dispatchBy, resultBy, mgmt, up, runs, replies, received, exits>>

AppendResult(c) ==
    /\ Step(c, "result", "publishResult")
    /\ ledger' = Append(ledger, Entry("result", h[c].req, h[c].binding, h[c].record))
    /\ UNCHANGED <<slots, dispatchBy, resultBy, mgmt, up, runs, replies, received, exits>>

PublishResult(c) ==
    /\ Return(c, "publishResult", "EXECUTED", h[c].record)
    /\ resultBy' = [resultBy EXCEPT ![h[c].req] = h[c].record]
    /\ UNCHANGED <<slots, ledger, dispatchBy, mgmt, up, runs, replies, received, exits>>

\* send_frame; the peer may be gone, which loses the reply and nothing else.
Respond(c) ==
    /\ up /\ h[c].pc = "reply"
    /\ replies' = replies \cup
         {[req |-> h[c].req, binding |-> h[c].binding, kind |-> h[c].kind, record |-> h[c].record]}
    /\ h' = [h EXCEPT ![c] = Idle]
    /\ UNCHANGED <<slots, ledger, dispatchBy, resultBy, mgmt, up, runs, received, exits>>

\* drain, resume, quarantine, status: the state changes, then it is recorded.
Manage(c, command) ==
    /\ up /\ c \in slots /\ h[c].pc = "idle" /\ received < MaxMessages
    /\ Target(command) \in Transitions[mgmt]
    /\ mgmt' = Target(command)
    /\ h' = [h EXCEPT ![c] = [Idle EXCEPT !.pc = "manage"]]
    /\ received' = received + 1
    /\ UNCHANGED <<slots, ledger, dispatchBy, resultBy, up, runs, replies, exits>>

\* describe, inventory, maintenance, certify, package-artifact and capability requests
\* record what they observed or did and answer.
Observe(c) ==
    /\ up /\ c \in slots /\ h[c].pc = "idle" /\ received < MaxMessages
    /\ h' = [h EXCEPT ![c] = [Idle EXCEPT !.pc = "manage"]]
    /\ received' = received + 1
    /\ UNCHANGED <<slots, ledger, dispatchBy, resultBy, mgmt, up, runs, replies, exits>>

\* Their ledger records carry other types and never enter the replay dictionaries.
AppendOther(c) ==
    /\ Return(c, "manage", "OTHER", 0)
    /\ ledger' = Append(ledger, Entry("other", None, None, 0))
    /\ UNCHANGED <<slots, dispatchBy, resultBy, mgmt, up, runs, replies, received, exits>>

\* Everything the process held in memory is gone.
ProcessEnds ==
    /\ exits < MaxExits
    /\ up' = FALSE
    /\ dispatchBy' = [r \in Requests |-> None]
    /\ resultBy' = [r \in Requests |-> 0]
    /\ mgmt' = "READY"
    /\ h' = [c \in Conns |-> Idle]
    /\ exits' = exits + 1
    /\ UNCHANGED <<slots, ledger, runs, replies, received>>

\* ProtocolError: an invalid challenge or no bundle cache.  The endpoint notes
\* it and closes the connection without a response.
Reject(c) ==
    /\ up /\ h[c].pc \in {"accepts", "admit"}
    /\ h' = [h EXCEPT ![c] = Idle]
    /\ UNCHANGED <<slots, ledger, dispatchBy, resultBy, mgmt, up, runs, replies, received, exits>>

\* What the append a handler is about to make adds to the ledger.
Pending(c) ==
    CASE h[c].pc = "intent" -> Entry("dispatch", h[c].req, h[c].binding, 0)
      [] h[c].pc = "result" -> Entry("result", h[c].req, h[c].binding, h[c].record)
      [] OTHER -> Entry("other", None, None, 0)

\* OSError out of a ledger append, before or after the line is in the file (a
\* failed fsync): the endpoint notes it like a rejected request and serves on,
\* and the replay dictionaries are not updated.
AppendFails(c) ==
    /\ up /\ h[c].pc \in {"intent", "result", "manage"}
    /\ ledger' \in {ledger, Append(ledger, Pending(c))}
    /\ h' = [h EXCEPT ![c] = Idle]
    /\ UNCHANGED <<slots, dispatchBy, resultBy, mgmt, up, runs, replies, received, exits>>

\* ValidationError (a runtime observation for another profile, a bad placement
\* request) or StorageError (the bundle is not published, the ledger is
\* corrupt, execute_local raised before or after the workload began).  The
\* endpoint catches neither, so it ends the connection's thread, and the
\* whole process when the connection is served inline.
HandlerRaises(c) ==
    /\ up /\ h[c].pc \in {"accepts", "admit", "intent", "execute", "running", "result", "manage"}
    /\ \/ Serial /\ ProcessEnds
       \/ /\ ~Serial
          /\ h' = [h EXCEPT ![c] = Idle]
          /\ UNCHANGED <<slots, ledger, dispatchBy, resultBy, mgmt, up, runs, replies, received, exits>>

\* Crash, kill, or supervisor restart, at any point of any handler.
Crash == up /\ ProcessEnds

\* Mutant: only finished dispatches are replayed.
RestartForgetsUnfinished ==
    /\ ~up
    /\ up' = TRUE
    /\ dispatchBy' = [r \in Requests |->
                        IF Positions("result", r) = {} THEN None
                        ELSE ledger[Latest("dispatch", r)].binding]
    /\ resultBy' = [r \in Requests |->
                        IF Positions("result", r) = {} THEN 0
                        ELSE ledger[Latest("result", r)].record]
    /\ UNCHANGED <<slots, ledger, mgmt, h, runs, replies, received, exits>>

\* LocalWorker.__init__: the dictionaries are rebuilt from the ledger; the
\* management state starts READY.
Restart ==
    /\ ~up
    /\ up' = TRUE
    /\ dispatchBy' = [r \in Requests |->
                        IF Positions("dispatch", r) = {} THEN None
                        ELSE ledger[Latest("dispatch", r)].binding]
    /\ resultBy' = [r \in Requests |->
                        IF Positions("result", r) = {} THEN 0
                        ELSE ledger[Latest("result", r)].record]
    /\ UNCHANGED <<slots, ledger, mgmt, h, runs, replies, received, exits>>

Handle(c) ==
    \/ CheckAcceptsWork(c) \/ CheckPrior(c) \/ Admit(c)
    \/ AppendDispatch(c) \/ PublishDispatch(c)
    \/ StartExecution(c) \/ FinishExecution(c)
    \/ AppendResult(c) \/ PublishResult(c)
    \/ AppendOther(c) \/ Respond(c)

Next ==
    \/ \E c \in Conns, r \in Requests, b \in Bindings : Receive(c, r, b)
    \/ \E c \in Conns, command \in Commands : Manage(c, command)
    \/ \E c \in Conns : Observe(c) \/ Handle(c)
    \/ \E c \in Conns : Reject(c) \/ AppendFails(c) \/ HandlerRaises(c)
    \/ Crash
    \/ Restart

\* A handler thread keeps running; the supervisor restarts an ended worker.
Fairness == WF_vars(Restart) /\ \A c \in Conns : WF_vars(Handle(c))

Spec == Init /\ [][Next]_vars /\ Fairness

-----------------------------------------------------------------------------
Pcs == {"idle", "accepts", "prior", "admit", "intent", "publish", "execute",
        "running", "result", "publishResult", "reply", "manage"}

Handler == [pc : Pcs, req : Requests \cup {None}, binding : Bindings \cup {None},
            record : Nat, kind : Kinds]

\* Types of the worker's durable and in-memory state.
TypeOK ==
    /\ slots \in SUBSET Conns
    /\ ledger \in Seq([type : {"dispatch", "result", "other"}, req : Requests \cup {None},
                       binding : Bindings \cup {None}, record : Nat])
    /\ dispatchBy \in [Requests -> Bindings \cup {None}]
    /\ resultBy \in [Requests -> Nat]
    /\ mgmt \in States
    /\ h \in [Conns -> Handler]
    /\ up \in BOOLEAN
    /\ runs \in Seq([req : Requests, binding : Bindings, slot : Conns])
    /\ replies \subseteq [req : Requests \cup {None}, binding : Bindings \cup {None},
                          kind : Kinds, record : Nat]
    /\ received \in 0..MaxMessages
    /\ exits \in 0..MaxExits

\* A request id is executed at most once, whatever is duplicated, retried with
\* the same or another binding, crashed or restarted (worker.py:277-318).
DuplicateIsIdempotent ==
    \A m, n \in DOMAIN runs : runs[m].req = runs[n].req => m = n

\* The same for an endpoint that serves one connection at a time, which is the
\* default and what every supervisor unit of the repository starts.
AtMostOnce == Serial => DuplicateIsIdempotent

\* Two execution.result responses to one request id carry the same record, and
\* it is the record of an execution of exactly the dispatch being answered: a
\* conflicting replay never gets another dispatch's result (worker.py:278-298).
SameAnswer ==
    Serial =>
    \A p, q \in replies :
        p.kind \in ResultKinds =>
            /\ p.record \in DOMAIN runs
            /\ runs[p.record].req = p.req /\ runs[p.record].binding = p.binding
            /\ q.kind \in ResultKinds /\ q.req = p.req => q.record = p.record

\* Write-ahead, for any number of slots: no workload has begun unless its
\* dispatch is in the ledger, and no record has been told to a controller unless
\* it is in the ledger, so a restarted worker knows of both (worker.py:314
\* before 318, 354 before 357).
WriteAhead ==
    /\ \A n \in DOMAIN runs :
          \E i \in Positions("dispatch", runs[n].req) : ledger[i].binding = runs[n].binding
    /\ \A p \in replies :
          p.kind \in ResultKinds => \E i \in Positions("result", p.req) : ledger[i].record = p.record

\* A request whose workload began, whose result is not in the ledger, and that
\* no handler is carrying: its execution was interrupted.
Interrupted(r) ==
    /\ \E n \in DOMAIN runs : runs[n].req = r
    /\ Positions("result", r) = {}
    /\ \A c \in Conns : h[c].req = r => h[c].pc \in {"accepts", "prior", "admit", "reply"}

\* An interrupted execution is never taken up again: the request stays
\* unresolved (DUPLICATE_IN_PROGRESS) instead of being run a second time.
InterruptedStays ==
    [][Serial => \A r \in Requests : Interrupted(r) => Interrupted(r)']_vars

\* A serial endpoint implements ExecuteOnce.  An endpoint with several slots
\* does not, and is mapped to a state in which nothing ever happens.
Once == INSTANCE ExecuteOnce WITH
    begun <- IF Serial
             THEN [n \in DOMAIN runs |-> [req |-> runs[n].req, binding |-> runs[n].binding]]
             ELSE <<>>,
    recorded <- {r \in Requests : Serial /\ Positions("result", r) # {}},
    lost <- {r \in Requests : Serial /\ Interrupted(r)},
    told <- {[req |-> p.req, binding |-> p.binding] :
                p \in {q \in replies : Serial /\ q.kind \in ResultKinds}}

\* What the controllers rely on, through any duplicates, conflicting retries,
\* failed appends, crashes and restarts: a request begins once, ends recorded or
\* lost, and only its recorded result is told (worker.py:256-357).
ImplementsOnce == Once!Spec

\* Within one life of a serial endpoint no workload begins while the worker is
\* drained or quarantined (worker.py:256; docs/FLEET_MANAGEMENT.md:174).
DrainedStartsNothing ==
    [][Serial /\ runs' # runs => mgmt \in Schedulable]_vars
=============================================================================
