------------------------------- MODULE Broker -------------------------------
(***************************************************************************)
(* The capability broker of a host (capability_broker.py): the lease store, *)
(* the audit and the result ledgers, and the handlers that serve capability *)
(* requests and reconcile an experiment's requirements.  A step of a        *)
(* handler is one access to a ledger or one run of the adapter.  The        *)
(* process may stop between any two, and only the ledgers and the host      *)
(* survive; an append may raise with the process alive, its line written    *)
(* (the fsync failed) or not, and the server then closes the connection and *)
(* serves the next one.                                                     *)
(*                                                                          *)
(* The Unix server and the named-pipe server serve one connection at a      *)
(* time, as the worker's endpoint does by default: one handler.  reconcile  *)
(* has no caller in the package: it is made here by that same handler.  A   *)
(* client that got no answer sends the same request again.                  *)
(***************************************************************************)
EXTENDS CapabilityPolicy, Integers

CONSTANTS
    Handlers,       \* the threads that call the broker
    Requests,       \* requests clients send
    Plans,          \* requirements to reconcile
    Profiles,       \* host profiles the broker may be started with
    LeaseIds, Scopes, Experiments,  \* leases the operator may grant
    Hosts,          \* hosts the broker may be started on
    MaxTime, MaxFaults, MaxPlans, MaxLeaseEvents   \* bounds

\* One connection is served at a time.
ASSUME HandlersAssumption == \A g, h \in Handlers : g = h
ASSUME ProfilesAssumption == \A p \in Profiles : ProfileValid(p)
ASSUME PlansAssumption ==
    \A q \in Plans : \A p \in Profiles : RequirementsValid(q, p.worker)

VARIABLES
    profile,        \* HostPrivilegeProfile, fixed at start
    clock,
    leaseLog, auditLog, resultLog,  \* the three ledgers
    host,           \* what the adapters act on
    handler,        \* what each handler does
    down,           \* the broker's process has stopped
    faults, plans,  \* counters of the bounds: stops and appends that raised; reconciliations
    ran,            \* history: runs of the adapter
    lost,           \* history: runs whose audit record was never written
    answers         \* history: results returned to callers

stores == <<leaseLog, auditLog, resultLog>>
history == <<ran, lost, answers>>
vars == <<profile, clock, stores, host, handler, down, faults, plans, history>>

NoJob == [items |-> <<>>, todo |-> <<>>, phase |-> None, plan |-> None, lease |-> None]
Idle == [pc |-> "idle", req |-> None, body |-> None, seen |-> 0, since |-> 0, job |-> NoJob]

Init ==
    /\ profile \in Profiles
    /\ clock = 0
    /\ leaseLog = <<>> /\ auditLog = <<>> /\ resultLog = <<>>
    /\ host \in Hosts
    /\ handler = [h \in Handlers |-> Idle]
    /\ down = FALSE
    /\ faults = 0 /\ plans = 0
    /\ ran = {} /\ lost = <<>> /\ answers = {}

-----------------------------------------------------------------------------
\* CapabilityLeaseStore: the events of a lease, of which the first is the lease
LeaseEvents(l) == {i \in DOMAIN leaseLog : leaseLog[i].id = l}
FirstEvent(l) == CHOOSE i \in LeaseEvents(l) : \A j \in LeaseEvents(l) : i <= j
LastEvent(l) == CHOOSE i \in LeaseEvents(l) : \A j \in LeaseEvents(l) : j <= i
Lease(l) == leaseLog[FirstEvent(l)]
LastState(l) == IF LastEvent(l) = FirstEvent(l) THEN "ACTIVE" ELSE leaseLog[LastEvent(l)].state

\* Mutant: only the clock ends a lease for good; one that was cleaned is active again.
InspectForgetful(l, now) ==
    IF now >= Lease(l).expires THEN "EXPIRED"
    ELSE IF LastState(l) = "CLEANED" THEN "ACTIVE" ELSE LastState(l)

\* inspect: a later event sets the state of the lease, and a lease that was
\* active is expired once its time is over
InspectAt(l, now) ==
    IF LastState(l) = "ACTIVE" /\ now >= Lease(l).expires THEN "EXPIRED" ELSE LastState(l)

LeaseActive(l, worker, cap, op, exp) ==
    /\ LeaseEvents(l) # {}
    /\ InspectAt(l, clock) = "ACTIVE"
    /\ Lease(l).worker = worker
    /\ cap \in Lease(l).caps /\ op \in Lease(l).ops[cap]
    /\ Lease(l).exp \in {None, exp}

LeaseEvent(l, state) == [id |-> l, kind |-> "state", state |-> state]
KnownLeases == {leaseLog[i].id : i \in DOMAIN leaseLog}

\* The events _set_state appends to move the leases of a set to a state: none
\* for a lease that is in it already, by an event or by the clock
SetState(L, state) ==
    LET moved == {l \in L : InspectAt(l, clock) # state}
        order == CHOOSE s \in [1..Cardinality(moved) -> moved] :
                    \A i, j \in DOMAIN s : i # j => s[i] # s[j]
    IN  [i \in DOMAIN order |-> LeaseEvent(order[i], state)]

\* expire at a time the operator names: the leases over by then that no event
\* marks so
Unmarked(now) ==
    {l \in KnownLeases : /\ InspectAt(l, now) = "EXPIRED"
                         /\ \A i \in LeaseEvents(l) \ {FirstEvent(l)} : leaseLog[i].state # "EXPIRED"}

Grant(l, exp, caps, ttl) ==
    /\ ~down
    /\ l \notin KnownLeases
    /\ caps \subseteq profile.allowed
    /\ LET lease == LeaseRecord(l, profile.worker, exp, caps, clock, ttl)
       IN  LeaseValid(lease, MaxTime) /\ leaseLog' = Append(leaseLog, lease)
    /\ UNCHANGED <<profile, clock, auditLog, resultLog, host, handler, down, faults, plans, history>>

Revoke(l) ==
    /\ ~down
    /\ l \in KnownLeases
    /\ leaseLog' = leaseLog \o SetState({l}, "REVOKED")
    /\ UNCHANGED <<profile, clock, auditLog, resultLog, host, handler, down, faults, plans, history>>

ExpireLeases(now) ==
    /\ ~down
    /\ leaseLog' = leaseLog \o SetState(Unmarked(now), "EXPIRED")
    /\ UNCHANGED <<profile, clock, auditLog, resultLog, host, handler, down, faults, plans, history>>

\* cleanup: expire, then every expired or revoked lease is marked CLEANED
CleanupLeases(now) ==
    /\ ~down
    /\ LET ended == {l \in KnownLeases : InspectAt(l, now) \in {"EXPIRED", "REVOKED"}}
       IN  leaseLog' = leaseLog \o SetState(Unmarked(now), "EXPIRED") \o SetState(ended, "CLEANED")
    /\ UNCHANGED <<profile, clock, auditLog, resultLog, host, handler, down, faults, plans, history>>

Tick ==
    /\ clock < MaxTime
    /\ clock' = clock + 1
    /\ UNCHANGED <<profile, stores, host, handler, down, faults, plans, history>>

-----------------------------------------------------------------------------
\* CapabilityBroker.request
Results(r) == {resultLog[i].body : i \in {j \in DOMAIN resultLog : resultLog[j].req = r}}
Audits(r) == {i \in DOMAIN auditLog : auditLog[i].req = r}

\* CapabilityResultStore.find: two different durable results are an error
FindResult(r) == CHOOSE b \in Results(r) : TRUE

\* Where a handler goes with the result of its request: to the caller, or on
\* with its reconciliation
Finish(h, r, b) ==
    IF handler[h].job.phase = None
    THEN /\ handler' = [handler EXCEPT ![h] = Idle]
         /\ answers' = answers \cup {[req |-> r, body |-> b]}
    ELSE /\ handler' = [handler EXCEPT ![h].pc = "item", ![h].body = b]
         /\ UNCHANGED answers

\* The entry of request: validation, and the result of an earlier call
Enter(h, r) ==
    /\ Cardinality(Results(r)) <= 1
    /\ IF Results(r) # {} THEN Finish(h, r, FindResult(r))
       ELSE /\ handler' = [handler EXCEPT ![h].pc = "recover", ![h].req = r,
                                          ![h].seen = Len(leaseLog), ![h].since = clock]
            /\ UNCHANGED answers

\* A connection of the broker's server: a peer that is not authorised, an
\* invalid frame or an invalid request is closed without an answer
Receive(h, r) ==
    /\ ~down
    /\ handler[h].pc = "idle"
    /\ RequestValid(r, profile.worker)
    /\ Enter(h, r)
    /\ UNCHANGED <<profile, clock, stores, host, down, faults, plans, ran, lost>>

\* Mutant: the audit ledger is not consulted.
RecoverBlind(h) ==
    /\ ~down /\ handler[h].pc = "recover"
    /\ handler' = [handler EXCEPT ![h].pc = "authorise"]
    /\ UNCHANGED <<profile, clock, stores, host, down, faults, plans, history>>

\* The result in the first audit record of an earlier run of this request
Recovered(r) == auditLog[CHOOSE i \in Audits(r) : \A j \in Audits(r) : i <= j].body

\* The audit ledger is scanned for the request
Recover(h) ==
    /\ ~down /\ handler[h].pc = "recover"
    /\ LET r == handler[h].req
       IN  IF Audits(r) = {}
           THEN /\ handler' = [handler EXCEPT ![h].pc = "authorise"]
                /\ UNCHANGED <<resultLog, answers>>
           ELSE /\ resultLog' = Append(resultLog, [req |-> r, body |-> Recovered(r)])
                /\ Finish(h, r, Recovered(r))
    /\ UNCHANGED <<profile, clock, leaseLog, auditLog, host, down, faults, plans, ran, lost>>

\* The policy: what the profile does not allow fails, what needs a lease and
\* has none is skipped
Authorise(h) ==
    /\ ~down /\ handler[h].pc = "authorise"
    /\ LET r == handler[h].req
       IN  handler' =
             IF ~Allows(profile, r.cap, r.op)
             THEN [handler EXCEPT ![h].pc = "audit", ![h].body = Body("FAIL", FALSE, None)]
             ELSE IF RequiresLease(profile, r.cap, r.op)
                     /\ ~LeaseActive(r.lease, profile.worker, r.cap, r.op, r.exp)
             THEN [handler EXCEPT ![h].pc = "audit", ![h].body = Body("SKIPPED", FALSE, None)]
             ELSE [handler EXCEPT ![h].pc = "execute"]
    /\ UNCHANGED <<profile, clock, stores, host, down, faults, plans, history>>

Runs(r) == Cardinality({x \in ran : x.req = r})

Execute(h) ==
    /\ ~down /\ handler[h].pc = "execute"
    /\ \E x \in AdapterExecute(profile, handler[h].req, host) :
          /\ host' = x[2]
          /\ handler' = [handler EXCEPT ![h].pc = "executed", ![h].body = x[1]]
    /\ ran' = ran \cup {[req |-> handler[h].req, seen |-> handler[h].seen,
                         since |-> handler[h].since, n |-> Runs(handler[h].req)]}
    /\ UNCHANGED <<profile, clock, stores, down, faults, plans, lost, answers>>

\* Mutant: only results that changed the host are audited.
AppendAuditOfChanges(h) ==
    /\ ~down /\ handler[h].pc \in {"audit", "executed"}
    /\ auditLog' = IF handler[h].body.changed
                   THEN Append(auditLog, [req |-> handler[h].req, body |-> handler[h].body]) ELSE auditLog
    /\ handler' = [handler EXCEPT ![h].pc = "result"]
    /\ UNCHANGED <<profile, clock, leaseLog, resultLog, host, down, faults, plans, history>>

AppendAudit(h) ==
    /\ ~down /\ handler[h].pc \in {"audit", "executed"}
    /\ auditLog' = Append(auditLog, [req |-> handler[h].req, body |-> handler[h].body])
    /\ handler' = [handler EXCEPT ![h].pc = "result"]
    /\ UNCHANGED <<profile, clock, leaseLog, resultLog, host, down, faults, plans, history>>

AppendResult(h) ==
    /\ ~down /\ handler[h].pc = "result"
    /\ resultLog' = Append(resultLog, [req |-> handler[h].req, body |-> handler[h].body])
    /\ Finish(h, handler[h].req, handler[h].body)
    /\ UNCHANGED <<profile, clock, leaseLog, auditLog, host, down, faults, plans, ran, lost>>

\* The append of the audit record raises (OSError, ValidationError): its line is
\* in the ledger or not, the request or reconciliation ends without an answer,
\* and the server serves the next connection
AuditFails(h, written) ==
    /\ ~down /\ faults < MaxFaults /\ faults' = faults + 1
    /\ handler[h].pc \in {"audit", "executed"}
    /\ auditLog' = IF written
                   THEN Append(auditLog, [req |-> handler[h].req, body |-> handler[h].body])
                   ELSE auditLog
    /\ lost' = IF ~written /\ handler[h].pc = "executed"
               THEN Append(lost, {handler[h].req}) ELSE lost
    /\ handler' = [handler EXCEPT ![h] = Idle]
    /\ UNCHANGED <<profile, clock, leaseLog, resultLog, host, down, plans, ran, answers>>

\* The same for the append of the result, of a run or of its audit record
ResultFails(h, written) ==
    LET r == handler[h].req
        b == IF handler[h].pc = "recover" THEN Recovered(r) ELSE handler[h].body
    IN  /\ ~down /\ faults < MaxFaults /\ faults' = faults + 1
        /\ handler[h].pc = "result" \/ (handler[h].pc = "recover" /\ Audits(r) # {})
        /\ resultLog' = IF written THEN Append(resultLog, [req |-> r, body |-> b]) ELSE resultLog
        /\ handler' = [handler EXCEPT ![h] = Idle]
        /\ UNCHANGED <<profile, clock, leaseLog, auditLog, host, down, plans, history>>

-----------------------------------------------------------------------------
\* CapabilityBroker.reconcile with apply
ItemRequest(h, item, n) ==
    Request(profile.worker, item.cap, item.op, item.fields, item.name, item.value,
            handler[h].job.plan.exp, handler[h].job.lease, <<plans, n, "apply">>)
ItemQuery(h, item, n) ==
    Request(profile.worker, item.cap, item.query, item.queryFields, item.name, item.queryValue,
            handler[h].job.plan.exp, handler[h].job.lease, <<plans, n, "probe">>)

\* A lease is taken for the risky capabilities where none is given and the host
\* allows it.  A denied capability is asked for its status without arguments,
\* which most families refuse: reconcile then raises.
StartReconcile(h, q, lease, ttl) ==
    LET risky == RiskyCapabilities(profile, q)
        items == ReconcileItems(profile, q)
        grants == risky # {} /\ lease = None /\ ttl > 0
        raises == \E i \in DOMAIN items :
                     /\ items[i].cap \notin profile.allowed /\ items[i].op = "status"
                     /\ \/ "status" \notin CAPABILITY_OPERATIONS[items[i].cap]
                        \/ {} \notin ArgumentFields(items[i].cap, "status")
    IN  /\ ~down /\ handler[h].pc = "idle" /\ plans < MaxPlans
        /\ grants => profile.automatic
        /\ plans' = plans + 1
        /\ \E l \in IF grants THEN LeaseIds \ KnownLeases ELSE {lease} :
              /\ leaseLog' = IF grants
                             THEN Append(leaseLog, LeaseRecord(l, profile.worker, q.exp, risky, clock, ttl))
                             ELSE leaseLog
              /\ handler' = IF raises THEN handler ELSE
                            [handler EXCEPT ![h] =
                               [Idle EXCEPT !.pc = "next",
                                            !.job = [items |-> items, todo |-> <<>>, phase |-> "probe",
                                                     plan |-> q, lease |-> l]]]
        /\ UNCHANGED <<profile, clock, auditLog, resultLog, host, down, faults, history>>

\* The next probe, or the next request of the plan, or the end
NextItem(h) ==
    LET job == handler[h].job
        item == job.items[1]
        n == Len(job.items)
    IN  /\ ~down /\ handler[h].pc = "next"
        /\ IF job.phase = "probe" /\ job.items # <<>>
           THEN IF item.query = None
                THEN /\ handler' = [handler EXCEPT ![h].job =
                                      [job EXCEPT !.items = Tail(job.items),
                                                  !.todo = Append(job.todo, ItemRequest(h, item, n))]]
                     /\ UNCHANGED answers
                ELSE Enter(h, ItemQuery(h, item, n))
           ELSE IF job.todo # <<>>
           THEN /\ handler' = [handler EXCEPT ![h].pc = "recover", ![h].req = job.todo[1],
                                              ![h].seen = Len(leaseLog), ![h].since = clock,
                                              ![h].job = [job EXCEPT !.phase = "apply"]]
                /\ UNCHANGED answers
           ELSE /\ handler' = [handler EXCEPT ![h] = Idle]
                /\ UNCHANGED answers
        /\ UNCHANGED <<profile, clock, stores, host, down, faults, plans, ran, lost>>

\* What a reconciliation does with a result
ItemDone(h) ==
    LET job == handler[h].job
        item == job.items[1]
    IN  /\ ~down /\ handler[h].pc = "item"
        /\ handler' =
             [handler EXCEPT ![h].pc = "next", ![h].job =
                IF job.phase = "probe"
                THEN [job EXCEPT !.items = Tail(job.items),
                                 !.todo = IF NeedsWork(item, handler[h].body)
                                          THEN Append(job.todo, ItemRequest(h, item, Len(job.items)))
                                          ELSE job.todo]
                ELSE [job EXCEPT !.todo = Tail(job.todo)]]
        /\ UNCHANGED <<profile, clock, stores, host, down, faults, plans, history>>

-----------------------------------------------------------------------------
\* The process stops: because the host does, or for any other reason
Crash ==
    /\ ~down /\ faults < MaxFaults
    /\ faults' = faults + 1 /\ down' = TRUE
    /\ lost' = lost \o LET H == {h \in Handlers : handler[h].pc = "executed"}
                       IN  IF H = {} THEN <<>> ELSE <<{handler[h].req : h \in H}>>
    /\ handler' = [h \in Handlers |-> Idle]
    /\ UNCHANGED <<profile, clock, stores, host, plans, ran, answers>>

\* A started broker finds its ledgers; a host that was rebooting is up again
Restart ==
    /\ down /\ down' = FALSE
    /\ host' = Write(host, <<"power", "host">>, "on")
    /\ UNCHANGED <<profile, clock, stores, handler, faults, plans, history>>

Next ==
    \/ Tick \/ Crash \/ Restart
    \/ /\ Len(leaseLog) < MaxLeaseEvents
       /\ \/ \E l \in LeaseIds : Revoke(l)
          \/ \E now \in clock..MaxTime : ExpireLeases(now) \/ CleanupLeases(now)
    \/ \E l \in LeaseIds, e \in Experiments, s \in Scopes : Grant(l, e, s, 1)
    \/ \E h \in Handlers, r \in Requests : Receive(h, r)
    \/ \E h \in Handlers, q \in Plans, ttl \in {0, 1} : StartReconcile(h, q, None, ttl)
    \/ \E h \in Handlers :
          \/ Recover(h) \/ Authorise(h) \/ Execute(h) \/ AppendAudit(h) \/ AppendResult(h)
          \/ \E written \in BOOLEAN : AuditFails(h, written) \/ ResultFails(h, written)
          \/ NextItem(h) \/ ItemDone(h)

Spec == Init /\ [][Next]_vars

-----------------------------------------------------------------------------
LostRuns(r) == Cardinality({i \in DOMAIN lost : r \in lost[i]})

\* A privileged operation runs once per request identity, however often the
\* request is sent: again only where the record of the run never reached the
\* audit ledger, because the process stopped between the adapter and the append
\* or because the append raised and the server went on (request, 1702-1760).
RunsOnce == \A x \in ran : Runs(x.req) <= 1 + LostRuns(x.req)

\* The strict promise of the comment at 1709: a crash after the adapter
\* completed and before the result was recorded never repeats the operation.  It
\* is not true of a stop, or a failed append, before the audit record.
NeverRepeated == \A x \in ran : Runs(x.req) <= 1

\* An operation that needs a lease ran only under a lease of this worker, for
\* the operation and its experiment, that no event had ended when the request
\* arrived and whose time was not over then; a lease that ended never lets
\* another request through, whatever revocations, expiries and cleanups follow.
RanUnderLease ==
    \A x \in ran :
        LET l == x.req.lease
        IN  RequiresLease(profile, x.req.cap, x.req.op) =>
                /\ \A i \in LeaseEvents(l) : i <= x.seen => leaseLog[i].kind = "grant"
                /\ LeaseEvents(l) # {}
                /\ Lease(l).kind = "grant" /\ x.since < Lease(l).expires
                /\ Lease(l).worker = profile.worker
                /\ x.req.cap \in Lease(l).caps /\ x.req.op \in Lease(l).ops[x.req.cap]
                /\ Lease(l).exp \in {None, x.req.exp}

\* A caller never gets two answers for one request, and what it was told is
\* what the audit says the adapter did: retries, restarts and recovered
\* results included.
OneAnswer ==
    \A a \in answers :
        /\ \A b \in answers : a.req = b.req => a.body = b.body
        /\ \E i \in DOMAIN auditLog : auditLog[i].req = a.req /\ auditLog[i].body = a.body
=============================================================================
