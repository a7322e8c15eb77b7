------------------------------- MODULE Fleet --------------------------------
(***************************************************************************)
(* A client with remote workers: the observations it keeps of them, the    *)
(* probes that renew these, the dispatches scheduled from them, and what   *)
(* each worker does with a dispatch when it arrives.                       *)
(*                                                                         *)
(* The worker changes while the client remembers: a probe's answer may be  *)
(* applied late, the process may restart from its ledger, two threads may  *)
(* write a worker's slot.  Workers are those of Resolution, reached over   *)
(* TLS; the client has no in-process worker.  Time is counted in ticks of  *)
(* one description lease.                                                  *)
(***************************************************************************)
EXTENDS Resolution

CONSTANTS
    Workers, Limit,    \* the registered workers and their concurrency limit
    Facts,             \* what a worker can be: [tokens, env, host, gpu, profile]
    Policies,          \* the policies an operator declares
    Requests,          \* [via, query, placement, replicas] or [via, target, ...]
    Probed,            \* what a probe can have measured: [kind, probe, precisions, status]
    Vouched, Captured, \* the capability names an ingest may list, and their ages
    Threads,
    MaxClock, MaxOperations

P == INSTANCE Placement
T == INSTANCE TargetAdmission WITH Skew <- 0

\* What a description holds of the memory and of the accelerator.
FactsValid(f) ==
    /\ f.host \in Nat \cup {None}
    /\ f.gpu # None => f.gpu = [backend |-> f.gpu.backend, free |-> f.gpu.free,
                                probe |-> f.gpu.probe, precisions |-> f.gpu.precisions]
    /\ f.gpu # None => f.gpu.free \in Nat \cup {None}

\* A dispatch that the scheduler places, or one to a registered worker.
RequestValid(r) ==
    /\ r.via \in {"remote", "registered", "target"}
    /\ r.via = "target" => r.target.worker \in Workers
    /\ r.via # "target" => r.replicas \in Nat /\ IsFiniteSet(r.query.prefer)
    /\ r.placement # None => P!PlacementRequestValid(r.placement)

ASSUME ClientAssumption ==
    /\ MaxAge \in Nat /\ Limit \in Nat
    /\ Workers \subseteq Int /\ IsFiniteSet(Workers) /\ IsFiniteSet(Threads)
    /\ \A f \in Facts : FactsValid(f)
    /\ \A r \in Requests : RequestValid(r)
    /\ \A m \in Probed : m.kind \in {"runtime", "offload"}

VARIABLES
    clock, spent,
    up, facts, heldBack,       \* the worker: running, as it is, not accepting work
    description, liveness,     \* remote_descriptions, remote_liveness
    slot,                      \* remote_workers' WorkerSlot: [active, seen, runtime, offload]
    observed,                  \* runtime_observations and runtime_capability_observations
    policy,                    \* worker_policies
    stored,                    \* the latest worker.description, .state and .liveness records
    management, revoked,       \* durable: management state, revoked membership
    ledger, trusted, token,    \* the capability ledger, its admission cache and what it was read at
    call,                      \* the client's threads
    handling,                  \* the dispatches the workers' endpoints are handling
    was, raced, ran, answer    \* history: see the end of the module

worker == <<up, facts, heldBack, handling>>
memory == <<description, liveness, slot, observed, policy, stored>>
service == <<ledger, trusted, token>>
durable == <<management, revoked>>
vars == <<clock, spent, worker, memory, durable, service, call, was, raced, ran, answer>>

Spend == spent < MaxOperations /\ spent' = spent + 1

(***************************************************************************)
(* Observations.                                                           *)
(***************************************************************************)
\* build_liveness_observation and build_worker_description.
Liveness(state) == [state |-> state, at |-> clock]
Description(w) == [facts |-> facts[w], at |-> clock]

DescriptionIsFresh(d) == clock - d.at <= MaxAge

\* The snapshot of a description, as evaluate_placement reads it.
Snapshot(d) == [host |-> d.facts.host, gpu |-> d.facts.gpu, at |-> d.at]

\* Per worker: the network controller's, dropped when the profile changes, and
\* the client's own copies, which are kept.
NoObservations == [runtime |-> None, offload |-> None, kept_runtime |-> None, kept_offload |-> None]

\* An observation of another runtime profile is dropped.
StillValid(o, d) == IF o = None THEN None ELSE IF o.profile = d.facts.profile THEN o ELSE None

\* _set_remote_state, under the lock.  A description is always news.
SetRemoteState(w, d, state) ==
    LET runtime == StillValid(observed[w].runtime, d)
        offload == StillValid(observed[w].offload, d)
        fresh == Liveness(state)
    IN  /\ liveness' = [liveness EXCEPT ![w] = fresh]
        /\ IF d # None
           THEN /\ description' = [description EXCEPT ![w] = d]
                /\ observed' = [observed EXCEPT ![w].runtime = runtime, ![w].offload = offload]
                /\ slot' = [slot EXCEPT ![w] = [active |-> @.active, seen |-> d,
                                                runtime |-> runtime, offload |-> offload]]
                /\ stored' = IF description[w] # d THEN [stored EXCEPT ![w].state = fresh]
                             ELSE [stored EXCEPT ![w].liveness = fresh]
           ELSE /\ stored' = [stored EXCEPT ![w].liveness = fresh]
                /\ UNCHANGED <<description, observed, slot>>
        /\ UNCHANGED policy

(***************************************************************************)
(* Threads.                                                                *)
(***************************************************************************)
Idle == [op |-> "idle"]

Become(t, c) == call' = [call EXCEPT ![t] = c]

Reply(kind, d) == [kind |-> kind, description |-> d]

\* refresh_fleet probes the workers concurrently; a dispatch with a placement
\* request does so before it schedules.
Probing(request) ==
    [op |-> "probing", request |-> request, probes |-> [w \in Workers |-> Reply("todo", None)]]

StartRefresh(t) ==
    /\ call[t] = Idle /\ Spend
    /\ Become(t, Probing(None))
    /\ UNCHANGED <<clock, worker, memory, durable, service, was, raced, ran, answer>>

StartDispatch(t, r) ==
    /\ call[t] = Idle /\ Spend
    /\ Become(t, IF r.via = "target" THEN [op |-> "admit", request |-> r]
                 ELSE IF r.placement # None THEN Probing(r)
                 ELSE [op |-> "schedule", request |-> r])
    /\ UNCHANGED <<clock, worker, memory, durable, service, was, raced, ran, answer>>

\* The transport refuses a revoked peer whatever the peer does.
Reachable(w) == up[w] /\ w \notin revoked

\* describe_via: the worker answers, and its description is recorded; or the
\* exchange fails, or nothing comes back in time.
Ask(t, w) ==
    /\ call[t].op = "probing" /\ call[t].probes[w].kind = "todo"
    /\ \E reply \in {Reply("timeout", None), Reply("failed", None)}
                    \cup (IF Reachable(w) THEN {Reply("described", Description(w))} ELSE {}) :
          /\ call' = [call EXCEPT ![t].probes[w] = reply]
          /\ stored' = IF reply.kind = "described" /\ reply.description # description[w]
                       THEN [stored EXCEPT ![w].description = reply.description] ELSE stored
    /\ UNCHANGED <<clock, spent, worker, description, liveness, slot, observed, policy,
                   durable, service, was, raced, ran, answer>>

\* _probe_remote: a timeout keeps the last-known state.
Probe(t, w) ==
    /\ call[t].op = "probing" /\ call[t].probes[w].kind \notin {"todo", "done"}
    /\ call' = [call EXCEPT ![t].probes[w] = Reply("done", None)]
    /\ LET reply == call[t].probes[w] IN
       CASE reply.kind = "timeout" -> UNCHANGED memory
         [] reply.kind = "failed" -> SetRemoteState(w, None, "UNAVAILABLE")
         [] reply.kind = "described" ->
              IF DescriptionIsFresh(reply.description)
              THEN SetRemoteState(w, reply.description, "AVAILABLE")
              ELSE SetRemoteState(w, None, "UNKNOWN")
    /\ UNCHANGED <<clock, spent, worker, durable, service, was, raced, ran, answer>>

\* The pool is left when every probe has ended, in time for the report or not.
EndProbing(t) ==
    /\ call[t].op = "probing" /\ \A w \in Workers : call[t].probes[w].kind = "done"
    /\ Become(t, IF call[t].request = None THEN Idle
                 ELSE [op |-> "schedule", request |-> call[t].request])
    /\ UNCHANGED <<clock, spent, worker, memory, durable, service, was, raced, ran, answer>>

(***************************************************************************)
(* Scheduling.                                                             *)
(***************************************************************************)
LivenessClass(state) ==
    CASE state = "AVAILABLE" -> "AVAILABLE" [] state = "UNAVAILABLE" -> "UNAVAILABLE"
      [] OTHER -> "DISCONNECTED"

\* _schedule_slots_remote.  Mutant: the slot's own age, zero when it was written.
ScheduleSlotOfAgeZero(w) ==
    [capabilities |-> IF slot[w].seen = None THEN {} ELSE slot[w].seen.facts.tokens,
     env |-> IF slot[w].seen = None THEN DefaultEnv ELSE slot[w].seen.facts.env,
     policy |-> policy[w], liveness |-> LivenessClass(liveness[w].state),
     available |-> liveness[w].state = "AVAILABLE",
     age |-> IF description[w] = None THEN None ELSE 0,
     provenance |-> "worker-observed", active |-> slot[w].active, limit |-> Limit,
     management_state |-> None]

ScheduleSlot(w) ==
    [capabilities |-> IF slot[w].seen = None THEN {} ELSE slot[w].seen.facts.tokens,
     env |-> IF slot[w].seen = None THEN DefaultEnv ELSE slot[w].seen.facts.env,
     policy |-> policy[w], liveness |-> LivenessClass(liveness[w].state),
     available |-> liveness[w].state = "AVAILABLE",
     age |-> IF description[w] = None THEN None ELSE clock - description[w].at,
     provenance |-> "worker-observed", active |-> slot[w].active, limit |-> Limit,
     management_state |-> None]

Considered(r) == IF r.via = "registered" THEN Workers \ revoked ELSE Workers

Chosen(r) ==
    LET Admits(w) ==
          r.placement = None \/
          (slot[w].seen # None /\
           P!EvaluatePlacement(r.placement, Snapshot(slot[w].seen), slot[w].seen.facts.tokens,
                               slot[w].runtime, slot[w].offload, clock).disposition = "PASS")
    IN  Schedule(r.query, [w \in Considered(r) |-> ScheduleSlot(w)], r.replicas,
                 {w \in Considered(r) : Admits(w)})

\* nth tells the dispatches of a thread apart.
Dispatching(r, workers) ==
    [op |-> "dispatching", request |-> r, workers |-> workers, next |-> 1, nth |-> spent,
     reply |-> None, executed |-> FALSE, gate |-> [w \in Workers |-> management[w]]]

\* _consumer_result.  A response without a payload is read as an execution.
Answer(r, disposition, executed) == [via |-> r.via, disposition |-> disposition, executed |-> executed]

\* dispatch_remote reserves what it chose before it lets the lock go;
\* _execute_registered reserves nothing.
Choose(t) ==
    /\ call[t].op = "schedule"
    /\ LET r == call[t].request
           workers == Chosen(r)
       IN  IF workers = << >>
           THEN /\ Become(t, Idle)
                /\ answer' = Answer(r, IF r.via = "remote" THEN "EXECUTED" ELSE "UNKNOWN", FALSE)
                /\ UNCHANGED slot
           ELSE /\ Become(t, Dispatching(r, workers))
                /\ slot' = IF r.via # "remote" THEN slot
                           ELSE [w \in Workers |-> IF w \in ToSet(workers)
                                                   THEN [slot[w] EXCEPT !.active = @ + 1] ELSE slot[w]]
                /\ UNCHANGED answer
    /\ UNCHANGED <<clock, spent, worker, description, liveness, observed, policy, stored,
                   durable, service, was, raced, ran>>

(***************************************************************************)
(* Exact targets.  The capability ledger is read into the cache when the   *)
(* file is not the one the cache was read from.                            *)
(***************************************************************************)
NewestTrusted(entries, w) ==
    LET ok == {i \in DOMAIN entries : entries[i].worker = w /\ T!AdmissionTrusted(entries[i])}
    IN  IF ok = {} THEN None ELSE entries[Max(ok)]

\* _load_latest_capability_cache and _admission_capability_observation.
LoadedCache(entries) ==
    IF token = Len(entries) THEN trusted ELSE [w \in Workers |-> NewestTrusted(entries, w)]

\* worker_state, without the lease.
WorkerState(w) ==
    [availability |-> liveness[w].state, present |-> description[w] # None, at |-> liveness[w].at,
     profile |-> IF description[w] = None THEN None ELSE description[w].facts.profile]

\* _worker_backend_status: membership takes precedence over contact.
BackendStatus(w) ==
    LET state == WorkerState(w) IN
    [membership |-> IF w \in revoked THEN "REVOKED" ELSE "ENROLLED",
     availability |-> IF w \in revoked THEN "UNAVAILABLE" ELSE state.availability,
     present |-> state.present, at |-> state.at, profile |-> state.profile]

\* execution.target.dispatch: the exact worker, from what is known of it.
Admit(t) ==
    /\ call[t].op = "admit"
    /\ LET r == call[t].request
           w == r.target.worker
           admission == T!EvaluateTargetAdmission(r.target, BackendStatus(w), LoadedCache(ledger)[w], TRUE, TRUE, clock)
       IN  IF admission.disposition = "PASS"
           THEN Become(t, Dispatching(r, <<w>>)) /\ UNCHANGED answer
           ELSE Become(t, Idle) /\ answer' = Answer(r, "UNKNOWN", FALSE)
    /\ trusted' = LoadedCache(ledger) /\ token' = Len(ledger)
    /\ UNCHANGED <<clock, spent, worker, memory, durable, ledger, was, raced, ran>>

(***************************************************************************)
(* The dispatch at the worker.                                             *)
(***************************************************************************)
\* The observations a dispatch carries.
Carried(r, w) ==
    IF r.via = "remote"
    THEN [runtime |-> observed[w].runtime, offload |-> observed[w].offload]
    ELSE [runtime |-> observed[w].kept_runtime, offload |-> observed[w].kept_offload]

(***************************************************************************)
(* The worker's handler of a dispatch: at "arrived" it has the request, at *)
(* "accepted" it is past its own state and the observations, at "admitted" *)
(* past the placement, at "recorded" the dispatch is in its ledger.  Each  *)
(* of these is a moment of its own: the worker may change in between, and  *)
(* other handlers may run.                                                 *)
(***************************************************************************)
Arrival(t) ==
    LET r == call[t].request
        w == call[t].workers[call[t].next]
    IN  [by |-> t, nth |-> call[t].nth, request |-> r, worker |-> w, gate |-> call[t].gate[w],
         runtime |-> Carried(r, w).runtime, offload |-> Carried(r, w).offload,
         stage |-> "arrived", mode |-> "none", upon |-> None]

Proofs(hd) == {hd.runtime, hd.offload} \ {None}

\* The client still waits for this handler.
Waits(hd) ==
    LET c == call[hd.by] IN
    /\ c.op = "dispatching" /\ c.nth = hd.nth
    /\ c.next <= Len(c.workers) /\ c.workers[c.next] = hd.worker /\ c.reply = "sent"

\* The exchange ends, with a result, an acknowledgement or a closed connection.
Leave(hd, reply) ==
    /\ handling' = handling \ {hd}
    /\ call' = IF Waits(hd)
               THEN [call EXCEPT ![hd.by].reply = reply, ![hd.by].executed = (reply = "executed")]
               ELSE call

Advance(hd, next) ==
    /\ handling' = (handling \ {hd}) \cup {next}
    /\ UNCHANGED call

\* One dispatch.request leaves the client, and may get to the worker.
Send(t) ==
    LET c == call[t] IN
    /\ c.op = "dispatching" /\ c.next <= Len(c.workers) /\ c.reply = None
    /\ call' = [call EXCEPT ![t].reply = "sent"]
    /\ \E arrives \in IF Reachable(c.workers[c.next]) THEN BOOLEAN ELSE {FALSE} :
          handling' = IF arrives THEN handling \cup {Arrival(t)} ELSE handling
    /\ UNCHANGED <<clock, spent, up, facts, heldBack, memory, durable, service, was, raced, ran, answer>>

\* No answer in time, or the connection is gone; the worker's handler goes on.
GiveUp(t) ==
    LET c == call[t] IN
    /\ c.op = "dispatching" /\ c.next <= Len(c.workers) /\ c.reply = "sent"
    /\ call' = [call EXCEPT ![t].reply = "failed"]
    /\ UNCHANGED <<clock, spent, worker, memory, durable, service, was, raced, ran, answer>>

\* An observation without a placement, or of another runtime profile than the
\* worker's, raises.  Mutant: the profile is not compared.
RaisesUnplaced(hd) == Proofs(hd) # {} /\ hd.request.placement = None

Raises(hd) ==
    Proofs(hd) # {} /\ (hd.request.placement = None
                       \/ \E o \in Proofs(hd) : o.profile # facts[hd.worker].profile)

Accept(hd) ==
    /\ hd.stage = "arrived"
    /\ IF heldBack[hd.worker] THEN Leave(hd, "refused")
       ELSE IF Raises(hd) THEN Leave(hd, "failed")
       ELSE Advance(hd, [hd EXCEPT !.stage = "accepted"])
    /\ UNCHANGED <<clock, spent, up, facts, heldBack, memory, durable, service, was, raced, ran, answer>>

\* The worker's own decision, on its resources of this moment.
WorkerAdmission(hd) ==
    P!EvaluatePlacement(hd.request.placement, Snapshot(Description(hd.worker)),
                        facts[hd.worker].tokens, hd.runtime, hd.offload, clock)

AdmitPlacement(hd) ==
    /\ hd.stage = "accepted"
    /\ IF hd.request.placement = None THEN Advance(hd, [hd EXCEPT !.stage = "admitted"])
       ELSE IF WorkerAdmission(hd).disposition # "PASS" THEN Leave(hd, "refused")
       ELSE Advance(hd, [hd EXCEPT !.stage = "admitted", !.mode = WorkerAdmission(hd).mode,
                                   !.upon = Description(hd.worker)])
    /\ UNCHANGED <<clock, spent, up, facts, heldBack, memory, durable, service, was, raced, ran, answer>>

\* The durable dispatch record, which may raise.
AppendDispatch(hd) ==
    /\ hd.stage = "admitted"
    /\ Advance(hd, [hd EXCEPT !.stage = "recorded"]) \/ Leave(hd, "failed")
    /\ UNCHANGED <<clock, spent, up, facts, heldBack, memory, durable, service, was, raced, ran, answer>>

Execution(hd) ==
    [via |-> hd.request.via, worker |-> hd.worker, placement |-> hd.request.placement,
     mode |-> hd.mode, upon |-> hd.upon, runtime |-> hd.runtime, offload |-> hd.offload,
     facts |-> facts[hd.worker], management |-> {hd.gate, management[hd.worker]}]

Execute(hd) ==
    /\ hd.stage = "recorded"
    /\ ran' = Execution(hd)
    /\ Leave(hd, "executed")
    /\ UNCHANGED <<clock, spent, up, facts, heldBack, memory, durable, service, was, raced, answer>>

\* An exchange that failed, for whatever reason, makes the worker UNAVAILABLE;
\* a target's does not, and the answer to it is TARGET_BECAME_UNAVAILABLE.
Receive(t) ==
    LET c == call[t]
        r == c.request
        w == c.workers[c.next]
    IN  /\ c.op = "dispatching" /\ c.reply \notin {None, "sent"}
        /\ call' = [call EXCEPT ![t].next = @ + 1, ![t].reply = None, ![t].executed = FALSE]
        /\ IF c.reply = "failed" /\ r.via # "target"
           THEN SetRemoteState(w, None, "UNAVAILABLE") ELSE UNCHANGED memory
        /\ answer' = Answer(r, IF \/ c.reply = "executed"
                                  \/ c.reply = "failed" /\ r.via = "remote"
                               THEN "EXECUTED" ELSE "UNKNOWN", c.executed)
        /\ UNCHANGED <<clock, spent, worker, durable, service, was, raced, ran>>

\* The finally of dispatch_remote.  Mutant: given back only when the worker answered.
ReleaseAnswered(t) ==
    LET c == call[t] IN
    /\ c.op = "dispatching" /\ c.next > Len(c.workers)
    /\ Become(t, Idle)
    /\ slot' = IF c.request.via # "remote" THEN slot
               ELSE [w \in Workers |-> IF w \in ToSet(c.workers) /\ liveness[w].state = "AVAILABLE"
                                       THEN [slot[w] EXCEPT !.active = Max({0, @ - 1})] ELSE slot[w]]
    /\ UNCHANGED <<clock, spent, worker, description, liveness, observed, policy, stored,
                   durable, service, was, raced, ran, answer>>

Release(t) ==
    LET c == call[t] IN
    /\ c.op = "dispatching" /\ c.next > Len(c.workers)
    /\ Become(t, Idle)
    /\ slot' = IF c.request.via # "remote" THEN slot
               ELSE [w \in Workers |-> IF w \in ToSet(c.workers)
                                       THEN [slot[w] EXCEPT !.active = Max({0, @ - 1})] ELSE slot[w]]
    /\ UNCHANGED <<clock, spent, worker, description, liveness, observed, policy, stored,
                   durable, service, was, raced, ran, answer>>

(***************************************************************************)
(* Runtime observations: set_runtime_observation and                       *)
(* set_runtime_capability_observation read a slot and write it back.       *)
(***************************************************************************)
\* build_runtime_observation and build_runtime_capability_observation.
RuntimeObservation(w, measured) ==
    [profile |-> description[w].facts.profile, at |-> clock] @@ measured

Observe(t, w, kind, measured) ==
    /\ call[t] = Idle /\ Spend
    /\ description[w] # None
    /\ LET o == RuntimeObservation(w, measured) IN
       /\ observed' = [observed EXCEPT ![w][kind] = o, ![w]["kept_" \o kind] = o]
       /\ Become(t, [op |-> "observing", worker |-> w,
                     write |-> [slot[w] EXCEPT ![kind] = o], read |-> slot[w]])
    /\ UNCHANGED <<clock, worker, description, liveness, slot, policy, stored,
                   durable, service, was, raced, ran, answer>>

Observed(t) ==
    /\ call[t].op = "observing"
    /\ LET w == call[t].worker IN
       /\ slot' = [slot EXCEPT ![w] = call[t].write]
       /\ raced' = IF slot[w] = call[t].read THEN raced ELSE raced \cup {w}
    /\ Become(t, Idle)
    /\ UNCHANGED <<clock, spent, worker, description, liveness, observed, policy, stored,
                   durable, service, was, ran, answer>>

(***************************************************************************)
(* Capability observations: appended, then cached.                         *)
(***************************************************************************)
\* A consumer's statement is consumer-declared, whatever it asks for.
\* Mutant: the class is the one asked for.
ObservationClassAsked(role, asked) == asked

ObservationClass(role, asked) == IF role = "admin" THEN asked ELSE "consumer-declared"

CapabilityObservation(w, role, asked, names, at) ==
    [worker |-> w, class |-> ObservationClass(role, asked), availability |-> "AVAILABLE",
     names |-> names, tools |-> {}, at |-> at, by |-> role]

Ingest(t, w, role, asked, names, at) ==
    /\ call[t] = Idle /\ Spend
    /\ w \notin revoked /\ asked # "worker-observed"
    /\ LET o == CapabilityObservation(w, role, asked, names, at)
       IN  ledger' = Append(ledger, o) /\ Become(t, [op |-> "ingested", observation |-> o])
    /\ UNCHANGED <<clock, worker, memory, durable, trusted, token, was, raced, ran, answer>>

Ingested(t) ==
    /\ call[t].op = "ingested"
    /\ LET o == call[t].observation IN
       trusted' = IF T!AdmissionTrusted(o) THEN [LoadedCache(ledger) EXCEPT ![o.worker] = o]
                  ELSE LoadedCache(ledger)
    /\ token' = Len(ledger)
    /\ Become(t, Idle)
    /\ UNCHANGED <<clock, spent, worker, memory, durable, ledger, was, raced, ran, answer>>

(***************************************************************************)
(* Operators, workers, time and restarts.                                  *)
(***************************************************************************)
SetWorkerPolicy(w, p) ==
    /\ PolicyValid(p) /\ p # policy[w] /\ Spend
    /\ policy' = [policy EXCEPT ![w] = p]
    /\ UNCHANGED <<clock, worker, description, liveness, slot, observed, stored,
                   durable, service, call, was, raced, ran, answer>>

\* quarantine_worker and drain_worker: the worker first; then the store,
\* unless the worker's answer was lost.
Quarantine(w) ==
    /\ Reachable(w) /\ Spend
    /\ heldBack' = [heldBack EXCEPT ![w] = TRUE]
    /\ \E lost \in BOOLEAN :
          management' = IF lost THEN management ELSE [management EXCEPT ![w] = "QUARANTINED"]
    /\ UNCHANGED <<clock, up, facts, handling, memory, revoked, service, call, was, raced, ran, answer>>

\* resume_worker: the store first.
Resume(w) ==
    /\ management[w] # "READY" /\ Spend
    /\ management' = [management EXCEPT ![w] = "READY"]
    /\ \E told \in IF Reachable(w) THEN BOOLEAN ELSE {FALSE} :
          heldBack' = IF told THEN [heldBack EXCEPT ![w] = FALSE] ELSE heldBack
    /\ UNCHANGED <<clock, up, facts, handling, memory, revoked, service, call, was, raced, ran, answer>>

\* _revoke_worker: membership and transport trust together.
Revoke(w) ==
    /\ w \notin revoked /\ Spend
    /\ revoked' = revoked \cup {w}
    /\ UNCHANGED <<clock, worker, memory, management, service, call, was, raced, ran, answer>>

\* A worker's resources change while it runs; its runtime does not.
Change(w, f) ==
    /\ up[w] /\ f # facts[w] /\ f.profile = facts[w].profile /\ Spend
    /\ facts' = [facts EXCEPT ![w] = f]
    /\ was' = [was EXCEPT ![w] = @ \cup {[facts |-> f, at |-> clock]}]
    /\ UNCHANGED <<clock, up, heldBack, handling, memory, durable, service, call, raced, ran, answer>>

\* What the process was handling ends with it.
Stop(w) ==
    /\ up[w] /\ Spend
    /\ up' = [up EXCEPT ![w] = FALSE]
    /\ handling' = {hd \in handling : hd.worker # w}
    /\ UNCHANGED <<clock, facts, heldBack, memory, durable, service, call, was, raced, ran, answer>>

\* LocalWorker starts READY, whatever it was told before, on the machine and
\* the interpreter it finds.
Start(w, f) ==
    /\ ~up[w]
    /\ up' = [up EXCEPT ![w] = TRUE]
    /\ heldBack' = [heldBack EXCEPT ![w] = FALSE]
    /\ facts' = [facts EXCEPT ![w] = f]
    /\ was' = [was EXCEPT ![w] = @ \cup {[facts |-> f, at |-> clock]}]
    /\ UNCHANGED <<clock, spent, handling, memory, durable, service, call, raced, ran, answer>>

Tick ==
    /\ clock < MaxClock
    /\ clock' = clock + 1
    /\ was' = [w \in Workers |-> {p \in was[w] : p.at >= clock + 1 - MaxAge}
                                \cup {[facts |-> facts[w], at |-> clock + 1]}]
    /\ UNCHANGED <<spent, worker, memory, durable, service, call, raced, ran, answer>>

\* restore_last_known: the liveness inside the latest worker.state wins over
\* any worker.liveness that followed it.
RestoredLiveness(w) ==
    IF stored[w].state # None THEN stored[w].state
    ELSE IF stored[w].liveness # None THEN stored[w].liveness ELSE Liveness("UNKNOWN")

Restart ==
    /\ Spend
    /\ call' = [t \in Threads |-> Idle]
    /\ description' = [w \in Workers |-> stored[w].description]
    /\ liveness' = [w \in Workers |-> RestoredLiveness(w)]
    /\ slot' = [w \in Workers |-> [active |-> 0, seen |-> stored[w].description,
                                   runtime |-> None, offload |-> None]]
    /\ observed' = [w \in Workers |-> NoObservations]
    /\ policy' = [w \in Workers |-> DefaultPolicy]
    /\ trusted' = [w \in Workers |-> None] /\ token' = None
    /\ raced' = {}
    /\ UNCHANGED <<clock, worker, stored, durable, ledger, was, ran, answer>>

\* Some of the workers have been probed once.
Init ==
    /\ clock = 0 /\ spent = 0
    /\ up = [w \in Workers |-> TRUE] /\ heldBack = [w \in Workers |-> FALSE]
    /\ facts \in [Workers -> Facts]
    /\ \E known \in SUBSET Workers :
          LET seen == [w \in Workers |-> IF w \in known THEN Description(w) ELSE None] IN
          /\ description = seen
          /\ liveness = [w \in Workers |-> Liveness(IF w \in known THEN "AVAILABLE" ELSE "UNKNOWN")]
          /\ slot = [w \in Workers |-> [active |-> 0, seen |-> seen[w], runtime |-> None, offload |-> None]]
          /\ stored = [w \in Workers |->
                         [description |-> seen[w], liveness |-> None,
                          state |-> IF w \in known THEN Liveness("AVAILABLE") ELSE None]]
    /\ observed = [w \in Workers |-> NoObservations]
    /\ policy = [w \in Workers |-> DefaultPolicy]
    /\ management = [w \in Workers |-> "READY"] /\ revoked = {}
    /\ ledger = << >> /\ trusted = [w \in Workers |-> None] /\ token = None
    /\ call = [t \in Threads |-> Idle] /\ handling = {}
    /\ was = [w \in Workers |-> {[facts |-> facts[w], at |-> 0]}]
    /\ raced = {} /\ ran = None /\ answer = None

ThreadStep(t) ==
    \/ \E w \in Workers : Ask(t, w) \/ Probe(t, w)
    \/ EndProbing(t) \/ Choose(t) \/ Admit(t) \/ Send(t) \/ GiveUp(t) \/ Receive(t) \/ Release(t)
    \/ Observed(t) \/ Ingested(t)

HandlerStep ==
    \E hd \in handling : Accept(hd) \/ AdmitPlacement(hd) \/ AppendDispatch(hd) \/ Execute(hd)

NewCall(t) ==
    \/ StartRefresh(t)
    \/ \E r \in Requests : StartDispatch(t, r)
    \/ \E w \in Workers, measured \in Probed : Observe(t, w, measured.kind, measured)
    \/ \E w \in Workers, role \in {"admin", "consumer"}, asked \in {"operator-asserted", "worker-observed"},
          names \in Vouched, at \in Captured : Ingest(t, w, role, asked, names, clock - at)

World ==
    \E w \in Workers :
        \/ \E p \in Policies : SetWorkerPolicy(w, p)
        \/ \E f \in Facts : Change(w, f) \/ Start(w, f)
        \/ Quarantine(w) \/ Resume(w) \/ Revoke(w) \/ Stop(w)

Next == (\E t \in Threads : ThreadStep(t) \/ NewCall(t)) \/ HandlerStep \/ World \/ Tick \/ Restart

Spec == Init /\ [][Next]_vars

(***************************************************************************)
(* Properties.  History: was[w] is what the worker has been during the     *)
(* last MaxAge ticks; raced the workers whose slot an observation          *)
(* overwrote with what it had been before another thread wrote it; ran the *)
(* last execution at a worker; answer the last answer to a dispatch.       *)
(***************************************************************************)
WasTrue(r, w) ==
    /\ r.query.intent # "normal" =>
          {"experimental", IF r.query.intent = "mutating" THEN "allow_toolchain_install"
                           ELSE "allow_root_mutation"} \subseteq policy[w]
    /\ \E p \in was[w] :
          /\ r.query.all \subseteq p.facts.tokens \cup EnvTokens(p.facts.env) \cup PolicyTokens(policy[w])
          /\ r.placement # None =>
                /\ clock - p.at <= r.placement.max_age
                /\ \E mode \in {"cpu", "full-accelerator", "sequential-cpu-offload"} :
                      P!Fits(r.placement, Snapshot(p), slot[w].runtime, mode)

\* A worker is scheduled on facts it really had within the lease: although
\* probes are applied late, workers change, and a restart replays the ledger,
\* it then had every required capability and, for a placement, resources that
\* fit; and what its operator allows it today covers the intent.
\* (_schedule_slots_remote, _description_age_seconds, schedule.)
SelectedWasTrue ==
    [][\A t \in Threads :
          call[t].op = "schedule" /\ call'[t].op = "dispatching" =>
             \A w \in ToSet(call'[t].workers) \ raced : WasTrue(call[t].request, w)]_vars

\* dispatch_remote gives back every slot it took, on every path, and never
\* takes more than the limit: a slot counts the dispatches that hold it, as
\* long as no observation was written over it (controller.py:559).
SlotsBalanced ==
    \A w \in Workers \ raced :
        LET holders == {t \in Threads : /\ call[t].op = "dispatching"
                                        /\ call[t].request.via = "remote"
                                        /\ w \in ToSet(call[t].workers)}
        IN  slot[w].active = Cardinality(holders) /\ slot[w].active <= Limit

\* What runs at a worker was admitted there, whatever snapshot it had been
\* scheduled from: by the process that runs it, on resources that process had
\* after the dispatch arrived, in a mode they allowed, and with proofs of the
\* runtime it runs in, although observations are kept over restarts with
\* another runtime.  Between the admission and the start the resources may
\* change: "admission has an explicit time-of-check/time-of-use limitation"
\* (docs/RESOURCE_PLACEMENT.md:76).
RunsAsAdmitted ==
    ran # None =>
        /\ ran.placement # None =>
              /\ P!Fits(ran.placement, Snapshot(ran.upon), ran.runtime, ran.mode)
              /\ ran.upon.facts.profile = ran.facts.profile
        /\ \A o \in {ran.runtime, ran.offload} \ {None} : o.profile = ran.facts.profile

\* An exact target is dispatched to on an administrator's word that is still
\* fresh: no consumer's statement, however recent and whatever class it asks
\* for, and no race between two ingests, admits a request by itself.  (Nothing
\* in the service records a worker-observed observation.)
TargetWasVouched ==
    [][\A t \in Threads :
          call[t].op = "admit" /\ call'[t].op = "dispatching" =>
             LET target == call[t].request.target IN
             /\ target.worker \notin revoked
             /\ \E i \in DOMAIN ledger :
                   /\ ledger[i].worker = target.worker
                   /\ ledger[i].by = "admin"
                   /\ target.required \subseteq ledger[i].names
                   /\ clock - ledger[i].at <= target.capability_age]_vars

\* docs/FLEET_MANAGEMENT.md:173: the scheduler ignores any worker whose
\* management state is not READY or BUSY.  Work that ran had a worker which was
\* one of the two when it was scheduled or when it ran.
RanWhereAllowed == ran # None => ran.management \cap {"READY", "BUSY"} # {}

\* docs/CAPABILITY_RESOLUTION.md:6: when no worker qualifies, the result says
\* so; an answer of EXECUTED is about an execution.
AnswerIsHonest == answer # None => (answer.disposition = "EXECUTED" => answer.executed)
=============================================================================
