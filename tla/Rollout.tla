------------------------------ MODULE Rollout ------------------------------
(***************************************************************************)
(* fleet.rollout: workers are reconciled one after the other, canaries     *)
(* first, and a snapshot of the rollout is appended to the management      *)
(* ledger after each.  A request that finds an unfinished rollout takes it *)
(* up from the latest snapshot.                                            *)
(*                                                                         *)
(* Each request runs in a thread of the controller service; a second one   *)
(* may find, and take up, the rollout the first is still executing.  What  *)
(* a reconcile returns is one of the Outcomes of FleetManager.reconcile.   *)
(***************************************************************************)
EXTENDS Integers, Sequences, FiniteSets, SequencesExt

CONSTANTS None,        \* no record, a field that was not returned
          Threads,     \* requests the service handles at a time
          Fleet,       \* the workers of the backend, in its order
          MaxPlans,    \* bound: rollouts planned
          MaxReconciles, \* bound: reconciles made
          MaxRestarts  \* bound: ends of the controller process

ASSUME RolloutAssumption ==
    /\ Fleet \in Seq(Range(Fleet)) /\ Fleet # << >> /\ IsInjective(Fleet)
    /\ MaxPlans \in Nat /\ MaxReconciles \in Nat /\ MaxRestarts \in Nat

VARIABLES
    record,     \* the latest management.rollout, or None
    job,        \* what each thread is executing
    ready,      \* history: <<rollout, worker>> seen READY after its reconcile
    plans,      \* rollouts planned so far
    reconciles, \* reconciles made so far
    restarts    \* ends of the controller so far

vars == <<record, job, ready, plans, reconciles, restarts>>

(***************************************************************************)
(* What a reconcile that applied returns: it failed before or while        *)
(* applying, it wants a restart, or it was certified and decided.          *)
(***************************************************************************)
Outcome(receipt, restart, certification, management, transaction) ==
    [receipt |-> receipt, restart_required |-> restart, certification |-> certification,
     management |-> management, transaction |-> transaction]

Outcomes ==
    {Outcome("FAIL", FALSE, None, "DEGRADED", None),
     Outcome("FAIL", FALSE, None, "DEGRADED", "FAILED"),
     Outcome("PASS", TRUE, None, "MAINTENANCE", "DISCONNECT_EXPECTED"),
     Outcome("PASS", FALSE, "CERTIFIED", "VERIFYING", "UPDATE_APPLYING"),
     Outcome("PASS", FALSE, "CERTIFIED", "DEGRADED", None),
     Outcome("PASS", FALSE, "FAILED", "QUARANTINED", None),
     Outcome("PASS", FALSE, "CERTIFIED", "READY", None)}

\* Mutant: an apply that passed is taken for success.
CanarySucceededAtApply(o) == o.receipt # "FAIL"

CanarySucceeded(o) ==
    /\ ~o.restart_required
    /\ o.receipt # "FAIL"
    /\ o.management = "READY"
    /\ o.transaction \in {None, "READY", "ROLLED_BACK"}
    /\ o.certification \in {None, "CERTIFIED"}

CanaryFailed(o) ==
    \/ o.receipt = "FAIL"
    \/ o.management = "QUARANTINED"
    \/ o.transaction \in {"FAILED", "QUARANTINED"}

Recorded(w, o, role) ==
    [worker |-> w, role |-> role, succeeded |-> CanarySucceeded(o), failed |-> CanaryFailed(o)]

(***************************************************************************)
(* The plan.  id tells rollouts apart and is the creation time of the code.*)
(***************************************************************************)
BuildRolloutPlan(workers, n, stop) ==
    [id |-> plans + 1, canaries |-> SubSeq(workers, 1, IF n < Len(workers) THEN n ELSE Len(workers)),
     remainder |-> SubSeq(workers, n + 1, Len(workers)),
     stop |-> stop, state |-> "PLANNED", status |-> "CANARY_PENDING", results |-> << >>]

Idle == [pc |-> "idle"]

Init ==
    /\ record = None
    /\ job = [t \in Threads |-> Idle]
    /\ ready = {}
    /\ plans = 0 /\ reconciles = 0 /\ restarts = 0

\* execute_rollout begins with the first canary; prior are the results the
\* plan came with.
Start(plan) ==
    [pc |-> "run", plan |-> plan, next |-> plan.canaries \o plan.remainder,
     results |-> << >>, state |-> "IN_PROGRESS", status |-> "CANARY_PENDING"]

\* A request: resumes the latest rollout when asked to, or when it applies
\* and that rollout is IN_PROGRESS; otherwise a new plan is made.
Request(t, apply, resume, workers, n, stop) ==
    /\ job[t].pc = "idle"
    /\ LET again == record # None /\ (resume \/ (apply /\ record.state = "IN_PROGRESS"))
           plan == IF again THEN record ELSE BuildRolloutPlan(workers, n, stop)
       IN  /\ ~again => plans < MaxPlans /\ plans' = plans + 1
           /\ again => UNCHANGED plans
           /\ IF apply \/ resume
              THEN job' = [job EXCEPT ![t] = Start(plan)] /\ UNCHANGED record
              ELSE record' = plan /\ UNCHANGED job
    /\ UNCHANGED <<ready, reconciles, restarts>>

Running(t) == job[t].pc = "run" /\ job[t].next # << >>
Worker(t) == Head(job[t].next)
Role(t) == IF Contains(job[t].plan.canaries, Worker(t)) THEN "canary" ELSE "remainder"

\* The results are looked up by worker, a later one over an earlier one.
Prior(t) ==
    LET s == job[t].plan.results
        at == {i \in DOMAIN s : s[i].worker = Worker(t)}
    IN  IF at = {} THEN None ELSE s[CHOOSE i \in at : \A k \in at : k <= i]

Settled(t) == Prior(t) # None /\ Prior(t).succeeded

Failed(results) == \E i \in DOMAIN results : results[i].failed
Pending(results) ==
    \E i \in DOMAIN results :
        results[i].role = "canary" /\ ~results[i].succeeded /\ ~results[i].failed

\* Mutant: the gate looks for failures only.
CanariesDoneLenient(j) ==
    IF Failed(j.results) /\ j.plan.stop
    THEN [j EXCEPT !.status = "ROLLOUT_STOPPED", !.state = "STOPPED", !.next = << >>]
    ELSE [j EXCEPT !.status = "ROLLOUT_CONTINUING"]

\* What the last canary leads to: the remainder only if none is pending, and
\* none failed where a failure is to stop the rollout.
CanariesDone(j) ==
    CASE Pending(j.results) -> [j EXCEPT !.status = "CANARY_PENDING", !.next = << >>]
      [] ~Pending(j.results) /\ Failed(j.results) /\ j.plan.stop ->
           [j EXCEPT !.status = "ROLLOUT_STOPPED", !.state = "STOPPED", !.next = << >>]
      [] OTHER -> [j EXCEPT !.status = IF Failed(j.results) THEN "CANARY_FAILED"
                                       ELSE "ROLLOUT_CONTINUING"]

RemainderDone(j) ==
    IF Failed(j.results)
    THEN [j EXCEPT !.state = "FAILED"]
    ELSE [j EXCEPT !.state = "COMPLETED", !.status = "CANARY_SUCCEEDED"]

\* The last worker of a group has been passed.
Passed(t, j) ==
    LET canaries == Len(j.plan.canaries)
        gated == IF Len(j.results) = canaries THEN CanariesDone(j) ELSE j
        ended == Len(j.results) >= canaries /\ gated.state = "IN_PROGRESS" /\ ~Pending(j.results)
                 /\ gated.next = << >>
    IN  IF ended THEN RemainderDone(gated) ELSE gated

\* A worker with a recorded success is not reconciled again.
Carry(t) ==
    /\ Running(t) /\ Settled(t)
    /\ LET status == IF Role(t) = "canary" THEN "CANARY_SUCCEEDED" ELSE job[t].status
           j == [job[t] EXCEPT !.results = Append(@, Prior(t)), !.next = Tail(@), !.status = status]
       IN  job' = [job EXCEPT ![t] = Passed(t, j)]
    /\ UNCHANGED <<record, ready, plans, reconciles, restarts>>

Reconcile(t, o) ==
    /\ Running(t) /\ ~Settled(t)
    /\ reconciles < MaxReconciles /\ reconciles' = reconciles + 1
    /\ job' = [job EXCEPT ![t].results = Append(@, Recorded(Worker(t), o, Role(t))),
                          ![t].pc = "persist"]
    /\ ready' = IF o.management = "READY" /\ ~o.restart_required
                THEN ready \cup {<<job[t].plan.id, Worker(t)>>} ELSE ready
    /\ UNCHANGED <<record, plans, restarts>>

\* An exception of the reconcile ends the request; no snapshot is appended.
ReconcileRaises(t) ==
    /\ Running(t) /\ ~Settled(t)
    /\ job' = [job EXCEPT ![t] = Idle]
    /\ UNCHANGED <<record, ready, plans, reconciles, restarts>>

Snapshot(j, state) ==
    [j.plan EXCEPT !.state = state, !.status = j.status, !.results = j.results]

\* A canary that did not succeed ends the rollout where failures stop it;
\* of the remainder only a failed one does.
Judged(t) ==
    LET j == [job[t] EXCEPT !.pc = "run", !.next = Tail(@)]
        r == Last(j.results)
        halt == j.plan.stop /\ (r.failed \/ (r.role = "canary" /\ ~r.succeeded))
    IN  CASE halt ->
               [j EXCEPT !.next = << >>, !.state = IF r.failed THEN "STOPPED" ELSE @,
                         !.status = IF r.failed THEN "ROLLOUT_STOPPED" ELSE "CANARY_PENDING"]
          [] ~halt /\ r.role = "canary" ->
               Passed(t, [j EXCEPT !.status = CASE r.succeeded -> "CANARY_SUCCEEDED"
                                                [] r.failed -> "CANARY_FAILED"
                                                [] OTHER -> "CANARY_PENDING"])
          [] OTHER -> Passed(t, j)

Persist(t) ==
    /\ job[t].pc = "persist"
    /\ record' = Snapshot(job[t], "IN_PROGRESS")
    /\ job' = [job EXCEPT ![t] = Judged(t)]
    /\ UNCHANGED <<ready, plans, reconciles, restarts>>

Finish(t) ==
    /\ job[t].pc = "run" /\ job[t].next = << >>
    /\ record' = Snapshot(job[t], job[t].state)
    /\ job' = [job EXCEPT ![t] = Idle]
    /\ UNCHANGED <<ready, plans, reconciles, restarts>>

Restart ==
    /\ restarts < MaxRestarts /\ restarts' = restarts + 1
    /\ job' = [t \in Threads |-> Idle]
    /\ UNCHANGED <<record, ready, plans, reconciles>>

Next ==
    \/ \E t \in Threads :
          \/ \E apply, resume, stop \in BOOLEAN, n \in 1..2, workers \in {Fleet, SubSeq(Fleet, 1, 1)} :
                Request(t, apply, resume, workers, n, stop)
          \/ \E o \in Outcomes : Reconcile(t, o)
          \/ Carry(t) \/ ReconcileRaises(t) \/ Persist(t) \/ Finish(t)
    \/ Restart

Spec == Init /\ [][Next]_vars

-----------------------------------------------------------------------------
(***************************************************************************)
(* Properties                                                              *)
(***************************************************************************)

Reconciles(t) == job[t].pc = "run" /\ job'[t].pc = "persist"

\* The canaries go first: a worker of the remainder is reconciled only when
\* every canary of that rollout has come back READY, or, where failures do
\* not stop it, has failed; never while one is still pending its restart.
\* This is so across crashes, retries and a second request for the rollout.
CanariesFirst ==
    [][\A t \in Threads :
         Reconciles(t) /\ Role(t) = "remainder" =>
             \A c \in Range(job[t].plan.canaries) :
                \/ <<job[t].plan.id, c>> \in ready
                \/ /\ ~job[t].plan.stop
                   /\ \E i \in DOMAIN job[t].results :
                         job[t].results[i].worker = c /\ job[t].results[i].failed]_vars

\* A rollout recorded COMPLETED has had every canary READY after its
\* reconcile, whichever thread, before or after a restart, saw it.
CompletedIsEarned ==
    record # None /\ record.state = "COMPLETED" =>
        \A c \in Range(record.canaries) : <<record.id, c>> \in ready
=============================================================================
