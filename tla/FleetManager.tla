---------------------------- MODULE FleetManager ----------------------------
(***************************************************************************)
(* The controller's fleet manager: reconcile, certify, drain, resume,      *)
(* quarantine, the update transaction and its recovery after a controller  *)
(* restart.                                                                *)
(*                                                                         *)
(* The management ledger is the only durable state: mgmt, desired, cert,   *)
(* conf and txn are the latest records of their kinds.  The service runs   *)
(* each request in a thread of its own and nothing keeps two of them off   *)
(* one worker.  What a thread has read or made is in its hand, op[t], and  *)
(* is used from there whatever others have appended since: the worker's    *)
(* inventory, the transaction it moves, the state it is about to replace,  *)
(* certificate, conformance and decision.  Each step of op[t].todo reads   *)
(* the ledger, appends one record or calls the worker, so a crash of the   *)
(* controller, a lost answer or a refused transition leaves what was       *)
(* appended before it.                                                     *)
(***************************************************************************)
EXTENDS Maintenance, UpdatePolicy, SequencesExt

CONSTANTS Workers,
          Threads,             \* requests the service handles at a time
          Versions,
          ControllerVersion,   \* the version of the controller's own package
          Hosts,               \* the machines: what each shows, by its name
          Beside,              \* bound: which operation is asked for while which runs
          MaxChanges,          \* bound: how often somebody works on a machine
          MaxOperations        \* bound: operations asked for, and restarts of the controller

ASSUME FleetAssumption ==
    /\ ControllerVersion \in Versions /\ NoVersion \notin Versions
    /\ \A m \in DOMAIN Hosts : Hosts[m].version \in Versions
    /\ MaxChanges \in Nat /\ MaxOperations \in Nat

VARIABLES
    host,        \* the machine of each worker and the version its process runs
    installed,   \* the version its next start runs
    up,          \* whether its process answers
    mgmt,        \* management.state
    desired,     \* management.desired-state
    cert,        \* management.certification
    conf,        \* management.conformance
    txn,         \* management.update-transaction
    op,          \* the operation of each thread: what is in its hand, what is left of it
    recovering,  \* workers whose transaction the restarted controller has yet to resume
    overlapped,  \* history: whether two operations on the worker have run at a time
    changes,     \* how often somebody has worked on a machine
    operations   \* operations and restarts so far

worker == <<host, installed, up, changes>>
store == <<mgmt, desired, cert, conf, txn>>
vars == <<host, installed, up, mgmt, desired, cert, conf, txn, op, recovering, overlapped, changes,
          operations>>

InventoryIds == 1..9
DesiredIds == 1..7

Idle == [kind |-> "idle", todo |-> << >>]
Running == {t \in Threads : op[t].kind # "idle"}

Update(expected, previous) ==
    [state |-> "UPDATE_PLANNED", expected |-> expected, previous |-> previous,
     missed |-> FALSE, expired |-> FALSE]

\* The controller may have been upgraded since a desired state was assigned.
Init ==
    /\ \E m \in [Workers -> DOMAIN Hosts] :
           host = [w \in Workers |-> [machine |-> m[w], version |-> Hosts[m[w]].version]]
    /\ installed = [w \in Workers |-> host[w].version]
    /\ up = [w \in Workers |-> TRUE]
    /\ mgmt = [w \in Workers |-> None]
    /\ \E pin \in {None} \cup (Versions \ {ControllerVersion}) :
           desired = [w \in Workers |->
                        IF pin = None THEN None
                        ELSE [id |-> 1, profiles |-> <<"mncs-linux-worker">>, pin |-> pin]]
    /\ cert = [w \in Workers |-> None] /\ conf = [w \in Workers |-> None]
    /\ txn = [w \in Workers |-> None]
    /\ op = [t \in Threads |-> Idle] /\ recovering = {}
    /\ overlapped = [w \in Workers |-> FALSE]
    /\ changes = 0 /\ operations = 0

(***************************************************************************)
(* What a machine shows of itself, and what is made of it.                 *)
(***************************************************************************)
Machines == [machine : DOMAIN Hosts, version : Versions]
Facts(h) == [Hosts[h.machine] EXCEPT !.version = h.version]
Inventories == [h \in Machines |-> CollectWorkerInventory(Facts(h), 0)]
InventoryOf(h) == Inventories[h]

\* Identities no record of this worker holds, in the ledger or in a hand.
Hands(w) == {op[t] : t \in {s \in Running : op[s].w = w}}

FreshInventory(w) ==
    CHOOSE i \in InventoryIds :
        /\ \A r \in {mgmt[w], cert[w], conf[w]} \ {None} : r.inventory # i
        /\ \A o \in Hands(w) :
              o.inventory # i /\ \A r \in {o.seen, o.cert, o.conf} \ {None} : r.inventory # i

FreshDesired(w) ==
    CHOOSE i \in DesiredIds :
        /\ desired[w] # None => desired[w].id # i
        /\ conf[w] # None => conf[w].desired # i
        /\ \A o \in Hands(w) : /\ o.desired # None => o.desired.id # i
                               /\ o.conf # None => o.conf.desired # i

\* default_desired_state: a worker that has the runtime is an inference worker.
DefaultDesired(w, inv, profiles) ==
    [id |-> FreshDesired(w), pin |-> ControllerVersion,
     profiles |-> IF inv.runtime.present /\ ~Contains(profiles, "mncs-inference-worker")
                  THEN Append(profiles, "mncs-inference-worker") ELSE profiles]

\* desired_for assigns a state where there is none, and again once the worker
\* runs the controller's own version.
Assigns(w, inv) ==
    desired[w] = None \/ (desired[w].pin # ControllerVersion /\ inv.version = ControllerVersion)

DesiredFor(w, inv) ==
    CASE desired[w] = None -> DefaultDesired(w, inv, <<"mncs-linux-worker">>)
      [] desired[w] # None -> IF Assigns(w, inv) THEN DefaultDesired(w, inv, desired[w].profiles)
                              ELSE desired[w]

Assigned == {<<"mncs-linux-worker">>, <<"mncs-linux-worker", "mncs-inference-worker">>}
Resolutions == [p \in Assigned, v \in Versions |-> ResolveDesiredState(p, {}, {}, v)]
Resolved(d) == Resolutions[d.profiles, d.pin]

FabricPlanned(actions) == \E a \in WorkerActions(actions) : a.provider = "fabric"

\* A forced reconcile reinstalls the package when the plan does not.
ActionsOf(plan, force) ==
    IF force /\ ~\E a \in plan.actions : a.provider = "fabric"
    THEN plan.actions \cup {ReinstallAction(ControllerVersion)} ELSE plan.actions

\* The version the transaction expects: one that an action names, or the
\* controller's own when only a restart is due.
ExpectedVersion(actions) ==
    LET named == {a \in actions : a.desired \in Versions}
    IN  IF named = {} THEN ControllerVersion ELSE (CHOOSE a \in named : TRUE).desired

(***************************************************************************)
(* Operations begin with a call to the worker, when they need one, and     *)
(* list what they will do.  A set step is <<"set", c>>: set_state with the *)
(* fields of c.  The steps of an observation or a certification name the   *)
(* states of the transaction in hand they are for ({}: any).               *)
(***************************************************************************)
Operation(kind, w, todo) ==
    [kind |-> kind, w |-> w, host |-> host[w], inventory |-> FreshInventory(w), todo |-> todo,
     actions |-> {}, txn |-> None, outer |-> None, seen |-> None,
     desired |-> None, cert |-> None, conf |-> None, decision |-> None]

\* Threads are alike: which idle one a request gets makes no difference.  An
\* operation beside others counts for them too.
Begin(t, o) ==
    /\ op[t].kind = "idle" /\ t = (CHOOSE s \in Threads : op[s].kind = "idle")
    /\ recovering = {} /\ (\A s \in Running : <<op[s].kind, o.kind>> \in Beside)
    /\ operations + Cardinality(Running) < MaxOperations
    /\ operations' = operations + 1 + Cardinality(Running)
    /\ op' = [op EXCEPT ![t] = o]
    /\ overlapped' = [overlapped EXCEPT ![o.w] = @ \/ Hands(o.w) # {}]
    /\ UNCHANGED <<worker, store, recovering>>

AnyState == {}
DesiredSteps == << <<"desired", AnyState>> >>
CertifySteps(states) == << <<"desired", states>>, <<"certify", states>> >>

Classes == {UPDATE_CLASSES, {"A"}}

Reconcile(t, w, classes, force) ==
    up[w] /\ Begin(t, Operation("reconcile", w, DesiredSteps \o << <<"plan", classes, force>> >>))

\* inspect_worker assigns a desired state; plan_worker records a plan too.
InspectOrPlan(t, w, steps) ==
    up[w] /\ Begin(t, Operation("plan", w, DesiredSteps \o steps))

Certify(t, w) == up[w] /\ Begin(t, Operation("certify", w, CertifySteps(AnyState)))

\* The worker is told first; one that does not answer keeps its record.
Drain(t, w) == up[w] /\ Begin(t, Operation("drain", w, << <<"drain">> >>))
Quarantine(t, w) ==
    up[w] /\ Begin(t, Operation("quarantine", w, << <<"set", [state |-> "QUARANTINED"]>> >>))

\* The record is written whether or not the worker can be told afterwards.
Resume(t, w) == Begin(t, Operation("resume", w, << <<"resume">> >>))

\* The package's own calls: the scheduler's mark, an observation with or
\* without an inventory, the completion and the rollback of an update.
MarkBusy(t, w, jobs) == Begin(t, Operation("busy", w, << <<"busy", jobs>> >>))

ObserveUpdate(t, w, seen) ==
    txn[w] # None /\ Begin(t, Operation("observe", w, << <<"observe", AnyState, up[w], seen, FALSE>> >>))

CompleteUpdate(t, w) ==
    /\ up[w] /\ txn[w] # None
    /\ Begin(t, Operation("complete", w,
                 << <<"observe", AnyState, TRUE, TRUE, FALSE>>,
                    <<"observe", {"RECONNECTING"}, TRUE, TRUE, FALSE>>,
                    <<"observe", {"VERSION_VERIFYING"}, TRUE, TRUE, FALSE>>,
                    <<"desired", {"CERTIFYING", "READY", "ROLLED_BACK"}>>,
                    <<"judge", {"CERTIFYING", "READY", "ROLLED_BACK"}>> >>))

RollbackUpdate(t, w) ==
    /\ up[w] /\ txn[w] # None
    /\ txn[w].state \in {"ROLLBACK_APPLYING", "VERSION_VERIFYING", "CERTIFYING", "FAILED"}
    /\ Begin(t, [Operation("rollback", w,
                   (IF txn[w].state = "ROLLBACK_APPLYING" THEN << >>
                    ELSE << <<"txn", "ROLLBACK_APPLYING">> >>) \o << <<"restore">> >>)
                   EXCEPT !.txn = txn[w]])

(***************************************************************************)
(* Steps.  An operation goes on with what is left, after the step or after *)
(* steps put in its place; Abort is what an exception leaves: nothing more *)
(* is appended.  One out of the recovery ends the start of the service,    *)
(* and the next start recovers again.                                      *)
(***************************************************************************)
At(t, name) == op[t].todo # << >> /\ Head(op[t].todo)[1] = name
Here(t) == Head(op[t].todo)
W(t) == op[t].w

Goes(t, o) ==
    /\ op' = [op EXCEPT ![t] = IF o.todo = << >> THEN Idle ELSE o]
    /\ UNCHANGED <<recovering, overlapped, operations>>

After(t) == [op[t] EXCEPT !.todo = Tail(@)]
Instead(t, steps) == [op[t] EXCEPT !.todo = steps \o Tail(@)]

Observing == {"RESTART_PENDING", "DISCONNECT_EXPECTED", "RECONNECTING", "VERSION_VERIFYING",
              "CERTIFYING"}
Recoverable == {w \in Workers : txn[w] # None /\ txn[w].state \in Observing}

Abort(t) ==
    /\ op' = [op EXCEPT ![t] = Idle]
    /\ recovering' = IF op[t].kind = "recover" THEN Recoverable ELSE recovering
    /\ UNCHANGED <<overlapped, operations>>

Applies(t) == Here(t)[2] = AnyState \/ (op[t].txn # None /\ op[t].txn.state \in Here(t)[2])

SkipStep(t) ==
    /\ At(t, "observe") \/ At(t, "desired") \/ At(t, "certify") \/ At(t, "judge")
    /\ ~Applies(t)
    /\ Goes(t, After(t))
    /\ UNCHANGED <<worker, store>>

(***************************************************************************)
(* The management state.  ensure() appends a READY record for a worker it  *)
(* finds none of.  set_state reads, checks the transition and appends.     *)
(***************************************************************************)
Reads(t) ==
    \/ At(t, "plan") \/ At(t, "drain") \/ At(t, "complete_drain") \/ At(t, "enter")
    \/ At(t, "resume") \/ At(t, "busy") \/ At(t, "decide") \/ At(t, "decided")
    \/ At(t, "set") /\ op[t].seen = None

EnsureStep(t) ==
    /\ Reads(t) /\ mgmt[W(t)] = None
    /\ Goes(t, [op[t] EXCEPT !.todo = << <<"create">> >> \o @])
    /\ UNCHANGED <<worker, store>>

CreateStep(t) ==
    /\ At(t, "create")
    /\ mgmt' = [mgmt EXCEPT ![W(t)] =
                  [state |-> "READY", status |-> "UNKNOWN", inventory |-> None, active |-> 0]]
    /\ Goes(t, After(t))
    /\ UNCHANGED <<worker, desired, cert, conf, txn>>

Reading(t, name) == At(t, name) /\ mgmt[W(t)] # None

LookStep(t) ==
    /\ Reading(t, "set") /\ op[t].seen = None
    /\ Goes(t, [op[t] EXCEPT !.seen = mgmt[W(t)]])
    /\ UNCHANGED <<worker, store>>

With(record, c) == [f \in DOMAIN record |-> IF f \in DOMAIN c THEN c[f] ELSE record[f]]

SetStep(t) ==
    /\ At(t, "set") /\ op[t].seen # None
    /\ LET record == With(op[t].seen, Here(t)[2])
       IN  IF CanTransition(op[t].seen.state, record.state, record.status)
           THEN /\ mgmt' = [mgmt EXCEPT ![W(t)] = record]
                /\ Goes(t, [After(t) EXCEPT !.seen = None])
           ELSE UNCHANGED mgmt /\ Abort(t)
    /\ UNCHANGED <<worker, desired, cert, conf, txn>>

Set(state) == << <<"set", [state |-> state]>> >>

DrainStep(t) ==
    /\ Reading(t, "drain")
    /\ Goes(t, Instead(t, IF mgmt[W(t)].active = 0
                          THEN << <<"set", [state |-> "MAINTENANCE", active |-> 0]>> >>
                          ELSE Set("DRAINING")))
    /\ UNCHANGED <<worker, store>>

CompleteDrainStep(t) ==
    /\ Reading(t, "complete_drain")
    /\ Goes(t, Instead(t, IF mgmt[W(t)].state = "DRAINING" /\ mgmt[W(t)].active = 0
                          THEN Set("MAINTENANCE") ELSE << >>))
    /\ UNCHANGED <<worker, store>>

\* A reconcile that did not drain still leaves READY before it applies.
EnterStep(t) ==
    /\ Reading(t, "enter")
    /\ Goes(t, Instead(t, IF mgmt[W(t)].state \in {"MAINTENANCE", "DRAINING", "VERIFYING", "DEGRADED"}
                          THEN << >> ELSE Set("MAINTENANCE")))
    /\ UNCHANGED <<worker, store>>

ResumeStep(t) ==
    /\ Reading(t, "resume")
    /\ IF mgmt[W(t)].status = "FAILED" \/ (cert[W(t)] # None /\ cert[W(t)].disposition = "FAILED")
       THEN Abort(t)
       ELSE Goes(t, [Instead(t, << <<"decide">> >>) EXCEPT !.seen = mgmt[W(t)], !.cert = cert[W(t)]])
    /\ UNCHANGED <<worker, store>>

BusyStep(t) ==
    /\ Reading(t, "busy")
    /\ Goes(t, Instead(t,
          CASE mgmt[W(t)].state \notin {"READY", "BUSY"} \/ mgmt[W(t)].status = "FAILED" -> << >>
            [] OTHER -> IF Here(t)[2] = 1 THEN << <<"set", [state |-> "BUSY", active |-> 1]>> >>
                        ELSE << <<"decide">> >>))
    /\ UNCHANGED <<worker, store>>

(***************************************************************************)
(* Desired state and plan.                                                 *)
(***************************************************************************)
DesiredStep(t) ==
    /\ At(t, "desired") /\ Applies(t)
    /\ LET inv == InventoryOf(op[t].host)
           assign == IF Assigns(W(t), inv) THEN << <<"assign">> >> ELSE << >>
       IN  Goes(t, [Instead(t, assign) EXCEPT !.desired = DesiredFor(W(t), inv)])
    /\ UNCHANGED <<worker, store>>

AssignStep(t) ==
    /\ At(t, "assign")
    /\ desired' = [desired EXCEPT ![W(t)] = op[t].desired]
    /\ Goes(t, After(t))
    /\ UNCHANGED <<worker, mgmt, cert, conf, txn>>

ReconcileSteps(plan, actions, force) ==
    (IF plan.require_drain THEN << <<"drain">>, <<"complete_drain">> >> ELSE << >>)
      \o << <<"enter">> >>
      \o (IF ~plan.preflight_passed /\ ~force THEN Set("DEGRADED")
          ELSE (IF FabricPlanned(actions)
                THEN << <<"new">> >>
                       \o (IF plan.require_drain THEN << <<"txn", "DRAINING">> >> ELSE << >>)
                       \o << <<"txn", "UPDATE_APPLYING">> >>
                ELSE << >>)
               \o << <<"apply">> >>)

\* The plan is recorded over the state read first, whatever it is by then.
PlanStep(t) ==
    /\ Reading(t, "plan")
    /\ LET plan == BuildMaintenancePlan(Resolved(op[t].desired), InventoryOf(op[t].host), Here(t)[2])
           force == Here(t)[3]
           actions == ActionsOf(plan, force)
           record == <<"set", [state |-> mgmt[W(t)].state, inventory |-> op[t].inventory]>>
       IN  Goes(t, [Instead(t, <<record>> \o (IF op[t].kind = "plan" THEN << >>
                                              ELSE ReconcileSteps(plan, actions, force)))
                      EXCEPT !.actions = IF op[t].kind = "plan" THEN {} ELSE actions])
    /\ UNCHANGED <<worker, store>>

(***************************************************************************)
(* The transaction, always advanced from the copy in hand.                 *)
(***************************************************************************)
RecordTxn(t, record, o) ==
    /\ txn' = [txn EXCEPT ![W(t)] = record]
    /\ Goes(t, [o EXCEPT !.txn = record])

\* _plan_update_transaction.
NewStep(t) ==
    /\ At(t, "new")
    /\ RecordTxn(t, Update(ExpectedVersion(op[t].actions), op[t].host.version), After(t))
    /\ UNCHANGED <<worker, mgmt, desired, cert, conf>>

\* A rollback expects the previous version from RESTART_PENDING on.
Advanced(record, to) ==
    [state |-> to, previous |-> record.previous, missed |-> FALSE, expired |-> record.expired,
     expected |-> IF record.state = "ROLLBACK_APPLYING" /\ to = "RESTART_PENDING"
                  THEN record.previous ELSE record.expected]

\* _advance_update: appends or raises.  "disconnect" also sets a new deadline.
TxnStep(t) ==
    /\ At(t, "txn") \/ At(t, "disconnect") \/ At(t, "miss")
    /\ LET to == CASE At(t, "txn") -> Here(t)[2]
                   [] At(t, "disconnect") -> "DISCONNECT_EXPECTED"
                   [] At(t, "miss") -> "FAILED"
       IN  IF CanTransitionUpdate(op[t].txn.state, to)
           THEN RecordTxn(t, [Advanced(op[t].txn, to) EXCEPT !.missed = At(t, "miss"),
                                                            !.expired = @ /\ ~At(t, "disconnect")],
                          After(t))
           ELSE UNCHANGED txn /\ Abort(t)
    /\ UNCHANGED <<worker, mgmt, desired, cert, conf>>

\* _fail_update writes the state whether or not the table allows it.
FailStep(t) ==
    /\ At(t, "fail")
    /\ RecordTxn(t, Advanced(op[t].txn, Here(t)[2]), After(t))
    /\ UNCHANGED <<worker, mgmt, desired, cert, conf>>

RestartSteps == << <<"txn", "UPDATE_APPLIED">>, <<"txn", "RESTART_PENDING">>, <<"disconnect">> >>
                  \o Set("MAINTENANCE")
QuarantineSteps == << <<"fail", "FAILED">>, <<"fail", "QUARANTINED">> >>

\* The worker carries out the actions on an inventory of its own; the
\* controller answers the advisory ones itself.  The answer may be lost.
ApplyStep(t) ==
    /\ At(t, "apply")
    /\ LET w == W(t)
           actions == op[t].actions
           sent == WorkerActions(actions)
           results == {ApplyAction(a, InventoryOf(host[w]), Facts(host[w])) : a \in sent}
                        \cup {ApplyAction(a, InventoryOf(op[t].host), Facts(op[t].host)) :
                                a \in actions \ sent}
           upgraded == \E r \in results : r.provider = "fabric" /\ r.changed
           restart == \E r \in results : r.restart_required
           own == FabricPlanned(actions)
           next == CASE restart ->
                          (IF own THEN << >> ELSE << <<"new">>, <<"txn", "UPDATE_APPLYING">> >>)
                            \o RestartSteps
                     [] ~restart /\ CompleteReceipt([actions |-> actions], results) = "FAIL" ->
                          (IF own THEN << <<"fail", "FAILED">> >> ELSE << >>) \o Set("DEGRADED")
                     [] OTHER -> Set("VERIFYING") \o CertifySteps(AnyState)
       IN  /\ sent # {} => up[w]
           /\ installed' = [installed EXCEPT ![w] = IF upgraded THEN ExpectedVersion(actions) ELSE @]
           /\ Goes(t, Instead(t, next)) \/ (sent # {} /\ Abort(t))
    /\ UNCHANGED <<host, up, changes, store>>

\* The rollback the caller carries out: the previous artifact is back, or not.
RestoreStep(t) ==
    /\ At(t, "restore")
    /\ \/ /\ installed' = [installed EXCEPT ![W(t)] = op[t].txn.previous]
          /\ Goes(t, Instead(t, << <<"txn", "RESTART_PENDING">>, <<"disconnect">> >>
                                  \o Set("MAINTENANCE")))
       \/ /\ UNCHANGED installed
          /\ Goes(t, Instead(t, QuarantineSteps \o Set("QUARANTINED")))
    /\ UNCHANGED <<host, up, changes, store>>

\* A call to a worker that does not answer, or whose answer is lost, raises.
LoseCall(t) ==
    /\ At(t, "apply") \/ (At(t, "certify") /\ Applies(t)) \/ At(t, "restore")
    /\ At(t, "apply") => WorkerActions(op[t].actions) # {}
    /\ Abort(t)
    /\ UNCHANGED <<worker, store>>

\* observe_update reads the transaction; it moves first, then the management
\* state.
ObserveStep(t) ==
    /\ At(t, "observe") /\ Applies(t)
    /\ LET step == Here(t)
           record == txn[W(t)]
           next == ObserveReconnect(record, record.expired, step[3], step[4],
                                    op[t].host.version, step[5])
           set == CASE next = "FAILED" -> Set("DEGRADED")
                    [] next \in {"RECONNECTING", "VERSION_VERIFYING", "CERTIFYING"} -> Set("VERIFYING")
                    [] OTHER -> << >>
           move == IF next = "FAILED" /\ MissedDeadline(record, step[3])
                   THEN << <<"miss">> >> ELSE << <<"txn", next>> >>
       IN  Goes(t, [Instead(t, IF next = record.state THEN << >> ELSE move \o set)
                      EXCEPT !.txn = record])
    /\ UNCHANGED <<worker, store>>

(***************************************************************************)
(* Certification.  The certify call brings back an inventory of its own,   *)
(* to which certificate and conformance are bound.                         *)
(***************************************************************************)
Certificate(t, h, id) ==
    [inventory |-> id,
     disposition |-> CertifyInventory(InventoryOf(h), op[t].desired.profiles, Facts(h))]

\* desired_for is asked again, with the certified inventory.
CertifiedSteps(t) ==
    << <<"desired", AnyState>>, <<"cert">>, <<"conf">> >>
      \o (IF op[t].kind = "reconcile" THEN << <<"decide">> >> ELSE << <<"late">> >>)
      \o (IF op[t].txn # None /\ op[t].kind \in {"complete", "recover"}
             /\ op[t].txn.state = "CERTIFYING" THEN << <<"settle">> >> ELSE << >>)

CertifyStep(t) ==
    /\ At(t, "certify") /\ Applies(t)
    /\ up[W(t)]
    /\ LET id == FreshInventory(W(t))
       IN  Goes(t, [Instead(t, CertifiedSteps(t)) EXCEPT
                      !.host = host[W(t)], !.inventory = id,
                      !.cert = Certificate(t, host[W(t)], id)])
    /\ UNCHANGED <<worker, store>>

\* complete_update certifies the inventory it was given itself.
JudgeStep(t) ==
    /\ At(t, "judge") /\ Applies(t)
    /\ Goes(t, [Instead(t, CertifiedSteps(t)) EXCEPT
                  !.cert = Certificate(t, op[t].host, op[t].inventory)])
    /\ UNCHANGED <<worker, store>>

CertStep(t) ==
    /\ At(t, "cert")
    /\ cert' = [cert EXCEPT ![W(t)] = op[t].cert]
    /\ Goes(t, After(t))
    /\ UNCHANGED <<worker, mgmt, desired, conf, txn>>

ConfStep(t) ==
    /\ At(t, "conf")
    /\ LET c == EvaluateConformance(Resolved(op[t].desired), InventoryOf(op[t].host))
           record == [inventory |-> op[t].inventory, desired |-> op[t].desired.id,
                      disposition |-> c.disposition, blocking |-> c.blocking # {}]
       IN  /\ conf' = [conf EXCEPT ![W(t)] = record]
           /\ Goes(t, [After(t) EXCEPT !.conf = record])
    /\ UNCHANGED <<worker, mgmt, desired, cert, txn>>

\* certify reads the transaction: a worker that came back after the deadline,
\* at the expected version, takes the failed transaction up again.
LateStep(t) ==
    /\ At(t, "late")
    /\ LET record == txn[W(t)]
           late == /\ record # None /\ record.state = "FAILED" /\ record.missed
                   /\ op[t].cert.disposition = "CERTIFIED"
                   /\ op[t].host.version = record.expected
           steps == IF late THEN << <<"txn", "CERTIFYING">>, <<"decide">>, <<"resettle">> >>
                    ELSE << <<"decide">> >>
       IN  Goes(t, [Instead(t, steps) EXCEPT !.txn = record, !.outer = op[t].txn])
    /\ UNCHANGED <<worker, store>>

(***************************************************************************)
(* The decision.  resume and mark_busy decide from the stored records, the *)
(* others from those in hand; all read the transaction as it is by then.   *)
(* The state is replaced two readings later.                               *)
(***************************************************************************)
Stored(t) == op[t].kind \in {"resume", "busy"}

DecisionOf(t) ==
    LET w == W(t)
    IN  IF Stored(t)
        THEN EvaluateReady(IF op[t].cert # None THEN op[t].cert ELSE cert[w], conf[w],
                           mgmt[w].inventory, IF desired[w] = None THEN None ELSE desired[w].id,
                           txn[w], FALSE)
        ELSE EvaluateReady(op[t].cert, op[t].conf, op[t].inventory, op[t].desired.id, txn[w],
                           /\ op[t].kind # "reconcile"
                           /\ op[t].txn # None /\ op[t].txn.state = "CERTIFYING")

DecideStep(t) ==
    /\ Reading(t, "decide")
    /\ LET d == DecisionOf(t)
       IN  IF op[t].kind = "resume" /\ op[t].seen.state = "QUARANTINED" /\ d.state # "READY"
           THEN Abort(t)
           ELSE Goes(t, [Instead(t, << <<"decided">> >>) EXCEPT !.decision = d, !.seen = None])
    /\ UNCHANGED <<worker, store>>

\* certify keeps the quarantine of a worker whose certificate did not pass.
DecidedStep(t) ==
    /\ Reading(t, "decided")
    /\ LET kept == /\ ~Stored(t) /\ op[t].kind # "reconcile"
                   /\ mgmt[W(t)].state = "QUARANTINED" /\ op[t].cert.disposition # "CERTIFIED"
           d == IF kept THEN Decision("QUARANTINED", "FAILED") ELSE op[t].decision
           set == CASE op[t].kind = "resume" -> d
                    [] op[t].kind = "busy" -> [state |-> d.state, status |-> d.status, active |-> 0]
                    [] OTHER -> [state |-> d.state, status |-> d.status, inventory |-> op[t].inventory]
       IN  Goes(t, [Instead(t, << <<"set", set>> >>) EXCEPT !.decision = d, !.seen = mgmt[W(t)]])
    /\ UNCHANGED <<worker, store>>

\* What complete_update does with its transaction once the worker's state,
\* as the ledger has it by then, is decided.
SettleSteps(t, record) ==
    LET version_ok == op[t].host.version = record.expected
        state == mgmt[W(t)].state
        health == op[t].cert.disposition
        ended == state = "READY" \/ (version_ok /\ health = "CERTIFIED" /\ state # "QUARANTINED")
        broken == state = "QUARANTINED" \/ health = "FAILED"
    IN  CASE ended /\ record.expected # record.previous -> << <<"txn", "READY">> >>
          [] ended /\ record.expected = record.previous ->
               << <<"txn", "ROLLED_BACK">> >>
                 \o (IF state # "READY" THEN << >>
                     ELSE << <<"set", [state |-> "READY", status |-> "CERTIFIED"]>> >>)
          [] ~ended /\ broken -> QuarantineSteps
          [] ~ended /\ ~broken -> IF version_ok THEN << <<"fail", "FAILED">> >>
                                  ELSE << <<"txn", "ROLLBACK_APPLYING">> >>

SettleStep(t) ==
    /\ \/ /\ At(t, "settle")
          /\ Goes(t, [Instead(t, SettleSteps(t, op[t].outer)) EXCEPT !.txn = op[t].outer])
       \/ /\ At(t, "resettle")
          /\ Goes(t, Instead(t, CASE op[t].decision.state = "READY" -> << <<"txn", "READY">> >>
                                  [] op[t].decision.state = "QUARANTINED" -> QuarantineSteps
                                  [] OTHER -> << <<"fail", "FAILED">> >>))
    /\ UNCHANGED <<worker, store>>

(***************************************************************************)
(* A controller that starts again takes up the observations that were      *)
(* open, never an application of a package, before the service listens.    *)
(***************************************************************************)
ControllerRestart ==
    /\ operations < MaxOperations /\ operations' = operations + 1
    /\ op' = [t \in Threads |-> Idle]
    /\ recovering' = Recoverable
    /\ UNCHANGED <<worker, store, overlapped>>

RecoverUpdate(t, w) ==
    /\ Running = {} /\ t = (CHOOSE s \in Threads : TRUE) /\ w \in recovering
    /\ recovering' = recovering \ {w}
    /\ op' = [op EXCEPT ![t] = [Operation("recover", w,
               (IF txn[w].state = "RESTART_PENDING" /\ ~up[w]
                THEN << <<"txn", "DISCONNECT_EXPECTED">> >> ELSE << >>)
                 \o << <<"observe", AnyState, up[w], FALSE, TRUE>> >>
                 \o (IF up[w] THEN << <<"observe", {"VERSION_VERIFYING"}, TRUE, FALSE, TRUE>> >>
                                     \o CertifySteps({"CERTIFYING"})
                     ELSE << >>)) EXCEPT !.txn = txn[w]]]
    /\ UNCHANGED <<worker, store, overlapped, operations>>

(***************************************************************************)
(* The worker's side and the passing of time.  Between two calls to the    *)
(* worker a thread reads nothing of it, so what happens to the worker      *)
(* there happens just as well before its next call.  (Bound: while two     *)
(* operations run the worker stays as it is; a call may still be lost.)    *)
(***************************************************************************)
Calls(t) == At(t, "apply") \/ At(t, "certify") \/ At(t, "restore")
Observable ==
    /\ Cardinality(Running) < 2
    /\ operations + Cardinality(Running) >= MaxOperations => \A t \in Running : Calls(t)

WorkerStops(w) ==
    /\ up[w] /\ Observable
    /\ up' = [up EXCEPT ![w] = FALSE]
    /\ UNCHANGED <<host, installed, changes, store, op, recovering, overlapped, operations>>

WorkerStarts(w) ==
    /\ ~up[w] /\ Observable
    /\ up' = [up EXCEPT ![w] = TRUE]
    /\ host' = [host EXCEPT ![w].version = installed[w]]
    /\ UNCHANGED <<installed, changes, store, op, recovering, overlapped, operations>>

\* Somebody works on the machine: another package, a tool, a full disk, or
\* an artifact laid down for the next upgrade.
HostChanges(w) ==
    /\ Observable
    /\ changes < MaxChanges /\ changes' = changes + 1
    /\ \/ /\ \E m \in DOMAIN Hosts : host' = [host EXCEPT ![w].machine = m]
          /\ UNCHANGED installed
       \/ /\ \E v \in Versions : installed' = [installed EXCEPT ![w] = v]
          /\ UNCHANGED host
    /\ UNCHANGED <<up, store, op, recovering, overlapped, operations>>

\* The deadline of the transaction, and of the copies of it in hand.
Overdue(record) ==
    IF record = None \/ record.state \notin {"RESTART_PENDING", "DISCONNECT_EXPECTED", "RECONNECTING"}
    THEN record ELSE [record EXCEPT !.expired = TRUE]

DeadlinePasses(w) ==
    /\ Observable
    /\ Overdue(txn[w]) # txn[w]
    /\ txn' = [txn EXCEPT ![w] = Overdue(@)]
    /\ op' = [t \in Threads |->
                IF t \in Running /\ op[t].w = w THEN [op[t] EXCEPT !.txn = Overdue(@)] ELSE op[t]]
    /\ UNCHANGED <<worker, mgmt, desired, cert, conf, recovering, overlapped, operations>>

Operations(t, w) ==
    \/ \E classes \in Classes, force \in BOOLEAN : Reconcile(t, w, classes, force)
    \/ \E steps \in {<< >>, << <<"plan", UPDATE_CLASSES, FALSE>> >>} : InspectOrPlan(t, w, steps)
    \/ Certify(t, w)
    \/ Drain(t, w)
    \/ Quarantine(t, w)
    \/ Resume(t, w)
    \/ \E jobs \in {0, 1} : MarkBusy(t, w, jobs)
    \/ \E seen \in BOOLEAN : ObserveUpdate(t, w, seen)
    \/ CompleteUpdate(t, w)
    \/ RollbackUpdate(t, w)

Steps(t) ==
    \/ SkipStep(t) \/ EnsureStep(t) \/ CreateStep(t) \/ LookStep(t) \/ SetStep(t)
    \/ DrainStep(t) \/ CompleteDrainStep(t) \/ EnterStep(t) \/ ResumeStep(t) \/ BusyStep(t)
    \/ DesiredStep(t) \/ AssignStep(t) \/ PlanStep(t)
    \/ NewStep(t) \/ TxnStep(t) \/ FailStep(t) \/ ApplyStep(t) \/ RestoreStep(t) \/ LoseCall(t)
    \/ ObserveStep(t) \/ CertifyStep(t) \/ JudgeStep(t) \/ CertStep(t) \/ ConfStep(t)
    \/ LateStep(t) \/ DecideStep(t) \/ DecidedStep(t) \/ SettleStep(t)

Next ==
    \/ \E t \in Threads : Steps(t)
    \/ ControllerRestart
    \/ \E w \in Workers :
          \/ \E t \in Threads : Operations(t, w) \/ RecoverUpdate(t, w)
          \/ WorkerStops(w) \/ WorkerStarts(w) \/ HostChanges(w) \/ DeadlinePasses(w)

Spec == Init /\ [][Next]_vars

-----------------------------------------------------------------------------
(***************************************************************************)
(* Properties.  Two requests for one worker at a time are told apart by    *)
(* overlapped: a certify that has read "no transaction" writes READY into  *)
(* an update another thread has opened since.                              *)
(***************************************************************************)

Earned(w) ==
    /\ cert[w] # None /\ cert[w].disposition = "CERTIFIED"
    /\ conf[w] # None /\ ~conf[w].blocking /\ conf[w].disposition # "UNKNOWN"
    /\ cert[w].inventory = conf[w].inventory
    /\ conf[w].desired = desired[w].id
    /\ txn[w] # None => txn[w].state \in {"CERTIFYING", "READY", "ROLLED_BACK"}

\* READY is earned: a worker that was not schedulable becomes READY only on
\* a CERTIFIED certificate and a conformance without a blocking failure that
\* are bound to one inventory and to the desired state in force, while no
\* update is open except the one being completed (evaluate_ready, through
\* resume, certify, reconcile and the recovery after a restart), where the
\* operations on the worker have come one after the other.
ReadyIsEarned ==
    [][\A w \in Workers :
         /\ ~overlapped[w]
         /\ mgmt[w] # None /\ ~AllowsWork(mgmt[w].state) /\ mgmt'[w].state = "READY"
         => Earned(w)]_vars

\* From the plan of an update to its certification the management state keeps
\* work away.  (Two cases are left out.  The operator's certify makes a worker
\* READY and leaves the transaction CERTIFYING; a rollback the package is asked
\* for from there changes the state only when it has ended, and expects the
\* previous version.)
KeepsWorkAway(w) ==
    txn[w] # None /\ txn[w].state \in UNRESOLVED \ {"CERTIFYING", "ROLLBACK_APPLYING"}
    /\ txn[w].expected # txn[w].previous
    => mgmt[w] # None /\ ~AllowsWork(mgmt[w].state)

\* A worker whose operations come one after the other is never schedulable
\* while its package is being replaced: through crashes of the controller, lost
\* answers and refused transitions (fleet_ops.py, reconcile and
\* observe_update).
SettledWhenSchedulable == \A w \in Workers : ~overlapped[w] => KeepsWorkAway(w)

\* What the documentation says of READY, of every worker.  It is not true of
\* one that two requests are about at a time: see above.
NeverReadyInUpdate == \A w \in Workers : KeepsWorkAway(w)

\* An update is certified only at the version it announced, however many
\* operations run on the worker: whichever way a transaction comes to
\* CERTIFYING (observed, taken up again by a restarted controller, or returned
\* late), the operation that writes the record has in hand an inventory with
\* the version this record expects, after a rollback the previous one.
VersionVerified ==
    [][\A w \in Workers :
         txn'[w] # txn[w] /\ txn'[w].state = "CERTIFYING" =>
             \E t \in Running : /\ op'[t] # op[t] /\ op[t].w = w
                                /\ op[t].host.version = txn'[w].expected]_vars
=============================================================================
