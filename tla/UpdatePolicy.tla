---------------------------- MODULE UpdatePolicy ----------------------------
(***************************************************************************)
(* The decisions of the update lifecycle, as functions of records already  *)
(* read: which transitions the management state and an update transaction  *)
(* may take, what a reconnect observation means, and when a worker is      *)
(* READY.                                                                  *)
(***************************************************************************)
EXTENDS Integers

CONSTANT None            \* an absent record

(***************************************************************************)
(* Management state (management.py).                                       *)
(***************************************************************************)
MANAGEMENT_STATES == {"READY", "BUSY", "DRAINING", "MAINTENANCE", "VERIFYING",
                      "DEGRADED", "QUARANTINED"}

ManagementTransitions ==
    [s \in MANAGEMENT_STATES |->
       CASE s = "READY" -> MANAGEMENT_STATES
         [] s = "BUSY" -> {"READY", "DRAINING", "QUARANTINED"}
         [] s = "DRAINING" -> {"MAINTENANCE", "READY", "QUARANTINED", "DEGRADED"}
         [] s = "MAINTENANCE" -> {"VERIFYING", "DEGRADED", "QUARANTINED", "READY"}
         [] s = "VERIFYING" -> {"READY", "DEGRADED", "QUARANTINED", "MAINTENANCE"}
         [] s = "DEGRADED" -> {"DRAINING", "MAINTENANCE", "QUARANTINED", "READY"}
         [] s = "QUARANTINED" -> {"DRAINING", "MAINTENANCE", "VERIFYING", "READY"}]

\* A state may be written over itself; READY is refused to a failed certificate.
CanTransition(current, target, status) ==
    /\ target = current \/ target \in ManagementTransitions[current]
    /\ ~(target = "READY" /\ status = "FAILED")

AllowsWork(state) == state \in {"READY", "BUSY"}

(***************************************************************************)
(* Update transactions (update_lifecycle.py).                              *)
(***************************************************************************)
UPDATE_STATES == {"UPDATE_PLANNED", "DRAINING", "UPDATE_APPLYING", "UPDATE_APPLIED",
                  "RESTART_PENDING", "DISCONNECT_EXPECTED", "RECONNECTING",
                  "VERSION_VERIFYING", "CERTIFYING", "ROLLBACK_APPLYING", "READY",
                  "ROLLED_BACK", "FAILED", "QUARANTINED"}
UNRESOLVED == UPDATE_STATES \ {"READY", "ROLLED_BACK", "FAILED", "QUARANTINED"}

UpdateTransitions ==
    [s \in UPDATE_STATES |->
       CASE s = "UPDATE_PLANNED" -> {"DRAINING", "UPDATE_APPLYING", "FAILED"}
         [] s = "DRAINING" -> {"UPDATE_APPLYING", "FAILED"}
         [] s = "UPDATE_APPLYING" -> {"UPDATE_APPLIED", "FAILED", "QUARANTINED"}
         [] s = "UPDATE_APPLIED" -> {"RESTART_PENDING", "FAILED"}
         [] s = "RESTART_PENDING" -> {"DISCONNECT_EXPECTED", "FAILED"}
         [] s = "DISCONNECT_EXPECTED" -> {"RECONNECTING", "VERSION_VERIFYING", "FAILED", "QUARANTINED"}
         [] s = "RECONNECTING" -> {"VERSION_VERIFYING", "FAILED", "QUARANTINED"}
         [] s = "VERSION_VERIFYING" ->
              {"CERTIFYING", "ROLLBACK_APPLYING", "ROLLED_BACK", "FAILED", "QUARANTINED"}
         [] s = "CERTIFYING" -> {"READY", "ROLLBACK_APPLYING", "ROLLED_BACK", "FAILED", "QUARANTINED"}
         [] s = "ROLLBACK_APPLYING" -> {"RESTART_PENDING", "CERTIFYING", "FAILED", "QUARANTINED"}
         [] s = "READY" -> {}
         [] s = "ROLLED_BACK" -> {"READY", "QUARANTINED"}
         [] s = "FAILED" -> {"QUARANTINED", "UPDATE_PLANNED", "CERTIFYING"}
         [] s = "QUARANTINED" -> {"UPDATE_PLANNED"}]

CanTransitionUpdate(current, target) ==
    target = current \/ target \in UpdateTransitions[current]

(***************************************************************************)
(* observe_reconnect: the next state of a transaction.  A worker that      *)
(* answers is seen with a version, the enrolled worker's own identity      *)
(* (mutual TLS binds it) and no artifact identity; one that does not shows *)
(* no version, which matches none.                                         *)
(***************************************************************************)
\* Mutant: a worker that is back is taken for one that runs the new version.
ObserveReconnectUnchecked(txn, expired, connected, seen, version, recovery) ==
    CASE txn.state \in {"DISCONNECT_EXPECTED", "RECONNECTING"} /\ connected -> "VERSION_VERIFYING"
      [] txn.state = "VERSION_VERIFYING" -> "CERTIFYING"
      [] OTHER -> txn.state

ObserveReconnect(txn, expired, connected, seen, version, recovery) ==
    LET overdue == expired /\ (connected => ~seen)
        present == connected /\ version = txn.expected
    IN  CASE txn.state \in {"DISCONNECT_EXPECTED", "RECONNECTING"} /\ recovery /\ present ->
               "VERSION_VERIFYING"
          [] txn.state = "DISCONNECT_EXPECTED" /\ ~(recovery /\ present) ->
               IF overdue THEN "FAILED"
               ELSE IF connected => seen THEN "RECONNECTING" ELSE "DISCONNECT_EXPECTED"
          [] txn.state = "RECONNECTING" /\ ~(recovery /\ present) ->
               IF connected THEN "VERSION_VERIFYING"
               ELSE IF expired THEN "FAILED" ELSE "RECONNECTING"
          [] txn.state = "VERSION_VERIFYING" ->
               IF present THEN "CERTIFYING" ELSE "ROLLBACK_APPLYING"
          [] OTHER -> txn.state

\* Whether a failed observation was a missed deadline, which certification
\* may later recover from; a worker that never left is not one.
MissedDeadline(txn, connected) == ~connected

(***************************************************************************)
(* evaluate_ready: the one READY predicate.  cert and conf are records of  *)
(* what was certified and evaluated, with the identities they are bound    *)
(* to; inv and desired the identities they must be bound to.               *)
(***************************************************************************)
Decision(state, status) == [state |-> state, status |-> status]

\* Mutant: certificate and conformance need not be of one inventory.
EvaluateReadyUnbound(cert, conf, inv, desired, txn, completing) ==
    CASE txn # None /\ txn.state \in UNRESOLVED /\ ~(completing /\ txn.state = "CERTIFYING") ->
           Decision("VERIFYING", "UNKNOWN")
      [] OTHER -> IF cert # None /\ cert.disposition = "CERTIFIED" /\ conf # None /\ ~conf.blocking
                  THEN Decision("READY", "CERTIFIED") ELSE Decision("VERIFYING", "UNKNOWN")

\* Mutant: an open update transaction does not hold the worker back.
EvaluateReadyOpen(cert, conf, inv, desired, txn, completing) ==
    IF cert # None /\ cert.disposition = "CERTIFIED" /\ conf # None /\ ~conf.blocking
    THEN Decision("READY", "CERTIFIED") ELSE Decision("VERIFYING", "UNKNOWN")

EvaluateReady(cert, conf, inv, desired, txn, completing) ==
    CASE txn # None /\ txn.state \in UNRESOLVED /\ ~(completing /\ txn.state = "CERTIFYING") ->
           Decision("VERIFYING", "UNKNOWN")
      [] txn # None /\ txn.state = "QUARANTINED" -> Decision("QUARANTINED", "FAILED")
      [] txn # None /\ txn.state = "FAILED" -> Decision("DEGRADED", "UNKNOWN")
      [] OTHER ->
           CASE cert = None -> Decision("VERIFYING", "UNKNOWN")
             [] cert # None /\ cert.disposition = "FAILED" -> Decision("QUARANTINED", "FAILED")
             [] cert # None /\ cert.disposition = "UNKNOWN" -> Decision("DEGRADED", "UNKNOWN")
             [] cert # None /\ cert.disposition = "CERTIFIED" ->
                  CASE conf = None -> Decision("VERIFYING", "UNKNOWN")
                    [] conf # None /\ (\/ inv = None \/ cert.inventory # inv
                                       \/ conf.inventory # inv \/ desired = None
                                       \/ conf.desired # desired) ->
                         Decision("VERIFYING", "CERTIFIED")
                    [] OTHER -> IF conf.blocking \/ conf.disposition = "UNKNOWN"
                                THEN Decision("DEGRADED", "CERTIFIED")
                                ELSE Decision("READY", "CERTIFIED")
=============================================================================
