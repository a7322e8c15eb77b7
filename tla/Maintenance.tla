----------------------------- MODULE Maintenance -----------------------------
(***************************************************************************)
(* Maintenance plans, the typed providers that carry them out on a worker, *)
(* and the certification of what the worker then claims.                   *)
(*                                                                         *)
(* A host adds to the facts of Inventory: staged, the version of the       *)
(* artifact laid down for an upgrade (or NoVersion), sound, whether its    *)
(* bytes match its descriptor, and broken, the commands that fail when     *)
(* they are run.                                                           *)
(***************************************************************************)
EXTENDS DesiredState

NoClass == "none"

(***************************************************************************)
(* provider_for_change and plan_action_from_change.                        *)
(***************************************************************************)
ProviderFor(change) ==
    LET kind == change.req.kind
        name == change.req.name
    IN  CASE kind = "tool" -> IF name \in {"git", "gh", "forge", "python"} THEN name ELSE "inspect"
          [] kind = "runtime" /\ name = "ollama" -> "runtime"
          [] kind = "service" -> IF change.desired = "running" THEN "restart" ELSE "runtime"
          [] kind = "package" /\ name = "fabric-worker" -> "fabric"
          [] kind = "model" -> "model"
          [] OTHER -> "inspect"

ActionName(provider) ==
    CASE provider = "restart" -> "restart"
      [] provider = "fabric" -> "update"
      [] provider = "model" -> "pull"
      [] provider = "runtime" -> "rediscover"
      [] OTHER -> "verify"

PlanAction(change) ==
    [target |-> change.req.name, provider |-> ProviderFor(change),
     action |-> ActionName(ProviderFor(change)),
     disruptive |-> ProviderFor(change) \in {"restart", "fabric"},
     authorization |-> change.authorization, desired |-> change.desired]

\* The reinstall an operator forces when the plan holds no package update.
ReinstallAction(version) ==
    [target |-> "fabric-worker", provider |-> "fabric", action |-> "update",
     disruptive |-> TRUE, authorization |-> "operator", desired |-> version]

(***************************************************************************)
(* The handlers.  Each answers with a disposition, the class of a failure  *)
(* and whether something changed or a restart is due.                      *)
(***************************************************************************)
Answer(action, disposition, class, changed, restart) ==
    [target |-> action.target, provider |-> action.provider, disposition |-> disposition,
     failure_class |-> class, changed |-> changed, restart_required |-> restart]

Passed(action) == Answer(action, "PASS", NoClass, FALSE, FALSE)
Changed(action, restart) == Answer(action, "PASS", NoClass, TRUE, restart)
Failed(action, class) == Answer(action, "FAIL", class, FALSE, FALSE)
Skipped(action, class) == Answer(action, "SKIPPED", class, FALSE, FALSE)

ToolPresent(inv, name) == name \in TOOLS /\ inv.tools[name] # "absent"

ApplyInspectTool(action, inv) ==
    CASE action.target \in ADVISORY_PACKAGES ->
           IF inv.harness THEN Passed(action) ELSE Skipped(action, "PRIVILEGE_REQUIRED")
      [] action.target \notin ADVISORY_PACKAGES ->
           IF ToolPresent(inv, action.target) THEN Passed(action)
           ELSE Failed(action, "VALIDATION_FAILURE")

\* git, forge and the worker's own python: present, and the command succeeds.
ApplyVerifyTool(action, inv, host) ==
    IF ToolPresent(inv, action.target) /\ action.target \notin host.broken
    THEN Passed(action) ELSE Failed(action, "VALIDATION_FAILURE")

ApplyVerifyGh(action, inv, host) ==
    CASE ~ToolPresent(inv, "gh") -> Skipped(action, "PRIVILEGE_REQUIRED")
      [] ToolPresent(inv, "gh") -> IF host.ghAuth THEN Passed(action)
                                   ELSE Failed(action, "AUTH_FAILURE")

\* The handler looks at the host again and compares with the inventory.
ApplyRediscover(action, inv, host) ==
    LET service == DiscoverService(host, "ollama")
        changed == inv.runtime.manager # service.manager \/ inv.runtime.reachable # host.answers
    IN  IF action.desired = "running" /\ service.state # "running" /\ ~host.answers
        THEN Answer(action, "FAIL", "SERVICE_FAILURE", changed, FALSE)
        ELSE Answer(action, "PASS", NoClass, changed, FALSE)

\* The worker never stops itself: its own restart is left to the supervisor.
ApplyRestart(action, inv, host) ==
    LET manager == inv.services[action.target].manager
    IN  CASE manager = "absent" -> Failed(action, "SERVICE_FAILURE")
          [] manager = "unknown" -> Skipped(action, "CONFIGURATION_DRIFT")
          [] manager = "process" -> Skipped(action, "UNSUPPORTED_ACTION")
          [] manager \in {"systemd-system", "windows-service"} ->
                 Skipped(action, "PRIVILEGE_REQUIRED")
          [] manager = "systemd-user" /\ action.target # "fabric-worker" ->
                 IF "restart" \in host.broken THEN Failed(action, "SERVICE_FAILURE")
                 ELSE Changed(action, FALSE)
          [] OTHER -> Changed(action, TRUE)

\* A staged artifact is what resolve_upgrade_source finds for the version.
ApplyUpdateFabric(action, inv, host) ==
    LET found == host.staged = action.desired
    IN  CASE inv.version = action.desired /\ (~found \/ action.authorization \notin {"none", "operator"}) ->
                 Passed(action)
          [] action.desired \in REQUIREMENT_LEVELS -> Skipped(action, "VERSION_CONFLICT")
          [] inv.version # action.desired /\ ~found -> Skipped(action, "HUMAN_REQUIRED")
          [] OTHER -> IF host.sound /\ "install" \notin host.broken THEN Changed(action, TRUE)
                      ELSE Failed(action, "PACKAGE_FAILURE")

ApplyPullModel(action, inv, host) ==
    CASE ~inv.runtime.present -> Failed(action, "MODEL_FAILURE")
      [] inv.runtime.present /\ "ollama" \notin host.path -> Skipped(action, "UNSUPPORTED_ACTION")
      [] inv.runtime.present /\ "ollama" \in host.path ->
           CASE action.authorization # "none" -> Skipped(action, "HUMAN_REQUIRED")
             [] action.authorization = "none" ->
                  IF "pull" \in host.broken THEN Failed(action, "MODEL_FAILURE")
                  ELSE Changed(action, FALSE)

ApplyAction(action, inv, host) ==
    CASE action.authorization = "privilege" /\ action.action \notin {"verify", "rediscover"} ->
           Skipped(action, "PRIVILEGE_REQUIRED")
      [] action.authorization = "human" -> Skipped(action, "HUMAN_REQUIRED")
      [] OTHER ->
           CASE action.provider = "inspect" -> ApplyInspectTool(action, inv)
             [] action.provider \in {"git", "forge", "python"} -> ApplyVerifyTool(action, inv, host)
             [] action.provider = "gh" -> ApplyVerifyGh(action, inv, host)
             [] action.provider = "runtime" -> ApplyRediscover(action, inv, host)
             [] action.provider = "restart" -> ApplyRestart(action, inv, host)
             [] action.provider = "fabric" -> ApplyUpdateFabric(action, inv, host)
             [] action.provider = "model" -> ApplyPullModel(action, inv, host)

(***************************************************************************)
(* Plans and receipts (maintenance.py).                                    *)
(***************************************************************************)
AdvisoryTarget(target) == target \in ADVISORY_PACKAGES \cup ADVISORY_TOOLS

\* The plan is always built for zero active jobs: every caller passes none.
PreflightPassed(inv) == inv.health.disk # "critical" /\ inv.health.ram # "critical"

BuildMaintenancePlan(desired, inv, classes) ==
    LET actions == {PlanAction(c) : c \in DiffDesiredState(desired, inv, classes)}
    IN  [actions |-> actions, preflight_passed |-> PreflightPassed(inv),
         require_drain |-> desired.require_drain /\ actions # {}]

\* Advisory verifies are never sent to the worker.
WorkerActions(actions) ==
    {a \in actions : ~(AdvisoryTarget(a.target) /\ a.action = "verify")}

CompleteReceipt(plan, results) ==
    LET failures == {r \in results : r.disposition = "FAIL" /\ ~AdvisoryTarget(r.target)}
    IN  CASE results = {} /\ plan.actions = {} -> "NO_CHANGES"
          [] failures # {} -> "FAIL"
          [] results # {} /\ \A r \in results : r.disposition = "SKIPPED" ->
                 IF \E r \in results : r.failure_class # NoClass THEN "UNKNOWN" ELSE "PASS"
          [] OTHER -> "PASS"

(***************************************************************************)
(* certify_inventory: every layer the worker claims, and inference when a  *)
(* profile asks for it.                                                    *)
(***************************************************************************)
InferenceRequired(profiles) ==
    \E i \in DOMAIN profiles : profiles[i] \in {"mncs-inference-worker", "mncs-mnel-worker"}

\* A tool is tested only where it is advertised; a missing GitHub login is
\* conformance, not health.
CertifyTool(inv, host, name) ==
    IF ToolPresent(inv, name) /\ name \in host.broken THEN "FAIL" ELSE "PASS"

CertifyRuntime(inv, required) ==
    CASE ~inv.runtime.present -> IF required THEN "FAIL" ELSE "PASS"
      [] inv.runtime.present -> IF inv.runtime.reachable THEN "PASS" ELSE "FAIL"

CertifyInference(inv, host, required) ==
    CASE ~required -> "PASS"
      [] required /\ ~inv.runtime.present -> "FAIL"
      [] required /\ inv.runtime.present /\ ~inv.runtime.reachable -> "UNKNOWN"
      [] required /\ inv.runtime.present /\ inv.runtime.reachable ->
           CASE inv.runtime.models = {} -> "UNKNOWN"
             [] inv.runtime.models # {} -> IF "inference" \in host.broken THEN "FAIL" ELSE "PASS"

CertifyInventory(inv, profiles, host) ==
    LET required == InferenceRequired(profiles)
        layers == {CertifyTool(inv, host, t) : t \in {"python", "git", "forge"}}
                    \cup {CertifyRuntime(inv, required), CertifyInference(inv, host, required)}
    IN  CASE "FAIL" \in layers -> "FAILED"
          [] "FAIL" \notin layers /\ "UNKNOWN" \in layers -> "UNKNOWN"
          [] OTHER -> "CERTIFIED"
=============================================================================
