------------------------------ MODULE Inventory ------------------------------
(***************************************************************************)
(* What a worker reports about its own host.                               *)
(*                                                                         *)
(* A Host is the ground truth: which executables are there, what the       *)
(* service manager knows, whether the runtime answers.                     *)
(* CollectWorkerInventory is what the worker process makes of it and sends *)
(* to the controller, where desired state, certification and maintenance   *)
(* are decided from it.  Paths, sizes, hardware and repositories are left  *)
(* out: no decision of the controller reads them.                          *)
(***************************************************************************)
EXTENDS Integers, FiniteSets

\* The tools a requirement of the catalog names.
TOOLS == {"git", "gh", "python", "gcc", "rustc", "cargo", "forge"}
SERVICES == {"fabric-worker", "ollama"}
MANAGERS == {"systemd-system", "systemd-user", "windows-service",
             "windows-scheduled-task"}
UPDATE_CLASSES == {"A", "B", "C", "D", "E"}

(***************************************************************************)
(* discover_service: the system manager before the user's, then the        *)
(* Windows service, the scheduled task, a process that listens on the      *)
(* service's port, and last a bare executable.  A listening port makes a   *)
(* scheduled task running whatever its own status says.                    *)
(***************************************************************************)
Found(host, name, mgr) == {u \in host.units[name] : u.manager = mgr}

Service(mgr, state) == [present |-> mgr # "absent", manager |-> mgr, state |-> state]

DiscoverService(host, name) ==
    LET first == {m \in MANAGERS : Found(host, name, m) # {}}
        state(m) == (CHOOSE u \in Found(host, name, m) : TRUE).state
    IN  CASE "systemd-system" \in first -> Service("systemd-system", state("systemd-system"))
          [] first \cap {"systemd-system", "systemd-user"} = {"systemd-user"} ->
                 Service("systemd-user", state("systemd-user"))
          [] first \cap {"systemd-system", "systemd-user"} = {} /\ "windows-service" \in first ->
                 Service("windows-service", state("windows-service"))
          [] first = {"windows-scheduled-task"} ->
                 Service("windows-scheduled-task",
                         IF "fabric-worker" \in host.listening THEN "running"
                         ELSE state("windows-scheduled-task"))
          [] first = {} /\ name \in host.listening -> Service("process", "running")
          [] first = {} /\ name \notin host.listening /\ name \in host.path ->
                 Service("unknown", "unknown")
          [] OTHER -> Service("absent", "absent")

(***************************************************************************)
(* The one runtime the worker looks for.  A runtime that answers over HTTP *)
(* is present and process-managed even when no manager knows it.           *)
(***************************************************************************)
CollectRuntime(host) ==
    LET service == DiscoverService(host, "ollama")
        managed == IF host.answers /\ ~service.present THEN Service("process", "running")
                   ELSE service
    IN  [present   |-> "ollama" \in host.path \/ host.answers \/ managed.present,
         manager   |-> managed.manager,
         reachable |-> host.answers,
         models    |-> IF host.answers THEN host.models ELSE {}]

\* A tool is found on the search path; one that printed nothing has no version.
CollectTools(host) ==
    [t \in TOOLS |-> CASE t = "python" -> "versioned"
                       [] t # "python" /\ t \notin host.path -> "absent"
                       [] t # "python" /\ t \in host.path ->
                              IF t \in host.mute THEN "unversioned" ELSE "versioned"]

\* The GitHub credential: the status command answers and says so, or not.
CollectCredentials(host) ==
    CASE "gh" \in host.path /\ host.ghAuth -> "PASS"
      [] "gh" \in host.path /\ ~host.ghAuth -> "AUTH_REQUIRED"
      [] OTHER -> "NOT_INSTALLED"

\* Used over total in percent: at 95 critical, at 85 elevated.
Pressure(percent) ==
    CASE percent = -1 -> "unknown"
      [] percent >= 95 -> "critical"
      [] percent >= 85 /\ percent < 95 -> "elevated"
      [] OTHER -> "ok"

CollectHealth(host, active_jobs) ==
    [ram |-> Pressure(host.ram), disk |-> Pressure(host.disk),
     maintenance_eligible |-> active_jobs = 0 /\ ~host.reboot]

\* The report: the version is that of the process that answers, not of the
\* package installed beside it.
CollectWorkerInventory(host, active_jobs) ==
    [version     |-> host.version,
     harness     |-> host.harness,
     tools       |-> CollectTools(host),
     runtime     |-> CollectRuntime(host),
     services    |-> [s \in SERVICES |-> DiscoverService(host, s)],
     credential  |-> CollectCredentials(host),
     health      |-> CollectHealth(host, active_jobs)]
=============================================================================
