-------------------------- MODULE CapabilityPolicy --------------------------
(***************************************************************************)
(* The policy of the capability broker (capability_broker.py): families and *)
(* operations, argument shapes, host profiles, leases, what the Linux and   *)
(* the Windows adapters do to the host, and the plan of a reconciliation.   *)
(* A text argument is a name; the shape of the arguments is the set of      *)
(* their field names.  The host is a function from resources <<kind, name>> *)
(* to values, "absent" where it says nothing.                               *)
(***************************************************************************)
EXTENDS Naturals, Sequences, FiniteSets

None == "none"

CAPABILITY_OPERATIONS == [
    package_management |-> {"install", "remove", "query", "refresh"},
    service_management |-> {"start", "stop", "restart", "enable", "disable", "status"},
    system_reboot |-> {"request"},
    system_shutdown |-> {"request"},
    kernel_parameter_management |-> {"get", "set"},
    kernel_module_management |-> {"load", "unload", "status"},
    performance_counters |-> {"status", "enable", "disable"},
    ebpf |-> {"status", "enable", "disable"},
    device_access |-> {"inspect"},
    mount_management |-> {"mount", "unmount", "list"},
    namespace_management |-> {"create", "cleanup", "status"},
    cgroup_management |-> {"create", "set", "cleanup", "status"},
    experiment_directory_management |-> {"create", "cleanup", "inspect"},
    experiment_user_management |-> {"create", "remove", "inspect"},
    container_management |-> {"start", "stop", "remove", "status"},
    driver_management |-> {"install", "remove", "start", "stop", "status"},
    firewall_management |-> {"add-rule", "remove-rule", "status"},
    boot_management |-> {"inspect", "configure"},
    hardware_observation |-> {"collect"},
    system_observation |-> {"collect"}]

CAPABILITY_FAMILIES == DOMAIN CAPABILITY_OPERATIONS

LINUX_CAPABILITIES == CAPABILITY_FAMILIES

WINDOWS_CAPABILITIES == CAPABILITY_FAMILIES \
    {"kernel_parameter_management", "kernel_module_management", "performance_counters",
     "ebpf", "mount_management", "namespace_management", "cgroup_management",
     "boot_management"}

HIGH_RISK_CAPABILITIES == CAPABILITY_FAMILIES \
    {"kernel_parameter_management", "performance_counters", "ebpf", "device_access",
     "experiment_directory_management", "hardware_observation", "system_observation"}

HIGH_RISK_OPERATIONS == UNION {CAPABILITY_OPERATIONS[c] : c \in CAPABILITY_FAMILIES} \
    {"query", "status", "get", "inspect", "list", "collect"}

\* validate_capability_arguments: the sets of field names an operation accepts
ArgumentFields(cap, op) ==
    CASE cap = "package_management" -> {IF op = "refresh" THEN {} ELSE {"packages"}}
      [] cap = "service_management" ->
            {{"service"}} \cup IF op = "status" THEN {{"service", "state"}} ELSE {}
      [] cap \in {"system_reboot", "system_shutdown"} -> SUBSET {"reason", "delay_seconds"}
      [] cap = "kernel_parameter_management" ->
            {IF op = "get" THEN {"key"} ELSE {"key", "value"}}
      [] cap = "kernel_module_management" -> {{"module"}}
      [] cap \in {"performance_counters", "ebpf"} -> {{}}
      [] cap \in {"device_access", "experiment_directory_management"} -> {{"path"}}
      [] cap = "mount_management" ->
            {CASE op = "mount" -> {"source", "target", "filesystem", "options"}
               [] op = "unmount" -> {"target"}
               [] OTHER -> {}}
      [] cap = "namespace_management" -> {{"name", "kind"}}
      [] cap = "cgroup_management" ->
            IF op = "set" THEN {{"name"} \cup s : s \in SUBSET {"cpu_max", "memory_max"} \ {{}}}
            ELSE {{"name"}}
      [] cap = "experiment_user_management" -> {{"username"}}
      [] cap = "container_management" -> {{"name"}}
      [] cap = "driver_management" -> {IF op \in {"install", "remove"} THEN {"path"} ELSE {"name"}}
      [] cap = "firewall_management" ->
            {IF op = "status" THEN {}
             ELSE {"name", "direction", "action", "protocol", "local_port"}}
      [] cap = "boot_management" -> {IF op = "inspect" THEN {} ELSE {"setting", "value"}}
      [] OTHER -> {{"observations"}}

\* A request; its identity is the record, requested_at included
Request(worker, cap, op, fields, name, value, exp, lease, at) ==
    [worker |-> worker, cap |-> cap, op |-> op, fields |-> fields, name |-> name,
     value |-> value, exp |-> exp, lease |-> lease, at |-> at]

\* validate_capability_request with the worker the broker is bound to
RequestValid(r, worker) ==
    /\ r.worker = worker
    /\ r.cap \in CAPABILITY_FAMILIES
    /\ r.op \in CAPABILITY_OPERATIONS[r.cap]
    /\ r.fields \in ArgumentFields(r.cap, r.op)

-----------------------------------------------------------------------------
\* build_host_privilege_profile: None asks for the default
Profile(worker, mode, platform, allowed, leases, services, automatic, cgroups) ==
    LET caps == IF allowed # {} THEN allowed
                ELSE IF platform = "windows" THEN WINDOWS_CAPABILITIES ELSE LINUX_CAPABILITIES
        defaultLeases == IF mode = "unrestricted" THEN {} ELSE HIGH_RISK_CAPABILITIES \cap caps
    IN  [worker |-> worker, mode |-> mode, platform |-> platform, allowed |-> caps,
         leaseRequired |-> IF leases = {} THEN defaultLeases ELSE leases,
         services |-> services, automatic |-> automatic, cgroups |-> cgroups]

\* validate_host_privilege_profile and the checks of its builder
ProfileValid(p) ==
    /\ p.mode \in {"unrestricted", "capability-broker", "windows-capability-broker"}
    /\ p.platform \in {"linux", "windows"}
    /\ p.mode = "windows-capability-broker" => p.platform = "windows"
    /\ p.allowed # {} /\ p.allowed \subseteq CAPABILITY_FAMILIES
    /\ p.leaseRequired \subseteq p.allowed

Allows(p, cap, op) == cap \in p.allowed /\ op \in CAPABILITY_OPERATIONS[cap]

RequiresLease(p, cap, op) ==
    p.mode # "unrestricted" /\ cap \in p.leaseRequired /\ op \in HIGH_RISK_OPERATIONS

\* build_capability_lease: every operation of the named capabilities
LeaseRecord(id, worker, exp, caps, granted, ttl) ==
    [id |-> id, kind |-> "grant", worker |-> worker, exp |-> exp, caps |-> caps,
     ops |-> [c \in caps |-> CAPABILITY_OPERATIONS[c]], granted |-> granted,
     expires |-> granted + ttl]

\* validate_capability_lease: granted and expires are within MAX_LEASE_SECONDS
LeaseValid(l, maxTtl) ==
    /\ l.caps # {} /\ l.caps \subseteq CAPABILITY_FAMILIES
    /\ DOMAIN l.ops = l.caps
    /\ \A c \in l.caps : l.ops[c] # {} /\ l.ops[c] \subseteq CAPABILITY_OPERATIONS[c]
    /\ l.expires > l.granted /\ l.expires - l.granted <= maxTtl

-----------------------------------------------------------------------------
\* Adapters.  What a fixed command may do: it runs, fails, overruns its time
\* (its effect done or not), or its executable is missing.
ToolOutcomes == {"ok", "failed", "timeout", "missing"}

Body(outcome, changed, data) == [outcome |-> outcome, changed |-> changed, data |-> data]

\* _result_from_process
ProcessBody(tool, changed, data) ==
    CASE tool = "ok" -> Body("PASS", changed, data)
      [] tool = "failed" -> Body("FAIL", FALSE, data)
      [] OTHER -> Body("UNKNOWN", FALSE, data)

Read(host, res) == IF res \in DOMAIN host THEN host[res] ELSE "absent"
Write(host, res, v) == [x \in DOMAIN host \cup {res} |-> IF x = res THEN v ELSE host[x]]

\* The resource an operation reads or writes
Resource(r) ==
    CASE r.cap = "package_management" -> <<"package", r.name>>
      [] r.cap = "service_management" ->
            IF r.op \in {"enable", "disable"} \/ r.value \in {"enabled", "disabled"}
            THEN <<"unit", r.name>> ELSE <<"service", r.name>>
      [] r.cap \in {"system_reboot", "system_shutdown"} -> <<"power", "host">>
      [] r.cap = "kernel_parameter_management" -> <<"sysctl", r.name>>
      [] r.cap = "performance_counters" -> <<"sysctl", "kernel.perf_event_paranoid">>
      [] r.cap = "ebpf" -> <<"sysctl", "kernel.unprivileged_bpf_disabled">>
      [] OTHER -> <<r.cap, r.name>>

WrittenValue(r) ==
    CASE r.op = "set" -> r.value
      [] r.cap = "performance_counters" -> IF r.op = "enable" THEN "-1" ELSE "2"
      [] r.cap = "ebpf" -> IF r.op = "enable" THEN "0" ELSE "1"
      [] r.op = "install" -> "installed"
      [] r.op \in {"start", "restart"} -> "active"
      [] r.op = "stop" -> "inactive"
      [] r.op = "enable" -> "enabled"
      [] r.op = "disable" -> "disabled"
      [] r.op = "load" -> "loaded"
      [] r.op = "create" -> "directory"
      [] r.op = "request" -> IF r.cap = "system_reboot" THEN "rebooting" ELSE "poweroff"
      [] OTHER -> "absent"

\* DEFAULT_SYSCTL_ALLOWLIST, as far as the models name its keys
Sysctls == {"kernel.perf_event_paranoid", "kernel.unprivileged_bpf_disabled", "vm.nr_hugepages"}

\* Operations the Linux adapter refuses with a ValidationError: an unlisted
\* service, an unlisted sysctl, a path outside the roots
LinuxRefuses(p, r) ==
    \/ r.cap = "service_management" /\ p.mode # "unrestricted" /\ r.name \notin p.services
    \/ Resource(r)[1] = "sysctl" /\ Resource(r)[2] \notin Sysctls
    \/ r.cap \in {"experiment_directory_management", "device_access"} /\ r.value = "outside"

\* DEFAULT_OBSERVATION_PATHS
Observations == {"cpuinfo", "meminfo", "perf_event_paranoid", "bpf_disabled", "cpu_online"}

\* What it answers without touching the host: families it has no adapter for, a
\* delayed reboot, a cgroup without a configured root, an observation it does
\* not know
LinuxSkips(p, r) ==
    \/ r.cap \in {"mount_management", "namespace_management", "experiment_user_management",
                  "container_management", "driver_management", "firewall_management",
                  "boot_management"}
    \/ r.cap \in {"system_reboot", "system_shutdown"} /\ r.value = "delayed"
    \/ r.cap = "cgroup_management" /\ ~p.cgroups
    \/ r.cap \in {"hardware_observation", "system_observation"} /\ r.name \notin Observations

ReadOperations == {"query", "status", "get", "inspect", "list", "collect"}

\* What may come of a read: the families read through the file system run no
\* command
ReadTools(cap) ==
    CASE cap \in {"experiment_directory_management", "cgroup_management"} -> {"ok", "failed"}
      [] cap \in {"device_access", "hardware_observation", "system_observation"} -> {"ok", "missing"}
      [] OTHER -> ToolOutcomes

\* Reading a resource.  systemctl is-active and is-enabled exit with an error for
\* an inactive or disabled service, whose state is still in the data.  A package
\* is reported installed when its query exits with 0: dpkg-query does for any
\* package the host has a status of, one whose configuration is left included.
LinuxRead(r, v, tool) ==
    IF tool # "ok" THEN ProcessBody(tool, FALSE, None)
    ELSE IF r.cap = "service_management" /\ v \notin {"active", "enabled"} THEN Body("FAIL", FALSE, v)
    ELSE IF r.cap = "package_management" /\ v # "absent" THEN Body("PASS", FALSE, "installed")
    ELSE Body("PASS", FALSE, v)

\* Directories and cgroups are written through the file system: a failure is an
\* OSError, and an operation that finds its work done changes nothing.  The
\* limits of a cgroup are files in its directory.
FileSystemWrite(r, host) ==
    LET v == Read(host, Resource(r))
        want == WrittenValue(r)
    IN  IF v = "file" \/ (r.op = "set" /\ v # "directory")
        THEN {<<Body("FAIL", FALSE, None), host>>}
        ELSE IF r.op = "set"
        THEN {<<Body("PASS", TRUE, None), Write(host, <<"limits", r.name>>, want)>>,
              <<Body("FAIL", FALSE, None), host>>}
        ELSE {<<Body("PASS", v # want, None), Write(host, Resource(r), want)>>,
              <<Body("FAIL", FALSE, None), host>>}

\* A fixed command that would leave the host as after
Command(host, after) ==
    {<<ProcessBody("ok", TRUE, None), after>>, <<ProcessBody("timeout", TRUE, None), after>>}
    \cup {<<ProcessBody(tool, TRUE, None), host>> : tool \in ToolOutcomes \ {"ok"}}

\* LinuxCapabilityBroker.execute: the results it may return and the host it
\* may leave behind.  A removed package may leave its configuration.
LinuxExecute(p, r, host) ==
    LET res == Resource(r)
        after == IF r.op = "refresh" THEN host ELSE Write(host, res, WrittenValue(r))
    IN  IF LinuxRefuses(p, r) THEN {<<Body("FAIL", FALSE, None), host>>}
        ELSE IF LinuxSkips(p, r) THEN {<<Body("SKIPPED", FALSE, None), host>>}
        ELSE IF r.op \in ReadOperations
        THEN {<<LinuxRead(r, Read(host, res), tool), host>> : tool \in ReadTools(r.cap)}
        ELSE IF r.cap \in {"experiment_directory_management", "cgroup_management"}
        THEN FileSystemWrite(r, host)
        ELSE Command(host, after)
             \cup (IF r.cap = "package_management" /\ r.op = "remove"
                   THEN Command(host, Write(host, res, "config-files")) ELSE {})

WindowsRefuses(p, r) ==
    \/ r.cap = "service_management" /\ p.mode # "unrestricted" /\ r.name \notin p.services
    \/ r.cap \in {"experiment_directory_management", "driver_management"} /\ r.value = "outside"

WindowsSkips(r) ==
    \/ r.cap \in {"system_reboot", "system_shutdown"} /\ r.value = "delayed"
    \/ r.cap \notin {"service_management", "system_reboot", "system_shutdown",
                     "package_management", "experiment_directory_management",
                     "firewall_management", "driver_management"}
    \/ r.cap = "driver_management" /\ r.op \notin {"install", "remove"}

\* WindowsCapabilityBroker.execute: a query returns no state, a restart stops
\* the service before it starts it, and seven families have no adapter
WindowsExecute(p, r, host) ==
    LET res == Resource(r)
        after == IF r.op = "refresh" THEN host ELSE Write(host, res, WrittenValue(r))
        stopped == Write(host, res, "inactive")
    IN  IF WindowsRefuses(p, r) THEN {<<Body("FAIL", FALSE, None), host>>}
        ELSE IF WindowsSkips(r) THEN {<<Body("SKIPPED", FALSE, None), host>>}
        ELSE IF r.cap = "experiment_directory_management" /\ r.op # "inspect"
        THEN FileSystemWrite(r, host)
        ELSE IF r.op \in ReadOperations
        THEN {<<ProcessBody(tool, FALSE,
                  IF r.cap = "experiment_directory_management" THEN Read(host, res) ELSE None),
                host>> : tool \in ReadTools(r.cap)}
        ELSE IF r.op = "restart" THEN Command(host, after) \cup Command(stopped, after)
        ELSE Command(host, after)

AdapterExecute(p, r, host) ==
    IF p.platform = "windows" THEN WindowsExecute(p, r, host) ELSE LinuxExecute(p, r, host)

-----------------------------------------------------------------------------
\* Experiment requirements: sequences of packages, of <<key, value>> and of
\* <<service, state>>, in the canonical (sorted) order of the document
Requirements(worker, exp, caps, packages, sysctl, services, directory, reboot, shutdown) ==
    [worker |-> worker, exp |-> exp, caps |-> caps, packages |-> packages, sysctl |-> sysctl,
     services |-> services, directory |-> directory, reboot |-> reboot, shutdown |-> shutdown]

IsSequence(s) == Len(s) \in Nat /\ s = [i \in 1..Len(s) |-> s[i]]

\* The entries of a JSON object: one per key
IsMapping(s) ==
    /\ IsSequence(s)
    /\ \A i, j \in DOMAIN s : s[i][1] = s[j][1] => i = j

\* validate_experiment_requirements
RequirementsValid(q, worker) ==
    /\ q.worker = worker
    /\ IsSequence(q.caps) /\ IsSequence(q.packages)
    /\ IsMapping(q.sysctl) /\ IsMapping(q.services)
    /\ \A i \in DOMAIN q.caps : q.caps[i] \in CAPABILITY_FAMILIES
    /\ \A i \in DOMAIN q.services : q.services[i][2] \in {"running", "stopped", "enabled", "disabled"}
    /\ ~(q.reboot /\ q.shutdown)

\* The capabilities of a reconciliation that the profile wants a lease for
RiskyCapabilities(p, q) ==
    p.leaseRequired \cap
        ({q.caps[i] : i \in DOMAIN q.caps}
         \cup (IF q.packages # <<>> THEN {"package_management"} ELSE {})
         \cup (IF q.services # <<>> THEN {"service_management"} ELSE {})
         \cup (IF q.reboot THEN {"system_reboot"} ELSE {})
         \cup (IF q.shutdown THEN {"system_shutdown"} ELSE {}))

\* One item of a plan: the request that would establish it, the operation that
\* probes it first (None: it is scheduled without a probe), and the data a
\* compliant probe returns
Item(cap, op, fields, name, value, query, queryFields, queryValue, want) ==
    [cap |-> cap, op |-> op, fields |-> fields, name |-> name, value |-> value,
     query |-> query, queryFields |-> queryFields, queryValue |-> queryValue, want |-> want]

ServiceOperation(state) ==
    CASE state = "running" -> "start" [] state = "stopped" -> "stop"
      [] state = "enabled" -> "enable" [] OTHER -> "disable"

ServiceWanted(state) ==
    {state} \cup CASE state = "running" -> {"active"} [] state = "stopped" -> {"inactive"}
                   [] OTHER -> {}

\* The capabilities asked for that the profile does not allow, in their order
Denied(p, q) ==
    LET at == {i \in DOMAIN q.caps : q.caps[i] \notin p.allowed}
    IN  [n \in 1..Cardinality(at) |->
            q.caps[CHOOSE i \in at : Cardinality({j \in at : j <= i}) = n]]

\* The items of a reconciliation in the order of the code
ReconcileItems(p, q) ==
    LET denied == Denied(p, q)
    IN  [i \in DOMAIN denied |->
            Item(denied[i], "status", {}, None, None, None, {}, None, {})]
        \o [i \in DOMAIN q.packages |->
            Item("package_management", "install", {"packages"}, q.packages[i], None,
                 "query", {"packages"}, None, {"installed"})]
        \o [i \in DOMAIN q.sysctl |->
            Item("kernel_parameter_management", "set", {"key", "value"}, q.sysctl[i][1],
                 q.sysctl[i][2], "get", {"key"}, None, {q.sysctl[i][2]})]
        \o [i \in DOMAIN q.services |->
            Item("service_management", ServiceOperation(q.services[i][2]), {"service"},
                 q.services[i][1], None, "status", {"service", "state"}, q.services[i][2],
                 ServiceWanted(q.services[i][2]))]
        \o (IF q.directory = None THEN <<>> ELSE
            <<Item("experiment_directory_management", "create", {"path"}, q.directory, None,
                   "inspect", {"path"}, None, {"directory"})>>)
        \o (IF q.reboot THEN
            <<Item("system_reboot", "request", {}, None, None, None, {}, None, {})>> ELSE <<>>)
        \o (IF q.shutdown THEN
            <<Item("system_shutdown", "request", {}, None, None, None, {}, None, {})>> ELSE <<>>)

\* schedule_if_needed: no probe, a probe that did not pass, or a probe that
\* shows another state
NeedsWork(item, body) == body.outcome # "PASS" \/ body.data \notin item.want
=============================================================================
