---------------------------- MODULE DesiredState ----------------------------
(***************************************************************************)
(* Desired state: what an operator wants of a worker, and how it differs   *)
(* from what the worker reports.                                           *)
(*                                                                         *)
(* Profiles name requirements; the requirements of the assigned profiles,  *)
(* the worker's overrides and its models are merged by (kind, name).  Diff *)
(* is the maintenance view of the result, EvaluateConformance the          *)
(* scheduling view: a requirement that blocks keeps the worker off READY.  *)
(***************************************************************************)
EXTENDS Inventory, Sequences

CONSTANT NoVersion     \* a requirement or a worker without a version pin

REQUIREMENT_KINDS == {"tool", "runtime", "service", "model", "package", "config"}
REQUIREMENT_LEVELS == {"present", "supported-current", "mncs-supported", "running", "absent"}

Req(kind, name, class, level) ==
    [kind |-> kind, name |-> name, class |-> class, level |-> level, version |-> NoVersion]

Baseline == {Req("package", "fabric-worker", "A", "supported-current"),
             Req("package", "local-harness", "A", "present"),
             Req("tool", "git", "B", "present"),
             Req("tool", "gh", "B", "supported-current"),
             Req("tool", "python", "B", "present"),
             Req("service", "fabric-worker", "E", "running")}

PROFILE_CATALOG ==
    [p \in {"mncs-linux-worker", "mncs-windows-worker", "mncs-inference-worker",
            "mncs-build-worker", "mncs-ravel-worker", "mncs-mnel-worker"} |->
       CASE p \in {"mncs-linux-worker", "mncs-windows-worker"} -> Baseline
         [] p = "mncs-inference-worker" ->
              {Req("runtime", "ollama", "C", "mncs-supported"),
               Req("service", "ollama", "C", "running")}
         [] p = "mncs-build-worker" ->
              {Req("tool", t, "B", "present") : t \in {"git", "gcc", "rustc", "cargo"}}
                \cup {Req("tool", "forge", "B", "mncs-supported")}
         [] p = "mncs-ravel-worker" ->
              {Req("package", "fabric-worker", "A", "supported-current"),
               Req("tool", "git", "B", "present"), Req("tool", "python", "B", "present")}
         [] p = "mncs-mnel-worker" ->
              {Req("package", "fabric-worker", "A", "supported-current"),
               Req("runtime", "ollama", "C", "mncs-supported")}]

RequirementOK(r) ==
    r.kind \in REQUIREMENT_KINDS /\ r.level \in REQUIREMENT_LEVELS /\ r.class \in UPDATE_CLASSES

ASSUME CatalogAssumption ==
    \A p \in DOMAIN PROFILE_CATALOG : \A r \in PROFILE_CATALOG[p] : RequirementOK(r)

\* A later requirement for the same thing replaces one of its rank or below.
Rank(level) == CASE level = "present" -> 1
                 [] level = "supported-current" -> 2
                 [] level = "mncs-supported" -> 3
                 [] level = "running" -> 4
                 [] level = "absent" -> 5

MergeRequirements(groups) ==
    LET at == {x \in (DOMAIN groups) \X UNION {groups[i] : i \in DOMAIN groups} :
                   x[2] \in groups[x[1]]}
        beats(x, y) == /\ x[2].kind = y[2].kind /\ x[2].name = y[2].name
                       /\ \/ Rank(x[2].level) > Rank(y[2].level)
                          \/ Rank(x[2].level) = Rank(y[2].level) /\ x[1] > y[1]
    IN  {x[2] : x \in {y \in at : \A z \in at : ~beats(z, y)}}

\* Every profile of the catalog wants a drain before changes, and certification.
ResolveDesiredState(profiles, overrides, models, pin) ==
    [profiles |-> profiles,
     requirements |->
        MergeRequirements(<<MergeRequirements([i \in DOMAIN profiles |->
                               PROFILE_CATALOG[profiles[i]]] \o <<overrides>>), models>>),
     supported_current |-> pin,
     require_drain |-> TRUE]

(***************************************************************************)
(* _actual_for: what the inventory shows of one requirement.               *)
(***************************************************************************)
ActualTool(inv, r) ==
    CASE r.name \notin TOOLS \/ (r.name \in TOOLS /\ inv.tools[r.name] = "absent") -> "absent"
      [] r.name \in TOOLS /\ inv.tools[r.name] = "unversioned"
           /\ r.level \in {"supported-current", "mncs-supported"} -> "present-unversioned"
      [] OTHER -> "present"

ActualRuntime(inv, r) ==
    CASE r.name # "ollama" \/ ~inv.runtime.present -> "absent"
      [] r.name = "ollama" /\ inv.runtime.present /\ ~inv.runtime.reachable
           /\ r.level = "running" -> "present-unreachable"
      [] r.name = "ollama" /\ inv.runtime.present /\ ~inv.runtime.reachable
           /\ r.level = "mncs-supported" -> "present-unverified"
      [] OTHER -> "present"

ActualService(inv, r) ==
    IF r.name \notin SERVICES \/ (r.name \in SERVICES /\ ~inv.services[r.name].present)
    THEN "absent" ELSE inv.services[r.name].state

Pin(desired, r) == IF r.version # NoVersion THEN r.version ELSE desired.supported_current

ActualPackage(inv, desired, r) ==
    CASE r.name = "fabric-worker" ->
           IF r.level = "supported-current" /\ Pin(desired, r) # NoVersion
              /\ inv.version # Pin(desired, r)
           THEN "version-drift" ELSE "installed"
      [] r.name = "local-harness" -> IF inv.harness THEN "installed" ELSE "absent"
      [] OTHER -> "unknown"

ActualFor(inv, desired, r) ==
    CASE r.kind = "tool" -> ActualTool(inv, r)
      [] r.kind = "runtime" -> ActualRuntime(inv, r)
      [] r.kind = "service" -> ActualService(inv, r)
      [] r.kind = "model" -> IF r.name \in inv.runtime.models THEN "present" ELSE "absent"
      [] r.kind = "package" -> ActualPackage(inv, desired, r)
      [] r.kind = "config" -> "unknown"

IsCompliant(r, actual) ==
    CASE r.level = "absent" -> actual = "absent"
      [] r.level = "running" -> actual \in {"running", "present"}
      [] OTHER -> actual \notin {"absent", "present-unverified", "present-unreachable",
                                 "version-drift"}

AuthorizationFor(r, actual) ==
    CASE r.class = "D" -> "privilege"
      [] r.class # "D" /\ r.kind = "package" /\ r.name = "fabric-worker"
           /\ actual # "absent" -> "operator"
      [] r.class # "D" /\ r.kind \in {"tool", "package"} /\ actual = "absent" -> "privilege"
      [] r.class # "D" /\ r.kind = "model" -> "operator"
      [] OTHER -> "none"

\* The value an action is asked to reach: the level, or the version pinned.
DesiredValue(desired, r) ==
    IF r.kind = "package" /\ r.name = "fabric-worker" /\ Pin(desired, r) # NoVersion
    THEN Pin(desired, r) ELSE r.level

DiffDesiredState(desired, inv, classes) ==
    {[req |-> r, actual |-> ActualFor(inv, desired, r),
      desired |-> DesiredValue(desired, r),
      authorization |-> AuthorizationFor(r, ActualFor(inv, desired, r))] :
        r \in {q \in desired.requirements :
                 q.class \in classes /\ ~IsCompliant(q, ActualFor(inv, desired, q))}}

(***************************************************************************)
(* Conformance (conformance.py).  Items that need privilege or a person    *)
(* stay visible without blocking; build tools block only a build worker.   *)
(***************************************************************************)
ADVISORY_PACKAGES == {"local-harness"}
ADVISORY_TOOLS == {"gh"}
BUILD_ONLY_TOOLS == {"gcc", "rustc", "cargo", "forge"}

RequirementBlocksReady(desired, r) ==
    /\ ~(r.kind = "package" /\ r.name \in ADVISORY_PACKAGES)
    /\ ~(r.kind = "tool" /\ r.name \in ADVISORY_TOOLS)
    /\ r.kind = "tool" /\ r.name \in BUILD_ONLY_TOOLS =>
           \E i \in DOMAIN desired.profiles : desired.profiles[i] = "mncs-build-worker"
    /\ r.class # "D"

Status(desired, inv, r) ==
    LET actual == ActualFor(inv, desired, r)
        base == CASE actual = "absent" -> "NOT_INSTALLED"
                  [] actual = "unknown" -> "UNKNOWN"
                  [] actual \notin {"absent", "unknown"} ->
                       IF IsCompliant(r, actual) THEN "PASS" ELSE "NONCONFORMANT"
        gh == r.kind = "tool" /\ r.name = "gh" /\ inv.tools["gh"] # "absent"
    IN  CASE gh /\ inv.credential = "AUTH_REQUIRED" -> "AUTH_REQUIRED"
          [] gh /\ inv.credential = "PASS" /\ base = "NONCONFORMANT" -> "PASS"
          [] OTHER -> base

Failing == {"NONCONFORMANT", "NOT_INSTALLED", "AUTH_REQUIRED"}

EvaluateConformance(desired, inv) ==
    LET failed == {r \in desired.requirements : Status(desired, inv, r) \in Failing}
        unknown == \E r \in desired.requirements : ActualFor(inv, desired, r) = "unknown"
    IN  [blocking |-> {r \in failed : RequirementBlocksReady(desired, r)},
         disposition |-> CASE failed # {} -> "NONCONFORMANT"
                           [] failed = {} /\ unknown -> "UNKNOWN"
                           [] OTHER -> "CONFORMANT"]
=============================================================================
