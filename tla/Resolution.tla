----------------------------- MODULE Resolution -----------------------------
(***************************************************************************)
(* Which workers may run a workload, decided before it is dispatched:      *)
(* capability_resolution's ordered codes over liveness, observation age,   *)
(* provenance, capability tokens, environment and declared policy, and     *)
(* the scheduler's choice among the workers that resolve ELIGIBLE.         *)
(*                                                                         *)
(* Worker identities are numbers, in their lexicographic order.  A token   *)
(* "kind:name" is the pair <<kind, name>>.                                 *)
(***************************************************************************)
EXTENDS Integers, Sequences, FiniteSets, SequencesExt

CONSTANTS None,         \* absent: no description, no age, no requirement
          MaxAge        \* MAX_CAPABILITY_AGE_SECONDS, in ticks of the model's clock

(***************************************************************************)
(* The platform vocabulary.                                                *)
(***************************************************************************)
\* os_satisfies and arch_matches: an unknown fact satisfies nothing concrete.
Matches(req, got) == req = "any" \/ (req = got /\ got # "unknown")

ArchSatisfies(req, env, emulation) ==
    IF Matches(req, env.arch)
    THEN env.exec_mode = "native" \/ emulation
    ELSE emulation /\ env.emulates_req_arch /\ env.exec_mode = "emulated"

LibcSatisfies(req, got) == Matches(req, got)

CudaSatisfies(cuda, env) ==
    cuda = None \/ (env.accel = "cuda" /\ env.cuda >= cuda)

ResourcesSatisfy(req, env) == req.mem <= env.mem /\ req.cpus <= env.cpus

FlagSatisfies(flags, env) == flags \subseteq env.flags

DefaultReqEnv ==
    [os |-> "any", arch |-> "any", libc |-> "any", cuda |-> None, flags |-> {},
     allow_emulation |-> FALSE, mem |-> 0, cpus |-> 0]

DefaultEnv ==
    [os |-> "unknown", arch |-> "unknown", libc |-> "unknown", accel |-> "unknown",
     exec_mode |-> "native", cuda |-> 0, flags |-> {}, mem |-> 0, cpus |-> 0,
     emulates_req_arch |-> FALSE]

\* The dimensions of req that worker_base_inputs names as not met by env.  An
\* emulated worker is not named for a workload of any architecture, although
\* env_satisfies, which is asked first, refuses it without allow_emulation.
EnvUnmet(req, env) ==
    {d \in {"cuda", "arch", "os", "libc", "flags", "resources"} :
        \/ d = "cuda" /\ ~CudaSatisfies(req.cuda, env)
        \/ d = "arch" /\ req.arch # "any" /\ ~ArchSatisfies(req.arch, env, req.allow_emulation)
        \/ d = "os" /\ ~Matches(req.os, env.os)
        \/ d = "libc" /\ ~LibcSatisfies(req.libc, env.libc)
        \/ d = "flags" /\ ~FlagSatisfies(req.flags, env)
        \/ d = "resources" /\ ~ResourcesSatisfy(req, env)}

EnvTokens(env) ==
    {<<"os", env.os>>, <<"arch", env.arch>>, <<"libc", env.libc>>,
     <<"accel", env.accel>>, <<"exec", env.exec_mode>>}
    \cup (IF env.accel = "cuda"
          THEN {<<"cuda", env.cuda>>, <<"accelerator", "cuda">>} ELSE {})
    \cup {CASE f = "ebpf" -> <<"kernel", f>> [] f = "wasm" -> <<"runtime", f>>
            [] f = "ptx" -> <<"compiler", f>> : f \in env.flags}
    \cup (IF env.emulates_req_arch THEN {<<"exec", "emulated-capable">>} ELSE {})

(***************************************************************************)
(* Declared policy: the set of the permissions a worker holds.             *)
(***************************************************************************)
DefaultPolicy == {}

\* What validate_policy lets an operator declare.
PolicyValid(policy) ==
    /\ "allow_root_mutation" \in policy => "experimental" \in policy
    /\ "disposable" \in policy => "experimental" \in policy

PolicyTokens(policy) ==
    {<<"policy", IF "experimental" \in policy THEN "experimental" ELSE "stable">>}
    \cup {<<"policy", p>> : p \in policy \ {"experimental"}}

IntentAllowed(policy, intent) ==
    \/ intent = "normal"
    \/ /\ "experimental" \in policy
       /\ \/ intent = "mutating" /\ "allow_toolchain_install" \in policy
          \/ intent = "privileged" /\ "allow_root_mutation" \in policy

(***************************************************************************)
(* The ordered base code.                                                  *)
(***************************************************************************)
ProvenanceTrusted(p) == p \in {"worker-observed", "operator-asserted"}

FreshnessOf(age) ==
    IF age # None /\ (age < 0 \/ age > MaxAge) THEN "stale" ELSE "fresh"

\* The first stage a worker fails is the answer.
ResolveCode(liveness, freshness, provenanceOk, envOk, intentOk) ==
    LET stages == << <<liveness # "UNAVAILABLE", "WORKER_UNAVAILABLE">>,
                     <<liveness # "DISCONNECTED", "WORKER_DISCONNECTED">>,
                     <<freshness # "stale", "WORKER_STALE">>,
                     <<provenanceOk, "PROVENANCE_UNVERIFIED">>,
                     <<envOk, "CAPABILITY_UNSATISFIED">>,
                     <<intentOk, "POLICY_DENIED">> >>
        failed == {i \in DOMAIN stages : ~stages[i][1]}
    IN  IF failed = {} THEN "ELIGIBLE" ELSE stages[Min(failed)][2]

(***************************************************************************)
(* One worker.  A query is [all, any, forbid, prefer, env, intent]; a slot *)
(* is a WorkerSlot.                                                        *)
(***************************************************************************)
Tokens(slot) ==
    slot.capabilities \cup EnvTokens(slot.env) \cup PolicyTokens(slot.policy)

\* The reasons a live, fresh, trusted worker does not meet the query.
Missing(query, slot) ==
    {<<"missing", t>> : t \in query.all \ Tokens(slot)}
    \cup {<<"one_of", g>> : g \in {h \in query.any : h \cap Tokens(slot) = {}}}
    \cup {<<"forbidden", t>> : t \in query.forbid \cap Tokens(slot)}
    \cup (IF query.env = None THEN {}
          ELSE {<<"env", d>> : d \in EnvUnmet(query.env, slot.env)})

\* Only a worker that passed the first three stages is compared at all.
WorkerBaseInputs(query, slot) ==
    LET live == IF ~slot.available /\ slot.liveness = "AVAILABLE"
                THEN "UNAVAILABLE" ELSE slot.liveness
        fresh == FreshnessOf(slot.age)
        trusted == ProvenanceTrusted(slot.provenance)
        missing == IF live = "AVAILABLE" /\ fresh = "fresh" /\ trusted
                   THEN Missing(query, slot) ELSE {}
    IN  [liveness |-> live, freshness |-> fresh, provenance_ok |-> trusted,
         missing |-> missing, intent_ok |-> IntentAllowed(slot.policy, query.intent)]

\* _missing_detail: what every reason has in common.
MissingDetail(missing) ==
    LET Kind(m) == IF m[1] \in {"missing", "forbidden"} THEN m[2][1] ELSE m[1]
    IN  CASE \A m \in missing : Kind(m) \in {"tool", "toolchain", "compiler"} -> "TOOLCHAIN_MISSING"
          [] \A m \in missing : Kind(m) = "runtime" -> "RUNTIME_MISSING"
          [] OTHER -> "CAPABILITY_UNSATISFIED"

\* The refinements of the base code that need the reasons.
FinishWorkerResolution(query, slot, base, code) ==
    LET refined ==
            IF code # "CAPABILITY_UNSATISFIED" THEN code
            ELSE IF \A m \in base.missing : m[1] = "forbidden" THEN "POLICY_DENIED"
            ELSE MissingDetail(base.missing)
    IN  [eligible |-> refined = "ELIGIBLE", code |-> refined,
         hits |-> Cardinality(query.prefer \cap Tokens(slot))]

ResolveWorker(query, slot) ==
    LET base == WorkerBaseInputs(query, slot)
    IN  FinishWorkerResolution(query, slot, base,
            ResolveCode(base.liveness, base.freshness, base.provenance_ok,
                        base.missing = {}, base.intent_ok))

(***************************************************************************)
(* The fleet: slots is a function from worker identities.                  *)
(***************************************************************************)
Before(key, a, b) == key[a] > key[b] \/ (key[a] = key[b] /\ a < b)

Sorted(S, key) ==
    CHOOSE s \in SetToSeqs(S) : \A i, j \in DOMAIN s : i < j => Before(key, s[i], s[j])

\* resolve_fleet's explanation: more preferred tokens, then not constrained.
ResolveFleet(query, slots) ==
    LET per == [w \in DOMAIN slots |-> ResolveWorker(query, slots[w])]
        key == [w \in DOMAIN slots |->
                  2 * per[w].hits + (IF "resource_constrained" \in slots[w].policy THEN 0 ELSE 1)]
        eligible == Sorted({w \in DOMAIN slots : per[w].eligible}, key)
    IN  [verdict |-> IF eligible = << >> THEN "NO_ELIGIBLE_WORKER" ELSE "ELIGIBLE",
         eligible |-> eligible, per_worker |-> per]

ManagementAllowsWork(state) == state \in {None, "READY", "BUSY"}

\* schedule: the eligible workers with a free slot, those that admit the
\* placement when there is one (admitted), by preferred tokens and identity.
Schedule(query, slots, replicas, admitted) ==
    LET fleet == ResolveFleet(query, slots)
        able == {w \in admitted :
                   /\ fleet.per_worker[w].eligible
                   /\ slots[w].active < slots[w].limit
                   /\ ManagementAllowsWork(slots[w].management_state)}
        order == Sorted(able, [w \in able |-> fleet.per_worker[w].hits])
    IN  IF Len(order) < replicas THEN << >> ELSE SubSeq(order, 1, replicas)
=============================================================================
