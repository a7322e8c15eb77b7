--------------------------- MODULE TargetAdmission --------------------------
(***************************************************************************)
(* Admission of a dispatch to one exact worker: what the controller knows  *)
(* of its membership, presence and capabilities, at the time it is asked.  *)
(*                                                                         *)
(* A target is [worker, required, tool, runtime, liveness_age, capability_ *)
(* age]; the worker state [membership, availability, present, at, profile] *)
(* or None; a capability observation [class, availability, names, tools,   *)
(* at] or None.  Bindings to the consumer's context and authorization are  *)
(* two booleans.                                                           *)
(***************************************************************************)
EXTENDS Integers, Sequences, FiniteSetsExt

CONSTANTS None, Skew   \* _FUTURE_SKEW_SECONDS, in ticks

Dispositions ==
    [code \in {"TARGET_ADMITTED", "TARGET_UNKNOWN", "TARGET_REVOKED", "TARGET_DISCONNECTED",
               "TARGET_LIVENESS_STALE", "TARGET_CAPABILITIES_STALE", "TARGET_CAPABILITY_MISSING",
               "TARGET_CAPABILITY_UNVERIFIED", "TARGET_RUNTIME_MISMATCH",
               "TARGET_TOOL_CAPABILITY_MISMATCH", "TARGET_CONTEXT_MISMATCH",
               "TARGET_AUTHORIZATION_BINDING_INVALID", "TARGET_BECAME_UNAVAILABLE"} |->
        CASE code = "TARGET_ADMITTED" -> "PASS"
          [] code \in {"TARGET_UNKNOWN", "TARGET_DISCONNECTED", "TARGET_LIVENESS_STALE",
                       "TARGET_CAPABILITIES_STALE", "TARGET_BECAME_UNAVAILABLE"} -> "UNKNOWN"
          [] OTHER -> "DENIED"]

AdmissionTrusted(observation) == observation.class \in {"worker-observed", "operator-asserted"}

Within(age, bound) == -Skew <= age /\ age <= bound

CapabilityFresh(target, observation, now) ==
    /\ observation # None
    /\ observation.availability = "AVAILABLE"
    /\ Within(now - observation.at, target.capability_age)

\* The checks in order; the first that fails names the refusal, except that
\* an untrusted observation is DENIED whatever failed before it.
EvaluateTargetAdmission(target, state, observation, contextBound, authorizationBound, now) ==
    LET enrolled == state # None /\ state.membership = "ENROLLED"
        fresh == CapabilityFresh(target, observation, now)
        checks ==
          << <<contextBound, "TARGET_CONTEXT_MISMATCH">>,
             <<authorizationBound, "TARGET_AUTHORIZATION_BINDING_INVALID">>,
             <<state # None, "TARGET_UNKNOWN">>,
             <<state # None => state.membership # "REVOKED", "TARGET_REVOKED">>,
             <<enrolled, "TARGET_UNKNOWN">>,
             <<enrolled => state.availability = "AVAILABLE" /\ state.present, "TARGET_DISCONNECTED">>,
             <<enrolled => Within(now - state.at, target.liveness_age), "TARGET_LIVENESS_STALE">>,
             <<fresh, "TARGET_CAPABILITIES_STALE">>,
             <<fresh => target.required \subseteq observation.names, "TARGET_CAPABILITY_MISSING">>,
             <<fresh /\ target.tool # None => target.tool \in observation.tools,
               "TARGET_TOOL_CAPABILITY_MISMATCH">>,
             <<target.runtime # None => enrolled /\ state.profile = target.runtime,
               "TARGET_RUNTIME_MISMATCH">> >>
        failed == {i \in DOMAIN checks : ~checks[i][1]}
        code == IF observation # None /\ ~(observation # None /\ AdmissionTrusted(observation))
                THEN "TARGET_CAPABILITY_UNVERIFIED"
                ELSE IF failed = {} THEN "TARGET_ADMITTED" ELSE checks[Min(failed)][2]
    IN  [reason |-> code, disposition |-> Dispositions[code]]
=============================================================================
