----------------------------- MODULE Placement ------------------------------
(***************************************************************************)
(* evaluate_placement: may a request for memory and an accelerator run on  *)
(* the resources a worker was observed to have, and in which mode.         *)
(*                                                                         *)
(* A snapshot is [host, gpu, at]: the host memory available, the first     *)
(* accelerator of the requested backend as [backend, free, probe,          *)
(* precisions], or None, and when it was captured.  A runtime observation  *)
(* is the proof that the worker's interpreter ran the accelerator:         *)
(* [backend, probe, precisions, at]; a capability observation that it ran  *)
(* with sequential offload: [status, at].                                  *)
(***************************************************************************)
EXTENDS Integers, FiniteSetsExt

CONSTANT None

\* The combinations PlacementRequest.validate accepts.
PlacementRequestValid(r) ==
    /\ r.device \in {"auto", "cpu", "accelerator"}
    /\ r.offload \in {"auto", "none", "sequential-cpu"}
    /\ r.precision \in {"auto", "float32", "float16", "bfloat16"}
    /\ ~(r.device = "cpu" /\ r.offload = "sequential-cpu")
    /\ {r.model, r.workspace, r.reserve} \subseteq Nat
    /\ {r.host, r.max_vram, r.working} \ {None} \subseteq Nat \ {0}

Denied(reason) == [disposition |-> "UNKNOWN", mode |-> "unknown", reason |-> reason]
Admitted(mode) == [disposition |-> "PASS", mode |-> mode, reason |-> mode]

FreshAt(observation, now, maxAge) == now - observation.at <= maxAge

PrecisionBytes(model, precision) ==
    IF precision \in {"float16", "bfloat16"} THEN (model + 1) \div 2 ELSE model

HostRequirement(r, mode) ==
    LET minimum == IF r.host = None THEN 0 ELSE r.host
    IN  IF mode = "sequential-cpu-offload" THEN Max({minimum, r.model}) ELSE minimum

\* The precision that was probed: the first of three for "auto".
PrecisionStatus(gpu, precision) ==
    LET order == <<"float32", "float16", "bfloat16">>
        probed == {i \in 1..3 : order[i] \in gpu.precisions /\ precision \in {"auto", order[i]}}
    IN  IF probed = {} THEN "unknown" ELSE order[Min(probed)]

\* What the accelerator may use: its free memory, capped, less the reserve.
EffectiveBudget(r, gpu) ==
    Max({0, (IF r.max_vram = None THEN gpu.free ELSE Min({gpu.free, r.max_vram})) - r.reserve})

CpuDecision(r, snapshot, capabilities) ==
    LET need == HostRequirement(r, "cpu") IN
    IF r.precision \notin {"auto", "float32"} /\ <<"cpu-precision", r.precision>> \notin capabilities
    THEN Denied("PRECISION_UNAVAILABLE")
    ELSE IF need > 0 /\ snapshot.host = None THEN Denied("RESOURCE_OBSERVATION_UNKNOWN")
    ELSE IF need > 0 /\ snapshot.host < need THEN Denied("INSUFFICIENT_HOST_RAM")
    ELSE Admitted("cpu")

\* Full execution does not fit, or offload was asked for.
OffloadDecision(r, snapshot, capabilities, gpu, offloadProof) ==
    LET need == HostRequirement(r, "sequential-cpu-offload")
        working == IF r.working = None THEN r.workspace ELSE r.working
    IN
    IF ~r.runtime_offload
    THEN IF r.offload = "sequential-cpu" \/ r.device = "accelerator"
         THEN Denied("SEQUENTIAL_OFFLOAD_RUNTIME_UNSUPPORTED")
         ELSE CpuDecision(r, snapshot, capabilities)
    ELSE IF offloadProof = None \/ (offloadProof # None /\ offloadProof.status # "PASS")
         THEN Denied("SEQUENTIAL_OFFLOAD_EXECUTION_UNVERIFIED")
    ELSE IF need > 0 /\ snapshot.host = None THEN Denied("RESOURCE_OBSERVATION_UNKNOWN")
    ELSE IF need > 0 /\ snapshot.host < need THEN Denied("INSUFFICIENT_HOST_RAM")
    ELSE IF working > EffectiveBudget(r, gpu) THEN Denied("INSUFFICIENT_VRAM")
    ELSE Admitted("sequential-cpu-offload")

\* A device was found.  A runtime observation replaces what the snapshot says
\* of the probes, never what it says of the memory.
AcceleratorDecision(r, snapshot, capabilities, gpu, offloadProof) ==
    LET precision == PrecisionStatus(gpu, r.precision)
        fits == PrecisionBytes(r.model, precision) + r.workspace <= EffectiveBudget(r, gpu)
    IN
    IF gpu.probe # "PASS"
    THEN IF r.device = "accelerator" \/ r.offload = "sequential-cpu"
         THEN Denied("ACCELERATOR_EXECUTION_UNVERIFIED")
         ELSE CpuDecision(r, snapshot, capabilities)
    ELSE IF precision = "unknown" THEN Denied("PRECISION_UNAVAILABLE")
    ELSE IF gpu.free = None THEN Denied("RESOURCE_OBSERVATION_UNKNOWN")
    ELSE IF r.offload \in {"none", "auto"} /\ fits THEN Admitted("full-accelerator")
    ELSE IF r.offload = "none"
         THEN IF r.device = "accelerator" THEN Denied("INSUFFICIENT_VRAM")
              ELSE CpuDecision(r, snapshot, capabilities)
    ELSE OffloadDecision(r, snapshot, capabilities, gpu, offloadProof)

EvaluatePlacement(r, snapshot, capabilities, runtime, offloadProof, now) ==
    LET gpu == IF snapshot.gpu # None /\ runtime # None
               THEN [snapshot.gpu EXCEPT !.probe = runtime.probe, !.precisions = runtime.precisions]
               ELSE snapshot.gpu
    IN
    IF \E o \in {runtime, offloadProof} \ {None} : ~FreshAt(o, now, r.max_age)
    THEN Denied("RESOURCE_OBSERVATION_STALE")
    ELSE IF ~(r.capabilities \subseteq capabilities) THEN Denied("CAPABILITY_UNAVAILABLE")
    ELSE IF ~FreshAt(snapshot, now, r.max_age) THEN Denied("RESOURCE_OBSERVATION_STALE")
    ELSE IF gpu # None /\ runtime # None /\ runtime.backend \notin {None, gpu.backend}
         THEN Denied("ACCELERATOR_UNAVAILABLE")
    ELSE IF r.device = "cpu" THEN CpuDecision(r, snapshot, capabilities)
    ELSE IF gpu = None
         THEN IF r.device = "accelerator" \/ r.offload = "sequential-cpu"
              THEN Denied("ACCELERATOR_UNAVAILABLE")
              ELSE CpuDecision(r, snapshot, capabilities)
    ELSE AcceleratorDecision(r, snapshot, capabilities, gpu, offloadProof)

(***************************************************************************)
(* What an admission promises, read off the request alone: the memory of   *)
(* the accelerator is there and it was seen to execute, and so is the      *)
(* memory of the host where the workload runs or spills there.  For full   *)
(* execution on the accelerator the code reports the host memory asked     *)
(* for (resources.py:465) and does not compare it.                         *)
(***************************************************************************)
Fits(r, snapshot, runtime, mode) ==
    LET gpu == snapshot.gpu
        need == IF mode = "sequential-cpu-offload"
                THEN IF r.working = None THEN r.workspace ELSE r.working
                ELSE r.workspace + (IF r.precision = "float32" THEN r.model ELSE (r.model + 1) \div 2)
    IN
    /\ mode # "full-accelerator" /\ r.host # None => snapshot.host # None /\ snapshot.host >= r.host
    /\ mode = "sequential-cpu-offload" => r.runtime_offload /\ (r.model > 0 => snapshot.host >= r.model)
    /\ mode # "cpu" =>
          /\ gpu # None
          /\ (IF runtime = None THEN gpu.probe ELSE runtime.probe) = "PASS"
          /\ need + r.reserve <= gpu.free \/ need = 0
          /\ r.max_vram # None => need <= r.max_vram
    /\ r.device = "accelerator" => mode # "cpu"
=============================================================================
