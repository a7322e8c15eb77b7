------------------------------ MODULE MCFleet -------------------------------
(***************************************************************************)
(* One worker, two client threads, a clock of two ticks (lease: none).     *)
(***************************************************************************)
EXTENDS Fleet

Tool == <<"tool", "x">>

Machine(tokens, host, free, profile) ==
    [tokens |-> tokens, host |-> host, profile |-> profile,
     gpu |-> [backend |-> "cuda", free |-> free, probe |-> "UNKNOWN", precisions |-> {}],
     env |-> [DefaultEnv EXCEPT !.os = "linux", !.mem = host]]

McFacts == {Machine({Tool}, 4, 4, "p"), Machine({Tool}, 1, 1, "p"), Machine({}, 4, 4, "q")}

Query(all, intent) ==
    [all |-> all, any |-> {}, forbid |-> {}, prefer |-> {}, env |-> None, intent |-> intent]

Place(device, offload) ==
    [device |-> device, offload |-> offload, precision |-> "auto", model |-> 2, workspace |-> 1,
     reserve |-> 1, host |-> 2, max_vram |-> None, working |-> None, max_age |-> 0,
     capabilities |-> {}, runtime_offload |-> TRUE]

Work(via, intent, placement) ==
    [via |-> via, query |-> Query({Tool}, intent), placement |-> placement, replicas |-> 1]

McRequests ==
    {Work("remote", "normal", None), Work("remote", "mutating", Place("auto", "auto")),
     Work("registered", "normal", Place("accelerator", "auto")),
     [via |-> "target", placement |-> None, query |-> Query({}, "normal"),
      target |-> [worker |-> 1, required |-> {"x"}, tool |-> None, runtime |-> None,
                  liveness_age |-> 0, capability_age |-> 0]]}

McPolicies == {{"experimental", "allow_toolchain_install"}}

McProbed ==
    {[kind |-> "runtime", backend |-> "cuda", probe |-> "PASS", precisions |-> {"float16"}, status |-> "PASS"],
     [kind |-> "offload", backend |-> "cuda", probe |-> "PASS", precisions |-> {}, status |-> "PASS"]}

McVouched == {{"x"}}

Symmetry == Permutations(Threads)
=============================================================================
