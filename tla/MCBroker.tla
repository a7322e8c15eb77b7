------------------------------- MODULE MCBroker -------------------------------
(***************************************************************************)
(* A broker on one host: a reboot under a lease, sent again at will, a      *)
(* malformed request, and a reconciliation.                                 *)
(***************************************************************************)
EXTENDS Broker

CONSTANTS l1, e1, w1

MCRequests ==
    {Request(w1, "system_reboot", "request", {}, None, None, e1, l1, <<0, 0, "client">>),
     Request(w1, "ebpf", "enable", {"program"}, None, None, e1, l1, <<0, 0, "client">>)}

MCPlans ==
    {Requirements(w1, e1, <<>>, <<"perf">>, <<>>, <<>>, None, FALSE, FALSE),
     Requirements(w1, e1, <<"ebpf">>, <<>>, <<>>, <<<<"fabric-worker", "stopped">>>>, None, FALSE, FALSE)}

MCProfiles ==
    {Profile(w1, "capability-broker", "linux", LINUX_CAPABILITIES \ {"ebpf"}, {},
             {"fabric-worker", "mncs-experiment"}, TRUE, TRUE),
     Profile(w1, "windows-capability-broker", "windows", {}, {}, {"fabric-worker"}, FALSE, FALSE)}

MCScopes == {{"package_management", "system_reboot"}}
MCHosts == {[x \in {} |-> None]}
=============================================================================
