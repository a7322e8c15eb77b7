---------------------------- MODULE MCArtifacts -----------------------------
(***************************************************************************)
(* Two builds of one version and of one size and a third of the version     *)
(* the worker came with.                                                    *)
(***************************************************************************)
EXTENDS Artifacts

CONSTANTS b1, b2, b3

MCBuilds == {b1, b2, b3}
MCVersionOf == [b \in MCBuilds \cup {Factory} |-> IF b \in {b1, b2} THEN 2 ELSE 1]
MCSizeOf == [b \in MCBuilds \cup {Factory} |-> IF b = b3 THEN 2 ELSE 1]
=============================================================================
