--------------------------- MODULE RequestThreads ---------------------------
(***************************************************************************)
(* The threads of the controller's local service: one for each connection   *)
(* (service_transport.py, _accept_loop), as many as it has slots.           *)
(***************************************************************************)
EXTENDS Integers, Sequences, FiniteSets

CONSTANT Threads

ASSUME ThreadsAssumption == IsFiniteSet(Threads)
=============================================================================
