------------------------------ MODULE MCRollout ------------------------------
(***************************************************************************)
(* Three workers, one or two canaries, two requests at a time.             *)
(***************************************************************************)
EXTENDS Rollout

MCFleet == <<"w1", "w2", "w3">>
MCThreads == Permutations(Threads)
=============================================================================
