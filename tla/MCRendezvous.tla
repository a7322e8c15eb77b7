---------------------------- MODULE MCRendezvous ----------------------------
(* Model-checking instance of Rendezvous: one dispatcher that sends two      *)
(* requests in turn, so that the second meets what the first left behind.    *)
EXTENDS Rendezvous
=============================================================================
