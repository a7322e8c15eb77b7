----------------------------- MODULE MCDetached -----------------------------
(* Model-checking instance of Detached.                                     *)
EXTENDS Detached
=============================================================================
