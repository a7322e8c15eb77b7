---------------------------- MODULE MCExecution -----------------------------
(* Model-checking instance of Execution.                                    *)
EXTENDS Execution
=============================================================================
