-------------------------- MODULE MCMockGenerator --------------------------
(* Model-checking instance of MockGenerator; the sizes are set per .cfg.    *)
EXTENDS MockGenerator, TLC

=============================================================================
