---------------------------- MODULE MCCmdbLoader ----------------------------
(* TLC entry point for CmdbLoader; the .cfg files give the configuration.   *)
EXTENDS CmdbLoader, TLC

=============================================================================
