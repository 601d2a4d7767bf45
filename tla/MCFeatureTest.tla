--------------------------- MODULE MCFeatureTest ---------------------------
(* Model-checking instance of FeatureTest.                                  *)
EXTENDS FeatureTest, TLC

(* One probe per echo server, in the order the servers are started.        *)
MCProbes == <<"udp", "tcp", "http">>

=============================================================================
