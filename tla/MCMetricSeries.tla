--------------------------- MODULE MCMetricSeries ---------------------------
(* TLC entry point for MetricSeries; the .cfg files give the configuration. *)
EXTENDS MetricSeries, TLC

=============================================================================
