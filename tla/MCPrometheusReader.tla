------------------------- MODULE MCPrometheusReader -------------------------
(* The Prometheus reader and the goroutines that use it, for TLC. *)
EXTENDS PrometheusReader
=============================================================================
