------------------------------ MODULE MCMetrics ------------------------------
(* Small instances of Metrics for TLC, with the specs of MCReconciler. *)
EXTENDS Metrics, MCReconciler

PlainSpecs == {Nightly, Watching}
=============================================================================
