------------------------ MODULE MCTelemetryPipeline ------------------------
(* Model checking of TelemetryPipeline: two CPUs whose packets compete for a *)
(* ring buffer with room for fewer records than they produce.                *)
EXTENDS TelemetryPipeline, TLC

Symmetry == Permutations(CPUs)
=============================================================================
