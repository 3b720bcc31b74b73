--------------------------- MODULE MCEbpfTelemetry ---------------------------
(* Model checking of EbpfTelemetry: four records against a queue of two, so  *)
(* the queue overflows, records arrive in the middle of a shutdown and some  *)
(* are left for the drain.                                                   *)
EXTENDS EbpfTelemetry
=============================================================================
