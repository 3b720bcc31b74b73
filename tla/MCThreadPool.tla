---------------------------- MODULE MCThreadPool ----------------------------
(* Model checking of ThreadPool: more workers than one, so that a notified   *)
(* worker can be overtaken, and more jobs than workers.                      *)
EXTENDS ThreadPool
=============================================================================
