--------------------------- MODULE MCTcAttachment ---------------------------
(* Model checking of TcAttachment: two objects and another tool compete for *)
(* one filter identity.                                                     *)
EXTENDS TcAttachment
=============================================================================
