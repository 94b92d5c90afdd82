--------------------------- MODULE MCCallBoundary ---------------------------
(* TLC instance of CallBoundary alone: one thread and one stream are enough  *)
(* for an early refusal.                                                     *)
EXTENDS CallBoundary, TLC
=============================================================================
