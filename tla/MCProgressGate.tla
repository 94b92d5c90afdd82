--------------------------- MODULE MCProgressGate ---------------------------
(* TLC instance of ProgressGate: model values for the workers.              *)
EXTENDS ProgressGate
=============================================================================
