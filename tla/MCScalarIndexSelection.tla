----------------------- MODULE MCScalarIndexSelection -----------------------
(* TLC instance of ScalarIndexSelection: budgets that two lookups exhaust, a *)
(* product that does not fit, and one index more than the candidate limit.   *)
EXTENDS ScalarIndexSelection
=============================================================================
