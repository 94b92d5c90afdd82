--------------------------- MODULE MCDatasetHandle ---------------------------
(* TLC instances of DatasetHandle: model values for handles, threads, pins.  *)
EXTENDS DatasetHandle
=============================================================================
