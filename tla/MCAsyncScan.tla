----------------------------- MODULE MCAsyncScan -----------------------------
(* TLC instance of AsyncScan: model values for threads, scanners and calls.  *)
EXTENDS AsyncScan
=============================================================================
