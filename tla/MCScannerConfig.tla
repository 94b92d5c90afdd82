--------------------------- MODULE MCScannerConfig ---------------------------
(* TLC instance of ScannerConfig.                                            *)
EXTENDS ScannerConfig
=============================================================================
