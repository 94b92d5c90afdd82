---------------------------- MODULE MCPollWaker ----------------------------
(* TLC instance of PollWaker: model values for wakers and threads.          *)
EXTENDS PollWaker
=============================================================================
