----------------------------- MODULE MCFirewall -----------------------------
(* TLC instance of the two places where panics stop: CallBoundary, with two  *)
(* threads, nested calls and streams of every shape, and GuardedStream, with *)
(* one scanner and two exported streams.                                     *)
(*                                                                           *)
(* The two share no variable, and no property speaks of both.  The run takes *)
(* their behaviours one beside the other: a step of one half happens only    *)
(* while the other half is where it began.                                   *)
EXTENDS CallBoundary, GuardedStream, TLC

\* Where the entry points are while the exported streams move: one initial
\* state stands for all of them.
NoCallMade == Init /\ \A s \in Streams : stream[s].shape = "complete"

FirewallInit == Init /\ GuardInit

FirewallNext == \/ GuardInit /\ Next /\ UNCHANGED guardVars
                \/ NoCallMade /\ GuardNext /\ UNCHANGED vars

FirewallSpec == FirewallInit /\ [][FirewallNext]_<<vars, guardVars>>

\* Threads are interchangeable, and so are input streams and exported streams.
FirewallSymmetry ==
  Permutations(Threads) \cup Permutations(Streams) \cup Permutations(Exports)
=============================================================================
