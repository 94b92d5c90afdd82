------------------------- MODULE CompletionContract -------------------------
(***************************************************************************)
(* What an asynchronous call promises its host: with a non-NULL callback,  *)
(* exactly one completion, whatever fails on the way (the contract stated  *)
(* for lance_scanner_scan_async in src/src/scanner.rs).                    *)
(***************************************************************************)
CONSTANT Calls

VARIABLE state   \* per call: "idle", "pending" or "done"

Init == state = [c \in Calls |-> "idle"]

Begin(c) == /\ state[c] = "idle"
            /\ state' = [state EXCEPT ![c] = "pending"]

Complete(c) == /\ state[c] = "pending"
               /\ state' = [state EXCEPT ![c] = "done"]

Next == \E c \in Calls : Begin(c) \/ Complete(c)

Safety == Init /\ [][Next]_state

\* Every call that has begun is completed.
Spec == Safety /\ \A c \in Calls : WF_state(Complete(c))
=============================================================================
