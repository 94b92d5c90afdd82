------------------------- MODULE CallbackRetirement -------------------------
(***************************************************************************)
(* What lance-c promises about a C callback whose context the host wants   *)
(* to destroy: a call into the library is the callback's retirement        *)
(* boundary.  Invocations may begin until that call returns; when it       *)
(* returns none is running and none begins ever again.                     *)
(*                                                                         *)
(* Two mechanisms keep the promise and are shown to implement this module: *)
(* PollWaker (lance_scanner_close retires the wakers of                    *)
(* lance_scanner_poll_next) and ProgressGate (execute_uncommitted retires  *)
(* the index-build progress callback).                                     *)
(***************************************************************************)

CONSTANT Invocations    \* who may be running the callback

VARIABLES phase,        \* "open", "retiring" (the call has begun), "retired"
          running       \* the invocations that are inside the callback

vars == <<phase, running>>

Init == /\ phase = "open"
        /\ running = {}

Begin(i) == /\ phase # "retired"
            /\ i \notin running
            /\ running' = running \cup {i}
            /\ UNCHANGED phase

End(i) == /\ i \in running
          /\ running' = running \ {i}
          /\ UNCHANGED phase

StartRetire == /\ phase = "open"
               /\ phase' = "retiring"
               /\ UNCHANGED running

\* The retiring call returns to the host, which may now free the context.
FinishRetire == /\ phase = "retiring"
                /\ running = {}
                /\ phase' = "retired"
                /\ UNCHANGED running

Next == \/ \E i \in Invocations : Begin(i) \/ End(i)
        \/ StartRetire
        \/ FinishRetire

Safety == Init /\ [][Next]_vars

\* A retiring call that finds nothing running does return.
Spec == Safety /\ WF_vars(FinishRetire)
=============================================================================
