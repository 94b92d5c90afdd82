---------------------------- MODULE ProgressGate ----------------------------
(***************************************************************************)
(* The single-use index segment builder and the retirement gate of its     *)
(* progress callback (src/src/index_segment.rs).                           *)
(*                                                                         *)
(* While execute_uncommitted runs, Lance core clones the callback bridge   *)
(* into worker tasks.  An error path may detach such a task, so a clone    *)
(* may outlive the call.  The gate is two SeqCst atomics: a worker first   *)
(* counts itself in, then tests `retired`; execute_uncommitted first sets  *)
(* `retired`, then spins until nobody is counted.  Each atomic operation   *)
(* is one step here.                                                       *)
(***************************************************************************)
EXTENDS Naturals, FiniteSets

CONSTANTS Workers,    \* core worker tasks that may get a clone of the bridge
          MaxEvents   \* bound on the progress events one worker reports

ASSUME GateAssumption == /\ IsFiniteSet(Workers)
                         /\ MaxEvents \in Nat

VARIABLES
  exec,        \* where the builder's owner is, see ExecStates
  executed,    \* LanceIndexSegmentBuilder.executed
  installed,   \* LanceIndexSegmentBuilder.progress is Some
  retired,     \* ProgressCallbackGate.retired
  in_flight,   \* ProgressCallbackGate.in_flight
  spawned,     \* workers holding a clone of the bridge
  stage,       \* where each worker is in stage_start/_progress/_complete
  events       \* events each worker has begun to report

vars == <<exec, executed, installed, retired, in_flight, spawned, stage, events>>

\* "draining" is the spin loop of retire; "freed" follows builder_free.
ExecStates == {"configuring", "building", "draining", "returned", "freed"}

\* "counted": after fetch_add; "inside": in the C callback; "leaving": before
\* exit's fetch_sub; "backing": saw `retired`, before enter's fetch_sub.
Stages == {"out", "counted", "inside", "leaving", "backing"}

\* Workers the counter stands for.
Entered == {w \in Workers : stage[w] # "out"}

TypeOK ==
  /\ exec \in ExecStates
  /\ executed \in BOOLEAN
  /\ installed \in BOOLEAN
  /\ retired \in BOOLEAN
  /\ in_flight \in Nat
  /\ spawned \in SUBSET Workers
  /\ stage \in [Workers -> Stages]
  /\ events \in [Workers -> 0..MaxEvents]

Init ==
  /\ exec = "configuring"
  /\ executed = FALSE
  /\ installed = FALSE
  /\ retired = FALSE
  /\ in_flight = 0
  /\ spawned = {}
  /\ stage = [w \in Workers |-> "out"]
  /\ events = [w \in Workers |-> 0]

-----------------------------------------------------------------------------
(* The owner of the builder.                                               *)

\* A new or replaced callback gets a fresh gate; rejected once executed.
SetProgressCallback ==
  /\ exec \in {"configuring", "returned"}
  /\ ~executed
  /\ installed' = TRUE
  /\ retired' = FALSE
  /\ in_flight' = 0
  /\ UNCHANGED <<exec, executed, spawned, stage, events>>

\* execute_uncommitted up to the build: the retire guard is in scope.
Execute ==
  /\ exec \in {"configuring", "returned"}
  /\ ~executed
  /\ executed' = TRUE
  /\ exec' = "building"
  /\ UNCHANGED <<installed, retired, in_flight, spawned, stage, events>>

\* NULL out pointers are refused after the builder is marked executed.
ExecuteRefused ==
  /\ exec = "configuring"
  /\ ~executed
  /\ executed' = TRUE
  /\ exec' = "returned"
  /\ UNCHANGED <<installed, retired, in_flight, spawned, stage, events>>

\* Core clones the bridge into a worker task (external).
Spawn(w) ==
  /\ exec = "building"
  /\ installed
  /\ w \notin spawned
  /\ spawned' = spawned \cup {w}
  /\ UNCHANGED <<exec, executed, installed, retired, in_flight, stage, events>>

\* Wrong variant: some exit path returns without the drain loop.
BuildEndsUnguarded ==
  /\ exec = "building"
  /\ retired' = installed
  /\ exec' \in {"draining", "returned"}
  /\ UNCHANGED <<executed, installed, in_flight, spawned, stage, events>>

\* The build returns, fails or panics: ProgressRetireGuard::drop stores
\* `retired`.  Without a callback there is no guard.
BuildEnds ==
  /\ exec = "building"
  /\ retired' = installed
  /\ exec' = IF installed THEN "draining" ELSE "returned"
  /\ UNCHANGED <<executed, installed, in_flight, spawned, stage, events>>

\* The spin loop reads zero and the call returns; any other value is re-read.
Drained ==
  /\ exec = "draining"
  /\ in_flight = 0
  /\ exec' = "returned"
  /\ UNCHANGED <<executed, installed, retired, in_flight, spawned, stage, events>>

\* lance_index_segment_builder_free; detached clones keep the gate alive.
Free ==
  /\ exec \in {"configuring", "returned"}
  /\ exec' = "freed"
  /\ UNCHANGED <<executed, installed, retired, in_flight, spawned, stage, events>>

-----------------------------------------------------------------------------
(* A worker reporting one event.                                           *)

\* Wrong variant: `retired` is tested before the worker counts itself in.
EnterChecksFirst(w) ==
  /\ w \in spawned
  /\ stage[w] = "out"
  /\ events[w] < MaxEvents
  /\ ~retired
  /\ stage' = [stage EXCEPT ![w] = "inside"]
  /\ events' = [events EXCEPT ![w] = @ + 1]
  /\ UNCHANGED <<exec, executed, installed, retired, in_flight, spawned>>

\* enter: in_flight.fetch_add(1).
EnterCount(w) ==
  /\ w \in spawned
  /\ stage[w] = "out"
  /\ events[w] < MaxEvents
  /\ in_flight' = in_flight + 1
  /\ stage' = [stage EXCEPT ![w] = "counted"]
  /\ events' = [events EXCEPT ![w] = @ + 1]
  /\ UNCHANGED <<exec, executed, installed, retired, spawned>>

\* enter: retired.load decides between the callback and backing out.
EnterTest(w) ==
  /\ stage[w] = "counted"
  /\ stage' = [stage EXCEPT ![w] = IF retired THEN "backing" ELSE "inside"]
  /\ UNCHANGED <<exec, executed, installed, retired, in_flight, spawned, events>>

\* The host's callback returns (external: it must not block or unwind).
CallbackReturn(w) ==
  /\ stage[w] = "inside"
  /\ stage' = [stage EXCEPT ![w] = "leaving"]
  /\ UNCHANGED <<exec, executed, installed, retired, in_flight, spawned, events>>

\* Wrong variant: backing out leaves the worker counted.
LeaveForgets(w) ==
  /\ stage[w] \in {"leaving", "backing"}
  /\ in_flight' = IF stage[w] = "leaving" THEN in_flight - 1 ELSE in_flight
  /\ stage' = [stage EXCEPT ![w] = "out"]
  /\ UNCHANGED <<exec, executed, installed, retired, spawned, events>>

\* exit, or the back-out of enter: in_flight.fetch_sub(1).
Leave(w) ==
  /\ stage[w] \in {"leaving", "backing"}
  /\ in_flight' = in_flight - 1
  /\ stage' = [stage EXCEPT ![w] = "out"]
  /\ UNCHANGED <<exec, executed, installed, retired, spawned, events>>

WorkerStep(w) == EnterTest(w) \/ CallbackReturn(w) \/ Leave(w)

OwnerStep == BuildEnds \/ Drained

Next ==
  \/ SetProgressCallback \/ Execute \/ ExecuteRefused \/ Free
  \/ OwnerStep
  \/ \E w \in Workers : Spawn(w) \/ EnterCount(w) \/ WorkerStep(w)

(***************************************************************************)
(* Fairness.  The build ends, the spin loop keeps reading and a worker     *)
(* that has counted itself in runs on; nobody need report another event.   *)
(***************************************************************************)
Fairness == /\ WF_vars(OwnerStep)
            /\ \A w \in Workers : WF_vars(WorkerStep(w))

Spec == Init /\ [][Next]_vars

FairSpec == Spec /\ Fairness

-----------------------------------------------------------------------------
(* Properties.                                                             *)

\* The callback runs only while execute_uncommitted is executing: a detached
\* worker never enters it once the call returned (ProgressCallbackGate).
OnlyWhileExecuting ==
  \A w \in Workers : stage[w] = "inside" => exec \in {"building", "draining"}

\* execute_uncommitted returns although detached workers keep reporting.
ExecuteReturns == (exec = "building") ~> (exec \in {"returned", "freed"})

\* The retirement phase of the callback; a builder that ran no build never
\* handed the callback out.
RetirementPhase == IF ~retired THEN "open"
                   ELSE IF exec = "draining" THEN "retiring" ELSE "retired"

InsideCallback == {w \in Workers : stage[w] = "inside"}

Retirement == INSTANCE CallbackRetirement
                WITH Invocations <- Workers,
                     phase <- RetirementPhase,
                     running <- InsideCallback

\* execute_uncommitted is the retirement boundary of its progress callback.
ImplementsRetirement == Retirement!Spec
=============================================================================
