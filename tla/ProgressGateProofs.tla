------------------------- MODULE ProgressGateProofs -------------------------
(***************************************************************************)
(* Proofs, for any finite set of workers and any number of events, that    *)
(* execute_uncommitted is a retirement boundary for its progress callback. *)
(***************************************************************************)
EXTENDS ProgressGate, FiniteSetTheorems, TLAPS

-----------------------------------------------------------------------------
(* The inductive invariant.                                                *)

\* Clones exist only once a build with a callback has begun, and a worker
\* needs one to be anywhere in enter or exit.
ClonesFollowExecution ==
  /\ exec = "building" => executed
  /\ spawned # {} => executed /\ installed
  /\ Entered \subseteq spawned

\* Whoever holds a clone after the build has ended meets a retired gate.
RetiredAfterBuild ==
  /\ retired => exec \notin {"configuring", "building"} /\ executed
  /\ exec = "draining" => retired
  /\ spawned # {} /\ exec # "building" => retired

\* in_flight counts exactly the workers between enter and exit, whichever
\* way they leave, so a zero read by the drain loop means nobody is inside.
CountsEveryEntry == in_flight = Cardinality(Entered)

IInv == /\ TypeOK
        /\ ClonesFollowExecution
        /\ RetiredAfterBuild
        /\ CountsEveryEntry
        /\ OnlyWhileExecuting

-----------------------------------------------------------------------------
(* The counter.                                                            *)

\* A worker that enters is counted once more, one that leaves once less.
LEMMA EnteredFinite == IsFiniteSet(Entered) /\ Cardinality(Entered) \in Nat
<1>1. IsFiniteSet(Entered)
  BY GateAssumption, FS_Subset DEF Entered
<1> QED
  BY <1>1, FS_CardinalityType

\* Moving a worker from "out" to another stage adds it to Entered.
LEMMA EnterCounts ==
  ASSUME TypeOK, NEW w \in Workers, NEW s \in Stages \ {"out"},
         stage[w] = "out", stage' = [stage EXCEPT ![w] = s]
  PROVE  Cardinality(Entered') = Cardinality(Entered) + 1
<1>1. Entered' = Entered \cup {w} /\ w \notin Entered
  BY DEF Entered, TypeOK
<1> QED
  BY <1>1, EnteredFinite, FS_AddElement

\* Moving a worker back to "out" removes it.
LEMMA LeaveCounts ==
  ASSUME TypeOK, NEW w \in Workers, stage[w] # "out",
         stage' = [stage EXCEPT ![w] = "out"]
  PROVE  Cardinality(Entered') = Cardinality(Entered) - 1
<1>1. Entered' = Entered \ {w} /\ w \in Entered
  BY DEF Entered, TypeOK
<1> QED
  BY <1>1, EnteredFinite, FS_RemoveElement

\* Moving it between stages other than "out" leaves Entered alone.
LEMMA StageKeepsEntered ==
  ASSUME TypeOK, NEW w \in Workers, NEW s \in Stages \ {"out"},
         stage[w] # "out", stage' = [stage EXCEPT ![w] = s]
  PROVE  Entered' = Entered
BY DEF Entered, TypeOK

\* A zero count means that nobody is between enter and exit.
LEMMA ZeroMeansNobody ==
  ASSUME CountsEveryEntry, in_flight = 0
  PROVE  Entered = {}
BY EnteredFinite, FS_EmptySet DEF CountsEveryEntry

-----------------------------------------------------------------------------
(* Invariance.                                                             *)

\* The initial state satisfies the inductive invariant.
LEMMA InitInvariant == Init => IInv
<1> SUFFICES ASSUME Init PROVE IInv
  OBVIOUS
<1>1. Entered = {}
  BY DEF Init, Entered
<1>2. CountsEveryEntry
  BY <1>1, FS_EmptySet DEF Init, CountsEveryEntry
<1>3. stage \in [Workers -> Stages] /\ events \in [Workers -> 0..MaxEvents]
  BY GateAssumption DEF Init, Stages
<1>4. TypeOK
  BY <1>3 DEF Init, TypeOK, ExecStates
<1>5. ClonesFollowExecution /\ RetiredAfterBuild /\ OnlyWhileExecuting
  BY <1>1 DEF Init, ClonesFollowExecution, RetiredAfterBuild, OnlyWhileExecuting
<1> QED
  BY <1>2, <1>4, <1>5 DEF IInv

\* Every step of the owner and of the workers preserves it.
LEMMA StepInvariant == IInv /\ [Next]_vars => IInv'
<1> SUFFICES ASSUME IInv, [Next]_vars PROVE IInv'
  OBVIOUS
<1>0. TypeOK /\ ClonesFollowExecution /\ RetiredAfterBuild /\ CountsEveryEntry
        /\ OnlyWhileExecuting
  BY DEF IInv
<1> USE GateAssumption DEF ExecStates, Stages
<1>1. CASE SetProgressCallback
  <2>1. spawned = {} /\ Entered = {}
    BY <1>0, <1>1 DEF SetProgressCallback, ClonesFollowExecution
  <2>2. Entered' = Entered /\ Cardinality(Entered) = 0
    BY <1>1, <2>1, FS_EmptySet DEF SetProgressCallback, Entered
  <2>3. TypeOK'
    BY <1>0, <1>1 DEF SetProgressCallback, TypeOK
  <2>4. ClonesFollowExecution' /\ RetiredAfterBuild'
    BY <1>0, <1>1, <2>1, <2>2
    DEF SetProgressCallback, ClonesFollowExecution, RetiredAfterBuild
  <2>5. CountsEveryEntry' /\ OnlyWhileExecuting'
    BY <1>0, <1>1, <2>1, <2>2
    DEF SetProgressCallback, CountsEveryEntry, OnlyWhileExecuting
  <2> QED
    BY <2>3, <2>4, <2>5 DEF IInv
<1>2. CASE Execute \/ ExecuteRefused \/ BuildEnds \/ Free
  <2>1. Entered' = Entered /\ stage' = stage /\ in_flight' = in_flight
    BY <1>2 DEF Execute, ExecuteRefused, BuildEnds, Free, Entered
  <2>2. TypeOK'
    BY <1>0, <1>2 DEF Execute, ExecuteRefused, BuildEnds, Free, TypeOK
  <2>3. ClonesFollowExecution' /\ RetiredAfterBuild'
    BY <1>0, <1>2, <2>1 DEF Execute, ExecuteRefused, BuildEnds, Free,
       ClonesFollowExecution, RetiredAfterBuild, TypeOK
  <2>4. CountsEveryEntry'
    BY <1>0, <2>1 DEF CountsEveryEntry
  <2>5. OnlyWhileExecuting'
    BY <1>0, <1>2, <2>1 DEF Execute, ExecuteRefused, BuildEnds, Free,
       OnlyWhileExecuting, ClonesFollowExecution, Entered
  <2> QED
    BY <2>2, <2>3, <2>4, <2>5 DEF IInv
<1>3. CASE Drained
  <2>1. Entered = {}
    BY <1>0, <1>3, ZeroMeansNobody DEF Drained
  <2>2. Entered' = Entered /\ stage' = stage
    BY <1>3 DEF Drained, Entered
  <2>3. TypeOK' /\ ClonesFollowExecution' /\ RetiredAfterBuild'
    BY <1>0, <1>3, <2>2
    DEF Drained, TypeOK, ClonesFollowExecution, RetiredAfterBuild
  <2>4. CountsEveryEntry'
    BY <1>0, <1>3, <2>2 DEF Drained, CountsEveryEntry
  <2>5. OnlyWhileExecuting'
    BY <2>1, <2>2 DEF OnlyWhileExecuting, Entered
  <2> QED
    BY <2>3, <2>4, <2>5 DEF IInv
<1>4. ASSUME NEW w \in Workers, Spawn(w)
      PROVE  IInv'
  <2>1. Entered' = Entered
    BY <1>4 DEF Spawn, Entered
  <2> QED
    BY <1>0, <1>4, <2>1 DEF Spawn, IInv, TypeOK, ClonesFollowExecution,
       RetiredAfterBuild, CountsEveryEntry, OnlyWhileExecuting
<1>5. ASSUME NEW w \in Workers, EnterCount(w)
      PROVE  IInv'
  <2>1. Cardinality(Entered') = Cardinality(Entered) + 1
    BY <1>0, <1>5, EnterCounts DEF EnterCount
  <2>2. TypeOK'
    BY <1>0, <1>5 DEF EnterCount, TypeOK
  <2>3. CountsEveryEntry'
    BY <1>0, <1>5, <2>1 DEF EnterCount, CountsEveryEntry
  <2>4. ClonesFollowExecution' /\ RetiredAfterBuild'
    BY <1>0, <1>5
    DEF EnterCount, ClonesFollowExecution, RetiredAfterBuild, Entered, TypeOK
  <2>5. OnlyWhileExecuting'
    BY <1>0, <1>5 DEF EnterCount, OnlyWhileExecuting, TypeOK
  <2> QED
    BY <2>2, <2>3, <2>4, <2>5 DEF IInv
<1>6. ASSUME NEW w \in Workers, EnterTest(w) \/ CallbackReturn(w)
      PROVE  IInv'
  <2>1. Entered' = Entered
    BY <1>0, <1>6, StageKeepsEntered DEF EnterTest, CallbackReturn
  <2>2. TypeOK'
    BY <1>0, <1>6 DEF EnterTest, CallbackReturn, TypeOK
  <2>3. ClonesFollowExecution' /\ RetiredAfterBuild' /\ CountsEveryEntry'
    BY <1>0, <1>6, <2>1 DEF EnterTest, CallbackReturn, ClonesFollowExecution,
       RetiredAfterBuild, CountsEveryEntry
  <2>4. w \in spawned
    BY <1>0, <1>6 DEF EnterTest, CallbackReturn, ClonesFollowExecution, Entered
  <2>5. OnlyWhileExecuting'
    BY <1>0, <1>6, <2>4 DEF EnterTest, CallbackReturn, OnlyWhileExecuting,
       RetiredAfterBuild, TypeOK
  <2> QED
    BY <2>2, <2>3, <2>5 DEF IInv
<1>7. ASSUME NEW w \in Workers, Leave(w)
      PROVE  IInv'
  <2>1. Cardinality(Entered') = Cardinality(Entered) - 1 /\ w \in Entered
    BY <1>0, <1>7, LeaveCounts DEF Leave, Entered
  <2>2. Cardinality(Entered) # 0
    BY <2>1, EnteredFinite, FS_EmptySet
  <2>3. CountsEveryEntry'
    BY <1>0, <1>7, <2>1 DEF Leave, CountsEveryEntry
  <2>4. in_flight' \in Nat
    BY <1>0, <1>7, <2>2, EnteredFinite DEF Leave, CountsEveryEntry
  <2>5. TypeOK'
    BY <1>0, <1>7, <2>4 DEF Leave, TypeOK
  <2>6. ClonesFollowExecution' /\ RetiredAfterBuild'
    BY <1>0, <1>7
    DEF Leave, ClonesFollowExecution, RetiredAfterBuild, Entered, TypeOK
  <2>7. OnlyWhileExecuting'
    BY <1>0, <1>7 DEF Leave, OnlyWhileExecuting, TypeOK
  <2> QED
    BY <2>3, <2>5, <2>6, <2>7 DEF IInv
<1>8. CASE UNCHANGED vars
  BY <1>0, <1>8 DEF vars, IInv, TypeOK, ClonesFollowExecution,
     RetiredAfterBuild, CountsEveryEntry, OnlyWhileExecuting, Entered
<1> QED
  BY <1>1, <1>2, <1>3, <1>4, <1>5, <1>6, <1>7, <1>8
  DEF Next, OwnerStep, WorkerStep

\* The inductive invariant holds of every behaviour.
THEOREM Invariance == Spec => []IInv
<1>1. Init => IInv
  BY InitInvariant
<1>2. IInv /\ [Next]_vars => IInv'
  BY StepInvariant
<1> QED
  BY <1>1, <1>2, PTL DEF Spec

\* in_flight and the stages of the workers keep their types: fetch_sub never
\* takes the counter of the gate below zero.
THEOREM TypeCorrect == Spec => []TypeOK
<1>1. IInv => TypeOK
  BY DEF IInv
<1> QED BY <1>1, Invariance, PTL

\* A progress callback is running only while execute_uncommitted executes,
\* for any number of workers, detached or not.
THEOREM CallbackOnlyWhileExecuting == Spec => []OnlyWhileExecuting
<1>1. IInv => OnlyWhileExecuting
  BY DEF IInv
<1> QED
  BY <1>1, Invariance, PTL

\* in_flight is exactly the number of workers between enter and exit.
THEOREM CounterIsExact == Spec => []CountsEveryEntry
<1>1. IInv => CountsEveryEntry
  BY DEF IInv
<1> QED
  BY <1>1, Invariance, PTL

-----------------------------------------------------------------------------
(* Refinement of the retirement contract.                                  *)

\* Every step of the gate is a step of the contract or a stutter.
LEMMA StepRefines ==
  ASSUME IInv, IInv', [Next]_vars
  PROVE  [Retirement!Next]_(Retirement!vars)
<1> USE DEF Retirement!vars, RetirementPhase, InsideCallback
<1>0. TypeOK /\ ClonesFollowExecution /\ RetiredAfterBuild /\ CountsEveryEntry
        /\ OnlyWhileExecuting
  BY DEF IInv
<1>1. CASE BuildEnds
  BY <1>0, <1>1 DEF BuildEnds, RetiredAfterBuild, TypeOK,
     Retirement!Next, Retirement!StartRetire
<1>2. CASE Drained
  <2>1. InsideCallback = {}
    BY <1>0, <1>2, ZeroMeansNobody DEF Drained, Entered
  <2> QED
    BY <1>0, <1>2, <2>1 DEF Drained, RetiredAfterBuild, Retirement!Next,
       Retirement!FinishRetire
<1>3. ASSUME NEW w \in Workers, EnterTest(w)
      PROVE  Retirement!Begin(w) \/ UNCHANGED <<RetirementPhase, InsideCallback>>
  BY <1>0, <1>3 DEF EnterTest, TypeOK, Retirement!Begin
<1>4. ASSUME NEW w \in Workers, CallbackReturn(w)
      PROVE  Retirement!End(w)
  BY <1>0, <1>4 DEF CallbackReturn, TypeOK, Retirement!End
<1>5. CASE SetProgressCallback \/ Execute \/ ExecuteRefused \/ Free \/ UNCHANGED vars
  BY <1>0, <1>5 DEF SetProgressCallback, Execute, ExecuteRefused, Free, vars,
     RetiredAfterBuild, TypeOK
<1>6. ASSUME NEW w \in Workers, Spawn(w) \/ EnterCount(w) \/ Leave(w)
      PROVE  UNCHANGED <<RetirementPhase, InsideCallback>>
  BY <1>0, <1>6 DEF Spawn, EnterCount, Leave, TypeOK
<1> QED
  BY <1>1, <1>2, <1>3, <1>4, <1>5, <1>6
  DEF Next, OwnerStep, WorkerStep, Retirement!Next

\* The gate implements the retirement contract that lance.h states for the
\* progress callback, for any number of workers and events.
THEOREM ImplementsRetirementSafety == Spec => Retirement!Safety
<1>1. Init => Retirement!Init
  BY DEF Init, Retirement!Init, RetirementPhase, InsideCallback
<1>2. IInv /\ IInv' /\ [Next]_vars => [Retirement!Next]_(Retirement!vars)
  BY StepRefines
<1> QED
  BY <1>1, <1>2, Invariance, PTL DEF Spec, Retirement!Safety
=============================================================================
