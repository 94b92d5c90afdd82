-------------------------- MODULE PollWakerProofs --------------------------
(***************************************************************************)
(* Proofs, for any set of wakers and threads and any bound on clones, that *)
(* lance_scanner_close is a retirement boundary for poll wakers.           *)
(***************************************************************************)
EXTENDS PollWaker, TLAPS

-----------------------------------------------------------------------------
(* The inductive invariant.                                                *)

\* A context is active exactly while one thread is past its gate; a thread
\* in the callback is such a thread.
OneThreadPerActive ==
  /\ \A w \in active : \E t \in Threads : waking[t] = w
  /\ \A t \in Threads : waking[t] # NoWaker => waking[t] \in active
  /\ \A t, u \in Threads : waking[t] # NoWaker /\ waking[t] = waking[u] => t = u
  /\ \A t \in inCallback : waking[t] # NoWaker

\* What has entered has fired, and the callback began once for each fired one.
FiredOnce ==
  /\ active \subseteq fired
  /\ \A w \in Wakers : calls[w] = IF w \in fired THEN 1 ELSE 0

\* Before close nothing is cancelled; from its first step on the registry is
\* empty and close holds every context whose callback is running.
CloseHoldsActive ==
  /\ retired <=> host \notin {"idle", "polling"}
  /\ ~retired => cancelled = {} /\ toCancel = {} /\ quiescing = {}
  /\ retired => registrations = {} /\ active \subseteq quiescing
  /\ toCancel \subseteq quiescing
  /\ host # "cancelling" => toCancel = {}
  /\ host \in {"dropping", "closed"} => quiescing = {}

IInv == /\ TypeOK
        /\ OneThreadPerActive
        /\ FiredOnce
        /\ CloseHoldsActive
        /\ ContextsAccountedFor

-----------------------------------------------------------------------------

\* The initial state satisfies the inductive invariant.
LEMMA InitInvariant == Init => IInv
<1> SUFFICES ASSUME Init PROVE IInv
  OBVIOUS
<1> USE WakerAssumption DEF Init
<1>1. TypeOK
  <2>1. clones \in [Wakers -> 0..MaxClones] /\ calls \in [Wakers -> Nat]
    OBVIOUS
  <2>2. waking \in [Threads -> Wakers \cup {NoWaker}]
    OBVIOUS
  <2> QED
    BY <2>1, <2>2, Zenon DEF TypeOK, HostStates
<1>2. OneThreadPerActive
  BY DEF OneThreadPerActive
<1>3. FiredOnce
  BY DEF FiredOnce
<1>4. CloseHoldsActive
  BY DEF CloseHoldsActive
<1>5. ContextsAccountedFor
  BY DEF ContextsAccountedFor, Strong
<1> QED
  BY <1>1, <1>2, <1>3, <1>4, <1>5 DEF IInv

\* Every step of the host, of close and of the runtime's threads preserves it.
LEMMA StepInvariant == IInv /\ [Next]_vars => IInv'
<1> SUFFICES ASSUME IInv, [Next]_vars PROVE IInv'
  OBVIOUS
<1> USE WakerAssumption
<1>0. TypeOK /\ OneThreadPerActive /\ FiredOnce /\ CloseHoldsActive
        /\ ContextsAccountedFor
  BY DEF IInv
<1> USE <1>0 DEF HostStates
<1>1. ASSUME NEW w \in Wakers, PollBegin(w)
      PROVE  IInv'
  <2>1. TypeOK'
    BY <1>1 DEF PollBegin, pollVars, closeVars, gateVars, threadVars, TypeOK, Prune
  <2>2. OneThreadPerActive'
    BY <1>1 DEF PollBegin, pollVars, closeVars, gateVars, threadVars, OneThreadPerActive, TypeOK, FiredOnce
  <2>3. FiredOnce'
    BY <1>1 DEF PollBegin, pollVars, closeVars, gateVars, threadVars, FiredOnce, TypeOK
  <2>4. CloseHoldsActive'
    BY <1>1 DEF PollBegin, pollVars, closeVars, gateVars, threadVars, CloseHoldsActive, TypeOK, OneThreadPerActive, FiredOnce, ContextsAccountedFor, Strong, Prune
  <2>5. ContextsAccountedFor'
    BY <1>1 DEF PollBegin, pollVars, closeVars, gateVars, threadVars, ContextsAccountedFor, TypeOK, Strong, CloseHoldsActive, Prune
  <2> QED
    BY <2>1, <2>2, <2>3, <2>4, <2>5 DEF IInv
<1>2. ASSUME NEW w \in Wakers, Clone(w)
      PROVE  IInv'
  <2>1. TypeOK'
    BY <1>2 DEF Clone, pollVars, closeVars, gateVars, threadVars, TypeOK
  <2>2. OneThreadPerActive'
    BY <1>2 DEF Clone, pollVars, closeVars, gateVars, threadVars, OneThreadPerActive, TypeOK, FiredOnce
  <2>3. FiredOnce'
    BY <1>2 DEF Clone, pollVars, closeVars, gateVars, threadVars, FiredOnce, TypeOK
  <2>4. CloseHoldsActive'
    BY <1>2 DEF Clone, pollVars, closeVars, gateVars, threadVars, CloseHoldsActive, TypeOK, OneThreadPerActive, FiredOnce, ContextsAccountedFor, Strong
  <2>5. ContextsAccountedFor'
    BY <1>2 DEF Clone, pollVars, closeVars, gateVars, threadVars, ContextsAccountedFor, TypeOK, Strong, CloseHoldsActive
  <2> QED
    BY <2>1, <2>2, <2>3, <2>4, <2>5 DEF IInv
<1>3. ASSUME NEW w \in Wakers, DropClone(w)
      PROVE  IInv'
  <2>1. TypeOK'
    BY <1>3 DEF DropClone, pollVars, closeVars, gateVars, threadVars, TypeOK
  <2>2. OneThreadPerActive'
    BY <1>3 DEF DropClone, pollVars, closeVars, gateVars, threadVars, OneThreadPerActive, TypeOK, FiredOnce
  <2>3. FiredOnce'
    BY <1>3 DEF DropClone, pollVars, closeVars, gateVars, threadVars, FiredOnce, TypeOK
  <2>4. CloseHoldsActive'
    BY <1>3 DEF DropClone, pollVars, closeVars, gateVars, threadVars, CloseHoldsActive, TypeOK, OneThreadPerActive, FiredOnce, ContextsAccountedFor, Strong
  <2>5. ContextsAccountedFor'
    BY <1>3 DEF DropClone, pollVars, closeVars, gateVars, threadVars, ContextsAccountedFor, TypeOK, Strong, CloseHoldsActive
  <2> QED
    BY <2>1, <2>2, <2>3, <2>4, <2>5 DEF IInv
<1>4. ASSUME NEW w \in Wakers, WakeGated(w)
      PROVE  IInv'
  <2>1. TypeOK'
    BY <1>4 DEF WakeGated, pollVars, closeVars, gateVars, threadVars, TypeOK
  <2>2. OneThreadPerActive'
    BY <1>4 DEF WakeGated, pollVars, closeVars, gateVars, threadVars, OneThreadPerActive, TypeOK, FiredOnce
  <2>3. FiredOnce'
    BY <1>4 DEF WakeGated, pollVars, closeVars, gateVars, threadVars, FiredOnce, TypeOK
  <2>4. CloseHoldsActive'
    BY <1>4 DEF WakeGated, pollVars, closeVars, gateVars, threadVars, CloseHoldsActive, TypeOK, OneThreadPerActive, FiredOnce, ContextsAccountedFor, Strong
  <2>5. ContextsAccountedFor'
    BY <1>4 DEF WakeGated, pollVars, closeVars, gateVars, threadVars, ContextsAccountedFor, TypeOK, Strong, CloseHoldsActive
  <2> QED
    BY <2>1, <2>2, <2>3, <2>4, <2>5 DEF IInv
<1>5. CASE PollPending
  <2>1. TypeOK'
    BY <1>5 DEF PollPending, pollVars, closeVars, gateVars, threadVars, TypeOK
  <2>2. OneThreadPerActive'
    BY <1>5 DEF PollPending, pollVars, closeVars, gateVars, threadVars, OneThreadPerActive, TypeOK, FiredOnce
  <2>3. FiredOnce'
    BY <1>5 DEF PollPending, pollVars, closeVars, gateVars, threadVars, FiredOnce, TypeOK
  <2>4. CloseHoldsActive'
    BY <1>5 DEF PollPending, pollVars, closeVars, gateVars, threadVars, CloseHoldsActive, TypeOK, OneThreadPerActive, FiredOnce, ContextsAccountedFor, Strong
  <2>5. ContextsAccountedFor'
    BY <1>5 DEF PollPending, pollVars, closeVars, gateVars, threadVars, ContextsAccountedFor, TypeOK, Strong, CloseHoldsActive
  <2> QED
    BY <2>1, <2>2, <2>3, <2>4, <2>5 DEF IInv
<1>6. CASE PollReady
  <2>1. TypeOK'
    BY <1>6 DEF PollReady, pollVars, closeVars, gateVars, threadVars, TypeOK
  <2>2. OneThreadPerActive'
    BY <1>6 DEF PollReady, pollVars, closeVars, gateVars, threadVars, OneThreadPerActive, TypeOK, FiredOnce
  <2>3. FiredOnce'
    BY <1>6 DEF PollReady, pollVars, closeVars, gateVars, threadVars, FiredOnce, TypeOK
  <2>4. CloseHoldsActive'
    BY <1>6 DEF PollReady, pollVars, closeVars, gateVars, threadVars, CloseHoldsActive, TypeOK, OneThreadPerActive, FiredOnce, ContextsAccountedFor, Strong
  <2>5. ContextsAccountedFor'
    BY <1>6 DEF PollReady, pollVars, closeVars, gateVars, threadVars, ContextsAccountedFor, TypeOK, Strong, CloseHoldsActive
  <2> QED
    BY <2>1, <2>2, <2>3, <2>4, <2>5 DEF IInv
<1>7. CASE PollPanic
  <2>1. TypeOK'
    BY <1>7 DEF PollPanic, pollVars, closeVars, gateVars, threadVars, TypeOK
  <2>2. OneThreadPerActive'
    BY <1>7 DEF PollPanic, pollVars, closeVars, gateVars, threadVars, OneThreadPerActive, TypeOK, FiredOnce
  <2>3. FiredOnce'
    BY <1>7 DEF PollPanic, pollVars, closeVars, gateVars, threadVars, FiredOnce, TypeOK
  <2>4. CloseHoldsActive'
    BY <1>7 DEF PollPanic, pollVars, closeVars, gateVars, threadVars, CloseHoldsActive, TypeOK, OneThreadPerActive, FiredOnce, ContextsAccountedFor, Strong
  <2>5. ContextsAccountedFor'
    BY <1>7 DEF PollPanic, pollVars, closeVars, gateVars, threadVars, ContextsAccountedFor, TypeOK, Strong, CloseHoldsActive
  <2> QED
    BY <2>1, <2>2, <2>3, <2>4, <2>5 DEF IInv
<1>8. CASE BlockingNext
  <2>1. TypeOK'
    BY <1>8 DEF BlockingNext, pollVars, closeVars, gateVars, threadVars, TypeOK
  <2>2. OneThreadPerActive'
    BY <1>8 DEF BlockingNext, pollVars, closeVars, gateVars, threadVars, OneThreadPerActive, TypeOK, FiredOnce
  <2>3. FiredOnce'
    BY <1>8 DEF BlockingNext, pollVars, closeVars, gateVars, threadVars, FiredOnce, TypeOK
  <2>4. CloseHoldsActive'
    BY <1>8 DEF BlockingNext, pollVars, closeVars, gateVars, threadVars, CloseHoldsActive, TypeOK, OneThreadPerActive, FiredOnce, ContextsAccountedFor, Strong
  <2>5. ContextsAccountedFor'
    BY <1>8 DEF BlockingNext, pollVars, closeVars, gateVars, threadVars, ContextsAccountedFor, TypeOK, Strong, CloseHoldsActive
  <2> QED
    BY <2>1, <2>2, <2>3, <2>4, <2>5 DEF IInv
<1>9. ASSUME NEW t \in Threads, NEW w \in Wakers, WakeEnter(t, w)
      PROVE  IInv'
  <2>1. TypeOK'
    BY <1>9 DEF WakeEnter, pollVars, closeVars, gateVars, threadVars, TypeOK
  <2>2. OneThreadPerActive'
    BY <1>9 DEF WakeEnter, pollVars, closeVars, gateVars, threadVars, OneThreadPerActive, TypeOK, FiredOnce
  <2>3. FiredOnce'
    BY <1>9 DEF WakeEnter, pollVars, closeVars, gateVars, threadVars, FiredOnce, TypeOK
  <2>4. CloseHoldsActive'
    BY <1>9 DEF WakeEnter, pollVars, closeVars, gateVars, threadVars, CloseHoldsActive, TypeOK, OneThreadPerActive, FiredOnce, ContextsAccountedFor, Strong
  <2>5. ContextsAccountedFor'
    BY <1>9 DEF WakeEnter, pollVars, closeVars, gateVars, threadVars, ContextsAccountedFor, TypeOK, Strong, CloseHoldsActive
  <2> QED
    BY <2>1, <2>2, <2>3, <2>4, <2>5 DEF IInv
<1>10. ASSUME NEW t \in Threads, CallbackReturn(t)
      PROVE  IInv'
  <2>1. TypeOK'
    BY <1>10 DEF CallbackReturn, pollVars, closeVars, gateVars, threadVars, TypeOK
  <2>2. OneThreadPerActive'
    BY <1>10 DEF CallbackReturn, pollVars, closeVars, gateVars, threadVars, OneThreadPerActive, TypeOK, FiredOnce
  <2>3. FiredOnce'
    BY <1>10 DEF CallbackReturn, pollVars, closeVars, gateVars, threadVars, FiredOnce, TypeOK
  <2>4. CloseHoldsActive'
    BY <1>10 DEF CallbackReturn, pollVars, closeVars, gateVars, threadVars, CloseHoldsActive, TypeOK, OneThreadPerActive, FiredOnce, ContextsAccountedFor, Strong
  <2>5. ContextsAccountedFor'
    BY <1>10 DEF CallbackReturn, pollVars, closeVars, gateVars, threadVars, ContextsAccountedFor, TypeOK, Strong, CloseHoldsActive
  <2> QED
    BY <2>1, <2>2, <2>3, <2>4, <2>5 DEF IInv
<1>11. ASSUME NEW t \in Threads, NEW keep \in BOOLEAN, WakeExit(t, keep)
      PROVE  IInv'
  <2>1. TypeOK'
    BY <1>11 DEF WakeExit, pollVars, closeVars, gateVars, threadVars, TypeOK
  <2>2. OneThreadPerActive'
    BY <1>11 DEF WakeExit, pollVars, closeVars, gateVars, threadVars, OneThreadPerActive, TypeOK, FiredOnce
  <2>3. FiredOnce'
    BY <1>11 DEF WakeExit, pollVars, closeVars, gateVars, threadVars, FiredOnce, TypeOK
  <2>4. CloseHoldsActive'
    BY <1>11 DEF WakeExit, pollVars, closeVars, gateVars, threadVars, CloseHoldsActive, TypeOK, OneThreadPerActive, FiredOnce, ContextsAccountedFor, Strong
  <2>5. ContextsAccountedFor'
    BY <1>11 DEF WakeExit, pollVars, closeVars, gateVars, threadVars, ContextsAccountedFor, TypeOK, Strong, CloseHoldsActive
  <2> QED
    BY <2>1, <2>2, <2>3, <2>4, <2>5 DEF IInv
<1>12. CASE Retire
  <2>1. TypeOK'
    BY <1>12 DEF Retire, pollVars, closeVars, gateVars, threadVars, TypeOK, Prune
  <2>2. OneThreadPerActive'
    BY <1>12 DEF Retire, pollVars, closeVars, gateVars, threadVars, OneThreadPerActive, TypeOK, FiredOnce
  <2>3. FiredOnce'
    BY <1>12 DEF Retire, pollVars, closeVars, gateVars, threadVars, FiredOnce, TypeOK
  <2>4. CloseHoldsActive'
    BY <1>12 DEF Retire, pollVars, closeVars, gateVars, threadVars, CloseHoldsActive, TypeOK, OneThreadPerActive, FiredOnce, ContextsAccountedFor, Strong, Prune
  <2>5. ContextsAccountedFor'
    BY <1>12 DEF Retire, pollVars, closeVars, gateVars, threadVars, ContextsAccountedFor, TypeOK, Strong, CloseHoldsActive, Prune
  <2> QED
    BY <2>1, <2>2, <2>3, <2>4, <2>5 DEF IInv
<1>13. ASSUME NEW w \in Wakers, Cancel(w)
      PROVE  IInv'
  <2>1. TypeOK'
    BY <1>13 DEF Cancel, pollVars, closeVars, gateVars, threadVars, TypeOK
  <2>2. OneThreadPerActive'
    BY <1>13 DEF Cancel, pollVars, closeVars, gateVars, threadVars, OneThreadPerActive, TypeOK, FiredOnce
  <2>3. FiredOnce'
    BY <1>13 DEF Cancel, pollVars, closeVars, gateVars, threadVars, FiredOnce, TypeOK
  <2>4. CloseHoldsActive'
    BY <1>13 DEF Cancel, pollVars, closeVars, gateVars, threadVars, CloseHoldsActive, TypeOK, OneThreadPerActive, FiredOnce, ContextsAccountedFor, Strong
  <2>5. ContextsAccountedFor'
    BY <1>13 DEF Cancel, pollVars, closeVars, gateVars, threadVars, ContextsAccountedFor, TypeOK, Strong, CloseHoldsActive
  <2> QED
    BY <2>1, <2>2, <2>3, <2>4, <2>5 DEF IInv
<1>14. CASE AllCancelled
  <2>1. TypeOK'
    BY <1>14 DEF AllCancelled, pollVars, closeVars, gateVars, threadVars, TypeOK
  <2>2. OneThreadPerActive'
    BY <1>14 DEF AllCancelled, pollVars, closeVars, gateVars, threadVars, OneThreadPerActive, TypeOK, FiredOnce
  <2>3. FiredOnce'
    BY <1>14 DEF AllCancelled, pollVars, closeVars, gateVars, threadVars, FiredOnce, TypeOK
  <2>4. CloseHoldsActive'
    BY <1>14 DEF AllCancelled, pollVars, closeVars, gateVars, threadVars, CloseHoldsActive, TypeOK, OneThreadPerActive, FiredOnce, ContextsAccountedFor, Strong
  <2>5. ContextsAccountedFor'
    BY <1>14 DEF AllCancelled, pollVars, closeVars, gateVars, threadVars, ContextsAccountedFor, TypeOK, Strong, CloseHoldsActive
  <2> QED
    BY <2>1, <2>2, <2>3, <2>4, <2>5 DEF IInv
<1>15. ASSUME NEW w \in Wakers, WaitDone(w)
      PROVE  IInv'
  <2>1. TypeOK'
    BY <1>15 DEF WaitDone, pollVars, closeVars, gateVars, threadVars, TypeOK
  <2>2. OneThreadPerActive'
    BY <1>15 DEF WaitDone, pollVars, closeVars, gateVars, threadVars, OneThreadPerActive, TypeOK, FiredOnce
  <2>3. FiredOnce'
    BY <1>15 DEF WaitDone, pollVars, closeVars, gateVars, threadVars, FiredOnce, TypeOK
  <2>4. CloseHoldsActive'
    BY <1>15 DEF WaitDone, pollVars, closeVars, gateVars, threadVars, CloseHoldsActive, TypeOK, OneThreadPerActive, FiredOnce, ContextsAccountedFor, Strong
  <2>5. ContextsAccountedFor'
    BY <1>15 DEF WaitDone, pollVars, closeVars, gateVars, threadVars, ContextsAccountedFor, TypeOK, Strong, CloseHoldsActive
  <2> QED
    BY <2>1, <2>2, <2>3, <2>4, <2>5 DEF IInv
<1>16. ASSUME NEW w \in Wakers, WaitSleep(w)
      PROVE  IInv'
  <2>1. TypeOK'
    BY <1>16 DEF WaitSleep, pollVars, closeVars, gateVars, threadVars, TypeOK
  <2>2. OneThreadPerActive'
    BY <1>16 DEF WaitSleep, pollVars, closeVars, gateVars, threadVars, OneThreadPerActive, TypeOK, FiredOnce
  <2>3. FiredOnce'
    BY <1>16 DEF WaitSleep, pollVars, closeVars, gateVars, threadVars, FiredOnce, TypeOK
  <2>4. CloseHoldsActive'
    BY <1>16 DEF WaitSleep, pollVars, closeVars, gateVars, threadVars, CloseHoldsActive, TypeOK, OneThreadPerActive, FiredOnce, ContextsAccountedFor, Strong
  <2>5. ContextsAccountedFor'
    BY <1>16 DEF WaitSleep, pollVars, closeVars, gateVars, threadVars, ContextsAccountedFor, TypeOK, Strong, CloseHoldsActive
  <2> QED
    BY <2>1, <2>2, <2>3, <2>4, <2>5 DEF IInv
<1>17. CASE AllQuiescent
  <2>1. TypeOK'
    BY <1>17 DEF AllQuiescent, pollVars, closeVars, gateVars, threadVars, TypeOK
  <2>2. OneThreadPerActive'
    BY <1>17 DEF AllQuiescent, pollVars, closeVars, gateVars, threadVars, OneThreadPerActive, TypeOK, FiredOnce
  <2>3. FiredOnce'
    BY <1>17 DEF AllQuiescent, pollVars, closeVars, gateVars, threadVars, FiredOnce, TypeOK
  <2>4. CloseHoldsActive'
    BY <1>17 DEF AllQuiescent, pollVars, closeVars, gateVars, threadVars, CloseHoldsActive, TypeOK, OneThreadPerActive, FiredOnce, ContextsAccountedFor, Strong
  <2>5. ContextsAccountedFor'
    BY <1>17 DEF AllQuiescent, pollVars, closeVars, gateVars, threadVars, ContextsAccountedFor, TypeOK, Strong, CloseHoldsActive
  <2> QED
    BY <2>1, <2>2, <2>3, <2>4, <2>5 DEF IInv
<1>18. CASE DropScanner
  <2>1. TypeOK'
    BY <1>18 DEF DropScanner, pollVars, closeVars, gateVars, threadVars, TypeOK
  <2>2. OneThreadPerActive'
    BY <1>18 DEF DropScanner, pollVars, closeVars, gateVars, threadVars, OneThreadPerActive, TypeOK, FiredOnce
  <2>3. FiredOnce'
    BY <1>18 DEF DropScanner, pollVars, closeVars, gateVars, threadVars, FiredOnce, TypeOK
  <2>4. CloseHoldsActive'
    BY <1>18 DEF DropScanner, pollVars, closeVars, gateVars, threadVars, CloseHoldsActive, TypeOK, OneThreadPerActive, FiredOnce, ContextsAccountedFor, Strong
  <2>5. ContextsAccountedFor'
    BY <1>18 DEF DropScanner, pollVars, closeVars, gateVars, threadVars, ContextsAccountedFor, TypeOK, Strong, CloseHoldsActive
  <2> QED
    BY <2>1, <2>2, <2>3, <2>4, <2>5 DEF IInv
<1>19. CASE SpuriousWakeup
  <2>1. TypeOK'
    BY <1>19 DEF SpuriousWakeup, pollVars, closeVars, gateVars, threadVars, TypeOK
  <2>2. OneThreadPerActive'
    BY <1>19 DEF SpuriousWakeup, pollVars, closeVars, gateVars, threadVars, OneThreadPerActive, TypeOK, FiredOnce
  <2>3. FiredOnce'
    BY <1>19 DEF SpuriousWakeup, pollVars, closeVars, gateVars, threadVars, FiredOnce, TypeOK
  <2>4. CloseHoldsActive'
    BY <1>19 DEF SpuriousWakeup, pollVars, closeVars, gateVars, threadVars, CloseHoldsActive, TypeOK, OneThreadPerActive, FiredOnce, ContextsAccountedFor, Strong
  <2>5. ContextsAccountedFor'
    BY <1>19 DEF SpuriousWakeup, pollVars, closeVars, gateVars, threadVars, ContextsAccountedFor, TypeOK, Strong, CloseHoldsActive
  <2> QED
    BY <2>1, <2>2, <2>3, <2>4, <2>5 DEF IInv
<1>20. CASE UNCHANGED vars
  BY <1>20 DEF vars, pollVars, closeVars, gateVars, threadVars, IInv, TypeOK, OneThreadPerActive, FiredOnce,
     CloseHoldsActive, ContextsAccountedFor, Strong
<1> QED
  BY <1>1, <1>2, <1>3, <1>4, <1>5, <1>6, <1>7, <1>8, <1>9, <1>10, <1>11, <1>12, <1>13, <1>14, <1>15, <1>16, <1>17, <1>18, <1>19, <1>20
  DEF Next, CloseStep, WakeStep

-----------------------------------------------------------------------------
(* What follows from it.                                                   *)

\* The inductive invariant holds of every behaviour.
THEOREM Invariance == Spec => []IInv
<1>1. Init => IInv
  BY InitInvariant
<1>2. IInv /\ [Next]_vars => IInv'
  BY StepInvariant
<1> QED
  BY <1>1, <1>2, PTL DEF Spec

\* Every variable keeps its type: in particular no clone count goes below
\* zero, so no reference is released twice.
THEOREM TypeCorrect == Spec => []TypeOK
<1>1. IInv => TypeOK
  BY DEF IInv
<1> QED
  BY <1>1, Invariance, PTL

\* After lance_scanner_close returned, no waker callback is running.
THEOREM CloseIsRetirementBoundary == Spec => []NoCallbackAfterClose
<1>1. IInv => NoCallbackAfterClose
  <2> SUFFICES ASSUME IInv, host = "closed", NEW t \in inCallback
               PROVE  FALSE
    BY DEF NoCallbackAfterClose
  <2>1. active = {}
    BY DEF IInv, CloseHoldsActive
  <2>2. waking[t] \in active
    BY DEF IInv, OneThreadPerActive, TypeOK
  <2> QED
    BY <2>1, <2>2
<1> QED
  BY <1>1, Invariance, PTL

\* However many clones are woken by however many threads, the callback of
\* one poll call begins at most once.
THEOREM WakersAreOneShot == Spec => []FiresAtMostOnce
<1>1. IInv => FiresAtMostOnce
  <2> SUFFICES ASSUME IInv, NEW w \in Wakers PROVE calls[w] <= 1
    BY Zenon DEF FiresAtMostOnce
  <2>1. calls[w] = 0 \/ calls[w] = 1
    BY DEF IInv, FiredOnce
  <2> QED
    BY <2>1
<1> QED
  BY <1>1, Invariance, PTL

\* No context that can still be woken escapes the registry's pruning.
THEOREM RegistryIsComplete == Spec => []ContextsAccountedFor
<1>1. IInv => ContextsAccountedFor
  BY DEF IInv
<1> QED
  BY <1>1, Invariance, PTL

\* From the first wait of close on, no callback can enter its gate.
LEMMA ShutGateStaysShut ==
  ASSUME IInv, GateShut, NEW t \in Threads, NEW w \in Wakers
  PROVE  ~WakeEnter(t, w)
<1>1. registrations = {} /\ toCancel = {}
  BY DEF IInv, GateShut, CloseHoldsActive
<1> QED
  BY <1>1 DEF IInv, ContextsAccountedFor, Strong, WakeEnter

\* Only WakeEnter begins a callback.
LEMMA OnlyWakeEnterCalls ==
  ASSUME [Next]_vars, \A t \in Threads, w \in Wakers : ~WakeEnter(t, w)
  PROVE  calls' = calls
BY DEF Next, vars, pollVars, closeVars, gateVars, threadVars, CloseStep,
       WakeStep, PollBegin, Clone, DropClone, WakeGated, PollPending,
       PollReady, PollPanic, BlockingNext, CallbackReturn, WakeExit, Retire,
       Cancel, AllCancelled, WaitDone, WaitSleep, AllQuiescent, DropScanner,
       SpuriousWakeup

\* Once close has begun to wait, no callback of any registration begins.
THEOREM NoEntryAfterCancel == Spec => CloseShutsGate
<1>1. IInv /\ [Next]_vars => [GateShut => calls' = calls]_vars
  BY ShutGateStaysShut, OnlyWakeEnterCalls
<1> QED
  BY <1>1, Invariance, PTL DEF Spec, CloseShutsGate

-----------------------------------------------------------------------------
(* Refinement of the retirement contract.                                  *)

\* The contexts in a callback are active, hence held by a close in progress.
LEMMA RunningAreActive == IInv => RunningCallbacks \subseteq active
BY DEF IInv, OneThreadPerActive, TypeOK, RunningCallbacks

\* Steps that begin or end no callback and move no phase are stutters.
LEMMA Stutters ==
  ASSUME waking' = waking, inCallback' = inCallback, retired' = retired,
         host' # "closed" \/ host' = host, host # "closed" \/ host' = host
  PROVE  UNCHANGED <<RetirementPhase, RunningCallbacks>>
BY DEF RetirementPhase, RunningCallbacks

\* Every step of the protocol is a step of the contract or a stutter.
LEMMA StepRefines ==
  ASSUME IInv, IInv', [Next]_vars
  PROVE  [Retirement!Next]_(Retirement!vars)
<1> USE DEF Retirement!vars
<1>0. /\ TypeOK /\ OneThreadPerActive /\ FiredOnce /\ CloseHoldsActive
      /\ RunningCallbacks \subseteq active
  BY RunningAreActive DEF IInv
<1> SUFFICES ASSUME Next \/ UNCHANGED vars
             PROVE  Retirement!Next \/ UNCHANGED <<RetirementPhase, RunningCallbacks>>
  OBVIOUS
<1>1. ASSUME NEW t \in Threads, NEW w \in Wakers, WakeEnter(t, w)
      PROVE  Retirement!Begin(w)
  <2>1. ~GateShut
    BY <1>1, ShutGateStaysShut
  <2>2. RetirementPhase # "retired" /\ RetirementPhase' = RetirementPhase
    BY <1>1, <2>1 DEF RetirementPhase, GateShut, WakeEnter, closeVars
  <2>3. w \notin RunningCallbacks
    BY <1>0, <1>1 DEF FiredOnce, WakeEnter
  <2>4. RunningCallbacks' = RunningCallbacks \cup {w}
    <3>1. t \notin inCallback
      BY <1>0, <1>1 DEF OneThreadPerActive, WakeEnter
    <3>2. /\ inCallback' = inCallback \cup {t}
          /\ waking' = [waking EXCEPT ![t] = w]
          /\ waking \in [Threads -> Wakers \cup {NoWaker}]
          /\ inCallback \subseteq Threads
      BY <1>0, <1>1 DEF WakeEnter, TypeOK
    <3> QED
      BY <3>1, <3>2 DEF RunningCallbacks
  <2> QED
    BY <2>2, <2>3, <2>4 DEF Retirement!Begin
<1>2. ASSUME NEW t \in Threads, CallbackReturn(t)
      PROVE  Retirement!End(waking[t]) /\ waking[t] \in Wakers
  <2>1. /\ t \in inCallback /\ inCallback' = inCallback \ {t}
        /\ waking' = waking /\ waking[t] \in Wakers
        /\ RetirementPhase' = RetirementPhase
    BY <1>0, <1>2 DEF CallbackReturn, OneThreadPerActive, TypeOK, closeVars,
       RetirementPhase
  <2>2. \A u \in inCallback : u # t => waking[u] # waking[t]
    BY <1>0, <2>1 DEF OneThreadPerActive, TypeOK
  <2>3. RunningCallbacks' = RunningCallbacks \ {waking[t]}
    BY <2>1, <2>2 DEF RunningCallbacks
  <2> QED
    BY <2>1, <2>3 DEF Retirement!End, RunningCallbacks
<1>3. CASE Retire
  BY <1>0, <1>3 DEF Retire, CloseHoldsActive, RetirementPhase,
     RunningCallbacks, threadVars, Retirement!Next, Retirement!StartRetire
<1>4. CASE DropScanner
  <2>1. RunningCallbacks = {}
    BY <1>0, <1>4 DEF DropScanner, CloseHoldsActive
  <2>2. RetirementPhase = "retiring" /\ RetirementPhase' = "retired"
    BY <1>0, <1>4 DEF DropScanner, CloseHoldsActive, RetirementPhase
  <2>3. RunningCallbacks' = RunningCallbacks
    BY <1>4 DEF DropScanner, threadVars, RunningCallbacks
  <2> QED
    BY <2>1, <2>2, <2>3 DEF Retirement!Next, Retirement!FinishRetire
<1>5. ASSUME NEW t \in Threads, NEW keep \in BOOLEAN, WakeExit(t, keep)
      PROVE  UNCHANGED <<RetirementPhase, RunningCallbacks>>
  <2>1. RetirementPhase' = RetirementPhase
    BY <1>5 DEF WakeExit, closeVars, RetirementPhase
  <2>2. \A u \in inCallback : waking'[u] = waking[u]
    BY <1>0, <1>5 DEF WakeExit, TypeOK
  <2>3. RunningCallbacks' = RunningCallbacks
    BY <2>2, <1>5 DEF WakeExit, RunningCallbacks
  <2> QED
    BY <2>1, <2>3
<1>6. ASSUME NEW w \in Wakers,
             PollBegin(w) \/ Clone(w) \/ DropClone(w) \/ WakeGated(w)
               \/ Cancel(w) \/ WaitDone(w) \/ WaitSleep(w)
      PROVE  UNCHANGED <<RetirementPhase, RunningCallbacks>>
  BY <1>6, Stutters DEF PollBegin, Clone, DropClone, WakeGated, Cancel,
     WaitDone, WaitSleep, closeVars, threadVars
<1>7. CASE PollPending \/ PollReady \/ PollPanic \/ BlockingNext
             \/ AllCancelled \/ AllQuiescent \/ SpuriousWakeup
             \/ UNCHANGED vars
  BY <1>7, Stutters DEF PollPending, PollReady, PollPanic, BlockingNext,
     AllCancelled, AllQuiescent, SpuriousWakeup, vars, closeVars, threadVars
<1> QED
  BY <1>1, <1>2, <1>3, <1>4, <1>5, <1>6, <1>7
  DEF Next, CloseStep, WakeStep, Retirement!Next

\* The waker protocol implements the retirement contract that lance.h states
\* for lance_scanner_close, for any number of polls, clones and threads.
THEOREM ImplementsRetirementSafety == Spec => Retirement!Safety
<1>1. Init => Retirement!Init
  BY DEF Init, Retirement!Init, RetirementPhase, RunningCallbacks
<1>2. IInv /\ IInv' /\ [Next]_vars => [Retirement!Next]_(Retirement!vars)
  BY StepRefines
<1> QED
  BY <1>1, <1>2, Invariance, PTL DEF Spec, Retirement!Safety
=============================================================================
