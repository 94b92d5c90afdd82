------------------------------ MODULE PollWaker ------------------------------
(***************************************************************************)
(* The waker protocol between lance_scanner_poll_next, the Tokio threads   *)
(* that wake it and lance_scanner_close (src/src/scanner.rs).              *)
(*                                                                         *)
(* Each poll call makes one reference-counted CWakerContext, registers a   *)
(* Weak to it in the scanner's PollWakerRegistry and lends it to the       *)
(* stream, which clones it into I/O tasks.  Any thread holding a clone may *)
(* wake it.  The host may free the waker's ctx pointer once the callback   *)
(* or the close returns, so close must cancel what has not entered and     *)
(* wait for what has.                                                      *)
(*                                                                         *)
(* Every critical section under a Mutex is one step; the callback itself   *)
(* runs outside the lock and spans several.  The scanner's handle has one  *)
(* user at a time (`&mut`), so poll, next and close are steps of a single  *)
(* host thread; wakes come from any of Threads at any time.                *)
(***************************************************************************)
EXTENDS Naturals

CONSTANTS Wakers,     \* one CWakerContext per poll call (bounds the polls)
          Threads,    \* runtime threads that may run a waker
          MaxClones,  \* bound on the clones the runtime holds of one waker
          NoWaker     \* no CWakerContext

ASSUME WakerAssumption == /\ NoWaker \notin Wakers
                          /\ MaxClones \in Nat \ {0}

VARIABLES
  host,          \* what the host thread executes, see HostStates
  current,       \* the waker of the poll in progress or of the wait in progress
  pending,       \* the waker of the last poll, if it returned PENDING
  poisoned,      \* the scanner's poison flag
  made,          \* contexts already allocated
  clones,        \* clones of each waker held by the stream and I/O tasks
  registrations, \* PollWakerRegistryState.registrations, as a set
  retired,       \* PollWakerRegistryState.retired
  toCancel,      \* close: upgraded contexts not cancelled yet
  quiescing,     \* close: upgraded contexts (strong references) not waited for
  fired,         \* contexts with state.fired
  cancelled,     \* contexts with state.cancelled
  active,        \* contexts with state.active
  waking,        \* the context each thread is past the gate of, in wake_once
  inCallback,    \* threads whose C callback has not returned
  calls          \* history: number of times each waker's callback began

closeVars == <<retired, toCancel, quiescing>>
gateVars == <<fired, cancelled, active>>
threadVars == <<waking, inCallback, calls>>
pollVars == <<current, pending, poisoned, made>>
vars == <<host, pollVars, clones, registrations, closeVars, gateVars, threadVars>>

\* "cancelling", "waiting", "asleep" and "dropping" are steps of close.
HostStates == {"idle", "polling", "cancelling", "waiting", "asleep",
               "dropping", "closed"}

TypeOK ==
  /\ host \in HostStates
  /\ current \in Wakers \cup {NoWaker}
  /\ pending \in Wakers \cup {NoWaker}
  /\ poisoned \in BOOLEAN
  /\ made \in SUBSET Wakers
  /\ clones \in [Wakers -> 0..MaxClones]
  /\ registrations \in SUBSET Wakers
  /\ retired \in BOOLEAN
  /\ toCancel \in SUBSET Wakers
  /\ quiescing \in SUBSET Wakers
  /\ fired \in SUBSET Wakers
  /\ cancelled \in SUBSET Wakers
  /\ active \in SUBSET Wakers
  /\ waking \in [Threads -> Wakers \cup {NoWaker}]
  /\ inCallback \in SUBSET Threads
  /\ calls \in [Wakers -> Nat]

Init ==
  /\ host = "idle"
  /\ current = NoWaker
  /\ pending = NoWaker
  /\ poisoned = FALSE
  /\ made = {}
  /\ clones = [w \in Wakers |-> 0]
  /\ registrations = {}
  /\ retired = FALSE
  /\ toCancel = {}
  /\ quiescing = {}
  /\ fired = {}
  /\ cancelled = {}
  /\ active = {}
  /\ waking = [t \in Threads |-> NoWaker]
  /\ inCallback = {}
  /\ calls = [w \in Wakers |-> 0]

-----------------------------------------------------------------------------
(* References.                                                             *)

\* strong_count() > 0: the runtime, the poll in progress, a thread inside
\* wake_once or the closing thread owns an Arc of w.
Strong(w) == \/ clones[w] > 0
             \/ host = "polling" /\ current = w
             \/ \E t \in Threads : waking[t] = w
             \/ w \in quiescing

\* Wrong variant: the retain keeps only contexts no thread is waking.
PruneDropsWaking == {w \in registrations : clones[w] > 0}

\* `retain` in register: dead registrations are forgotten.
Prune == {w \in registrations : Strong(w)}

-----------------------------------------------------------------------------
(* The host's calls: poll_next and next.                                   *)

\* Wrong variant: register cancels every context, retired or not.
PollBeginCancels(w) ==
  /\ host = "idle"
  /\ ~poisoned
  /\ w \notin made
  /\ host' = "polling"
  /\ current' = w
  /\ pending' = NoWaker
  /\ made' = made \cup {w}
  /\ registrations' = Prune \cup {w}
  /\ cancelled' = cancelled \cup {w}
  /\ UNCHANGED <<poisoned, clones, closeVars, fired, active, threadVars>>

\* make_raw_waker + register, up to the stream's poll_next.  A poisoned
\* scanner returns before this.
PollBegin(w) ==
  /\ host = "idle"
  /\ ~poisoned
  /\ w \notin made
  /\ host' = "polling"
  /\ current' = w
  /\ pending' = NoWaker
  /\ made' = made \cup {w}
  /\ registrations' = IF retired THEN Prune ELSE Prune \cup {w}
  /\ cancelled' = IF retired THEN cancelled \cup {w} ELSE cancelled
  /\ UNCHANGED <<poisoned, clones, closeVars, fired, active, threadVars>>

\* RawWaker clone: by the stream while it is polled, or from a clone.
Clone(w) ==
  /\ \/ host = "polling" /\ current = w
     \/ clones[w] > 0
  /\ clones[w] < MaxClones
  /\ clones' = [clones EXCEPT ![w] = @ + 1]
  /\ UNCHANGED <<host, pollVars, registrations, closeVars, gateVars, threadVars>>

\* poll_next returns PENDING.  The stream then still holds a clone, or has
\* handed it to a thread that is waking it (the contract of Stream::poll_next).
PollPending ==
  /\ host = "polling"
  /\ \/ clones[current] > 0
     \/ current \in fired
  /\ host' = "idle"
  /\ pending' = current
  /\ current' = NoWaker
  /\ UNCHANGED <<poisoned, made, clones, registrations, closeVars, gateVars,
                 threadVars>>

\* poll_next returns READY, FINISHED or ERROR; waker_obj is dropped.
PollReady ==
  /\ host = "polling"
  /\ host' = "idle"
  /\ current' = NoWaker
  /\ UNCHANGED <<pending, poisoned, made, clones, registrations, closeVars,
                 gateVars, threadVars>>

\* The stream panics: caught, the scanner is poisoned.
PollPanic ==
  /\ host = "polling"
  /\ host' = "idle"
  /\ current' = NoWaker
  /\ poisoned' = TRUE
  /\ UNCHANGED <<pending, made, clones, registrations, closeVars, gateVars,
                 threadVars>>

\* lance_scanner_next drives the same stream with the runtime's own waker,
\* which takes the place of the waker of a PENDING poll.
BlockingNext ==
  /\ host = "idle"
  /\ ~poisoned
  /\ pending # NoWaker
  /\ pending' = NoWaker
  /\ UNCHANGED <<host, current, poisoned, made, clones, registrations,
                 closeVars, gateVars, threadVars>>

-----------------------------------------------------------------------------
(* The runtime's threads: drop and wake_once.                              *)

\* The last clone of the waker of a PENDING poll is not dropped unwoken
\* while the stream lives: Stream::poll_next promised to wake it.
Dispensable(w) == \/ w # pending
                  \/ clones[w] > 1
                  \/ w \in fired
                  \/ host \notin {"idle", "polling"}

DropClone(w) ==
  /\ clones[w] > 0
  /\ Dispensable(w)
  /\ clones' = [clones EXCEPT ![w] = @ - 1]
  /\ UNCHANGED <<host, pollVars, registrations, closeVars, gateVars, threadVars>>

\* Wrong variant: only `fired` is tested.
WakeEnterIgnoresCancel(t, w) ==
  /\ waking[t] = NoWaker
  /\ clones[w] > 0
  /\ w \notin fired
  /\ fired' = fired \cup {w}
  /\ active' = active \cup {w}
  /\ waking' = [waking EXCEPT ![t] = w]
  /\ inCallback' = inCallback \cup {t}
  /\ clones' = [clones EXCEPT ![w] = @ - 1]
  /\ calls' = [calls EXCEPT ![w] = @ + 1]
  /\ UNCHANGED <<host, pollVars, registrations, closeVars, cancelled>>

\* Wrong variant: the gate tests `active` where it should test `fired`.
WakeEnterNotOneShot(t, w) ==
  /\ waking[t] = NoWaker
  /\ clones[w] > 0
  /\ w \notin active
  /\ w \notin cancelled
  /\ fired' = fired \cup {w}
  /\ active' = active \cup {w}
  /\ waking' = [waking EXCEPT ![t] = w]
  /\ inCallback' = inCallback \cup {t}
  /\ clones' = [clones EXCEPT ![w] = @ - 1]
  /\ calls' = [calls EXCEPT ![w] = @ + 1]
  /\ UNCHANGED <<host, pollVars, registrations, closeVars, cancelled>>

\* wake_once passes its gate and calls waker_fn.  The thread owns the
\* reference it wakes through until wake_once returns.
WakeEnter(t, w) ==
  /\ waking[t] = NoWaker
  /\ clones[w] > 0
  /\ w \notin fired
  /\ w \notin cancelled
  /\ fired' = fired \cup {w}
  /\ active' = active \cup {w}
  /\ waking' = [waking EXCEPT ![t] = w]
  /\ inCallback' = inCallback \cup {t}
  /\ clones' = [clones EXCEPT ![w] = @ - 1]
  /\ calls' = [calls EXCEPT ![w] = @ + 1]
  /\ UNCHANGED <<host, pollVars, registrations, closeVars, cancelled>>

\* wake (by value) finds the gate shut and drops its reference.
WakeGated(w) ==
  /\ clones[w] > 0
  /\ w \in fired \cup cancelled
  /\ clones' = [clones EXCEPT ![w] = @ - 1]
  /\ UNCHANGED <<host, pollVars, registrations, closeVars, gateVars, threadVars>>

\* The host's callback returns (external: its contract says it does).
CallbackReturn(t) ==
  /\ t \in inCallback
  /\ inCallback' = inCallback \ {t}
  /\ UNCHANGED <<host, pollVars, clones, registrations, closeVars, gateVars,
                 waking, calls>>

\* Wrong variant: nobody is notified.
WakeExitNoNotify(t, keep) ==
  /\ waking[t] # NoWaker
  /\ t \notin inCallback
  /\ keep => clones[waking[t]] < MaxClones
  /\ active' = active \ {waking[t]}
  /\ waking' = [waking EXCEPT ![t] = NoWaker]
  /\ clones' = IF keep THEN [clones EXCEPT ![waking[t]] = @ + 1] ELSE clones
  /\ UNCHANGED <<host, pollVars, registrations, closeVars, fired, cancelled,
                 inCallback, calls>>

\* The tail of wake_once: active = false, notify_all.  `keep` is
\* wake_by_ref, whose caller keeps the clone it woke through.
WakeExit(t, keep) ==
  /\ waking[t] # NoWaker
  /\ t \notin inCallback
  /\ keep => clones[waking[t]] < MaxClones
  /\ active' = active \ {waking[t]}
  /\ waking' = [waking EXCEPT ![t] = NoWaker]
  /\ host' = IF host = "asleep" /\ current = waking[t] THEN "waiting" ELSE host
  /\ clones' = IF keep THEN [clones EXCEPT ![waking[t]] = @ + 1] ELSE clones
  /\ UNCHANGED <<pollVars, registrations, closeVars, fired, cancelled,
                 inCallback, calls>>

-----------------------------------------------------------------------------
(* lance_scanner_close: retire_and_wait, then drop.                        *)

\* Wrong variant: contexts whose callback is running are not collected.
RetireSkipsActive ==
  /\ host = "idle"
  /\ host' = "cancelling"
  /\ retired' = TRUE
  /\ quiescing' = Prune \ active
  /\ toCancel' = Prune \ active
  /\ registrations' = {}
  /\ UNCHANGED <<pollVars, clones, gateVars, threadVars>>

\* Retire the registry and upgrade every live registration, under its lock.
Retire ==
  /\ host = "idle"
  /\ host' = "cancelling"
  /\ retired' = TRUE
  /\ quiescing' = Prune
  /\ toCancel' = Prune
  /\ registrations' = {}
  /\ UNCHANGED <<pollVars, clones, gateVars, threadVars>>

Cancel(w) ==
  /\ host = "cancelling"
  /\ w \in toCancel
  /\ cancelled' = cancelled \cup {w}
  /\ toCancel' = toCancel \ {w}
  /\ UNCHANGED <<host, pollVars, clones, registrations, retired, quiescing,
                 fired, active, threadVars>>

\* The first loop ends and the second begins.
AllCancelled ==
  /\ host = "cancelling"
  /\ toCancel = {}
  /\ host' = "waiting"
  /\ UNCHANGED <<pollVars, clones, registrations, closeVars, gateVars,
                 threadVars>>

\* wait_until_quiescent(w) finds it inactive; the loop drops its reference.
WaitDone(w) ==
  /\ host = "waiting"
  /\ w \in quiescing
  /\ w \notin active
  /\ current \in {NoWaker, w}
  /\ quiescing' = quiescing \ {w}
  /\ current' = NoWaker
  /\ UNCHANGED <<host, pending, poisoned, made, clones, registrations, retired,
                 toCancel, gateVars, threadVars>>

\* wait_until_quiescent(w) finds it active and sleeps on its Condvar.
WaitSleep(w) ==
  /\ host = "waiting"
  /\ w \in quiescing \cap active
  /\ current \in {NoWaker, w}
  /\ host' = "asleep"
  /\ current' = w
  /\ UNCHANGED <<pending, poisoned, made, clones, registrations, closeVars,
                 gateVars, threadVars>>

\* A Condvar may wake its waiter without a notification.
SpuriousWakeup ==
  /\ host = "asleep"
  /\ host' = "waiting"
  /\ UNCHANGED <<pollVars, clones, registrations, closeVars, gateVars,
                 threadVars>>

AllQuiescent ==
  /\ host = "waiting"
  /\ quiescing = {}
  /\ host' = "dropping"
  /\ UNCHANGED <<pollVars, clones, registrations, closeVars, gateVars,
                 threadVars>>

\* drop(scanner): the stream drops its clones; those that I/O tasks hold
\* survive (`left`), and a panic in the drop is swallowed and leaks.
DropScanner ==
  /\ host = "dropping"
  /\ host' = "closed"
  /\ pending' = NoWaker
  /\ \E left \in [Wakers -> 0..MaxClones] :
        /\ \A w \in Wakers : left[w] <= clones[w]
        /\ clones' = left
  /\ UNCHANGED <<current, poisoned, made, registrations, closeVars, gateVars,
                 threadVars>>

CloseStep == \/ \E w \in Wakers : Cancel(w) \/ WaitDone(w) \/ WaitSleep(w)
             \/ AllCancelled
             \/ AllQuiescent
             \/ DropScanner

WakeStep(t) == \/ CallbackReturn(t)
               \/ \E keep \in BOOLEAN : WakeExit(t, keep)

Next ==
  \/ \E w \in Wakers : PollBegin(w) \/ Clone(w) \/ DropClone(w) \/ WakeGated(w)
  \/ PollPending \/ PollReady \/ PollPanic \/ BlockingNext
  \/ \E t \in Threads, w \in Wakers : WakeEnter(t, w)
  \/ \E t \in Threads : WakeStep(t)
  \/ Retire
  \/ CloseStep
  \/ SpuriousWakeup

(***************************************************************************)
(* Fairness.  A close that has begun runs on; a thread inside wake_once    *)
(* runs on (the callback must return, lance.h); and the runtime wakes the  *)
(* waker of a PENDING poll (the contract of Stream::poll_next).  The host  *)
(* need never poll or close.                                               *)
(***************************************************************************)
Fairness ==
  /\ WF_vars(CloseStep)
  /\ \A t \in Threads : WF_vars(WakeStep(t))
  /\ \A w \in Wakers : WF_vars(pending = w /\ \E t \in Threads : WakeEnter(t, w))

Spec == Init /\ [][Next]_vars

FairSpec == Spec /\ Fairness

-----------------------------------------------------------------------------
(* Properties.                                                             *)

\* When lance_scanner_close has returned no thread is inside a waker
\* callback, so the host may free every waker ctx (retire_and_wait).
NoCallbackAfterClose == host = "closed" => inCallback = {}

\* All clones of one poll call's waker share a one-shot gate: the callback
\* begins at most once, whichever threads wake it (wake_once).
FiresAtMostOnce == \A w \in Wakers : calls[w] <= 1

\* Every context that somebody can still wake and that is not cancelled is
\* known to the registry or to the close in progress, although register
\* keeps forgetting registrations (PollWakerRegistry::register, retain).
ContextsAccountedFor ==
  \A w \in Wakers : Strong(w) /\ w \notin cancelled
                       => w \in registrations \cup toCancel

\* The stages of close after the loop that cancels.
GateShut == host \in {"waiting", "asleep", "dropping", "closed"}

\* Once close waits for the first running callback, no callback of any other
\* registration begins any more (the two loops of retire_and_wait).
CloseShutsGate == [][GateShut => calls' = calls]_vars

\* A close that has begun returns, whatever is being woken meanwhile.
CloseReturns == (host = "cancelling") ~> (host = "closed")

\* A PENDING poll is woken, unless the host polls again, reads with next or
\* closes: the one-shot gate never swallows the only wake.
PendingIsWoken ==
  \A w \in Wakers : (pending = w) ~> (calls[w] > 0 \/ pending # w)

\* The retirement phase and the running callbacks that this state stands for.
RetirementPhase == IF host = "closed" THEN "retired"
                   ELSE IF retired THEN "retiring" ELSE "open"
RunningCallbacks == {waking[t] : t \in inCallback}

Retirement == INSTANCE CallbackRetirement
                WITH Invocations <- Wakers,
                     phase <- RetirementPhase,
                     running <- RunningCallbacks

\* lance_scanner_close is the retirement boundary lance.h says it is.
ImplementsRetirement == Retirement!Spec
=============================================================================
