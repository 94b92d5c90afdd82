------------------------------ MODULE AsyncScan ------------------------------
(***************************************************************************)
(* lance_scanner_scan_async (src/src/scanner.rs) and the completion        *)
(* dispatcher (src/src/async_dispatcher.rs).                               *)
(*                                                                         *)
(* A host thread runs the setup of a call under a panic guard; the setup   *)
(* either fails and dispatches the completion itself or spawns a task that *)
(* a Tokio worker runs and that dispatches it.  Dispatching hands a        *)
(* message to the dispatcher thread or, when that thread could not be      *)
(* started or its channel has failed, delivers it on the producing thread. *)
(* Delivery installs the error of the message in the thread-local slot of  *)
(* the delivering thread and invokes the callback.  `tls` holds those      *)
(* slots; "Ok" is an empty slot.                                           *)
(***************************************************************************)
EXTENDS Naturals, Sequences

CONSTANTS Callers,     \* host threads
          Workers,     \* Tokio worker threads
          Dispatcher,  \* the dispatcher thread
          Scanners,    \* scanner handles
          Calls,       \* calls of lance_scanner_scan_async
          Null,        \* the NULL scanner
          NotStarted   \* target of a call not made yet

Threads == Callers \cup Workers \cup {Dispatcher}

ASSUME ThreadAssumption ==
  /\ Callers \cap Workers = {}
  /\ Dispatcher \notin Callers \cup Workers
  /\ Null \notin Scanners
  /\ NotStarted \notin Scanners \cup {Null}

Codes == {"Ok", "InvalidArgument", "IoError", "Panic"}
Message == [call : Calls, code : Codes]

VARIABLES
  target,      \* the scanner each call was made on
  poisoned,    \* scanners whose poison flag is set
  closed,      \* scanners that have been closed
  dispatcher,  \* the lazily started dispatcher, see DispatcherStates
  queue,       \* the dispatcher's channel
  tasks,       \* calls whose scan task has been spawned and has not ended
  at,          \* what each thread does, see ThreadStates
  cur,         \* the call and completion code each busy thread works on
  tls,         \* the last error of each thread
  completed,   \* callbacks that have returned, per call
  outcome      \* history: how each call really ended ("none" before)

DispatcherStates == {"unstarted", "up", "failed", "dead"}

\* "check" and "build" are the two halves of scan_async_setup; "dispatch" has
\* built a message; "install" delivers it on this thread; "callback" is in
\* the host's callback.
ThreadStates == {"idle", "check", "build", "dispatch", "install", "callback"}

callVars == <<target, completed, outcome>>
scannerVars == <<poisoned, closed>>
channelVars == <<dispatcher, queue>>
threadVars == <<at, cur, tls>>
vars == <<callVars, scannerVars, channelVars, tasks, threadVars>>

Started(c) == target[c] # NotStarted
Busy(x) == at[x] # "idle"

TypeOK ==
  /\ target \in [Calls -> Scanners \cup {Null, NotStarted}]
  /\ poisoned \in SUBSET Scanners
  /\ closed \in SUBSET Scanners
  /\ dispatcher \in DispatcherStates
  /\ queue \in Seq(Message)
  /\ tasks \in SUBSET Calls
  /\ at \in [Threads -> ThreadStates]
  /\ cur \in [Threads -> [call : Calls, code : Codes \cup {"none"}]]
  /\ \A x \in Threads : at[x] \in {"install", "callback"} => cur[x].code \in Codes
  /\ tls \in [Threads -> Codes]
  /\ completed \in [Calls -> Nat]
  /\ outcome \in [Calls -> Codes \cup {"none"}]

Init ==
  /\ target = [c \in Calls |-> NotStarted]
  /\ poisoned = {} /\ closed = {}
  /\ dispatcher = "unstarted" /\ queue = <<>>
  /\ tasks = {}
  /\ at = [x \in Threads |-> "idle"]
  /\ cur \in [Threads -> [call : Calls, code : {"none"}]]
  /\ \A x, y \in Threads : cur[x] = cur[y]
  /\ tls = [x \in Threads |-> "Ok"]
  /\ completed = [c \in Calls |-> 0]
  /\ outcome = [c \in Calls |-> "none"]

-----------------------------------------------------------------------------
(* The call, on a host thread.                                             *)

\* lance_scanner_scan_async is called with a non-NULL callback.
ScanAsync(t, c, s) ==
  /\ at[t] = "idle"
  /\ ~Started(c)
  /\ s \notin closed
  /\ target' = [target EXCEPT ![c] = s]
  /\ at' = [at EXCEPT ![t] = "check"]
  /\ cur' = [cur EXCEPT ![t] = [call |-> c, code |-> "none"]]
  /\ UNCHANGED <<completed, outcome, scannerVars, channelVars, tasks, tls>>

\* Thread x has the completion of its call ready, with this code.
ReadyToDispatch(x, c, code) ==
  /\ at' = [at EXCEPT ![x] = "dispatch"]
  /\ cur' = [cur EXCEPT ![x] = [call |-> c, code |-> code]]
  /\ outcome' = [outcome EXCEPT ![c] = code]

\* A handled failure of the setup also sets the caller's own slot.
SetupRejects(t, code) ==
  /\ ReadyToDispatch(t, cur[t].call, code)
  /\ tls' = [tls EXCEPT ![t] = code]
  /\ UNCHANGED <<target, completed, scannerVars, channelVars, tasks>>

\* scan_async_setup refuses a NULL or poisoned scanner.
SetupCheck(t) ==
  LET s == target[cur[t].call] IN
  /\ at[t] = "check"
  /\ \/ s = Null /\ SetupRejects(t, "InvalidArgument")
     \/ s \in poisoned /\ SetupRejects(t, "Panic")
     \/ /\ s # Null /\ s \notin poisoned
        /\ at' = [at EXCEPT ![t] = "build"]
        /\ UNCHANGED <<callVars, scannerVars, channelVars, tasks, cur, tls>>

\* build_scanner fails.
SetupBuildFails(t) ==
  /\ at[t] = "build"
  /\ SetupRejects(t, "IoError")

\* build_scanner succeeds and the task is spawned; the call returns.
SetupSpawns(t) ==
  /\ at[t] = "build"
  /\ tasks' = tasks \cup {cur[t].call}
  /\ at' = [at EXCEPT ![t] = "idle"]
  /\ UNCHANGED <<callVars, scannerVars, channelVars, cur, tls>>

\* Wrong variant: the panic comes after the task has been spawned.
SetupPanicsSpawned(t) ==
  /\ at[t] = "build"
  /\ poisoned' = poisoned \cup {target[cur[t].call]}
  /\ ReadyToDispatch(t, cur[t].call, "Panic")
  /\ tasks' = tasks \cup {cur[t].call}
  /\ UNCHANGED <<target, completed, closed, channelVars, tls>>

\* The setup panics before the spawn: the guard poisons the scanner and
\* dispatches.  The caller's slot is left alone.
SetupPanics(t) ==
  /\ at[t] = "build"
  /\ poisoned' = poisoned \cup {target[cur[t].call]}
  /\ ReadyToDispatch(t, cur[t].call, "Panic")
  /\ UNCHANGED <<target, completed, closed, channelVars, tasks, tls>>

-----------------------------------------------------------------------------
(* The task, on a worker.                                                  *)

\* try_into_stream ends with a stream or an error.
TaskEnds(w, c, code) ==
  /\ at[w] = "idle"
  /\ c \in tasks
  /\ code \in {"Ok", "IoError"}
  /\ tasks' = tasks \ {c}
  /\ ReadyToDispatch(w, c, code)
  /\ UNCHANGED <<target, completed, scannerVars, channelVars, tls>>

\* Wrong variant: the panic is reported and the scanner not poisoned.
TaskPanicsUnpoisoned(w, c) ==
  /\ at[w] = "idle"
  /\ c \in tasks
  /\ tasks' = tasks \ {c}
  /\ ReadyToDispatch(w, c, "Panic")
  /\ UNCHANGED <<target, completed, scannerVars, channelVars, tls>>

\* Wrong variant: the panic ends as an unobserved JoinError.
TaskPanicsUncaught(w, c) ==
  /\ at[w] = "idle"
  /\ c \in tasks
  /\ tasks' = tasks \ {c}
  /\ UNCHANGED <<callVars, scannerVars, channelVars, threadVars>>

\* The task panics: caught around its whole body, the scanner is poisoned,
\* closed or not, before the completion is dispatched.
TaskPanics(w, c) ==
  /\ at[w] = "idle"
  /\ c \in tasks
  /\ tasks' = tasks \ {c}
  /\ poisoned' = poisoned \cup {target[c]}
  /\ ReadyToDispatch(w, c, "Panic")
  /\ UNCHANGED <<target, completed, closed, channelVars, tls>>

-----------------------------------------------------------------------------
(* Dispatch and delivery, on any thread.                                   *)

\* The LazyLock starts the dispatcher at the first dispatch; that may fail.
DispatcherNow == IF dispatcher = "unstarted" THEN {"up", "failed"} ELSE {dispatcher}

\* Wrong variant: a message that cannot be sent is dropped.
DispatchDrops(x) ==
  /\ at[x] = "dispatch"
  /\ dispatcher' \in DispatcherNow
  /\ queue' = IF dispatcher' = "up" THEN Append(queue, cur[x]) ELSE queue
  /\ at' = [at EXCEPT ![x] = "idle"]
  /\ UNCHANGED <<callVars, scannerVars, tasks, cur, tls>>

\* dispatch_message: send, or deliver here if that is impossible.
Dispatch(x) ==
  /\ at[x] = "dispatch"
  /\ dispatcher' \in DispatcherNow
  /\ \/ /\ dispatcher' = "up"
        /\ queue' = Append(queue, cur[x])
        /\ at' = [at EXCEPT ![x] = "idle"]
     \/ /\ dispatcher' # "up"
        /\ at' = [at EXCEPT ![x] = "install"]
        /\ UNCHANGED queue
  /\ UNCHANGED <<callVars, scannerVars, tasks, cur, tls>>

\* The dispatcher thread receives the next message.
Receive ==
  /\ dispatcher = "up"
  /\ at[Dispatcher] = "idle"
  /\ queue # <<>>
  /\ cur' = [cur EXCEPT ![Dispatcher] = Head(queue)]
  /\ queue' = Tail(queue)
  /\ at' = [at EXCEPT ![Dispatcher] = "install"]
  /\ UNCHANGED <<callVars, scannerVars, dispatcher, tasks, tls>>

\* The channel fails.  A receiver that went away with messages in its queue
\* would lose them; the receive loop has no way out, so only the failure of
\* an idle channel is modelled.
DispatcherDies ==
  /\ dispatcher = "up"
  /\ queue = <<>>
  /\ at[Dispatcher] = "idle"
  /\ dispatcher' = "dead"
  /\ UNCHANGED <<callVars, scannerVars, queue, tasks, threadVars>>

\* Wrong variant: a successful completion leaves the slot alone.
InstallErrorsOnly(x) ==
  /\ at[x] = "install"
  /\ tls' = IF cur[x].code = "Ok" THEN tls ELSE [tls EXCEPT ![x] = cur[x].code]
  /\ at' = [at EXCEPT ![x] = "callback"]
  /\ UNCHANGED <<callVars, scannerVars, channelVars, tasks, cur>>

\* deliver_message sets or clears the slot and enters the callback.
Install(x) ==
  /\ at[x] = "install"
  /\ tls' = [tls EXCEPT ![x] = cur[x].code]
  /\ at' = [at EXCEPT ![x] = "callback"]
  /\ UNCHANGED <<callVars, scannerVars, channelVars, tasks, cur>>

\* The callback returns, or unwinds and is contained; what it called on this
\* thread has left some error in the slot.
CallbackReturns(x, e) ==
  /\ at[x] = "callback"
  /\ completed' = [completed EXCEPT ![cur[x].call] = @ + 1]
  /\ tls' = [tls EXCEPT ![x] = e]
  /\ at' = [at EXCEPT ![x] = "idle"]
  /\ UNCHANGED <<target, outcome, scannerVars, channelVars, tasks, cur>>

-----------------------------------------------------------------------------
(* The host around the calls.                                              *)

\* The scanner is closed while its tasks may still run.
Close(s) ==
  /\ s \notin closed
  /\ \A t \in Callers : at[t] \in {"check", "build"} => target[cur[t].call] # s
  /\ closed' = closed \cup {s}
  /\ UNCHANGED <<callVars, poisoned, channelVars, tasks, threadVars>>

SetupStep(t) == \/ SetupCheck(t) \/ SetupBuildFails(t) \/ SetupSpawns(t)
                \/ SetupPanics(t)
TaskStep(c) == \E w \in Workers : \/ \E code \in Codes : TaskEnds(w, c, code)
                                  \/ TaskPanics(w, c)
DeliverStep(x) == \/ Dispatch(x) \/ Install(x)
                  \/ \E e \in {"Ok", "IoError"} : CallbackReturns(x, e)

Next ==
  \/ \E t \in Callers, c \in Calls, s \in Scanners \cup {Null} : ScanAsync(t, c, s)
  \/ \E t \in Callers : SetupStep(t)
  \/ \E c \in Calls : TaskStep(c)
  \/ \E x \in Threads : DeliverStep(x)
  \/ Receive \/ DispatcherDies
  \/ \E s \in Scanners : Close(s)

Spec == Init /\ [][Next]_vars

\* Threads that can go on do, Tokio runs every spawned task to its end, and
\* host callbacks return.
Fairness ==
  /\ \A t \in Callers : WF_vars(SetupStep(t))
  /\ \A c \in Calls : WF_vars(TaskStep(c))
  /\ \A x \in Threads : WF_vars(DeliverStep(x))
  /\ WF_vars(Receive)

FairSpec == Spec /\ Fairness

-----------------------------------------------------------------------------
(* Properties.                                                             *)

Queued(c) == \E i \in 1..Len(queue) : queue[i].call = c
Held(c) == \E x \in Threads : Busy(x) /\ cur[x].call = c

\* The completion of a call is in exactly one place: with one thread, with
\* its task, in the channel, or delivered.  So none is lost between setup,
\* guard, task, channel and fallback, and none is delivered twice.
OneOwner ==
  \A c \in Calls :
    /\ \A x, y \in Threads :
         Busy(x) /\ Busy(y) /\ cur[x].call = c /\ cur[y].call = c => x = y
    /\ \A i, j \in 1..Len(queue) :
         queue[i].call = c /\ queue[j].call = c => i = j
    /\ Held(c) => c \notin tasks /\ ~Queued(c) /\ completed[c] = 0
    /\ c \in tasks => ~Queued(c) /\ completed[c] = 0
    /\ Queued(c) => completed[c] = 0
    /\ completed[c] <= 1
    /\ Started(c) <=> \/ Held(c) \/ c \in tasks
                      \/ Queued(c) \/ completed[c] = 1

\* Inside a callback the thread's last error is how this call really ended,
\* whichever thread it failed on and whichever thread delivers it.
CallbackSeesItsOutcome ==
  \A x \in Threads : at[x] = "callback" => tls[x] = outcome[cur[x].call]

\* When the host hears of a panic on a scanner, the scanner already refuses
\* further use.
PanicPoisonsFirst ==
  \A x \in Threads : at[x] = "callback" /\ cur[x].code = "Panic"
                       => target[cur[x].call] \in poisoned

\* Every call is completed: validation, setup, task, panic or a dispatcher
\* that is not there, closed scanner or not.
EveryCallCompletes == \A c \in Calls : Started(c) ~> completed[c] = 1

\* What the host sees of each call.
CallState == [c \in Calls |-> IF ~Started(c) THEN "idle"
                              ELSE IF completed[c] = 0 THEN "pending"
                              ELSE IF completed[c] = 1 THEN "done" ELSE "twice"]

Contract == INSTANCE CompletionContract WITH state <- CallState

\* The calls implement the exactly-one-completion contract.
ImplementsContract == Contract!Spec
=============================================================================
