--------------------------- MODULE AsyncScanProofs ---------------------------
(***************************************************************************)
(* Proofs about AsyncScan, for any number of threads, scanners and calls:  *)
(* every call has one owner, a callback finds the outcome of its own call, *)
(* a panic poisons before it is heard of, and the calls implement the      *)
(* safety part of CompletionContract.                                      *)
(***************************************************************************)
EXTENDS AsyncScan, TLAPS

-----------------------------------------------------------------------------
(* The inductive invariant.                                                *)

\* A completion that has been built says how its call ended, and a panic in it
\* has already poisoned the scanner.
Truthful(m) == /\ m.code \in Codes
               /\ m.code = outcome[m.call]
               /\ m.code = "Panic" => target[m.call] \in poisoned

\* What a thread in the middle of a call can rely on.
ThreadInv(x) ==
  /\ at[x] \in {"check", "build"} => target[cur[x].call] \in Scanners \cup {Null}
  /\ at[x] = "build" => target[cur[x].call] \in Scanners
  /\ at[x] \in {"dispatch", "install", "callback"} => Truthful(cur[x])
  /\ at[x] = "callback" => tls[x] = cur[x].code

IInv ==
  /\ TypeOK
  /\ OneOwner
  /\ \A x \in Threads : ThreadInv(x)
  /\ \A i \in 1..Len(queue) : Truthful(queue[i])
  /\ \A c \in tasks : target[c] \in Scanners

\* The parts of the invariant, and the types of single values.
LEMMA Parts ==
  ASSUME IInv
  PROVE  /\ TypeOK /\ OneOwner
         /\ \A x \in Threads :
              /\ ThreadInv(x) /\ cur[x].call \in Calls
              /\ cur[x] = [call |-> cur[x].call, code |-> cur[x].code]
         /\ \A i \in 1..Len(queue) :
              Truthful(queue[i]) /\ queue[i] \in Message /\ queue[i].call \in Calls
         /\ \A c \in tasks : target[c] \in Scanners
         /\ Len(queue) \in Nat
         /\ \A c \in Calls : completed[c] \in Nat
<1>1. Len(queue) \in Nat /\ \A i \in 1..Len(queue) : queue[i] \in Message
  BY DEF IInv, TypeOK
<1> QED BY <1>1 DEF IInv, TypeOK, Message

-----------------------------------------------------------------------------
(* One owner per call.                                                     *)

\* What OneOwner says of one call.
Own(c) ==
  /\ \A x, y \in Threads :
       Busy(x) /\ Busy(y) /\ cur[x].call = c /\ cur[y].call = c => x = y
  /\ \A i, j \in 1..Len(queue) :
       queue[i].call = c /\ queue[j].call = c => i = j
  /\ Held(c) => c \notin tasks /\ ~Queued(c) /\ completed[c] = 0
  /\ c \in tasks => ~Queued(c) /\ completed[c] = 0
  /\ Queued(c) => completed[c] = 0
  /\ completed[c] <= 1
  /\ Started(c) <=> \/ Held(c) \/ c \in tasks
                    \/ Queued(c) \/ completed[c] = 1

LEMMA OwnEach == /\ OneOwner <=> \A c \in Calls : Own(c)
                 /\ OneOwner' <=> \A c \in Calls : Own(c)'
BY DEF OneOwner, Own

\* A call whose places do not change keeps its owner.
LEMMA OwnKept ==
  ASSUME NEW c \in Calls, Own(c),
         \A x \in Threads : (Busy(x)' /\ cur'[x].call = c) <=> (Busy(x) /\ cur[x].call = c),
         c \in tasks' <=> c \in tasks, completed'[c] = completed[c], target'[c] = target[c],
         Queued(c)' <=> Queued(c),
         \A i, j \in 1..Len(queue') : queue'[i].call = c /\ queue'[j].call = c => i = j
  PROVE  Own(c)'
<1>1. Held(c)' <=> Held(c)
  BY DEF Held
<1>2. Started(c)' <=> Started(c)
  BY DEF Started
<1> QED BY <1>1, <1>2 DEF Own

\* Steps that change at most the state of one thread within its call.
LEMMA OwnersKept ==
  ASSUME OneOwner, UNCHANGED <<tasks, queue>>,
         \A c \in Calls : completed'[c] = completed[c] /\ target'[c] = target[c],
         \A x \in Threads : /\ Busy(x)' <=> Busy(x)
                            /\ Busy(x) => cur'[x].call = cur[x].call
  PROVE  OneOwner'
<1>1. ASSUME NEW c \in Calls PROVE Own(c)'
  <2>1. Own(c)
    BY OwnEach
  <2>2. Queued(c)' <=> Queued(c)
    BY DEF Queued
  <2>3. \A i, j \in 1..Len(queue') : queue'[i].call = c /\ queue'[j].call = c => i = j
    BY <2>1 DEF Own
  <2> QED BY <2>1, <2>2, <2>3, OwnKept
<1> QED BY <1>1, OwnEach

\* The queue after a message is appended.
LEMMA QueueAppend ==
  ASSUME queue \in Seq(Message), NEW m \in Message, queue' = Append(queue, m)
  PROVE  /\ queue' \in Seq(Message) /\ Len(queue') = Len(queue) + 1 /\ Len(queue) \in Nat
         /\ \A i \in 1..Len(queue) : queue'[i] = queue[i]
         /\ queue'[Len(queue) + 1] = m
OBVIOUS

\* The queue after its first message is taken.
LEMMA QueueTail ==
  ASSUME queue \in Seq(Message), queue # <<>>, queue' = Tail(queue)
  PROVE  /\ queue' \in Seq(Message) /\ Len(queue') = Len(queue) - 1 /\ Len(queue) \in Nat
         /\ \A i \in 1..Len(queue') : i + 1 \in 1..Len(queue) /\ queue'[i] = queue[i + 1]
         /\ 1 \in 1..Len(queue) /\ Head(queue) = queue[1]
OBVIOUS

\* A call a busy thread works on is nowhere else.
LEMMA HeldOnce ==
  ASSUME IInv, NEW t \in Threads, Busy(t)
  PROVE  /\ \A x \in Threads : x # t /\ Busy(x) => cur[x].call # cur[t].call
         /\ \A i \in 1..Len(queue) : queue[i].call # cur[t].call
         /\ cur[t].call \notin tasks /\ completed[cur[t].call] = 0
         /\ Started(cur[t].call)
<1>1. cur[t].call \in Calls /\ Own(cur[t].call)
  BY Parts, OwnEach
<1>2. Held(cur[t].call)
  BY DEF Held
<1> QED BY <1>1, <1>2 DEF Own, Queued

\* A call with a spawned task is nowhere else.
LEMMA SpawnedOnce ==
  ASSUME IInv, NEW c \in tasks
  PROVE  /\ \A x \in Threads : Busy(x) => cur[x].call # c
         /\ \A i \in 1..Len(queue) : queue[i].call # c
         /\ completed[c] = 0 /\ Started(c) /\ c \in Calls
<1>1. c \in Calls /\ Own(c)
  BY Parts, OwnEach DEF TypeOK
<1> QED BY <1>1 DEF Own, Held, Queued

\* A call not made yet is nowhere.
LEMMA UnstartedNowhere ==
  ASSUME IInv, NEW c \in Calls, ~Started(c)
  PROVE  /\ \A x \in Threads : Busy(x) => cur[x].call # c
         /\ \A i \in 1..Len(queue) : queue[i].call # c
         /\ c \notin tasks /\ completed[c] = 0
<1>1. Own(c) /\ completed[c] \in Nat
  BY Parts, OwnEach
<1>2. completed[c] # 1 /\ completed[c] <= 1
  BY <1>1 DEF Own
<1> QED BY <1>1, <1>2 DEF Own, Held, Queued

-----------------------------------------------------------------------------
(* What threads and messages rely on.                                      *)

\* A thread that does not move keeps what it relies on.
LEMMA ThreadKept ==
  ASSUME NEW x \in Threads, ThreadInv(x), poisoned \subseteq poisoned',
         at'[x] = at[x], cur'[x] = cur[x], tls'[x] = tls[x],
         Busy(x) => /\ outcome'[cur[x].call] = outcome[cur[x].call]
                    /\ target'[cur[x].call] = target[cur[x].call]
  PROVE  ThreadInv(x)'
BY DEF ThreadInv, Truthful, Busy

\* A completion stays true while the outcome of its call does.
LEMMA TruthKept ==
  ASSUME NEW m, Truthful(m), poisoned \subseteq poisoned',
         outcome'[m.call] = outcome[m.call], target'[m.call] = target[m.call]
  PROVE  Truthful(m)'
BY DEF Truthful

\* The queue keeps its messages, and what they say stays true.
LEMMA QueueKept ==
  ASSUME IInv, queue' = queue, poisoned \subseteq poisoned',
         \A i \in 1..Len(queue) : /\ outcome'[queue[i].call] = outcome[queue[i].call]
                                  /\ target'[queue[i].call] = target[queue[i].call]
  PROVE  \A i \in 1..Len(queue') : Truthful(queue[i])'
<1>1. ASSUME NEW i \in 1..Len(queue) PROVE Truthful(queue[i])'
  <2>1. Truthful(queue[i])
    BY Parts
  <2> QED BY <2>1, TruthKept DEF Truthful
<1> QED BY <1>1

-----------------------------------------------------------------------------
(* One lemma per kind of step.                                             *)

\* A thread that has the call, or takes its task, ends it with this code and
\* has the completion ready.
LEMMA ReadyIInv ==
  ASSUME IInv, NEW x \in Threads, NEW c \in Calls, NEW code \in Codes,
         ReadyToDispatch(x, c, code),
         UNCHANGED <<target, completed, closed, channelVars>>,
         poisoned \subseteq poisoned', poisoned' \subseteq Scanners,
         code = "Panic" => target[c] \in poisoned',
         tls' \in [Threads -> Codes],
         \A y \in Threads : y # x => tls'[y] = tls[y],
         \/ Busy(x) /\ cur[x].call = c /\ tasks' = tasks
         \/ at[x] = "idle" /\ c \in tasks /\ tasks' = tasks \ {c}
  PROVE  IInv'
<1>1. /\ TypeOK /\ at' = [at EXCEPT ![x] = "dispatch"]
      /\ cur' = [cur EXCEPT ![x] = [call |-> c, code |-> code]]
      /\ outcome' = [outcome EXCEPT ![c] = code]
      /\ queue' = queue /\ dispatcher' = dispatcher /\ target' = target
  BY Parts DEF ReadyToDispatch, channelVars
<1>2. /\ \A y \in Threads : y # x /\ Busy(y) => cur[y].call # c
      /\ \A i \in 1..Len(queue) : queue[i].call # c
      /\ completed[c] = 0 /\ Started(c)
  BY HeldOnce, SpawnedOnce
<1>3. /\ at'[x] = "dispatch" /\ cur'[x] = [call |-> c, code |-> code]
      /\ \A y \in Threads : y # x => at'[y] = at[y] /\ cur'[y] = cur[y]
      /\ outcome'[c] = code
      /\ \A d \in Calls : d # c => outcome'[d] = outcome[d]
  BY <1>1 DEF TypeOK
<1>4. TypeOK'
  <2>1. cur' \in [Threads -> [call : Calls, code : Codes \cup {"none"}]]
    BY <1>1 DEF TypeOK
  <2>2. at' \in [Threads -> ThreadStates] /\ outcome' \in [Calls -> Codes \cup {"none"}]
    BY <1>1 DEF TypeOK, ThreadStates
  <2>3. \A y \in Threads : at'[y] \in {"install", "callback"} => cur'[y].code \in Codes
    BY <1>1, <1>3 DEF TypeOK
  <2>4. tasks' \in SUBSET Calls
    BY <1>1 DEF TypeOK
  <2> QED BY <1>1, <2>1, <2>2, <2>3, <2>4 DEF TypeOK
<1>5. OneOwner'
  <2>1. ASSUME NEW d \in Calls, d # c PROVE Own(d)'
    <3>1. Own(d)
      BY Parts, OwnEach
    <3>2. \A y \in Threads : (Busy(y)' /\ cur'[y].call = d) <=> (Busy(y) /\ cur[y].call = d)
      <4>1. ASSUME NEW y \in Threads
            PROVE  (Busy(y)' /\ cur'[y].call = d) <=> (Busy(y) /\ cur[y].call = d)
        <5>1. CASE y = x
          BY <1>3, <2>1, <5>1 DEF Busy
        <5>2. CASE y # x
          BY <1>3, <5>2 DEF Busy
        <5> QED BY <5>1, <5>2
      <4> QED BY <4>1
    <3>3. Queued(d)' <=> Queued(d)
      BY <1>1 DEF Queued
    <3>4. \A i, j \in 1..Len(queue') : queue'[i].call = d /\ queue'[j].call = d => i = j
      BY <1>1, <3>1 DEF Own
    <3>5. d \in tasks' <=> d \in tasks
      BY <2>1
    <3> QED BY <1>1, <3>1, <3>2, <3>3, <3>4, <3>5, OwnKept
  <2>2. Own(c)'
    <3>1. \A y \in Threads : Busy(y)' /\ cur'[y].call = c => y = x
      BY <1>2, <1>3 DEF Busy
    <3>2. Held(c)' /\ ~Queued(c)' /\ Started(c)' /\ completed'[c] = 0
      BY <1>1, <1>2, <1>3 DEF Held, Queued, Started, Busy
    <3>3. c \notin tasks'
      BY HeldOnce
    <3>4. \A i \in 1..Len(queue') : queue'[i].call # c
      BY <1>1, <1>2
    <3> QED BY <3>1, <3>2, <3>3, <3>4 DEF Own
  <2> QED BY <2>1, <2>2, OwnEach
<1>6. ASSUME NEW y \in Threads PROVE ThreadInv(y)'
  <2>1. CASE y = x
    BY <1>1, <1>3, <2>1 DEF ThreadInv, Truthful
  <2>2. CASE y # x
    BY <1>1, <1>2, <1>3, <2>2, Parts, ThreadKept
  <2> QED BY <2>1, <2>2
<1>7. \A i \in 1..Len(queue') : Truthful(queue[i])'
  BY <1>1, <1>2, <1>3, Parts, QueueKept
<1>8. \A d \in tasks' : target'[d] \in Scanners
  BY <1>1, Parts
<1> QED BY <1>4, <1>5, <1>6, <1>7, <1>8 DEF IInv

\* The failures of the setup and the ends of a task.
LEMMA ReportIInv ==
  ASSUME IInv
  PROVE  /\ \A t \in Callers : SetupBuildFails(t) \/ SetupPanics(t) => IInv'
         /\ \A t \in Callers : at[t] = "check" /\ target[cur[t].call] = Null
                               /\ SetupRejects(t, "InvalidArgument") => IInv'
         /\ \A t \in Callers : at[t] = "check" /\ target[cur[t].call] \in poisoned
                               /\ SetupRejects(t, "Panic") => IInv'
         /\ \A c \in Calls : TaskStep(c) => IInv'
<1>1. /\ TypeOK /\ poisoned \subseteq Scanners
      /\ \A x \in Callers \cup Workers : x \in Threads
      /\ {"Ok", "InvalidArgument", "IoError", "Panic"} \subseteq Codes
  BY Parts DEF TypeOK, Threads, Codes
<1>2. ASSUME NEW t \in Callers, NEW code \in Codes, at[t] # "idle",
             code = "Panic" => target[cur[t].call] \in poisoned,
             SetupRejects(t, code)
      PROVE  IInv'
  <2>1. tls' \in [Threads -> Codes] /\ \A y \in Threads : y # t => tls'[y] = tls[y]
    BY <1>1, <1>2 DEF SetupRejects, TypeOK
  <2>2. cur[t].call \in Calls /\ Busy(t)
    BY <1>1, <1>2, Parts DEF Busy
  <2>3. /\ ReadyToDispatch(t, cur[t].call, code) /\ UNCHANGED <<poisoned, tasks>>
        /\ UNCHANGED <<target, completed, closed, channelVars>>
    BY <1>2 DEF SetupRejects, scannerVars
  <2> QED BY <1>1, <1>2, <2>1, <2>2, <2>3, ReadyIInv
<1>3. ASSUME NEW t \in Callers, SetupPanics(t) PROVE IInv'
  <2>1. t \in Threads /\ cur[t].call \in Calls /\ Busy(t) /\ target[cur[t].call] \in Scanners
    BY <1>1, <1>3, Parts DEF Busy, SetupPanics, ThreadInv
  <2>2. /\ ReadyToDispatch(t, cur[t].call, "Panic") /\ UNCHANGED <<tls, tasks>>
        /\ UNCHANGED <<target, completed, closed, channelVars>>
        /\ poisoned' = poisoned \cup {target[cur[t].call]}
    BY <1>3 DEF SetupPanics
  <2> QED BY <1>1, <2>1, <2>2, ReadyIInv DEF TypeOK
<1>4. ASSUME NEW c \in Calls, TaskStep(c) PROVE IInv'
  <2>1. PICK w \in Workers : (\E code \in Codes : TaskEnds(w, c, code)) \/ TaskPanics(w, c)
    BY <1>4 DEF TaskStep
  <2>2. ASSUME NEW code \in Codes, TaskEnds(w, c, code) PROVE IInv'
    <3>1. /\ at[w] = "idle" /\ c \in tasks /\ tasks' = tasks \ {c} /\ code # "Panic"
          /\ ReadyToDispatch(w, c, code) /\ UNCHANGED <<tls, poisoned>>
          /\ UNCHANGED <<target, completed, closed, channelVars>>
      BY <2>2 DEF TaskEnds, scannerVars
    <3> QED BY <1>1, <2>2, <3>1, ReadyIInv DEF TypeOK
  <2>3. CASE TaskPanics(w, c)
    <3>1. /\ at[w] = "idle" /\ c \in tasks /\ tasks' = tasks \ {c}
          /\ ReadyToDispatch(w, c, "Panic") /\ UNCHANGED tls
          /\ poisoned' = poisoned \cup {target[c]}
          /\ UNCHANGED <<target, completed, closed, channelVars>>
      BY <2>3 DEF TaskPanics
    <3>2. target[c] \in Scanners
      BY <3>1, Parts
    <3> QED BY <1>1, <3>1, <3>2, ReadyIInv DEF TypeOK
  <2> QED BY <2>1, <2>2, <2>3
<1>5. ASSUME NEW t \in Callers, SetupBuildFails(t) PROVE IInv'
  BY <1>1, <1>2, <1>5 DEF SetupBuildFails
<1> QED BY <1>1, <1>2, <1>3, <1>4, <1>5

\* A thread moves on within its call: the scanner is accepted, a message is
\* installed.
LEMMA MoveIInv ==
  ASSUME IInv, NEW x \in Threads, NEW s \in ThreadStates,
         at[x] # "idle", s # "idle", at' = [at EXCEPT ![x] = s],
         UNCHANGED <<callVars, scannerVars, queue, tasks, cur>>,
         dispatcher' \in DispatcherStates,
         tls' \in [Threads -> Codes], \A y \in Threads : y # x => tls'[y] = tls[y],
         ThreadInv(x)'
  PROVE  IInv'
<1>1. /\ TypeOK /\ at'[x] = s /\ \A y \in Threads : y # x => at'[y] = at[y]
      /\ at' \in [Threads -> ThreadStates]
      /\ UNCHANGED <<target, completed, outcome, poisoned, closed, queue, tasks, cur>>
  BY Parts DEF TypeOK, callVars, scannerVars
<1>2. TypeOK'
  <2>1. \A y \in Threads : at'[y] \in {"install", "callback"} => cur'[y].code \in Codes
    BY <1>1 DEF TypeOK, ThreadInv, Truthful
  <2> QED BY <1>1, <2>1 DEF TypeOK
<1>3. OneOwner'
  <2>1. \A y \in Threads : Busy(y)' <=> Busy(y)
    BY <1>1 DEF Busy
  <2> QED BY <1>1, <2>1, Parts, OwnersKept
<1>4. ASSUME NEW y \in Threads PROVE ThreadInv(y)'
  BY <1>1, Parts, ThreadKept
<1>5. \A i \in 1..Len(queue') : Truthful(queue[i])'
  BY <1>1, QueueKept
<1> QED BY <1>1, <1>2, <1>3, <1>4, <1>5, Parts DEF IInv

\* A call is made.
LEMMA ScanAsyncIInv ==
  ASSUME IInv, NEW t \in Callers, NEW c \in Calls, NEW s \in Scanners \cup {Null},
         ScanAsync(t, c, s)
  PROVE  IInv'
<1>1. /\ TypeOK /\ t \in Threads /\ at[t] = "idle" /\ ~Started(c)
      /\ target' = [target EXCEPT ![c] = s]
      /\ at' = [at EXCEPT ![t] = "check"]
      /\ cur' = [cur EXCEPT ![t] = [call |-> c, code |-> "none"]]
      /\ UNCHANGED <<completed, outcome, poisoned, closed, dispatcher, queue, tasks, tls>>
  BY Parts DEF ScanAsync, scannerVars, channelVars, Threads
<1>2. /\ at'[t] = "check" /\ cur'[t] = [call |-> c, code |-> "none"]
      /\ \A y \in Threads : y # t => at'[y] = at[y] /\ cur'[y] = cur[y]
      /\ target'[c] = s /\ \A d \in Calls : d # c => target'[d] = target[d]
  BY <1>1 DEF TypeOK
<1>3. /\ \A y \in Threads : Busy(y) => cur[y].call # c
      /\ \A i \in 1..Len(queue) : queue[i].call # c
      /\ c \notin tasks /\ completed[c] = 0
  BY <1>1, UnstartedNowhere
<1>4. TypeOK'
  <2>1. cur' \in [Threads -> [call : Calls, code : Codes \cup {"none"}]]
    BY <1>1 DEF TypeOK
  <2>2. at' \in [Threads -> ThreadStates] /\ target' \in [Calls -> Scanners \cup {Null, NotStarted}]
    BY <1>1 DEF TypeOK, ThreadStates
  <2>3. \A y \in Threads : at'[y] \in {"install", "callback"} => cur'[y].code \in Codes
    BY <1>1, <1>2 DEF TypeOK
  <2> QED BY <1>1, <2>1, <2>2, <2>3 DEF TypeOK
<1>5. ASSUME NEW d \in Calls PROVE Own(d)'
  <2>1. CASE d # c
    <3>1. Own(d)
      BY Parts, OwnEach
    <3>2. ASSUME NEW y \in Threads
          PROVE  (Busy(y)' /\ cur'[y].call = d) <=> (Busy(y) /\ cur[y].call = d)
      <4>1. CASE y = t
        BY <1>1, <1>2, <2>1, <4>1 DEF Busy
      <4>2. CASE y # t
        BY <1>2, <4>2 DEF Busy
      <4> QED BY <4>1, <4>2
    <3>3. Queued(d)' <=> Queued(d)
      BY <1>1 DEF Queued
    <3>4. \A i, j \in 1..Len(queue') : queue'[i].call = d /\ queue'[j].call = d => i = j
      BY <1>1, <3>1 DEF Own
    <3>5. target'[d] = target[d]
      BY <1>2, <2>1
    <3> QED BY <1>1, <3>1, <3>2, <3>3, <3>4, <3>5, OwnKept
  <2>2. CASE d = c
    <3>1. \A y \in Threads : Busy(y)' /\ cur'[y].call = c => y = t
      BY <1>2, <1>3 DEF Busy
    <3>2. Held(c)' /\ ~Queued(c)' /\ completed'[c] = 0 /\ c \notin tasks'
      BY <1>1, <1>2, <1>3 DEF Held, Queued, Busy
    <3>3. Started(c)'
      BY <1>2, ThreadAssumption DEF Started
    <3>4. \A i \in 1..Len(queue') : queue'[i].call # c
      BY <1>1, <1>3
    <3> QED BY <2>2, <3>1, <3>2, <3>3, <3>4 DEF Own
  <2> QED BY <2>1, <2>2
<1>6. ASSUME NEW y \in Threads PROVE ThreadInv(y)'
  <2>1. CASE y = t
    BY <1>2, <2>1 DEF ThreadInv
  <2>2. CASE y # t
    BY <1>1, <1>2, <1>3, <2>2, Parts, ThreadKept
  <2> QED BY <2>1, <2>2
<1>7. \A i \in 1..Len(queue') : Truthful(queue[i])'
  BY <1>1, <1>2, <1>3, Parts, QueueKept
<1>8. \A d \in tasks' : target'[d] \in Scanners
  BY <1>1, <1>2, <1>3, Parts DEF TypeOK
<1> QED BY <1>4, <1>5, <1>6, <1>7, <1>8, OwnEach DEF IInv

\* A thread is done with its call: no other thread has it, and the other
\* calls keep their threads.
LEMMA Leaves ==
  ASSUME IInv, NEW x \in Threads, at[x] # "idle", at' = [at EXCEPT ![x] = "idle"], cur' = cur
  PROVE  /\ at' \in [Threads -> ThreadStates] /\ at'[x] = "idle"
         /\ \A y \in Threads : y # x => at'[y] = at[y]
         /\ \A y \in Threads : Busy(y)' => cur'[y].call # cur[x].call
         /\ \A d \in Calls : d # cur[x].call =>
              \A y \in Threads : (Busy(y)' /\ cur'[y].call = d) <=> (Busy(y) /\ cur[y].call = d)
         /\ \A y \in Threads : at'[y] \in {"install", "callback"} => cur'[y].code \in Codes
<1>1. at' \in [Threads -> ThreadStates] /\ at'[x] = "idle" /\ \A y \in Threads : y # x => at'[y] = at[y]
  BY Parts DEF TypeOK, ThreadStates
<1>2. Busy(x) /\ \A y \in Threads : y # x /\ Busy(y) => cur[y].call # cur[x].call
  BY HeldOnce DEF Busy
<1>3. \A y \in Threads : Busy(y)' => cur'[y].call # cur[x].call
  BY <1>1, <1>2 DEF Busy
<1>4. ASSUME NEW d \in Calls, d # cur[x].call, NEW y \in Threads
      PROVE  (Busy(y)' /\ cur'[y].call = d) <=> (Busy(y) /\ cur[y].call = d)
  BY <1>1, <1>4 DEF Busy
<1>5. \A y \in Threads : at'[y] \in {"install", "callback"} => cur'[y].code \in Codes
  BY <1>1, Parts DEF TypeOK
<1> QED BY <1>1, <1>3, <1>4, <1>5

\* What the other threads rely on when a thread is done.
LEMMA LeavesThreads ==
  ASSUME IInv, NEW x \in Threads, at[x] # "idle", at' = [at EXCEPT ![x] = "idle"], cur' = cur,
         UNCHANGED <<target, outcome, poisoned>>, \A y \in Threads : y # x => tls'[y] = tls[y]
  PROVE  \A y \in Threads : ThreadInv(y)'
<1>1. ASSUME NEW y \in Threads PROVE ThreadInv(y)'
  <2>1. CASE y = x
    BY <2>1, Leaves DEF ThreadInv
  <2>2. CASE y # x
    <3>1. at'[y] = at[y]
      BY <2>2, Leaves
    <3> QED BY <2>2, <3>1, Parts, ThreadKept
  <2> QED BY <2>1, <2>2
<1> QED BY <1>1

\* The setup accepts the scanner, refuses it, or fails.
LEMMA SetupIInv ==
  ASSUME IInv, NEW t \in Callers, SetupStep(t)
  PROVE  IInv'
<1>1. t \in Threads /\ TypeOK /\ ThreadInv(t) /\ cur[t].call \in Calls
  BY Parts DEF Threads
<1>2. CASE SetupCheck(t)
  <2>1. CASE /\ at[t] = "check" /\ target[cur[t].call] # Null
             /\ target[cur[t].call] \notin poisoned /\ at' = [at EXCEPT ![t] = "build"]
             /\ UNCHANGED <<callVars, scannerVars, channelVars, tasks, cur, tls>>
    <3>1. /\ dispatcher' \in DispatcherStates /\ tls' \in [Threads -> Codes] /\ tls' = tls
          /\ queue' = queue /\ tasks' = tasks /\ cur' = cur /\ target' = target
      BY <1>1, <2>1 DEF TypeOK, channelVars, callVars
    <3>2. ThreadInv(t)'
      BY <1>1, <2>1, <3>1 DEF ThreadInv, TypeOK
    <3> QED BY <1>1, <2>1, <3>1, <3>2, MoveIInv DEF ThreadStates
  <2> QED BY <1>2, <2>1, ReportIInv DEF SetupCheck
<1>3. CASE SetupSpawns(t)
  <2> DEFINE c == cur[t].call
  <2>1. /\ at[t] = "build" /\ tasks' = tasks \cup {c} /\ at' = [at EXCEPT ![t] = "idle"]
        /\ UNCHANGED <<target, completed, outcome, poisoned, closed, dispatcher, queue, cur, tls>>
    BY <1>3 DEF SetupSpawns, callVars, scannerVars, channelVars
  <2>2. /\ \A i \in 1..Len(queue) : queue[i].call # c
        /\ completed[c] = 0 /\ Started(c)
    BY <1>1, <2>1, HeldOnce DEF Busy
  <2>3. TypeOK'
    <3>1. at' \in [Threads -> ThreadStates]
      BY <1>1, <2>1, Leaves
    <3>3. tasks' \in SUBSET Calls
      BY <1>1, <2>1 DEF TypeOK
    <3>2. \A y \in Threads : at'[y] \in {"install", "callback"} => cur'[y].code \in Codes
      BY <1>1, <2>1, Leaves
    <3> QED BY <1>1, <2>1, <3>1, <3>2, <3>3 DEF TypeOK
  <2>4. ASSUME NEW d \in Calls PROVE Own(d)'
    <3>1. CASE d # c
      <4>1. Own(d)
        BY Parts, OwnEach
      <4>2. \A y \in Threads : (Busy(y)' /\ cur'[y].call = d) <=> (Busy(y) /\ cur[y].call = d)
        BY <1>1, <2>1, <3>1, Leaves
      <4>3. /\ Queued(d)' <=> Queued(d)
            /\ \A i, j \in 1..Len(queue') : queue'[i].call = d /\ queue'[j].call = d => i = j
            /\ d \in tasks' <=> d \in tasks
        BY <2>1, <3>1, <4>1 DEF Queued, Own
      <4> QED BY <2>1, <4>1, <4>2, <4>3, OwnKept
    <3>2. CASE d = c
      <4>1. \A y \in Threads : ~(Busy(y)' /\ cur'[y].call = d)
        BY <1>1, <2>1, <3>2, Leaves
      <4>2. ~Held(d)' /\ ~Queued(d)' /\ completed'[d] = 0 /\ d \in tasks' /\ Started(d)'
        BY <2>1, <2>2, <3>2, <4>1 DEF Held, Queued, Started
      <4>3. \A i \in 1..Len(queue') : queue'[i].call # d
        BY <2>1, <2>2, <3>2
      <4> QED BY <3>2, <4>1, <4>2, <4>3 DEF Own
    <3> QED BY <3>1, <3>2
  <2>5. \A y \in Threads : ThreadInv(y)'
    BY <1>1, <2>1, LeavesThreads
  <2>6. \A i \in 1..Len(queue') : Truthful(queue[i])'
    BY <2>1, QueueKept
  <2>7. \A d \in tasks' : target'[d] \in Scanners
    BY <1>1, <2>1, Parts DEF ThreadInv
  <2> QED BY <2>3, <2>4, <2>5, <2>6, <2>7, OwnEach DEF IInv
<1> QED BY <1>2, <1>3, ReportIInv DEF SetupStep

\* The message goes to the channel, or stays with its thread.
LEMMA DispatchIInv ==
  ASSUME IInv, NEW x \in Threads, Dispatch(x)
  PROVE  IInv'
<1> DEFINE c == cur[x].call
<1>1. /\ TypeOK /\ ThreadInv(x) /\ c \in Calls /\ at[x] = "dispatch"
      /\ UNCHANGED <<target, completed, outcome, poisoned, closed, tasks, cur, tls>>
      /\ dispatcher' \in DispatcherStates
  BY Parts DEF Dispatch, callVars, scannerVars, DispatcherNow, TypeOK, DispatcherStates
<1>2. Truthful(cur[x]) /\ cur[x] \in Message
  <2>1. Truthful(cur[x])
    BY <1>1 DEF ThreadInv
  <2>2. cur[x].code \in Codes /\ cur[x] = [call |-> cur[x].call, code |-> cur[x].code]
    BY <2>1, Parts DEF Truthful
  <2> QED BY <1>1, <2>1, <2>2 DEF Message
<1>3. CASE at' = [at EXCEPT ![x] = "install"] /\ queue' = queue
  <2>1. at'[x] = "install"
    BY <1>1, <1>3 DEF TypeOK
  <2>2. ThreadInv(x)'
    BY <1>1, <1>2, <2>1 DEF ThreadInv, Truthful
  <2> QED BY <1>1, <1>3, <2>2, MoveIInv DEF ThreadStates, callVars, scannerVars, TypeOK
<1>4. CASE at' = [at EXCEPT ![x] = "idle"] /\ queue' = Append(queue, cur[x])
  <2>1. /\ queue' \in Seq(Message) /\ Len(queue') = Len(queue) + 1 /\ Len(queue) \in Nat
        /\ \A i \in 1..Len(queue) : queue'[i] = queue[i]
        /\ queue'[Len(queue) + 1] = cur[x]
    BY <1>1, <1>2, <1>4, QueueAppend DEF TypeOK
  <2>2. /\ \A i \in 1..Len(queue) : queue[i].call # c
        /\ c \notin tasks /\ completed[c] = 0 /\ Started(c)
    BY <1>1, HeldOnce DEF Busy
  <2>3. TypeOK'
    BY <1>1, <1>4, <2>1, Leaves DEF TypeOK
  <2>4. ASSUME NEW d \in Calls PROVE Own(d)'
    <3>1. CASE d # c
      <4>1. Own(d)
        BY Parts, OwnEach
      <4>2. \A y \in Threads : (Busy(y)' /\ cur'[y].call = d) <=> (Busy(y) /\ cur[y].call = d)
        BY <1>1, <1>4, <3>1, Leaves
      <4>3. \A i \in 1..Len(queue') :
              queue'[i].call = d => i \in 1..Len(queue) /\ queue[i].call = d
        BY <2>1, <3>1
      <4>4. Queued(d)' <=> Queued(d)
        BY <2>1, <4>3 DEF Queued
      <4>5. \A i, j \in 1..Len(queue') : queue'[i].call = d /\ queue'[j].call = d => i = j
        BY <4>1, <4>3 DEF Own
      <4> QED BY <1>1, <4>1, <4>2, <4>4, <4>5, OwnKept
    <3>2. CASE d = c
      <4>1. \A y \in Threads : ~(Busy(y)' /\ cur'[y].call = d)
        BY <1>1, <1>4, <3>2, Leaves
      <4>2. ~Held(d)' /\ completed'[d] = 0 /\ d \notin tasks' /\ Started(d)'
        BY <1>1, <2>2, <3>2, <4>1 DEF Held, Started
      <4>3. \A i \in 1..Len(queue') : queue'[i].call = d => i = Len(queue) + 1
        BY <2>1, <2>2, <3>2
      <4>4. Queued(d)'
        <5>1. Len(queue) + 1 \in 1..Len(queue') /\ queue'[Len(queue) + 1].call = d
          BY <2>1, <3>2
        <5> QED BY <5>1 DEF Queued
      <4> QED BY <3>2, <4>1, <4>2, <4>3, <4>4 DEF Own
    <3> QED BY <3>1, <3>2
  <2>5. \A y \in Threads : ThreadInv(y)'
    BY <1>1, <1>4, LeavesThreads
  <2>6. ASSUME NEW i \in 1..Len(queue') PROVE Truthful(queue[i])'
    <3>1. CASE i \in 1..Len(queue)
      BY <1>1, <2>1, <3>1, Parts DEF Truthful
    <3>2. CASE i = Len(queue) + 1
      BY <1>1, <1>2, <2>1, <3>2 DEF Truthful
    <3> QED BY <2>1, <3>1, <3>2
  <2>7. \A d \in tasks' : target'[d] \in Scanners
    BY <1>1, Parts
  <2> QED BY <2>3, <2>4, <2>5, <2>6, <2>7, OwnEach DEF IInv
<1> QED BY <1>3, <1>4 DEF Dispatch

\* The dispatcher thread takes the first message.
LEMMA ReceiveIInv ==
  ASSUME IInv, Receive
  PROVE  IInv'
<1> DEFINE m == queue[1]
<1>1. /\ TypeOK /\ Dispatcher \in Threads /\ at[Dispatcher] = "idle"
      /\ at' = [at EXCEPT ![Dispatcher] = "install"]
      /\ cur' = [cur EXCEPT ![Dispatcher] = Head(queue)]
      /\ queue # <<>> /\ queue' = Tail(queue)
      /\ UNCHANGED <<target, completed, outcome, poisoned, closed, dispatcher, tasks, tls>>
  BY Parts DEF Receive, callVars, scannerVars, Threads
<1>2. /\ queue' \in Seq(Message) /\ Len(queue') = Len(queue) - 1 /\ Len(queue) \in Nat
      /\ \A i \in 1..Len(queue') : i + 1 \in 1..Len(queue) /\ queue'[i] = queue[i + 1]
      /\ 1 \in 1..Len(queue) /\ Head(queue) = m
  BY <1>1, QueueTail DEF TypeOK
<1>3. m \in Message /\ Truthful(m) /\ m.call \in Calls /\ m.code \in Codes
  BY <1>2, Parts DEF Truthful
<1>4. /\ at'[Dispatcher] = "install" /\ cur'[Dispatcher] = m
      /\ \A y \in Threads : y # Dispatcher => at'[y] = at[y] /\ cur'[y] = cur[y]
  BY <1>1, <1>2 DEF TypeOK
<1>5. /\ \A y \in Threads : Busy(y) => cur[y].call # m.call
      /\ m.call \notin tasks /\ completed[m.call] = 0 /\ Started(m.call)
      /\ \A i \in 1..Len(queue) : queue[i].call = m.call => i = 1
  <2>1. Own(m.call)
    BY <1>3, Parts, OwnEach
  <2>2. Queued(m.call)
    BY <1>2 DEF Queued
  <2> QED BY <1>2, <2>1, <2>2 DEF Own, Held
<1>6. TypeOK'
  <2>1. cur' \in [Threads -> [call : Calls, code : Codes \cup {"none"}]]
    BY <1>1, <1>2, <1>3 DEF TypeOK, Message
  <2>2. at' \in [Threads -> ThreadStates]
    BY <1>1 DEF TypeOK, ThreadStates
  <2>3. \A y \in Threads : at'[y] \in {"install", "callback"} => cur'[y].code \in Codes
    BY <1>1, <1>3, <1>4 DEF TypeOK
  <2> QED BY <1>1, <1>2, <2>1, <2>2, <2>3 DEF TypeOK
<1>7. ASSUME NEW d \in Calls PROVE Own(d)'
  <2>1. \A i, j \in 1..Len(queue') : queue'[i].call = d /\ queue'[j].call = d => i = j
    <3>1. Own(d)
      BY Parts, OwnEach
    <3>2. \A i, j \in 1..Len(queue) : queue[i].call = d /\ queue[j].call = d => i = j
      BY <3>1 DEF Own
    <3>3. ASSUME NEW i \in 1..Len(queue'), NEW j \in 1..Len(queue'),
                 queue'[i].call = d, queue'[j].call = d
          PROVE  i = j
      <4>1. i + 1 = j + 1
        BY <1>2, <3>2, <3>3
      <4> QED BY <4>1
    <3> QED BY <3>3
  <2>2. CASE d # m.call
    <3>1. Own(d)
      BY Parts, OwnEach
    <3>2. ASSUME NEW y \in Threads
          PROVE  (Busy(y)' /\ cur'[y].call = d) <=> (Busy(y) /\ cur[y].call = d)
      <4>1. CASE y = Dispatcher
        BY <1>1, <1>4, <2>2, <4>1 DEF Busy
      <4>2. CASE y # Dispatcher
        BY <1>4, <4>2 DEF Busy
      <4> QED BY <4>1, <4>2
    <3>3. ASSUME NEW i \in 1..Len(queue), queue[i].call = d
          PROVE  i - 1 \in 1..Len(queue') /\ queue'[i - 1].call = d
      <4>1. i # 1
        BY <2>2, <3>3
      <4>2. i - 1 \in 1..Len(queue') /\ (i - 1) + 1 = i
        BY <1>2, <4>1
      <4> QED BY <1>2, <3>3, <4>2
    <3>4. Queued(d)' <=> Queued(d)
      BY <1>2, <3>3 DEF Queued
    <3> QED BY <1>1, <2>1, <3>1, <3>2, <3>4, OwnKept
  <2>3. CASE d = m.call
    <3>1. \A y \in Threads : Busy(y)' /\ cur'[y].call = d => y = Dispatcher
      BY <1>4, <1>5, <2>3 DEF Busy
    <3>2. Held(d)' /\ completed'[d] = 0 /\ d \notin tasks' /\ Started(d)'
      BY <1>1, <1>4, <1>5, <2>3 DEF Held, Busy, Started
    <3>3. ASSUME NEW i \in 1..Len(queue'), queue'[i].call = d PROVE FALSE
      <4>1. i + 1 = 1
        BY <1>2, <1>5, <2>3, <3>3
      <4> QED BY <4>1
    <3>4. ~Queued(d)'
      BY <3>3 DEF Queued
    <3> QED BY <2>1, <3>1, <3>2, <3>4 DEF Own
  <2> QED BY <2>2, <2>3
<1>8. ASSUME NEW y \in Threads PROVE ThreadInv(y)'
  <2>1. CASE y = Dispatcher
    BY <1>1, <1>3, <1>4, <2>1 DEF ThreadInv, Truthful
  <2>2. CASE y # Dispatcher
    BY <1>1, <1>4, <2>2, Parts, ThreadKept
  <2> QED BY <2>1, <2>2
<1>9. ASSUME NEW i \in 1..Len(queue') PROVE Truthful(queue[i])'
  <2>1. i + 1 \in 1..Len(queue) /\ queue'[i] = queue[i + 1] /\ Truthful(queue[i + 1])
    BY <1>2, Parts
  <2> QED BY <1>1, <2>1 DEF Truthful
<1>10. \A d \in tasks' : target'[d] \in Scanners
  BY <1>1, Parts
<1> QED BY <1>6, <1>7, <1>8, <1>9, <1>10, OwnEach DEF IInv

\* The callback is entered.
LEMMA InstallIInv ==
  ASSUME IInv, NEW x \in Threads, Install(x)
  PROVE  IInv'
<1>1. /\ TypeOK /\ ThreadInv(x) /\ at[x] = "install" /\ Truthful(cur[x])
      /\ tls' = [tls EXCEPT ![x] = cur[x].code] /\ at' = [at EXCEPT ![x] = "callback"]
      /\ UNCHANGED <<target, completed, outcome, poisoned, closed, dispatcher, queue, tasks, cur>>
  BY Parts DEF Install, callVars, scannerVars, channelVars, ThreadInv
<1>2. /\ tls' \in [Threads -> Codes] /\ tls'[x] = cur[x].code
      /\ \A y \in Threads : y # x => tls'[y] = tls[y]
  BY <1>1 DEF TypeOK, Truthful
<1>3. ThreadInv(x)'
  <2>1. at'[x] = "callback"
    BY <1>1 DEF TypeOK
  <2> QED BY <1>1, <1>2, <2>1 DEF ThreadInv, Truthful
<1> QED BY <1>1, <1>2, <1>3, MoveIInv DEF ThreadStates, callVars, scannerVars, TypeOK

\* The callback has returned.
LEMMA CallbackIInv ==
  ASSUME IInv, NEW x \in Threads, NEW e \in {"Ok", "IoError"}, CallbackReturns(x, e)
  PROVE  IInv'
<1> DEFINE c == cur[x].call
<1>1. /\ TypeOK /\ c \in Calls /\ at[x] = "callback" /\ at' = [at EXCEPT ![x] = "idle"]
      /\ completed' = [completed EXCEPT ![c] = @ + 1] /\ tls' = [tls EXCEPT ![x] = e]
      /\ UNCHANGED <<target, outcome, poisoned, closed, dispatcher, queue, tasks, cur>>
  BY Parts DEF CallbackReturns, scannerVars, channelVars
<1>2. /\ \A i \in 1..Len(queue) : queue[i].call # c
      /\ c \notin tasks /\ completed[c] = 0 /\ Started(c)
  BY <1>1, HeldOnce DEF Busy
<1>3. /\ completed' \in [Calls -> Nat] /\ completed'[c] = 1
      /\ \A d \in Calls : d # c => completed'[d] = completed[d]
  BY <1>1, <1>2 DEF TypeOK
<1>4. tls' \in [Threads -> Codes] /\ \A y \in Threads : y # x => tls'[y] = tls[y]
  BY <1>1 DEF TypeOK, Codes
<1>5. TypeOK'
  <2>1. /\ at' \in [Threads -> ThreadStates]
        /\ \A y \in Threads : at'[y] \in {"install", "callback"} => cur'[y].code \in Codes
    BY <1>1, Leaves
  <2> QED BY <1>1, <1>3, <1>4, <2>1 DEF TypeOK
<1>6. ASSUME NEW d \in Calls PROVE Own(d)'
  <2>1. Own(d) /\ (Queued(d)' <=> Queued(d))
    BY <1>1, Parts, OwnEach DEF Queued
  <2>2. \A i, j \in 1..Len(queue') : queue'[i].call = d /\ queue'[j].call = d => i = j
    BY <1>1, <2>1 DEF Own
  <2>3. CASE d # c
    <3>1. \A y \in Threads : (Busy(y)' /\ cur'[y].call = d) <=> (Busy(y) /\ cur[y].call = d)
      BY <1>1, <2>3, Leaves
    <3> QED BY <1>1, <1>3, <2>1, <2>2, <2>3, <3>1, OwnKept
  <2>4. CASE d = c
    <3>1. \A y \in Threads : ~(Busy(y)' /\ cur'[y].call = d)
      BY <1>1, <2>4, Leaves
    <3>2. ~Held(d)' /\ ~Queued(d)' /\ completed'[d] = 1 /\ d \notin tasks' /\ Started(d)'
      BY <1>1, <1>2, <1>3, <2>4, <3>1 DEF Held, Queued, Started
    <3> QED BY <2>2, <3>1, <3>2 DEF Own
  <2> QED BY <2>3, <2>4
<1>7. \A y \in Threads : ThreadInv(y)'
  BY <1>1, <1>4, LeavesThreads
<1>8. \A i \in 1..Len(queue') : Truthful(queue[i])'
  BY <1>1, QueueKept
<1>9. \A d \in tasks' : target'[d] \in Scanners
  BY <1>1, Parts
<1> QED BY <1>5, <1>6, <1>7, <1>8, <1>9, OwnEach DEF IInv

\* Steps that touch no call: the channel fails, a scanner is closed, stuttering.
LEMMA OutsideIInv ==
  ASSUME IInv, DispatcherDies \/ (\E s \in Scanners : Close(s)) \/ UNCHANGED vars
  PROVE  IInv'
<1>1. /\ UNCHANGED <<target, completed, outcome, poisoned, queue, tasks, at, cur, tls>>
      /\ closed' \in SUBSET Scanners /\ dispatcher' \in DispatcherStates
  BY Parts DEF DispatcherDies, Close, vars, callVars, scannerVars, channelVars, threadVars,
               TypeOK, DispatcherStates
<1>2. TypeOK'
  BY <1>1, Parts DEF TypeOK
<1>3. OneOwner'
  BY <1>1, Parts, OwnersKept DEF Busy
<1>4. ASSUME NEW y \in Threads PROVE ThreadInv(y)'
  BY <1>1, Parts, ThreadKept
<1>5. \A i \in 1..Len(queue') : Truthful(queue[i])'
  BY <1>1, QueueKept
<1> QED BY <1>1, <1>2, <1>3, <1>4, <1>5, Parts DEF IInv

\* Every step preserves the invariant.
LEMMA NextIInv ==
  ASSUME IInv, [Next]_vars
  PROVE  IInv'
<1>1. ASSUME NEW x \in Threads, DeliverStep(x) PROVE IInv'
  BY <1>1, DispatchIInv, InstallIInv, CallbackIInv DEF DeliverStep
<1>2. ASSUME NEW t \in Callers, NEW c \in Calls, NEW s \in Scanners \cup {Null}, ScanAsync(t, c, s)
      PROVE  IInv'
  BY <1>2, ScanAsyncIInv
<1>3. CASE (\E t \in Callers : SetupStep(t)) \/ \E c \in Calls : TaskStep(c)
  BY <1>3, SetupIInv, ReportIInv
<1>4. CASE Receive
  BY <1>4, ReceiveIInv
<1>5. CASE DispatcherDies \/ (\E s \in Scanners : Close(s)) \/ UNCHANGED vars
  BY <1>5, OutsideIInv
<1> QED BY <1>1, <1>2, <1>3, <1>4, <1>5 DEF Next

\* No call has been made, and every thread is idle.
LEMMA InitIInv == Init => IInv
<1> SUFFICES ASSUME Init PROVE IInv
  OBVIOUS
<1>1. TypeOK
  BY DEF Init, TypeOK, ThreadStates, DispatcherStates, Codes
<1>2. /\ \A x \in Threads : ~Busy(x) /\ at[x] = "idle"
      /\ Len(queue) = 0 /\ tasks = {}
      /\ \A c \in Calls : completed[c] = 0 /\ ~Started(c)
  BY DEF Init, Busy, Started
<1>3. OneOwner
  BY <1>2 DEF OneOwner, Held, Queued
<1>4. \A x \in Threads : ThreadInv(x)
  BY <1>2 DEF ThreadInv
<1> QED BY <1>1, <1>2, <1>3, <1>4 DEF IInv

\* The inductive invariant holds throughout.
LEMMA Inductive == Spec => []IInv
<1>1. IInv /\ [Next]_vars => IInv'
  BY NextIInv
<1> QED BY <1>1, InitIInv, PTL DEF Spec

-----------------------------------------------------------------------------
(* The completion contract.                                                *)

\* Steps that neither make nor complete a call are stutters of the contract.
LEMMA Stutters ==
  ASSUME target' = target, completed' = completed
  PROVE  CallState' = CallState
BY DEF CallState, Started

\* Every step is a step of the contract or a stutter.
LEMMA StepRefines ==
  ASSUME IInv, [Next]_vars
  PROVE  [Contract!Next]_CallState
<1>1. TypeOK
  BY Parts
<1>2. ASSUME NEW t \in Callers, NEW c \in Calls, NEW s \in Scanners \cup {Null}, ScanAsync(t, c, s)
      PROVE  Contract!Begin(c)
  <2>1. ~Started(c) /\ completed' = completed /\ target' = [target EXCEPT ![c] = s]
    BY <1>2 DEF ScanAsync
  <2>2. completed[c] = 0
    BY <2>1, UnstartedNowhere
  <2>3. Started(c)' /\ \A d \in Calls : d # c => (Started(d)' <=> Started(d))
    BY <1>1, <2>1, ThreadAssumption DEF Started, TypeOK
  <2> QED BY <2>1, <2>2, <2>3 DEF Contract!Begin, CallState
<1>3. ASSUME NEW x \in Threads, NEW e, CallbackReturns(x, e)
      PROVE  Contract!Complete(cur[x].call) /\ cur[x].call \in Calls
  <2>1. /\ at[x] = "callback" /\ target' = target
        /\ completed' = [completed EXCEPT ![cur[x].call] = @ + 1]
    BY <1>3 DEF CallbackReturns
  <2>2. Started(cur[x].call) /\ completed[cur[x].call] = 0 /\ cur[x].call \in Calls
    BY <2>1, HeldOnce, Parts DEF Busy
  <2>3. /\ completed'[cur[x].call] = 1
        /\ \A d \in Calls : d # cur[x].call => completed'[d] = completed[d]
    BY <1>1, <2>1, <2>2 DEF TypeOK
  <2>4. \A d \in Calls : Started(d)' <=> Started(d)
    BY <2>1 DEF Started
  <2> QED BY <2>2, <2>3, <2>4 DEF Contract!Complete, CallState
<1>4. ASSUME NEW t \in Callers, SetupStep(t) PROVE CallState' = CallState
  BY <1>4, Stutters DEF SetupStep, SetupCheck, SetupBuildFails, SetupSpawns, SetupPanics,
                        SetupRejects, callVars
<1>5. ASSUME NEW c \in Calls, TaskStep(c) PROVE CallState' = CallState
  BY <1>5, Stutters DEF TaskStep, TaskEnds, TaskPanics
<1>6. ASSUME NEW x \in Threads, Dispatch(x) \/ Install(x) PROVE CallState' = CallState
  BY <1>6, Stutters DEF Dispatch, Install, callVars
<1>7. CASE Receive \/ DispatcherDies \/ (\E s \in Scanners : Close(s)) \/ UNCHANGED vars
  BY <1>7, Stutters DEF Receive, DispatcherDies, Close, vars, callVars
<1> QED BY <1>2, <1>3, <1>4, <1>5, <1>6, <1>7 DEF Next, DeliverStep, Contract!Next

-----------------------------------------------------------------------------
(* Theorems.                                                               *)

\* Types: among them, a completion is never installed without a code.
THEOREM TypeCorrect == Spec => []TypeOK
<1>1. IInv => TypeOK
  BY DEF IInv
<1> QED BY <1>1, Inductive, PTL

\* No completion is lost or delivered twice on its way through setup, panic
\* guard, task, channel and fallback, for any number of threads and calls.
THEOREM CallsHaveOneOwner == Spec => []OneOwner
<1>1. IInv => OneOwner
  BY DEF IInv
<1> QED BY <1>1, Inductive, PTL

\* deliver_message leaves in the thread-local slot what really happened to the
\* call whose callback it invokes, on whichever thread.
THEOREM CallbacksSeeTheirOutcome == Spec => []CallbackSeesItsOutcome
<1>1. IInv => CallbackSeesItsOutcome
  BY DEF IInv, ThreadInv, Truthful, CallbackSeesItsOutcome
<1> QED BY <1>1, Inductive, PTL

\* A panic has poisoned its scanner before any callback hears of it.
THEOREM PanicsPoisonFirst == Spec => []PanicPoisonsFirst
<1>1. IInv => PanicPoisonsFirst
  BY DEF IInv, ThreadInv, Truthful, PanicPoisonsFirst
<1> QED BY <1>1, Inductive, PTL

\* A call of lance_scanner_scan_async goes from made to completed, once: the
\* safety part of the contract; that it is completed at all is left to TLC.
THEOREM ImplementsContractSafety == Spec => Contract!Safety
<1>1. Init => Contract!Init
  BY DEF Init, Contract!Init, CallState, Started
<1>2. IInv /\ [Next]_vars => [Contract!Next]_CallState
  BY StepRefines
<1> QED BY <1>1, <1>2, Inductive, PTL DEF Spec, Contract!Safety
=============================================================================
