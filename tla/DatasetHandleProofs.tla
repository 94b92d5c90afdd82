------------------------ MODULE DatasetHandleProofs ------------------------
(***************************************************************************)
(* Proofs about DatasetHandle, for any number of handles, mutating threads *)
(* and pins and any bound on versions, snapshots and panics.               *)
(***************************************************************************)
EXTENDS DatasetHandle, FiniteSetTheorems, TLAPS

-----------------------------------------------------------------------------
(* The inductive invariant.                                                *)

\* The thread is between taking and releasing the write lock.
Holding == {"working", "committed", "unchanged", "failed"}
Returned == {"committed", "unchanged", "failed"}

\* The write lock of a handle is held by the thread that mutates it.
LockInv ==
  \A h \in Handles, t \in Threads :
    lock[h] = t <=> pc[t] \in Holding /\ call[t].handle = h

\* A call in progress keeps its handle open; a restore has seen its target.
\* The clone of a mutation is not older than what the handle holds, and whole
\* when the closure has returned.
ThreadInv(t) ==
  /\ pc[t] # "idle" => inner[call[t].handle] # 0
  /\ pc[t] = "restoring" => call[t].start \in 1..Latest /\ call[t].target \in 1..Latest
  /\ pc[t] \in Holding => /\ working[t].ver <= Latest
                          /\ working[t].ver >= heap[inner[call[t].handle]].ver
  /\ pc[t] \in Returned => ~working[t].torn

\* What a mutation on the handle has reported is visible through it.
HandleInv(h) == inner[h] # 0 => heap[inner[h]].ver >= acked[h]

\* Restores that have returned, and their data in the log.
RestoreInv ==
  \A r \in restores : /\ r.got \in 1..Latest /\ r.target \in 1..Latest
                      /\ r.got > r.start /\ log[r.got] = log[r.target]

\* Calls in progress that may still need an Arc, and a version.
At(S) == Cardinality({t \in Threads : pc[t] \in S})
NeedArc == ThreadStates \ {"idle"}
NeedVersion == {"waiting", "working", "restoring"}

\* No call in progress is cut off by a bound.
BoundInv == /\ Len(heap) + At(NeedArc) <= MaxSnapshots
            /\ Latest + At(NeedVersion) <= MaxVersion

IInv == /\ TypeOK /\ BoundInv /\ LockInv /\ NoTornSnapshot /\ RestoreInv
        /\ \A t \in Threads : ThreadInv(t)
        /\ \A h \in Handles : HandleInv(h)

-----------------------------------------------------------------------------
(* Counting calls in progress.                                             *)

\* The number of threads at S is a number.
LEMMA AtNat == ASSUME NEW S PROVE At(S) \in Nat /\ At(S)' \in Nat
<1> DEFINE A == {t \in Threads : pc[t] \in S}
           B == {t \in Threads : pc'[t] \in S}
<1>1. IsFiniteSet(A) /\ IsFiniteSet(B)
  BY HandleAssumption, FS_Subset
<1>2. Cardinality(A) \in Nat /\ Cardinality(B) \in Nat
  BY <1>1, FS_CardinalityType
<1> QED BY <1>2 DEF At

\* What a step of one thread does to the number of threads at S.
LEMMA AtStep ==
  ASSUME NEW S, NEW t \in Threads, NEW s, pc \in [Threads -> ThreadStates],
         pc' = [pc EXCEPT ![t] = s]
  PROVE  /\ pc[t] \in S /\ s \notin S => At(S)' = At(S) - 1
         /\ pc[t] \notin S /\ s \in S => At(S)' = At(S) + 1
         /\ (pc[t] \in S <=> s \in S) => At(S)' = At(S)
<1> DEFINE A == {u \in Threads : pc[u] \in S}
           B == {u \in Threads : pc'[u] \in S}
<1>1. IsFiniteSet(A) /\ Cardinality(A) \in Nat
  <2>1. IsFiniteSet(A)
    BY HandleAssumption, FS_Subset
  <2> QED BY <2>1, FS_CardinalityType
<1>2. At(S) = Cardinality(A) /\ At(S)' = Cardinality(B)
  BY DEF At
<1>3. CASE pc[t] \in S /\ s \notin S
  <2>1. B = A \ {t} /\ t \in A
    BY <1>3
  <2>2. Cardinality(A \ {t}) = Cardinality(A) - 1
    BY <1>1, <2>1, FS_RemoveElement
  <2>3. At(S)' = At(S) - 1
    BY <1>2, <2>1, <2>2
  <2> QED BY <1>3, <2>3
<1>4. CASE pc[t] \notin S /\ s \in S
  <2>1. B = A \cup {t} /\ t \notin A
    BY <1>4
  <2>2. Cardinality(A \cup {t}) = Cardinality(A) + 1
    BY <1>1, <2>1, FS_AddElement
  <2>3. At(S)' = At(S) + 1
    BY <1>2, <2>1, <2>2
  <2> QED BY <1>4, <2>3
<1>5. CASE pc[t] \in S <=> s \in S
  <2>1. B = A
    BY <1>5
  <2>2. At(S)' = At(S)
    BY <1>2, <2>1
  <2> QED BY <1>5, <2>2
<1> QED BY <1>3, <1>4, <1>5

\* Room leaves an Arc and a version to spare.
LEMMA RoomSpare ==
  ASSUME TypeOK, Room
  PROVE  Len(heap) + At(NeedArc) < MaxSnapshots /\ Latest + At(NeedVersion) < MaxVersion
<1> DEFINE A == {t \in Threads : pc[t] \in NeedArc}
           V == {t \in Threads : pc[t] \in NeedVersion}
<1>1. A = {t \in Threads : pc[t] # "idle"} /\ V \subseteq A
  BY DEF TypeOK, NeedArc, NeedVersion, ThreadStates
<1>2. IsFiniteSet(A) /\ IsFiniteSet(V)
  BY HandleAssumption, FS_Subset
<1>3. Cardinality(V) <= Cardinality(A) /\ Cardinality(V) \in Nat /\ Cardinality(A) \in Nat
  BY <1>1, <1>2, FS_Subset, FS_CardinalityType
<1>4. At(NeedArc) = Cardinality(A) /\ At(NeedVersion) = Cardinality(V)
      /\ InProgress = Cardinality(A)
  BY <1>1 DEF At, InProgress
<1> QED BY <1>3, <1>4, HandleAssumption DEF Room, TypeOK, Latest

-----------------------------------------------------------------------------
(* The table.                                                              *)

\* Dataset values and manifests are added and never changed.
TableGrows ==
  /\ Len(heap) \in Nat /\ Len(heap') \in Nat /\ Len(heap') >= Len(heap)
  /\ \A i \in 1..Len(heap) : heap'[i] = heap[i]
  /\ Latest \in Nat /\ Latest' \in Nat /\ Latest' >= Latest
  /\ \A i \in 1..Latest : log'[i] = log[i]

\* The types of single values.
LEMMA Typed ==
  ASSUME TypeOK
  PROVE  /\ Len(heap) \in Nat \ {0} /\ Latest \in Nat \ {0}
         /\ \A i \in 1..Len(heap) : heap[i] \in Dataset /\ heap[i].ver \in Nat
         /\ \A t \in Threads : /\ working[t] \in Dataset /\ working[t].ver \in Nat
                               /\ working[t].torn \in BOOLEAN
                               /\ call[t].handle \in Handles
                               /\ call[t].start \in Nat /\ call[t].target \in Nat
         /\ \A h \in Handles : /\ inner[h] \in 0..Len(heap) /\ acked[h] \in Nat
                               /\ inner[h] # 0 => inner[h] \in 1..Len(heap)
<1>1. Len(heap) \in Nat \ {0} /\ Latest \in Nat \ {0}
  BY HandleAssumption DEF TypeOK, Arcs, Versions
<1>2. \A d \in Dataset : d.ver \in Nat /\ d.torn \in BOOLEAN
  BY HandleAssumption DEF Dataset, Versions
<1>3. \A i \in 1..Len(heap) : heap[i] \in Dataset
  BY DEF TypeOK
<1>4. \A t \in Threads : working[t] \in Dataset
  BY DEF TypeOK
<1>5. \A t \in Threads : /\ call[t].handle \in Handles
                         /\ call[t].start \in Nat /\ call[t].target \in Nat
  BY HandleAssumption DEF TypeOK
<1>6. \A h \in Handles : /\ inner[h] \in 0..Len(heap) /\ acked[h] \in Nat
                         /\ inner[h] # 0 => inner[h] \in 1..Len(heap)
  BY <1>1, HandleAssumption DEF TypeOK
<1> QED BY <1>1, <1>2, <1>3, <1>4, <1>5, <1>6

\* A new Arc.
LEMMA NewArc ==
  ASSUME TypeOK, NEW d \in Dataset, heap' = Append(heap, d)
  PROVE  /\ heap' \in Seq(Dataset) /\ Len(heap') = Len(heap) + 1
         /\ heap'[Len(heap) + 1] = d
         /\ \A i \in 1..Len(heap) : heap'[i] = heap[i]
<1>1. heap \in Seq(Dataset) /\ Len(heap) \in Nat
  BY DEF TypeOK
<1> QED BY <1>1

\* A new manifest.
LEMMA NewVersion ==
  ASSUME TypeOK, NEW n \in Nat, log' = Append(log, n)
  PROVE  /\ log' \in Seq(Nat) /\ Latest' = Latest + 1
         /\ log'[Latest + 1] = n
         /\ \A i \in 1..Latest : log'[i] = log[i]
<1>1. log \in Seq(Nat) /\ Len(log) \in Nat
  BY DEF TypeOK
<1> QED BY <1>1 DEF Latest

\* The table grows in each way a step may change it.
LEMMA Grows ==
  ASSUME TypeOK,
         heap' = heap \/ \E d \in Dataset : heap' = Append(heap, d),
         log' = log \/ \E n \in Nat : log' = Append(log, n)
  PROVE  /\ TableGrows
         /\ heap' \in Seq(Dataset) /\ log' \in Seq(Nat)
<1>1. Len(heap) \in Nat /\ Latest \in Nat /\ heap \in Seq(Dataset) /\ log \in Seq(Nat)
  BY Typed DEF TypeOK
<1>2. /\ Len(heap') \in Nat /\ Len(heap') >= Len(heap) /\ heap' \in Seq(Dataset)
      /\ \A i \in 1..Len(heap) : heap'[i] = heap[i]
  <2>1. CASE heap' = heap
    BY <1>1, <2>1
  <2>2. CASE \E d \in Dataset : heap' = Append(heap, d)
    BY <1>1, <2>2, NewArc
  <2> QED BY <2>1, <2>2
<1>3. /\ Latest' \in Nat /\ Latest' >= Latest /\ log' \in Seq(Nat)
      /\ \A i \in 1..Latest : log'[i] = log[i]
  <2>1. CASE log' = log
    BY <1>1, <2>1 DEF Latest
  <2>2. CASE \E n \in Nat : log' = Append(log, n)
    <3>1. PICK n \in Nat : log' = Append(log, n)
      BY <2>2
    <3>2. /\ log' \in Seq(Nat) /\ Latest' = Latest + 1
          /\ \A i \in 1..Latest : log'[i] = log[i]
      BY <3>1, NewVersion
    <3> QED BY <1>1, <3>2
  <2> QED BY <2>1, <2>2
<1> QED BY <1>1, <1>2, <1>3 DEF TableGrows

-----------------------------------------------------------------------------
(* What a step does not touch.                                             *)

\* A thread that does not take part keeps its invariant, if the handle it
\* works on keeps its Arc.
LEMMA ThreadKept ==
  ASSUME TypeOK, TableGrows, NEW u \in Threads, ThreadInv(u),
         pc'[u] = pc[u], call'[u] = call[u], working'[u] = working[u],
         pc[u] # "idle" => inner'[call[u].handle] = inner[call[u].handle]
  PROVE  ThreadInv(u)'
<1> DEFINE i == inner[call[u].handle]
<1>1. /\ working[u].ver \in Nat /\ (i # 0 => i \in 1..Len(heap) /\ heap[i].ver \in Nat)
      /\ call[u].start \in Nat /\ call[u].target \in Nat
  BY Typed
<1>2. CASE pc[u] = "idle"
  BY <1>2 DEF ThreadInv, Holding, Returned
<1>3. CASE pc[u] # "idle"
  <2>1. inner'[call[u].handle] = i /\ i # 0 /\ heap'[i] = heap[i]
    BY <1>1, <1>3 DEF ThreadInv, TableGrows
  <2> QED BY <1>1, <2>1 DEF ThreadInv, TableGrows, Holding, Returned
<1> QED BY <1>2, <1>3

\* A handle that keeps its Arc keeps its invariant.
LEMMA HandleKept ==
  ASSUME TypeOK, TableGrows, NEW h \in Handles, HandleInv(h),
         inner'[h] = inner[h], acked'[h] = acked[h]
  PROVE  HandleInv(h)'
BY Typed DEF HandleInv, TableGrows

\* Whole snapshots stay whole, and restores keep their data.
LEMMA TableKept ==
  ASSUME IInv, TableGrows,
         \/ heap' = heap
         \/ \E v \in Versions :
              v <= Latest' /\ heap' = Append(heap, [ver |-> v, torn |-> FALSE])
  PROVE  /\ NoTornSnapshot'
         /\ \A r \in restores : /\ r.got \in 1..Latest' /\ r.target \in 1..Latest'
                                /\ r.got > r.start /\ log'[r.got] = log'[r.target]
<1>1. TypeOK /\ NoTornSnapshot /\ RestoreInv
  BY DEF IInv
<1>2. NoTornSnapshot'
  <2> SUFFICES ASSUME NEW i \in 1..Len(heap') PROVE ~heap'[i].torn /\ heap'[i].ver <= Latest'
    BY DEF NoTornSnapshot
  <2>1. CASE i \in 1..Len(heap)
    BY <1>1, <2>1, Typed DEF NoTornSnapshot, TableGrows
  <2>2. CASE i \notin 1..Len(heap)
    <3>1. PICK v \in Versions : v <= Latest' /\ heap' = Append(heap, [ver |-> v, torn |-> FALSE])
      BY <2>2
    <3>2. [ver |-> v, torn |-> FALSE] \in Dataset
      BY DEF Dataset
    <3>3. heap'[i] = [ver |-> v, torn |-> FALSE]
      BY <1>1, <2>2, <3>1, <3>2, NewArc, Typed
    <3> QED BY <3>1, <3>3
  <2> QED BY <2>1, <2>2
<1>3. ASSUME NEW r \in restores
      PROVE  /\ r.got \in 1..Latest' /\ r.target \in 1..Latest'
             /\ r.got > r.start /\ log'[r.got] = log'[r.target]
  BY <1>1 DEF RestoreInv, TableGrows
<1> QED BY <1>2, <1>3

\* The bounds hold where no call is cut off.
LEMMA Sizes ==
  ASSUME TypeOK, TableGrows, BoundInv'
  PROVE  Len(heap') \in Arcs /\ Latest' \in Versions
<1>1. At(NeedArc)' \in Nat /\ At(NeedVersion)' \in Nat
  BY AtNat
<1>2. Len(heap) \in Nat \ {0} /\ Latest \in Nat \ {0}
  BY Typed
<1> QED BY <1>1, <1>2, HandleAssumption DEF BoundInv, TableGrows, Arcs, Versions

\* Arcs of handles and pins are still allocated.
LEMMA ArcsKept ==
  ASSUME TypeOK, TableGrows
  PROVE  inner \in [Handles -> 0..Len(heap')] /\ pin \in [Pins -> 0..Len(heap')]
BY DEF TypeOK, TableGrows

\* The parts of the invariant.
LEMMA Parts ==
  ASSUME IInv
  PROVE  /\ TypeOK /\ BoundInv /\ LockInv /\ NoTornSnapshot /\ RestoreInv
         /\ \A t \in Threads : ThreadInv(t)
         /\ \A h \in Handles : HandleInv(h)
BY DEF IInv

-----------------------------------------------------------------------------
(* The steps.                                                              *)

\* A closed slot h gets a handle on version v, in a new Arc.
LEMMA FreshHandle ==
  ASSUME IInv, NEW h \in Handles, inner[h] = 0, NEW v \in Versions, v <= Latest',
         log' = log \/ \E n \in Nat : log' = Append(log, n),
         PutNew(h, v), NEW a \in 0..MaxVersion, a <= v, acked' = [acked EXCEPT ![h] = a]
  PROVE  /\ TableGrows /\ heap' \in Seq(Dataset) /\ log' \in Seq(Nat)
         /\ Len(heap') = Len(heap) + 1
         /\ inner' \in [Handles -> 0..Len(heap')] /\ acked' \in [Handles -> 0..MaxVersion]
         /\ \A u \in Threads : pc[u] # "idle" =>
              call[u].handle # h /\ inner'[call[u].handle] = inner[call[u].handle]
         /\ \A g \in Handles : HandleInv(g)'
         /\ NoTornSnapshot'
         /\ restores' = restores => RestoreInv'
<1> DEFINE d == [ver |-> v, torn |-> FALSE]
<1>1. TypeOK /\ Len(heap) \in Nat /\ v \in Nat /\ a \in Nat
  BY Parts, Typed, HandleAssumption DEF Versions
<1>2. heap' = Append(heap, d) /\ d \in Dataset /\ inner' = [inner EXCEPT ![h] = Len(heap) + 1]
  BY DEF PutNew, Dataset
<1>3. TableGrows /\ heap' \in Seq(Dataset) /\ log' \in Seq(Nat)
  BY <1>1, <1>2, Grows
<1>4. Len(heap') = Len(heap) + 1 /\ heap'[Len(heap) + 1] = d
  BY <1>1, <1>2, NewArc
<1>5. inner' \in [Handles -> 0..Len(heap')]
  BY <1>1, <1>2, <1>3, <1>4, ArcsKept
<1>6. acked' \in [Handles -> 0..MaxVersion]
  BY <1>1 DEF TypeOK
<1>7. ASSUME NEW u \in Threads, pc[u] # "idle"
      PROVE  call[u].handle # h /\ inner'[call[u].handle] = inner[call[u].handle]
  <2>1. call[u].handle # h /\ call[u].handle \in Handles
    BY <1>1, <1>7, Parts, Typed DEF ThreadInv
  <2> QED BY <1>1, <1>2, <2>1 DEF TypeOK
<1>8. ASSUME NEW g \in Handles PROVE HandleInv(g)'
  <2>1. CASE g = h
    BY <1>1, <1>2, <1>4, <2>1 DEF HandleInv, TypeOK
  <2>2. CASE g # h
    <3>1. inner'[g] = inner[g] /\ acked'[g] = acked[g]
      BY <1>1, <1>2, <2>2 DEF TypeOK
    <3> QED BY <1>1, <1>3, <3>1, Parts, HandleKept
  <2> QED BY <2>1, <2>2
<1>9. NoTornSnapshot' /\ (restores' = restores => RestoreInv')
  BY <1>2, <1>3, TableKept DEF RestoreInv
<1> QED BY <1>3, <1>4, <1>5, <1>6, <1>7, <1>8, <1>9

\* Opening and writing, with or without a commit.
LEMMA OpenIInv ==
  ASSUME IInv, NEW h \in Handles, Room,
         WriteDataset(h) \/ \E v \in 0..MaxVersion : OpenDataset(h, v)
  PROVE  IInv' /\ TableGrows
<1>1. /\ TypeOK /\ Latest \in Versions /\ Latest \in Nat /\ Len(heap) \in Nat
      /\ At(NeedArc) \in Nat /\ At(NeedVersion) \in Nat
  BY Parts, Typed, AtNat DEF TypeOK
<1>2. /\ inner[h] = 0 /\ poisoned' = poisoned \ {h}
      /\ lock' = lock \/ lock' = [lock EXCEPT ![h] = NoThread]
      /\ UNCHANGED <<pc, call, working, panics, pin, restores>>
  BY DEF OpenDataset, WriteDataset, Open, threadVars
<1>3. /\ Len(heap) + At(NeedArc) < MaxSnapshots /\ Latest + At(NeedVersion) < MaxVersion
      /\ Latest + 1 \in Versions
  <2>1. Len(heap) + At(NeedArc) < MaxSnapshots /\ Latest + At(NeedVersion) < MaxVersion
    BY <1>1, RoomSpare
  <2> QED BY <1>1, <2>1, HandleAssumption DEF Versions
<1>4. PICK v \in Versions, a \in 0..MaxVersion :
        /\ v <= Latest' /\ a <= v /\ PutNew(h, v) /\ acked' = [acked EXCEPT ![h] = a]
        /\ log' = log \/ log' = Append(log, Latest + 1)
  <2>1. CASE WriteDataset(h)
    <3>1. Latest' = Latest + 1 /\ Latest + 1 \in 0..MaxVersion
      BY <1>1, <1>3, <2>1, NewVersion, HandleAssumption DEF WriteDataset, Versions
    <3>2. /\ PutNew(h, Latest + 1) /\ acked' = [acked EXCEPT ![h] = Latest + 1]
          /\ log' = Append(log, Latest + 1)
      BY <2>1 DEF WriteDataset
    <3>3. Latest + 1 <= Latest' /\ Latest + 1 <= Latest + 1
      BY <1>1, <3>1
    <3> QED BY <1>3, <3>1, <3>2, <3>3
  <2>2. ASSUME NEW v \in 0..MaxVersion, OpenDataset(h, v)
        PROVE  \E w \in Versions : /\ w <= Latest' /\ PutNew(h, w) /\ log' = log
                                   /\ acked' = [acked EXCEPT ![h] = 0]
    <3> DEFINE w == IF v = 0 THEN Latest ELSE v
    <3>1. w \in Versions /\ w <= Latest
      BY <1>1, <2>2, HandleAssumption DEF OpenDataset, Versions
    <3>2. PutNew(h, w) /\ log' = log /\ acked' = [acked EXCEPT ![h] = 0] /\ Latest' = Latest
      BY <2>2 DEF OpenDataset, Latest
    <3> QED BY <3>1, <3>2
  <2>3. 0 \in 0..MaxVersion /\ \A w \in Versions : 0 <= w
    BY HandleAssumption DEF Versions
  <2> QED BY <2>1, <2>2, <2>3
<1>5. /\ TableGrows /\ heap' \in Seq(Dataset) /\ log' \in Seq(Nat)
      /\ Len(heap') = Len(heap) + 1
      /\ inner' \in [Handles -> 0..Len(heap')] /\ acked' \in [Handles -> 0..MaxVersion]
      /\ \A u \in Threads : pc[u] # "idle" =>
           call[u].handle # h /\ inner'[call[u].handle] = inner[call[u].handle]
      /\ \A g \in Handles : HandleInv(g)'
      /\ NoTornSnapshot' /\ RestoreInv'
  <2>1. log' = log \/ \E n \in Nat : log' = Append(log, n)
    BY <1>1, <1>4
  <2> QED BY <1>2, <1>4, <2>1, FreshHandle
<1>6. BoundInv'
  <2>1. At(NeedArc)' = At(NeedArc) /\ At(NeedVersion)' = At(NeedVersion)
    BY <1>2 DEF At
  <2>2. Latest' = Latest \/ Latest' = Latest + 1
    BY <1>1, <1>4, NewVersion DEF Latest
  <2>3. /\ Len(heap') = Len(heap) + 1 /\ Len(heap) \in Nat /\ Latest \in Nat
        /\ At(NeedArc) \in Nat /\ At(NeedVersion) \in Nat
        /\ Len(heap) + At(NeedArc) < MaxSnapshots /\ Latest + At(NeedVersion) < MaxVersion
    BY <1>1, <1>3, <1>5, AtNat
  <2>4. Len(heap') + At(NeedArc)' <= MaxSnapshots
    BY <2>1, <2>3, HandleAssumption
  <2>5. Latest' + At(NeedVersion)' <= MaxVersion
    BY <2>1, <2>2, <2>3, HandleAssumption
  <2> QED BY <2>4, <2>5 DEF BoundInv
<1>7. TypeOK'
  <2>1. pin' \in [Pins -> 0..Len(heap')]
    BY <1>1, <1>2, <1>5, ArcsKept
  <2>2. lock' \in [Handles -> Threads \cup {NoThread}]
    BY <1>1, <1>2 DEF TypeOK
  <2> QED BY <1>1, <1>2, <1>5, <1>6, <2>1, <2>2, Sizes DEF TypeOK
<1>8. LockInv'
  <2>1. \A t \in Threads : lock[h] # t
    BY <1>5, Parts DEF LockInv, Holding
  <2>2. \A g \in Handles, t \in Threads : lock'[g] = t <=> lock[g] = t
    BY <1>1, <1>2, <2>1, HandleAssumption DEF TypeOK
  <2> QED BY <1>2, <2>2, Parts DEF LockInv
<1>9. \A u \in Threads : ThreadInv(u)'
  BY <1>1, <1>2, <1>5, Parts, ThreadKept
<1> QED BY <1>5, <1>6, <1>7, <1>8, <1>9 DEF IInv

\* Closing a handle no call is using.
LEMMA CloseDatasetIInv ==
  ASSUME IInv, NEW h \in Handles, CloseDataset(h)
  PROVE  IInv' /\ TableGrows
<1>1. TypeOK /\ Len(heap) \in Nat
  BY Parts, Typed
<1>2. /\ inner' = [inner EXCEPT ![h] = 0]
      /\ UNCHANGED <<log, heap, lock, poisoned, acked, pc, call, working, panics, pin, restores>>
      /\ \A u \in Threads : pc[u] # "idle" => call[u].handle # h
  BY DEF CloseDataset, tableVars, threadVars
<1>3. TableGrows
  BY <1>1, <1>2, Grows
<1>4. TypeOK' /\ BoundInv' /\ LockInv'
  <2>1. inner' \in [Handles -> 0..Len(heap)]
    BY <1>1, <1>2 DEF TypeOK
  <2>2. TypeOK'
    BY <1>1, <1>2, <2>1 DEF TypeOK, Latest
  <2>3. BoundInv' /\ LockInv'
    BY <1>2, Parts DEF BoundInv, LockInv, At, Latest
  <2> QED BY <2>2, <2>3
<1>5. ASSUME NEW u \in Threads PROVE ThreadInv(u)'
  <2>1. pc[u] # "idle" => inner'[call[u].handle] = inner[call[u].handle]
    BY <1>1, <1>2, Typed DEF TypeOK
  <2> QED BY <1>1, <1>2, <1>3, <2>1, Parts, ThreadKept
<1>6. ASSUME NEW g \in Handles PROVE HandleInv(g)'
  <2>1. CASE g = h
    BY <1>1, <1>2, <2>1 DEF HandleInv, TypeOK
  <2>2. CASE g # h
    BY <1>1, <1>2, <1>3, <2>2, Parts, HandleKept DEF TypeOK
  <2> QED BY <2>1, <2>2
<1>7. NoTornSnapshot' /\ RestoreInv'
  BY <1>2, <1>3, TableKept DEF RestoreInv
<1> QED BY <1>3, <1>4, <1>5, <1>6, <1>7 DEF IInv

\* Steps that change neither handles nor the heap: a commit of another
\* process, pins, and steps of threads.
LEMMA OutsideIInv ==
  ASSUME IInv, TableGrows, TypeOK', BoundInv', LockInv',
         UNCHANGED <<heap, inner, acked, restores>>,
         \A u \in Threads : \/ ThreadInv(u)'
                            \/ pc'[u] = pc[u] /\ call'[u] = call[u] /\ working'[u] = working[u]
  PROVE  IInv'
<1>1. \A u \in Threads : ThreadInv(u)'
  BY Parts, ThreadKept
<1>2. \A g \in Handles : HandleInv(g)'
  BY Parts, HandleKept
<1>3. NoTornSnapshot' /\ RestoreInv'
  BY TableKept DEF RestoreInv
<1> QED BY <1>1, <1>2, <1>3 DEF IInv

\* Another process commits a version.
LEMMA ForeignCommitIInv ==
  ASSUME IInv, ForeignCommit
  PROVE  IInv' /\ TableGrows
<1>1. /\ TypeOK /\ Latest \in Nat /\ Len(heap) \in Nat
      /\ At(NeedArc) \in Nat /\ At(NeedVersion) \in Nat
  BY Parts, Typed, AtNat
<1>2. /\ log' = Append(log, Latest + 1)
      /\ UNCHANGED <<heap, inner, lock, poisoned, acked, pc, call, working, panics, pin, restores>>
  BY DEF ForeignCommit, handleVars, threadVars
<1>3. TableGrows /\ log' \in Seq(Nat) /\ Latest' = Latest + 1
  BY <1>1, <1>2, Grows, NewVersion
<1>4. BoundInv'
  <2>1. At(NeedArc)' = At(NeedArc) /\ At(NeedVersion)' = At(NeedVersion)
    BY <1>2 DEF At
  <2>2. Len(heap) + At(NeedArc) < MaxSnapshots /\ Latest + At(NeedVersion) < MaxVersion
    BY <1>1, RoomSpare DEF ForeignCommit
  <2> QED BY <1>1, <1>2, <1>3, <2>1, <2>2, HandleAssumption DEF BoundInv
<1>5. TypeOK' /\ LockInv'
  <2>1. TypeOK'
    BY <1>1, <1>2, <1>3, <1>4, Sizes DEF TypeOK
  <2>2. LockInv'
    BY <1>2, Parts DEF LockInv
  <2> QED BY <2>1, <2>2
<1> QED BY <1>2, <1>3, <1>4, <1>5, OutsideIInv

\* A scanner, stream or version list takes or drops a snapshot.
LEMMA PinIInv ==
  ASSUME IInv, NEW p \in Pins, Unpin(p) \/ \E h \in Handles : Pin(p, h)
  PROVE  IInv' /\ TableGrows
<1>1. TypeOK /\ Len(heap) \in Nat
  BY Parts, Typed
<1>2. /\ UNCHANGED <<log, heap, inner, lock, poisoned, acked, pc, call, working, panics, restores>>
      /\ \E i \in 0..Len(heap) : pin' = [pin EXCEPT ![p] = i]
  <2>1. CASE Unpin(p)
    <3>1. 0 \in 0..Len(heap) /\ pin' = [pin EXCEPT ![p] = 0]
      BY <1>1, <2>1 DEF Unpin
    <3> QED BY <2>1, <3>1 DEF Unpin, tableVars, handleVars, threadVars
  <2>2. CASE \E h \in Handles : Pin(p, h)
    BY <1>1, <2>2, Typed DEF Pin, tableVars, handleVars, threadVars
  <2> QED BY <2>1, <2>2
<1>3. TableGrows
  BY <1>1, <1>2, Grows
<1>4. TypeOK'
  BY <1>1, <1>2 DEF TypeOK, Latest
<1>5. BoundInv' /\ LockInv'
  BY <1>2, Parts DEF BoundInv, LockInv, At, Latest
<1> QED BY <1>2, <1>3, <1>4, <1>5, OutsideIInv

\* A thread that begins a call.
LEMMA BeginIInv ==
  ASSUME IInv, NEW t \in Threads, NEW h \in Handles,
         Mutate(t, h) \/ \E v \in Versions : RestoreBegin(t, h, v)
  PROVE  IInv' /\ TableGrows
<1>1. /\ TypeOK /\ Latest \in Nat /\ Len(heap) \in Nat /\ Latest \in Versions
      /\ At(NeedArc) \in Nat /\ At(NeedVersion) \in Nat
  BY Parts, Typed, AtNat DEF TypeOK
<1>2. /\ UNCHANGED <<log, heap, inner, lock, poisoned, acked, working, panics, pin, restores>>
      /\ pc[t] = "idle" /\ inner[h] # 0 /\ Room
  BY DEF Mutate, RestoreBegin, CanSnapshot, Open, tableVars, handleVars
<1>3. PICK s \in {"waiting", "restoring"}, a \in 0..MaxVersion, b \in 0..MaxVersion :
        /\ pc' = [pc EXCEPT ![t] = s]
        /\ call' = [call EXCEPT ![t] = [handle |-> h, start |-> a, target |-> b]]
        /\ s = "restoring" => a \in 1..Latest /\ b \in 1..Latest
  <2>1. CASE Mutate(t, h)
    <3>1. 0 \in 0..MaxVersion /\ "waiting" # "restoring"
      BY HandleAssumption
    <3> QED BY <2>1, <3>1 DEF Mutate
  <2>2. ASSUME NEW v \in Versions, RestoreBegin(t, h, v)
        PROVE  \E a, b \in 0..MaxVersion :
                 /\ pc' = [pc EXCEPT ![t] = "restoring"]
                 /\ call' = [call EXCEPT ![t] = [handle |-> h, start |-> a, target |-> b]]
                 /\ a \in 1..Latest /\ b \in 1..Latest
    <3>1. v \in 1..Latest /\ v \in 0..MaxVersion /\ Latest \in 0..MaxVersion /\ Latest \in 1..Latest
      BY <1>1, <2>2, HandleAssumption DEF RestoreBegin, Versions
    <3> QED BY <2>2, <3>1 DEF RestoreBegin
  <2> QED BY <2>1, <2>2
<1>4. /\ pc'[t] = s /\ call'[t].handle = h /\ call'[t].start = a /\ call'[t].target = b
      /\ \A u \in Threads \ {t} : pc'[u] = pc[u] /\ call'[u] = call[u]
      /\ pc' \in [Threads -> ThreadStates]
      /\ call' \in [Threads -> [handle : Handles, start : 0..MaxVersion, target : 0..MaxVersion]]
  BY <1>1, <1>3 DEF TypeOK, ThreadStates
<1>5. TableGrows /\ Latest' = Latest
  BY <1>1, <1>2, Grows DEF Latest
<1>6. BoundInv'
  <2>1. /\ pc[t] \notin NeedArc /\ s \in NeedArc
        /\ pc[t] \notin NeedVersion /\ s \in NeedVersion
    BY <1>2 DEF NeedArc, NeedVersion, ThreadStates
  <2>2. At(NeedArc)' = At(NeedArc) + 1 /\ At(NeedVersion)' = At(NeedVersion) + 1
    BY <1>1, <1>3, <2>1, AtStep DEF TypeOK
  <2>3. Len(heap) + At(NeedArc) < MaxSnapshots /\ Latest + At(NeedVersion) < MaxVersion
    BY <1>1, <1>2, RoomSpare
  <2> QED BY <1>1, <1>2, <1>5, <2>2, <2>3, HandleAssumption DEF BoundInv
<1>7. TypeOK'
  BY <1>1, <1>2, <1>4 DEF TypeOK, Latest
<1>8. LockInv'
  <2>1. pc[t] \notin Holding /\ s \notin Holding
    BY <1>2 DEF Holding
  <2> QED BY <1>2, <1>4, <2>1, Parts DEF LockInv
<1>9. ThreadInv(t)'
  BY <1>2, <1>3, <1>4, <1>5 DEF ThreadInv, Holding, Returned
<1> QED BY <1>2, <1>4, <1>5, <1>6, <1>7, <1>8, <1>9, OutsideIInv

\* The write lock is taken and the Dataset cloned.
LEMMA AcquireIInv ==
  ASSUME IInv, NEW t \in Threads, Acquire(t)
  PROVE  IInv' /\ TableGrows
<1> DEFINE h == call[t].handle
           i == inner[h]
<1>1. /\ TypeOK /\ Latest \in Nat /\ h \in Handles /\ i # 0 /\ i \in 1..Len(heap)
      /\ heap[i] \in Dataset /\ heap[i].ver \in Nat /\ heap[i].ver <= Latest
  <2>1. TypeOK /\ h \in Handles /\ i # 0
    BY Parts, Typed DEF Acquire, ThreadInv
  <2>2. i \in 1..Len(heap)
    BY <2>1, Typed
  <2> QED BY <2>1, <2>2, Parts, Typed DEF NoTornSnapshot
<1>2. /\ UNCHANGED <<log, heap, inner, poisoned, acked, call, panics, pin, restores>>
      /\ pc[t] = "waiting" /\ lock[h] = NoThread /\ pc' = [pc EXCEPT ![t] = "working"]
      /\ lock' = [lock EXCEPT ![h] = t] /\ working' = [working EXCEPT ![t] = heap[i]]
  BY DEF Acquire, tableVars
<1>3. /\ pc'[t] = "working" /\ working'[t] = heap[i]
      /\ \A u \in Threads \ {t} : pc'[u] = pc[u] /\ working'[u] = working[u]
      /\ pc' \in [Threads -> ThreadStates] /\ working' \in [Threads -> Dataset]
      /\ lock'[h] = t /\ \A g \in Handles \ {h} : lock'[g] = lock[g]
      /\ lock' \in [Handles -> Threads \cup {NoThread}]
  BY <1>1, <1>2 DEF TypeOK, ThreadStates
<1>4. TableGrows /\ Latest' = Latest
  BY <1>1, <1>2, Grows DEF Latest
<1>5. BoundInv'
  <2>1. /\ pc[t] \in NeedArc /\ "working" \in NeedArc
        /\ pc[t] \in NeedVersion /\ "working" \in NeedVersion
    BY <1>2 DEF NeedArc, NeedVersion, ThreadStates
  <2>2. At(NeedArc)' = At(NeedArc) /\ At(NeedVersion)' = At(NeedVersion)
    BY <1>1, <1>2, <2>1, AtStep DEF TypeOK
  <2> QED BY <1>2, <1>4, <2>2, Parts DEF BoundInv
<1>6. TypeOK'
  BY <1>1, <1>2, <1>3 DEF TypeOK, Latest
<1>7. LockInv'
  <2>1. \A u \in Threads : lock[h] # u
    BY <1>2, HandleAssumption
  <2> QED BY <1>1, <1>2, <1>3, <2>1, Parts DEF LockInv, Holding
<1>8. ThreadInv(t)'
  BY <1>1, <1>2, <1>3, <1>4 DEF ThreadInv, Holding, Returned
<1> QED BY <1>2, <1>3, <1>4, <1>5, <1>6, <1>7, <1>8, OutsideIInv

\* The clone is changed half-way.
LEMMA TouchIInv ==
  ASSUME IInv, NEW t \in Threads, Touch(t)
  PROVE  IInv' /\ TableGrows
<1>1. TypeOK /\ working[t] \in Dataset
  BY Parts, Typed
<1>2. /\ UNCHANGED <<log, heap, inner, lock, poisoned, acked, pc, call, panics, pin, restores>>
      /\ pc[t] = "working" /\ working' = [working EXCEPT ![t].torn = TRUE]
  BY DEF Touch, tableVars, handleVars
<1>3. /\ working'[t].ver = working[t].ver /\ working' \in [Threads -> Dataset]
      /\ \A u \in Threads \ {t} : working'[u] = working[u]
  BY <1>1, <1>2 DEF TypeOK, Dataset
<1>4. TableGrows /\ Latest' = Latest
  BY <1>1, <1>2, Grows DEF Latest
<1>5. TypeOK' /\ BoundInv' /\ LockInv'
  <2>1. TypeOK'
    BY <1>1, <1>2, <1>3 DEF TypeOK, Latest
  <2> QED BY <1>2, <2>1, Parts DEF BoundInv, LockInv, At, Latest
<1>6. ThreadInv(t)'
  BY <1>2, <1>3, <1>4, Parts DEF ThreadInv, Holding, Returned
<1> QED BY <1>2, <1>3, <1>4, <1>5, <1>6, OutsideIInv

\* The closure commits, or returns without a commit.
LEMMA ClosureReturnsIInv ==
  ASSUME IInv, NEW t \in Threads,
         Commit(t) \/ \E how \in {"unchanged", "failed"} : ReturnUnchanged(t, how)
  PROVE  IInv' /\ TableGrows
<1> DEFINE i == inner[call[t].handle]
<1>1. /\ TypeOK /\ Latest \in Nat /\ Latest \in Versions /\ Len(heap) \in Nat
      /\ At(NeedArc) \in Nat /\ At(NeedVersion) \in Nat /\ At(NeedVersion)' \in Nat
      /\ working[t] \in Dataset /\ working[t].ver \in Nat
  BY Parts, Typed, AtNat DEF TypeOK
<1>2. /\ UNCHANGED <<heap, inner, lock, poisoned, acked, call, panics, pin, restores>>
      /\ pc[t] = "working"
  BY DEF Commit, ReturnUnchanged, tableVars, handleVars
<1>3. /\ i \in 1..Len(heap) /\ i # 0 /\ heap[i].ver \in Nat /\ heap[i].ver <= Latest
      /\ working[t].ver <= Latest /\ working[t].ver >= heap[i].ver
  <2>1. i # 0 /\ working[t].ver <= Latest /\ working[t].ver >= heap[i].ver
    BY <1>2, Parts DEF ThreadInv, Holding
  <2>2. i \in 1..Len(heap)
    BY <1>1, <2>1, Typed
  <2> QED BY <1>1, <2>1, <2>2, Parts, Typed DEF NoTornSnapshot
<1>4. /\ \E s \in Returned : pc' = [pc EXCEPT ![t] = s]
      /\ \/ log' = log /\ working' = working /\ ~working[t].torn
         \/ /\ log' = Append(log, Latest + 1)
            /\ working' = [working EXCEPT ![t] = [ver |-> Latest + 1, torn |-> FALSE]]
  BY DEF Commit, ReturnUnchanged, tableVars, Returned
<1>5. PICK s \in Returned : pc' = [pc EXCEPT ![t] = s]
  BY <1>4
<1>6. /\ pc'[t] = s /\ pc' \in [Threads -> ThreadStates]
      /\ \A u \in Threads \ {t} : pc'[u] = pc[u] /\ working'[u] = working[u]
  BY <1>1, <1>4, <1>5 DEF TypeOK, ThreadStates, Returned
<1>7. /\ TableGrows /\ log' \in Seq(Nat)
      /\ \/ Latest' = Latest /\ working' = working /\ ~working[t].torn
         \/ /\ Latest' = Latest + 1
            /\ working'[t] = [ver |-> Latest + 1, torn |-> FALSE]
            /\ working' = [working EXCEPT ![t] = [ver |-> Latest + 1, torn |-> FALSE]]
  <2>1. TableGrows /\ log' \in Seq(Nat)
    BY <1>1, <1>2, <1>4, Grows
  <2>2. CASE log' = log /\ working' = working /\ ~working[t].torn
    BY <2>1, <2>2 DEF Latest
  <2>3. CASE /\ log' = Append(log, Latest + 1)
             /\ working' = [working EXCEPT ![t] = [ver |-> Latest + 1, torn |-> FALSE]]
    <3>1. Latest' = Latest + 1
      <4>1. Latest + 1 \in Nat
        BY <1>1
      <4> QED BY <1>1, <2>3, <4>1, NewVersion
    <3>2. working'[t] = [ver |-> Latest + 1, torn |-> FALSE]
      BY <1>1, <2>3 DEF TypeOK
    <3> QED BY <2>1, <2>3, <3>1, <3>2
  <2> QED BY <1>4, <2>1, <2>2, <2>3
<1>8. BoundInv'
  <2>1. /\ pc[t] \in NeedArc /\ s \in NeedArc
        /\ pc[t] \in NeedVersion /\ s \notin NeedVersion
    BY <1>2 DEF NeedArc, NeedVersion, ThreadStates, Returned
  <2>2. At(NeedArc)' = At(NeedArc) /\ At(NeedVersion)' = At(NeedVersion) - 1
    BY <1>1, <1>5, <2>1, AtStep DEF TypeOK
  <2> QED BY <1>1, <1>2, <1>7, <2>2, Parts, HandleAssumption DEF BoundInv
<1>9. TypeOK'
  <2>1. Latest' \in Versions
    BY <1>1, <1>7, <1>8, Sizes
  <2>2. [ver |-> Latest', torn |-> FALSE] \in Dataset
    BY <2>1 DEF Dataset
  <2>3. working' \in [Threads -> Dataset]
    BY <1>1, <1>7, <2>2 DEF TypeOK
  <2> QED BY <1>1, <1>2, <1>6, <1>7, <2>1, <2>3 DEF TypeOK
<1>10. LockInv'
  <2>1. pc[t] \in Holding /\ s \in Holding
    BY <1>2 DEF Holding, Returned
  <2> QED BY <1>2, <1>6, <2>1, Parts DEF LockInv
<1>11. ThreadInv(t)'
  <2>1. ~working'[t].torn /\ working'[t].ver <= Latest' /\ working'[t].ver >= heap[i].ver
    <3>1. CASE Latest' = Latest /\ working' = working /\ ~working[t].torn
      BY <1>1, <1>3, <3>1
    <3>2. CASE Latest' = Latest + 1 /\ working'[t] = [ver |-> Latest + 1, torn |-> FALSE]
      <4>1. working'[t].ver = Latest + 1 /\ ~working'[t].torn
        BY <3>2
      <4> QED BY <1>1, <1>3, <3>2, <4>1
    <3> QED BY <1>7, <3>1, <3>2
  <2> QED BY <1>2, <1>3, <1>6, <2>1 DEF ThreadInv, Returned
<1> QED BY <1>2, <1>6, <1>7, <1>8, <1>9, <1>10, <1>11, OutsideIInv

\* What releasing the lock and ending the call leaves.
LEMMA FinishFacts ==
  ASSUME IInv, NEW t \in Threads, pc[t] \in Holding, Finish(t)
  PROVE  /\ pc'[t] = "idle" /\ call'[t].handle = call[t].handle
         /\ \A u \in Threads \ {t} :
              pc'[u] = pc[u] /\ call'[u] = call[u] /\ working'[u] = working[u]
         /\ pc' \in [Threads -> ThreadStates]
         /\ call' \in [Threads -> [handle : Handles, start : 0..MaxVersion, target : 0..MaxVersion]]
         /\ working' \in [Threads -> Dataset]
         /\ lock' \in [Handles -> Threads \cup {NoThread}]
         /\ ThreadInv(t)'
         /\ LockInv'
         /\ At(NeedArc)' = At(NeedArc) - 1
         /\ At(NeedVersion)' \in Nat /\ At(NeedVersion)' <= At(NeedVersion)
<1> DEFINE h == call[t].handle
<1>1. TypeOK /\ h \in Handles /\ lock[h] = t
  <2>1. TypeOK /\ h \in Handles
    BY Parts, Typed
  <2> QED BY <2>1, Parts DEF LockInv
<1>2. /\ pc' = [pc EXCEPT ![t] = "idle"] /\ lock' = [lock EXCEPT ![h] = NoThread]
      /\ call' = [call EXCEPT ![t] = [handle |-> h, start |-> 0, target |-> 0]]
      /\ working' = [working EXCEPT ![t] = [ver |-> 1, torn |-> FALSE]]
  BY DEF Finish
<1>3. [ver |-> 1, torn |-> FALSE] \in Dataset /\ 0 \in 0..MaxVersion
  BY HandleAssumption DEF Dataset, Versions
<1>4. /\ pc'[t] = "idle" /\ call'[t].handle = h
      /\ \A u \in Threads \ {t} :
           pc'[u] = pc[u] /\ call'[u] = call[u] /\ working'[u] = working[u]
      /\ pc' \in [Threads -> ThreadStates]
      /\ call' \in [Threads -> [handle : Handles, start : 0..MaxVersion, target : 0..MaxVersion]]
      /\ working' \in [Threads -> Dataset]
      /\ lock' \in [Handles -> Threads \cup {NoThread}]
  BY <1>1, <1>2, <1>3 DEF TypeOK, ThreadStates
<1>5. ThreadInv(t)'
  BY <1>4 DEF ThreadInv, Holding, Returned
<1>6. LockInv'
  <2>1. lock'[h] = NoThread /\ \A g \in Handles \ {h} : lock'[g] = lock[g]
    BY <1>1, <1>2 DEF TypeOK
  <2>2. \A u \in Threads : lock'[h] # u
    BY <2>1, HandleAssumption
  <2>3. \A u \in Threads \ {t} : ~(pc[u] \in Holding /\ call[u].handle = h)
    BY <1>1, Parts DEF LockInv
  <2>4. \A g \in Handles \ {h} : lock[g] # t
    BY Parts DEF LockInv
  <2>5. pc'[t] \notin Holding
    BY <1>4 DEF Holding
  <2> QED BY <1>1, <1>4, <2>1, <2>2, <2>3, <2>4, <2>5, Parts DEF LockInv
<1>7. At(NeedArc)' = At(NeedArc) - 1
  <2>1. pc[t] \in NeedArc /\ "idle" \notin NeedArc
    BY DEF Holding, NeedArc, ThreadStates
  <2> QED BY <1>1, <1>2, <2>1, AtStep DEF TypeOK
<1>8. At(NeedVersion)' \in Nat /\ At(NeedVersion)' <= At(NeedVersion)
  <2>1. "idle" \notin NeedVersion
    BY DEF NeedVersion
  <2>2. At(NeedVersion)' = At(NeedVersion) \/ At(NeedVersion)' = At(NeedVersion) - 1
    BY <1>1, <1>2, <2>1, AtStep DEF TypeOK
  <2>3. At(NeedVersion) \in Nat /\ At(NeedVersion)' \in Nat
    BY AtNat
  <2> QED BY <2>2, <2>3
<1> QED BY <1>4, <1>5, <1>6, <1>7, <1>8

\* A panic drops the clone.
LEMMA MutatePanicIInv ==
  ASSUME IInv, NEW t \in Threads, MutatePanic(t)
  PROVE  IInv' /\ TableGrows
<1>1. /\ TypeOK /\ Latest \in Nat /\ Len(heap) \in Nat /\ call[t].handle \in Handles
      /\ At(NeedArc) \in Nat /\ At(NeedVersion) \in Nat /\ At(NeedVersion)' \in Nat
  BY Parts, Typed, AtNat
<1>2. /\ UNCHANGED <<log, heap, inner, acked, pin, restores>>
      /\ pc[t] \in Holding /\ Finish(t)
      /\ panics' \in 0..MaxPanics /\ poisoned' \in SUBSET Handles
  BY <1>1, HandleAssumption DEF MutatePanic, tableVars, Holding, TypeOK
<1>3. TableGrows /\ Latest' = Latest
  BY <1>1, <1>2, Grows DEF Latest
<1>4. BoundInv'
  <2>1. At(NeedArc)' = At(NeedArc) - 1 /\ At(NeedVersion)' <= At(NeedVersion)
    BY <1>2, FinishFacts
  <2> QED BY <1>1, <1>2, <1>3, <2>1, Parts, HandleAssumption DEF BoundInv
<1>5. TypeOK'
  BY <1>1, <1>2, FinishFacts DEF TypeOK, Latest
<1> QED BY <1>2, <1>3, <1>4, <1>5, FinishFacts, OutsideIInv

\* The clone becomes the new Arc of the handle.
LEMMA SwapIInv ==
  ASSUME IInv, NEW t \in Threads, Swap(t)
  PROVE  /\ IInv' /\ TableGrows
         /\ \A h \in Handles : inner[h] # 0 => heap'[inner'[h]].ver >= heap[inner[h]].ver
<1> DEFINE h == call[t].handle
           w == working[t].ver
           d == [ver |-> w, torn |-> FALSE]
<1>1. /\ TypeOK /\ Latest \in Nat /\ Len(heap) \in Nat /\ h \in Handles
      /\ At(NeedArc) \in Nat /\ At(NeedVersion) \in Nat
      /\ working[t] \in Dataset /\ w \in Nat
  BY Parts, Typed, AtNat
<1>2. /\ UNCHANGED <<log, poisoned, panics, pin, restores>>
      /\ pc[t] \in Holding /\ Finish(t) /\ Acknowledge(t)
      /\ heap' = Append(heap, d) /\ inner' = [inner EXCEPT ![h] = Len(heap) + 1]
  BY DEF Swap, PutNew, Holding
<1>3. /\ inner[h] # 0 /\ inner[h] \in 1..Len(heap) /\ heap[inner[h]].ver \in Nat
      /\ acked[h] \in Nat /\ heap[inner[h]].ver >= acked[h]
      /\ w <= Latest /\ w >= heap[inner[h]].ver /\ w \in Versions /\ d \in Dataset
  <2>1. inner[h] # 0 /\ w <= Latest /\ w >= heap[inner[h]].ver
    BY <1>2, Parts DEF ThreadInv, Holding
  <2>2. w \in Versions /\ d \in Dataset
    BY <1>1 DEF Dataset
  <2>3. inner[h] \in 1..Len(heap) /\ acked[h] \in Nat
    BY <1>1, <2>1, Typed
  <2> QED BY <1>1, <2>1, <2>2, <2>3, Parts, Typed DEF HandleInv
<1>4. TableGrows /\ Latest' = Latest /\ heap' \in Seq(Dataset)
  BY <1>1, <1>2, <1>3, Grows DEF Latest
<1>5. Len(heap') = Len(heap) + 1 /\ heap'[Len(heap) + 1] = d
  BY <1>1, <1>2, <1>3, NewArc
<1>6. /\ inner'[h] = Len(heap) + 1 /\ heap'[inner'[h]].ver = w
      /\ \A g \in Handles \ {h} : inner'[g] = inner[g] /\ acked'[g] = acked[g]
      /\ acked'[h] = acked[h] \/ acked'[h] = w
      /\ acked' \in [Handles -> 0..MaxVersion]
  <2>1. acked' = acked \/ acked' = [acked EXCEPT ![h] = w]
    BY <1>2 DEF Acknowledge
  <2>2. w \in 0..MaxVersion
    BY <1>3, HandleAssumption DEF Versions
  <2>3. inner'[h] = Len(heap) + 1 /\ \A g \in Handles \ {h} : inner'[g] = inner[g]
    BY <1>1, <1>2 DEF TypeOK
  <2>4. heap'[inner'[h]].ver = w
    BY <1>5, <2>3
  <2>5. acked \in [Handles -> 0..MaxVersion]
    BY <1>1 DEF TypeOK
  <2> QED BY <1>1, <2>1, <2>2, <2>3, <2>4, <2>5
<1>7. BoundInv'
  <2>1. At(NeedArc)' = At(NeedArc) - 1 /\ At(NeedVersion)' <= At(NeedVersion) /\ At(NeedVersion)' \in Nat
    BY <1>2, FinishFacts
  <2> QED BY <1>1, <1>4, <1>5, <2>1, Parts, HandleAssumption DEF BoundInv
<1>8. TypeOK'
  <2>1. inner' \in [Handles -> 0..Len(heap')] /\ pin' \in [Pins -> 0..Len(heap')]
    BY <1>1, <1>2, <1>4, <1>5, ArcsKept
  <2>2. Len(heap') \in Arcs /\ Latest' \in Versions
    BY <1>1, <1>4, <1>7, Sizes
  <2> QED BY <1>1, <1>2, <1>4, <1>6, <2>1, <2>2, FinishFacts DEF TypeOK
<1>9. ASSUME NEW u \in Threads PROVE ThreadInv(u)'
  <2>1. CASE u = t
    BY <1>2, <2>1, FinishFacts
  <2>2. CASE u # t
    <3>1. lock[h] = t
      BY <1>1, <1>2, Parts DEF LockInv
    <3>2. ~(pc[u] \in Holding /\ call[u].handle = h)
      BY <1>1, <2>2, <3>1, Parts DEF LockInv
    <3>3. pc'[u] = pc[u] /\ call'[u] = call[u] /\ working'[u] = working[u]
      BY <1>2, <2>2, FinishFacts
    <3>4. CASE call[u].handle = h
      BY <1>4, <1>5, <1>6, <3>2, <3>3, <3>4, <1>1, Parts DEF ThreadInv, Holding, Returned
    <3>5. CASE call[u].handle # h
      <4>1. inner'[call[u].handle] = inner[call[u].handle]
        BY <1>1, <1>6, <3>5, Typed
      <4> QED BY <1>1, <1>4, <3>3, <4>1, Parts, ThreadKept
    <3> QED BY <3>4, <3>5
  <2> QED BY <2>1, <2>2
<1>10. ASSUME NEW g \in Handles PROVE HandleInv(g)'
  <2>1. CASE g = h
    BY <1>1, <1>3, <1>6, <2>1 DEF HandleInv
  <2>2. CASE g # h
    BY <1>1, <1>4, <1>6, <2>2, Parts, HandleKept
  <2> QED BY <2>1, <2>2
<1>11. NoTornSnapshot' /\ RestoreInv'
  BY <1>2, <1>3, <1>4, TableKept DEF RestoreInv
<1>12. ASSUME NEW g \in Handles, inner[g] # 0
       PROVE  heap'[inner'[g]].ver >= heap[inner[g]].ver
  <2>1. CASE g = h
    BY <1>3, <1>6, <2>1
  <2>2. CASE g # h
    BY <1>1, <1>4, <1>6, <1>12, <2>2, Typed DEF TableGrows
  <2> QED BY <2>1, <2>2
<1> QED BY <1>2, <1>4, <1>7, <1>8, <1>9, <1>10, <1>11, <1>12, FinishFacts DEF IInv

\* What the end of a restore leaves of its thread.
LEMMA EndRestoreFacts ==
  ASSUME IInv, NEW t \in Threads, pc[t] = "restoring", EndRestore(t), UNCHANGED lock
  PROVE  /\ \A u \in Threads \ {t} : pc'[u] = pc[u] /\ call'[u] = call[u]
         /\ pc' \in [Threads -> ThreadStates]
         /\ call' \in [Threads -> [handle : Handles, start : 0..MaxVersion, target : 0..MaxVersion]]
         /\ ThreadInv(t)' /\ LockInv'
         /\ At(NeedArc)' = At(NeedArc) - 1 /\ At(NeedVersion)' = At(NeedVersion) - 1
<1> DEFINE h == call[t].handle
<1>1. TypeOK /\ h \in Handles
  BY Parts, Typed
<1>2. /\ pc' = [pc EXCEPT ![t] = "idle"]
      /\ call' = [call EXCEPT ![t] = [handle |-> h, start |-> 0, target |-> 0]]
  BY DEF EndRestore
<1>3. /\ pc'[t] = "idle"
      /\ \A u \in Threads \ {t} : pc'[u] = pc[u] /\ call'[u] = call[u]
      /\ pc' \in [Threads -> ThreadStates]
      /\ call' \in [Threads -> [handle : Handles, start : 0..MaxVersion, target : 0..MaxVersion]]
  BY <1>1, <1>2, HandleAssumption DEF TypeOK, ThreadStates
<1>4. ThreadInv(t)'
  BY <1>3 DEF ThreadInv, Holding, Returned
<1>5. LockInv'
  <2>1. pc[t] \notin Holding /\ pc'[t] \notin Holding
    BY <1>3 DEF Holding
  <2> QED BY <1>3, <2>1, Parts DEF LockInv
<1>6. At(NeedArc)' = At(NeedArc) - 1 /\ At(NeedVersion)' = At(NeedVersion) - 1
  <2>1. /\ pc[t] \in NeedArc /\ pc[t] \in NeedVersion
        /\ "idle" \notin NeedArc /\ "idle" \notin NeedVersion
    BY DEF NeedArc, NeedVersion, ThreadStates
  <2> QED BY <1>1, <1>2, <2>1, AtStep DEF TypeOK
<1> QED BY <1>3, <1>4, <1>5, <1>6

\* A restore that fails leaves table and handles as they were.
LEMMA RestoreFailsIInv ==
  ASSUME IInv, NEW t \in Threads, RestoreFails(t)
  PROVE  IInv' /\ TableGrows
<1>1. /\ TypeOK /\ Latest \in Nat /\ Len(heap) \in Nat
      /\ At(NeedArc) \in Nat /\ At(NeedVersion) \in Nat
  BY Parts, Typed, AtNat
<1>2. /\ UNCHANGED <<log, heap, inner, lock, poisoned, acked, working, panics, pin, restores>>
      /\ pc[t] = "restoring" /\ EndRestore(t)
  BY DEF RestoreFails, tableVars, handleVars
<1>3. TableGrows /\ Latest' = Latest
  BY <1>1, <1>2, Grows DEF Latest
<1>4. BoundInv'
  <2>1. At(NeedArc)' = At(NeedArc) - 1 /\ At(NeedVersion)' = At(NeedVersion) - 1
    BY <1>2, EndRestoreFacts
  <2> QED BY <1>1, <1>2, <1>3, <2>1, Parts, HandleAssumption DEF BoundInv
<1>5. TypeOK'
  BY <1>1, <1>2, EndRestoreFacts DEF TypeOK, Latest
<1> QED BY <1>2, <1>3, <1>4, <1>5, EndRestoreFacts, OutsideIInv

\* restore commits the data of its target and opens a handle on it.
LEMMA RestoreOkIInv ==
  ASSUME IInv, NEW t \in Threads, NEW g \in Handles, RestoreOk(t, g)
  PROVE  IInv' /\ TableGrows
<1> DEFINE c == call[t]
           v == Latest + 1
           new == [start |-> c.start, target |-> c.target, got |-> v]
<1>1. /\ TypeOK /\ Latest \in Nat /\ Len(heap) \in Nat
      /\ At(NeedArc) \in Nat /\ At(NeedVersion) \in Nat /\ At(NeedVersion)' \in Nat
  BY Parts, Typed, AtNat
<1>2. /\ UNCHANGED <<lock, working, panics, pin>>
      /\ pc[t] = "restoring" /\ EndRestore(t) /\ inner[g] = 0
      /\ log' = Append(log, log[c.target]) /\ PutNew(g, v)
      /\ restores' = restores \cup {new} /\ poisoned' = poisoned \ {g}
      /\ acked' = [acked EXCEPT ![g] = 0]
  BY DEF RestoreOk, Open
<1>3. /\ c.start \in 1..Latest /\ c.target \in 1..Latest /\ log[c.target] \in Nat
  <2>1. c.start \in 1..Latest /\ c.target \in 1..Latest
    BY <1>2, Parts DEF ThreadInv
  <2>2. log \in Seq(Nat) /\ Latest = Len(log)
    BY <1>1 DEF TypeOK, Latest
  <2>3. log[c.target] \in Nat
    BY <2>1, <2>2
  <2> QED BY <2>1, <2>3
<1>4. /\ log' \in Seq(Nat) /\ Latest' = v /\ log'[v] = log[c.target]
      /\ \A i \in 1..Latest : log'[i] = log[i]
  BY <1>1, <1>2, <1>3, NewVersion
<1>5. At(NeedArc)' = At(NeedArc) - 1 /\ At(NeedVersion)' = At(NeedVersion) - 1
  BY <1>2, EndRestoreFacts
<1>6. v \in Versions /\ v <= Latest' /\ v \in Nat
  <2>1. Latest + At(NeedVersion) <= MaxVersion
    BY Parts DEF BoundInv
  <2>2. At(NeedVersion) >= 1
    BY <1>1, <1>5
  <2>3. v <= MaxVersion /\ v \in Nat \ {0}
    BY <1>1, <2>1, <2>2, HandleAssumption
  <2>4. Latest' = v
    BY <1>4
  <2> QED BY <2>3, <2>4, HandleAssumption DEF Versions
<1>7. /\ TableGrows /\ heap' \in Seq(Dataset) /\ Len(heap') = Len(heap) + 1
      /\ inner' \in [Handles -> 0..Len(heap')] /\ acked' \in [Handles -> 0..MaxVersion]
      /\ \A u \in Threads : pc[u] # "idle" =>
           call[u].handle # g /\ inner'[call[u].handle] = inner[call[u].handle]
      /\ \A k \in Handles : HandleInv(k)'
      /\ NoTornSnapshot'
  <2>1. 0 \in 0..MaxVersion /\ 0 <= v
    BY <1>6, HandleAssumption
  <2>2. \E n \in Nat : log' = Append(log, n)
    BY <1>2, <1>3
  <2> QED BY <1>2, <1>6, <2>1, <2>2, FreshHandle
<1>8. BoundInv'
  <2>1. Len(heap) + At(NeedArc) <= MaxSnapshots /\ Latest + At(NeedVersion) <= MaxVersion
    BY Parts DEF BoundInv
  <2>2. Len(heap') + At(NeedArc)' <= MaxSnapshots
    BY <1>1, <1>5, <1>7, <2>1, HandleAssumption
  <2>3. Latest' + At(NeedVersion)' <= MaxVersion
    BY <1>1, <1>4, <1>5, <2>1, HandleAssumption
  <2> QED BY <2>2, <2>3 DEF BoundInv
<1>9. TypeOK'
  <2>1. pin' \in [Pins -> 0..Len(heap')]
    BY <1>1, <1>2, <1>7, ArcsKept
  <2>2. new \in Restore
    BY <1>1, <1>3, <1>6, HandleAssumption DEF Restore, TypeOK, Versions
  <2>3. Len(heap') \in Arcs /\ Latest' \in Versions
    BY <1>1, <1>7, <1>8, Sizes
  <2> QED BY <1>1, <1>2, <1>4, <1>7, <2>1, <2>2, <2>3, EndRestoreFacts DEF TypeOK
<1>10. ASSUME NEW u \in Threads PROVE ThreadInv(u)'
  <2>1. CASE u = t
    BY <1>2, <2>1, EndRestoreFacts
  <2>2. CASE u # t
    <3>1. pc'[u] = pc[u] /\ call'[u] = call[u] /\ working'[u] = working[u]
      BY <1>2, <2>2, EndRestoreFacts
    <3> QED BY <1>1, <1>7, <3>1, Parts, ThreadKept
  <2> QED BY <2>1, <2>2
<1>11. ASSUME NEW r \in restores'
       PROVE  /\ r.got \in 1..Latest' /\ r.target \in 1..Latest'
              /\ r.got > r.start /\ log'[r.got] = log'[r.target]
  <2>1. CASE r \in restores
    <3>1. /\ r.got \in 1..Latest /\ r.target \in 1..Latest
          /\ r.got > r.start /\ log[r.got] = log[r.target]
      BY <2>1, Parts DEF RestoreInv
    <3>2. r.got \in 1..Latest' /\ r.target \in 1..Latest'
      BY <1>1, <1>4, <3>1
    <3>3. log'[r.got] = log[r.got] /\ log'[r.target] = log[r.target]
      BY <1>4, <3>1
    <3> QED BY <3>1, <3>2, <3>3
  <2>2. CASE r = new
    <3>1. r.got = v /\ r.target = c.target /\ r.start = c.start
      BY <2>2
    <3>2. v \in 1..Latest' /\ c.target \in 1..Latest'
      BY <1>1, <1>3, <1>4, <1>6
    <3>4. v > c.start
      BY <1>1, <1>3
    <3>3. log'[v] = log'[c.target]
      BY <1>3, <1>4
    <3> QED BY <3>1, <3>2, <3>3, <3>4
  <2> QED BY <1>2, <2>1, <2>2
<1>12. LockInv'
  BY <1>2, EndRestoreFacts
<1> QED BY <1>7, <1>8, <1>9, <1>10, <1>11, <1>12 DEF IInv, RestoreInv

-----------------------------------------------------------------------------
(* Every step.                                                             *)

\* A handle that stays open keeps its Arc in every step but Swap.
LEMMA HandleSteps ==
  ASSUME IInv, Next, NEW h \in Handles
  PROVE  \/ \E t \in Threads : Swap(t)
         \/ inner'[h] = inner[h] \/ inner[h] = 0 \/ inner'[h] = 0
<1>1. inner \in [Handles -> 0..Len(heap)]
  BY Parts DEF TypeOK
<1>2. ASSUME NEW g \in Handles, NEW v, inner[g] = 0, PutNew(g, v)
      PROVE  inner'[h] = inner[h] \/ inner[h] = 0
  BY <1>1, <1>2 DEF PutNew
<1>3. ASSUME NEW g \in Handles, WriteDataset(g) \/ \E v \in 0..MaxVersion : OpenDataset(g, v)
      PROVE  inner'[h] = inner[h] \/ inner[h] = 0
  BY <1>2, <1>3 DEF WriteDataset, OpenDataset, Open
<1>4. ASSUME NEW g \in Handles, CloseDataset(g) PROVE inner'[h] = inner[h] \/ inner'[h] = 0
  BY <1>1, <1>4 DEF CloseDataset
<1>5. ASSUME NEW t \in Threads, NEW g \in Handles, RestoreOk(t, g)
      PROVE  inner'[h] = inner[h] \/ inner[h] = 0
  BY <1>2, <1>5 DEF RestoreOk, Open
<1>6. ASSUME NEW t \in Threads, NEW g \in Handles,
             Mutate(t, g) \/ \E v \in Versions : RestoreBegin(t, g, v)
      PROVE  inner' = inner
  BY <1>6 DEF Mutate, RestoreBegin, handleVars
<1>7. ASSUME NEW t \in Threads, MutationStep(t) \/ Touch(t) \/ RestoreFails(t), ~Swap(t)
      PROVE  inner' = inner
  BY <1>7 DEF MutationStep, Acquire, Commit, MutatePanic, ReturnUnchanged, Touch, RestoreFails,
              handleVars
<1>8. ASSUME ForeignCommit \/ \E p \in Pins : Unpin(p) \/ \E g \in Handles : Pin(p, g)
      PROVE  inner' = inner
  BY <1>8 DEF ForeignCommit, Pin, Unpin, handleVars
<1> QED BY <1>3, <1>4, <1>5, <1>6, <1>7, <1>8 DEF Next

\* Every step preserves the invariant and adds to the table only.
LEMMA NextIInv ==
  ASSUME IInv, [Next]_vars
  PROVE  IInv' /\ TableGrows
<1>1. ASSUME NEW h \in Handles, WriteDataset(h) \/ \E v \in 0..MaxVersion : OpenDataset(h, v)
      PROVE  IInv' /\ TableGrows
  BY <1>1, OpenIInv DEF WriteDataset, OpenDataset
<1>2. ASSUME NEW h \in Handles, CloseDataset(h) PROVE IInv' /\ TableGrows
  BY <1>2, CloseDatasetIInv
<1>3. ASSUME NEW t \in Threads, NEW h \in Handles,
             Mutate(t, h) \/ \E v \in Versions : RestoreBegin(t, h, v)
      PROVE  IInv' /\ TableGrows
  BY <1>3, BeginIInv
<1>4. ASSUME NEW t \in Threads, NEW h \in Handles, RestoreOk(t, h) PROVE IInv' /\ TableGrows
  BY <1>4, RestoreOkIInv
<1>5. ASSUME NEW t \in Threads, MutationStep(t) \/ Touch(t) \/ RestoreFails(t)
      PROVE  IInv' /\ TableGrows
  BY <1>5, AcquireIInv, ClosureReturnsIInv, SwapIInv, MutatePanicIInv, TouchIInv,
     RestoreFailsIInv DEF MutationStep
<1>6. CASE ForeignCommit
  BY <1>6, ForeignCommitIInv
<1>7. ASSUME NEW p \in Pins, Unpin(p) \/ \E h \in Handles : Pin(p, h)
      PROVE  IInv' /\ TableGrows
  BY <1>7, PinIInv
<1>8. CASE UNCHANGED vars
  <2>1. UNCHANGED <<log, heap, inner, lock, poisoned, acked, pc, call, working, panics, pin, restores>>
    BY <1>8 DEF vars, tableVars, handleVars, threadVars
  <2>2. TableGrows
    BY <2>1, Parts, Grows
  <2>3. TypeOK' /\ BoundInv' /\ LockInv'
    BY <2>1, Parts DEF TypeOK, BoundInv, LockInv, At, Latest
  <2> QED BY <2>1, <2>2, <2>3, OutsideIInv
<1> QED BY <1>1, <1>2, <1>3, <1>4, <1>5, <1>6, <1>7, <1>8 DEF Next

\* One handle is open on the one version of the table.
LEMMA InitIInv == Init => IInv
<1> SUFFICES ASSUME Init PROVE IInv
  OBVIOUS
<1>1. 1 \in Versions /\ 1 \in Arcs /\ [ver |-> 1, torn |-> FALSE] \in Dataset
  BY HandleAssumption DEF Versions, Arcs, Dataset
<1>2. Len(heap) = 1 /\ Latest = 1 /\ heap[1] = [ver |-> 1, torn |-> FALSE]
  BY DEF Init, Latest
<1>3. PICK h \in Handles : /\ inner = [g \in Handles |-> IF g = h THEN 1 ELSE 0]
                           /\ call = [t \in Threads |-> [handle |-> h, start |-> 0, target |-> 0]]
  BY DEF Init
<1>4. TypeOK
  <2>1. log \in Seq(Nat) /\ heap \in Seq(Dataset)
    BY <1>1 DEF Init
  <2>2. inner \in [Handles -> 0..Len(heap)] /\ pin \in [Pins -> 0..Len(heap)]
    BY <1>2, <1>3 DEF Init
  <2>3. call \in [Threads -> [handle : Handles, start : 0..MaxVersion, target : 0..MaxVersion]]
    BY <1>3, HandleAssumption
  <2>4. working \in [Threads -> Dataset] /\ panics \in 0..MaxPanics
        /\ acked \in [Handles -> 0..MaxVersion] /\ pc \in [Threads -> ThreadStates]
    BY <1>1, HandleAssumption DEF Init, ThreadStates
  <2> QED BY <1>1, <1>2, <2>1, <2>2, <2>3, <2>4 DEF Init, TypeOK
<1>5. BoundInv
  <2>1. {t \in Threads : pc[t] \in NeedArc} = {} /\ {t \in Threads : pc[t] \in NeedVersion} = {}
    BY DEF Init, NeedArc, NeedVersion
  <2>2. At(NeedArc) = 0 /\ At(NeedVersion) = 0
    BY <2>1, FS_EmptySet DEF At
  <2> QED BY <1>2, <2>2, HandleAssumption DEF BoundInv
<1>6. LockInv /\ RestoreInv
  BY HandleAssumption DEF Init, LockInv, RestoreInv, Holding
<1>7. NoTornSnapshot
  BY <1>2 DEF NoTornSnapshot
<1>8. \A t \in Threads : ThreadInv(t)
  BY DEF Init, ThreadInv, Holding, Returned
<1>9. ASSUME NEW g \in Handles PROVE HandleInv(g)
  <2>1. acked[g] = 0 /\ (inner[g] # 0 => inner[g] = 1)
    BY <1>3 DEF Init
  <2>2. heap[1].ver = 1
    BY <1>2
  <2> QED BY <2>1, <2>2 DEF HandleInv
<1> QED BY <1>4, <1>5, <1>6, <1>7, <1>8, <1>9 DEF IInv

\* The inductive invariant holds throughout.
LEMMA Inductive == Spec => []IInv
<1>1. IInv /\ [Next]_vars => IInv'
  BY NextIInv
<1> QED BY <1>1, InitIInv, PTL DEF Spec

-----------------------------------------------------------------------------
(* Theorems.                                                               *)

\* Types and bounds: no mutation or restore in progress is cut off by the
\* bounds on versions and snapshots.
THEOREM TypeCorrect == Spec => []TypeOK
<1>1. IInv => TypeOK
  BY DEF IInv
<1> QED BY <1>1, Inductive, PTL

\* No holder of an Arc sees a torn or uncommitted Dataset, for any number of
\* threads in with_mut and any number of panics.
THEOREM SnapshotsAreWhole == Spec => []NoTornSnapshot
<1>1. IInv => NoTornSnapshot
  BY DEF IInv
<1> QED BY <1>1, Inductive, PTL

\* What a mutation has reported is visible through its handle from then on.
THEOREM WritesAreVisible == Spec => []ReadYourWrites
<1>1. IInv => ReadYourWrites
  BY DEF IInv, HandleInv, ReadYourWrites, Open
<1> QED BY <1>1, Inductive, PTL

\* A restore that has returned made a version newer than the one it was called
\* on; it holds the data of its target, and nothing ever changes that.
THEOREM RestoresTakeEffect == Spec => []RestoreTakesEffect
<1>1. IInv => RestoreTakesEffect
  BY DEF IInv, RestoreInv, RestoreTakesEffect
<1> QED BY <1>1, Inductive, PTL

\* Handles only move forward: the clone a mutation stores is as new as the Arc
\* it replaces, since the write lock was held in between.
THEOREM HandlesMoveForward == Spec => HandleNeverGoesBack
<1>1. IInv /\ [Next]_vars =>
        [\A h \in Handles : Open(h) /\ inner'[h] # 0
           => heap'[inner'[h]].ver >= heap[inner[h]].ver]_vars
  <2> SUFFICES ASSUME IInv, Next, NEW h \in Handles, inner[h] # 0, inner'[h] # 0
               PROVE  heap'[inner'[h]].ver >= heap[inner[h]].ver
    BY DEF Open
  <2>1. CASE \E t \in Threads : Swap(t)
    BY <2>1, SwapIInv
  <2>2. CASE inner'[h] = inner[h]
    BY <2>2, NextIInv, Parts, Typed DEF TableGrows
  <2> QED BY <2>1, <2>2, HandleSteps
<1> QED BY <1>1, Inductive, PTL DEF Spec, HandleNeverGoesBack

\* A pinned Dataset is never changed in place.
THEOREM PinnedSnapshotsStay == Spec => PinsAreStable
<1>1. IInv /\ [Next]_vars =>
        [\A i \in 1..Len(heap) : (\E p \in Pins : pin[p] = i) => heap'[i] = heap[i]]_vars
  BY NextIInv DEF TableGrows
<1> QED BY <1>1, Inductive, PTL DEF Spec, PinsAreStable
=============================================================================
