---------------------------- MODULE DatasetHandle ----------------------------
(***************************************************************************)
(* LanceDataset handles (src/src/dataset.rs) over one table: snapshots,    *)
(* in-place mutations through with_mut, restore, write, and the scanners   *)
(* and prepared full-text contexts that pin a snapshot.                    *)
(*                                                                         *)
(* A handle is RwLock<Arc<Dataset>>.  `heap` holds the Dataset values that *)
(* Arcs point to; handles, scanners and contexts share one by holding its  *)
(* index, so a value mutated in place would be seen through every holder.  *)
(* The table itself is the log of manifests that Lance commits atomically  *)
(* (external), shared with writers of other processes.  Readers hold the   *)
(* lock only to clone the Arc, so a snapshot is one step.                  *)
(***************************************************************************)
EXTENDS Naturals, Sequences, FiniteSets

CONSTANTS Handles,      \* handle slots of this process
          Threads,      \* host threads that mutate or restore
          Pins,         \* scanners and prepared FTS contexts of this process
          MaxVersion,   \* bound on the manifests of the table
          MaxSnapshots, \* bound on the Dataset values ever allocated
          MaxPanics,    \* bound on mutations that panic
          NoThread      \* the lock is free

ASSUME HandleAssumption ==
  /\ IsFiniteSet(Threads) /\ NoThread \notin Threads
  /\ MaxVersion \in Nat \ {0}
  /\ MaxSnapshots \in Nat \ {0}
  /\ MaxPanics \in Nat

VARIABLES
  log,       \* the data of each committed version, as a number naming it
  heap,      \* allocated Dataset values, in order of allocation
  inner,     \* the Arc in each handle; 0 for a closed handle
  lock,      \* writer of each handle's RwLock
  poisoned,  \* handles whose RwLock a panic has poisoned
  pc,        \* where each thread is, see ThreadStates
  call,      \* the call each thread is in
  working,   \* the clone with_mut lets the mutation work on
  panics,    \* mutations that have panicked
  pin,       \* the Arc each scanner or context holds; 0 if not created
  acked,     \* history: last version a mutation on the handle reported
  restores   \* history: what each restore that returned found and committed

tableVars == <<log, heap>>
handleVars == <<inner, lock, poisoned, acked>>
threadVars == <<pc, call, working, panics>>
vars == <<tableVars, handleVars, threadVars, pin, restores>>

\* "waiting" for the write lock, "working" in the mutation; it has returned Ok
\* in "committed" and "unchanged" and Err in "failed"; "restoring" is between
\* restore's snapshot and its commit.
ThreadStates == {"idle", "waiting", "working", "committed", "unchanged",
                 "failed", "restoring"}

Versions == 1..MaxVersion
Arcs == 1..MaxSnapshots
Dataset == [ver : Versions, torn : BOOLEAN]
Restore == [start : Versions, target : Versions, got : Versions]

Latest == Len(log)

TypeOK ==
  /\ log \in Seq(Nat) /\ Latest \in Versions
  /\ heap \in Seq(Dataset) /\ Len(heap) \in Arcs
  /\ inner \in [Handles -> 0..Len(heap)]
  /\ lock \in [Handles -> Threads \cup {NoThread}]
  /\ poisoned \in SUBSET Handles
  /\ pc \in [Threads -> ThreadStates]
  /\ call \in [Threads -> [handle : Handles, start : 0..MaxVersion, target : 0..MaxVersion]]
  /\ working \in [Threads -> Dataset]
  /\ panics \in 0..MaxPanics
  /\ pin \in [Pins -> 0..Len(heap)]
  /\ acked \in [Handles -> 0..MaxVersion]
  /\ restores \in SUBSET Restore

\* One handle is open on a table with one version.
Init ==
  /\ log = <<1>>
  /\ heap = <<[ver |-> 1, torn |-> FALSE]>>
  /\ \E h \in Handles :
        /\ inner = [g \in Handles |-> IF g = h THEN 1 ELSE 0]
        /\ call = [t \in Threads |-> [handle |-> h, start |-> 0, target |-> 0]]
  /\ lock = [h \in Handles |-> NoThread]
  /\ poisoned = {}
  /\ pc = [t \in Threads |-> "idle"]
  /\ working = [t \in Threads |-> [ver |-> 1, torn |-> FALSE]]
  /\ panics = 0
  /\ pin = [p \in Pins |-> 0]
  /\ acked = [h \in Handles |-> 0]
  /\ restores = {}

-----------------------------------------------------------------------------
(* Helpers.                                                                *)

Open(h) == inner[h] # 0

\* A Dataset on version v at a fresh address, put into handle slot h.
PutNew(h, v) ==
  /\ heap' = Append(heap, [ver |-> v, torn |-> FALSE])
  /\ inner' = [inner EXCEPT ![h] = Len(heap) + 1]

\* The Arc that snapshot() clones: it waits for a writer, not for poison.
CanSnapshot(h) == Open(h) /\ lock[h] = NoThread

\* Bound: a step that needs an Arc or a version leaves room for the calls that
\* are in progress, so that none of them is cut off by the bounds.
InProgress == Cardinality({t \in Threads : pc[t] # "idle"})
Room == /\ Len(heap) + InProgress < MaxSnapshots
        /\ Latest + InProgress < MaxVersion

-----------------------------------------------------------------------------
(* Opening and closing handles; other writers.                             *)

\* lance_dataset_open (version 0 opens the latest) into a free slot.
OpenDataset(h, v) ==
  /\ ~Open(h)
  /\ Room
  /\ v \in 0..Latest
  /\ PutNew(h, IF v = 0 THEN Latest ELSE v)
  /\ lock' = [lock EXCEPT ![h] = NoThread]
  /\ poisoned' = poisoned \ {h}
  /\ acked' = [acked EXCEPT ![h] = 0]
  /\ UNCHANGED <<log, threadVars, pin, restores>>

\* lance_dataset_write commits without a handle and opens one on the result.
WriteDataset(h) ==
  /\ ~Open(h)
  /\ Room
  /\ log' = Append(log, Latest + 1)
  /\ PutNew(h, Latest + 1)
  /\ acked' = [acked EXCEPT ![h] = Latest + 1]
  /\ poisoned' = poisoned \ {h}
  /\ UNCHANGED <<lock, threadVars, pin, restores>>

\* lance_dataset_close: no call may be using the handle; pins stay.
CloseDataset(h) ==
  /\ Open(h)
  /\ \A t \in Threads : pc[t] # "idle" => call[t].handle # h
  /\ inner' = [inner EXCEPT ![h] = 0]
  /\ UNCHANGED <<tableVars, lock, poisoned, acked, threadVars, pin, restores>>

\* A writer of another process commits (external).
ForeignCommit ==
  /\ Room
  /\ log' = Append(log, Latest + 1)
  /\ UNCHANGED <<heap, handleVars, threadVars, pin, restores>>

-----------------------------------------------------------------------------
(* with_mut.                                                               *)

\* An entry point has validated its arguments and calls with_mut.
Mutate(t, h) ==
  /\ pc[t] = "idle"
  /\ Open(h)
  /\ Room
  /\ pc' = [pc EXCEPT ![t] = "waiting"]
  /\ call' = [call EXCEPT ![t] = [handle |-> h, start |-> 0, target |-> 0]]
  /\ UNCHANGED <<tableVars, handleVars, working, panics, pin, restores>>

\* Wrong variant: mutations run on their clones without the write lock.
AcquireUnlocked(t) ==
  LET h == call[t].handle IN
  /\ pc[t] = "waiting"
  /\ working' = [working EXCEPT ![t] = heap[inner[h]]]
  /\ pc' = [pc EXCEPT ![t] = "working"]
  /\ UNCHANGED <<tableVars, handleVars, call, panics, pin, restores>>

\* Wrong variant: a poisoned lock is not entered any more.
AcquireRefusesPoison(t) ==
  LET h == call[t].handle IN
  /\ pc[t] = "waiting"
  /\ lock[h] = NoThread
  /\ h \notin poisoned
  /\ lock' = [lock EXCEPT ![h] = t]
  /\ working' = [working EXCEPT ![t] = heap[inner[h]]]
  /\ pc' = [pc EXCEPT ![t] = "working"]
  /\ UNCHANGED <<tableVars, inner, poisoned, acked, call, panics, pin, restores>>

\* The write lock is taken, poisoned or not, and the Dataset cloned under it.
Acquire(t) ==
  LET h == call[t].handle IN
  /\ pc[t] = "waiting"
  /\ lock[h] = NoThread
  /\ lock' = [lock EXCEPT ![h] = t]
  /\ working' = [working EXCEPT ![t] = heap[inner[h]]]
  /\ pc' = [pc EXCEPT ![t] = "working"]
  /\ UNCHANGED <<tableVars, inner, poisoned, acked, call, panics, pin, restores>>

\* Wrong variant: Arc::make_mut on the uniquely owned Arc of the handle.
TouchInPlace(t) ==
  /\ pc[t] = "working"
  /\ ~working[t].torn
  /\ working' = [working EXCEPT ![t].torn = TRUE]
  /\ heap' = [heap EXCEPT ![inner[call[t].handle]].torn = TRUE]
  /\ UNCHANGED <<log, handleVars, pc, call, panics, pin, restores>>

\* The mutation has changed some fields of the clone and not others.
Touch(t) ==
  /\ pc[t] = "working"
  /\ ~working[t].torn
  /\ working' = [working EXCEPT ![t].torn = TRUE]
  /\ UNCHANGED <<tableVars, handleVars, pc, call, panics, pin, restores>>

\* Lance commits on top of the latest version and leaves the clone on the
\* new one (external).
Commit(t) ==
  /\ pc[t] = "working"
  /\ log' = Append(log, Latest + 1)
  /\ working' = [working EXCEPT ![t] = [ver |-> Latest + 1, torn |-> FALSE]]
  /\ pc' = [pc EXCEPT ![t] = "committed"]
  /\ UNCHANGED <<heap, handleVars, call, panics, pin, restores>>

\* The closure returns without a commit: Err (a conflict, a core check), or Ok
\* with nothing to do (compaction of a compact table).  Lance changes the
\* Dataset it works on only after a commit (external).
ReturnUnchanged(t, how) ==
  /\ pc[t] = "working"
  /\ ~working[t].torn
  /\ pc' = [pc EXCEPT ![t] = how]
  /\ UNCHANGED <<tableVars, handleVars, call, working, panics, pin, restores>>

\* Release the lock and end the call.
Finish(t) ==
  /\ lock' = [lock EXCEPT ![call[t].handle] = NoThread]
  /\ pc' = [pc EXCEPT ![t] = "idle"]
  /\ call' = [call EXCEPT ![t] = [handle |-> @.handle, start |-> 0, target |-> 0]]
  /\ working' = [working EXCEPT ![t] = [ver |-> 1, torn |-> FALSE]]

\* The highest version a mutation on the handle has reported.
Acknowledge(t) ==
  acked' = IF pc[t] = "committed"
           THEN [acked EXCEPT ![call[t].handle] = working[t].ver] ELSE acked

\* Wrong variant: the clone is not stored back.
SwapForgotten(t) ==
  /\ pc[t] \in {"committed", "unchanged", "failed"}
  /\ Acknowledge(t)
  /\ Finish(t)
  /\ UNCHANGED <<tableVars, inner, poisoned, panics, pin, restores>>

\* Wrong variant: the clone is stored through the existing Arc.
SwapThroughArc(t) ==
  /\ pc[t] \in {"committed", "unchanged", "failed"}
  /\ heap' = [heap EXCEPT ![inner[call[t].handle]] = working[t]]
  /\ Acknowledge(t)
  /\ Finish(t)
  /\ UNCHANGED <<log, inner, poisoned, panics, pin, restores>>

\* The closure has returned, with Ok or Err: with_mut does not look at the
\* result and stores the clone in a new Arc.
Swap(t) ==
  /\ pc[t] \in {"committed", "unchanged", "failed"}
  /\ PutNew(call[t].handle, working[t].ver)
  /\ Acknowledge(t)
  /\ Finish(t)
  /\ UNCHANGED <<log, poisoned, panics, pin, restores>>

\* The closure panics at any point, after the commit too, the clone torn or
\* not: nothing is stored, and the unwind poisons the lock it releases.
MutatePanic(t) ==
  /\ pc[t] \in {"working", "committed"}
  /\ panics < MaxPanics
  /\ panics' = panics + 1
  /\ poisoned' = poisoned \cup {call[t].handle}
  /\ Finish(t)
  /\ UNCHANGED <<tableVars, inner, acked, pin, restores>>

-----------------------------------------------------------------------------
(* restore.                                                                *)

\* restore_inner takes a snapshot; version 0 and unknown versions are refused.
RestoreBegin(t, h, v) ==
  /\ pc[t] = "idle"
  /\ CanSnapshot(h)
  /\ v \in 1..Latest
  /\ Room
  /\ pc' = [pc EXCEPT ![t] = "restoring"]
  /\ call' = [call EXCEPT ![t] = [handle |-> h, start |-> Latest, target |-> v]]
  /\ UNCHANGED <<tableVars, handleVars, working, panics, pin, restores>>

EndRestore(t) ==
  /\ pc' = [pc EXCEPT ![t] = "idle"]
  /\ call' = [call EXCEPT ![t] = [handle |-> @.handle, start |-> 0, target |-> 0]]

\* Wrong variant: a target that was the latest version is not committed again.
RestoreSkipsLatest(t, g) ==
  LET c == call[t]
      got == IF c.target = c.start THEN c.start ELSE Latest + 1
  IN
  /\ pc[t] = "restoring"
  /\ ~Open(g)
  /\ log' = IF c.target = c.start THEN log ELSE Append(log, log[c.target])
  /\ PutNew(g, got)
  /\ restores' = restores \cup {[start |-> c.start, target |-> c.target, got |-> got]}
  /\ acked' = [acked EXCEPT ![g] = 0]
  /\ EndRestore(t)
  /\ UNCHANGED <<lock, poisoned, working, panics, pin>>

\* checkout_version, restore() commits the target's data as a new version,
\* and a fresh handle is returned on it.
RestoreOk(t, g) ==
  LET c == call[t] IN
  /\ pc[t] = "restoring"
  /\ ~Open(g)
  /\ log' = Append(log, log[c.target])
  /\ PutNew(g, Latest + 1)
  /\ restores' = restores \cup
                   {[start |-> c.start, target |-> c.target, got |-> Latest + 1]}
  /\ poisoned' = poisoned \ {g}
  /\ acked' = [acked EXCEPT ![g] = 0]
  /\ EndRestore(t)
  /\ UNCHANGED <<lock, working, panics, pin>>

\* A commit conflict or a panic: no handle, the caller's handle untouched.
RestoreFails(t) ==
  /\ pc[t] = "restoring"
  /\ EndRestore(t)
  /\ UNCHANGED <<tableVars, handleVars, working, panics, pin, restores>>

-----------------------------------------------------------------------------
(* Pins.                                                                   *)

\* lance_scanner_new, lance_dataset_prepare_fts_*_query: a snapshot is kept.
Pin(p, h) ==
  /\ pin[p] = 0
  /\ CanSnapshot(h)
  /\ pin' = [pin EXCEPT ![p] = inner[h]]
  /\ UNCHANGED <<tableVars, handleVars, threadVars, restores>>

\* lance_scanner_close, lance_fts_query_context_close.
Unpin(p) ==
  /\ pin[p] # 0
  /\ pin' = [pin EXCEPT ![p] = 0]
  /\ UNCHANGED <<tableVars, handleVars, threadVars, restores>>

-----------------------------------------------------------------------------

MutationStep(t) ==
  \/ Acquire(t) \/ Commit(t) \/ Swap(t) \/ MutatePanic(t)
  \/ \E how \in {"unchanged", "failed"} : ReturnUnchanged(t, how)

Next ==
  \/ \E h \in Handles : \/ \E v \in 0..MaxVersion : OpenDataset(h, v)
                        \/ WriteDataset(h) \/ CloseDataset(h)
  \/ ForeignCommit
  \/ \E t \in Threads, h \in Handles :
        \/ Mutate(t, h) \/ RestoreOk(t, h)
        \/ \E v \in Versions : RestoreBegin(t, h, v)
  \/ \E t \in Threads : MutationStep(t) \/ Touch(t) \/ RestoreFails(t)
  \/ \E p \in Pins : Unpin(p) \/ \E h \in Handles : Pin(p, h)

Spec == Init /\ [][Next]_vars

\* A thread in with_mut that can go on does (block_on drives it to an end).
FairSpec == Spec /\ \A t \in Threads : WF_vars(MutationStep(t))

-----------------------------------------------------------------------------
(* Properties.                                                             *)

\* No holder of an Arc, through a handle, a scanner or a context, ever sees a
\* half-mutated Dataset or a version that was not committed: with_mut works
\* on a clone and a panic drops it.
NoTornSnapshot ==
  \A i \in 1..Len(heap) : ~heap[i].torn /\ heap[i].ver <= Latest

\* A mutation that returned success on a handle is visible through it: later
\* snapshots are at its version or newer.
ReadYourWrites ==
  \A h \in Handles : Open(h) => heap[inner[h]].ver >= acked[h]

\* A handle never moves to an older version, whatever fails or panics.
HandleNeverGoesBack ==
  [][\A h \in Handles : Open(h) /\ inner'[h] # 0
        => heap'[inner'[h]].ver >= heap[inner[h]].ver]_vars

\* What a scanner or a context pinned does not change under it.
PinsAreStable ==
  [][\A i \in 1..Len(heap) :
       (\E p \in Pins : pin[p] = i) => heap'[i] = heap[i]]_vars

\* restore makes the target's data a version newer than every version that
\* existed when it was called, even when the target was the latest.
RestoreTakesEffect ==
  \A r \in restores : r.got > r.start /\ log[r.got] = log[r.target]

\* Every mutation returns; a lock poisoned by an earlier panic does not
\* keep later mutations out.
MutationsReturn ==
  \A t \in Threads : (pc[t] = "waiting") ~> (pc[t] = "idle")

\* "If `version` is already the latest, succeeds as a no-op without writing a
\* new manifest."
RestoreLatestIsNoop == \A r \in restores : r.target = r.start => r.got = r.start
=============================================================================
