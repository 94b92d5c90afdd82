# TLA+ verification of lance-c

lance-c is the C and C++ binding of the Lance columnar format. Lance does the
storage, indexing and query work; what lance-c adds, and what this project
verifies, is everything that makes that work usable through a C ABI: handles
shared by host threads, callbacks into host memory from runtime threads, panics
that must not cross the boundary, options that are set one call at a time, and
segment-scoped scans that must return exactly the right rows.

All modules are translated from the Rust source. Lance, arrow-rs, DataFusion
and the Rust standard library are modelled from how the source uses them; the
`map` of `PROJECT.json` marks those definitions `external`.

## Inventory

| Component | State | Operations | Interaction and difficulty | Correct when |
|---|---|---|---|---|
| Poll wakers (`scanner.rs`) | one reference-counted context per poll, a registry of weak references, gate flags | poll, clone, drop, wake, close | runtime threads wake while the host closes; callback runs outside the lock | no callback after close, one per poll, close returns, pending polls are woken |
| Progress gate (`index_segment.rs`) | `retired` flag, `in_flight` counter | enter, exit, retire, execute, free | two atomics instead of a lock; detached workers outlive the build | no callback once execute has returned, execute returns |
| Dataset handle (`dataset.rs` and the mutations) | `RwLock<Arc<Dataset>>` over a shared table | open, snapshot, with_mut, restore, write, close | threads, other processes, panics in a mutation, poisoned lock | snapshots are whole and fixed, own writes visible, restore wins, handle never goes back |
| Async scan (`scanner.rs`, `async_dispatcher.rs`) | calls, channel, dispatcher thread, thread-local errors | scan_async, task, dispatch, deliver | completion crosses up to three threads; dispatcher may be missing | exactly one callback with the call's own error |
| Scanner configuration (`scanner.rs`, `multivector.rs`) | about forty options, `scan_started` | setters, nearest, nearest_batch, nearest_multivector, full text search, build | rules span several options that are set in any order and between scans | configurations obey the rules, plans agree on settled options |
| Exported streams (`stream_guard.rs`) | reader state, shared poison flag | export, get_next, release | consumer and host on different threads; callbacks must not unwind | no abort, one terminal error, poison before news |
| Segment-scoped scans (`scalar_segment.rs`) | filter tree, scope, segment, row mask | configure, read | pruning under three-valued logic; stale segments; ordered fallbacks | exactly the rows of the scope that satisfy the filter |
| Index selection (`scalar_index_selection.rs`) | budgets, cost, selected candidate | probe, compare, decide | cache shared between scans; saturation | cheapest estimate, justified full scan, budgets hold |
| Error channel and panic firewall (`error.rs`) | thread-local code and message | guard, read, swallow an unwinding destructor | host callbacks inside a call make further calls on the same thread | after a call its own answer is in the slot until the next one; a panic is told apart from an error |
| Input streams (`writer.rs`, `merge_insert.rs`, `add_columns.rs`, `fragment_writer.rs`) | the Arrow C stream struct of the caller | take over, release, refuse | refusals, failures and panics at every point after the take-over; streams passed again | released once, on every return path |
| FTS query contexts (`fts_query.rs`, `scanner.rs`) | pinned snapshot, segments, scorer; chosen segments of a scanner | prepare, attach, choose, scan, close | snapshots compared by identity while the handle moves; bitmaps that name dropped fragments; the planner's plan is rewritten | each shard returns exactly its rows, shards add up, STRICT misses nothing |
| Index segments and models (`index_segment.rs`, `index_model.rs`) | the caller's model arrays with their provenance, builders bound to a snapshot, metadata buffers | train_ivf, train_pq, new_scalar, new_vector, execute, free, commit | models cross processes between training and use; arrays are moved out and back; the handle moves under the builder | no mixed model set, segments cover their snapshot, models stay with the caller, a commit takes all or none |
| Index management, files of the fragment writer, blob files, versions, statistics, session, batches, helpers, runtime | immutable values or one call into Lance | accessors, conversions | none of their own | not modelled, reasons in `PROJECT.json` |

## Modules

| Module | Models | Proofs |
|---|---|---|
| `CallbackRetirement` | abstract: a callback may run only between installation and the return of the retiring call | |
| `PollWaker` | the waker registry; implements `CallbackRetirement` | `PollWakerProofs` |
| `ProgressGate` | the progress gate; implements `CallbackRetirement` | `ProgressGateProofs` |
| `DatasetHandle` | handles, snapshots, mutations, restore over one table | `DatasetHandleProofs` |
| `CompletionContract` | abstract: a started call completes once | |
| `AsyncScan` | scan_async and its dispatcher; implements `CompletionContract` | `AsyncScanProofs` |
| `ScannerConfig` | options and plans | `ScannerConfigProofs` |
| `GuardedStream` | exported Arrow streams | `FirewallProofs` |
| `ScalarSegment` | segment-scoped scans, with recursive functions over filter trees | `ScannerConfigProofs` |
| `ScalarIndexSelection` | cost comparison and probe budgets | `IndexProofs` |
| `IndexSegments` | model training, segment builders, commit of segments | `IndexProofs` |
| `CallBoundary` | synchronous entry points: last error, panic firewall, input streams | `FirewallProofs` |
| `PreparedFts` | prepared full-text queries and their segment-scoped scans | `PreparedFtsProofs` |

`MC<module>` and its `.cfg` files instantiate a module for TLC; `MCFirewall`
instantiates `CallBoundary` and `GuardedStream`, the two places where panics
stop, in one run. Operators
introduced by "Wrong variant" are deliberate mistakes: each replaces the
definition of the same shape in one mutant of `PROJECT.json`, to show that the
property named there can fail.

### PollWaker

Every critical section under a mutex is one step, and a C callback spans
several. `PollBegin` creates and registers a context (and prunes the registry),
`Clone` and `DropClone` are the runtime's handling of `RawWaker`s, `WakeEnter`,
`CallbackReturn` and `WakeExit` are the three parts of `wake_once`. Close is
`Retire` (upgrade the weak references), `Cancel` one by one, `AllCancelled`,
`WaitDone` or `WaitSleep` with spurious wake-ups, `AllQuiescent`, `DropScanner`.
The handle is `&mut`, so polls and close are steps of one host thread.

### ProgressGate

Each SeqCst operation is a step: a worker counts itself in (`EnterCount`), then
tests `retired` (`EnterTest`); the owner retires (`BuildEnds`), then spins until
the counter is zero (`Drained`). Workers keep their clone of the callback after
the build has ended.

### DatasetHandle

`heap` holds the `Dataset` values Arcs point to, so sharing is explicit: a
mutation that worked in place would be seen by every holder. `Acquire`, `Touch`,
`Commit`, `ReturnUnchanged`, `Finish`, `Swap` and `MutatePanic` are the steps of
`with_mut` and the closure it runs; `Commit` is Lance's atomic manifest swap.
`restore` snapshots without the lock and commits later. `Pin` stands for any
scanner or prepared context that keeps an `Arc`.

An observation the model makes visible: `with_mut` installs a fresh `Arc` also
when the closure returns an error. The version does not change, but a prepared
full-text context compares Arcs by identity and is refused afterwards. No
document says otherwise, so it is listed as a hazard and not as a finding;
`PreparedFts` has the failed mutation as an action, and `ScanIsExact` covers it.

### AsyncScan

A host thread runs the setup under its panic guard and either dispatches the
completion itself or spawns a task. `Dispatch` sends to the dispatcher thread,
or turns to inline delivery when the thread could not be started or the channel
failed. `Install` writes the thread-local error, `CallbackReturns` ends the
callback, which may leave any error behind on its thread. Calls to scan_async
from inside a callback, and a receiver that dies with messages queued, are not
modelled.

### ScannerConfig

A setter is one action; one that refuses its arguments is a stuttering step.
Option values are kept where a rule compares them. `Refused` is the checks of
`build_scanner`; `plans` records what each build produced. Options the rules
never compare are names in `tuned`, divided into those `ensure_scan_not_started`
protects and those it does not.

### GuardedStream

Of an error only its effect on arrow-rs is kept: plain text, text with a NUL
byte (which `CString::new` panics on), and an error whose `Display` panics.
`ReturnItem` is the arrow-rs callback, where such text would abort the process.
A stream of `take` has no scanner; its owner is `Unowned`.

### ScalarSegment

A scan treats rows one by one, so one row is followed, with a three-valued
truth value per column. The constant `Trees` is every filter tree of at most
`MaxSize` nodes over its queries (`TreesAreTrees`, `TreesAreClosed`), and
`Filters` are those a scan may be given. `Value`, `Lowered` and `Scoped` are
recursive functions over `Trees`, a form the prover can reason about. `Scoped` is
`scoped_expression` with its node and depth budgets; a `Requests` record holds
its arguments and the nodes left. `Preparation` and `Search` are the early
returns of `configure_candidates` in order, and `Answers` is what a segment says
of the row: a segment that has not indexed the row finds nothing, one that no
longer describes the snapshot may say anything. `Lowered` is the planner's rewriting
of `IS TRUE`, which loses rows under negation and is why the code inspects the
filter before planning.

### ScalarIndexSelection

The lookups of segments are inputs: their size in the file, their size in
memory, rows per page and pages touched. `Probe` has one disjunct per way
`estimate_cost` can end.

### IndexSegments

`models` are the slots of the caller: what `train_ivf_model_inner` and
`train_pq_model_inner` export, with the provenance metadata of the schema and,
as a history the program does not have, the IVF training the values come from.
`Ship` is a caller that sends a model to another process and gets it back
sliced, malformed or without metadata. A call that borrows models moves each
array out of its slot (`MovedOut`), imports it and writes an equivalent one back
(`WrittenBack`), and every end of the call has what that leaves in the slots:
success, a refusal or failure after the borrow (`AfterBorrow`), and
`ImportFails`, which leaves one slot with a released array and which the header
allows for malformed input only. `Borrowed` is when the checks before the move
let the import succeed. A failure after the borrow does not count against the
bound on the calls: a slot it leaves as it was makes it a stuttering step, and
with a forgotten write-back it is the step `ModelsStayWithCaller` rejects.
`NewVector` is the conjunction of the checks of `new_vector_builder_inner`, grouped by what
they are about. The order of the checks shows only in which models have been
moved when a call fails, and `NewVectorFails` keeps that order. The identity of
a model set is its IVF training and nothing else: the code compares `ivf_id`
only (`index_segment.rs:980`), so centroids that were sliced after a codebook
was trained with all of them pass for its centroids when `num_partitions` is
the length of the slice. `ModelSetsAgree` claims no more than the code does, and
the run has parameters that accept such a slice. A builder holds
the snapshot of its creation while `MoveHandle` moves the handle. `Committable`
and `Retained` are what the header says of Lance's commit.

### CallBoundary

A host thread has a stack of calls, since callbacks of an input stream run host
code on the thread of the call, and that code may call lance again. `Return` is
the end of `ffi_guard_with` around a body: what the slot holds depends on the
outcome, an error whose text cannot be formatted counts as a panic, and success
clears the slot. `CloseHandle` is `swallow_unwind`, which leaves the slot alone.
`answer` is a history: the last answer host code has got and neither superseded
by a call nor taken by `lance_last_error_message`.

The struct of an input stream is with the caller, moved into a call, or
released. `FromRaw` is `ArrowArrayStreamReader::from_raw` with its three results
(an error, a panic on a missing `get_schema`, a reader). A stream that only
lacks `get_next` is taken over, and the work that pulls it cannot succeed
(`MaySucceed`): it panics, or fails before the first pull. `Preflight` is the check
`add_columns_stream` makes before it, and `RefuseEarly` every check that precedes
the stream. The code of the entry points between the take-over and the return
is one step, `Finish`, with an outcome of any kind: the properties depend only
on what happens to the stream and the slot.

`given` is a history of the calls that have returned with the stream each was
given. `StreamsConsumedOnce` is what the code keeps to: it excepts the refusals
of `lance_write_fragments` that precede its stream. `GivenStreamsAreConsumed` is
what the documentation of that function promises, without the exception, and
the code does not keep it (see Findings).

### PreparedFts

A snapshot is its place in `arcs`, which stands for the address of the `Arc`,
and every mutation appends one, the failed ones too. Each fragment has one row
and every row matches the text, so a row is named by its fragment and the only
question is which rows a scan returns and how often. `PrepareBegin` takes the
snapshot and `PrepareEnd` opens its segments later; `Preparable` is the checks
between them. `SetFtsQueryContext` clones the reference, so a scanner keeps a
context that the host has closed. `Scan` covers `build_scanner`, the planner
and `rewrite_prepared_fts_plan`: the planner is external and may produce any
number of indexed and flat nodes, `Expected` is which plans the code accepts,
`IndexedRows` and `FlatRows` are what it makes of the nodes. A scorer is the set
of segments its statistics come from. Ranking and the limit on results are left
out; a refused call leaves the scanner as it was and is a stuttering step.

## Runs

| Run | Bounds | Shows |
|---|---|---|
| `poll_waker` | 2 polls, 2 threads, 2 clones each | `NoCallbackAfterClose`, `FiresAtMostOnce`, `ContextsAccountedFor` (no live context escapes the registry through pruning), `CloseReturns`, `PendingIsWoken`, refinement of `CallbackRetirement` |
| `progress_gate` | 3 workers, 2 events each | `OnlyWhileExecuting`, `ExecuteReturns`, refinement of `CallbackRetirement` |
| `dataset_handle` | 2 handles, 2 threads, 1 pin, 4 versions, 4 snapshots, 1 panic | `NoTornSnapshot`, `ReadYourWrites`, `RestoreTakesEffect`, `HandleNeverGoesBack`, `PinsAreStable`, `MutationsReturn` |
| `dataset_restore_noop` | 3 versions, no panic | violated: see Findings |
| `async_scan` | 2 callers, 1 worker, 1 scanner, 2 calls | `OneOwner`, `CallbackSeesItsOutcome`, `PanicPoisonsFirst`, `EveryCallCompletes`, refinement of `CompletionContract` |
| `scanner_config` | 4 calls, counts up to 3, limits 2 to 4 | `ConfigCompatible`, `PlansAreSound`, `PlansAgree` |
| `panic_firewall` | entry points: 2 threads, 2 input streams of any shape, 3 calls, nested 2 deep; exported streams: 1 scanner, 2 streams, 3 items, 3 calls | `LastErrorIsTheAnswer`, `StreamsConsumedOnce`; `NeverAborts`, `PanicReportedOnce`, `PoisonPrecedesNews` |
| `write_fragments_refusal` | 1 thread, 1 stream, 2 calls | violated: see Findings |
| `scalar_segment` | the 867 trees of up to 5 nodes over 2 indices, filters of up to 4 nodes and some of 5, 3 segments, every fallback | `ScopedReadIsExact`, `LoaderNeverRefuses` |
| `index_segments` | 6 steps, 3 model slots, 2 builders, 2 fragments, 2 metrics, 3 parameter sets | `ModelSetsAgree`, `SegmentsCoverTheirSnapshot`, `ModelsStayWithCaller`, `CommitIsAllOrNothing` |
| `prepared_fts` | 1 dataset with 2 snapshots, 1 context, 2 scanners, 4 fragments, 2 segments, 3 initial contents, 3 sets of options | `ScanIsExact`, `ShardsAddUp`, `StrictMissesNothing` |
| `index_selection` | 3 candidates of 4 indices, budgets two lookups exhaust | `CheapestIsSelected`, `FullScanIsJustified`, `BudgetsHold` |

Why the bounds are enough: two polls let one context be pruned or woken while
the other is pending, and the proofs cover any number; two mutating threads and a foreign writer give every order of
two commits around a snapshot; two calls let an error on a thread precede a
success on it; four calls are a search, two options of one rule and a build;
four nodes are the smallest trees with a pruned branch below a NOT; budgets of
4 with lookups of 1 to 3 are exhausted by the second probe, after a hit, a load
or a failure; six steps are two IVF trainings, a codebook, a release, a builder
and its execution, or two builds, a damaged buffer and a commit; three calls are
one that is nested in another and one on another thread, or a stream that is
passed three times; the initial contents of `prepared_fts` have an unindexed
fragment, a segment whose fragments are all gone and a bitmap with a dropped
fragment, and a second snapshot makes every context able to be stale. Where a
proof exists the bound does not matter.

`panic_firewall` takes the behaviours of `CallBoundary` and of `GuardedStream`
side by side and does not interleave them: the two share no variable and no
property speaks of both, so an interleaving would show nothing more.

The type invariant is proved for every module and is no property of a run; the
runs spend their time on the other properties.

Deadlock is not checked: each model ends when its bounded number of calls is
used up or everything is closed, as the program does.

### Fairness

`PollWaker`: close keeps running, a thread inside `wake_once` finishes (the
contract of the callback is that it returns), and the waker of a pending poll
is eventually woken, as the contract of `Stream::poll_next` says. `ProgressGate`:
the owner and the workers keep running and progress callbacks return.
`DatasetHandle`: each thread that is inside a mutation keeps running.
`AsyncScan`: host threads inside a setup, spawned tasks, the dispatcher and
threads delivering a completion keep running. Nothing is assumed of the host
making calls.

### Findings

`dataset_restore_noop`: `include/lance/lance.h` says of
`lance_dataset_restore`: "If `version` is already the latest, succeeds as a
no-op without writing a new manifest." `restore_inner` always commits; its
comment explains why skipping the commit would open a race, and the test
`test_dataset_restore_to_current_latest_writes_new_manifest` expects it. The
header is what is out of date: `RestoreTakesEffect` depends on the commit.

`write_fragments_refusal`: the comment on `lance_write_fragments`
(`fragment_writer.rs:53`) says "Arrow C Data Interface stream consumed by this
call. The caller must not use the stream after this function returns.", and
`include/lance/lance.h:1651` says the same. `write_fragments_inner` checks its
URI, schema and storage options (`fragment_writer.rs:72-86`) before it takes the
stream. In the trace the call refuses one of them and returns, and the stream is
still in the struct of the caller with its release callback. A caller that keeps
to the comment leaks it. `writer.rs:186-190` explains why `lance_dataset_write`
takes its stream first.

## Proofs

The theorems hold for every value of the constants, under the named `ASSUME` of
each module (bounds are natural numbers, sentinels are distinct from the sets
they extend, the workers of `ProgressGate` and the threads of `DatasetHandle`
are finite sets, `Trees` of `ScalarSegment` is the set its comment describes). Each proof has the same shape: an inductive invariant `IInv`,
which TLC can check like any other invariant, a lemma per
action or group of actions, and consequences. A theorem about a property is
about the same definition a run checks.

Three proof modules are about two modules each, which belong together and are
both extended: `FirewallProofs` about the two places where panics stop,
`IndexProofs` about building segments and choosing among them,
`ScannerConfigProofs` about the options of a scan and the segment one of them
names. That is why `GuardedStream`, `ScalarIndexSelection` and `ScalarSegment`
name their specifications `GuardSpec`, `SelectionSpec` and `SegmentSpec` and
their parts alike.

- `PollWakerProofs`. `ContextsAccountedFor` alone is not inductive: it needs
  that a context with its `active` flag has exactly one thread behind it
  (`OneThreadPerActive`), that `fired` agrees with the number of calls
  (`FiredOnce`), and that close holds a reference to every active context it has
  not waited for (`CloseHoldsActive`). From these follow
  `CloseIsRetirementBoundary`, `WakersAreOneShot`, `RegistryIsComplete`,
  `NoEntryAfterCancel`, and that every step is a step of `CallbackRetirement`.
- `ProgressGateProofs`. The counter equals the number of workers past the gate
  (`CountsEveryEntry`), whoever holds a clone after the build meets a retired
  gate (`RetiredAfterBuild`); so a zero read by the drain loop means nobody is
  inside and nobody can get in.
- `DatasetHandleProofs`. `SnapshotsAreWhole`, `WritesAreVisible`,
  `RestoresTakeEffect`, `HandlesMoveForward` and `PinnedSnapshotsStay`. The
  write lock has one holder (`LockInv`), so between the clone and the swap of a
  mutation nobody else moves the handle, and the working copy of a thread is
  never older than the snapshot it will replace (`ThreadInv`). The heap and the
  log only grow (`TableGrows`), which carries what was true of a snapshot, of an
  acknowledged version (`HandleInv`) or of a restore (`RestoreInv`) through the
  steps of other threads and foreign writers. `BoundInv` counts what the
  mutations in progress may still need: the bounds on versions and snapshots
  stop new calls, never one that has begun.
- `AsyncScanProofs`. A completion in flight is `Truthful`: its code is the
  outcome of its call, and the scanner is poisoned already if that is a panic.
  A thread inside a callback has that code in its thread-local error
  (`ThreadInv`). With `OneOwner`, which is needed to know that nobody else
  completes the call meanwhile, this gives `CallsHaveOneOwner`,
  `CallbacksSeeTheirOutcome` and `PanicsPoisonFirst`. `ImplementsContractSafety`
  goes through the actions once more: with `CallState` as the refinement
  mapping each one starts a call, completes one, or is a stutter of
  `CompletionContract`.
- `ScannerConfigProofs`, options (`ScannerConfig`). `GoodUpdate` says what a setter may store; every
  setter's update is shown to be one, and `PlansKept` ties recorded plans to
  the settled part of the current configuration.
- `ScannerConfigProofs`, segment-scoped scans (`ScalarSegment`). A recursive
  function is a CHOOSE until it is shown to exist: `LeastNatural` gives the least
  element of a set of naturals, `Recursion` a fixed point of a step that only
  looks at smaller ranks, and `ValueDef`, `SubtreesDef`, `LoweredDef` and
  `ScopedDef` unfold the four functions. By `TreeInduction` and
  `RequestInduction`, `ScopedIsUsable`: for every filter tree, segment and budget
  what `scoped_expression` keeps asks one index only, is true wherever the tree
  is, and where it must be whole has the value of the tree, NULL included, which
  is what makes pruning below a NOT sound. `ChosenIsSearchable` carries this
  through automatic selection. The invariant `SegmentIInv` is `MaskKeepsRow` (a
  row of the scope that satisfies the filter passes the mask), `FallenBack` (no
  mask after a fallback), `MaskIsAccepted` (legacy storage always falls back)
  and the two properties; `ScopedReadExact` and `LoaderAnswers` follow. The proof
  uses that the scope is covered by the searched segment and that a filter with
  a truth test never reaches the planner: `LoweredKeepsIndexExprs` shows that the
  lowering changes no other tree. What is assumed of the rest: a segment that
  describes the snapshot answers with the value of the expression on what it
  has indexed, and `Misleading` segments fall back before or at the search.
- `FirewallProofs`, entry points (`CallBoundary`). `SlotAgrees` drops the "host
  code runs" of `LastErrorIsTheAnswer`, as the slot has to be right already while
  a callback's caller is still working. For the streams `FrameInv` says that a
  call owns its stream exactly when it has got past its checks, `Exclusive` that
  no two calls in progress have the same one, and `Owned` that what was moved out
  of the caller's struct has a call; so a return disposes of one stream and
  disturbs no other. `ReturnIInv` is the common part of every way to return.
- `FirewallProofs`, exported streams (`GuardedStream`). `PanicPlaced` says where
  a caught panic is: nowhere, in the item being returned, or seen by the
  consumer, which fixes what a fused reader may return next.
  `heard \subseteq flag` gives `PoisonFirst`.
- `IndexProofs`, building (`IndexSegments`). What the metadata of a model says is
  true of it (`ProvenanceTrue`): the IVF training that an array names is the one
  it comes from, which shipping may lose but not falsify. So the comparison of provenance in `new_vector_builder_inner` is
  enough for `ModelSetsMatch`: no builder holds a codebook of another IVF training
  than its centroids, for vectors of any dimension. The theorem does not say
  that the codebook was trained with just these centroids: a slice of them is of
  the same training. `BuildersCover`
  carries the selection check to `SegmentsMatchSnapshot` while the handle moves.
  `CommitsKeepIndexCoherent` is a consequence no run checks: the committed
  segments of a column agree in type and metric and overlap nowhere.
  `ModelsAreBorrowed` and `CommitsAreWhole` are action properties; the first
  rests on `BorrowKeeps`, that a borrow leaves the slots as they were, which is
  used for every end of a call that has borrowed.
- `IndexProofs`, choosing (`ScalarIndexSelection`). `Best` says the selected
  segment is the first of the cheapest so far; `Charged` ties the budgets to what
  was used; saturation is isolated in `CostFacts`.
- `PreparedFtsProofs`. Snapshots are only appended, so what a context has read
  of its snapshot stays true of it after the handle has moved (`Prepared`), and
  a scanner's context agrees with the scanner's own snapshot because they are
  the same one (`ScannerInv`); `RewrittenRows` says what an accepted plan
  delivers. Disjoint bitmaps (`Wellformed`, kept by every mutation) make shards
  disjoint.

Only model-checked: the liveness properties (`CloseReturns`, `PendingIsWoken`,
`ExecuteReturns`, `MutationsReturn`, `EveryCallCompletes`) and the fairness part
of the refinements, which the prover cannot treat. Every safety invariant and
action property a passing run checks is stated by a theorem; the two that fail
are those of the Findings.

## Not modelled

Argument decoding (C strings, arrays, UUIDs, Substrait bytes), the contents of
error messages, metrics and statistics callbacks, what Lance stores and how it
ranks results (the scores of multivector search and the limit of a text query
included), page statistics of BTree lookups, the cursor of a blob file, and the
components listed as `not_modelled` in `PROJECT.json`.

## Plan

Done, in this order: callback retirement (wakers, progress gate), dataset
handles, asynchronous completion, scanner configuration, exported streams,
segment-scoped scans, index selection, index segments, synchronous errors and
input streams (`CallBoundary`), prepared full-text queries (`PreparedFts`), with
the proofs listed above.

Next:

1. `PageOverlap`: `overlaps` and `matches_page` checked against the rows of a
   page, so that an estimate never misses a matching page.
2. `BlobCursor`: read, read_up_to, read_range, seek and tell.
