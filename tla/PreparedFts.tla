----------------------------- MODULE PreparedFts -----------------------------
(***************************************************************************)
(* Prepared full-text queries (src/src/fts_query.rs) and the scans that    *)
(* run them over some of the index segments each (src/src/scanner.rs).     *)
(*                                                                         *)
(* A context pins a snapshot of the dataset and holds its segments and one *)
(* scorer; scanners of the same snapshot share it, and each answers for    *)
(* the segments it was given.  The handle moves on meanwhile.              *)
(*                                                                         *)
(* Every fragment has one row and every row matches the text: a row is     *)
(* named by its fragment.  A snapshot is named by its place in arcs, which *)
(* is the address of its Arc: equal content does not make it the same.     *)
(***************************************************************************)
EXTENDS Naturals, Sequences, FiniteSets

CONSTANTS Datasets,   \* the number of datasets, each with one handle
          Contexts,   \* query context handles
          Scanners,   \* scanners
          Fragments,  \* fragment ids
          Uuids,      \* segment ids
          Stored,     \* the content the datasets are opened with: a set of
                      \* sequences of snapshots, one for each dataset
          Built,      \* the segments that may be committed
          Requests,   \* the scanner options in use
          MaxArcs     \* bound on the snapshots

VARIABLES
  arcs,      \* the snapshots: fragments and segments of the index
  handle,    \* the snapshot each handle holds
  context,   \* each query context
  scanner    \* each scanner

vars == <<arcs, handle, context, scanner>>

\* A committed segment.  Its fragment bitmap may be unknown, and may name
\* fragments the dataset no longer has.  shape is its fields and parameters.
Shapes == {"plain", "positions"}
Segment == [uuid : Uuids, bitmap : SUBSET Fragments, known : BOOLEAN, shape : Shapes]
Snapshot == [frags : SUBSET Fragments, segs : SUBSET Segment]

Kinds == {"match", "phrase"}
Modes == {"strict", "index_only"}

\* FtsQueryContextInner, its handle "preparing" (not yet returned) or "open".
\* scorer is the set of segments its statistics were taken from.
Context == [state : {"preparing", "open"}, dataset : 1..MaxArcs, kind : Kinds,
            mode : Modes, segments : SUBSET Segment, scorer : SUBSET Uuids]
NoContext == [state |-> "none"]

\* The options of a scanner that a prepared query looks at: the rows its filter
\* keeps and its row address mask lets through, all of them when it has none.
Options == [filtered : BOOLEAN, filter : SUBSET Fragments, prefilter : BOOLEAN,
            mask : SUBSET Fragments, fragment_ids : BOOLEAN]

\* rows says how often each row was delivered.
Answer == [rows : [Fragments -> Nat], scorer : SUBSET Uuids]
NoAnswer == [scorer |-> {}]

\* LanceScanner; choice is fts_index_segments, empty when it is None.
Scanner == [dataset : 1..MaxArcs, opts : Options, context : Context \cup {NoContext},
            choice : SUBSET Uuids, result : Answer \cup {NoAnswer}]
NoScanner == [dataset |-> 0]

TypeOK ==
  /\ arcs \in Seq(Snapshot) /\ Len(arcs) <= MaxArcs
  /\ handle \in [1..Datasets -> 1..Len(arcs)]
  /\ context \in [Contexts -> Context \cup {NoContext}]
  /\ scanner \in [Scanners -> Scanner \cup {NoScanner}]

Covered(segs) == UNION {g.bitmap : g \in segs}

\* What Lance keeps true of a dataset: segments of an index have different ids
\* and disjoint bitmaps.
Wellformed(a) ==
  \A g, k \in a.segs : g # k => g.uuid # k.uuid /\ g.bitmap \cap k.bitmap = {}

ASSUME FtsAssumption ==
  /\ Datasets \in Nat /\ MaxArcs \in Nat /\ Datasets <= MaxArcs
  /\ Stored \subseteq [1..Datasets -> Snapshot]
  /\ \A a \in Stored, d \in 1..Datasets : Wellformed(a[d])
  /\ Built \subseteq Segment
  /\ Requests \subseteq Options
  /\ \A o \in Requests : ~o.filtered => o.filter = Fragments

Handles == 1..Datasets

Init ==
  /\ arcs \in Stored
  /\ handle = [h \in Handles |-> h]
  /\ context = [c \in Contexts |-> NoContext]
  /\ scanner = [s \in Scanners |-> NoScanner]

-----------------------------------------------------------------------------
(* The dataset and its handle.                                             *)

\* with_mut: the handle gets a new Arc whenever the closure returns, also with
\* an error.
WithMut(h, content) ==
  /\ Len(arcs) < MaxArcs
  /\ arcs' = Append(arcs, content)
  /\ handle' = [handle EXCEPT ![h] = Len(arcs) + 1]
  /\ UNCHANGED <<context, scanner>>

Held(h) == arcs[handle[h]]

\* Lance (external): an append, a compaction or delete that drops a fragment
\* and leaves its id in the bitmaps, and the commit of an index segment.
AppendFragment(h, f) ==
  /\ f \notin Held(h).frags
  /\ f \notin Covered(Held(h).segs)
  /\ WithMut(h, [Held(h) EXCEPT !.frags = @ \cup {f}])

DropFragment(h, f) ==
  /\ f \in Held(h).frags
  /\ WithMut(h, [Held(h) EXCEPT !.frags = @ \ {f}])

CommitSegment(h, g) ==
  /\ g.bitmap \subseteq Held(h).frags /\ g.bitmap # {}
  /\ LET content == [Held(h) EXCEPT !.segs = @ \cup {g}]
     IN  Wellformed(content) /\ WithMut(h, content)

\* A mutation that fails leaves the content as it was, in a new Arc.
FailedMutation(h) == WithMut(h, Held(h))

-----------------------------------------------------------------------------
(* lance_dataset_prepare_fts_match_query, ..._phrase_query.                *)

\* Wrong variant: counts the fragments the bitmaps name, present or not.
StrictByCount(a) == Cardinality(Covered(a.segs)) >= Cardinality(a.frags)

\* coverage_mode=STRICT: no current fragment is unindexed.
Strict(a) == a.frags \ {f \in Covered(a.segs) : f \in a.frags} = {}

\* The checks of prepare_fts_query_context on the pinned snapshot.
Preparable(a, kind, mode) ==
  /\ a.segs # {}
  /\ \A g \in a.segs : g.known
  /\ mode = "strict" => Strict(a)
  /\ \A g, k \in a.segs : g.shape = k.shape
  /\ kind = "phrase" => \A g \in a.segs : g.shape = "positions"

\* parse_query_inputs takes the snapshot; the rest runs without the lock.
PrepareBegin(c, h, kind, mode) ==
  /\ context[c] = NoContext
  /\ context' = [context EXCEPT ![c] =
       [state |-> "preparing", dataset |-> handle[h], kind |-> kind, mode |-> mode,
        segments |-> {}, scorer |-> {}]]
  /\ UNCHANGED <<arcs, handle, scanner>>

\* The index is loaded and opened, the statistics of all its segments are
\* added up, and the host gets its handle.
PrepareEnd(c) ==
  LET x == context[c] IN
  /\ x.state = "preparing"
  /\ Preparable(arcs[x.dataset], x.kind, x.mode)
  /\ context' = [context EXCEPT
       ![c].state = "open",
       ![c].segments = arcs[x.dataset].segs,
       ![c].scorer = {g.uuid : g \in arcs[x.dataset].segs}]
  /\ UNCHANGED <<arcs, handle, scanner>>

\* A check fails, or a segment cannot be read.
PrepareFails(c) ==
  /\ context[c].state = "preparing"
  /\ context' = [context EXCEPT ![c] = NoContext]
  /\ UNCHANGED <<arcs, handle, scanner>>

\* lance_fts_query_context_close drops the reference of the handle.
CloseContext(c) ==
  /\ context[c].state = "open"
  /\ context' = [context EXCEPT ![c] = NoContext]
  /\ UNCHANGED <<arcs, handle, scanner>>

-----------------------------------------------------------------------------
(* The scanner.                                                            *)

NewScanner(s, h, o) ==
  /\ scanner[s] = NoScanner
  /\ scanner' = [scanner EXCEPT ![s] =
       [dataset |-> handle[h], opts |-> o, context |-> NoContext, choice |-> {},
        result |-> NoAnswer]]
  /\ UNCHANGED <<arcs, handle, context>>

Configurable(s) == scanner[s] # NoScanner /\ scanner[s].result = NoAnswer

\* Wrong variant: a context of any snapshot will do.
AnySnapshot(x, arc) == TRUE

\* Arc::ptr_eq
validate_dataset_identity(x, arc) == x.dataset = arc

\* lance_scanner_set_fts_query_context clones the Arc of an open context.
SetFtsQueryContext(s, c) ==
  /\ Configurable(s)
  /\ context[c].state = "open"
  /\ validate_dataset_identity(context[c], scanner[s].dataset)
  /\ scanner' = [scanner EXCEPT ![s].context = context[c]]
  /\ UNCHANGED <<arcs, handle, context>>

\* lance_scanner_set_fts_index_segments: any distinct ids, none to clear.
SetFtsIndexSegments(s, uuids) ==
  /\ Configurable(s)
  /\ scanner' = [scanner EXCEPT ![s].choice = uuids]
  /\ UNCHANGED <<arcs, handle, context>>

\* The checks of build_scanner and select_fts_segments; a choice of segments
\* without a context is refused.
Buildable(sc) ==
  /\ sc.context # NoContext
  /\ ~sc.opts.fragment_ids
  /\ validate_dataset_identity(sc.context, sc.dataset)
  /\ sc.choice \subseteq {g.uuid : g \in sc.context.segments}

\* select_fts_segments
Selected(sc) ==
  IF sc.choice = {} THEN sc.context.segments
  ELSE {g \in sc.context.segments : g.uuid \in sc.choice}

\* selected_current_fts_fragments, on the dataset of the context.
SelectedFragments(sc) ==
  {f \in arcs[sc.context.dataset].frags : f \in Covered(Selected(sc))}

\* try_into_stream narrows a prefiltered scan to those fragments, if there are
\* any, before it plans.
Scope(sc) ==
  IF sc.opts.prefilter /\ sc.opts.filtered /\ SelectedFragments(sc) # {}
  THEN SelectedFragments(sc)
  ELSE arcs[sc.dataset].frags

\* A plan (external) has indexed query nodes and flat nodes for the fragments
\* outside the index; the number of either is up to the planner.
Plans == [indexed : 0..2, flat : 0..2]

\* Wrong variant: flat nodes stay.
FlatRowsKept(sc, plan) ==
  [f \in Fragments |->
     IF f \in Scope(sc) \ Covered(arcs[sc.dataset].segs) THEN plan.flat ELSE 0]

\* rewrite_prepared_fts_plan replaces flat nodes by nothing.
FlatRows(sc, plan) == [f \in Fragments |-> 0]

\* Wrong variant: the rebuilt node lacks the row address mask.
IndexedRowsUnmasked(sc, plan) ==
  [f \in Fragments |->
     IF /\ SelectedFragments(sc) # {}
        /\ f \in Covered(Selected(sc)) \cap Scope(sc) \cap arcs[sc.dataset].frags
     THEN plan.indexed ELSE 0]

\* It rebuilds an indexed node over the selected segments, with the mask put
\* back, or replaces it by nothing when they cover no current fragment.  The
\* node skips fragments its dataset does not have.
IndexedRows(sc, plan) ==
  [f \in Fragments |->
     IF /\ SelectedFragments(sc) # {}
        /\ f \in Covered(Selected(sc)) \cap Scope(sc) \cap arcs[sc.dataset].frags
        /\ f \in sc.opts.mask
     THEN plan.indexed ELSE 0]

\* Wrong variant: any plan will do.
AnyPlan(sc, plan) == TRUE

\* The plans that are not refused as unexpected.
Expected(sc, plan) ==
  /\ plan.indexed <= 1 /\ plan.flat <= 1
  /\ plan.indexed + plan.flat # 0
  /\ SelectedFragments(sc) # {} => plan.indexed = 1

\* Wrong variant: a shard scores with the statistics of its own segments.
ScorerOfShard(sc) == {g.uuid : g \in Selected(sc)}

\* with_base_scorer
BaseScorer(sc) == sc.context.scorer

\* The stream is built and read; the filter, pushed into the node or above it,
\* keeps its rows.  A refusal leaves the scanner as it was.
Scan(s, plan) ==
  LET sc == scanner[s] IN
  /\ Configurable(s)
  /\ Buildable(sc)
  /\ Expected(sc, plan)
  /\ scanner' = [scanner EXCEPT ![s].result =
       [rows |-> [f \in Fragments |->
          IF f \in sc.opts.filter
          THEN IndexedRows(sc, plan)[f] + FlatRows(sc, plan)[f] ELSE 0],
        scorer |-> BaseScorer(sc)]]
  /\ UNCHANGED <<arcs, handle, context>>

-----------------------------------------------------------------------------

Next ==
  \/ \E h \in Handles, f \in Fragments : AppendFragment(h, f) \/ DropFragment(h, f)
  \/ \E h \in Handles, g \in Built : CommitSegment(h, g)
  \/ \E h \in Handles : FailedMutation(h)
  \/ \E c \in Contexts, h \in Handles, k \in Kinds, m \in Modes : PrepareBegin(c, h, k, m)
  \/ \E c \in Contexts : PrepareEnd(c) \/ PrepareFails(c) \/ CloseContext(c)
  \/ \E s \in Scanners, h \in Handles, o \in Requests : NewScanner(s, h, o)
  \/ \E s \in Scanners, c \in Contexts : SetFtsQueryContext(s, c)
  \/ \E s \in Scanners, u \in SUBSET Uuids : SetFtsIndexSegments(s, u)
  \/ \E s \in Scanners, plan \in Plans : Scan(s, plan)

Spec == Init /\ [][Next]_vars

-----------------------------------------------------------------------------
(* Properties.                                                             *)

Answered(s) == scanner[s] # NoScanner /\ scanner[s].result # NoAnswer

\* The rows scanner s owes: of its own snapshot, the rows that the index
\* segments it was given cover there, that its mask lets through and its
\* filter keeps.
Owed(s) ==
  LET sc == scanner[s]
      a == arcs[sc.dataset]
  IN  {f \in a.frags \cap sc.opts.mask \cap sc.opts.filter :
         \E g \in a.segs : f \in g.bitmap /\ (sc.choice = {} \/ g.uuid \in sc.choice)}

\* A scan that answers delivers each row it owes once and no other, whatever
\* the planner made of the query and whatever happened to the handle and to
\* the context's handle since the context was prepared; a context of another
\* dataset, of an older snapshot or of one a failed mutation has replaced is
\* not used.
ScanIsExact ==
  \A s \in Scanners : Answered(s) =>
    scanner[s].result.rows = [f \in Fragments |-> IF f \in Owed(s) THEN 1 ELSE 0]

\* Two scans of one snapshot that answer for different segments of the index
\* share no row, leave out none when they have all the segments between them,
\* and their scores can be compared: both use the statistics of the whole
\* index.
ShardsAddUp ==
  \A s, t \in Scanners :
    LET a == scanner[s].choice
        b == scanner[t].choice
        all == arcs[scanner[s].dataset]
        Got(r) == {f \in Fragments : scanner[r].result.rows[f] > 0}
    IN  /\ s # t /\ Answered(s) /\ Answered(t)
        /\ scanner[s].dataset = scanner[t].dataset
        /\ scanner[s].opts = scanner[t].opts
        /\ a # {} /\ b # {} /\ a \cap b = {}
        => /\ Got(s) \cap Got(t) = {}
           /\ scanner[s].result.scorer = scanner[t].result.scorer
           /\ a \cup b = {g.uuid : g \in all.segs} =>
                Got(s) \cup Got(t) = all.frags \cap Covered(all.segs)
                                       \cap scanner[s].opts.mask \cap scanner[s].opts.filter

\* A scan over all segments of a context prepared with STRICT coverage returns
\* every row of the scanner's snapshot that the mask and the filter let
\* through, also when fragments the index once covered are gone.
StrictMissesNothing ==
  \A s \in Scanners :
    LET sc == scanner[s] IN
    Answered(s) /\ sc.context.mode = "strict" /\ sc.choice = {} =>
      \A f \in arcs[sc.dataset].frags \cap sc.opts.mask \cap sc.opts.filter :
        sc.result.rows[f] > 0
=============================================================================
