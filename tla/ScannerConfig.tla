---------------------------- MODULE ScannerConfig ----------------------------
(***************************************************************************)
(* The configuration of a LanceScanner (src/src/scanner.rs): the setters,  *)
(* in any order and between scans, and build_scanner, which turns the      *)
(* configuration into a plan for each stream derived from the scanner.     *)
(*                                                                         *)
(* A setter that refuses its arguments changes nothing and is a stuttering *)
(* step.  Values are kept where a rule compares them; of the other         *)
(* settings only the fact that they have been set is kept.                 *)
(***************************************************************************)
EXTENDS Integers, FiniteSets

CONSTANTS MaxQueries,     \* MAX_BATCH_QUERIES and MAX_QUERY_VECTORS
          MaxCandidates,  \* MAX_BATCH_CANDIDATES, MAX_QUERY_VECTOR_CANDIDATES
          MaxBatchCells,  \* MAX_BATCH_QUERY_BYTES, in elements
          Counts,         \* counts hosts pass for n, k and refine_factor
          Dimensions,     \* vector dimensions
          Probes,         \* nprobes values hosts pass
          MaxCalls        \* bound on the calls that change the scanner

ASSUME ConfigAssumption ==
  /\ MaxQueries \in Nat /\ MaxCandidates \in Nat /\ MaxBatchCells \in Nat
  /\ Counts \subseteq Nat /\ Dimensions \subseteq Nat /\ Probes \subseteq Nat
  /\ MaxCalls \in Nat

Unset == -1

\* Settings only guarded by ensure_scan_not_started, and settings not guarded
\* at all, that no rule of this module compares.
Frozen == {"reading", "order", "output", "row_address", "sql_filter",
           "statistics", "auto_selection", "approximation"}
Free == {"batch_size", "row_id", "substrait", "search", "prefilter"}

Modes == {"none", "single", "multi", "batch"}

Config ==
  [ mode : Modes,                   \* the nearest query: its mode,
    n : Nat,                        \*   number of vectors
    k : Nat,                        \*   and result count
    range : BOOLEAN,                \* a distance range is set
    refine : Nat \cup {Unset},
    minimum : (Nat \ {0}) \cup {Unset},   \* NprobesRange
    maximum : (Nat \ {0}) \cup {Unset},
    hamming : BOOLEAN,              \* the metric override is Hamming
    segments : BOOLEAN,             \* index_segments
    fts : BOOLEAN,                  \* fts_query
    ctx : BOOLEAN,                  \* fts_context
    ftsSegments : BOOLEAN,          \* fts_index_segments
    limit : BOOLEAN,
    offset : BOOLEAN,
    bytes : BOOLEAN,                \* batch_size_bytes
    strict : BOOLEAN,               \* strict_batch_size is Some(true)
    fragments : {"none", "empty", "some"},
    mask : BOOLEAN,                 \* a row address allowlist or blocklist
    deleted : BOOLEAN,              \* include_deleted_rows
    scalarSegment : BOOLEAN,        \* scalar_index_segment
    tuned : SUBSET (Frozen \cup Free) ]

VARIABLES config, started, poisoned,
          stream,   \* the scanner has its own stream, for next and poll_next
          plans,    \* configurations build_scanner has turned into plans
          calls     \* calls made that changed something

vars == <<config, started, poisoned, stream, plans, calls>>

TypeOK ==
  /\ config \in Config
  /\ started \in BOOLEAN
  /\ poisoned \in BOOLEAN
  /\ stream \in BOOLEAN
  /\ plans \in SUBSET Config
  /\ calls \in 0..MaxCalls

Init ==
  /\ config = [ mode |-> "none", n |-> 0, k |-> 0, range |-> FALSE,
                refine |-> Unset, minimum |-> Unset, maximum |-> Unset,
                hamming |-> FALSE, segments |-> FALSE, fts |-> FALSE,
                ctx |-> FALSE, ftsSegments |-> FALSE, limit |-> FALSE,
                offset |-> FALSE, bytes |-> FALSE, strict |-> FALSE,
                fragments |-> "none", mask |-> FALSE, deleted |-> FALSE,
                scalarSegment |-> FALSE, tuned |-> {} ]
  /\ started = FALSE
  /\ poisoned = FALSE
  /\ stream = FALSE
  /\ plans = {}
  /\ calls = 0

-----------------------------------------------------------------------------
(* The frame of every call.                                                *)

\* scanner_poison_check: a poisoned scanner refuses every call.
Enter == /\ ~poisoned
         /\ calls < MaxCalls
         /\ calls' = calls + 1

\* A setter stores c.
Store(c) == /\ Enter
            /\ config' = c
            /\ UNCHANGED <<started, poisoned, stream, plans>>

NotStarted == ~started

\* Set x among the settings no rule compares, or set it back.
Tune(x) == \E t \in {config.tuned \cup {x}, config.tuned \ {x}} :
             Store([config EXCEPT !.tuned = t])

-----------------------------------------------------------------------------
(* Setters of ordinary scans, in the order of the source.                  *)

SetScalarIndexAutoSelection == NotStarted /\ Tune("auto_selection")

SetScalarIndexSegment(on) ==
  NotStarted /\ Store([config EXCEPT !.scalarSegment = on])

SetLimit == config.mode # "batch" /\ Store([config EXCEPT !.limit = TRUE])
SetOffset == config.mode # "batch" /\ Store([config EXCEPT !.offset = TRUE])

SetBatchSize == Tune("batch_size")

SetBatchSizeBytes ==
  NotStarted /\ ~config.strict /\ Store([config EXCEPT !.bytes = TRUE])

\* io_buffer_size, batch_readahead, fragment_readahead, target_parallelism.
SetReadTuning == NotStarted /\ Tune("reading")

\* scan_in_order and use_scalar_index.
SetScanOrder == NotStarted /\ Tune("order")

SetStrictBatchSize(on) ==
  NotStarted /\ ~(on /\ config.bytes) /\ Store([config EXCEPT !.strict = on])

\* Wrong variant: allowed between two scans.
SetOutputAnyTime == Tune("output")

\* use_stats and blob_handling.
SetOutput == NotStarted /\ Tune("output")

WithRowId == Tune("row_id")
WithRowAddress == NotStarted /\ Tune("row_address")

SetIncludeDeletedRows(on) == NotStarted /\ Store([config EXCEPT !.deleted = on])

\* Not guarded: later streams may cover other fragments.
SetFragmentIds(which) ==
  which # "none" /\ Store([config EXCEPT !.fragments = which])

SetRowAddrList == NotStarted /\ Store([config EXCEPT !.mask = TRUE])

SetSubstraitFilter == Tune("substrait")
AdditionalSqlFilter == NotStarted /\ Tune("sql_filter")
SetStatisticsCallback == NotStarted /\ Tune("statistics")

-----------------------------------------------------------------------------
(* Setters of vector and full-text searches.                               *)

\* validate_batch_candidates: num_queries * k * refine_factor in its bound.
BatchFits(n, k, refine) ==
  LET r == IF refine = Unset THEN 1 ELSE refine
  IN  r # 0 /\ n * k * r <= MaxCandidates

\* Wrong variant: only nearest_batch validates, and only what is set by then.
SetRefineFactorUnchecked(r) == Store([config EXCEPT !.refine = r])

\* Guarded and validated only while the query is a batch.
SetRefineFactor(r) ==
  /\ config.mode = "batch" => NotStarted /\ BatchFits(config.n, config.k, r)
  /\ Store([config EXCEPT !.refine = r])

\* A range needs a single-vector query; two open ends clear it.
SetDistanceRange(on) ==
  NotStarted /\ config.mode = "single" /\ Store([config EXCEPT !.range = on])

SetNprobes(p) ==
  NotStarted /\ p > 0 /\ Store([config EXCEPT !.minimum = p, !.maximum = p])

SetMinimumNprobes(p) ==
  /\ NotStarted /\ p > 0
  /\ config.maximum # Unset => p <= config.maximum
  /\ Store([config EXCEPT !.minimum = p])

SetMaximumNprobes(p) ==
  /\ NotStarted /\ p > 0
  /\ config.minimum # Unset => p >= config.minimum
  /\ Store([config EXCEPT !.maximum = p])

\* approx_mode and query_parallelism.
SetApproximation == NotStarted /\ Tune("approximation")

SetMetric(hamming) == Store([config EXCEPT !.hamming = hamming])

\* ef and use_index.
SetSearch == Tune("search")
SetPrefilter == Tune("prefilter")
SetIndexSegments(on) == Store([config EXCEPT !.segments = on])

\* A search of one kind excludes the others.
NoFts == ~config.fts /\ ~config.ctx

\* A nearest query replaces the previous one, its range included.
StoreNearest(mode, n, k) ==
  Store([config EXCEPT !.mode = mode, !.n = n, !.k = k, !.range = FALSE])

Nearest(k) == k > 0 /\ NoFts /\ StoreNearest("single", 1, k)

\* batch_query_value_count: the copied values stay in their bound.
BatchCells(dim, n) == dim * n <= MaxBatchCells

NearestBatch(dim, n, k) ==
  /\ NotStarted
  /\ dim > 0 /\ k > 0 /\ n \in 1..MaxQueries
  /\ NoFts
  /\ ~config.limit /\ ~config.offset
  /\ BatchFits(n, k, config.refine)
  /\ BatchCells(dim, n)
  /\ StoreNearest("batch", n, k)

NearestMultivector(n, k) ==
  /\ n \in 1..MaxQueries /\ k > 0 /\ n * k <= MaxCandidates
  /\ NoFts
  /\ StoreNearest("multi", n, k)

FullTextSearch ==
  config.mode = "none" /\ ~config.ctx /\ Store([config EXCEPT !.fts = TRUE])

\* The context is of the scanner's own snapshot (see DatasetHandle).
SetFtsQueryContext ==
  config.mode = "none" /\ ~config.fts /\ Store([config EXCEPT !.ctx = TRUE])

SetFtsIndexSegments(on) == Store([config EXCEPT !.ftsSegments = on])

-----------------------------------------------------------------------------
(* Scanning.                                                               *)

\* Wrong variant: the search of a scoped scan is not looked at.
RefusedForgetsSearch(c) ==
  \/ c.mode = "batch" /\ ~BatchFits(c.n, c.k, c.refine)
  \/ c.segments /\ c.mode = "none"
  \/ c.ftsSegments /\ ~c.ctx
  \/ c.ctx /\ c.fragments # "none"
  \/ c.mask /\ c.scalarSegment
  \/ c.scalarSegment /\ c.fragments # "some"

\* What build_scanner itself refuses.
Refused(c) ==
  \/ c.mode = "batch" /\ ~BatchFits(c.n, c.k, c.refine)
  \/ c.segments /\ c.mode = "none"
  \/ c.ftsSegments /\ ~c.ctx
  \/ c.ctx /\ c.fragments # "none"
  \/ c.mask /\ c.scalarSegment
  \/ c.mode = "multi" /\ (c.hamming \/ ~BatchFits(1, c.k, c.refine))
  \/ c.scalarSegment /\ \/ c.mode # "none" \/ c.fts \/ c.ctx \/ c.segments
                        \/ c.ftsSegments \/ c.deleted \/ c.fragments # "some"

\* build_scanner: the scan counts as started even if the build is refused, by
\* its own rules or by Lance.
Build(ok) ==
  /\ Enter
  /\ started' = TRUE
  /\ ok => ~Refused(config)
  /\ plans' = IF ok THEN plans \cup {config} ELSE plans
  /\ UNCHANGED <<config, poisoned>>

\* lance_scanner_to_arrow_stream and lance_scanner_scan_async: a plan for
\* every call, as the configuration is now.
Export(ok) == Build(ok) /\ UNCHANGED stream

\* lance_scanner_next and lance_scanner_poll_next: materialize_stream on the
\* first call, opening the stream may still fail; later calls go on with it.
Materialize(ok) == ~stream /\ Build(ok) /\ stream' \in {FALSE, ok}

\* A panic caught in any call poisons the scanner.
Panic == /\ Enter
         /\ poisoned' = TRUE
         /\ UNCHANGED <<config, started, stream, plans>>

-----------------------------------------------------------------------------

SetScan ==
  \/ SetScalarIndexAutoSelection \/ SetLimit \/ SetOffset \/ SetBatchSize
  \/ SetBatchSizeBytes \/ SetReadTuning \/ SetScanOrder \/ SetOutput
  \/ WithRowId \/ WithRowAddress \/ SetRowAddrList \/ SetSubstraitFilter
  \/ AdditionalSqlFilter \/ SetStatisticsCallback
  \/ \E on \in BOOLEAN : \/ SetScalarIndexSegment(on) \/ SetStrictBatchSize(on)
                         \/ SetIncludeDeletedRows(on)
  \/ \E which \in {"empty", "some"} : SetFragmentIds(which)

SetSearches ==
  \/ \E r \in Counts : SetRefineFactor(r)
  \/ \E on \in BOOLEAN : \/ SetDistanceRange(on) \/ SetMetric(on)
                         \/ SetIndexSegments(on) \/ SetFtsIndexSegments(on)
  \/ \E p \in Probes : SetNprobes(p) \/ SetMinimumNprobes(p) \/ SetMaximumNprobes(p)
  \/ SetApproximation \/ SetSearch \/ SetPrefilter
  \/ FullTextSearch \/ SetFtsQueryContext
  \/ \E k \in Counts : Nearest(k)
  \/ \E n, k \in Counts : NearestMultivector(n, k)
  \/ \E dim \in Dimensions, n, k \in Counts : NearestBatch(dim, n, k)

Next ==
  \/ SetScan \/ SetSearches
  \/ \E ok \in BOOLEAN : Export(ok) \/ Materialize(ok)
  \/ Panic

Spec == Init /\ [][Next]_vars

-----------------------------------------------------------------------------
(* Properties.                                                             *)

\* At most one kind of search, whatever the order of the setters.
OneSearch(c) == /\ ~(c.mode # "none" /\ (c.fts \/ c.ctx))
                /\ ~(c.fts /\ c.ctx)

\* A batch has no global window and its candidates stay within the bound,
\* although refine_factor, limit and offset are set by other calls.
BatchBounded(c) ==
  c.mode = "batch" => /\ ~c.limit /\ ~c.offset
                      /\ c.n \in 1..MaxQueries
                      /\ BatchFits(c.n, c.k, c.refine)

SizesAgree(c) == ~(c.strict /\ c.bytes)

ProbesOrdered(c) ==
  c.minimum # Unset /\ c.maximum # Unset => c.minimum <= c.maximum

RangeHasItsQuery(c) == c.range => c.mode = "single"

Compatible(c) == /\ OneSearch(c) /\ BatchBounded(c) /\ SizesAgree(c)
                 /\ ProbesOrdered(c) /\ RangeHasItsQuery(c)

\* The rules that several setters keep together hold at every moment, for
\* every order of setters, replacements and scans in between.
ConfigCompatible == Compatible(config)

\* A scan scoped to one scalar index segment is an ordinary scan of live rows
\* in explicit fragments without a row mask of its own.
ScopedScanIsOrdinary(c) ==
  c.scalarSegment => /\ c.mode = "none" /\ ~c.fts /\ ~c.ctx
                     /\ ~c.mask /\ ~c.deleted
                     /\ c.fragments = "some"

MultiBounded(c) ==
  c.mode = "multi" => /\ c.n * c.k <= MaxCandidates
                      /\ BatchFits(1, c.k, c.refine)
                      /\ ~c.hamming

\* No plan handed to Lance breaks a rule: what the setters leave open,
\* build_scanner refuses.
PlansAreSound ==
  \A c \in plans : Compatible(c) /\ ScopedScanIsOrdinary(c) /\ MultiBounded(c)

\* The part of a configuration that may not change once a scan has started.
Settled(c) == <<c.tuned \cap Frozen, c.scalarSegment, c.bytes, c.strict,
                c.mask, c.deleted, c.minimum, c.maximum>>

\* All streams derived from one scanner run under the same guarded settings,
\* and all its batch plans ask the same number of candidates; a build that
\* failed in between settles them as well.
PlansAgree ==
  \A c, d \in plans :
    /\ Settled(c) = Settled(d)
    /\ c.mode = "batch" /\ d.mode = "batch"
         => c.n = d.n /\ c.k = d.k /\ c.refine = d.refine
=============================================================================
