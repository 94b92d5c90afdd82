------------------------- MODULE ScannerConfigProofs -------------------------
(***************************************************************************)
(* Proofs about scans.  ScannerConfig: for every bound and every sequence  *)
(* of calls the plans a scanner hands to Lance are sound and agree.        *)
(* ScalarSegment: for every filter tree and every segment a scan           *)
(* accelerated by a scalar index segment delivers the rows it must.        *)
(***************************************************************************)
EXTENDS ScannerConfig, ScalarSegment, Integers, WellFoundedInduction, TLAPS

\* nearest_multivector has bounded its own candidates.
MultiCounted(c) == c.mode = "multi" => c.n * c.k <= MaxCandidates

\* d asks for the same batch as c, if both are batches.
SameBatch(c, d) == c.mode = "batch" /\ d.mode = "batch"
                     => c.n = d.n /\ c.k = d.k /\ c.refine = d.refine

\* The present configuration has kept what the plans so far were built from.
PlansKept == /\ plans # {} => started
             /\ \A c \in plans : /\ Settled(c) = Settled(config)
                                 /\ SameBatch(c, config)

\* The inductive invariant.
IInv == /\ TypeOK
        /\ ConfigCompatible
        /\ MultiCounted(config)
        /\ PlansAreSound
        /\ PlansAgree
        /\ PlansKept

\* A setter may store c: it keeps the rules and, once started, what is settled.
GoodUpdate(c) ==
  /\ c \in Config
  /\ Compatible(c)
  /\ MultiCounted(c)
  /\ started => /\ Settled(c) = Settled(config)
                /\ c.mode = "batch" => /\ config.mode = "batch"
                                       /\ c.n = config.n /\ c.k = config.k
                                       /\ c.refine = config.refine

-----------------------------------------------------------------------------

\* The initial configuration is empty and has no plans.
LEMMA InitIInv == Init => IInv
<1> SUFFICES ASSUME Init PROVE IInv
  OBVIOUS
<1>1. /\ config.mode = "none" /\ ~config.range /\ ~config.fts /\ ~config.ctx
      /\ ~config.bytes /\ ~config.strict /\ config.minimum = Unset
  BY DEF Init
<1>2. config \in Config
  BY SMTT(30) DEF Init, Config, Modes, Unset
<1>3. TypeOK
  <2>1. calls \in 0..MaxCalls
    BY ConfigAssumption DEF Init
  <2>2. /\ started \in BOOLEAN /\ poisoned \in BOOLEAN /\ stream \in BOOLEAN
        /\ plans \in SUBSET Config
    BY Zenon DEF Init
  <2> QED BY <1>2, <2>1, <2>2 DEF TypeOK
<1>4. ConfigCompatible /\ MultiCounted(config)
  BY <1>1 DEF ConfigCompatible, Compatible, OneSearch, BatchBounded,
     SizesAgree, ProbesOrdered, RangeHasItsQuery, MultiCounted
<1>5. PlansAreSound /\ PlansAgree /\ PlansKept
  BY DEF Init, PlansAreSound, PlansAgree, PlansKept
<1> QED BY <1>3, <1>4, <1>5 DEF IInv

\* A setter that stores a good update preserves the invariant.
LEMMA StoreIInv ==
  ASSUME IInv, NEW c, GoodUpdate(c), Store(c)
  PROVE  IInv'
<1>1. /\ config' = c /\ plans' = plans /\ started' = started
      /\ poisoned' = poisoned /\ stream' = stream
      /\ calls' = calls + 1 /\ calls < MaxCalls
  BY DEF Store, Enter
<1>2. TypeOK'
  BY <1>1, ConfigAssumption DEF IInv, TypeOK, GoodUpdate
<1>3. ConfigCompatible' /\ MultiCounted(config)'
  BY <1>1 DEF GoodUpdate, ConfigCompatible
<1>4. PlansAreSound' /\ PlansAgree'
  BY <1>1 DEF IInv, PlansAreSound, PlansAgree
<1>5. PlansKept'
  <2>1. plans' # {} => started'
    BY <1>1 DEF IInv, PlansKept
  <2>2. ASSUME NEW d \in plans
        PROVE  Settled(d) = Settled(c) /\ SameBatch(d, c)
    <3>1. started
      BY <2>2 DEF IInv, PlansKept
    <3>2. Settled(d) = Settled(config) /\ SameBatch(d, config)
      BY <2>2 DEF IInv, PlansKept
    <3>3. Settled(c) = Settled(config)
      BY <3>1 DEF GoodUpdate
    <3>4. SameBatch(d, c)
      BY <3>1, <3>2 DEF GoodUpdate, SameBatch
    <3> QED BY <3>2, <3>3, <3>4
  <2> QED BY <2>1, <2>2, <1>1 DEF PlansKept
<1> QED BY <1>2, <1>3, <1>4, <1>5 DEF IInv

\* Settings that no rule compares.
LEMMA TuneIInv ==
  ASSUME IInv, NEW x \in Frozen \cup Free, Tune(x), started => x \in Free
  PROVE  IInv'
<1>1. PICK t \in {config.tuned \cup {x}, config.tuned \ {x}} :
        Store([config EXCEPT !.tuned = t])
  BY DEF Tune
<1> DEFINE c == [config EXCEPT !.tuned = t]
<1>2. config \in Config
  BY DEF IInv, TypeOK
<1>3. c \in Config
  <2>1. t \in SUBSET (Frozen \cup Free)
    BY <1>2 DEF Config
  <2> QED BY <1>2, <2>1 DEF Config
<1>4. /\ c.mode = config.mode /\ c.n = config.n /\ c.k = config.k
      /\ c.range = config.range /\ c.refine = config.refine
      /\ c.minimum = config.minimum /\ c.maximum = config.maximum
      /\ c.fts = config.fts /\ c.ctx = config.ctx
      /\ c.limit = config.limit /\ c.offset = config.offset
      /\ c.bytes = config.bytes /\ c.strict = config.strict
      /\ c.mask = config.mask /\ c.deleted = config.deleted
      /\ c.scalarSegment = config.scalarSegment
      /\ c.tuned = t
  BY <1>2 DEF Config
<1>5. Compatible(c) /\ MultiCounted(c)
  BY <1>4 DEF IInv, ConfigCompatible, Compatible, OneSearch, BatchBounded,
     SizesAgree, ProbesOrdered, RangeHasItsQuery, MultiCounted
<1>6. started => Settled(c) = Settled(config)
  <2> SUFFICES ASSUME started PROVE c.tuned \cap Frozen = config.tuned \cap Frozen
    BY <1>4 DEF Settled
  <2>1. x \notin Frozen
    BY DEF Frozen, Free
  <2> QED BY <2>1, <1>4
<1>7. GoodUpdate(c)
  BY <1>3, <1>4, <1>5, <1>6 DEF GoodUpdate
<1> QED BY <1>1, <1>7, StoreIInv
\* What a setter leaves alone, rule by rule.
SameSearch(c) == /\ c.mode = config.mode /\ c.n = config.n /\ c.k = config.k
                 /\ c.range = config.range /\ c.refine = config.refine
                 /\ c.fts = config.fts /\ c.ctx = config.ctx
SameWindow(c) == c.limit = config.limit /\ c.offset = config.offset
SameSizes(c) == c.bytes = config.bytes /\ c.strict = config.strict
SameProbes(c) == c.minimum = config.minimum /\ c.maximum = config.maximum
SameScope(c) == /\ c.mask = config.mask /\ c.deleted = config.deleted
                /\ c.scalarSegment = config.scalarSegment
                /\ c.tuned = config.tuned

\* The rules of the present configuration.
LEMMA RulesNow ==
  ASSUME IInv
  PROVE  /\ config \in Config
         /\ OneSearch(config) /\ BatchBounded(config) /\ SizesAgree(config)
         /\ ProbesOrdered(config) /\ RangeHasItsQuery(config)
         /\ MultiCounted(config)
BY DEF IInv, TypeOK, ConfigCompatible, Compatible

\* A setter that leaves the query and its refinement alone: it has to keep the
\* window, size and probe rules and, once started, everything settled.
LEMMA SameSearchIInv ==
  ASSUME IInv, NEW c \in Config, Store(c), SameSearch(c),
         c.mode = "batch" => SameWindow(c),
         SizesAgree(c), ProbesOrdered(c),
         started => SameSizes(c) /\ SameProbes(c) /\ SameScope(c)
  PROVE  IInv'
<1>1. OneSearch(c) /\ RangeHasItsQuery(c) /\ MultiCounted(c)
  BY RulesNow DEF SameSearch, OneSearch, RangeHasItsQuery, MultiCounted
<1>2. BatchBounded(c)
  BY RulesNow DEF SameSearch, SameWindow, BatchBounded
<1>3. started => Settled(c) = Settled(config)
  BY DEF SameSizes, SameProbes, SameScope, Settled
<1>4. GoodUpdate(c)
  BY <1>1, <1>2, <1>3 DEF GoodUpdate, Compatible, SameSearch
<1> QED BY <1>4, StoreIInv

\* A setter that changes the query, its refinement or the full-text search.
LEMMA NewSearchIInv ==
  ASSUME IInv, NEW c \in Config, Store(c),
         SameSizes(c), SameProbes(c), SameScope(c),
         OneSearch(c), BatchBounded(c), RangeHasItsQuery(c), MultiCounted(c),
         started => c.mode # "batch"
  PROVE  IInv'
<1>1. SizesAgree(c) /\ ProbesOrdered(c)
  BY RulesNow DEF SameSizes, SameProbes, SizesAgree, ProbesOrdered
<1>2. Settled(c) = Settled(config)
  BY DEF SameSizes, SameProbes, SameScope, Settled
<1>3. GoodUpdate(c)
  BY <1>1, <1>2 DEF GoodUpdate, Compatible
<1> QED BY <1>3, StoreIInv

\* No rule of a setter is about the fragments,
LEMMA FragmentIdsIInv ==
  ASSUME IInv, NEW which \in {"empty", "some"}, SetFragmentIds(which)
  PROVE  IInv'
<1> DEFINE c == [config EXCEPT !.fragments = which]
<1>1. Store(c)
  BY DEF SetFragmentIds
<1>2. c \in Config
  BY RulesNow DEF Config
<1>3. /\ SameSearch(c) /\ SameWindow(c) /\ SameSizes(c)
      /\ SameProbes(c) /\ SameScope(c)
  BY RulesNow DEF Config, SameSearch, SameWindow, SameSizes, SameProbes,
     SameScope
<1> HIDE DEF c
<1>5. SizesAgree(c) /\ ProbesOrdered(c)
  BY <1>3, RulesNow DEF SameSizes, SameProbes, SizesAgree, ProbesOrdered
<1> QED BY <1>1, <1>2, <1>3, <1>5, SameSearchIInv

\* nor about the metric,
LEMMA MetricIInv ==
  ASSUME IInv, NEW on \in BOOLEAN, SetMetric(on)
  PROVE  IInv'
<1> DEFINE c == [config EXCEPT !.hamming = on]
<1>1. Store(c)
  BY DEF SetMetric
<1>2. c \in Config
  BY RulesNow DEF Config
<1>3. /\ SameSearch(c) /\ SameWindow(c) /\ SameSizes(c)
      /\ SameProbes(c) /\ SameScope(c)
  BY RulesNow DEF Config, SameSearch, SameWindow, SameSizes, SameProbes,
     SameScope
<1> HIDE DEF c
<1>5. SizesAgree(c) /\ ProbesOrdered(c)
  BY <1>3, RulesNow DEF SameSizes, SameProbes, SizesAgree, ProbesOrdered
<1> QED BY <1>1, <1>2, <1>3, <1>5, SameSearchIInv

\* nor about the index segments of a vector search
LEMMA IndexSegmentsIInv ==
  ASSUME IInv, NEW on \in BOOLEAN, SetIndexSegments(on)
  PROVE  IInv'
<1> DEFINE c == [config EXCEPT !.segments = on]
<1>1. Store(c)
  BY DEF SetIndexSegments
<1>2. c \in Config
  BY RulesNow DEF Config
<1>3. /\ SameSearch(c) /\ SameWindow(c) /\ SameSizes(c)
      /\ SameProbes(c) /\ SameScope(c)
  BY RulesNow DEF Config, SameSearch, SameWindow, SameSizes, SameProbes,
     SameScope
<1> HIDE DEF c
<1>5. SizesAgree(c) /\ ProbesOrdered(c)
  BY <1>3, RulesNow DEF SameSizes, SameProbes, SizesAgree, ProbesOrdered
<1> QED BY <1>1, <1>2, <1>3, <1>5, SameSearchIInv

\* or of a prepared full-text search.
LEMMA FtsSegmentsIInv ==
  ASSUME IInv, NEW on \in BOOLEAN, SetFtsIndexSegments(on)
  PROVE  IInv'
<1> DEFINE c == [config EXCEPT !.ftsSegments = on]
<1>1. Store(c)
  BY DEF SetFtsIndexSegments
<1>2. c \in Config
  BY RulesNow DEF Config
<1>3. /\ SameSearch(c) /\ SameWindow(c) /\ SameSizes(c)
      /\ SameProbes(c) /\ SameScope(c)
  BY RulesNow DEF Config, SameSearch, SameWindow, SameSizes, SameProbes,
     SameScope
<1> HIDE DEF c
<1>5. SizesAgree(c) /\ ProbesOrdered(c)
  BY <1>3, RulesNow DEF SameSizes, SameProbes, SizesAgree, ProbesOrdered
<1> QED BY <1>1, <1>2, <1>3, <1>5, SameSearchIInv

\* Settings that are only settled: the scalar index segment,
LEMMA ScalarSegmentIInv ==
  ASSUME IInv, NEW on \in BOOLEAN, SetScalarIndexSegment(on)
  PROVE  IInv'
<1> DEFINE c == [config EXCEPT !.scalarSegment = on]
<1>1. Store(c) /\ ~started
  BY DEF SetScalarIndexSegment, NotStarted
<1>2. c \in Config
  BY RulesNow DEF Config
<1>3. SameSearch(c) /\ SameWindow(c) /\ SameSizes(c) /\ SameProbes(c)
  BY RulesNow DEF Config, SameSearch, SameWindow, SameSizes, SameProbes
<1> HIDE DEF c
<1>5. SizesAgree(c) /\ ProbesOrdered(c)
  BY <1>3, RulesNow DEF SameSizes, SameProbes, SizesAgree, ProbesOrdered
<1> QED BY <1>1, <1>2, <1>3, <1>5, SameSearchIInv

\* deleted rows
LEMMA DeletedRowsIInv ==
  ASSUME IInv, NEW on \in BOOLEAN, SetIncludeDeletedRows(on)
  PROVE  IInv'
<1> DEFINE c == [config EXCEPT !.deleted = on]
<1>1. Store(c) /\ ~started
  BY DEF SetIncludeDeletedRows, NotStarted
<1>2. c \in Config
  BY RulesNow DEF Config
<1>3. SameSearch(c) /\ SameWindow(c) /\ SameSizes(c) /\ SameProbes(c)
  BY RulesNow DEF Config, SameSearch, SameWindow, SameSizes, SameProbes
<1> HIDE DEF c
<1>5. SizesAgree(c) /\ ProbesOrdered(c)
  BY <1>3, RulesNow DEF SameSizes, SameProbes, SizesAgree, ProbesOrdered
<1> QED BY <1>1, <1>2, <1>3, <1>5, SameSearchIInv

\* and the row mask.
LEMMA RowAddrListIInv ==
  ASSUME IInv, SetRowAddrList
  PROVE  IInv'
<1> DEFINE c == [config EXCEPT !.mask = TRUE]
<1>1. Store(c) /\ ~started
  BY DEF SetRowAddrList, NotStarted
<1>2. c \in Config
  BY RulesNow DEF Config
<1>3. SameSearch(c) /\ SameWindow(c) /\ SameSizes(c) /\ SameProbes(c)
  BY RulesNow DEF Config, SameSearch, SameWindow, SameSizes, SameProbes
<1> HIDE DEF c
<1>5. SizesAgree(c) /\ ProbesOrdered(c)
  BY <1>3, RulesNow DEF SameSizes, SameProbes, SizesAgree, ProbesOrdered
<1> QED BY <1>1, <1>2, <1>3, <1>5, SameSearchIInv

\* The window: never under a batch.
LEMMA LimitIInv ==
  ASSUME IInv, SetLimit
  PROVE  IInv'
<1> DEFINE c == [config EXCEPT !.limit = TRUE]
<1>1. Store(c) /\ config.mode # "batch"
  BY DEF SetLimit
<1>2. c \in Config
  BY RulesNow DEF Config
<1>3. SameSearch(c) /\ SameSizes(c) /\ SameProbes(c) /\ SameScope(c)
  BY RulesNow DEF Config, SameSearch, SameSizes, SameProbes, SameScope
<1> HIDE DEF c
<1>5. SizesAgree(c) /\ ProbesOrdered(c)
  BY <1>3, RulesNow DEF SameSizes, SameProbes, SizesAgree, ProbesOrdered
<1>6. c.mode # "batch"
  BY <1>1, <1>3 DEF SameSearch
<1> QED BY <1>1, <1>2, <1>3, <1>5, <1>6, SameSearchIInv

\* The offset, likewise.
LEMMA OffsetIInv ==
  ASSUME IInv, SetOffset
  PROVE  IInv'
<1> DEFINE c == [config EXCEPT !.offset = TRUE]
<1>1. Store(c) /\ config.mode # "batch"
  BY DEF SetOffset
<1>2. c \in Config
  BY RulesNow DEF Config
<1>3. SameSearch(c) /\ SameSizes(c) /\ SameProbes(c) /\ SameScope(c)
  BY RulesNow DEF Config, SameSearch, SameSizes, SameProbes, SameScope
<1> HIDE DEF c
<1>5. SizesAgree(c) /\ ProbesOrdered(c)
  BY <1>3, RulesNow DEF SameSizes, SameProbes, SizesAgree, ProbesOrdered
<1>6. c.mode # "batch"
  BY <1>1, <1>3 DEF SameSearch
<1> QED BY <1>1, <1>2, <1>3, <1>5, <1>6, SameSearchIInv

\* A size in bytes excludes the strict size
LEMMA BatchSizeBytesIInv ==
  ASSUME IInv, SetBatchSizeBytes
  PROVE  IInv'
<1> DEFINE c == [config EXCEPT !.bytes = TRUE]
<1>1. Store(c) /\ ~started /\ ~config.strict
  BY DEF SetBatchSizeBytes, NotStarted
<1>2. c \in Config
  BY RulesNow DEF Config
<1>3. SameSearch(c) /\ SameWindow(c) /\ SameProbes(c) /\ SameScope(c)
  BY RulesNow DEF Config, SameSearch, SameWindow, SameProbes, SameScope
<1>4. c.strict = config.strict
  BY RulesNow DEF Config
<1> HIDE DEF c
<1>5. SizesAgree(c) /\ ProbesOrdered(c)
  BY <1>1, <1>3, <1>4, RulesNow DEF SameProbes, SizesAgree, ProbesOrdered
<1> QED BY <1>1, <1>2, <1>3, <1>5, SameSearchIInv

\* and the strict size excludes one in bytes.
LEMMA StrictBatchSizeIInv ==
  ASSUME IInv, NEW on \in BOOLEAN, SetStrictBatchSize(on)
  PROVE  IInv'
<1> DEFINE c == [config EXCEPT !.strict = on]
<1>1. Store(c) /\ ~started /\ ~(on /\ config.bytes)
  BY DEF SetStrictBatchSize, NotStarted
<1>2. c \in Config
  BY RulesNow DEF Config
<1>3. SameSearch(c) /\ SameWindow(c) /\ SameProbes(c) /\ SameScope(c)
  BY RulesNow DEF Config, SameSearch, SameWindow, SameProbes, SameScope
<1>4. c.bytes = config.bytes /\ c.strict = on
  BY RulesNow DEF Config
<1> HIDE DEF c
<1>5. SizesAgree(c) /\ ProbesOrdered(c)
  BY <1>1, <1>3, <1>4, RulesNow DEF SameProbes, SizesAgree, ProbesOrdered
<1> QED BY <1>1, <1>2, <1>3, <1>5, SameSearchIInv

\* Probe counts: one number for both ends,
LEMMA NprobesIInv ==
  ASSUME IInv, NEW p \in Probes, SetNprobes(p)
  PROVE  IInv'
<1> DEFINE c == [config EXCEPT !.minimum = p, !.maximum = p]
<1>1. Store(c) /\ ~started /\ p > 0
  BY DEF SetNprobes, NotStarted
<1>2. c \in Config
  <2>1. p \in (Nat \ {0}) \cup {Unset}
    BY <1>1, ConfigAssumption
  <2> QED BY <2>1, RulesNow DEF Config
<1>3. SameSearch(c) /\ SameWindow(c) /\ SameSizes(c) /\ SameScope(c)
  BY RulesNow DEF Config, SameSearch, SameWindow, SameSizes, SameScope
<1>4. c.minimum = p /\ c.maximum = p
  BY RulesNow DEF Config
<1> HIDE DEF c
<1>5. SizesAgree(c)
  BY <1>3, RulesNow DEF SameSizes, SizesAgree
<1>6. ProbesOrdered(c)
  BY <1>1, <1>4, RulesNow, ConfigAssumption DEF ProbesOrdered, Config, Unset
<1> QED BY <1>1, <1>2, <1>3, <1>5, <1>6, SameSearchIInv

\* a minimum below the maximum that is set,
LEMMA MinimumIInv ==
  ASSUME IInv, NEW p \in Probes, SetMinimumNprobes(p)
  PROVE  IInv'
<1> DEFINE c == [config EXCEPT !.minimum = p]
<1>1. Store(c) /\ ~started /\ p > 0 /\ (config.maximum # Unset => p <= config.maximum)
  BY DEF SetMinimumNprobes, NotStarted
<1>2. c \in Config
  BY RulesNow, <1>1, ConfigAssumption DEF Config, Modes, Unset
<1>3. SameSearch(c) /\ SameWindow(c) /\ SameSizes(c) /\ SameScope(c)
  BY RulesNow DEF Config, SameSearch, SameWindow, SameSizes, SameScope
<1>4. c.minimum = p /\ c.maximum = config.maximum
  BY RulesNow DEF Config
<1> HIDE DEF c
<1>5. SizesAgree(c)
  BY <1>3, RulesNow DEF SameSizes, SizesAgree
<1>6. ProbesOrdered(c)
  BY <1>1, <1>4, RulesNow, ConfigAssumption DEF ProbesOrdered, Config, Unset
<1> QED BY <1>1, <1>2, <1>3, <1>5, <1>6, SameSearchIInv

\* a maximum above the minimum that is set.
LEMMA MaximumIInv ==
  ASSUME IInv, NEW p \in Probes, SetMaximumNprobes(p)
  PROVE  IInv'
<1> DEFINE c == [config EXCEPT !.maximum = p]
<1>1. Store(c) /\ ~started /\ p > 0 /\ (config.minimum # Unset => p >= config.minimum)
  BY DEF SetMaximumNprobes, NotStarted
<1>2. c \in Config
  BY RulesNow, <1>1, ConfigAssumption DEF Config, Modes, Unset
<1>3. SameSearch(c) /\ SameWindow(c) /\ SameSizes(c) /\ SameScope(c)
  BY RulesNow DEF Config, SameSearch, SameWindow, SameSizes, SameScope
<1>4. c.minimum = config.minimum /\ c.maximum = p
  BY RulesNow DEF Config
<1> HIDE DEF c
<1>5. SizesAgree(c)
  BY <1>3, RulesNow DEF SameSizes, SizesAgree
<1>6. ProbesOrdered(c)
  BY <1>1, <1>4, RulesNow, ConfigAssumption DEF ProbesOrdered, Config, Unset
<1> QED BY <1>1, <1>2, <1>3, <1>5, <1>6, SameSearchIInv

\* refine_factor: checked against the batch, if there is one.
LEMMA RefineFactorIInv ==
  ASSUME IInv, NEW r \in Counts, SetRefineFactor(r)
  PROVE  IInv'
<1> DEFINE c == [config EXCEPT !.refine = r]
<1>1. Store(c) /\ (config.mode = "batch" => ~started /\ BatchFits(config.n, config.k, r))
  BY DEF SetRefineFactor, NotStarted
<1>2. c \in Config
  BY RulesNow, ConfigAssumption DEF Config, Modes, Unset
<1>3. SameWindow(c) /\ SameSizes(c) /\ SameProbes(c) /\ SameScope(c)
  BY RulesNow DEF Config, SameWindow, SameSizes, SameProbes, SameScope
<1>4. /\ c.mode = config.mode /\ c.n = config.n /\ c.k = config.k
      /\ c.range = config.range /\ c.fts = config.fts /\ c.ctx = config.ctx
      /\ c.refine = r
  BY RulesNow DEF Config
<1> HIDE DEF c
<1>5. OneSearch(c) /\ RangeHasItsQuery(c) /\ MultiCounted(c)
  BY <1>1, <1>4, RulesNow DEF OneSearch, RangeHasItsQuery, MultiCounted
<1>6. BatchBounded(c)
  BY <1>1, <1>3, <1>4, RulesNow DEF BatchBounded, SameWindow
<1>7. started => c.mode # "batch"
  BY <1>1, <1>4 DEF NotStarted
<1> QED BY <1>1, <1>2, <1>3, <1>5, <1>6, <1>7, NewSearchIInv

\* A distance range belongs to a single-vector query.
LEMMA DistanceRangeIInv ==
  ASSUME IInv, NEW on \in BOOLEAN, SetDistanceRange(on)
  PROVE  IInv'
<1> DEFINE c == [config EXCEPT !.range = on]
<1>1. Store(c) /\ ~started /\ config.mode = "single"
  BY DEF SetDistanceRange, NotStarted
<1>2. c \in Config
  BY RulesNow DEF Config
<1>3. SameWindow(c) /\ SameSizes(c) /\ SameProbes(c) /\ SameScope(c)
  BY RulesNow DEF Config, SameWindow, SameSizes, SameProbes, SameScope
<1>4. /\ c.mode = config.mode /\ c.n = config.n /\ c.k = config.k
      /\ c.refine = config.refine /\ c.fts = config.fts /\ c.ctx = config.ctx
  BY RulesNow DEF Config
<1> HIDE DEF c
<1>5. OneSearch(c) /\ RangeHasItsQuery(c) /\ MultiCounted(c)
  BY <1>1, <1>4, RulesNow DEF OneSearch, RangeHasItsQuery, MultiCounted
<1>6. BatchBounded(c)
  BY <1>1, <1>3, <1>4, RulesNow DEF BatchBounded, SameWindow
<1>7. started => c.mode # "batch"
  BY <1>1, <1>4 DEF NotStarted
<1> QED BY <1>1, <1>2, <1>3, <1>5, <1>6, <1>7, NewSearchIInv

\* Nearest queries replace one another and exclude full-text search.
LEMMA NearestIInv ==
  ASSUME IInv, NEW k \in Counts, Nearest(k)
  PROVE  IInv'
<1> DEFINE c == [config EXCEPT !.mode = "single", !.n = 1, !.k = k, !.range = FALSE]
<1>1. Store(c) /\ ~config.fts /\ ~config.ctx
  BY DEF Nearest, StoreNearest, NoFts
<1>2. c \in Config
  BY RulesNow, ConfigAssumption DEF Config, Modes, Unset
<1>3. SameWindow(c) /\ SameSizes(c) /\ SameProbes(c) /\ SameScope(c)
  BY RulesNow DEF Config, SameWindow, SameSizes, SameProbes, SameScope
<1>4. /\ c.mode = "single" /\ c.n = 1 /\ c.k = k /\ ~c.range
      /\ c.refine = config.refine /\ c.fts = config.fts /\ c.ctx = config.ctx
  BY RulesNow DEF Config
<1> HIDE DEF c
<1>5. OneSearch(c) /\ RangeHasItsQuery(c) /\ MultiCounted(c)
  BY <1>1, <1>4, RulesNow DEF OneSearch, RangeHasItsQuery, MultiCounted
<1>6. BatchBounded(c)
  BY <1>1, <1>3, <1>4, RulesNow DEF BatchBounded, SameWindow
<1>7. started => c.mode # "batch"
  BY <1>1, <1>4 DEF NotStarted
<1> QED BY <1>1, <1>2, <1>3, <1>5, <1>6, <1>7, NewSearchIInv

\* A multivector query bounds its own candidates.
LEMMA NearestMultiIInv ==
  ASSUME IInv, NEW n \in Counts, NEW k \in Counts, NearestMultivector(n, k)
  PROVE  IInv'
<1> DEFINE c == [config EXCEPT !.mode = "multi", !.n = n, !.k = k, !.range = FALSE]
<1>1. Store(c) /\ ~config.fts /\ ~config.ctx /\ n * k <= MaxCandidates
  BY DEF NearestMultivector, StoreNearest, NoFts
<1>2. c \in Config
  BY RulesNow, ConfigAssumption DEF Config, Modes, Unset
<1>3. SameWindow(c) /\ SameSizes(c) /\ SameProbes(c) /\ SameScope(c)
  BY RulesNow DEF Config, SameWindow, SameSizes, SameProbes, SameScope
<1>4. /\ c.mode = "multi" /\ c.n = n /\ c.k = k /\ ~c.range
      /\ c.refine = config.refine /\ c.fts = config.fts /\ c.ctx = config.ctx
  BY RulesNow DEF Config
<1> HIDE DEF c
<1>5. OneSearch(c) /\ RangeHasItsQuery(c) /\ MultiCounted(c)
  BY <1>1, <1>4, RulesNow DEF OneSearch, RangeHasItsQuery, MultiCounted
<1>6. BatchBounded(c)
  BY <1>1, <1>3, <1>4, RulesNow DEF BatchBounded, SameWindow
<1>7. started => c.mode # "batch"
  BY <1>1, <1>4 DEF NotStarted
<1> QED BY <1>1, <1>2, <1>3, <1>5, <1>6, <1>7, NewSearchIInv

\* A batch checks the refinement and the window that are already set.
LEMMA NearestBatchIInv ==
  ASSUME IInv, NEW dim \in Dimensions, NEW n \in Counts, NEW k \in Counts, NearestBatch(dim, n, k)
  PROVE  IInv'
<1> DEFINE c == [config EXCEPT !.mode = "batch", !.n = n, !.k = k, !.range = FALSE]
<1>1. Store(c) /\ ~started /\ ~config.fts /\ ~config.ctx /\ ~config.limit /\ ~config.offset
      /\ n \in 1..MaxQueries /\ BatchFits(n, k, config.refine)
  BY DEF NearestBatch, StoreNearest, NotStarted, NoFts
<1>2. c \in Config
  BY RulesNow, ConfigAssumption DEF Config, Modes, Unset
<1>3. SameWindow(c) /\ SameSizes(c) /\ SameProbes(c) /\ SameScope(c)
  BY RulesNow DEF Config, SameWindow, SameSizes, SameProbes, SameScope
<1>4. /\ c.mode = "batch" /\ c.n = n /\ c.k = k /\ ~c.range
      /\ c.refine = config.refine /\ c.fts = config.fts /\ c.ctx = config.ctx
  BY RulesNow DEF Config
<1> HIDE DEF c
<1>5. OneSearch(c) /\ RangeHasItsQuery(c) /\ MultiCounted(c)
  BY <1>1, <1>4, RulesNow DEF OneSearch, RangeHasItsQuery, MultiCounted
<1>6. BatchBounded(c)
  BY <1>1, <1>3, <1>4, RulesNow DEF BatchBounded, SameWindow
<1>7. started => c.mode # "batch"
  BY <1>1, <1>4 DEF NotStarted
<1> QED BY <1>1, <1>2, <1>3, <1>5, <1>6, <1>7, NewSearchIInv

\* A full-text search excludes every other search.
LEMMA FullTextSearchIInv ==
  ASSUME IInv, FullTextSearch
  PROVE  IInv'
<1> DEFINE c == [config EXCEPT !.fts = TRUE]
<1>1. Store(c) /\ config.mode = "none" /\ ~config.ctx
  BY DEF FullTextSearch
<1>2. c \in Config
  BY RulesNow DEF Config
<1>3. SameWindow(c) /\ SameSizes(c) /\ SameProbes(c) /\ SameScope(c)
  BY RulesNow DEF Config, SameWindow, SameSizes, SameProbes, SameScope
<1>4. /\ c.mode = config.mode /\ c.n = config.n /\ c.k = config.k
      /\ c.range = config.range /\ c.refine = config.refine /\ c.ctx = config.ctx
  BY RulesNow DEF Config
<1> HIDE DEF c
<1>5. OneSearch(c) /\ RangeHasItsQuery(c) /\ MultiCounted(c)
  BY <1>1, <1>4, RulesNow DEF OneSearch, RangeHasItsQuery, MultiCounted
<1>6. BatchBounded(c)
  BY <1>1, <1>3, <1>4, RulesNow DEF BatchBounded, SameWindow
<1>7. started => c.mode # "batch"
  BY <1>1, <1>4 DEF NotStarted
<1> QED BY <1>1, <1>2, <1>3, <1>5, <1>6, <1>7, NewSearchIInv

\* So does a prepared full-text context.
LEMMA SetFtsQueryContextIInv ==
  ASSUME IInv, SetFtsQueryContext
  PROVE  IInv'
<1> DEFINE c == [config EXCEPT !.ctx = TRUE]
<1>1. Store(c) /\ config.mode = "none" /\ ~config.fts
  BY DEF SetFtsQueryContext
<1>2. c \in Config
  BY RulesNow DEF Config
<1>3. SameWindow(c) /\ SameSizes(c) /\ SameProbes(c) /\ SameScope(c)
  BY RulesNow DEF Config, SameWindow, SameSizes, SameProbes, SameScope
<1>4. /\ c.mode = config.mode /\ c.n = config.n /\ c.k = config.k
      /\ c.range = config.range /\ c.refine = config.refine /\ c.fts = config.fts
  BY RulesNow DEF Config
<1> HIDE DEF c
<1>5. OneSearch(c) /\ RangeHasItsQuery(c) /\ MultiCounted(c)
  BY <1>1, <1>4, RulesNow DEF OneSearch, RangeHasItsQuery, MultiCounted
<1>6. BatchBounded(c)
  BY <1>1, <1>3, <1>4, RulesNow DEF BatchBounded, SameWindow
<1>7. started => c.mode # "batch"
  BY <1>1, <1>4 DEF NotStarted
<1> QED BY <1>1, <1>2, <1>3, <1>5, <1>6, <1>7, NewSearchIInv

-----------------------------------------------------------------------------

\* A configuration that build_scanner lets through is sound.
LEMMA UnrefusedIsSound ==
  ASSUME IInv, ~Refused(config)
  PROVE  Compatible(config) /\ ScopedScanIsOrdinary(config) /\ MultiBounded(config)
<1>1. Compatible(config)
  BY DEF IInv, ConfigCompatible
<1>2. ScopedScanIsOrdinary(config)
  BY RulesNow DEF Refused, ScopedScanIsOrdinary
<1>3. MultiBounded(config)
  BY RulesNow DEF Refused, MultiBounded, MultiCounted
<1> QED BY <1>1, <1>2, <1>3

\* build_scanner: a new plan agrees with the earlier ones, which the present
\* configuration has kept.
LEMMA BuildIInv ==
  ASSUME IInv, NEW ok \in BOOLEAN, Build(ok), stream' \in BOOLEAN
  PROVE  IInv'
<1>1. /\ config' = config /\ poisoned' = poisoned /\ started'
      /\ calls' = calls + 1 /\ calls < MaxCalls
  BY DEF Build, Enter
<1>2. \/ plans' = plans
      \/ plans' = plans \cup {config} /\ ~Refused(config)
  BY DEF Build
<1>3. TypeOK'
  <2>1. plans' \in SUBSET Config
    BY <1>2 DEF IInv, TypeOK
  <2>2. calls' \in 0..MaxCalls
    BY <1>1, ConfigAssumption DEF IInv, TypeOK
  <2>3. started' \in BOOLEAN
    BY DEF Build
  <2> QED BY <1>1, <2>1, <2>2, <2>3 DEF IInv, TypeOK
<1>4. ConfigCompatible' /\ MultiCounted(config)'
  BY <1>1 DEF IInv, ConfigCompatible
<1>5. PlansAreSound'
  BY <1>2, UnrefusedIsSound DEF IInv, PlansAreSound
<1>6. \A c \in plans' : Settled(c) = Settled(config) /\ SameBatch(c, config)
  BY <1>2 DEF IInv, PlansKept, SameBatch
<1>7. PlansAgree'
  <2>1. ASSUME NEW c \in plans', NEW d \in plans'
        PROVE  Settled(c) = Settled(d) /\ SameBatch(c, d)
    <3>1. CASE c \in plans /\ d \in plans
      BY <3>1 DEF IInv, PlansAgree, SameBatch
    <3>2. CASE c = config \/ d = config
      BY <3>2, <1>6, <2>1 DEF SameBatch
    <3> QED BY <3>1, <3>2, <1>2
  <2> QED BY <2>1 DEF PlansAgree, SameBatch
<1>8. PlansKept'
  BY <1>1, <1>6 DEF PlansKept
<1> QED BY <1>3, <1>4, <1>5, <1>7, <1>8 DEF IInv

\* The setters of ordinary scans, one case each.
LEMMA SetScanIInv ==
  ASSUME IInv, SetScan
  PROVE  IInv'
<1>1. \A x \in {"auto_selection", "reading", "order", "output", "row_address",
                "sql_filter", "statistics"} :
        x \in Frozen \cup Free
  BY DEF Frozen, Free
<1>2. \A x \in {"batch_size", "row_id", "substrait"} : x \in Free
  BY DEF Free
<1>3. CASE SetScalarIndexAutoSelection
  BY <1>1, <1>3, TuneIInv DEF SetScalarIndexAutoSelection, NotStarted
<1>4. CASE SetReadTuning
  BY <1>1, <1>4, TuneIInv DEF SetReadTuning, NotStarted
<1>5. CASE SetScanOrder
  BY <1>1, <1>5, TuneIInv DEF SetScanOrder, NotStarted
<1>6. CASE SetOutput
  BY <1>1, <1>6, TuneIInv DEF SetOutput, NotStarted
<1>7. CASE WithRowAddress
  BY <1>1, <1>7, TuneIInv DEF WithRowAddress, NotStarted
<1>8. CASE AdditionalSqlFilter
  BY <1>1, <1>8, TuneIInv DEF AdditionalSqlFilter, NotStarted
<1>9. CASE SetStatisticsCallback
  BY <1>1, <1>9, TuneIInv DEF SetStatisticsCallback, NotStarted
<1>10. CASE SetBatchSize
  BY <1>2, <1>10, TuneIInv DEF SetBatchSize
<1>11. CASE WithRowId
  BY <1>2, <1>11, TuneIInv DEF WithRowId
<1>12. CASE SetSubstraitFilter
  BY <1>2, <1>12, TuneIInv DEF SetSubstraitFilter
<1>13. CASE SetLimit \/ SetOffset \/ SetBatchSizeBytes \/ SetRowAddrList
  BY <1>13, LimitIInv, OffsetIInv, BatchSizeBytesIInv, RowAddrListIInv
<1>14. ASSUME NEW on \in BOOLEAN,
              \/ SetScalarIndexSegment(on) \/ SetStrictBatchSize(on)
              \/ SetIncludeDeletedRows(on)
       PROVE  IInv'
  BY <1>14, ScalarSegmentIInv, StrictBatchSizeIInv, DeletedRowsIInv
<1>15. ASSUME NEW which \in {"empty", "some"}, SetFragmentIds(which)
       PROVE  IInv'
  BY <1>15, FragmentIdsIInv
<1> QED BY <1>3, <1>4, <1>5, <1>6, <1>7, <1>8, <1>9, <1>10, <1>11, <1>12,
           <1>13, <1>14, <1>15 DEF SetScan

\* The setters of searches, one case each.
LEMMA SetSearchesIInv ==
  ASSUME IInv, SetSearches
  PROVE  IInv'
<1>1. "search" \in Free /\ "prefilter" \in Free /\ "approximation" \in Frozen
  BY DEF Free, Frozen
<1>2. CASE SetApproximation
  BY <1>1, <1>2, TuneIInv DEF SetApproximation, NotStarted
<1>3. CASE SetSearch
  BY <1>1, <1>3, TuneIInv DEF SetSearch
<1>4. CASE SetPrefilter
  BY <1>1, <1>4, TuneIInv DEF SetPrefilter
<1>5. CASE FullTextSearch \/ SetFtsQueryContext
  BY <1>5, FullTextSearchIInv, SetFtsQueryContextIInv
<1>6. ASSUME NEW r \in Counts, SetRefineFactor(r) PROVE IInv'
  BY <1>6, RefineFactorIInv
<1>7. ASSUME NEW on \in BOOLEAN,
             \/ SetDistanceRange(on) \/ SetMetric(on)
             \/ SetIndexSegments(on) \/ SetFtsIndexSegments(on)
      PROVE  IInv'
  BY <1>7, DistanceRangeIInv, MetricIInv, IndexSegmentsIInv, FtsSegmentsIInv
<1>8. ASSUME NEW p \in Probes,
             SetNprobes(p) \/ SetMinimumNprobes(p) \/ SetMaximumNprobes(p)
      PROVE  IInv'
  BY <1>8, NprobesIInv, MinimumIInv, MaximumIInv
<1>9. ASSUME NEW k \in Counts, Nearest(k) PROVE IInv'
  BY <1>9, NearestIInv
<1>10. ASSUME NEW n \in Counts, NEW k \in Counts, NearestMultivector(n, k)
       PROVE  IInv'
  BY <1>10, NearestMultiIInv
<1>11. ASSUME NEW dim \in Dimensions, NEW n \in Counts, NEW k \in Counts,
              NearestBatch(dim, n, k)
       PROVE  IInv'
  BY <1>11, NearestBatchIInv
<1> QED BY <1>2, <1>3, <1>4, <1>5, <1>6, <1>7, <1>8, <1>9, <1>10, <1>11
        DEF SetSearches

\* Every call, and every stutter, preserves the invariant.
LEMMA NextIInv ==
  ASSUME IInv, [Next]_vars
  PROVE  IInv'
<1>1. CASE SetScan
  BY <1>1, SetScanIInv
<1>2. CASE SetSearches
  BY <1>2, SetSearchesIInv
<1>3. ASSUME NEW ok \in BOOLEAN, Export(ok) PROVE IInv'
  <2>1. stream' \in BOOLEAN
    BY <1>3 DEF Export, IInv, TypeOK
  <2> QED BY <1>3, <2>1, BuildIInv DEF Export
<1>4. ASSUME NEW ok \in BOOLEAN, Materialize(ok) PROVE IInv'
  <2>1. stream' \in BOOLEAN
    BY <1>4 DEF Materialize
  <2> QED BY <1>4, <2>1, BuildIInv DEF Materialize
<1>5. CASE Panic
  <2>1. /\ config' = config /\ started' = started /\ stream' = stream
        /\ plans' = plans /\ calls' = calls + 1 /\ calls < MaxCalls
    BY <1>5 DEF Panic, Enter
  <2>2. calls' \in 0..MaxCalls
    BY <2>1, ConfigAssumption DEF IInv, TypeOK
  <2>3. poisoned' \in BOOLEAN
    BY <1>5 DEF Panic
  <2>4. TypeOK'
    BY <2>1, <2>2, <2>3 DEF IInv, TypeOK
  <2> QED BY <2>1, <2>4 DEF IInv, ConfigCompatible, PlansAreSound,
             PlansAgree, PlansKept
<1>6. CASE UNCHANGED vars
  BY <1>6 DEF vars, IInv, TypeOK, ConfigCompatible, PlansAreSound,
     PlansAgree, PlansKept
<1> QED BY <1>1, <1>2, <1>3, <1>4, <1>5, <1>6 DEF Next

-----------------------------------------------------------------------------

\* The inductive invariant holds of every sequence of calls on a scanner.
THEOREM Invariance == Spec => []IInv
<1>1. Init => IInv
  BY InitIInv
<1>2. IInv /\ [Next]_vars => IInv'
  BY NextIInv
<1> QED BY <1>1, <1>2, PTL DEF Spec

\* The fields of LanceScanner keep their types; probe counts are never zero.
THEOREM TypeCorrect == Spec => []TypeOK
<1>1. IInv => TypeOK
  BY DEF IInv
<1> QED BY <1>1, Invariance, PTL

\* The rules kept by several setters hold after every sequence of them.
THEOREM ConfigRules == Spec => []ConfigCompatible
<1>1. IInv => ConfigCompatible
  BY DEF IInv
<1> QED BY <1>1, Invariance, PTL

\* build_scanner hands no configuration to Lance that breaks a rule.
THEOREM PlansSound == Spec => []PlansAreSound
<1>1. IInv => PlansAreSound
  BY DEF IInv
<1> QED BY <1>1, Invariance, PTL

\* Every stream of a scanner runs under the same guarded settings.
THEOREM PlansConsistent == Spec => []PlansAgree
<1>1. IInv => PlansAgree
  BY DEF IInv
<1> QED BY <1>1, Invariance, PTL

-----------------------------------------------------------------------------
(* Recursion and induction (ScalarSegment): the filter trees are walked by *)
(* recursive functions; the minimum of a set of naturals is all the        *)
(* induction they need.                                                    *)

\* Every set of naturals that is not empty has a least element.
LEMMA LeastNatural ==
  \A T \in SUBSET Nat : T # {} => \E n \in T : \A m \in T : n <= m
<1> SUFFICES ASSUME NEW T \in SUBSET Nat, T # {}
             PROVE  \E n \in T : \A m \in T : n <= m
  OBVIOUS
<1>1. PICK n \in T : \A m \in T : ~(<<m, n>> \in OpToRel(<, Nat))
  BY WFMin, NatLessThanWellFounded
<1>2. ASSUME NEW m \in T, ~(n <= m)
      PROVE  FALSE
  <2>1. m \in Nat /\ n \in Nat /\ m < n
    BY <1>2
  <2>2. <<m, n>> \in OpToRel(<, Nat)
    BY <2>1 DEF OpToRel
  <2> QED
    BY <1>1, <2>2
<1> QED
  BY <1>2

\* step[t][f] is in W[t] and depends only on what f says of the elements of S
\* of a smaller rank, for the functions f of F, which respect W.
IsRecursion(S, V, N, rank, W, F, step) ==
  /\ N \in Nat
  /\ rank \in [S -> 0..N]
  /\ W \in [S -> SUBSET V]
  /\ \A t \in S : W[t] # {}
  /\ F = {f \in [S -> V] : \A t \in S : f[t] \in W[t]}
  /\ \A t \in S : \A f \in F : step[t][f] \in W[t]
  /\ \A t \in S : \A f, g \in F :
       (\A u \in S : rank[u] < rank[t] => f[u] = g[u]) => step[t][f] = step[t][g]

\* Such a step has a fixed point.
LEMMA Recursion ==
  ASSUME NEW S, NEW V, NEW N, NEW rank, NEW W, NEW F, NEW step,
         IsRecursion(S, V, N, rank, W, F, step)
  PROVE  \E f \in F : \A t \in S : f[t] = step[t][f]
<1> USE DEF IsRecursion
<1> DEFINE Good(n) == \E f \in F : \A t \in S : rank[t] < n => f[t] = step[t][f]
<1>1. Good(0)
  <2> DEFINE f == [t \in S |-> CHOOSE v \in W[t] : TRUE]
  <2>1. \A t \in S : f[t] \in W[t] /\ f[t] \in V
    OBVIOUS
  <2>2. f \in F
    BY <2>1
  <2>3. \A t \in S : ~(rank[t] < 0)
    OBVIOUS
  <2> QED
    BY <2>2, <2>3
<1>2. ASSUME NEW n \in Nat, Good(n)
      PROVE  Good(n + 1)
  <2>1. PICK f \in F : \A t \in S : rank[t] < n => f[t] = step[t][f]
    BY <1>2
  <2> DEFINE g == [t \in S |-> step[t][f]]
  <2>2. g \in F
    OBVIOUS
  <2>3. ASSUME NEW t \in S, rank[t] < n + 1
        PROVE  g[t] = step[t][g]
    <3>1. \A u \in S : rank[u] < rank[t] => f[u] = g[u]
      <4>1. rank[t] \in Nat /\ \A u \in S : rank[u] \in Nat
        OBVIOUS
      <4>2. \A u \in S : rank[u] < rank[t] => rank[u] < n
        BY <2>3, <4>1
      <4> QED
        BY <2>1, <4>2
    <3>2. step[t][f] = step[t][g]
      BY <2>2, <3>1
    <3> QED
      BY <3>2
  <2> HIDE DEF g
  <2> QED
    BY <2>2, <2>3
<1> DEFINE B == {n \in Nat : ~Good(n)}
<1> HIDE DEF Good
<1>3. B = {}
  <2> SUFFICES ASSUME B # {}
               PROVE  FALSE
    OBVIOUS
  <2>1. PICK n \in B : \A m \in B : n <= m
    BY LeastNatural
  <2>2. n \in Nat /\ ~Good(n) /\ n # 0
    BY <1>1
  <2>3. n - 1 \in Nat /\ (n - 1) + 1 = n /\ ~(n <= n - 1)
    BY <2>2
  <2>4. n - 1 \notin B
    BY <2>1, <2>3
  <2>5. Good(n - 1)
    BY <2>3, <2>4
  <2>6. Good((n - 1) + 1)
    BY <1>2, <2>3, <2>5
  <2> QED
    BY <2>2, <2>3, <2>6
<1>4. Good(N + 1)
  <2>1. N + 1 \in Nat
    OBVIOUS
  <2> QED
    BY <1>3, <2>1
<1>5. \A t \in S : rank[t] < N + 1
  OBVIOUS
<1> QED
  BY <1>4, <1>5 DEF Good

\* What TreesAreTrees says of one tree.
LEMMA TreeCases ==
  \A t \in Trees :
    /\ Size[t] \in Nat /\ Size[t] <= MaxSize /\ Size[t] >= 1
    /\ t.op \in {"query", "not", "istrue", "and", "or"}
    /\ t.op = "query" => t.column \in Columns /\ t = Query(t.index, t.column)
    /\ t.op \in {"not", "istrue"} =>
         /\ t.arg \in Trees /\ Size[t] = 1 + Size[t.arg]
         /\ t = [op |-> t.op, arg |-> t.arg]
    /\ t.op \in {"and", "or"} =>
         /\ t.left \in Trees /\ t.right \in Trees
         /\ Size[t] = 1 + Size[t.left] + Size[t.right]
         /\ t = Join(t.op, t.left, t.right)
<1> SUFFICES ASSUME NEW t \in Trees
             PROVE  /\ Size[t] \in Nat /\ Size[t] <= MaxSize /\ Size[t] >= 1
                    /\ t.op \in {"query", "not", "istrue", "and", "or"}
                    /\ t.op = "query" => t.column \in Columns /\ t = Query(t.index, t.column)
                    /\ t.op \in {"not", "istrue"} =>
                         /\ t.arg \in Trees /\ Size[t] = 1 + Size[t.arg]
                         /\ t = [op |-> t.op, arg |-> t.arg]
                    /\ t.op \in {"and", "or"} =>
                         /\ t.left \in Trees /\ t.right \in Trees
                         /\ Size[t] = 1 + Size[t.left] + Size[t.right]
                         /\ t = Join(t.op, t.left, t.right)
  OBVIOUS
<1>1. Size[t] \in 1..MaxSize /\ MaxSize \in Nat
  BY TreesAreTrees
<1>2. Size[t] \in Nat /\ Size[t] <= MaxSize /\ Size[t] >= 1
  BY <1>1
<1>3. \/ /\ t.op = "query" /\ t.column \in Columns
         /\ t = Query(t.index, t.column)
      \/ /\ t.op \in {"not", "istrue"} /\ t.arg \in Trees
         /\ t = [op |-> t.op, arg |-> t.arg]
         /\ Size[t] = 1 + Size[t.arg]
      \/ /\ t.op \in {"and", "or"} /\ t.left \in Trees /\ t.right \in Trees
         /\ t = Join(t.op, t.left, t.right)
         /\ Size[t] = 1 + Size[t.left] + Size[t.right]
  BY TreesAreTrees
<1> HIDE DEF Query, Join
<1> QED
  BY <1>2, <1>3

\* The children of a tree are smaller trees.
LEMMA Children ==
  \A t \in Trees :
    /\ t.op \in {"not", "istrue"} => t.arg \in Trees /\ Size[t.arg] < Size[t]
    /\ t.op \in {"and", "or"} => /\ t.left \in Trees /\ Size[t.left] < Size[t]
                                 /\ t.right \in Trees /\ Size[t.right] < Size[t]
<1> TAKE t \in Trees
<1>1. CASE t.op \in {"not", "istrue"}
  <2>1. t.arg \in Trees /\ Size[t] = 1 + Size[t.arg]
    BY <1>1, TreeCases
  <2>2. Size[t.arg] \in Nat
    BY <2>1, TreeCases
  <2> QED
    BY <1>1, <2>1, <2>2
<1>2. CASE t.op \in {"and", "or"}
  <2>1. t.left \in Trees /\ t.right \in Trees /\ Size[t] = 1 + Size[t.left] + Size[t.right]
    BY <1>2, TreeCases
  <2>2. Size[t.left] \in Nat /\ Size[t.right] \in Nat
    BY <2>1, TreeCases
  <2> QED
    BY <1>2, <2>1, <2>2
<1> QED
  BY <1>1, <1>2

\* A set of trees that contains every tree whose smaller trees it contains
\* contains all trees.
LEMMA TreeInduction ==
  ASSUME NEW G,
         \A t \in Trees : (\A u \in Trees : Size[u] < Size[t] => u \in G) => t \in G
  PROVE  Trees \subseteq G
<1> SUFFICES ASSUME NEW x \in Trees, x \notin G
             PROVE  FALSE
  OBVIOUS
<1> DEFINE T == {Size[t] : t \in {u \in Trees : u \notin G}}
<1>1. T \in SUBSET Nat
  BY TreeCases
<1>2. T # {}
  OBVIOUS
<1>3. PICK n \in T : \A m \in T : n <= m
  BY <1>1, <1>2, LeastNatural
<1>4. PICK t \in Trees : t \notin G /\ n = Size[t]
  BY <1>3
<1>5. PICK u \in Trees : Size[u] < Size[t] /\ u \notin G
  BY <1>4
<1>6. n <= Size[u]
  BY <1>3, <1>5
<1>7. Size[u] \in Nat /\ Size[t] \in Nat
  BY TreeCases
<1> QED
  BY <1>4, <1>5, <1>6, <1>7

\* The size of a tree as the measure its functions recurse on.
LEMMA SizeIsRank == MaxSize \in Nat /\ Size \in [Trees -> 0..MaxSize]
<1>1. MaxSize \in Nat /\ Size \in [Trees -> 1..MaxSize]
  BY TreesAreTrees
<1>2. \A t \in Trees : Size[t] \in 0..MaxSize
  BY <1>1
<1> QED
  BY <1>1, <1>2

\* The values of the predicates of a row.
Rows == [Columns -> Truth]

\* The right side of the definition of Value.
ValueBody(f, t, val) ==
  CASE t.op = "query" -> val[t.column]
    [] t.op = "not" -> Negation(f[t.arg][val])
    [] t.op = "istrue" -> IF f[t.arg][val] = "T" THEN "T" ELSE "F"
    [] t.op = "and" -> Conjunction(f[t.left][val], f[t.right][val])
    [] OTHER -> Negation(Conjunction(Negation(f[t.left][val]),
                                      Negation(f[t.right][val])))

\* The connectives map truth values to truth values.
LEMMA Connectives ==
  \A v, w \in Truth : Negation(v) \in Truth /\ Conjunction(v, w) \in Truth
BY DEF Truth, Negation, Conjunction

\* A body is worth a truth value when the children are.
LEMMA ValueBodyType ==
  ASSUME NEW f, NEW t \in Trees,
         \A u \in Trees : Size[u] < Size[t] => f[u] \in [Rows -> Truth]
  PROVE  \A val \in Rows : ValueBody(f, t, val) \in Truth
<1> TAKE val \in Rows
<1>1. /\ t.op \in {"not", "istrue"} => f[t.arg][val] \in Truth
      /\ t.op \in {"and", "or"} => f[t.left][val] \in Truth /\ f[t.right][val] \in Truth
  BY Children
<1>2. t.op = "query" => val[t.column] \in Truth
  BY TreeCases DEF Rows
<1>3. t.op \in {"query", "not", "istrue", "and", "or"}
  BY TreeCases
<1>4. "T" \in Truth /\ "F" \in Truth
  BY DEF Truth
<1> QED
  BY <1>1, <1>2, <1>3, <1>4, Connectives DEF ValueBody

\* A body depends on the children only.
LEMMA ValueBodyDepends ==
  ASSUME NEW f, NEW g, NEW t \in Trees,
         \A u \in Trees : Size[u] < Size[t] => f[u] = g[u]
  PROVE  \A val \in Rows : ValueBody(f, t, val) = ValueBody(g, t, val)
<1> TAKE val \in Rows
<1>1. /\ t.op \in {"not", "istrue"} => f[t.arg] = g[t.arg]
      /\ t.op \in {"and", "or"} => f[t.left] = g[t.left] /\ f[t.right] = g[t.right]
  BY Children
<1>2. t.op \in {"query", "not", "istrue", "and", "or"}
  BY TreeCases
<1> QED
  BY <1>1, <1>2 DEF ValueBody

\* What it means for f to be defined by the recursion.
ValueFixed(f) == f = [t \in Trees |-> [val \in Rows |-> ValueBody(f, t, val)]]

\* The recursion defines a function.
LEMMA ValueExists == \E f : ValueFixed(f)
<1> DEFINE V == [Rows -> Truth]
           W == [t \in Trees |-> V]
           F == {f \in [Trees -> V] : \A t \in Trees : f[t] \in W[t]}
           step == [t \in Trees |-> [f \in F |-> [val \in Rows |-> ValueBody(f, t, val)]]]
<1>1. W \in [Trees -> SUBSET V] /\ \A t \in Trees : W[t] # {}
  <2>1. [val \in Rows |-> "T"] \in V
    BY DEF Truth
  <2> QED
    BY <2>1
<1>2. \A t \in Trees : \A f \in F : step[t][f] \in W[t]
  <2> TAKE t \in Trees
  <2> TAKE f \in F
  <2>1. \A u \in Trees : f[u] \in [Rows -> Truth]
    OBVIOUS
  <2> HIDE DEF F
  <2>2. \A val \in Rows : ValueBody(f, t, val) \in Truth
    BY <2>1, ValueBodyType
  <2> QED
    BY <2>2
<1>3. \A t \in Trees : \A f, g \in F :
        (\A u \in Trees : Size[u] < Size[t] => f[u] = g[u]) => step[t][f] = step[t][g]
  <2> HIDE DEF F
  <2> TAKE t \in Trees
  <2> TAKE f, g \in F
  <2> HAVE \A u \in Trees : Size[u] < Size[t] => f[u] = g[u]
  <2>1. \A val \in Rows : ValueBody(f, t, val) = ValueBody(g, t, val)
    BY ValueBodyDepends
  <2> QED
    BY <2>1
<1>4. \E f \in F : \A t \in Trees : f[t] = step[t][f]
  <2>1. F = {f \in [Trees -> V] : \A t \in Trees : f[t] \in W[t]}
    OBVIOUS
  <2> HIDE DEF step, W, V, F
  <2>2. IsRecursion(Trees, V, MaxSize, Size, W, F, step)
    BY <1>1, <1>2, <1>3, <2>1, SizeIsRank DEF IsRecursion
  <2> QED
    BY <2>2, Recursion
<1>5. PICK f \in F : \A t \in Trees : f[t] = step[t][f]
  BY <1>4
<1>6. f \in [Trees -> V]
  OBVIOUS
<1>7. \A t \in Trees : f[t] = [val \in Rows |-> ValueBody(f, t, val)]
  BY <1>5
<1> QED
  BY <1>6, <1>7 DEF ValueFixed

\* The value of a tree is what the values of its children make of it.
LEMMA ValueDef ==
  /\ Value \in [Trees -> [Rows -> Truth]]
  /\ \A t \in Trees : \A val \in Rows : Value[t][val] = ValueBody(Value, t, val)
<1>1. ValueFixed(CHOOSE f : ValueFixed(f))
  BY ValueExists
<1>2. Value = (CHOOSE f : ValueFixed(f))
  BY DEF Value, ValueFixed, ValueBody, Rows
<1>3. Value = [t \in Trees |-> [val \in Rows |-> ValueBody(Value, t, val)]]
  BY <1>1, <1>2 DEF ValueFixed
<1> DEFINE G == {t \in Trees : Value[t] \in [Rows -> Truth]}
<1>4. \A t \in Trees : (\A u \in Trees : Size[u] < Size[t] => u \in G) => t \in G
  <2> TAKE t \in Trees
  <2> HAVE \A u \in Trees : Size[u] < Size[t] => u \in G
  <2>1. \A val \in Rows : ValueBody(Value, t, val) \in Truth
    BY ValueBodyType
  <2>2. Value[t] = [val \in Rows |-> ValueBody(Value, t, val)]
    BY <1>3
  <2> QED
    BY <2>1, <2>2
<1>5. Trees \subseteq G
  <2> HIDE DEF G
  <2> QED
    BY <1>4, TreeInduction
<1> QED
  BY <1>3, <1>5

-----------------------------------------------------------------------------
\* The negation of a tree that leaves room for a node.
LEMMA NotIsTree ==
  \A u \in Trees : Size[u] < MaxSize =>
    /\ Not(u) \in Trees /\ Size[Not(u)] = 1 + Size[u]
    /\ Not(u).op = "not" /\ Not(u).arg = u
<1> TAKE u \in Trees
<1> HAVE Size[u] < MaxSize
<1>1. Not(u) \in Trees
  BY TreesAreClosed
<1>2. Not(u).op = "not" /\ Not(u).arg = u
  BY DEF Not
<1> HIDE DEF Not
<1> QED
  BY <1>1, <1>2, TreeCases

\* The AND and OR of two trees that fit together.
LEMMA JoinIsTree ==
  \A u, w \in Trees : \A op \in {"and", "or"} : 1 + Size[u] + Size[w] <= MaxSize =>
    /\ Join(op, u, w) \in Trees /\ Size[Join(op, u, w)] = 1 + Size[u] + Size[w]
    /\ Join(op, u, w).op = op /\ Join(op, u, w).left = u /\ Join(op, u, w).right = w
<1> TAKE u, w \in Trees
<1> TAKE op \in {"and", "or"}
<1> HAVE 1 + Size[u] + Size[w] <= MaxSize
<1>1. Join(op, u, w) \in Trees
  BY TreesAreClosed
<1>2. Join(op, u, w).op = op /\ Join(op, u, w).left = u /\ Join(op, u, w).right = w
  BY DEF Join
<1> HIDE DEF Join
<1> QED
  BY <1>1, <1>2, TreeCases

-----------------------------------------------------------------------------
\* The right side of the definition of Subtrees.
SubtreesBody(f, t) ==
  CASE t.op = "query" -> {t}
    [] t.op \in {"not", "istrue"} -> {t} \cup f[t.arg]
    [] OTHER -> {t} \cup f[t.left] \cup f[t.right]

\* A body is a set of trees when the sets of the children are.
LEMMA SubtreesBodyType ==
  ASSUME NEW f, NEW t \in Trees,
         \A u \in Trees : Size[u] < Size[t] => f[u] \in SUBSET Trees
  PROVE  SubtreesBody(f, t) \in SUBSET Trees
<1>1. /\ t.op \in {"not", "istrue"} => f[t.arg] \subseteq Trees
      /\ t.op \in {"and", "or"} => f[t.left] \subseteq Trees /\ f[t.right] \subseteq Trees
  BY Children
<1>2. t.op \in {"query", "not", "istrue", "and", "or"}
  BY TreeCases
<1> QED
  BY <1>1, <1>2 DEF SubtreesBody

\* A body depends on the children only.
LEMMA SubtreesBodyDepends ==
  ASSUME NEW f, NEW g, NEW t \in Trees,
         \A u \in Trees : Size[u] < Size[t] => f[u] = g[u]
  PROVE  SubtreesBody(f, t) = SubtreesBody(g, t)
<1>1. /\ t.op \in {"not", "istrue"} => f[t.arg] = g[t.arg]
      /\ t.op \in {"and", "or"} => f[t.left] = g[t.left] /\ f[t.right] = g[t.right]
  BY Children
<1>2. t.op \in {"query", "not", "istrue", "and", "or"}
  BY TreeCases
<1> QED
  BY <1>1, <1>2 DEF SubtreesBody

\* What it means for f to be defined by the recursion.
SubtreesFixed(f) == f = [t \in Trees |-> SubtreesBody(f, t)]

\* The recursion defines a function.
LEMMA SubtreesExists == \E f : SubtreesFixed(f)
<1> DEFINE V == SUBSET Trees
           W == [t \in Trees |-> V]
           F == {f \in [Trees -> V] : \A t \in Trees : f[t] \in W[t]}
           step == [t \in Trees |-> [f \in F |-> SubtreesBody(f, t)]]
<1>1. W \in [Trees -> SUBSET V] /\ \A t \in Trees : W[t] # {}
  OBVIOUS
<1>2. \A t \in Trees : \A f \in F : step[t][f] \in W[t]
  <2> TAKE t \in Trees
  <2> TAKE f \in F
  <2>1. \A u \in Trees : f[u] \in SUBSET Trees
    OBVIOUS
  <2> HIDE DEF F
  <2>2. SubtreesBody(f, t) \in SUBSET Trees
    BY <2>1, SubtreesBodyType
  <2> QED
    BY <2>2
<1>3. \A t \in Trees : \A f, g \in F :
        (\A u \in Trees : Size[u] < Size[t] => f[u] = g[u]) => step[t][f] = step[t][g]
  <2> HIDE DEF F
  <2> TAKE t \in Trees
  <2> TAKE f, g \in F
  <2> HAVE \A u \in Trees : Size[u] < Size[t] => f[u] = g[u]
  <2>1. SubtreesBody(f, t) = SubtreesBody(g, t)
    BY SubtreesBodyDepends
  <2> QED
    BY <2>1
<1>4. \E f \in F : \A t \in Trees : f[t] = step[t][f]
  <2>1. F = {f \in [Trees -> V] : \A t \in Trees : f[t] \in W[t]}
    OBVIOUS
  <2> HIDE DEF step, W, V, F
  <2>2. IsRecursion(Trees, V, MaxSize, Size, W, F, step)
    BY <1>1, <1>2, <1>3, <2>1, SizeIsRank DEF IsRecursion
  <2> QED
    BY <2>2, Recursion
<1>5. PICK f \in F : \A t \in Trees : f[t] = step[t][f]
  BY <1>4
<1>6. f \in [Trees -> V]
  OBVIOUS
<1>7. \A t \in Trees : f[t] = SubtreesBody(f, t)
  BY <1>5
<1> QED
  BY <1>6, <1>7 DEF SubtreesFixed

\* The nodes of a tree are its root and the nodes of its children.
LEMMA SubtreesDef ==
  /\ Subtrees \in [Trees -> SUBSET Trees]
  /\ \A t \in Trees : Subtrees[t] = SubtreesBody(Subtrees, t)
<1>1. SubtreesFixed(CHOOSE f : SubtreesFixed(f))
  BY SubtreesExists
<1>2. Subtrees = (CHOOSE f : SubtreesFixed(f))
  BY DEF Subtrees, SubtreesFixed, SubtreesBody
<1>3. Subtrees = [t \in Trees |-> SubtreesBody(Subtrees, t)]
  BY <1>1, <1>2 DEF SubtreesFixed
<1> DEFINE G == {t \in Trees : Subtrees[t] \in SUBSET Trees}
<1>4. \A t \in Trees : (\A u \in Trees : Size[u] < Size[t] => u \in G) => t \in G
  <2> TAKE t \in Trees
  <2> HAVE \A u \in Trees : Size[u] < Size[t] => u \in G
  <2>1. SubtreesBody(Subtrees, t) \in SUBSET Trees
    BY SubtreesBodyType
  <2>2. Subtrees[t] = SubtreesBody(Subtrees, t)
    BY <1>3
  <2> QED
    BY <2>1, <2>2
<1>5. Trees \subseteq G
  <2> HIDE DEF G
  <2> QED
    BY <1>4, TreeInduction
<1> QED
  BY <1>3, <1>5

\* The same, case by case.
LEMMA SubtreesCases ==
  \A t \in Trees :
    /\ Subtrees[t] \subseteq Trees
    /\ t.op = "query" => Subtrees[t] = {t}
    /\ t.op \in {"not", "istrue"} => Subtrees[t] = {t} \cup Subtrees[t.arg]
    /\ t.op \in {"and", "or"} =>
         Subtrees[t] = {t} \cup Subtrees[t.left] \cup Subtrees[t.right]
BY SubtreesDef DEF SubtreesBody

\* The parts of an index expression are index expressions.
LEMMA IndexExprParts ==
  \A t \in IndexExprs :
    /\ t \in Trees /\ t.op \in {"query", "not", "and", "or"}
    /\ t.op = "not" => t.arg \in IndexExprs
    /\ t.op \in {"and", "or"} => t.left \in IndexExprs /\ t.right \in IndexExprs
<1> TAKE t \in IndexExprs
<1>1. t \in Trees /\ \A u \in Subtrees[t] : u.op # "istrue"
  BY DEF IndexExprs, HasTruthTest
<1>2. t \in Subtrees[t]
  BY <1>1, TreeCases, SubtreesCases
<1>3. t.op \in {"query", "not", "and", "or"}
  BY <1>1, <1>2, TreeCases
<1>4. CASE t.op = "query"
  BY <1>1, <1>4
<1>5. CASE t.op = "not"
  <2>1. t.arg \in Trees /\ Subtrees[t.arg] \subseteq Subtrees[t]
    BY <1>1, <1>5, Children, SubtreesCases
  <2> QED
    BY <1>1, <1>5, <2>1 DEF IndexExprs, HasTruthTest
<1>6. CASE t.op \in {"and", "or"}
  <2>1. /\ t.left \in Trees /\ Subtrees[t.left] \subseteq Subtrees[t]
        /\ t.right \in Trees /\ Subtrees[t.right] \subseteq Subtrees[t]
    BY <1>1, <1>6, Children, SubtreesCases
  <2>2. t.left \in IndexExprs /\ t.right \in IndexExprs
    BY <1>1, <2>1 DEF IndexExprs, HasTruthTest
  <2> QED
    BY <1>1, <1>6, <2>2
<1> QED
  BY <1>3, <1>4, <1>5, <1>6

\* The negation of an index expression is one.
LEMMA NotIsIndexExpr ==
  \A u \in IndexExprs : Size[u] < MaxSize => Not(u) \in IndexExprs
<1> TAKE u \in IndexExprs
<1> HAVE Size[u] < MaxSize
<1>1. u \in Trees /\ \A w \in Subtrees[u] : w.op # "istrue"
  BY DEF IndexExprs, HasTruthTest
<1>2. Not(u) \in Trees /\ Not(u).op = "not" /\ Subtrees[Not(u)] = {Not(u)} \cup Subtrees[u]
  BY <1>1, NotIsTree, SubtreesCases
<1> HIDE DEF Not
<1> QED
  BY <1>1, <1>2 DEF IndexExprs, HasTruthTest

\* The AND and OR of index expressions are index expressions.
LEMMA JoinIsIndexExpr ==
  \A u, w \in IndexExprs : \A op \in {"and", "or"} :
    1 + Size[u] + Size[w] <= MaxSize => Join(op, u, w) \in IndexExprs
<1> TAKE u, w \in IndexExprs
<1> TAKE op \in {"and", "or"}
<1> HAVE 1 + Size[u] + Size[w] <= MaxSize
<1>1. /\ u \in Trees /\ \A x \in Subtrees[u] : x.op # "istrue"
      /\ w \in Trees /\ \A x \in Subtrees[w] : x.op # "istrue"
  BY DEF IndexExprs, HasTruthTest
<1>2. /\ Join(op, u, w) \in Trees /\ Join(op, u, w).op = op
      /\ Subtrees[Join(op, u, w)] = {Join(op, u, w)} \cup Subtrees[u] \cup Subtrees[w]
  BY <1>1, JoinIsTree, SubtreesCases
<1> HIDE DEF Join
<1> QED
  BY <1>1, <1>2 DEF IndexExprs, HasTruthTest

-----------------------------------------------------------------------------
\* The right side of the definition of Lowered.
LoweredBody(f, t) ==
  CASE t.op = "query" -> t
    [] t.op = "not" -> Not(f[t.arg])
    [] t.op = "istrue" -> f[t.arg]
    [] OTHER -> Join(t.op, f[t.left], f[t.right])

\* Trees no larger than t.
UpTo(t) == {u \in Trees : Size[u] <= Size[t]}

\* Planning adds no node.
LEMMA LoweredBodyType ==
  ASSUME NEW f, NEW t \in Trees,
         \A u \in Trees : Size[u] < Size[t] => f[u] \in UpTo(u)
  PROVE  LoweredBody(f, t) \in UpTo(t)
<1>1. \A u \in Trees : Size[u] \in Nat
  BY TreeCases
<1>2. Size[t] <= MaxSize /\ MaxSize \in Nat
  BY TreeCases, TreesAreTrees
<1>3. CASE t.op = "query"
  BY <1>1, <1>3 DEF LoweredBody, UpTo
<1>4. CASE t.op \in {"not", "istrue"}
  <2>1. t.arg \in Trees /\ Size[t] = 1 + Size[t.arg] /\ f[t.arg] \in UpTo(t.arg)
    BY <1>4, TreeCases, Children
  <2>2. f[t.arg] \in Trees /\ Size[f[t.arg]] <= Size[t.arg]
    BY <2>1 DEF UpTo
  <2>3. Size[f[t.arg]] < MaxSize /\ 1 + Size[f[t.arg]] <= Size[t] /\ Size[f[t.arg]] <= Size[t]
    BY <1>1, <1>2, <2>1, <2>2
  <2>4. Not(f[t.arg]) \in Trees /\ Size[Not(f[t.arg])] = 1 + Size[f[t.arg]]
    BY <2>2, <2>3, NotIsTree
  <2>5. Not(f[t.arg]) \in UpTo(t) /\ f[t.arg] \in UpTo(t)
    BY <2>2, <2>3, <2>4 DEF UpTo
  <2> QED
    BY <1>4, <2>5 DEF LoweredBody
<1>5. CASE t.op \in {"and", "or"}
  <2>1. /\ t.left \in Trees /\ f[t.left] \in UpTo(t.left)
        /\ t.right \in Trees /\ f[t.right] \in UpTo(t.right)
        /\ Size[t] = 1 + Size[t.left] + Size[t.right]
    BY <1>5, TreeCases, Children
  <2>2. /\ f[t.left] \in Trees /\ Size[f[t.left]] <= Size[t.left]
        /\ f[t.right] \in Trees /\ Size[f[t.right]] <= Size[t.right]
    BY <2>1 DEF UpTo
  <2>3. /\ 1 + Size[f[t.left]] + Size[f[t.right]] <= Size[t]
        /\ 1 + Size[f[t.left]] + Size[f[t.right]] <= MaxSize
    <3>1. /\ Size[f[t.left]] \in Nat /\ Size[f[t.right]] \in Nat
          /\ Size[t.left] \in Nat /\ Size[t.right] \in Nat /\ Size[t] \in Nat
      BY <1>1, <2>1, <2>2
    <3> QED
      BY <1>2, <2>1, <2>2, <3>1
  <2>4. /\ Join(t.op, f[t.left], f[t.right]) \in Trees
        /\ Size[Join(t.op, f[t.left], f[t.right])] = 1 + Size[f[t.left]] + Size[f[t.right]]
    BY <1>5, <2>2, <2>3, JoinIsTree
  <2>5. Join(t.op, f[t.left], f[t.right]) \in UpTo(t)
    BY <2>3, <2>4 DEF UpTo
  <2> QED
    BY <1>5, <2>5 DEF LoweredBody
<1> QED
  BY <1>3, <1>4, <1>5, TreeCases

\* A body depends on the children only.
LEMMA LoweredBodyDepends ==
  ASSUME NEW f, NEW g, NEW t \in Trees,
         \A u \in Trees : Size[u] < Size[t] => f[u] = g[u]
  PROVE  LoweredBody(f, t) = LoweredBody(g, t)
<1>1. /\ t.op \in {"not", "istrue"} => f[t.arg] = g[t.arg]
      /\ t.op \in {"and", "or"} => f[t.left] = g[t.left] /\ f[t.right] = g[t.right]
  BY Children
<1>2. t.op \in {"query", "not", "istrue", "and", "or"}
  BY TreeCases
<1> QED
  BY <1>1, <1>2 DEF LoweredBody

\* What it means for f to be defined by the recursion.
LoweredFixed(f) == f = [t \in Trees |-> LoweredBody(f, t)]

\* The recursion defines a function.
LEMMA LoweredExists == \E f : LoweredFixed(f)
<1> DEFINE W == [t \in Trees |-> UpTo(t)]
           F == {f \in [Trees -> Trees] : \A t \in Trees : f[t] \in W[t]}
           step == [t \in Trees |-> [f \in F |-> LoweredBody(f, t)]]
<1>1. W \in [Trees -> SUBSET Trees] /\ \A t \in Trees : W[t] # {}
  <2>1. \A t \in Trees : t \in UpTo(t) /\ UpTo(t) \subseteq Trees
    BY TreeCases DEF UpTo
  <2> QED
    BY <2>1
<1>2. \A t \in Trees : \A f \in F : step[t][f] \in W[t]
  <2> TAKE t \in Trees
  <2> TAKE f \in F
  <2>1. \A u \in Trees : f[u] \in UpTo(u)
    OBVIOUS
  <2> HIDE DEF F
  <2>2. LoweredBody(f, t) \in UpTo(t)
    BY <2>1, LoweredBodyType
  <2> QED
    BY <2>2
<1>3. \A t \in Trees : \A f, g \in F :
        (\A u \in Trees : Size[u] < Size[t] => f[u] = g[u]) => step[t][f] = step[t][g]
  <2> HIDE DEF F
  <2> TAKE t \in Trees
  <2> TAKE f, g \in F
  <2> HAVE \A u \in Trees : Size[u] < Size[t] => f[u] = g[u]
  <2>1. LoweredBody(f, t) = LoweredBody(g, t)
    BY LoweredBodyDepends
  <2> QED
    BY <2>1
<1>4. \E f \in F : \A t \in Trees : f[t] = step[t][f]
  <2>1. F = {f \in [Trees -> Trees] : \A t \in Trees : f[t] \in W[t]}
    OBVIOUS
  <2> HIDE DEF step, W, F
  <2>2. IsRecursion(Trees, Trees, MaxSize, Size, W, F, step)
    BY <1>1, <1>2, <1>3, <2>1, SizeIsRank DEF IsRecursion
  <2> QED
    BY <2>2, Recursion
<1>5. PICK f \in F : \A t \in Trees : f[t] = step[t][f]
  BY <1>4
<1>6. f \in [Trees -> Trees]
  OBVIOUS
<1>7. \A t \in Trees : f[t] = LoweredBody(f, t)
  BY <1>5
<1> QED
  BY <1>6, <1>7 DEF LoweredFixed

\* A planned tree is built of its planned children.
LEMMA LoweredDef == \A t \in Trees : Lowered[t] = LoweredBody(Lowered, t)
<1>1. LoweredFixed(CHOOSE f : LoweredFixed(f))
  BY LoweredExists
<1>2. Lowered = (CHOOSE f : LoweredFixed(f))
  BY DEF Lowered, LoweredFixed, LoweredBody
<1>3. Lowered = [t \in Trees |-> LoweredBody(Lowered, t)]
  BY <1>1, <1>2 DEF LoweredFixed
<1> QED
  BY <1>3

\* Planning changes nothing but truth tests.
LEMMA LoweredKeepsIndexExprs == \A t \in IndexExprs : Lowered[t] = t
<1> DEFINE G == {t \in Trees : t \in IndexExprs => Lowered[t] = t}
<1>1. \A t \in Trees : (\A u \in Trees : Size[u] < Size[t] => u \in G) => t \in G
  <2> SUFFICES ASSUME NEW t \in Trees, \A u \in Trees : Size[u] < Size[t] => u \in G,
                      t \in IndexExprs
               PROVE  Lowered[t] = t
    OBVIOUS
  <2>1. \A u \in IndexExprs : Size[u] < Size[t] => Lowered[u] = u
    BY IndexExprParts
  <2>2. Lowered[t] = LoweredBody(Lowered, t)
    BY LoweredDef
  <2>3. CASE t.op = "query"
    BY <2>2, <2>3 DEF LoweredBody
  <2>4. CASE t.op = "not"
    <3>1. Lowered[t.arg] = t.arg
      BY <2>1, <2>4, Children, IndexExprParts
    <3>2. t = [op |-> t.op, arg |-> t.arg]
      BY <2>4, TreeCases
    <3> QED
      BY <2>2, <2>4, <3>1, <3>2 DEF LoweredBody, Not
  <2>5. CASE t.op \in {"and", "or"}
    <3>1. Lowered[t.left] = t.left /\ Lowered[t.right] = t.right
      BY <2>1, <2>5, Children, IndexExprParts
    <3>2. t = Join(t.op, t.left, t.right)
      BY <2>5, TreeCases
    <3> QED
      BY <2>2, <2>5, <3>1, <3>2 DEF LoweredBody
  <2> QED
    BY <2>3, <2>4, <2>5, IndexExprParts
<1>2. Trees \subseteq G
  <2> HIDE DEF G
  <2> QED
    BY <1>1, TreeInduction
<1> QED
  BY <1>2, IndexExprParts

-----------------------------------------------------------------------------
\* The right side of the definition of Scoped.
ScopedBody(f, q) ==
  IF q.depth > MaxDepth \/ q.left = 0
  THEN Rejected("expression_budget", q.left)
  ELSE CASE q.tree.op = "query" -> ScopedQuery(q.tree, q.segment, q.left - 1)
         [] q.tree.op = "not" ->
              ScopedNot(f[Child(q, q.tree.arg, "whole", q.left - 1)])
         [] OTHER ->
              ScopedJoin(q, f[Child(q, q.tree.left, q.need, q.left - 1)],
                         f[Child(q, q.tree.right, q.need,
                                 f[Child(q, q.tree.left, q.need, q.left - 1)].left)])

\* What may be found: an index expression or nothing.
Exprs == IndexExprs \cup {Nothing}
Results == [expr : Exprs, left : Nat,
            err : {"none", "expression_budget", "field_path"}]

\* What may be found for a request: no more nodes than asked of, and nothing
\* with an error.
ResultsFor(q) ==
  {r \in Results : /\ r.expr # Nothing => Size[r.expr] <= Size[q.tree]
                   /\ r.err # "none" => r.expr = Nothing}

\* The fields of a request.
LEMMA RequestFields ==
  \A q \in Requests :
    /\ q.segment \in Segments /\ q.tree \in IndexExprs /\ q.tree \in Trees
    /\ q.need \in {"whole", "part"} /\ q.depth \in Nat /\ q.left \in Nat
BY IndexExprParts DEF Requests

\* The request for a child of a tree.
LEMMA ChildIsRequest ==
  \A q \in Requests : \A t \in IndexExprs, need \in {"whole", "part"}, left \in Nat :
    /\ Child(q, t, need, left) \in Requests
    /\ Child(q, t, need, left).tree = t
    /\ Child(q, t, need, left).need = need
    /\ Child(q, t, need, left).segment = q.segment
    /\ Child(q, t, need, left).left = left
<1> TAKE q \in Requests
<1> TAKE t \in IndexExprs, need \in {"whole", "part"}, left \in Nat
<1>1. q.segment \in Segments /\ q.depth + 1 \in Nat
  BY RequestFields
<1> QED
  BY <1>1 DEF Child, Requests

\* The fields of a result.
LEMMA ResultFields ==
  \A q \in Requests : \A r \in ResultsFor(q) :
    /\ r.expr \in Exprs /\ r.left \in Nat
    /\ r.err \in {"none", "expression_budget", "field_path"}
    /\ r.expr # Nothing => /\ r.expr \in IndexExprs /\ r.expr \in Trees
                           /\ Size[r.expr] <= Size[q.tree]
    /\ r.err # "none" => r.expr = Nothing
BY IndexExprParts DEF ResultsFor, Results, Exprs

\* The ways to make a result.
LEMMA MakeResult ==
  \A q \in Requests : \A left \in Nat :
    /\ \A e \in Exprs : (e # Nothing => Size[e] <= Size[q.tree])
         => Found(e, left) \in ResultsFor(q)
    /\ \A err \in {"expression_budget", "field_path"} : Rejected(err, left) \in ResultsFor(q)
BY DEF ResultsFor, Results, Exprs, Found, Rejected

\* The requests a body makes of f when the budget allows.
LEMMA Branches ==
  \A q \in Requests : q.left # 0 =>
    /\ q.left - 1 \in Nat
    /\ q.tree.op = "not" =>
         LET p == Child(q, q.tree.arg, "whole", q.left - 1)
         IN  /\ p \in Requests /\ p.tree = q.tree.arg /\ Size[p.tree] < Size[q.tree]
             /\ p.need = "whole" /\ p.segment = q.segment
    /\ q.tree.op \in {"and", "or"} => \A n \in Nat :
         /\ LET p == Child(q, q.tree.left, q.need, n)
            IN  /\ p \in Requests /\ p.tree = q.tree.left /\ Size[p.tree] < Size[q.tree]
                /\ p.need = q.need /\ p.segment = q.segment
         /\ LET p == Child(q, q.tree.right, q.need, n)
            IN  /\ p \in Requests /\ p.tree = q.tree.right /\ Size[p.tree] < Size[q.tree]
                /\ p.need = q.need /\ p.segment = q.segment
<1> TAKE q \in Requests
<1> HAVE q.left # 0
<1>1. q.tree \in IndexExprs /\ q.tree \in Trees /\ q.need \in {"whole", "part"}
  BY RequestFields
<1>2. q.left - 1 \in Nat
  BY RequestFields
<1>3. ASSUME q.tree.op = "not"
      PROVE  LET p == Child(q, q.tree.arg, "whole", q.left - 1)
             IN  /\ p \in Requests /\ p.tree = q.tree.arg /\ Size[p.tree] < Size[q.tree]
                 /\ p.need = "whole" /\ p.segment = q.segment
  <2>1. q.tree.arg \in IndexExprs /\ Size[q.tree.arg] < Size[q.tree]
    BY <1>1, <1>3, Children, IndexExprParts
  <2> DEFINE t == q.tree.arg
             n == q.left - 1
  <2>2. t \in IndexExprs /\ n \in Nat
    BY <1>2, <2>1
  <2> HIDE DEF t, n
  <2>3. /\ Child(q, t, "whole", n) \in Requests /\ Child(q, t, "whole", n).tree = t
        /\ Child(q, t, "whole", n).need = "whole"
        /\ Child(q, t, "whole", n).segment = q.segment
    BY <2>2, ChildIsRequest
  <2> QED
    BY <2>1, <2>3 DEF t, n
<1>4. ASSUME q.tree.op \in {"and", "or"}, NEW n \in Nat
      PROVE  /\ LET p == Child(q, q.tree.left, q.need, n)
                IN  /\ p \in Requests /\ p.tree = q.tree.left /\ Size[p.tree] < Size[q.tree]
                    /\ p.need = q.need /\ p.segment = q.segment
             /\ LET p == Child(q, q.tree.right, q.need, n)
                IN  /\ p \in Requests /\ p.tree = q.tree.right /\ Size[p.tree] < Size[q.tree]
                    /\ p.need = q.need /\ p.segment = q.segment
  <2>1. /\ q.tree.left \in IndexExprs /\ Size[q.tree.left] < Size[q.tree]
        /\ q.tree.right \in IndexExprs /\ Size[q.tree.right] < Size[q.tree]
    BY <1>1, <1>4, Children, IndexExprParts
  <2>2. ASSUME NEW t \in IndexExprs
        PROVE  /\ Child(q, t, q.need, n) \in Requests /\ Child(q, t, q.need, n).tree = t
               /\ Child(q, t, q.need, n).need = q.need
               /\ Child(q, t, q.need, n).segment = q.segment
    <3> DEFINE need == q.need
    <3>1. need \in {"whole", "part"} /\ n \in Nat
      BY <1>1, <1>4
    <3> HIDE DEF need
    <3>2. /\ Child(q, t, need, n) \in Requests /\ Child(q, t, need, n).tree = t
          /\ Child(q, t, need, n).need = need
          /\ Child(q, t, need, n).segment = q.segment
      BY <3>1, ChildIsRequest
    <3> QED
      BY <3>2 DEF need
  <2> QED
    BY <2>1, <2>2
<1> QED
  BY <1>2, <1>3, <1>4

\* f answers the requests about smaller trees.
Answered(f, q) ==
  \A p \in Requests : Size[p.tree] < Size[q.tree] => f[p] \in ResultsFor(p)

\* The join of two found parts is no larger than the tree.
LEMMA JoinScopedType ==
  ASSUME NEW q \in Requests, q.tree.op \in {"and", "or"},
         NEW l \in Exprs, l # Nothing => Size[l] <= Size[q.tree.left],
         NEW r \in Exprs, r # Nothing => Size[r] <= Size[q.tree.right]
  PROVE  LET e == JoinScoped(q.tree.op, l, r, q.need)
         IN  e \in Exprs /\ (e # Nothing => Size[e] <= Size[q.tree])
<1>1. /\ q.tree \in Trees
      /\ q.tree.left \in Trees /\ q.tree.right \in Trees
      /\ Size[q.tree] = 1 + Size[q.tree.left] + Size[q.tree.right]
      /\ Size[q.tree] <= MaxSize
  BY RequestFields, TreeCases
<1>2. /\ Size[q.tree.left] \in Nat /\ Size[q.tree.right] \in Nat /\ Size[q.tree] \in Nat
      /\ MaxSize \in Nat
  BY <1>1, TreeCases, TreesAreTrees
<1>3. /\ l # Nothing => l \in IndexExprs /\ l \in Trees /\ Size[l] \in Nat
      /\ r # Nothing => r \in IndexExprs /\ r \in Trees /\ Size[r] \in Nat
  BY IndexExprParts, TreeCases DEF Exprs
<1>4. /\ l # Nothing => Size[l] <= Size[q.tree]
      /\ r # Nothing => Size[r] <= Size[q.tree]
  BY <1>1, <1>2, <1>3
<1>5. Nothing \in Exprs
  BY DEF Exprs
<1>6. CASE l # Nothing /\ r # Nothing
  <2>1. /\ 1 + Size[l] + Size[r] <= MaxSize
        /\ 1 + Size[l] + Size[r] <= Size[q.tree]
    BY <1>1, <1>2, <1>3, <1>6
  <2>2. /\ Join(q.tree.op, l, r) \in IndexExprs
        /\ Size[Join(q.tree.op, l, r)] = 1 + Size[l] + Size[r]
    BY <1>3, <1>6, <2>1, JoinIsIndexExpr, JoinIsTree
  <2> QED
    BY <1>6, <2>1, <2>2 DEF JoinScoped, Exprs
<1>7. CASE ~(l # Nothing /\ r # Nothing)
  BY <1>4, <1>5, <1>7 DEF JoinScoped
<1> QED
  BY <1>6, <1>7

\* A body is a result for its request when f answers the smaller requests.
LEMMA ScopedBodyType ==
  ASSUME NEW f, NEW q \in Requests, Answered(f, q)
  PROVE  ScopedBody(f, q) \in ResultsFor(q)
<1>1. q.tree \in IndexExprs /\ q.tree \in Trees /\ q.left \in Nat
  BY RequestFields
<1>2. CASE q.depth > MaxDepth \/ q.left = 0
  BY <1>1, <1>2, MakeResult DEF ScopedBody
<1>3. CASE ~(q.depth > MaxDepth \/ q.left = 0)
  <2>1. q.left - 1 \in Nat
    BY <1>1, <1>3
  <2>2. CASE q.tree.op = "query"
    <3>1. /\ Found(Nothing, q.left - 1) \in ResultsFor(q)
          /\ Rejected("field_path", q.left - 1) \in ResultsFor(q)
          /\ Found(q.tree, q.left - 1) \in ResultsFor(q)
      <4>1. Nothing \in Exprs /\ q.tree \in Exprs /\ Size[q.tree] <= Size[q.tree]
        BY <1>1, TreeCases DEF Exprs
      <4> QED
        BY <2>1, <4>1, MakeResult
    <3>2. ScopedQuery(q.tree, q.segment, q.left - 1) \in ResultsFor(q)
      BY <3>1 DEF ScopedQuery
    <3> QED
      BY <1>3, <2>2, <3>2 DEF ScopedBody
  <2>3. CASE q.tree.op = "not"
    <3> DEFINE p == Child(q, q.tree.arg, "whole", q.left - 1)
               r == f[p]
    <3>1. /\ p \in Requests /\ p.tree = q.tree.arg /\ q.tree.arg \in Trees
          /\ Size[p.tree] < Size[q.tree]
      <4>1. q.tree.arg \in Trees
        BY <1>1, <2>3, IndexExprParts
      <4> QED
        BY <1>3, <2>3, <4>1, Branches
    <3>2. r \in ResultsFor(p)
      BY <3>1 DEF Answered
    <3> HIDE DEF p, r
    <3>3. /\ r.expr \in Exprs /\ r.left \in Nat
          /\ r.expr # Nothing => /\ r.expr \in IndexExprs /\ r.expr \in Trees
                                 /\ Size[r.expr] <= Size[q.tree.arg]
      BY <3>1, <3>2, ResultFields
    <3>4. ASSUME r.expr = Nothing
          PROVE  ScopedNot(r) \in ResultsFor(q)
      <4>1. r \in ResultsFor(q)
        BY <3>1, <3>2, <3>4 DEF ResultsFor
      <4> QED
        BY <3>4, <4>1 DEF ScopedNot
    <3>5. ASSUME r.expr # Nothing
          PROVE  ScopedNot(r) \in ResultsFor(q)
      <4>1. /\ Size[q.tree] = 1 + Size[q.tree.arg] /\ Size[q.tree] <= MaxSize
            /\ Size[q.tree.arg] \in Nat /\ Size[r.expr] \in Nat /\ MaxSize \in Nat
        BY <1>1, <2>3, <3>1, <3>3, <3>5, TreeCases, TreesAreTrees
      <4>2. Size[r.expr] < MaxSize /\ 1 + Size[r.expr] <= Size[q.tree]
        BY <3>3, <3>5, <4>1
      <4>3. Not(r.expr) \in Exprs /\ Size[Not(r.expr)] <= Size[q.tree]
        BY <3>3, <3>5, <4>2, NotIsIndexExpr, NotIsTree DEF Exprs
      <4> QED
        BY <3>3, <3>5, <4>3, MakeResult DEF ScopedNot
    <3>6. ScopedNot(r) \in ResultsFor(q)
      BY <3>4, <3>5
    <3> QED
      BY <1>3, <2>3, <3>6 DEF ScopedBody, r, p
  <2>4. CASE q.tree.op \in {"and", "or"}
    <3> DEFINE p1 == Child(q, q.tree.left, q.need, q.left - 1)
               l == f[p1]
               p2 == Child(q, q.tree.right, q.need, l.left)
               r == f[p2]
    <3>1. p1 \in Requests /\ p1.tree = q.tree.left /\ Size[p1.tree] < Size[q.tree]
      BY <1>3, <2>1, <2>4, Branches
    <3>2. l \in ResultsFor(p1)
      BY <3>1 DEF Answered
    <3>3. l.left \in Nat
      BY <3>1, <3>2, ResultFields
    <3>4. p2 \in Requests /\ p2.tree = q.tree.right /\ Size[p2.tree] < Size[q.tree]
      BY <1>3, <2>4, <3>3, Branches
    <3>5. r \in ResultsFor(p2)
      BY <3>4 DEF Answered
    <3>6. ScopedBody(f, q) = ScopedJoin(q, l, r)
      BY <1>3, <2>4 DEF ScopedBody
    <3> HIDE DEF p1, l, p2, r
    <3>7. /\ l.expr \in Exprs /\ (l.expr # Nothing => Size[l.expr] <= Size[q.tree.left])
          /\ r.expr \in Exprs /\ (r.expr # Nothing => Size[r.expr] <= Size[q.tree.right])
          /\ r.left \in Nat
          /\ l.err # "none" => l.expr = Nothing
          /\ r.err # "none" => r.expr = Nothing
      BY <3>1, <3>2, <3>4, <3>5, ResultFields
    <3>8. /\ l.err # "none" => l \in ResultsFor(q)
          /\ r.err # "none" => r \in ResultsFor(q)
      BY <3>2, <3>5, <3>7 DEF ResultsFor
    <3>9. Found(JoinScoped(q.tree.op, l.expr, r.expr, q.need), r.left) \in ResultsFor(q)
      <4> DEFINE e == JoinScoped(q.tree.op, l.expr, r.expr, q.need)
      <4>1. e \in Exprs /\ (e # Nothing => Size[e] <= Size[q.tree])
        BY <2>4, <3>7, JoinScopedType
      <4> HIDE DEF e
      <4>2. Found(e, r.left) \in ResultsFor(q)
        BY <3>7, <4>1, MakeResult
      <4> QED
        BY <4>2 DEF e
    <3>10. ScopedJoin(q, l, r) \in ResultsFor(q)
      BY <3>8, <3>9 DEF ScopedJoin
    <3> QED
      BY <3>6, <3>10
  <2> QED
    BY <1>1, <2>2, <2>3, <2>4, IndexExprParts
<1> QED
  BY <1>2, <1>3

\* A body depends on the smaller requests only.
LEMMA ScopedBodyDepends ==
  ASSUME NEW f, NEW g, NEW q \in Requests, Answered(f, q),
         \A p \in Requests : Size[p.tree] < Size[q.tree] => f[p] = g[p]
  PROVE  ScopedBody(f, q) = ScopedBody(g, q)
<1>1. q.tree.op \in {"query", "not", "and", "or"}
  BY RequestFields, IndexExprParts
<1>2. CASE q.left = 0
  BY <1>2 DEF ScopedBody
<1>3. CASE q.left # 0
  <2>1. q.tree.op = "not" =>
          f[Child(q, q.tree.arg, "whole", q.left - 1)]
            = g[Child(q, q.tree.arg, "whole", q.left - 1)]
    BY <1>3, Branches
  <2> DEFINE p == Child(q, q.tree.left, q.need, q.left - 1)
  <2>2. q.tree.op \in {"and", "or"} =>
          f[p] = g[p] /\ f[p] \in ResultsFor(p) /\ p \in Requests
    BY <1>3, Branches DEF Answered
  <2>3. q.tree.op \in {"and", "or"} => f[p].left \in Nat
    BY <2>2, ResultFields
  <2>4. q.tree.op \in {"and", "or"} =>
          f[Child(q, q.tree.right, q.need, f[p].left)]
            = g[Child(q, q.tree.right, q.need, f[p].left)]
    BY <1>3, <2>3, Branches
  <2> QED
    BY <1>1, <2>1, <2>2, <2>4 DEF ScopedBody
<1> QED
  BY <1>2, <1>3

\* What it means for f to be defined by the recursion.
ScopedFixed(f) == f = [q \in Requests |-> ScopedBody(f, q)]

\* The recursion defines a function.
LEMMA ScopedExists == \E f : ScopedFixed(f)
<1> DEFINE rank == [q \in Requests |-> Size[q.tree]]
           W == [q \in Requests |-> ResultsFor(q)]
           F == {f \in [Requests -> Results] : \A q \in Requests : f[q] \in W[q]}
           step == [q \in Requests |-> [f \in F |-> ScopedBody(f, q)]]
<1>1. W \in [Requests -> SUBSET Results] /\ \A q \in Requests : W[q] # {}
  <2>1. \A q \in Requests : ResultsFor(q) \subseteq Results
    BY DEF ResultsFor
  <2>2. \A q \in Requests : Rejected("field_path", 0) \in ResultsFor(q)
    BY MakeResult
  <2> QED
    BY <2>1, <2>2
<1>2. \A f \in F : \A q \in Requests : Answered(f, q)
  BY DEF Answered
<1>3. \A q \in Requests : \A f \in F : step[q][f] \in W[q]
  <2> HIDE DEF F
  <2> TAKE q \in Requests
  <2> TAKE f \in F
  <2>1. ScopedBody(f, q) \in ResultsFor(q)
    BY <1>2, ScopedBodyType
  <2> QED
    BY <2>1
<1>4. \A q \in Requests : \A f, g \in F :
        (\A u \in Requests : rank[u] < rank[q] => f[u] = g[u]) => step[q][f] = step[q][g]
  <2> HIDE DEF F
  <2> TAKE q \in Requests
  <2> TAKE f, g \in F
  <2> HAVE \A u \in Requests : rank[u] < rank[q] => f[u] = g[u]
  <2>1. \A u \in Requests : Size[u.tree] < Size[q.tree] => f[u] = g[u]
    OBVIOUS
  <2>2. ScopedBody(f, q) = ScopedBody(g, q)
    BY <1>2, <2>1, ScopedBodyDepends
  <2> QED
    BY <2>2
<1>5. rank \in [Requests -> 0..MaxSize] /\ MaxSize \in Nat
  BY RequestFields, SizeIsRank
<1>6. \E f \in F : \A q \in Requests : f[q] = step[q][f]
  <2>1. F = {f \in [Requests -> Results] : \A q \in Requests : f[q] \in W[q]}
    OBVIOUS
  <2> HIDE DEF rank, step, W, F
  <2>2. IsRecursion(Requests, Results, MaxSize, rank, W, F, step)
    BY <1>1, <1>3, <1>4, <1>5, <2>1 DEF IsRecursion
  <2> QED
    BY <2>2, Recursion
<1>7. PICK f \in F : \A q \in Requests : f[q] = step[q][f]
  BY <1>6
<1>8. f \in [Requests -> Results]
  OBVIOUS
<1>9. \A q \in Requests : f[q] = ScopedBody(f, q)
  BY <1>7
<1> QED
  BY <1>8, <1>9 DEF ScopedFixed

\* What is found for a request is made of what is found for its children.
LEMMA ScopedDef == \A q \in Requests : Scoped[q] = ScopedBody(Scoped, q)
<1>1. ScopedFixed(CHOOSE f : ScopedFixed(f))
  BY ScopedExists
<1>2. Scoped = (CHOOSE f : ScopedFixed(f))
  BY DEF Scoped, ScopedFixed, ScopedBody
<1>3. Scoped = [q \in Requests |-> ScopedBody(Scoped, q)]
  BY <1>1, <1>2 DEF ScopedFixed
<1> QED
  BY <1>3

\* A set of requests that contains every request whose smaller requests it
\* contains contains all requests.
LEMMA RequestInduction ==
  ASSUME NEW G,
         \A q \in Requests :
           (\A p \in Requests : Size[p.tree] < Size[q.tree] => p \in G) => q \in G
  PROVE  Requests \subseteq G
<1> DEFINE H == {t \in Trees : \A q \in Requests : q.tree = t => q \in G}
<1>1. \A t \in Trees : (\A u \in Trees : Size[u] < Size[t] => u \in H) => t \in H
  <2> SUFFICES ASSUME NEW t \in Trees, \A u \in Trees : Size[u] < Size[t] => u \in H,
                      NEW q \in Requests, q.tree = t
               PROVE  q \in G
    OBVIOUS
  <2>1. \A p \in Requests : Size[p.tree] < Size[q.tree] => p \in G
    BY RequestFields
  <2> QED
    BY <2>1
<1>2. Trees \subseteq H
  <2> HIDE DEF H
  <2> QED
    BY <1>1, TreeInduction
<1> QED
  BY <1>2, RequestFields

\* What is found for a request is a part of an index expression.
LEMMA ScopedType == \A q \in Requests : Scoped[q] \in ResultsFor(q)
<1> DEFINE G == {q \in Requests : Scoped[q] \in ResultsFor(q)}
<1>1. \A q \in Requests :
        (\A p \in Requests : Size[p.tree] < Size[q.tree] => p \in G) => q \in G
  <2> SUFFICES ASSUME NEW q \in Requests,
                      \A p \in Requests : Size[p.tree] < Size[q.tree] => p \in G
               PROVE  Scoped[q] \in ResultsFor(q)
    OBVIOUS
  <2>1. Answered(Scoped, q)
    BY DEF Answered
  <2> QED
    BY <2>1, ScopedBodyType, ScopedDef
<1>2. Requests \subseteq G
  <2> HIDE DEF G
  <2> QED
    BY <1>1, RequestInduction
<1> QED
  BY <1>2

-----------------------------------------------------------------------------
\* The value of a tree by its operator.
LEMMA ValueCases ==
  \A t \in Trees : \A val \in Rows :
    /\ Value[t][val] \in Truth
    /\ t.op = "not" => Value[t][val] = Negation(Value[t.arg][val])
    /\ t.op = "and" => Value[t][val] = Conjunction(Value[t.left][val], Value[t.right][val])
    /\ t.op = "or" => Value[t][val] =
         Negation(Conjunction(Negation(Value[t.left][val]), Negation(Value[t.right][val])))
<1> TAKE t \in Trees
<1> TAKE val \in Rows
<1>1. Value[t][val] \in Truth
  BY ValueDef
<1>2. Value[t][val] = ValueBody(Value, t, val)
  BY ValueDef
<1> QED
  BY <1>1, <1>2 DEF ValueBody

\* A conjunction is true when both sides are, a disjunction when one is.
LEMMA TrueJoins ==
  \A v, w \in Truth :
    /\ Conjunction(v, w) = "T" <=> v = "T" /\ w = "T"
    /\ Negation(Conjunction(Negation(v), Negation(w))) = "T" <=> v = "T" \/ w = "T"
BY DEF Truth, Negation, Conjunction

\* e may replace t where need says how much of t must be kept: a whole tree has
\* the value of t for every row, a part is true wherever t is.
Replaces(e, t, need) ==
  \A val \in Rows :
    /\ need = "whole" => Value[e][val] = Value[t][val]
    /\ Value[t][val] = "T" => Value[e][val] = "T"

\* A result that can be searched: one index answers it and it loses no row.
Usable(q, r) ==
  r.err = "none" /\ r.expr # Nothing =>
    Loadable(r.expr, q.segment) /\ Replaces(r.expr, q.tree, q.need)

\* What replaces the whole of a tree may be negated in its place.
LEMMA NotUsable ==
  ASSUME NEW t \in IndexExprs, t.op = "not",
         NEW e \in IndexExprs, Size[e] <= Size[t.arg],
         NEW s, Loadable(e, s), Replaces(e, t.arg, "whole"), NEW need
  PROVE  Loadable(Not(e), s) /\ Replaces(Not(e), t, need)
<1>1. t \in Trees /\ e \in Trees /\ t.arg \in Trees /\ Size[t] = 1 + Size[t.arg]
  BY IndexExprParts, TreeCases
<1>2. /\ Size[t] <= MaxSize /\ Size[t] \in Nat /\ Size[t.arg] \in Nat
      /\ Size[e] \in Nat /\ MaxSize \in Nat
  BY <1>1, TreeCases, TreesAreTrees
<1>3. Size[e] < MaxSize
  BY <1>1, <1>2
<1>4. Not(e) \in Trees /\ Not(e).op = "not" /\ Not(e).arg = e
  BY <1>1, <1>3, NotIsTree
<1> HIDE DEF Not
<1>5. Subtrees[Not(e)] = {Not(e)} \cup Subtrees[e]
  BY <1>4, SubtreesCases
<1>6. Loadable(Not(e), s)
  BY <1>4, <1>5 DEF Loadable
<1>7. ASSUME NEW val \in Rows
      PROVE  Value[Not(e)][val] = Value[t][val]
  <2>1. Value[Not(e)][val] = Negation(Value[e][val])
    BY <1>4, ValueCases
  <2>2. Value[t][val] = Negation(Value[t.arg][val])
    BY <1>1, ValueCases
  <2>3. Value[e][val] = Value[t.arg][val]
    BY DEF Replaces
  <2> QED
    BY <2>1, <2>2, <2>3
<1> QED
  BY <1>6, <1>7 DEF Replaces

\* What replaces both branches of an AND or OR replaces it.
LEMMA JoinUsable ==
  ASSUME NEW t \in IndexExprs, t.op \in {"and", "or"}, NEW s, NEW need,
         NEW l \in IndexExprs, Size[l] <= Size[t.left],
         Loadable(l, s), Replaces(l, t.left, need),
         NEW r \in IndexExprs, Size[r] <= Size[t.right],
         Loadable(r, s), Replaces(r, t.right, need)
  PROVE  Loadable(Join(t.op, l, r), s) /\ Replaces(Join(t.op, l, r), t, need)
<1>1. /\ t \in Trees /\ t.left \in Trees /\ t.right \in Trees
      /\ l \in Trees /\ r \in Trees /\ Size[t] = 1 + Size[t.left] + Size[t.right]
  BY IndexExprParts, TreeCases
<1>2. /\ Size[t] <= MaxSize /\ Size[t] \in Nat /\ MaxSize \in Nat
      /\ Size[t.left] \in Nat /\ Size[t.right] \in Nat
      /\ Size[l] \in Nat /\ Size[r] \in Nat
  BY <1>1, TreeCases, TreesAreTrees
<1>3. 1 + Size[l] + Size[r] <= MaxSize
  BY <1>1, <1>2
<1> DEFINE j == Join(t.op, l, r)
<1>4. j \in Trees /\ j.op = t.op /\ j.left = l /\ j.right = r
  BY <1>1, <1>3, JoinIsTree
<1> HIDE DEF j
<1>5. Subtrees[j] = {j} \cup Subtrees[l] \cup Subtrees[r]
  BY <1>4, SubtreesCases
<1>6. Loadable(j, s)
  BY <1>4, <1>5 DEF Loadable
<1>7. ASSUME NEW val \in Rows
      PROVE  /\ need = "whole" => Value[j][val] = Value[t][val]
             /\ Value[t][val] = "T" => Value[j][val] = "T"
  <2> DEFINE a == Value[t.left][val]
             b == Value[t.right][val]
             c == Value[l][val]
             d == Value[r][val]
  <2>1. a \in Truth /\ b \in Truth /\ c \in Truth /\ d \in Truth
    BY <1>1, ValueCases
  <2>2. /\ need = "whole" => c = a /\ d = b
        /\ a = "T" => c = "T"
        /\ b = "T" => d = "T"
    BY DEF Replaces
  <2>3. /\ t.op = "and" => /\ Value[t][val] = Conjunction(a, b)
                           /\ Value[j][val] = Conjunction(c, d)
        /\ t.op = "or" => /\ Value[t][val] = Negation(Conjunction(Negation(a), Negation(b)))
                          /\ Value[j][val] = Negation(Conjunction(Negation(c), Negation(d)))
    BY <1>1, <1>4, ValueCases
  <2> HIDE DEF a, b, c, d
  <2> QED
    BY <2>1, <2>2, <2>3, TrueJoins
<1> QED
  BY <1>6, <1>7 DEF Replaces, j

\* One branch of an AND is true wherever the AND is.
LEMMA BranchUsable ==
  ASSUME NEW t \in IndexExprs, t.op = "and",
         NEW e \in IndexExprs,
         \/ Replaces(e, t.left, "part")
         \/ Replaces(e, t.right, "part")
  PROVE  Replaces(e, t, "part")
<1>1. t \in Trees /\ t.left \in Trees /\ t.right \in Trees
  BY IndexExprParts, TreeCases
<1>2. ASSUME NEW val \in Rows, Value[t][val] = "T"
      PROVE  Value[e][val] = "T"
  <2>1. /\ Value[t.left][val] \in Truth /\ Value[t.right][val] \in Truth
        /\ Value[t][val] = Conjunction(Value[t.left][val], Value[t.right][val])
    BY <1>1, ValueCases
  <2>2. Value[t.left][val] = "T" /\ Value[t.right][val] = "T"
    BY <1>2, <2>1, TrueJoins
  <2> QED
    BY <2>2 DEF Replaces
<1> QED
  BY <1>2 DEF Replaces

\* Pruning is sound: what scoped_expression keeps of a filter is answered by the
\* one index, is true wherever the filter is, and is worth the same where it
\* must be whole (under a NOT).
THEOREM ScopedIsUsable == \A q \in Requests : Usable(q, Scoped[q])
<1> DEFINE G == {q \in Requests : Usable(q, Scoped[q])}
<1>1. \A q \in Requests :
        (\A p \in Requests : Size[p.tree] < Size[q.tree] => p \in G) => q \in G
  <2> SUFFICES ASSUME NEW q \in Requests,
                      \A p \in Requests : Size[p.tree] < Size[q.tree] => Usable(p, Scoped[p])
               PROVE  Usable(q, Scoped[q])
    OBVIOUS
  <2>1. q.tree \in IndexExprs /\ q.tree \in Trees /\ q.need \in {"whole", "part"}
    BY RequestFields
  <2>2. Scoped[q] = ScopedBody(Scoped, q)
    BY ScopedDef
  <2>3. CASE q.depth > MaxDepth \/ q.left = 0
    BY <2>2, <2>3 DEF ScopedBody, Rejected, Usable
  <2>4. CASE ~(q.depth > MaxDepth \/ q.left = 0)
    <3>1. CASE q.tree.op = "query"
      <4>1. Scoped[q] = ScopedQuery(q.tree, q.segment, q.left - 1)
        BY <2>2, <2>4, <3>1 DEF ScopedBody
      <4>2. /\ Scoped[q].expr # Nothing => Scoped[q].expr = q.tree
            /\ Scoped[q].expr # Nothing =>
                 q.tree.index = Index[q.segment] /\ q.tree.column = Column[q.segment]
        BY <4>1 DEF ScopedQuery, Found, Rejected
      <4>3. Subtrees[q.tree] = {q.tree}
        BY <2>1, <3>1, SubtreesCases
      <4> QED
        BY <4>2, <4>3 DEF Usable, Loadable, Replaces
    <3>2. CASE q.tree.op = "not"
      <4> DEFINE p == Child(q, q.tree.arg, "whole", q.left - 1)
                 r == Scoped[p]
      <4>1. /\ p \in Requests /\ p.tree = q.tree.arg /\ p.need = "whole"
            /\ p.segment = q.segment /\ Size[p.tree] < Size[q.tree]
        BY <2>4, <3>2, Branches
      <4>2. Usable(p, r) /\ r \in ResultsFor(p)
        BY <4>1, ScopedType
      <4>3. Scoped[q] = ScopedNot(r)
        BY <2>2, <2>4, <3>2 DEF ScopedBody
      <4> HIDE DEF p, r
      <4>4. CASE r.expr = Nothing
        BY <4>3, <4>4 DEF ScopedNot, Usable
      <4>5. CASE r.expr # Nothing
        <5>1. r.expr \in IndexExprs /\ Size[r.expr] <= Size[q.tree.arg] /\ r.err = "none"
          BY <4>1, <4>2, <4>5, ResultFields
        <5>2. Loadable(r.expr, q.segment) /\ Replaces(r.expr, q.tree.arg, "whole")
          BY <4>1, <4>2, <4>5, <5>1 DEF Usable
        <5>3. /\ Loadable(Not(r.expr), q.segment)
              /\ Replaces(Not(r.expr), q.tree, q.need)
          BY <2>1, <3>2, <5>1, <5>2, NotUsable
        <5>4. Scoped[q].expr = Not(r.expr)
          BY <4>3, <4>5 DEF ScopedNot, Found
        <5> QED
          BY <5>3, <5>4 DEF Usable
      <4> QED
        BY <4>4, <4>5
    <3>3. CASE q.tree.op \in {"and", "or"}
      <4> DEFINE p1 == Child(q, q.tree.left, q.need, q.left - 1)
                 l == Scoped[p1]
                 p2 == Child(q, q.tree.right, q.need, l.left)
                 r == Scoped[p2]
      <4>1. q.left - 1 \in Nat
        BY <2>4, Branches
      <4>2. /\ p1 \in Requests /\ p1.tree = q.tree.left /\ p1.need = q.need
            /\ p1.segment = q.segment /\ Size[p1.tree] < Size[q.tree]
        BY <2>4, <3>3, <4>1, Branches
      <4>3. Usable(p1, l) /\ l \in ResultsFor(p1)
        BY <4>2, ScopedType
      <4>4. l.left \in Nat
        BY <4>2, <4>3, ResultFields
      <4>5. /\ p2 \in Requests /\ p2.tree = q.tree.right /\ p2.need = q.need
            /\ p2.segment = q.segment /\ Size[p2.tree] < Size[q.tree]
        BY <2>4, <3>3, <4>4, Branches
      <4>6. Usable(p2, r) /\ r \in ResultsFor(p2)
        BY <4>5, ScopedType
      <4>7. Scoped[q] = ScopedJoin(q, l, r)
        BY <2>2, <2>4, <3>3 DEF ScopedBody
      <4> HIDE DEF p1, l, p2, r
      <4>8. CASE l.err # "none" \/ r.err # "none"
        BY <4>2, <4>3, <4>5, <4>6, <4>7, <4>8, ResultFields DEF ScopedJoin, Usable
      <4>9. CASE l.err = "none" /\ r.err = "none"
        <5> DEFINE e == JoinScoped(q.tree.op, l.expr, r.expr, q.need)
        <5>1. Scoped[q].expr = e
          BY <4>7, <4>9 DEF ScopedJoin, Found
        <5>2. l.expr # Nothing =>
                /\ l.expr \in IndexExprs /\ Size[l.expr] <= Size[q.tree.left]
                /\ Loadable(l.expr, q.segment) /\ Replaces(l.expr, q.tree.left, q.need)
          BY <4>2, <4>3, <4>9, ResultFields DEF Usable
        <5>3. r.expr # Nothing =>
                /\ r.expr \in IndexExprs /\ Size[r.expr] <= Size[q.tree.right]
                /\ Loadable(r.expr, q.segment) /\ Replaces(r.expr, q.tree.right, q.need)
          BY <4>5, <4>6, <4>9, ResultFields DEF Usable
        <5>4. e # Nothing => Loadable(e, q.segment) /\ Replaces(e, q.tree, q.need)
          <6>1. CASE l.expr # Nothing /\ r.expr # Nothing
            <7>1. e = Join(q.tree.op, l.expr, r.expr)
              BY <6>1 DEF JoinScoped
            <7> HIDE DEF e
            <7>2. /\ Loadable(Join(q.tree.op, l.expr, r.expr), q.segment)
                  /\ Replaces(Join(q.tree.op, l.expr, r.expr), q.tree, q.need)
              BY <2>1, <3>3, <5>2, <5>3, <6>1, JoinUsable
            <7> QED
              BY <7>1, <7>2
          <6>2. CASE l.expr = Nothing
            <7>1. e # Nothing => e = r.expr /\ q.tree.op = "and" /\ q.need = "part"
              BY <6>2 DEF JoinScoped
            <7> HIDE DEF e
            <7> QED
              BY <2>1, <5>3, <7>1, BranchUsable
          <6>3. CASE l.expr # Nothing /\ r.expr = Nothing
            <7>1. e # Nothing => e = l.expr /\ q.tree.op = "and" /\ q.need = "part"
              BY <6>3 DEF JoinScoped
            <7> HIDE DEF e
            <7> QED
              BY <2>1, <5>2, <6>3, <7>1, BranchUsable
          <6> QED
            BY <6>1, <6>2, <6>3
        <5> QED
          BY <5>1, <5>4 DEF Usable
      <4> QED
        BY <4>8, <4>9
    <3> QED
      BY <2>1, <3>1, <3>2, <3>3, IndexExprParts
  <2> QED
    BY <2>3, <2>4
<1>2. Requests \subseteq G
  <2> HIDE DEF G
  <2> QED
    BY <1>1, RequestInduction
<1> QED
  BY <1>2

-----------------------------------------------------------------------------
(* The accelerated scan.                                                   *)

\* Where the preparation goes on to search a segment.
LEMMA Prepared ==
  ASSUME NEW sc \in Scans, Preparation(sc) = "none"
  PROVE  /\ sc.tree \in IndexExprs /\ Lowered[sc.tree] = sc.tree
         /\ Covers(sc.segment, sc.scope)
         /\ sc.fault \notin Misleading \ {"row_id_domain"}
         /\ sc.fault \notin {"no_filter", "legacy_storage"}
         /\ sc.segment \in Segments /\ sc.row \in Rows
<1>1. /\ sc.tree \in Trees /\ sc.segment \in Segments /\ sc.row \in Rows
      /\ sc.fault \in Faults
  BY TreesAreTrees DEF Scans, Rows
<1>2. /\ sc.fault \notin Misleading \ {"row_id_domain"}
      /\ sc.fault \notin {"no_filter", "legacy_storage"}
  BY DEF Preparation, Misleading
<1>3. Covers(sc.segment, sc.scope) /\ ~HasTruthTest(sc.tree)
  BY DEF Preparation
<1>4. sc.tree \in IndexExprs
  BY <1>1, <1>3 DEF IndexExprs
<1> QED
  BY <1>1, <1>2, <1>3, <1>4, LoweredKeepsIndexExprs

\* What is found in an index expression for a segment.
LEMMA ScopedForIsUsable ==
  ASSUME NEW t \in IndexExprs, NEW s \in Segments
  PROVE  LET r == ScopedFor(t, s)
         IN  /\ r.err \in {"none", "expression_budget", "field_path"}
             /\ r.expr \in Exprs
             /\ r.err = "none" /\ r.expr # Nothing =>
                  Loadable(r.expr, s) /\ Replaces(r.expr, t, "part")
<1> DEFINE q == [segment |-> s, tree |-> t, need |-> "part", depth |-> 0, left |-> MaxNodes]
<1>1. /\ q \in Requests /\ q.segment = s /\ q.tree = t /\ q.need = "part"
  BY SegmentAssumption DEF Requests
<1>2. ScopedFor(t, s) = Scoped[q]
  BY DEF ScopedFor
<1> HIDE DEF q
<1>3. Scoped[q] \in ResultsFor(q) /\ Usable(q, Scoped[q])
  BY <1>1, ScopedType, ScopedIsUsable
<1> QED
  BY <1>1, <1>2, <1>3, ResultFields DEF Usable

\* A choice that can be searched for the rows of the scope.
Searchable(sc, choice) ==
  /\ choice.segment \in Segments
  /\ choice.expr \in IndexExprs
  /\ Covers(choice.segment, sc.scope)
  /\ Loadable(choice.expr, choice.segment)
  /\ Replaces(choice.expr, sc.tree, "part")

\* Whatever segment is chosen comes with an expression of its own.
LEMMA ChosenIsSearchable ==
  ASSUME NEW sc \in Scans, Preparation(sc) = "none",
         ScopedFor(sc.tree, sc.segment).err = "none",
         ScopedFor(sc.tree, sc.segment).expr # Nothing,
         NEW choice \in Chosen(sc, sc.tree, ScopedFor(sc.tree, sc.segment).expr)
  PROVE  choice = FullScan \/ Searchable(sc, choice)
<1>1. /\ sc.tree \in IndexExprs /\ sc.segment \in Segments
      /\ Covers(sc.segment, sc.scope)
  BY Prepared
<1>2. \A s \in Segments : \A e :
        /\ e = ScopedFor(sc.tree, s).expr /\ ScopedFor(sc.tree, s).err = "none"
        /\ e # Nothing /\ Covers(s, sc.scope)
        => Searchable(sc, [segment |-> s, expr |-> e])
  BY <1>1, ScopedForIsUsable DEF Searchable, Exprs
<1>3. CASE choice = [segment |-> sc.segment, expr |-> ScopedFor(sc.tree, sc.segment).expr]
  BY <1>1, <1>2, <1>3
<1>4. CASE \E s \in Candidates(sc, sc.tree) :
             choice = [segment |-> s, expr |-> ScopedFor(sc.tree, s).expr]
  <2>1. PICK s \in Candidates(sc, sc.tree) :
               choice = [segment |-> s, expr |-> ScopedFor(sc.tree, s).expr]
    BY <1>4
  <2>2. /\ s \in Segments /\ Covers(s, sc.scope)
        /\ ScopedFor(sc.tree, s).err = "none" /\ ScopedFor(sc.tree, s).expr # Nothing
    BY DEF Candidates
  <2> QED
    BY <1>2, <2>1, <2>2
<1> QED
  BY <1>3, <1>4 DEF Chosen

\* What a searchable choice says of a row of the scope that satisfies the filter.
LEMMA AnswerKeepsRow ==
  ASSUME NEW sc \in Scans, Preparation(sc) = "none",
         NEW choice, Searchable(sc, choice), Search(sc, choice) = "none",
         NEW answer \in Answers(sc, choice)
  PROVE  /\ answer \in BOOLEAN
         /\ RowFragment \in sc.scope /\ Satisfies(sc) => answer
<1>1. sc.fault \notin Misleading
  <2>1. sc.fault # "row_id_domain"
    BY DEF Search
  <2> QED
    BY <2>1, Prepared
<1>2. answer = (Value[choice.expr][IF RowFragment \in Coverage[choice.segment]
                                   THEN sc.row ELSE [c \in Columns |-> "F"]] = "T")
  BY <1>1 DEF Answers
<1>3. answer \in BOOLEAN
  BY <1>2
<1>4. ASSUME RowFragment \in sc.scope, Satisfies(sc)
      PROVE  answer
  <2>1. RowFragment \in Coverage[choice.segment]
    BY <1>4 DEF Searchable, Covers
  <2>2. Value[sc.tree][sc.row] = "T"
    BY <1>4, Prepared DEF Satisfies
  <2>3. Value[choice.expr][sc.row] = "T"
    BY <2>2, Prepared DEF Searchable, Replaces
  <2> QED
    BY <1>2, <2>1, <2>3
<1> QED
  BY <1>3, <1>4

\* The mask keeps a row the scan must deliver.
MaskKeepsRow ==
  phase # "new" /\ RowFragment \in scan.scope /\ Satisfies(scan) => mask

\* A scan that fell back has no mask, and one of legacy storage fell back.
FallenBack == reason # "none" => mask
MaskIsAccepted == phase # "new" /\ scan.fault = "legacy_storage" => reason # "none"

\* The inductive invariant of an accelerated scan.
SegmentIInv == /\ SegmentTypeOK
               /\ MaskKeepsRow
               /\ FallenBack
               /\ MaskIsAccepted
               /\ LoaderNeverRefuses
               /\ ScopedReadIsExact

\* Reasons a scan may end with.
LEMMA KnownReasons ==
  /\ Faults \ {"absent", "io_error"} \subseteq Reasons
  /\ {"none", "error", "partial_coverage", "boolean_truth_test", "field_path",
      "expression_budget", "runtime_cost", "no_driver"} \subseteq Reasons \ {"loader_refused"}
BY DEF Reasons, Faults

\* The reasons with which the preparation or a search of a good choice stops.
LEMMA StopReasons ==
  ASSUME NEW sc \in Scans
  PROVE  /\ Preparation(sc) \in Reasons \ {"loader_refused"}
         /\ \A choice : choice = FullScan \/ Searchable(sc, choice) =>
              Search(sc, choice) \in Reasons \ {"loader_refused"}
<1>1. sc.fault \in Faults
  BY DEF Scans
<1>2. Preparation(sc) \in Reasons \ {"loader_refused"}
  BY <1>1 DEF Preparation, Reasons, Faults
<1>3. ASSUME NEW choice, choice = FullScan \/ Searchable(sc, choice)
      PROVE  Search(sc, choice) \in Reasons \ {"loader_refused"}
  <2>1. choice = FullScan \/ Loadable(choice.expr, choice.segment)
    BY <1>3 DEF Searchable
  <2> QED
    BY <1>1, <2>1 DEF Search, Reasons, Faults
<1> QED
  BY <1>2, <1>3

\* A full scan is never searched.
LEMMA FullScanStops == \A sc : Search(sc, FullScan) # "none"
BY DEF Search

\* What configure leaves behind: a reason, or a mask that keeps the row.
LEMMA ConfigureStep ==
  ASSUME NEW sc \in Scans, Configure(sc)
  PROVE  /\ reason' \in Reasons \ {"loader_refused"}
         /\ mask' \in BOOLEAN
         /\ reason' # "none" => mask'
         /\ RowFragment \in sc.scope /\ Satisfies(sc) => mask'
         /\ sc.fault = "legacy_storage" => reason' # "none"
<1>1. CASE Preparation(sc) # "none"
  <2>1. reason' = Preparation(sc) /\ mask' = TRUE
    BY <1>1 DEF Configure, FallBack
  <2> QED
    BY <1>1, <2>1, StopReasons
<1>2. CASE Preparation(sc) = "none"
  <2>1. /\ sc.tree \in IndexExprs /\ Lowered[sc.tree] = sc.tree
        /\ sc.fault # "legacy_storage" /\ sc.segment \in Segments
    BY <1>2, Prepared
  <2> DEFINE r == ScopedFor(sc.tree, sc.segment)
  <2>2. r.err \in {"none", "expression_budget", "field_path"}
    BY <2>1, ScopedForIsUsable
  <2>3. \/ r.err # "none" /\ FallBack(r.err)
        \/ FallBack("no_driver")
        \/ /\ r.err = "none" /\ r.expr # Nothing
           /\ \E choice \in Chosen(sc, sc.tree, r.expr) :
                \/ Search(sc, choice) # "none" /\ FallBack(Search(sc, choice))
                \/ /\ Search(sc, choice) = "none"
                   /\ reason' = "none" /\ mask' \in Answers(sc, choice)
    BY <1>2, <2>1 DEF Configure, SearchSegment
  <2>4. ASSUME NEW why \in Reasons \ {"loader_refused"}, why # "none", FallBack(why)
        PROVE  /\ reason' \in Reasons \ {"loader_refused"} /\ reason' # "none"
               /\ mask' = TRUE
    BY <2>4 DEF FallBack
  <2>5. CASE r.err # "none" /\ FallBack(r.err)
    BY <2>2, <2>4, <2>5, KnownReasons
  <2>6. CASE FallBack("no_driver")
    BY <2>4, <2>6, KnownReasons
  <2>7. ASSUME r.err = "none", r.expr # Nothing,
               NEW choice \in Chosen(sc, sc.tree, r.expr),
               Search(sc, choice) # "none", FallBack(Search(sc, choice))
        PROVE  /\ reason' \in Reasons \ {"loader_refused"} /\ reason' # "none"
               /\ mask' = TRUE
    <3>1. choice = FullScan \/ Searchable(sc, choice)
      BY <1>2, <2>7, ChosenIsSearchable
    <3>2. Search(sc, choice) \in Reasons \ {"loader_refused"}
      BY <3>1, StopReasons
    <3> QED
      BY <2>4, <2>7, <3>2
  <2>8. ASSUME r.err = "none", r.expr # Nothing,
               NEW choice \in Chosen(sc, sc.tree, r.expr),
               Search(sc, choice) = "none", mask' \in Answers(sc, choice)
        PROVE  /\ mask' \in BOOLEAN
               /\ RowFragment \in sc.scope /\ Satisfies(sc) => mask'
    <3>1. choice = FullScan \/ Searchable(sc, choice)
      BY <1>2, <2>8, ChosenIsSearchable
    <3>2. Searchable(sc, choice)
      BY <2>8, <3>1, FullScanStops
    <3> QED
      BY <1>2, <2>8, <3>2, AnswerKeepsRow
  <2> HIDE DEF r
  <2>9. "none" \in Reasons \ {"loader_refused"}
    BY KnownReasons
  <2>10. CASE /\ r.err = "none" /\ r.expr # Nothing
              /\ \E choice \in Chosen(sc, sc.tree, r.expr) :
                   \/ Search(sc, choice) # "none" /\ FallBack(Search(sc, choice))
                   \/ /\ Search(sc, choice) = "none"
                      /\ reason' = "none" /\ mask' \in Answers(sc, choice)
    <3>1. PICK choice \in Chosen(sc, sc.tree, r.expr) :
                 \/ Search(sc, choice) # "none" /\ FallBack(Search(sc, choice))
                 \/ /\ Search(sc, choice) = "none"
                    /\ reason' = "none" /\ mask' \in Answers(sc, choice)
      BY <2>10
    <3>2. CASE Search(sc, choice) # "none" /\ FallBack(Search(sc, choice))
      BY <2>1, <2>7, <2>10, <3>2
    <3>3. CASE Search(sc, choice) = "none" /\ reason' = "none" /\ mask' \in Answers(sc, choice)
      BY <2>1, <2>8, <2>9, <2>10, <3>3
    <3> QED
      BY <3>1, <3>2, <3>3
  <2> QED
    BY <2>1, <2>3, <2>5, <2>6, <2>10
<1> QED
  BY <1>1, <1>2

\* A scan that was not configured has no mask.
LEMMA SegmentInitial == SegmentInit => SegmentIInv
<1> SUFFICES ASSUME SegmentInit
             PROVE  SegmentIInv
  OBVIOUS
<1>1. phase = "new" /\ reason = "none" /\ mask = TRUE /\ got = FALSE
  BY DEF SegmentInit
<1>2. SegmentTypeOK
  BY <1>1, KnownReasons DEF SegmentTypeOK
<1> QED
  BY <1>1, <1>2 DEF SegmentIInv, MaskKeepsRow, FallenBack, MaskIsAccepted,
                    LoaderNeverRefuses, ScopedReadIsExact

\* configure keeps the invariant.
LEMMA ConfigurePreserves ==
  ASSUME SegmentIInv, phase = "new", NEW sc \in Scans, Configure(sc)
  PROVE  SegmentIInv'
<1>1. phase' = "configured" /\ scan' = sc /\ got' = got
  BY DEF Configure
<1>2. /\ reason' \in Reasons \ {"loader_refused"}
      /\ mask' \in BOOLEAN
      /\ reason' # "none" => mask'
      /\ RowFragment \in sc.scope /\ Satisfies(sc) => mask'
      /\ sc.fault = "legacy_storage" => reason' # "none"
  BY ConfigureStep
<1>3. SegmentTypeOK'
  BY <1>1, <1>2 DEF SegmentIInv, SegmentTypeOK
<1>4. MaskKeepsRow' /\ FallenBack' /\ MaskIsAccepted'
  BY <1>1, <1>2 DEF MaskKeepsRow, FallenBack, MaskIsAccepted, Satisfies
<1>5. LoaderNeverRefuses' /\ ScopedReadIsExact'
  BY <1>1, <1>2 DEF LoaderNeverRefuses, ScopedReadIsExact
<1> QED
  BY <1>3, <1>4, <1>5 DEF SegmentIInv

\* Reading keeps the invariant.
LEMMA ReadPreserves ==
  ASSUME SegmentIInv, Read
  PROVE  SegmentIInv'
<1>1. /\ phase = "configured" /\ phase' = "read"
      /\ scan' = scan /\ reason' = reason /\ mask' = mask
  BY DEF Read
<1>2. got' = (/\ RowFragment \in scan.scope /\ mask /\ Satisfies(scan)
              /\ scan.fault = "legacy_storage" => reason # "none")
  BY DEF Read
<1>3. RowFragment \in scan.scope /\ Satisfies(scan) => mask
  BY <1>1 DEF SegmentIInv, MaskKeepsRow
<1>4. scan.fault = "legacy_storage" => reason # "none"
  BY <1>1 DEF SegmentIInv, MaskIsAccepted
<1>5. got' = (RowFragment \in scan.scope /\ Satisfies(scan))
  BY <1>2, <1>3, <1>4
<1>6. SegmentTypeOK'
  BY <1>1, <1>2 DEF SegmentIInv, SegmentTypeOK
<1>7. MaskKeepsRow' /\ FallenBack' /\ MaskIsAccepted' /\ LoaderNeverRefuses'
  BY <1>1 DEF SegmentIInv, MaskKeepsRow, FallenBack, MaskIsAccepted,
              LoaderNeverRefuses, Satisfies
<1>8. ScopedReadIsExact'
  BY <1>1, <1>5 DEF ScopedReadIsExact, Satisfies
<1> QED
  BY <1>6, <1>7, <1>8 DEF SegmentIInv

\* Every step keeps the invariant.
LEMMA SegmentInductive == SegmentIInv /\ [SegmentNext]_segmentVars => SegmentIInv'
<1> SUFFICES ASSUME SegmentIInv, [SegmentNext]_segmentVars
             PROVE  SegmentIInv'
  OBVIOUS
<1>1. CASE phase = "new" /\ \E sc \in Scans : Configure(sc)
  BY <1>1, ConfigurePreserves
<1>2. CASE Read
  BY <1>2, ReadPreserves
<1>3. CASE UNCHANGED segmentVars
  <2>1. phase' = phase /\ scan' = scan /\ reason' = reason /\ mask' = mask /\ got' = got
    BY <1>3 DEF segmentVars
  <2> QED
    BY <2>1 DEF SegmentIInv, SegmentTypeOK, MaskKeepsRow, FallenBack, MaskIsAccepted,
                LoaderNeverRefuses, ScopedReadIsExact, Satisfies
<1> QED
  BY <1>1, <1>2, <1>3 DEF SegmentNext

\* The invariant holds throughout.
LEMMA SegmentInvariant == SegmentSpec => []SegmentIInv
<1>1. SegmentInit => SegmentIInv
  BY SegmentInitial
<1>2. SegmentIInv /\ [SegmentNext]_segmentVars => SegmentIInv'
  BY SegmentInductive
<1> QED
  BY <1>1, <1>2, PTL DEF SegmentSpec

\* Every accelerated scan keeps its request and ends with a known reason.
THEOREM SegmentTypeCorrect == SegmentSpec => []SegmentTypeOK
<1>1. SegmentIInv => SegmentTypeOK
  BY DEF SegmentIInv
<1> QED
  BY <1>1, SegmentInvariant, PTL

\* For every filter, segment, coverage and budget, an accelerated scan delivers
\* a row exactly when it is in the scope and satisfies the whole filter.
THEOREM ScopedReadExact == SegmentSpec => []ScopedReadIsExact
<1>1. SegmentIInv => ScopedReadIsExact
  BY DEF SegmentIInv
<1> QED
  BY <1>1, SegmentInvariant, PTL

\* The loader of a segment is only asked for the index and column of the segment.
THEOREM LoaderAnswers == SegmentSpec => []LoaderNeverRefuses
<1>1. SegmentIInv => LoaderNeverRefuses
  BY DEF SegmentIInv
<1> QED
  BY <1>1, SegmentInvariant, PTL
=============================================================================
