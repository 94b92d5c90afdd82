----------------------------- MODULE IndexProofs -----------------------------
(***************************************************************************)
(* Proofs about the index segments of a table: IndexSegments, which builds *)
(* and commits them, for any number of columns, models, builders and       *)
(* fragments and any dimension, and ScalarIndexSelection, which chooses    *)
(* among them, for every budget, limit and lookup.                         *)
(***************************************************************************)
EXTENDS IndexSegments, ScalarIndexSelection, Integers, SequenceTheorems, TLAPS

-----------------------------------------------------------------------------
(* Building and committing segments (IndexSegments).                       *)

\* A model that still has its provenance names the IVF training it comes from.
ProvenanceTrue ==
  \A s \in Slots : HasProvenance(s) => models[s].provenance.ivf_id = models[s].training

\* What a builder will cover, and what of it a supplied codebook allows.
BuilderCovers(d) ==
  /\ Coverage(d.selection, d.snapshot) \subseteq d.snapshot
  /\ d.codebook # NoModel => d.kind = "vector"
  /\ d.kind = "vector" => d.params # NoBuilder
  /\ d.codebook # NoModel /\ d.params.metric = "Dot"
       => Coverage(d.selection, d.snapshot) = d.snapshot

BuildersCover == \A b \in Builders : builders[b] # NoBuilder => BuilderCovers(builders[b])

\* The committed segments of a column are of one type and metric and cover
\* different fragments, whatever was committed and replaced before.
IndexIsCoherent ==
  \A x, y \in committed :
    x.column = y.column =>
      /\ x.kind = y.kind /\ x.metric = y.metric
      /\ x # y => x.coverage \cap y.coverage = {}

IInv == /\ TypeOK
        /\ ProvenanceTrue
        /\ BuildersCover
        /\ ModelSetsAgree
        /\ SegmentsCoverTheirSnapshot
        /\ IndexIsCoherent

\* What ModelSetsAgree says of one builder.
SetAgrees(d) ==
  d.codebook # NoModel =>
    /\ d.centroids # NoModel
    /\ d.codebook.training = d.centroids.training
    /\ d.centroids.length = d.params.num_partitions
    /\ d.codebook.length * d.codebook.list_size
         = d.centroids.list_size * 2^EffectiveBits(d.params)

\* The parts of the invariant.
LEMMA Parts ==
  ASSUME IInv
  PROVE  /\ TypeOK /\ ProvenanceTrue /\ BuildersCover /\ ModelSetsAgree
         /\ SegmentsCoverTheirSnapshot /\ IndexIsCoherent
         /\ \A s \in Slots : models[s] # Empty => models[s] \in Model
         /\ \A b \in Builders : builders[b] # NoBuilder =>
              builders[b] \in Builder /\ BuilderCovers(builders[b]) /\ SetAgrees(builders[b])
<1>1. TypeOK /\ BuildersCover /\ ModelSetsAgree
  BY DEF IInv
<1>2. \A s \in Slots : models[s] # Empty => models[s] \in Model
  BY <1>1 DEF TypeOK
<1>3. \A b \in Builders : builders[b] # NoBuilder => builders[b] \in Builder
  BY <1>1 DEF TypeOK
<1>4. \A b \in Builders : builders[b] # NoBuilder => SetAgrees(builders[b])
  BY <1>1 DEF ModelSetsAgree, SetAgrees
<1> QED BY <1>1, <1>2, <1>3, <1>4 DEF IInv, BuildersCover

\* A step that counts stays within the bound.
LEMMA StepType ==
  ASSUME TypeOK, Step
  PROVE  calls' \in 0..MaxCalls
BY SegmentAssumption DEF TypeOK, Step, Bounded

\* The number of codes of each width.
LEMMA CodesPerBits == \A bits \in {4, 8} : 2^bits \in Nat
<1>1. 2^4 \in Nat /\ 2^8 \in Nat
  OBVIOUS
<1> QED BY <1>1

-----------------------------------------------------------------------------
(* Steps of a model slot.                                                  *)

\* A slot gets a model that is what its provenance says, or nothing.
LEMMA SlotIInv ==
  ASSUME IInv, Step, NEW s \in Slots, NEW m \in Model \cup {Empty},
         models' = [models EXCEPT ![s] = m],
         m # Empty /\ m.provenance # NoProvenance => m.provenance.ivf_id = m.training,
         trainings' \in Nat, UNCHANGED <<datasetVars, buildVars>>
  PROVE  IInv'
<1>1. TypeOK /\ UNCHANGED <<fragments, version, committed, builders, segments>>
  BY Parts DEF datasetVars, buildVars
<1>2. models' \in [Slots -> Model \cup {Empty}]
  BY <1>1 DEF TypeOK
<1>3. TypeOK'
  BY <1>1, <1>2, StepType DEF TypeOK
<1>4. ProvenanceTrue'
  <2>1. ASSUME NEW u \in Slots, HasProvenance(u)'
        PROVE  models'[u].provenance.ivf_id = models'[u].training
    <3>1. CASE u = s
      <4>1. models'[u] = m
        BY <1>1, <3>1 DEF TypeOK
      <4> QED BY <2>1, <4>1 DEF HasProvenance
    <3>2. CASE u # s
      <4>1. models'[u] = models[u]
        BY <1>1, <3>2 DEF TypeOK
      <4> QED BY <2>1, <4>1, Parts DEF HasProvenance, ProvenanceTrue
    <3> QED BY <3>1, <3>2
  <2> QED BY <2>1 DEF ProvenanceTrue
<1>5. BuildersCover' /\ ModelSetsAgree'
  BY <1>1, Parts DEF BuildersCover, ModelSetsAgree
<1>6. SegmentsCoverTheirSnapshot' /\ IndexIsCoherent'
  BY <1>1, Parts DEF SegmentsCoverTheirSnapshot, IndexIsCoherent
<1> QED BY <1>3, <1>4, <1>5, <1>6 DEF IInv

\* What is borrowed is written back as it was.
LEMMA BorrowKeeps ==
  ASSUME IInv, NEW lent \in SUBSET Slots, \A s \in lent : Borrowed(s)
  PROVE  AfterBorrow(lent) = models
<1>1. models \in [Slots -> Model \cup {Empty}]
  BY Parts DEF TypeOK
<1>2. ASSUME NEW s \in Slots, s \in lent PROVE WrittenBack(MovedOut(models[s])) = models[s]
  <2>1. models[s] \in Model /\ models[s].live = TRUE
    BY <1>1, <1>2 DEF Borrowed, HasProvenance, Model
  <2> QED BY <2>1 DEF WrittenBack, MovedOut, Model
<1>3. \A s \in Slots : AfterBorrow(lent)[s] = models[s]
  BY <1>2 DEF AfterBorrow
<1>4. AfterBorrow(lent) = [s \in Slots |-> AfterBorrow(lent)[s]]
  BY DEF AfterBorrow
<1> QED BY <1>1, <1>3, <1>4

\* A call that borrows and leaves everything else alone changes nothing.
LEMMA UnchangedIInv ==
  ASSUME IInv, UNCHANGED vars
  PROVE  IInv'
<1>1. UNCHANGED <<fragments, version, models, trainings, builders, segments, committed, calls>>
  BY DEF vars
<1>2. TypeOK' /\ SegmentsCoverTheirSnapshot' /\ IndexIsCoherent'
  BY <1>1, Parts DEF TypeOK, SegmentsCoverTheirSnapshot, IndexIsCoherent
<1>3. ProvenanceTrue' /\ BuildersCover' /\ ModelSetsAgree'
  BY <1>1, Parts DEF ProvenanceTrue, HasProvenance, BuildersCover, ModelSetsAgree
<1> QED BY <1>2, <1>3 DEF IInv

\* A failed import leaves a released array.
LEMMA ImportFailsIInv ==
  ASSUME IInv, Step, NEW s \in Slots, NEW lent \in SUBSET Slots,
         \A u \in lent : Borrowed(u), ImportFails(s, lent),
         UNCHANGED <<datasetVars, trainings, buildVars>>
  PROVE  IInv'
<1> DEFINE m == [models[s] EXCEPT !.live = FALSE]
<1>1. models[s] \in Model /\ models' = [models EXCEPT ![s] = m]
  <2>1. models[s] \in Model
    BY Parts DEF TypeOK, ImportFails, HasProvenance
  <2>2. AfterBorrow(lent) = models
    BY BorrowKeeps
  <2> QED BY <2>1, <2>2 DEF ImportFails, MovedOut
<1>2. /\ m \in Model /\ m.provenance = models[s].provenance
      /\ m.training = models[s].training
  BY <1>1 DEF Model
<1>3. models[s].provenance.ivf_id = models[s].training
  BY Parts DEF ImportFails, ProvenanceTrue
<1>4. trainings' \in Nat
  BY Parts DEF TypeOK
<1> QED BY <1>1, <1>2, <1>3, <1>4, SlotIInv

\* Training an IVF model.
LEMMA TrainIvfIInv ==
  ASSUME IInv, NEW out \in Slots, NEW column \in Columns, NEW n \in Partitions,
         NEW metric \in Metrics, NEW selection \in Selections,
         TrainIvf(out, column, n, metric, selection)
  PROVE  IInv'
<1> DEFINE p == [ kind |-> "ivf", metric |-> metric, dimension |-> Dim[column],
                  ivf_id |-> trainings + 1, num_sub_vectors |-> 0, num_bits |-> 0 ]
           m == [ live |-> TRUE, sound |-> TRUE, length |-> n, list_size |-> Dim[column],
                  training |-> trainings + 1, provenance |-> p ]
<1>1. /\ Step /\ models' = [models EXCEPT ![out] = m] /\ trainings' = trainings + 1
      /\ UNCHANGED <<datasetVars, buildVars>>
  BY DEF TrainIvf
<1>2. trainings \in Nat /\ trainings + 1 \in Nat /\ Dim[column] \in Nat /\ n \in Nat
  BY Parts, SegmentAssumption DEF TypeOK
<1>3. p \in Provenance
  BY <1>2 DEF Provenance
<1>4. m \in Model
  BY <1>2, <1>3 DEF Model
<1> QED BY <1>1, <1>2, <1>4, SlotIInv

\* Training a PQ codebook with the centroids of slot in.
LEMMA TrainPqIInv ==
  ASSUME IInv, NEW out \in Slots, NEW in \in Slots, NEW column \in Columns,
         NEW subs \in SubVectors, NEW bits \in Bits, NEW metric \in Metrics,
         NEW selection \in Selections,
         TrainPq(out, in, column, subs, bits, metric, selection)
  PROVE  IInv'
<1> DEFINE ivf == models[in].provenance
           p == PqProvenance(ivf, subs, bits)
           m == [ live |-> TRUE, sound |-> TRUE, length |-> subs * 2^bits,
                  list_size |-> Dim[column] \div subs, training |-> models[in].training,
                  provenance |-> p ]
<1>1. /\ UNCHANGED <<datasetVars, trainings, buildVars>>
      /\ bits \in {4, 8} /\ subs # 0
      /\ \/ Step /\ ImportFails(in, {})
         \/ Step /\ Borrowed(in) /\ models' = [AfterBorrow({in}) EXCEPT ![out] = m]
         \/ Borrowed(in) /\ models' = AfterBorrow({in}) /\ UNCHANGED calls
  BY DEF TrainPq, TrainPqArguments
<1>5. Borrowed(in) => AfterBorrow({in}) = models
  BY BorrowKeeps
<1>2. CASE Step /\ ImportFails(in, {})
  BY <1>1, <1>2, ImportFailsIInv
<1>3. CASE Step /\ Borrowed(in) /\ models' = [models EXCEPT ![out] = m]
  <2>1. models[in] \in Model /\ ivf \in Provenance /\ ivf.ivf_id = models[in].training
    <3>1. models[in] \in Model /\ ivf # NoProvenance
      BY <1>3, Parts DEF Borrowed, HasProvenance
    <3>2. ivf \in Provenance
      BY <3>1 DEF Model
    <3> QED BY <1>3, <3>1, <3>2, Parts DEF Borrowed, ProvenanceTrue
  <2>2. subs \in Nat /\ bits \in Nat
    BY SegmentAssumption
  <2>3. p \in Provenance /\ p.ivf_id = ivf.ivf_id
    BY <2>1, <2>2 DEF Provenance, PqProvenance
  <2>4. 2^bits \in Nat
    BY <1>1, CodesPerBits
  <2>5. subs * 2^bits \in Nat
    BY <2>2, <2>4
  <2>6. Dim[column] \div subs \in Nat
    BY <1>1, <2>2, SegmentAssumption
  <2>7. models[in].training \in Nat
    BY <2>1 DEF Model
  <2>8. m \in Model
    BY <2>3, <2>5, <2>6, <2>7 DEF Model
  <2>9. trainings' \in Nat
    BY <1>1, Parts DEF TypeOK
  <2> QED BY <1>1, <1>3, <2>1, <2>3, <2>8, <2>9, SlotIInv
<1>4. CASE models' = models /\ UNCHANGED calls
  BY <1>1, <1>4, UnchangedIInv DEF vars, datasetVars, buildVars
<1> QED BY <1>1, <1>5, <1>2, <1>3, <1>4

\* The caller releases or ships a model.
LEMMA CallerIInv ==
  ASSUME IInv, NEW s \in Slots, Release(s) \/ Ship(s)
  PROVE  IInv'
<1>1. Step /\ models[s] # Empty /\ UNCHANGED <<datasetVars, trainings, buildVars>>
  BY DEF Release, Ship
<1>2. models[s] \in Model /\ trainings' \in Nat
  BY <1>1, Parts DEF TypeOK
<1>3. models[s].provenance # NoProvenance => models[s].provenance.ivf_id = models[s].training
  BY <1>1, Parts DEF ProvenanceTrue, HasProvenance
<1>4. CASE Release(s)
  BY <1>1, <1>2, <1>4, SlotIInv DEF Release
<1>5. ASSUME NEW n \in ShortLengths, models' = [models EXCEPT ![s].length = n] PROVE IInv'
  <2> DEFINE m == [models[s] EXCEPT !.length = n]
  <2>1. n \in Nat /\ models' = [models EXCEPT ![s] = m]
    BY <1>5, SegmentAssumption
  <2>2. /\ m \in Model /\ m.provenance = models[s].provenance
        /\ m.training = models[s].training
    BY <1>2, <2>1 DEF Model
  <2> QED BY <1>1, <1>2, <1>3, <2>1, <2>2, SlotIInv
<1>6. CASE models' = [models EXCEPT ![s].sound = FALSE]
  <2> DEFINE m == [models[s] EXCEPT !.sound = FALSE]
  <2>1. models' = [models EXCEPT ![s] = m]
    BY <1>6
  <2>2. /\ m \in Model /\ m.provenance = models[s].provenance
        /\ m.training = models[s].training
    BY <1>2 DEF Model
  <2> QED BY <1>1, <1>2, <1>3, <2>1, <2>2, SlotIInv
<1>7. CASE models' = [models EXCEPT ![s].provenance = NoProvenance]
  <2> DEFINE m == [models[s] EXCEPT !.provenance = NoProvenance]
  <2>1. models' = [models EXCEPT ![s] = m]
    BY <1>7
  <2>2. m \in Model /\ m.provenance = NoProvenance
    BY <1>2 DEF Model
  <2> QED BY <1>1, <1>2, <2>1, <2>2, SlotIInv
<1> QED BY <1>4, <1>5, <1>6, <1>7 DEF Ship

-----------------------------------------------------------------------------
(* Steps of a builder.                                                     *)

\* A builder handle gets a new builder, or none, and the metadata buffers the
\* caller has are added to.
LEMMA BuilderIInv ==
  ASSUME IInv, Step, NEW b \in Builders, NEW d \in Builder \cup {NoBuilder},
         builders' = [builders EXCEPT ![b] = d],
         d # NoBuilder => BuilderCovers(d) /\ SetAgrees(d),
         UNCHANGED <<datasetVars, models, trainings>>,
         segments' \in Seq(Segment), SegmentsCoverTheirSnapshot'
  PROVE  IInv'
<1>1. TypeOK /\ UNCHANGED <<fragments, version, committed, models, trainings>>
  BY Parts DEF datasetVars
<1>2. /\ builders' \in [Builders -> Builder \cup {NoBuilder}] /\ builders'[b] = d
      /\ \A c \in Builders : c # b => builders'[c] = builders[c]
  BY <1>1 DEF TypeOK
<1>3. TypeOK'
  BY <1>1, <1>2, StepType DEF TypeOK
<1>4. ProvenanceTrue'
  BY <1>1, Parts DEF ProvenanceTrue, HasProvenance
<1>5. \A c \in Builders : builders'[c] # NoBuilder =>
        BuilderCovers(builders'[c]) /\ SetAgrees(builders'[c])
  BY <1>2, Parts
<1>6. BuildersCover'
  BY <1>5 DEF BuildersCover
<1>7. ModelSetsAgree'
  BY <1>5 DEF ModelSetsAgree, SetAgrees
<1>8. IndexIsCoherent'
  BY <1>1, Parts DEF IndexIsCoherent
<1> QED BY <1>3, <1>4, <1>6, <1>7, <1>8 DEF IInv

\* What a selection that has been checked covers.
LEMMA SelectionCovers ==
  ASSUME NEW selection, SelectionOK(selection)
  PROVE  Coverage(selection, fragments) \subseteq fragments
BY DEF SelectionOK, Coverage

\* A scalar builder is made.
LEMMA NewScalarIInv ==
  ASSUME IInv, NEW b \in Builders, NEW column \in Columns, NEW mode \in Modes,
         NEW selection \in Selections, NewScalar(b, column, mode, selection)
  PROVE  IInv'
<1> DEFINE d == [ kind |-> "scalar", column |-> column, params |-> NoBuilder,
                  centroids |-> NoModel, codebook |-> NoModel, selection |-> selection,
                  snapshot |-> fragments, executed |-> FALSE ]
<1>1. /\ Step /\ builders' = [builders EXCEPT ![b] = d] /\ SelectionOK(selection)
      /\ UNCHANGED <<datasetVars, models, trainings, segments>>
  BY DEF NewScalar
<1>2. d \in Builder
  BY Parts DEF Builder, TypeOK
<1>3. Coverage(selection, fragments) \subseteq fragments
  BY <1>1, SelectionCovers
<1>4. BuilderCovers(d) /\ SetAgrees(d)
  BY <1>3 DEF BuilderCovers, SetAgrees
<1>5. segments' \in Seq(Segment) /\ SegmentsCoverTheirSnapshot'
  BY <1>1, Parts DEF TypeOK, SegmentsCoverTheirSnapshot
<1> QED BY <1>1, <1>2, <1>4, <1>5, BuilderIInv

\* The shape of a codebook: as many values as the centroids have dimensions,
\* for each code.
LEMMA CodebookShape ==
  ASSUME NEW dim \in Nat, NEW subs \in Nat, NEW codes \in Nat, subs # 0, dim % subs = 0
  PROVE  (subs * codes) * (dim \div subs) = dim * codes
<1> DEFINE q == dim \div subs
<1>1. q \in Nat /\ dim = subs * q
  OBVIOUS
<1> QED BY <1>1

\* A vector builder is made without a trace in the slots of the caller.
LEMMA NewVectorBorrows ==
  ASSUME IInv, NEW b, NEW column, NEW p, NEW mode, NEW selection,
         NEW in \in Slots \cup {NoSlot}, NEW code \in Slots \cup {NoSlot},
         NewVector(b, column, p, mode, selection, in, code)
  PROVE  models' = models
<1>1. /\ Lent(in, code) \in SUBSET Slots /\ \A s \in Lent(in, code) : Borrowed(s)
      /\ models' = AfterBorrow(Lent(in, code))
  BY DEF NewVector, Lent
<1> QED BY <1>1, BorrowKeeps

\* A vector builder is made.
LEMMA NewVectorIInv ==
  ASSUME IInv, NEW b \in Builders, NEW column \in Columns, NEW p \in VectorParams,
         NEW mode \in Modes, NEW selection \in Selections,
         NEW in \in Slots \cup {NoSlot}, NEW code \in Slots \cup {NoSlot},
         NewVector(b, column, p, mode, selection, in, code)
  PROVE  IInv'
<1> DEFINE k == Taken(code)
           i == Taken(in)
           d == [ kind |-> "vector", column |-> column, params |-> p,
                  centroids |-> i, codebook |-> k, selection |-> selection,
                  snapshot |-> fragments, executed |-> FALSE ]
<1>1. /\ Step /\ builders' = [builders EXCEPT ![b] = d] /\ SelectionOK(selection)
      /\ UNCHANGED <<datasetVars, models, trainings, segments>>
      /\ in # NoSlot => Borrowed(in) /\ CentroidsFit(p, Dim[column], models[in])
      /\ code # NoSlot => Borrowed(code) /\ CodebookFits(p, Dim[column], i, models[code])
      /\ ModelsWanted(p, mode, i, k) /\ BuildsParams(p) /\ DotNeedsAll(p, k, selection)
  BY NewVectorBorrows DEF NewVector, Lent
<1>2. /\ in # NoSlot => i = models[in] /\ i \in Model /\ i.provenance.ivf_id = i.training
      /\ in = NoSlot => i = NoModel
  BY <1>1, Parts DEF Taken, Borrowed, HasProvenance, ProvenanceTrue
<1>3. /\ code # NoSlot => k = models[code] /\ k \in Model /\ k.provenance.ivf_id = k.training
      /\ code = NoSlot => k = NoModel
  BY <1>1, Parts DEF Taken, Borrowed, HasProvenance, ProvenanceTrue
<1>4. d \in Builder
  BY <1>2, <1>3, Parts DEF Builder, TypeOK
<1>5. Coverage(selection, fragments) \subseteq fragments
  BY <1>1, SelectionCovers
<1>6. p \in Params /\ p.num_bits \in Nat /\ p.num_sub_vectors \in Nat
  BY SegmentAssumption DEF Params
<1>7. k # NoModel => IsPq(p)
  BY <1>1 DEF ModelsWanted
<1>8. BuilderCovers(d)
  <2>1. p # NoBuilder
    BY <1>6 DEF Params, NoBuilder
  <2>2. k # NoModel /\ p.metric = "Dot" => Coverage(selection, fragments) = fragments
    BY <1>1, <1>7 DEF DotNeedsAll, Coverage
  <2> QED BY <1>5, <2>1, <2>2 DEF BuilderCovers
<1>9. ASSUME k # NoModel
      PROVE  /\ i # NoModel /\ k.training = i.training
             /\ i.length = p.num_partitions
             /\ k.length * k.list_size = i.list_size * 2^EffectiveBits(p)
  <2>1. code # NoSlot /\ CodebookFits(p, Dim[column], i, k)
    BY <1>1, <1>3, <1>9
  <2>2. i # NoModel /\ i.provenance.ivf_id = k.provenance.ivf_id
    BY <2>1 DEF CodebookFits
  <2>3. in # NoSlot /\ CentroidsFit(p, Dim[column], i)
    BY <1>1, <1>2, <2>2
  <2>4. k.training = i.training
    BY <1>2, <1>3, <2>1, <2>2, <2>3
  <2>5. /\ k.length = p.num_sub_vectors * 2^EffectiveBits(p)
        /\ k.list_size = Dim[column] \div p.num_sub_vectors
        /\ p.num_sub_vectors # 0 /\ Dim[column] % p.num_sub_vectors = 0
    BY <2>1 DEF CodebookFits
  <2>6. 2^EffectiveBits(p) \in Nat
    <3>1. EffectiveBits(p) \in {4, 8}
      BY <1>1, <1>7, <1>9 DEF BuildsParams
    <3> QED BY <3>1, CodesPerBits
  <2>7. Dim[column] \in Nat
    BY SegmentAssumption
  <2>8. k.length * k.list_size = Dim[column] * 2^EffectiveBits(p)
    BY <1>6, <2>5, <2>6, <2>7, CodebookShape
  <2> QED BY <2>2, <2>3, <2>4, <2>8 DEF CentroidsFit
<1>10. SetAgrees(d)
  BY <1>9 DEF SetAgrees
<1>11. segments' \in Seq(Segment) /\ SegmentsCoverTheirSnapshot'
  BY <1>1, Parts DEF TypeOK, SegmentsCoverTheirSnapshot
<1> QED BY <1>1, <1>4, <1>8, <1>10, <1>11, BuilderIInv

\* A builder is freed.
LEMMA FreeBuilderIInv ==
  ASSUME IInv, NEW b \in Builders, FreeBuilder(b)
  PROVE  IInv'
<1>1. /\ Step /\ builders' = [builders EXCEPT ![b] = NoBuilder]
      /\ UNCHANGED <<datasetVars, models, trainings, segments>>
  BY DEF FreeBuilder
<1>2. segments' \in Seq(Segment) /\ SegmentsCoverTheirSnapshot'
  BY <1>1, Parts DEF TypeOK, SegmentsCoverTheirSnapshot
<1> QED BY <1>1, <1>2, BuilderIInv

\* What a builder builds is a segment that keeps its promise.
LEMMA BuiltFacts ==
  ASSUME IInv, NEW b \in Builders, builders[b] # NoBuilder, NEW uuid \in Nat
  PROVE  /\ Built(b, uuid) \in Segment
         /\ Built(b, uuid).coverage \subseteq Built(b, uuid).snapshot
         /\ Built(b, uuid).supplied /\ Built(b, uuid).metric = "Dot"
              => Built(b, uuid).coverage = Built(b, uuid).snapshot
<1> DEFINE d == builders[b]
           metric == IF d.kind = "vector" THEN d.params.metric ELSE "none"
           c == Coverage(d.selection, d.snapshot)
<1>1. d \in Builder /\ BuilderCovers(d)
  BY Parts
<1>2. /\ d.kind \in {"scalar", "vector"} /\ d.column \in Columns
      /\ d.snapshot \in SUBSET Fragments /\ d.params \in VectorParams \cup {NoBuilder}
  BY <1>1 DEF Builder
<1>3. metric \in MetricTypes \cup {"none"}
  <2>1. CASE d.kind = "vector"
    <3>1. d.params \in Params
      BY <1>1, <1>2, <2>1, SegmentAssumption DEF BuilderCovers
    <3> QED BY <2>1, <3>1 DEF Params
  <2> QED BY <1>2, <2>1
<1>4. c \in SUBSET Fragments /\ c \subseteq d.snapshot
  BY <1>1, <1>2 DEF BuilderCovers
<1>5. (d.codebook # NoModel) \in BOOLEAN
  OBVIOUS
<1>6. Built(b, uuid) = [ uuid |-> uuid, kind |-> d.kind, column |-> d.column,
                         metric |-> metric, supplied |-> d.codebook # NoModel,
                         coverage |-> c, snapshot |-> d.snapshot, decodable |-> TRUE ]
  BY DEF Built
<1>7. Built(b, uuid) \in Segment
  BY <1>2, <1>3, <1>4, <1>5, <1>6 DEF Segment
<1>8. d.codebook # NoModel /\ metric = "Dot" => c = d.snapshot
  BY <1>1 DEF BuilderCovers
<1>9. /\ Built(b, uuid).coverage = c /\ Built(b, uuid).snapshot = d.snapshot
      /\ Built(b, uuid).supplied = (d.codebook # NoModel) /\ Built(b, uuid).metric = metric
  BY <1>6
<1> QED BY <1>4, <1>7, <1>8, <1>9

\* A builder is spent, with or without a segment.
LEMMA ExecuteIInv ==
  ASSUME IInv, NEW b \in Builders, Execute(b)
  PROVE  IInv'
<1> DEFINE d == [builders[b] EXCEPT !.executed = TRUE]
<1>1. /\ Step /\ builders[b] # NoBuilder /\ builders' = [builders EXCEPT ![b] = d]
      /\ UNCHANGED <<datasetVars, models, trainings>>
  BY DEF Execute
<1>2. builders[b] \in Builder /\ BuilderCovers(builders[b]) /\ SetAgrees(builders[b])
  BY <1>1, Parts
<1>3. /\ d \in Builder /\ d.kind = builders[b].kind /\ d.params = builders[b].params
      /\ d.codebook = builders[b].codebook /\ d.centroids = builders[b].centroids
      /\ d.selection = builders[b].selection /\ d.snapshot = builders[b].snapshot
  BY <1>2 DEF Builder
<1>4. BuilderCovers(d) /\ SetAgrees(d)
  BY <1>2, <1>3 DEF BuilderCovers, SetAgrees
<1>5. segments \in Seq(Segment) /\ SegmentsCoverTheirSnapshot
  BY Parts DEF TypeOK
<1>6. segments' \in Seq(Segment) /\ SegmentsCoverTheirSnapshot'
  <2>1. CASE segments' = segments
    BY <1>5, <2>1 DEF SegmentsCoverTheirSnapshot
  <2>2. ASSUME NEW uuid \in 1..(Len(segments) + 1), segments' = Append(segments, Built(b, uuid))
        PROVE  segments' \in Seq(Segment) /\ SegmentsCoverTheirSnapshot'
    <3> DEFINE g == Built(b, uuid)
    <3>1. /\ g \in Segment /\ g.coverage \subseteq g.snapshot
          /\ g.supplied /\ g.metric = "Dot" => g.coverage = g.snapshot
      BY <1>1, BuiltFacts
    <3>2. /\ segments' \in Seq(Segment) /\ Len(segments') = Len(segments) + 1
          /\ DOMAIN segments' = 1..Len(segments') /\ DOMAIN segments = 1..Len(segments)
          /\ Len(segments) \in Nat
          /\ \A j \in 1..Len(segments) : segments'[j] = segments[j]
          /\ segments'[Len(segments) + 1] = g
      <4> HIDE DEF g
      <4> QED BY <1>5, <2>2, <3>1 DEF g
    <3>3. ASSUME NEW j \in DOMAIN segments'
          PROVE  /\ segments'[j].coverage \subseteq segments'[j].snapshot
                 /\ segments'[j].supplied /\ segments'[j].metric = "Dot"
                      => segments'[j].coverage = segments'[j].snapshot
      <4>1. CASE j \in 1..Len(segments)
        BY <1>5, <3>2, <4>1 DEF SegmentsCoverTheirSnapshot
      <4>2. CASE j = Len(segments) + 1
        BY <3>1, <3>2, <4>2
      <4> QED BY <3>2, <4>1, <4>2
    <3> QED BY <3>2, <3>3 DEF SegmentsCoverTheirSnapshot
  <2> QED BY <2>1, <2>2 DEF Execute
<1> QED BY <1>1, <1>3, <1>4, <1>6, BuilderIInv

-----------------------------------------------------------------------------
(* Buffers, commits and the dataset.                                       *)

\* A buffer is damaged.
LEMMA DamageIInv ==
  ASSUME IInv, NEW i \in DOMAIN segments, DamageBuffer(i)
  PROVE  IInv'
<1> DEFINE g == [segments[i] EXCEPT !.decodable = FALSE]
<1>1. /\ Step /\ segments' = [segments EXCEPT ![i] = g]
      /\ UNCHANGED <<fragments, version, committed, models, trainings, builders>>
  BY DEF DamageBuffer, datasetVars
<1>2. segments \in Seq(Segment) /\ i \in 1..Len(segments) /\ segments[i] \in Segment
  BY Parts DEF TypeOK
<1>3. /\ g \in Segment /\ g.coverage = segments[i].coverage /\ g.snapshot = segments[i].snapshot
      /\ g.supplied = segments[i].supplied /\ g.metric = segments[i].metric
  BY <1>2 DEF Segment
<1>4. segments' \in Seq(Segment)
  BY <1>1, <1>2, <1>3, ExceptSeq
<1>5. TypeOK'
  BY <1>1, <1>4, Parts, StepType DEF TypeOK
<1>6. SegmentsCoverTheirSnapshot'
  BY <1>1, <1>3, Parts DEF SegmentsCoverTheirSnapshot
<1>7. ProvenanceTrue' /\ BuildersCover' /\ ModelSetsAgree' /\ IndexIsCoherent'
  BY <1>1, Parts DEF ProvenanceTrue, HasProvenance, BuildersCover, ModelSetsAgree, IndexIsCoherent
<1> QED BY <1>5, <1>6, <1>7 DEF IInv

\* The handle moves to another version.
LEMMA MoveHandleIInv ==
  ASSUME IInv, MoveHandle
  PROVE  IInv'
<1>1. /\ Step /\ fragments' \subseteq Fragments /\ version' = version + 1
      /\ UNCHANGED <<committed, models, trainings, builders, segments>>
  BY DEF MoveHandle, buildVars
<1>2. TypeOK'
  BY <1>1, Parts, StepType DEF TypeOK
<1>3. ProvenanceTrue' /\ BuildersCover' /\ ModelSetsAgree' /\ IndexIsCoherent'
  BY <1>1, Parts DEF ProvenanceTrue, HasProvenance, BuildersCover, ModelSetsAgree, IndexIsCoherent
<1>4. SegmentsCoverTheirSnapshot'
  BY <1>1, Parts DEF SegmentsCoverTheirSnapshot
<1> QED BY <1>2, <1>3, <1>4 DEF IInv

\* Segments are committed.
LEMMA CommitIInv ==
  ASSUME IInv, NEW chosen \in SUBSET DOMAIN segments, NEW column \in Columns,
         CommitIndexSegments(chosen, column)
  PROVE  IInv'
<1> DEFINE taken == Decoded(chosen)
           incoming == {segments[i] : i \in taken}
           kept == Retained(incoming, column)
<1>1. /\ Step /\ Distinct(taken) /\ Committable(incoming, column)
      /\ committed' = (committed \ Existing(column)) \cup kept \cup incoming
      /\ version' = version + 1
      /\ UNCHANGED <<fragments, models, trainings, builders, segments>>
  BY DEF CommitIndexSegments, buildVars
<1>2. taken \subseteq DOMAIN segments /\ incoming \subseteq Segment
  <2>1. taken \subseteq DOMAIN segments
    BY DEF Decoded
  <2> QED BY <2>1, Parts DEF TypeOK
<1>3. kept \subseteq committed /\ \A x \in kept : x.column = column
  BY DEF Retained, Existing
<1>4. TypeOK'
  BY <1>1, <1>2, <1>3, Parts, StepType DEF TypeOK
<1>5. \A x, y \in incoming : x.column = column /\ x.kind = y.kind /\ x.metric = y.metric
                             /\ (x # y => x.coverage \cap y.coverage = {})
  <2>1. \A x, y \in incoming : x.column = column /\ x.kind = y.kind /\ x.metric = y.metric
    BY <1>1 DEF Committable
  <2>2. \A x, y \in incoming : x # y => x.coverage \cap y.coverage = {}
    BY <1>1 DEF Distinct
  <2> QED BY <2>1, <2>2
<1>6. \A x \in kept, y \in incoming : x.kind = y.kind /\ x.metric = y.metric
                                      /\ x.coverage \cap y.coverage = {}
  <2>1. \A x \in kept, y \in incoming : x.metric = y.metric
    BY <1>1 DEF Committable
  <2>2. \A x \in kept, y \in incoming : x.kind = y.kind /\ x.coverage \cap y.coverage = {}
    BY DEF Retained
  <2> QED BY <2>1, <2>2
<1>7. IndexIsCoherent'
  <2> SUFFICES ASSUME NEW x \in committed', NEW y \in committed', x.column = y.column
               PROVE  /\ x.kind = y.kind /\ x.metric = y.metric
                      /\ x # y => x.coverage \cap y.coverage = {}
    BY DEF IndexIsCoherent
  <2>1. \A z \in committed' : z \in committed \/ z \in incoming
    BY <1>1, <1>3
  <2>2. \A z \in committed' : z.column = column => z \in kept \/ z \in incoming
    BY <1>1 DEF Existing
  <2>3. CASE x \in committed /\ y \in committed
    BY <2>3, Parts DEF IndexIsCoherent
  <2>4. CASE x \in incoming
    <3>1. y \in kept \/ y \in incoming
      BY <1>5, <2>2, <2>4
    <3> QED BY <1>5, <1>6, <2>4, <3>1
  <2>5. CASE y \in incoming
    <3>1. x \in kept \/ x \in incoming
      BY <1>5, <2>2, <2>5
    <3> QED BY <1>5, <1>6, <2>5, <3>1
  <2> QED BY <2>1, <2>3, <2>4, <2>5
<1>8. ProvenanceTrue' /\ BuildersCover' /\ ModelSetsAgree'
  BY <1>1, Parts DEF ProvenanceTrue, HasProvenance, BuildersCover, ModelSetsAgree
<1>9. SegmentsCoverTheirSnapshot'
  BY <1>1, Parts DEF SegmentsCoverTheirSnapshot
<1> QED BY <1>4, <1>7, <1>8, <1>9 DEF IInv

-----------------------------------------------------------------------------
(* Every step.                                                             *)

\* A vector builder that fails may leave one slot released, whose import failed,
\* and leaves what else it borrowed as it was.
LEMMA NewVectorFailsFacts ==
  ASSUME IInv, NEW selection \in Selections, NEW in \in Slots \cup {NoSlot},
         NEW code \in Slots \cup {NoSlot}, NewVectorFails(selection, in, code)
  PROVE  /\ UNCHANGED <<datasetVars, trainings, buildVars>>
         /\ \/ UNCHANGED <<models, calls>>
            \/ Step /\ \E s \in Slots, lent \in SUBSET Slots :
                        ImportFails(s, lent) /\ \A u \in lent : Borrowed(u)
<1>1. UNCHANGED <<datasetVars, trainings, buildVars>>
  BY DEF NewVectorFails
<1>2. CASE Step /\ in # NoSlot /\ ImportFails(in, {})
  BY <1>1, <1>2
<1>3. CASE /\ Step /\ code # NoSlot
           /\ in # NoSlot => Borrowed(in)
           /\ ImportFails(code, Lent(in, NoSlot))
  <2>1. Lent(in, NoSlot) \in SUBSET Slots /\ \A u \in Lent(in, NoSlot) : Borrowed(u)
    BY <1>3 DEF Lent
  <2> QED BY <1>1, <1>3, <2>1
<1>4. CASE /\ \A s \in Lent(in, code) : Borrowed(s)
           /\ models' = AfterBorrow(Lent(in, code)) /\ UNCHANGED calls
  <2>1. Lent(in, code) \in SUBSET Slots
    BY DEF Lent
  <2> QED BY <1>1, <1>4, <2>1, BorrowKeeps
<1> QED BY <1>2, <1>3, <1>4 DEF NewVectorFails

\* Every step preserves the invariant.
LEMMA NextIInv ==
  ASSUME IInv, [Next]_vars
  PROVE  IInv'
<1>1. CASE TrainStep
  BY <1>1, TrainIvfIInv, TrainPqIInv DEF TrainStep
<1>2. CASE NewStep
  <2>1. PICK selection \in Selections :
          \/ \E b \in Builders, column \in Columns, mode \in Modes :
               \/ NewScalar(b, column, mode, selection)
               \/ \E p \in VectorParams, in, code \in Slots \cup {NoSlot} :
                    NewVector(b, column, p, mode, selection, in, code)
          \/ \E in, code \in Slots \cup {NoSlot} : NewVectorFails(selection, in, code)
    BY <1>2 DEF NewStep, FreeHandles
  <2>2. ASSUME NEW in \in Slots \cup {NoSlot}, NEW code \in Slots \cup {NoSlot},
               NewVectorFails(selection, in, code)
        PROVE  IInv'
    <3>1. UNCHANGED <<datasetVars, trainings, buildVars>>
      BY <2>2, NewVectorFailsFacts
    <3>2. CASE UNCHANGED <<models, calls>>
      BY <3>1, <3>2, UnchangedIInv DEF vars, datasetVars, buildVars
    <3>3. ASSUME Step, NEW s \in Slots, NEW lent \in SUBSET Slots, ImportFails(s, lent),
                 \A u \in lent : Borrowed(u)
          PROVE  IInv'
      BY <3>1, <3>3, ImportFailsIInv
    <3> QED BY <2>2, <3>2, <3>3, NewVectorFailsFacts
  <2> QED BY <2>1, <2>2, NewScalarIInv, NewVectorIInv
<1>3. CASE CallerStep
  BY <1>3, CallerIInv, DamageIInv DEF CallerStep
<1>4. CASE CommitStep
  BY <1>4, CommitIInv DEF CommitStep
<1>5. CASE MoveHandle \/ \E b \in Builders : Execute(b) \/ FreeBuilder(b)
  BY <1>5, MoveHandleIInv, ExecuteIInv, FreeBuilderIInv
<1>6. CASE UNCHANGED vars
  BY <1>6, UnchangedIInv
<1> QED BY <1>1, <1>2, <1>3, <1>4, <1>5, <1>6 DEF Next

\* There are neither models nor builders nor segments.
LEMMA InitIInv == Init => IInv
<1> SUFFICES ASSUME Init PROVE IInv
  OBVIOUS
<1>1. TypeOK
  BY SegmentAssumption DEF Init, TypeOK
<1>2. \A s \in Slots : models[s] = Empty
  BY DEF Init
<1>3. \A b \in Builders : builders[b] = NoBuilder
  BY DEF Init
<1>4. SegmentsCoverTheirSnapshot /\ IndexIsCoherent
  BY DEF Init, SegmentsCoverTheirSnapshot, IndexIsCoherent
<1> QED BY <1>1, <1>2, <1>3, <1>4
           DEF IInv, ProvenanceTrue, HasProvenance, BuildersCover, ModelSetsAgree

\* The inductive invariant holds throughout.
LEMMA Inductive == Spec => []IInv
<1>1. IInv /\ [Next]_vars => IInv'
  BY NextIInv
<1> QED BY <1>1, InitIInv, PTL DEF Spec

-----------------------------------------------------------------------------
(* Theorems.                                                               *)

\* Models, builders and segments keep their types.
THEOREM TypeCorrect == Spec => []TypeOK
<1>1. IInv => TypeOK
  BY DEF IInv
<1> QED BY <1>1, Inductive, PTL

\* A builder never pairs a codebook with centroids of another IVF training, and
\* the sizes fit, for every dimension and number of sub-vectors.  A slice of the
\* centroids is of their training.
THEOREM ModelSetsMatch == Spec => []ModelSetsAgree
<1>1. IInv => ModelSetsAgree
  BY DEF IInv
<1> QED BY <1>1, Inductive, PTL

\* Segments stay within the snapshot of their builder, and fill it when a DOT
\* codebook was supplied.
THEOREM SegmentsMatchSnapshot == Spec => []SegmentsCoverTheirSnapshot
<1>1. IInv => SegmentsCoverTheirSnapshot
  BY DEF IInv
<1> QED BY <1>1, Inductive, PTL

\* No sequence of commits leaves a column with segments of two types or
\* metrics, or with a fragment in two segments.
THEOREM CommitsKeepIndexCoherent == Spec => []IndexIsCoherent
<1>1. IInv => IndexIsCoherent
  BY DEF IInv
<1> QED BY <1>1, Inductive, PTL

\* A step that changes a slot the caller has filled releases or ships it, or
\* failed to import an unsound array.
LEMMA SlotSteps ==
  ASSUME IInv, Next, NEW s \in Slots, models[s] # Empty, models'[s] # models[s]
  PROVE  ~models[s].sound \/ Release(s) \/ Ship(s)
<1>1. models \in [Slots -> Model \cup {Empty}]
  BY Parts DEF TypeOK
<1>2. ASSUME NEW u \in Slots, NEW lent \in SUBSET Slots, ImportFails(u, lent),
             \A v \in lent : Borrowed(v)
      PROVE  ~models[s].sound
  <2>1. AfterBorrow(lent) = models
    BY <1>2, BorrowKeeps
  <2>2. s = u
    BY <1>1, <1>2, <2>1 DEF ImportFails
  <2> QED BY <1>2, <2>2 DEF ImportFails
<1>3. ASSUME NEW out \in Slots, NEW m, models[out] = Empty, models' = [models EXCEPT ![out] = m]
      PROVE  FALSE
  BY <1>1, <1>3
<1>4. CASE TrainStep
  <2>1. PICK out \in Slots, column \in Columns, metric \in Metrics, selection \in Selections :
          \/ \E n \in Partitions : TrainIvf(out, column, n, metric, selection)
          \/ \E in \in Slots, subs \in SubVectors, bits \in Bits :
               TrainPq(out, in, column, subs, bits, metric, selection)
    BY <1>4 DEF TrainStep
  <2>2. models[out] = Empty
    BY <2>1 DEF TrainIvf, TrainPq, TrainPqArguments, TrainCommon
  <2>3. ASSUME NEW n \in Partitions, TrainIvf(out, column, n, metric, selection)
        PROVE  FALSE
    BY <1>3, <2>2, <2>3 DEF TrainIvf
  <2>4. ASSUME NEW in \in Slots, NEW subs \in SubVectors, NEW bits \in Bits,
               TrainPq(out, in, column, subs, bits, metric, selection)
        PROVE  ~models[s].sound
    <3>1. Borrowed(in) => AfterBorrow({in}) = models
      BY BorrowKeeps
    <3>2. ImportFails(in, {}) => ~models[s].sound
      BY <1>2
    <3> QED BY <1>3, <2>2, <2>4, <3>1, <3>2 DEF TrainPq
  <2> QED BY <2>1, <2>3, <2>4
<1>5. CASE NewStep
  <2>1. \/ models' = models
        \/ \E u \in Slots, lent \in SUBSET Slots :
             ImportFails(u, lent) /\ \A v \in lent : Borrowed(v)
    BY <1>5, NewVectorFailsFacts, NewVectorBorrows DEF NewStep, NewScalar
  <2> QED BY <1>2, <2>1
<1>6. ASSUME NEW u \in Slots, Release(u) \/ Ship(u) PROVE Release(s) \/ Ship(s)
  <2>1. u = s
    BY <1>1, <1>6 DEF Release, Ship
  <2> QED BY <1>6, <2>1
<1>7. CASE \/ \E i \in DOMAIN segments : DamageBuffer(i)
           \/ CommitStep \/ MoveHandle
           \/ \E b \in Builders : Execute(b) \/ FreeBuilder(b)
  BY <1>7 DEF DamageBuffer, CommitStep, CommitIndexSegments, MoveHandle, Execute, FreeBuilder
<1> QED BY <1>4, <1>5, <1>6, <1>7 DEF Next, CallerStep

\* The library only borrows models: success, refusal or failure of a call
\* leaves a sound one in its slot.
THEOREM ModelsAreBorrowed == Spec => ModelsStayWithCaller
<1>1. IInv /\ [Next]_vars =>
        [\A s \in Slots :
           models[s] # Empty /\ models'[s] # models[s]
             => ~models[s].sound \/ Release(s) \/ Ship(s)]_vars
  BY SlotSteps
<1> QED BY <1>1, Inductive, PTL DEF Spec, ModelsStayWithCaller

\* A commit takes every buffer it was handed, or nothing.
THEOREM CommitsAreWhole == Spec => CommitIsAllOrNothing
<1>1. ASSUME NEW chosen \in SUBSET DOMAIN segments, NEW column \in Columns,
             CommitIndexSegments(chosen, column), NEW i \in chosen
      PROVE  segments[i] \in committed'
  <2> DEFINE incoming == {segments[j] : j \in Decoded(chosen)}
  <2>1. Decoded(chosen) = chosen
    BY <1>1 DEF CommitIndexSegments, Decoded
  <2>2. incoming \subseteq committed'
    BY <1>1 DEF CommitIndexSegments
  <2> QED BY <2>1, <2>2
<1>2. [Next]_vars =>
        [version' # version =>
           \A chosen \in SUBSET DOMAIN segments, column \in Columns :
             CommitIndexSegments(chosen, column)
               => \A i \in chosen : segments[i] \in committed']_vars
  BY <1>1
<1> QED BY <1>2, PTL DEF Spec, CommitIsAllOrNothing

-----------------------------------------------------------------------------
(* Choosing a segment (ScalarIndexSelection).                              *)

\* What the budgets lack is what the probes have charged.
Charged == opened = MaxBytes - bytes /\ held = MaxDecoded - decoded

\* Before the comparison nothing has been probed.
Fresh == phase = "grouping" => probes = <<>> /\ selected = 1

\* During the comparison the selected segment is the first of the cheapest.
Best ==
  phase = "comparing" =>
    /\ Estimated(1) /\ Estimated(selected)
    /\ cost = Cost(probes[selected])
    /\ \A i \in 1..Len(probes) : Estimated(i) =>
         /\ cost <= Cost(probes[i])
         /\ i < selected => cost < Cost(probes[i])

\* The inductive invariant.
SelectionIInv ==
  /\ SelectionTypeOK /\ Charged /\ Fresh /\ Best
  /\ Len(probes) <= MaxCandidates
  /\ CheapestIsSelected /\ FullScanIsJustified

-----------------------------------------------------------------------------

\* Costs saturate and keep the order of the products below the limit.
LEMMA CostFacts ==
  \A n \in Nat :
    /\ Cost(n) \in 0..MaxU64 /\ Cost(n) <= n
    /\ \A r \in 0..MaxU64 : Cost(n) >= r <=> n >= r
    /\ Cost(n) < MaxU64 => Cost(n) = n
BY SelectionAssumption DEF Cost

\* A probe adds one result and charges what it uses to the budgets.
LEMMA ProbeFacts ==
  ASSUME SelectionTypeOK, Charged, Probe
  PROVE  /\ bytes' \in 0..MaxBytes /\ decoded' \in 0..MaxDecoded
         /\ opened' \in Nat /\ held' \in Nat /\ Charged'
         /\ probes' \in Seq(Nat \cup {Unknown})
         /\ Len(probes') = Len(probes) + 1
         /\ \A i \in 1..Len(probes) : probes'[i] = probes[i]
         /\ Latest \in Nat \cup {Unknown}
         /\ Latest = probes'[Len(probes) + 1]
<1>1. ASSUME NEW n \in Nat \cup {Unknown}, Report(n)
      PROVE  /\ probes' \in Seq(Nat \cup {Unknown})
             /\ Len(probes') = Len(probes) + 1
             /\ \A i \in 1..Len(probes) : probes'[i] = probes[i]
             /\ Latest \in Nat \cup {Unknown}
             /\ Latest = probes'[Len(probes) + 1]
  BY <1>1 DEF SelectionTypeOK, Report, Latest
<1>2. \A rows \in PageRows, pages \in Pages : rows * pages \in Nat
  BY SelectionAssumption
<1>3. \E n \in Nat \cup {Unknown} : Report(n)
  BY <1>2 DEF Probe, NotProbed, LoadFails, TooLarge, Unestimable, Estimate
<1>4. /\ bytes' \in 0..MaxBytes /\ opened' \in Nat
      /\ opened' = MaxBytes - bytes'
  BY SelectionAssumption
     DEF Probe, NotProbed, LoadFails, TooLarge, Unestimable, Estimate,
         Open, budget, SelectionTypeOK, Charged
<1>5. /\ decoded' \in 0..MaxDecoded /\ held' \in Nat
      /\ held' = MaxDecoded - decoded'
  BY SelectionAssumption
     DEF Probe, NotProbed, LoadFails, TooLarge, Unestimable, Estimate,
         Decode, budget, SelectionTypeOK, Charged
<1> QED BY <1>1, <1>3, <1>4, <1>5 DEF Charged

\* Before the first probe the budgets are whole.
LEMMA SelectionInitIInv == SelectionInit => SelectionIInv
BY SelectionAssumption
   DEF SelectionInit, SelectionIInv, SelectionTypeOK, Charged, Fresh, Best,
       CheapestIsSelected, FullScanIsJustified, Unknown

\* The probe of the grouping segment establishes the comparison.
LEMMA GroupingIInv == SelectionIInv /\ ProbeGrouping => SelectionIInv'
<1> SUFFICES ASSUME SelectionIInv, ProbeGrouping PROVE SelectionIInv'
  OBVIOUS
<1> USE SelectionAssumption
<1>1. /\ phase = "grouping" /\ probes = <<>> /\ selected = 1 /\ selected' = 1
      /\ met' = met
  BY DEF ProbeGrouping, SelectionIInv, Fresh
<1>2. /\ bytes' \in 0..MaxBytes /\ decoded' \in 0..MaxDecoded
      /\ opened' \in Nat /\ held' \in Nat /\ Charged'
      /\ probes' \in Seq(Nat \cup {Unknown}) /\ Len(probes') = 1
      /\ Latest \in Nat \cup {Unknown} /\ Latest = probes'[1]
  BY <1>1, ProbeFacts DEF ProbeGrouping, SelectionIInv
<1>3. CASE Latest = Unknown /\ phase' = "done" /\ cost' = cost
  BY <1>1, <1>2, <1>3
     DEF SelectionIInv, SelectionTypeOK, Fresh, Best, CheapestIsSelected, FullScanIsJustified,
         Estimated, FullScan
<1>4. CASE Latest # Unknown /\ phase' = "comparing" /\ cost' = Cost(Latest)
  <2>1. cost' \in 0..MaxU64
    BY <1>2, <1>4, CostFacts
  <2> QED BY <1>1, <1>2, <1>4, <2>1
             DEF SelectionIInv, SelectionTypeOK, Fresh, Best, CheapestIsSelected,
                 FullScanIsJustified, Estimated, FullScan
<1> QED BY <1>3, <1>4 DEF ProbeGrouping

\* A comparison keeps the first of the cheapest selected.
LEMMA CompareIInv == SelectionIInv /\ Compare => SelectionIInv'
<1> SUFFICES ASSUME SelectionIInv, Compare PROVE SelectionIInv'
  OBVIOUS
<1> USE SelectionAssumption
<1> DEFINE last == Len(probes) + 1
<1>1. /\ phase = "comparing" /\ phase' = phase /\ met' \in 0..MaxIndices
      /\ Len(probes) < MaxCandidates /\ Len(probes) \in Nat
  BY DEF Compare, SelectionIInv, SelectionTypeOK
<1>2. /\ bytes' \in 0..MaxBytes /\ decoded' \in 0..MaxDecoded
      /\ opened' \in Nat /\ held' \in Nat /\ Charged'
      /\ probes' \in Seq(Nat \cup {Unknown}) /\ Len(probes') = last
      /\ \A i \in 1..Len(probes) : probes'[i] = probes[i]
      /\ Latest \in Nat \cup {Unknown} /\ Latest = probes'[last]
  BY ProbeFacts DEF Compare, SelectionIInv
<1>3. \A i \in 1..Len(probes) : Estimated(i)' <=> Estimated(i)
  BY <1>1, <1>2 DEF Estimated
<1>4. /\ Estimated(1) /\ Estimated(selected) /\ cost = Cost(probes[selected])
      /\ 1 \in 1..Len(probes) /\ selected \in 1..Len(probes)
      /\ \A i \in 1..Len(probes) : Estimated(i) =>
           /\ cost <= Cost(probes[i])
           /\ i < selected => cost < Cost(probes[i])
  BY <1>1 DEF SelectionIInv, Best, Estimated
<1>5. \A i \in 1..Len(probes) : Estimated(i) => Cost(probes[i]) \in 0..MaxU64
  <2>1. \A i \in 1..Len(probes) : Estimated(i) => probes[i] \in Nat
    BY DEF Estimated, SelectionIInv, SelectionTypeOK
  <2> QED BY <2>1, CostFacts
<1>6. cost \in 0..MaxU64 /\ (Latest # Unknown => Cost(Latest) \in 0..MaxU64)
  BY <1>2, CostFacts DEF SelectionIInv, SelectionTypeOK
<1>7. CASE Latest # Unknown /\ Cost(Latest) < cost /\ cost' = Cost(Latest)
           /\ selected' = Len(probes')
  <2>1. Estimated(1)' /\ Estimated(selected)' /\ cost' = Cost(probes'[selected'])
    BY <1>1, <1>2, <1>4, <1>7 DEF Estimated
  <2>2. ASSUME NEW i \in 1..Len(probes'), Estimated(i)'
        PROVE  cost' <= Cost(probes'[i]) /\ (i < selected' => cost' < Cost(probes'[i]))
    <3>1. CASE i \in 1..Len(probes)
      <4>1. Estimated(i) /\ probes'[i] = probes[i]
        BY <1>2, <1>3, <2>2, <3>1
      <4>2. cost <= Cost(probes[i]) /\ Cost(probes[i]) \in 0..MaxU64
        BY <1>4, <1>5, <3>1, <4>1
      <4> QED BY <1>6, <1>7, <4>1, <4>2
    <3>2. CASE i = last
      <4>1. probes'[i] = Latest /\ selected' = i /\ i \in Nat
        BY <1>1, <1>2, <1>7, <3>2
      <4>2. cost' = Cost(probes'[i]) /\ cost' \in 0..MaxU64
        BY <1>6, <1>7, <4>1
      <4> QED BY <4>1, <4>2
    <3> QED BY <1>1, <1>2, <3>1, <3>2
  <2>3. Best'
    BY <2>1, <2>2 DEF Best
  <2>4. SelectionTypeOK'
    <3>1. cost' \in 0..MaxU64 /\ selected' \in Nat
      BY <1>1, <1>2, <1>6, <1>7
    <3> QED BY <1>1, <1>2, <3>1 DEF SelectionIInv, SelectionTypeOK
  <2> QED BY <1>1, <1>2, <2>3, <2>4
             DEF SelectionIInv, Fresh, CheapestIsSelected, FullScanIsJustified
<1>8. CASE /\ Latest = Unknown \/ Cost(Latest) >= cost
           /\ UNCHANGED <<cost, selected>>
  <2>1. Estimated(1)' /\ Estimated(selected)' /\ cost' = Cost(probes'[selected'])
    BY <1>1, <1>2, <1>4, <1>8 DEF Estimated
  <2>2. ASSUME NEW i \in 1..Len(probes'), Estimated(i)'
        PROVE  cost' <= Cost(probes'[i]) /\ (i < selected' => cost' < Cost(probes'[i]))
    <3>1. CASE i \in 1..Len(probes)
      BY <1>2, <1>3, <1>4, <1>8, <2>2, <3>1
    <3>2. CASE i = last
      <4>1. Latest # Unknown /\ probes'[i] = Latest
        BY <1>2, <2>2, <3>2 DEF Estimated
      <4>2. selected' = selected /\ selected \in 1..Len(probes) /\ cost' = cost
        BY <1>4, <1>8
      <4> QED BY <1>1, <1>6, <1>8, <3>2, <4>1, <4>2
    <3> QED BY <1>1, <1>2, <3>1, <3>2
  <2>3. Best'
    BY <2>1, <2>2 DEF Best
  <2> QED BY <1>1, <1>2, <1>8, <2>3
             DEF SelectionIInv, SelectionTypeOK, Fresh, CheapestIsSelected, FullScanIsJustified
<1> QED BY <1>7, <1>8 DEF Compare, Prefer

\* The decision turns the invariant of the comparison into the two promises.
LEMMA DecideIInv == SelectionIInv /\ Decide => SelectionIInv'
<1> SUFFICES ASSUME SelectionIInv, Decide PROVE SelectionIInv'
  OBVIOUS
<1> USE SelectionAssumption
<1>1. /\ phase = "comparing" /\ phase' = "done" /\ cost' = cost
      /\ selected' = (IF cost >= Rows THEN FullScan ELSE selected)
      /\ UNCHANGED <<met, bytes, decoded, opened, held, probes>>
  BY DEF Decide, budget
<1>2. /\ Estimated(1) /\ Estimated(selected) /\ cost = Cost(probes[selected])
      /\ \A i \in 1..Len(probes) : Estimated(i) =>
           /\ cost <= Cost(probes[i])
           /\ i < selected => cost < Cost(probes[i])
  BY <1>1 DEF SelectionIInv, Best
<1>3. selected \in 1..Len(probes) /\ cost \in 0..MaxU64
  BY <1>2 DEF Estimated, SelectionIInv, SelectionTypeOK
<1>4. \A i \in 1..Len(probes) : Estimated(i) =>
        /\ probes[i] \in Nat /\ Cost(probes[i]) \in 0..MaxU64
        /\ Cost(probes[i]) <= probes[i]
        /\ Cost(probes[i]) >= Rows <=> probes[i] >= Rows
        /\ Cost(probes[i]) < MaxU64 => Cost(probes[i]) = probes[i]
  <2>1. \A i \in 1..Len(probes) : Estimated(i) => probes[i] \in Nat
    BY DEF Estimated, SelectionIInv, SelectionTypeOK
  <2> QED BY <2>1, CostFacts
<1>5. CASE cost >= Rows
  <2>1. \A i \in 1..Len(probes) : Estimated(i) => probes[i] >= Rows
    BY <1>2, <1>3, <1>4, <1>5
  <2>2. CheapestIsSelected' /\ FullScanIsJustified'
    BY <1>1, <1>2, <1>5, <2>1
       DEF CheapestIsSelected, FullScanIsJustified, Estimated, FullScan
  <2> QED BY <1>1, <1>5, <2>2 DEF SelectionIInv, SelectionTypeOK, Charged, Fresh, Best, FullScan
<1>6. CASE cost < Rows
  <2>1. probes[selected] = cost /\ ~(probes[selected] >= Rows)
    BY <1>2, <1>3, <1>4, <1>6
  <2>2. \A i \in 1..Len(probes) : Estimated(i) =>
          probes[selected] <= probes[i] /\ (i < selected => probes[selected] < probes[i])
    BY <1>2, <1>3, <1>4, <2>1
  <2>3. selected' = selected /\ selected # FullScan
    BY <1>1, <1>3, <1>6 DEF FullScan
  <2>4. CheapestIsSelected'
    BY <1>1, <1>2, <2>2, <2>3 DEF CheapestIsSelected, Estimated
  <2>5. FullScanIsJustified'
    BY <1>1, <1>2, <1>3, <2>1, <2>3 DEF FullScanIsJustified, Estimated
  <2> QED BY <1>1, <2>3, <2>4, <2>5 DEF SelectionIInv, SelectionTypeOK, Charged, Fresh, Best
<1> QED BY <1>3, <1>5, <1>6

\* Skipping an index that cannot answer the filter changes no choice.
LEMMA SkipIInv == SelectionIInv /\ (Skip \/ UNCHANGED selectionVars) => SelectionIInv'
<1> SUFFICES ASSUME SelectionIInv, Skip \/ UNCHANGED selectionVars PROVE SelectionIInv'
  OBVIOUS
<1>1. /\ UNCHANGED <<phase, bytes, decoded, opened, held, cost, selected, probes>>
      /\ met' \in 0..MaxIndices
  BY SelectionAssumption
     DEF Skip, selectionVars, budget, SelectionIInv, SelectionTypeOK
<1>2. SelectionTypeOK' /\ Charged' /\ Fresh'
  BY <1>1 DEF SelectionIInv, SelectionTypeOK, Charged, Fresh
<1>3. Best' /\ CheapestIsSelected' /\ FullScanIsJustified'
  BY <1>1 DEF SelectionIInv, Best, CheapestIsSelected, FullScanIsJustified, Estimated
<1> QED BY <1>1, <1>2, <1>3 DEF SelectionIInv

\* The inductive invariant holds in every reachable state.
THEOREM SelectionInvariance == SelectionSpec => []SelectionIInv
<1>1. SelectionIInv /\ [SelectionNext]_selectionVars => SelectionIInv'
  BY GroupingIInv, CompareIInv, DecideIInv, SkipIInv DEF SelectionNext
<1> QED BY <1>1, SelectionInitIInv, PTL DEF SelectionSpec

\* Counters of the probe budgets and the selected segment keep their types.
THEOREM SelectionTypeCorrect == SelectionSpec => []SelectionTypeOK
<1>1. SelectionIInv => SelectionTypeOK
  BY DEF SelectionIInv
<1> QED BY <1>1, SelectionInvariance, PTL

\* choose selects the first of the segments with the smallest estimate, for any
\* number of indices and any sizes, estimates and failures of their lookups.
THEOREM SelectsTheCheapest == SelectionSpec => []CheapestIsSelected
<1>1. SelectionIInv => CheapestIsSelected
  BY DEF SelectionIInv
<1> QED BY <1>1, SelectionInvariance, PTL

\* choose gives the index search up exactly when no estimate promises to touch
\* fewer rows than the fragments have.
THEOREM FullScanOnlyIfCheaper == SelectionSpec => []FullScanIsJustified
<1>1. SelectionIInv => FullScanIsJustified
  BY DEF SelectionIInv
<1> QED BY <1>1, SelectionInvariance, PTL

\* The probes of one preparation together stay within both byte budgets and the
\* candidate limit.
THEOREM ProbesAreBounded == SelectionSpec => []BudgetsHold
<1>1. SelectionIInv => BudgetsHold
  BY SelectionAssumption
     DEF SelectionIInv, SelectionTypeOK, Charged, BudgetsHold
<1> QED BY <1>1, SelectionInvariance, PTL
=============================================================================
