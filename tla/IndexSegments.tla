---------------------------- MODULE IndexSegments ----------------------------
(***************************************************************************)
(* Distributed index builds: the model trainers (src/src/index_model.rs),  *)
(* the single-use segment builders and the commit of built segments        *)
(* (src/src/index_segment.rs).                                             *)
(*                                                                         *)
(* A model is an Arrow array the caller owns, in a slot of the caller,     *)
(* with the provenance the trainers write into its schema.  The library    *)
(* borrows the array of a slot within a call: it moves it out, imports it  *)
(* and writes an equivalent array back.  The field training is not in the  *)
(* program: it names the IVF training run that the values of an array      *)
(* really come from.                                                       *)
(*                                                                         *)
(* A call that refuses its arguments and leaves every slot as it was is a  *)
(* stuttering step.                                                        *)
(***************************************************************************)
EXTENDS Naturals, Sequences, Functions

CONSTANTS Columns, Dim,   \* vector dimension of a column, 0 for others
          Metrics,        \* LanceMetricType values hosts pass
          VectorParams,   \* LanceVectorIndexSegmentParams hosts pass
          Partitions,     \* num_partitions passed to the IVF trainer
          SubVectors,     \* num_sub_vectors passed to the PQ trainer
          Bits,           \* num_bits passed to the PQ trainer
          Fragments,      \* fragment ids
          Selections,     \* fragment_ids arguments, <<>> for NULL
          Slots,          \* the caller's model slots
          Builders,       \* the caller's builder handles
          ShortLengths,   \* lengths to which a caller may slice a model
          MaxCalls        \* bound on the calls and on the caller's own steps

Types == {"IvfFlat", "IvfSq", "IvfPq", "IvfHnswSq", "IvfHnswPq", "IvfHnswFlat"}
MetricTypes == {"L2", "Cosine", "Dot", "Hamming"}
Params == [type : Types, metric : MetricTypes,
           num_partitions : Nat, num_sub_vectors : Nat, num_bits : Nat,
           hnsw_m : Nat]
Modes == {"Auto", "LocalTrain", "Precomputed"}

ASSUME SegmentAssumption ==
  /\ Dim \in [Columns -> Nat]
  /\ Metrics \subseteq MetricTypes
  /\ VectorParams \subseteq Params
  /\ Partitions \subseteq Nat /\ SubVectors \subseteq Nat /\ Bits \subseteq Nat
  /\ Selections \subseteq Seq(Fragments)
  /\ ShortLengths \subseteq Nat
  /\ MaxCalls \in Nat

\* The provenance keys of a model's schema, when they are all there.
Provenance == [kind : {"ivf", "pq"}, metric : Metrics, dimension : Nat,
               ivf_id : Nat, num_sub_vectors : Nat, num_bits : Nat]
NoProvenance == [kind |-> "none"]

\* live: the array is not released; sound: the checks of borrow_model_array
\* and fixed_size_list_model accept it.
Model == [live : BOOLEAN, sound : BOOLEAN, length : Nat, list_size : Nat,
          provenance : Provenance \cup {NoProvenance}, training : Nat]
Empty == [live |-> FALSE]          \* neither array nor schema
NoModel == [live |-> FALSE]        \* NULL array and schema
NoBuilder == [kind |-> "none"]

VARIABLES fragments, version,  \* the snapshot behind the dataset handle
          models,              \* what each slot of the caller holds
          trainings,           \* IVF models trained
          builders,            \* what each builder handle points to
          segments,            \* metadata buffers handed to the caller
          committed,           \* index segments in the manifest
          calls                \* steps taken

vars == <<fragments, version, models, trainings, builders, segments,
          committed, calls>>
datasetVars == <<fragments, version, committed>>
buildVars == <<builders, segments>>

Segment == [uuid : Nat, kind : {"scalar", "vector"}, column : Columns,
            metric : MetricTypes \cup {"none"}, supplied : BOOLEAN,
            coverage : SUBSET Fragments, snapshot : SUBSET Fragments,
            decodable : BOOLEAN]

Builder == [kind : {"scalar", "vector"}, column : Columns,
            params : VectorParams \cup {NoBuilder},
            centroids : Model \cup {NoModel}, codebook : Model \cup {NoModel},
            selection : Selections, snapshot : SUBSET Fragments,
            executed : BOOLEAN]

TypeOK ==
  /\ fragments \subseteq Fragments
  /\ version \in Nat
  /\ models \in [Slots -> Model \cup {Empty}]
  /\ trainings \in Nat
  /\ builders \in [Builders -> Builder \cup {NoBuilder}]
  /\ segments \in Seq(Segment)
  /\ committed \subseteq Segment
  /\ calls \in 0..MaxCalls

Init ==
  /\ fragments = Fragments
  /\ version = 1
  /\ models = [s \in Slots |-> Empty]
  /\ trainings = 0
  /\ builders = [b \in Builders |-> NoBuilder]
  /\ segments = <<>>
  /\ committed = {}
  /\ calls = 0

\* Every step counts against the bound, but for calls that borrow and fail.
Bounded == calls < MaxCalls
Step == Bounded /\ calls' = calls + 1

-----------------------------------------------------------------------------
(* Arguments shared by trainers and builders.                              *)

\* parse_options and parse_fragments: ids are unique and exist.
SelectionOK(selection) ==
  IsInjective(selection) /\ Range(selection) \subseteq fragments

\* The fragments a build over the snapshot reads.
Coverage(selection, snapshot) ==
  IF selection = <<>> THEN snapshot ELSE Range(selection)

\* model_provenance finds every key it requires.
HasProvenance(s) == models[s] # Empty /\ models[s].provenance # NoProvenance

IsIvf(m, metric, dim) == /\ m.provenance.kind = "ivf"
                         /\ m.provenance.metric = metric
                         /\ m.provenance.dimension = dim

-----------------------------------------------------------------------------
(* Borrowing: borrow_model_array.                                          *)

\* The checks of borrow_model_array and fixed_size_list_model accept slot s.
Borrowed(s) == HasProvenance(s) /\ models[s].live /\ models[s].sound

\* The array has been moved out: the slot holds a released one.
MovedOut(m) == [m EXCEPT !.live = FALSE]

\* Wrong variant: the imported array is not exported back.
WrittenBackNever(m) == m

\* An array equivalent to the imported one is written into the slot.
WrittenBack(m) == [m EXCEPT !.live = TRUE]

\* What the slots hold when the models in lent have been borrowed.
AfterBorrow(lent) ==
  [s \in Slots |-> IF s \in lent THEN WrittenBack(MovedOut(models[s])) ELSE models[s]]

\* from_ffi fails on the array moved out of slot s, which is lost; the models
\* in lent were borrowed before.
ImportFails(s, lent) ==
  /\ HasProvenance(s) /\ models[s].live /\ ~models[s].sound
  /\ models' = [AfterBorrow(lent) EXCEPT ![s] = MovedOut(models[s])]

-----------------------------------------------------------------------------
(* Training.                                                               *)

\* Wrong variant: the outputs are not required to be empty.
TrainCommonOverwrites(out, column, metric, selection) ==
  metric # "Hamming" /\ Dim[column] # 0 /\ SelectionOK(selection)

\* parse_common: the outputs are empty, the column holds Float32 vectors.
TrainCommon(out, column, metric, selection) ==
  /\ models[out] = Empty
  /\ metric # "Hamming"
  /\ Dim[column] # 0
  /\ SelectionOK(selection)

TrainIvf(out, column, n, metric, selection) ==
  /\ Step
  /\ n # 0
  /\ TrainCommon(out, column, metric, selection)
  /\ trainings' = trainings + 1
  /\ models' = [models EXCEPT ![out] =
       [ live |-> TRUE, sound |-> TRUE, length |-> n,
         list_size |-> Dim[column], training |-> trainings + 1,
         provenance |-> [ kind |-> "ivf", metric |-> metric,
                          dimension |-> Dim[column],
                          ivf_id |-> trainings + 1,    \* Uuid::new_v4
                          num_sub_vectors |-> 0, num_bits |-> 0 ] ]]
  /\ UNCHANGED <<datasetVars, buildVars>>

\* What train_pq_model_inner checks before it borrows the centroids.
TrainPqArguments(out, in, column, subs, bits, metric, selection) ==
  /\ subs # 0 /\ bits \in {4, 8}
  /\ TrainCommon(out, column, metric, selection)
  /\ Dim[column] % subs = 0
  /\ HasProvenance(in) /\ IsIvf(models[in], metric, Dim[column])

\* The provenance of a codebook names the IVF model it was trained with.
PqProvenance(ivf, subs, bits) ==
  [kind |-> "pq", metric |-> ivf.metric, dimension |-> ivf.dimension,
   ivf_id |-> ivf.ivf_id, num_sub_vectors |-> subs, num_bits |-> bits]

TrainPq(out, in, column, subs, bits, metric, selection) ==
  /\ Bounded
  /\ TrainPqArguments(out, in, column, subs, bits, metric, selection)
  /\ \/ /\ Step /\ Borrowed(in)
        /\ models[in].length # 0 /\ models[in].list_size = Dim[column]
        /\ models' = [AfterBorrow({in}) EXCEPT ![out] =
             [ live |-> TRUE, sound |-> TRUE, length |-> subs * 2^bits,
               list_size |-> Dim[column] \div subs,
               training |-> models[in].training,
               provenance |-> PqProvenance(models[in].provenance, subs, bits) ]]
     \/ Step /\ ImportFails(in, {})
     \/ /\ Borrowed(in)   \* refused for its shape, or the training fails
        /\ models' = AfterBorrow({in})
        /\ UNCHANGED calls
  /\ UNCHANGED <<datasetVars, trainings, buildVars>>

\* The caller releases the array and the schema of a slot.
Release(s) ==
  /\ Step
  /\ models[s] # Empty
  /\ models' = [models EXCEPT ![s] = Empty]
  /\ UNCHANGED <<datasetVars, trainings, buildVars>>

\* The caller ships a model between processes: the values arrive sliced,
\* malformed, or without the metadata of the schema.
Ship(s) ==
  /\ Step
  /\ models[s] # Empty /\ models[s].live
  /\ \/ \E n \in ShortLengths : /\ n < models[s].length
                                /\ models' = [models EXCEPT ![s].length = n]
     \/ models' = [models EXCEPT ![s].sound = FALSE]
     \/ models' = [models EXCEPT ![s].provenance = NoProvenance]
  /\ UNCHANGED <<datasetVars, trainings, buildVars>>

-----------------------------------------------------------------------------
(* Builders.                                                               *)

NewScalar(b, column, mode, selection) ==
  /\ Step
  /\ SelectionOK(selection)
  /\ mode # "Precomputed"
  /\ builders' = [builders EXCEPT ![b] =
       [ kind |-> "scalar", column |-> column, params |-> NoBuilder,
         centroids |-> NoModel, codebook |-> NoModel, selection |-> selection,
         snapshot |-> fragments, executed |-> FALSE ]]
  /\ UNCHANGED <<datasetVars, models, trainings, segments>>

IsPq(p) == p.type \in {"IvfPq", "IvfHnswPq"}
EffectiveBits(p) == IF p.num_bits = 0 THEN 8 ELSE p.num_bits

\* build_vector_params_with_models: required fields and widths.
BuildsParams(p) ==
  /\ p.num_partitions # 0
  /\ IsPq(p) => p.num_sub_vectors # 0 /\ EffectiveBits(p) \in {4, 8}
  /\ p.type \in {"IvfSq", "IvfHnswSq"} => p.num_bits \in {0, 8}
  /\ p.type \in {"IvfHnswFlat", "IvfHnswPq", "IvfHnswSq"} => p.hnsw_m # 0

CentroidsFit(p, dim, centroids) ==
  /\ IsIvf(centroids, p.metric, dim)
  /\ centroids.list_size = dim
  /\ centroids.length = p.num_partitions

\* Wrong variant: the IVF model of the codebook is not compared.
CodebookFitsAnyIvf(p, dim, centroids, codebook) ==
  LET q == codebook.provenance IN
  /\ q.kind = "pq" /\ q.metric = p.metric /\ q.dimension = dim
  /\ q.num_sub_vectors = p.num_sub_vectors /\ q.num_bits = EffectiveBits(p)
  /\ centroids # NoModel
  /\ p.num_sub_vectors # 0 /\ dim % p.num_sub_vectors = 0
  /\ codebook.length = p.num_sub_vectors * 2^EffectiveBits(p)
  /\ codebook.list_size = dim \div p.num_sub_vectors

\* The codebook was trained for these parameters, with these centroids.
CodebookFits(p, dim, centroids, codebook) ==
  LET q == codebook.provenance IN
  /\ q.kind = "pq" /\ q.metric = p.metric /\ q.dimension = dim
  /\ q.num_sub_vectors = p.num_sub_vectors /\ q.num_bits = EffectiveBits(p)
  /\ centroids # NoModel /\ centroids.provenance.ivf_id = q.ivf_id
  /\ p.num_sub_vectors # 0 /\ dim % p.num_sub_vectors = 0
  /\ codebook.length = p.num_sub_vectors * 2^EffectiveBits(p)
  /\ codebook.list_size = dim \div p.num_sub_vectors

\* Which models the index type and the mode call for.
ModelsWanted(p, mode, centroids, codebook) ==
  LET hasModels == centroids # NoModel \/ codebook # NoModel IN
  /\ ~IsPq(p) => codebook = NoModel
  /\ IsPq(p) => (centroids = NoModel <=> codebook = NoModel)
  /\ mode = "LocalTrain" => ~hasModels
  /\ mode = "Precomputed" => hasModels

\* Wrong variant: only plain IVF_PQ is guarded.
DotNeedsAllIvfPq(p, codebook, selection) ==
  p.type = "IvfPq" /\ p.metric = "Dot" /\ codebook # NoModel /\ selection # <<>>
    => Range(selection) = fragments

\* Lance would rebuild a supplied DOT codebook wrongly over some fragments.
DotNeedsAll(p, codebook, selection) ==
  IsPq(p) /\ p.metric = "Dot" /\ codebook # NoModel /\ selection # <<>>
    => Range(selection) = fragments

\* A NULL pair is NoSlot; in and code are the slots of the two pairs.
NoSlot == "NULL"
Taken(s) == IF s = NoSlot THEN NoModel ELSE models[s]
Lent(in, code) == {in, code} \ {NoSlot}

NewVector(b, column, p, mode, selection, in, code) ==
  /\ Step
  /\ SelectionOK(selection)
  /\ \A s \in Lent(in, code) : Borrowed(s)
  /\ models' = AfterBorrow(Lent(in, code))
  /\ Dim[column] # 0
  /\ in # NoSlot => CentroidsFit(p, Dim[column], models[in])
  /\ code # NoSlot => CodebookFits(p, Dim[column], Taken(in), models[code])
  /\ ModelsWanted(p, mode, Taken(in), Taken(code))
  /\ BuildsParams(p)
  /\ DotNeedsAll(p, Taken(code), selection)
  /\ builders' = [builders EXCEPT ![b] =
       [ kind |-> "vector", column |-> column, params |-> p,
         centroids |-> Taken(in), codebook |-> Taken(code),
         selection |-> selection, snapshot |-> fragments,
         executed |-> FALSE ]]
  /\ UNCHANGED <<datasetVars, trainings, segments>>

\* Centroids are borrowed before the codebook.  The import of either fails, or
\* what could be borrowed has been when a check after that refuses.
NewVectorFails(selection, in, code) ==
  /\ Bounded
  /\ SelectionOK(selection)
  /\ \/ Step /\ in # NoSlot /\ ImportFails(in, {})
     \/ /\ Step /\ code # NoSlot
        /\ in # NoSlot => Borrowed(in)
        /\ ImportFails(code, Lent(in, NoSlot))
     \/ /\ Lent(in, code) # {}
        /\ \A s \in Lent(in, code) : Borrowed(s)
        /\ models' = AfterBorrow(Lent(in, code))
        /\ UNCHANGED calls
  /\ UNCHANGED <<datasetVars, trainings, buildVars>>

FreeBuilder(b) ==
  /\ Step
  /\ builders[b] # NoBuilder
  /\ builders' = [builders EXCEPT ![b] = NoBuilder]
  /\ UNCHANGED <<datasetVars, models, trainings, segments>>

-----------------------------------------------------------------------------
(* Building and committing segments.                                       *)

\* The uuid is drawn by Lance, or was given to the builder.
Built(b, uuid) ==
  LET d == builders[b] IN
  [ uuid |-> uuid, kind |-> d.kind, column |-> d.column,
    metric |-> IF d.kind = "vector" THEN d.params.metric ELSE "none",
    supplied |-> d.codebook # NoModel,
    coverage |-> Coverage(d.selection, d.snapshot), snapshot |-> d.snapshot,
    decodable |-> TRUE ]

\* The builder is spent before anything can fail.
Execute(b) ==
  /\ Step
  /\ builders[b] # NoBuilder /\ ~builders[b].executed
  /\ builders' = [builders EXCEPT ![b].executed = TRUE]
  /\ \/ segments' = segments
     \/ \E uuid \in 1..(Len(segments) + 1) :
          segments' = Append(segments, Built(b, uuid))
  /\ UNCHANGED <<datasetVars, models, trainings>>

\* The caller stores or ships a metadata buffer, and it does not survive.
DamageBuffer(i) ==
  /\ Step
  /\ segments[i].decodable
  /\ segments' = [segments EXCEPT ![i].decodable = FALSE]
  /\ UNCHANGED <<datasetVars, models, trainings, builders>>

\* Wrong variant: buffers that do not decode are skipped.
DecodedSkipsBad(chosen) == {i \in chosen : segments[i].decodable}

\* decode_segment_metadata, buffer by buffer: one that does not decode ends
\* the call, and nothing is left to commit.
Decoded(chosen) ==
  IF \A i \in chosen : segments[i].decodable THEN chosen ELSE {}

\* commit_existing_index_segments: existing segments that share no fragment
\* with the incoming ones stay, unless the type of the index changes.
Existing(column) == {x \in committed : x.column = column}
Retained(incoming, column) ==
  {x \in Existing(column) : \A y \in incoming :
     x.kind = y.kind /\ x.coverage \cap y.coverage = {}}

\* What Lance requires of the incoming segments: distinct uuids and fragments,
\* one column and type, no fragment of an existing segment orphaned, metrics
\* that agree.
Distinct(decoded) ==
  \A i, j \in decoded : i # j =>
    /\ segments[i].uuid # segments[j].uuid
    /\ segments[i].coverage \cap segments[j].coverage = {}
Committable(incoming, column) ==
  LET covered == UNION {y.coverage : y \in incoming}
      newType == \E x \in Existing(column), y \in incoming : x.kind # y.kind
  IN  /\ \A x, y \in incoming : x.column = column /\ x.kind = y.kind
      /\ IF newType
         THEN fragments \subseteq covered
         ELSE \A x \in Existing(column) \ Retained(incoming, column) :
                x.coverage \subseteq covered
      /\ \A x \in incoming \cup Retained(incoming, column), y \in incoming :
           x.metric = y.metric

CommitIndexSegments(chosen, column) ==
  LET incoming == {segments[i] : i \in Decoded(chosen)} IN
  /\ Step
  /\ incoming # {}
  /\ Distinct(Decoded(chosen))
  /\ Committable(incoming, column)
  /\ committed' = (committed \ Existing(column))
                    \cup Retained(incoming, column) \cup incoming
  /\ version' = version + 1
  /\ UNCHANGED <<fragments, models, trainings, buildVars>>

\* Another operation moves the handle to a version with other fragments.
MoveHandle ==
  /\ Step
  /\ fragments' \in SUBSET Fragments \ {fragments}
  /\ version' = version + 1
  /\ UNCHANGED <<committed, models, trainings, buildVars>>

-----------------------------------------------------------------------------

TrainStep ==
  \E out \in Slots, column \in Columns, metric \in Metrics,
     selection \in Selections :
    \/ \E n \in Partitions : TrainIvf(out, column, n, metric, selection)
    \/ \E in \in Slots, subs \in SubVectors, bits \in Bits :
         TrainPq(out, in, column, subs, bits, metric, selection)

\* The caller keeps each new builder in a handle that holds none.
FreeHandles == {b \in Builders : builders[b] = NoBuilder}

NewStep ==
  \E selection \in Selections :
    \/ \E b \in FreeHandles, column \in Columns, mode \in Modes :
         \/ NewScalar(b, column, mode, selection)
         \/ \E p \in VectorParams, in, code \in Slots \cup {NoSlot} :
              NewVector(b, column, p, mode, selection, in, code)
    \/ \E in, code \in Slots \cup {NoSlot} : NewVectorFails(selection, in, code)

CallerStep == \/ \E s \in Slots : Release(s) \/ Ship(s)
              \/ \E i \in DOMAIN segments : DamageBuffer(i)

CommitStep == \E chosen \in SUBSET DOMAIN segments, column \in Columns :
                CommitIndexSegments(chosen, column)

Next ==
  \/ TrainStep \/ NewStep \/ CallerStep \/ CommitStep \/ MoveHandle
  \/ \E b \in Builders : Execute(b) \/ FreeBuilder(b)

Spec == Init /\ [][Next]_vars

-----------------------------------------------------------------------------
(* Properties.                                                             *)

\* new_vector_builder_inner accepts no mixed model set: the codebook of a
\* builder comes with centroids of the IVF training it was made with, whatever
\* was retrained, released, sliced or shipped in between, and both have the
\* shape the parameters ask for.  Model identity is the training: ivf_id is all
\* that is compared, so a slice of the centroids passes for them when
\* num_partitions is the length of the slice.
ModelSetsAgree ==
  \A b \in Builders :
    LET d == builders[b] IN
    d # NoBuilder /\ d.codebook # NoModel =>
      /\ d.centroids # NoModel
      /\ d.codebook.training = d.centroids.training
      /\ d.centroids.length = d.params.num_partitions
      /\ d.codebook.length * d.codebook.list_size
           = d.centroids.list_size * 2^EffectiveBits(d.params)

\* A segment covers fragments of the snapshot its builder was made on, although
\* the dataset handle has moved since; all of them when Lance was given a DOT
\* codebook, which it would misuse on a strict subset.
SegmentsCoverTheirSnapshot ==
  \A i \in DOMAIN segments :
    LET g == segments[i] IN
    /\ g.coverage \subseteq g.snapshot
    /\ g.supplied /\ g.metric = "Dot" => g.coverage = g.snapshot

\* Trainers and builders borrow: what they move out of the slot of a sound
\* model is back when they return, live and unchanged, whether they succeed,
\* refuse afterwards, or fail on the other model, and no output overwrites it.
\* Only the caller, who releases or ships it, ever changes it.
ModelsStayWithCaller ==
  [][\A s \in Slots :
       models[s] # Empty /\ models'[s] # models[s]
         => ~models[s].sound \/ Release(s) \/ Ship(s)]_vars

\* When commit_index_segments succeeds, every buffer handed in is in the
\* manifest; one that does not decode fails the whole commit.
CommitIsAllOrNothing ==
  [][version' # version =>
       \A chosen \in SUBSET DOMAIN segments, column \in Columns :
         CommitIndexSegments(chosen, column)
           => \A i \in chosen : segments[i] \in committed']_vars
=============================================================================
