-------------------------- MODULE PreparedFtsProofs --------------------------
(***************************************************************************)
(* Proofs about PreparedFts, for any number of datasets, snapshots,        *)
(* segments, contexts and scanners.                                        *)
(***************************************************************************)
EXTENDS PreparedFts, TLAPS

\* A context is what was prepared from its snapshot.
Prepared(x) ==
  /\ x.state = "open"
  /\ x.dataset \in 1..Len(arcs)
  /\ x.segments = arcs[x.dataset].segs
  /\ x.scorer = {g.uuid : g \in arcs[x.dataset].segs}
  /\ x.mode = "strict" => arcs[x.dataset].frags \subseteq Covered(arcs[x.dataset].segs)

\* A context handle is free, being prepared from an existing snapshot, or what
\* was prepared.
ContextInv(c) ==
  \/ context[c] = NoContext
  \/ context[c].state = "preparing" /\ context[c].dataset \in 1..Len(arcs)
  \/ Prepared(context[c])

\* A scanner's context is of the scanner's own snapshot, and its answer is
\* exact.
ScannerInv(s) ==
  scanner[s] # NoScanner =>
    LET sc == scanner[s] IN
    /\ sc.dataset \in 1..Len(arcs)
    /\ sc.context # NoContext => Prepared(sc.context) /\ sc.context.dataset = sc.dataset
    /\ sc.result # NoAnswer =>
         /\ sc.context # NoContext
         /\ sc.result.rows = [f \in Fragments |-> IF f \in Owed(s) THEN 1 ELSE 0]
         /\ sc.result.scorer = {g.uuid : g \in arcs[sc.dataset].segs}

\* The inductive invariant.
IInv == /\ TypeOK
        /\ \A i \in 1..Len(arcs) : Wellformed(arcs[i])
        /\ \A c \in Contexts : ContextInv(c)
        /\ \A s \in Scanners : ScannerInv(s)

\* Initially there are only stored datasets and handles of them.
LEMMA InitIInv == Init => IInv
<1> SUFFICES ASSUME Init PROVE IInv
  OBVIOUS
<1>1. arcs \in Seq(Snapshot) /\ Len(arcs) = Datasets
  BY FtsAssumption DEF Init
<1>2. \A i \in 1..Len(arcs) : Wellformed(arcs[i])
  BY <1>1, FtsAssumption DEF Init
<1>3. TypeOK
  BY <1>1, FtsAssumption DEF Init, TypeOK, Handles
<1> QED BY <1>2, <1>3 DEF Init, IInv, ContextInv, ScannerInv

\* Snapshots are never changed: what was prepared stays prepared, and what a
\* scanner owes stays the same, when a snapshot is added.
LEMMA WithMutIInv ==
  ASSUME IInv, NEW h \in Handles, NEW content \in Snapshot, Wellformed(content),
         WithMut(h, content)
  PROVE  IInv'
<1>1. /\ arcs' \in Seq(Snapshot) /\ Len(arcs') = Len(arcs) + 1
      /\ \A i \in 1..Len(arcs) : arcs'[i] = arcs[i]
      /\ arcs'[Len(arcs) + 1] = content
  BY DEF IInv, TypeOK, WithMut
<1>2. TypeOK'
  <2>1. Len(arcs) + 1 <= MaxArcs
    BY FtsAssumption DEF IInv, TypeOK, WithMut
  <2>2. handle' \in [1..Datasets -> 1..Len(arcs')]
    BY <1>1 DEF IInv, TypeOK, WithMut, Handles
  <2> QED BY <1>1, <2>1, <2>2 DEF IInv, TypeOK, WithMut
<1>3. \A i \in 1..Len(arcs') : Wellformed(arcs'[i])
  BY <1>1 DEF IInv, TypeOK
<1>4. ASSUME NEW x, Prepared(x) PROVE Prepared(x)'
  BY <1>1, <1>4 DEF Prepared, IInv, TypeOK
<1>5. ASSUME NEW c \in Contexts PROVE ContextInv(c)'
  BY <1>1, <1>4 DEF ContextInv, IInv, TypeOK, WithMut
<1>6. ASSUME NEW s \in Scanners PROVE ScannerInv(s)'
  <2> SUFFICES ASSUME scanner[s] # NoScanner PROVE ScannerInv(s)'
    BY DEF ScannerInv, WithMut
  <2>1. scanner' = scanner /\ ScannerInv(s) /\ scanner[s].dataset \in 1..Len(arcs)
    BY DEF IInv, ScannerInv, WithMut
  <2>2. arcs'[scanner[s].dataset] = arcs[scanner[s].dataset]
    BY <1>1, <2>1
  <2>3. Owed(s)' = Owed(s)
    BY <2>1, <2>2 DEF Owed
  <2>4. scanner[s].dataset \in 1..Len(arcs')
    BY <1>1, <2>1 DEF IInv, TypeOK
  <2> QED BY <1>4, <2>1, <2>2, <2>3, <2>4 DEF ScannerInv
<1> QED BY <1>2, <1>3, <1>5, <1>6 DEF IInv

\* The mutations of the handle preserve the invariant, failed ones too.
LEMMA HandleIInv ==
  ASSUME IInv, NEW h \in Handles,
         \/ \E f \in Fragments : AppendFragment(h, f) \/ DropFragment(h, f)
         \/ \E g \in Built : CommitSegment(h, g)
         \/ FailedMutation(h)
  PROVE  IInv'
<1>1. handle[h] \in 1..Len(arcs)
  BY DEF IInv, TypeOK, Handles
<1>2. Held(h) \in Snapshot /\ Wellformed(Held(h))
  BY <1>1 DEF IInv, TypeOK, Held
<1>3. ASSUME NEW f \in Fragments, AppendFragment(h, f) PROVE IInv'
  <2> DEFINE content == [Held(h) EXCEPT !.frags = @ \cup {f}]
  <2>1. content \in Snapshot /\ Wellformed(content)
    BY <1>2 DEF Snapshot, Wellformed
  <2>2. WithMut(h, content)
    BY <1>3 DEF AppendFragment
  <2> QED BY <2>1, <2>2, WithMutIInv
<1>4. ASSUME NEW f \in Fragments, DropFragment(h, f) PROVE IInv'
  <2> DEFINE content == [Held(h) EXCEPT !.frags = @ \ {f}]
  <2>1. content \in Snapshot /\ Wellformed(content)
    BY <1>2 DEF Snapshot, Wellformed
  <2>2. WithMut(h, content)
    BY <1>4 DEF DropFragment
  <2> QED BY <2>1, <2>2, WithMutIInv
<1>5. ASSUME NEW g \in Built, CommitSegment(h, g) PROVE IInv'
  <2> DEFINE content == [Held(h) EXCEPT !.segs = @ \cup {g}]
  <2>1. content \in Snapshot
    BY <1>2, FtsAssumption DEF Snapshot
  <2>2. WithMut(h, content) /\ Wellformed(content)
    BY <1>5 DEF CommitSegment
  <2> QED BY <2>1, <2>2, WithMutIInv
<1>6. CASE FailedMutation(h)
  BY <1>2, <1>6, WithMutIInv DEF FailedMutation
<1> QED BY <1>3, <1>4, <1>5, <1>6

\* A step that only gives context c another value leaves the scanners alone:
\* they hold values, not handles.
LEMMA ContextChangeIInv ==
  ASSUME IInv, NEW c \in Contexts, NEW x \in Context \cup {NoContext},
         context' = [context EXCEPT ![c] = x], UNCHANGED <<arcs, handle, scanner>>,
         \/ x = NoContext
         \/ x.state = "preparing" /\ x.dataset \in 1..Len(arcs)
         \/ Prepared(x)
  PROVE  IInv'
<1>1. TypeOK'
  BY DEF IInv, TypeOK
<1>2. context'[c] = x /\ \A d \in Contexts \ {c} : context'[d] = context[d]
  BY DEF IInv, TypeOK
<1>3. ASSUME NEW d \in Contexts PROVE ContextInv(d)'
  BY <1>2 DEF IInv, ContextInv, Prepared
<1>4. ASSUME NEW s \in Scanners PROVE ScannerInv(s)'
  BY DEF IInv, ScannerInv, Prepared, Owed
<1> QED BY <1>1, <1>3, <1>4 DEF IInv

\* Preparing and closing contexts preserves the invariant.
LEMMA ContextIInv ==
  ASSUME IInv, NEW c \in Contexts,
         \/ \E h \in Handles, k \in Kinds, m \in Modes : PrepareBegin(c, h, k, m)
         \/ PrepareEnd(c) \/ PrepareFails(c) \/ CloseContext(c)
  PROVE  IInv'
<1>1. ASSUME NEW h \in Handles, NEW k \in Kinds, NEW m \in Modes,
             PrepareBegin(c, h, k, m)
      PROVE  IInv'
  <2> DEFINE x == [state |-> "preparing", dataset |-> handle[h], kind |-> k,
                   mode |-> m, segments |-> {}, scorer |-> {}]
  <2>1. handle[h] \in 1..Len(arcs) /\ handle[h] \in 1..MaxArcs
    BY FtsAssumption DEF IInv, TypeOK, Handles
  <2>2. x \in Context /\ x.state = "preparing" /\ x.dataset \in 1..Len(arcs)
    BY <2>1 DEF Context
  <2>3. context' = [context EXCEPT ![c] = x] /\ UNCHANGED <<arcs, handle, scanner>>
    BY <1>1 DEF PrepareBegin
  <2> QED BY <2>2, <2>3, ContextChangeIInv
<1>2. CASE PrepareEnd(c)
  <2> DEFINE a == arcs[context[c].dataset]
             x == [context[c] EXCEPT !.state = "open", !.segments = a.segs,
                                     !.scorer = {g.uuid : g \in a.segs}]
  <2>1. context[c].state = "preparing"
    BY <1>2 DEF PrepareEnd
  <2>2. context[c] \in Context /\ context[c].dataset \in 1..Len(arcs)
    BY <2>1 DEF IInv, TypeOK, ContextInv, NoContext, Prepared
  <2>3. a \in Snapshot
    BY <2>2 DEF IInv, TypeOK
  <2>4. a.segs \subseteq Segment /\ {g.uuid : g \in a.segs} \subseteq Uuids
    BY <2>3 DEF Snapshot, Segment
  <2>5. /\ x \in Context /\ x.state = "open" /\ x.dataset = context[c].dataset
        /\ x.segments = a.segs /\ x.scorer = {g.uuid : g \in a.segs}
        /\ x.mode = context[c].mode
    BY <2>2, <2>4 DEF Context
  <2>6. context[c].mode = "strict" => a.frags \subseteq Covered(a.segs)
    BY <1>2 DEF PrepareEnd, Preparable, Strict
  <2>7. Prepared(x)
    BY <2>2, <2>5, <2>6 DEF Prepared
  <2>8. context' = [context EXCEPT ![c] = x] /\ UNCHANGED <<arcs, handle, scanner>>
    BY <1>2, <2>2 DEF PrepareEnd, IInv, TypeOK
  <2> QED BY <2>5, <2>7, <2>8, ContextChangeIInv
<1>3. CASE PrepareFails(c) \/ CloseContext(c)
  BY <1>3, ContextChangeIInv DEF PrepareFails, CloseContext
<1> QED BY <1>1, <1>2, <1>3

\* A step that gives scanner s another value, exact if it has an answer.
LEMMA ScannerChangeIInv ==
  ASSUME IInv, NEW s \in Scanners, NEW sc \in Scanner,
         scanner' = [scanner EXCEPT ![s] = sc], UNCHANGED <<arcs, handle, context>>,
         sc.dataset \in 1..Len(arcs),
         sc.context # NoContext => Prepared(sc.context) /\ sc.context.dataset = sc.dataset,
         sc.result # NoAnswer => ScannerInv(s)'
  PROVE  IInv'
<1>1. TypeOK'
  BY DEF IInv, TypeOK
<1>2. scanner'[s] = sc /\ \A t \in Scanners \ {s} : scanner'[t] = scanner[t]
  BY DEF IInv, TypeOK
<1>3. \A c \in Contexts : ContextInv(c)'
  BY DEF IInv, ContextInv, Prepared
<1>4. ASSUME NEW t \in Scanners, t # s PROVE ScannerInv(t)'
  <2>1. scanner'[t] = scanner[t] /\ Owed(t)' = Owed(t)
    BY <1>2, <1>4 DEF Owed
  <2> QED BY <2>1 DEF IInv, ScannerInv, Prepared
<1>5. ScannerInv(s)'
  <2>1. CASE sc.result = NoAnswer
    BY <1>2, <2>1 DEF ScannerInv, Prepared
  <2> QED BY <2>1
<1> QED BY <1>1, <1>3, <1>4, <1>5 DEF IInv

\* Configuring a scanner preserves the invariant.
LEMMA ConfigureIInv ==
  ASSUME IInv, NEW s \in Scanners,
         \/ \E h \in Handles, o \in Requests : NewScanner(s, h, o)
         \/ \E c \in Contexts : SetFtsQueryContext(s, c)
         \/ \E u \in SUBSET Uuids : SetFtsIndexSegments(s, u)
  PROVE  IInv'
<1>1. ASSUME NEW h \in Handles, NEW o \in Requests, NewScanner(s, h, o) PROVE IInv'
  <2> DEFINE sc == [dataset |-> handle[h], opts |-> o, context |-> NoContext,
                    choice |-> {}, result |-> NoAnswer]
  <2>1. handle[h] \in 1..Len(arcs) /\ handle[h] \in 1..MaxArcs /\ o \in Options
    BY FtsAssumption DEF IInv, TypeOK, Handles
  <2>2. sc \in Scanner /\ sc.dataset \in 1..Len(arcs) /\ sc.context = NoContext
        /\ sc.result = NoAnswer
    BY <2>1 DEF Scanner
  <2>3. scanner' = [scanner EXCEPT ![s] = sc] /\ UNCHANGED <<arcs, handle, context>>
    BY <1>1 DEF NewScanner
  <2> QED BY <2>2, <2>3, ScannerChangeIInv
<1>2. ASSUME Configurable(s) PROVE /\ scanner[s] \in Scanner /\ ScannerInv(s)
                                   /\ scanner[s] # NoScanner
                                   /\ scanner[s].result = NoAnswer
  BY <1>2 DEF IInv, TypeOK, Configurable
<1>3. ASSUME NEW c \in Contexts, SetFtsQueryContext(s, c) PROVE IInv'
  <2> DEFINE sc == [scanner[s] EXCEPT !.context = context[c]]
  <2>1. /\ scanner[s] \in Scanner /\ ScannerInv(s) /\ scanner[s] # NoScanner
        /\ scanner[s].result = NoAnswer
    BY <1>2, <1>3 DEF SetFtsQueryContext
  <2>2. context[c].state = "open" /\ context[c] \in Context
    BY <1>3 DEF SetFtsQueryContext, IInv, TypeOK, NoContext
  <2>3. Prepared(context[c]) /\ context[c].dataset = scanner[s].dataset
    BY <1>3, <2>2 DEF SetFtsQueryContext, validate_dataset_identity, IInv, ContextInv,
                      NoContext
  <2>4. /\ sc \in Scanner /\ sc.dataset = scanner[s].dataset
        /\ sc.context = context[c] /\ sc.result = NoAnswer
    BY <2>1, <2>2 DEF Scanner
  <2>5. scanner' = [scanner EXCEPT ![s] = sc] /\ UNCHANGED <<arcs, handle, context>>
    BY <1>3, <2>1 DEF SetFtsQueryContext, IInv, TypeOK
  <2>6. sc.dataset \in 1..Len(arcs)
    BY <2>1, <2>4 DEF ScannerInv
  <2> QED BY <2>3, <2>4, <2>5, <2>6, ScannerChangeIInv
<1>4. ASSUME NEW u \in SUBSET Uuids, SetFtsIndexSegments(s, u) PROVE IInv'
  <2> DEFINE sc == [scanner[s] EXCEPT !.choice = u]
  <2>1. /\ scanner[s] \in Scanner /\ ScannerInv(s) /\ scanner[s] # NoScanner
        /\ scanner[s].result = NoAnswer
    BY <1>2, <1>4 DEF SetFtsIndexSegments
  <2>2. /\ sc \in Scanner /\ sc.dataset = scanner[s].dataset
        /\ sc.context = scanner[s].context /\ sc.result = NoAnswer
    BY <2>1 DEF Scanner
  <2>3. scanner' = [scanner EXCEPT ![s] = sc] /\ UNCHANGED <<arcs, handle, context>>
    BY <1>4, <2>1 DEF SetFtsIndexSegments, IInv, TypeOK
  <2>4. /\ sc.dataset \in 1..Len(arcs)
        /\ sc.context # NoContext => Prepared(sc.context) /\ sc.context.dataset = sc.dataset
    BY <2>1, <2>2 DEF ScannerInv
  <2> QED BY <2>2, <2>3, <2>4, ScannerChangeIInv
<1> QED BY <1>1, <1>3, <1>4

\* What an expected plan delivers after the rewriting: the rows of the current
\* fragments that the selected segments cover and the mask lets through, once.
LEMMA RewrittenRows ==
  ASSUME NEW sc \in Scanner, NEW plan \in Plans, NEW f \in Fragments,
         sc.context # NoContext, sc.context.dataset = sc.dataset,
         Expected(sc, plan)
  PROVE  IndexedRows(sc, plan)[f] + FlatRows(sc, plan)[f]
           = IF f \in arcs[sc.dataset].frags \cap Covered(Selected(sc)) \cap sc.opts.mask
             THEN 1 ELSE 0
<1> DEFINE mine == SelectedFragments(sc)
<1>1. mine = arcs[sc.dataset].frags \cap Covered(Selected(sc))
  BY DEF SelectedFragments
<1>2. mine \subseteq Scope(sc)
  BY <1>1 DEF Scope
<1>3. FlatRows(sc, plan)[f] = 0
  BY DEF FlatRows
<1>4. IndexedRows(sc, plan)[f] =
        IF mine # {} /\ f \in mine \cap Scope(sc) /\ f \in sc.opts.mask
        THEN plan.indexed ELSE 0
  BY <1>1 DEF IndexedRows
<1>5. plan.indexed \in 0..2 /\ (mine # {} => plan.indexed = 1)
  BY DEF Expected, Plans
<1>6. CASE f \in mine /\ f \in sc.opts.mask
  <2>1. IndexedRows(sc, plan)[f] = 1
    BY <1>2, <1>4, <1>5, <1>6
  <2> QED BY <1>1, <1>3, <1>6, <2>1
<1>7. CASE ~(f \in mine /\ f \in sc.opts.mask)
  <2>1. IndexedRows(sc, plan)[f] = 0
    BY <1>4, <1>7
  <2> QED BY <1>1, <1>3, <1>7, <2>1
<1> QED BY <1>6, <1>7

\* A scan is exact.
LEMMA ScanIInv ==
  ASSUME IInv, NEW s \in Scanners, NEW plan \in Plans, Scan(s, plan)
  PROVE  IInv'
<1> DEFINE old == scanner[s]
           a == arcs[old.dataset]
           rows == [f \in Fragments |->
                      IF f \in old.opts.filter
                      THEN IndexedRows(old, plan)[f] + FlatRows(old, plan)[f] ELSE 0]
           result == [rows |-> rows, scorer |-> BaseScorer(old)]
           sc == [old EXCEPT !.result = result]
<1>1. /\ old \in Scanner /\ ScannerInv(s) /\ old # NoScanner
      /\ old.context # NoContext /\ Expected(old, plan)
  BY DEF Scan, Configurable, Buildable, IInv, TypeOK
<1>2. /\ old.dataset \in 1..Len(arcs) /\ Prepared(old.context)
      /\ old.context.dataset = old.dataset
  BY <1>1 DEF ScannerInv
<1>3. a \in Snapshot
  BY <1>2 DEF IInv, TypeOK
<1>4. old.context.segments = a.segs /\ BaseScorer(old) = {g.uuid : g \in a.segs}
  BY <1>2 DEF Prepared, BaseScorer
<1>5. \A f \in Fragments :
        f \in Covered(Selected(old)) <=>
          \E g \in a.segs : f \in g.bitmap /\ (old.choice = {} \/ g.uuid \in old.choice)
  BY <1>4 DEF Covered, Selected
<1>6. \A f \in Fragments : f \in Owed(s) <=>
        f \in a.frags \cap Covered(Selected(old)) \cap old.opts.mask
          /\ f \in old.opts.filter
  BY <1>5 DEF Owed
<1>7. ASSUME NEW f \in Fragments PROVE rows[f] = IF f \in Owed(s) THEN 1 ELSE 0
  <2>1. IndexedRows(old, plan)[f] + FlatRows(old, plan)[f]
          = IF f \in a.frags \cap Covered(Selected(old)) \cap old.opts.mask THEN 1 ELSE 0
    BY <1>1, <1>2, RewrittenRows
  <2> QED BY <1>6, <2>1
<1>8. rows = [f \in Fragments |-> IF f \in Owed(s) THEN 1 ELSE 0]
  BY <1>7
<1>9. result \in Answer
  <2>1. rows \in [Fragments -> Nat]
    BY <1>8
  <2>2. BaseScorer(old) \subseteq Uuids
    BY <1>3, <1>4 DEF Snapshot, Segment
  <2> QED BY <2>1, <2>2 DEF Answer
<1>10. /\ sc \in Scanner /\ sc.dataset = old.dataset /\ sc.opts = old.opts
       /\ sc.context = old.context /\ sc.choice = old.choice /\ sc.result = result
  BY <1>1, <1>9 DEF Scanner
<1>11. scanner' = [scanner EXCEPT ![s] = sc] /\ UNCHANGED <<arcs, handle, context>>
  BY <1>1 DEF Scan, IInv, TypeOK
<1>12. scanner'[s] = sc
  BY <1>11 DEF IInv, TypeOK
<1>13. Owed(s)' = Owed(s)
  BY <1>10, <1>11, <1>12 DEF Owed
<1>14. ScannerInv(s)'
  <2>1. /\ arcs' = arcs /\ sc.dataset \in 1..Len(arcs)
        /\ sc.context # NoContext /\ sc.context.dataset = sc.dataset
    BY <1>1, <1>2, <1>10, <1>11
  <2>2. /\ sc.context.state = "open"
        /\ sc.context.segments = arcs'[sc.dataset].segs
        /\ sc.context.scorer = {g.uuid : g \in arcs'[sc.dataset].segs}
        /\ sc.context.mode = "strict" =>
             arcs'[sc.dataset].frags \subseteq Covered(arcs'[sc.dataset].segs)
    BY <1>2, <1>10, <1>11 DEF Prepared
  <2>3. sc.result.rows = [f \in Fragments |-> IF f \in Owed(s)' THEN 1 ELSE 0]
    <3>1. sc.result.rows = rows
      BY <1>10
    <3> QED BY <1>8, <1>13, <3>1
  <2>4. sc.result.scorer = {g.uuid : g \in arcs'[sc.dataset].segs}
    <3>1. sc.result.scorer = BaseScorer(old)
      BY <1>10
    <3> QED BY <1>4, <1>10, <1>11, <3>1
  <2> HIDE DEF sc
  <2> QED BY <1>12, <2>1, <2>2, <2>3, <2>4 DEF ScannerInv, Prepared
<1> QED BY <1>1, <1>2, <1>10, <1>11, <1>14, ScannerChangeIInv

\* Every step preserves the invariant.
LEMMA NextIInv == IInv /\ [Next]_vars => IInv'
<1> SUFFICES ASSUME IInv, [Next]_vars PROVE IInv'
  OBVIOUS
<1>1. CASE Next
  BY <1>1, HandleIInv, ContextIInv, ConfigureIInv, ScanIInv DEF Next
<1>2. CASE UNCHANGED vars
  BY <1>2 DEF vars, IInv, TypeOK, ContextInv, ScannerInv, Prepared, Owed
<1> QED BY <1>1, <1>2

\* The invariant holds in every reachable state.
LEMMA Inductive == Spec => []IInv
BY InitIInv, NextIInv, PTL DEF Spec

\* What the invariant says of a scanner that has answered.
LEMMA AnsweredFacts ==
  ASSUME IInv, NEW s \in Scanners, Answered(s)
  PROVE  /\ scanner[s].dataset \in 1..Len(arcs)
         /\ Prepared(scanner[s].context)
         /\ scanner[s].context.dataset = scanner[s].dataset
         /\ scanner[s].result.rows = [f \in Fragments |-> IF f \in Owed(s) THEN 1 ELSE 0]
         /\ scanner[s].result.scorer = {g.uuid : g \in arcs[scanner[s].dataset].segs}
<1>1. ScannerInv(s) /\ scanner[s] # NoScanner /\ scanner[s].result # NoAnswer
  BY DEF IInv, Answered
<1> QED BY <1>1 DEF ScannerInv

-----------------------------------------------------------------------------
(* The theorems.                                                           *)

\* The state of handles, contexts and scanners is well typed: every Arc a
\* handle, context or scanner holds is one that was made.
THEOREM TypeCorrect == Spec => []TypeOK
BY Inductive, PTL DEF IInv

\* A scan of a prepared query delivers exactly the rows it owes, each once, for
\* any number of mutations, contexts, scanners and segments and any plan.
THEOREM ScansAreExact == Spec => []ScanIsExact
<1>1. IInv => ScanIsExact
  BY AnsweredFacts DEF ScanIsExact
<1> QED BY <1>1, Inductive, PTL

\* Scans of one snapshot over disjoint sets of segments share no row, together
\* miss none, and score with the statistics of the whole index.
THEOREM ShardsPartition == Spec => []ShardsAddUp
<1>1. IInv => ShardsAddUp
  <2> SUFFICES ASSUME IInv, NEW s \in Scanners, NEW t \in Scanners,
                      Answered(s), Answered(t),
                      scanner[s].dataset = scanner[t].dataset,
                      scanner[s].opts = scanner[t].opts,
                      scanner[s].choice # {}, scanner[t].choice # {},
                      scanner[s].choice \cap scanner[t].choice = {}
               PROVE  LET all == arcs[scanner[s].dataset]
                          Got(r) == {f \in Fragments : scanner[r].result.rows[f] > 0}
                      IN  /\ Got(s) \cap Got(t) = {}
                          /\ scanner[s].result.scorer = scanner[t].result.scorer
                          /\ scanner[s].choice \cup scanner[t].choice
                                = {g.uuid : g \in all.segs} =>
                               Got(s) \cup Got(t) =
                                 all.frags \cap Covered(all.segs)
                                   \cap scanner[s].opts.mask \cap scanner[s].opts.filter
    BY DEF ShardsAddUp
  <2> DEFINE all == arcs[scanner[s].dataset]
             Got(r) == {f \in Fragments : scanner[r].result.rows[f] > 0}
  <2>1. \A r \in {s, t} :
          /\ scanner[r].dataset \in 1..Len(arcs)
          /\ scanner[r].result.rows = [f \in Fragments |-> IF f \in Owed(r) THEN 1 ELSE 0]
          /\ scanner[r].result.scorer = {g.uuid : g \in arcs[scanner[r].dataset].segs}
    BY AnsweredFacts
  <2>2. all \in Snapshot /\ Wellformed(all)
    BY <2>1 DEF IInv, TypeOK
  <2>3. \A r \in {s, t} : Got(r) = {f \in Fragments : f \in Owed(r)}
    BY <2>1
  <2>4. ASSUME NEW f \in Fragments, f \in Owed(s), f \in Owed(t) PROVE FALSE
    <3>1. PICK g \in all.segs : f \in g.bitmap /\ g.uuid \in scanner[s].choice
      BY <2>4 DEF Owed
    <3>2. PICK k \in all.segs : f \in k.bitmap /\ k.uuid \in scanner[t].choice
      BY <2>4 DEF Owed
    <3> QED BY <3>1, <3>2, <2>2 DEF Wellformed
  <2>5. ASSUME scanner[s].choice \cup scanner[t].choice = {g.uuid : g \in all.segs},
               NEW f \in Fragments
        PROVE  (f \in Owed(s) \/ f \in Owed(t)) <=>
                 f \in all.frags \cap Covered(all.segs)
                         \cap scanner[s].opts.mask \cap scanner[s].opts.filter
    BY <2>5 DEF Owed, Covered
  <2>6. all.frags \subseteq Fragments
    BY <2>2 DEF Snapshot
  <2> QED BY <2>1, <2>3, <2>4, <2>5, <2>6
<1> QED BY <1>1, Inductive, PTL

\* A scan over all segments of a STRICT context leaves out no row that the mask
\* and the filter let through.
THEOREM StrictIsComplete == Spec => []StrictMissesNothing
<1>1. IInv => StrictMissesNothing
  <2> SUFFICES ASSUME IInv, NEW s \in Scanners, Answered(s),
                      scanner[s].context.mode = "strict", scanner[s].choice = {},
                      NEW f \in arcs[scanner[s].dataset].frags
                                 \cap scanner[s].opts.mask \cap scanner[s].opts.filter
               PROVE  scanner[s].result.rows[f] > 0
    BY DEF StrictMissesNothing
  <2> DEFINE a == arcs[scanner[s].dataset]
  <2>1. /\ scanner[s].dataset \in 1..Len(arcs)
        /\ Prepared(scanner[s].context)
        /\ scanner[s].context.dataset = scanner[s].dataset
        /\ scanner[s].result.rows = [e \in Fragments |-> IF e \in Owed(s) THEN 1 ELSE 0]
    BY AnsweredFacts
  <2>2. a.frags \subseteq Fragments
    <3>1. a \in Snapshot
      BY <2>1 DEF IInv, TypeOK
    <3> QED BY <3>1 DEF Snapshot
  <2>3. a.frags \subseteq Covered(a.segs)
    BY <2>1 DEF Prepared
  <2>4. f \in Owed(s)
    BY <2>3 DEF Owed, Covered
  <2> QED BY <2>1, <2>2, <2>4
<1> QED BY <1>1, Inductive, PTL
=============================================================================
