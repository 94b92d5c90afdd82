---------------------------- MODULE ScalarSegment ----------------------------
(***************************************************************************)
(* A scan accelerated by one scalar index segment                          *)
(* (src/src/scalar_segment.rs).  The explicit fragment list is what is     *)
(* read and the reader evaluates the whole filter; the segment only says   *)
(* which rows to look at, and every doubt falls back to a scoped scan.     *)
(*                                                                         *)
(* A scan treats its rows one by one, so the model follows one row, in     *)
(* fragment RowFragment.  The filter of the scan is a tree of predicates   *)
(* that some scalar index could answer; they are three-valued: "T", "F"    *)
(* and "N" for NULL.  The functions on trees recurse over the set Trees,   *)
(* which holds every tree of at most MaxSize nodes over its queries.       *)
(***************************************************************************)
EXTENDS Naturals

CONSTANTS Segments,     \* physical index segments
          Index,        \* Index[s]: the logical index segment s belongs to
          Column,       \* Column[s]: the column of that index
          Coverage,     \* Coverage[s]: the fragments segment s has indexed
          BTree,        \* the logical indices that are BTrees
          Scopes,       \* explicit fragment lists
          Trees,        \* trees of predicates
          Size,         \* Size[t]: the nodes of tree t
          MaxSize,      \* bound: nodes of a tree
          Filters,      \* filters of the scans, a part of Trees
          Columns,      \* the columns the trees mention
          RowFragment,  \* the fragment of the row that is followed
          MaxNodes,     \* MAX_EXPRESSION_NODES
          MaxDepth      \* MAX_EXPRESSION_DEPTH

Truth == {"T", "F", "N"}

Query(index, column) == [op |-> "query", index |-> index, column |-> column]
Not(t) == [op |-> "not", arg |-> t]
\* IS TRUE; it stands for IS FALSE, IS NOT TRUE and IS NOT FALSE as well.
IsTrue(t) == [op |-> "istrue", arg |-> t]
Join(op, l, r) == [op |-> op, left |-> l, right |-> r]
Nothing == [op |-> "nothing"]

ASSUME SegmentAssumption ==
  /\ \A s \in Segments : Column[s] \in Columns
  /\ MaxNodes \in Nat /\ MaxDepth \in Nat

\* Trees consists of queries and of trees built from its smaller trees.
ASSUME TreesAreTrees ==
  /\ Filters \subseteq Trees
  /\ MaxSize \in Nat /\ Size \in [Trees -> 1..MaxSize]
  /\ \A t \in Trees :
       \/ /\ t.op = "query" /\ t.column \in Columns
          /\ t = Query(t.index, t.column)
       \/ /\ t.op \in {"not", "istrue"} /\ t.arg \in Trees
          /\ t = [op |-> t.op, arg |-> t.arg]
          /\ Size[t] = 1 + Size[t.arg]
       \/ /\ t.op \in {"and", "or"} /\ t.left \in Trees /\ t.right \in Trees
          /\ t = Join(t.op, t.left, t.right)
          /\ Size[t] = 1 + Size[t.left] + Size[t.right]

\* What can be built from trees of Trees within MaxSize nodes is in Trees.
ASSUME TreesAreClosed ==
  \A t \in Trees :
    /\ Size[t] < MaxSize => Not(t) \in Trees
    /\ \A u \in Trees : 1 + Size[t] + Size[u] <= MaxSize =>
         \A op \in {"and", "or"} : Join(op, t, u) \in Trees

VARIABLES
  phase,   \* "new", "configured", "read"
  scan,    \* the request, the state of the snapshot and the row
  reason,  \* why the scan fell back; "none" when the mask is installed
  mask,    \* whether the row prefilter lets the row through
  got      \* the row was delivered

segmentVars == <<phase, scan, reason, mask, got>>

\* Why a segment may not be used; at most one at a time.  "absent" stands for a
\* fragment, segment or key field the snapshot does not have, "io_error" for a
\* segment that cannot be opened or searched.
Faults == {"none", "absent", "disabled", "legacy_storage", "nested_field",
           "unknown_coverage", "fragment_state", "fragment_reuse", "no_filter",
           "filter_schema", "no_driver", "index_type", "row_id_domain",
           "inexact_result", "io_error"}

Scans == [segment : Segments, scope : Scopes, auto : BOOLEAN, fault : Faults,
          tree : Filters, row : [Columns -> Truth]]

Reasons == (Faults \ {"absent", "io_error"}) \cup
           {"error", "partial_coverage", "boolean_truth_test", "field_path",
            "expression_budget", "runtime_cost", "loader_refused"}

SegmentTypeOK ==
  /\ phase \in {"new", "configured", "read"}
  /\ phase # "new" => scan \in Scans
  /\ reason \in Reasons
  /\ mask \in BOOLEAN
  /\ got \in BOOLEAN

SegmentInit ==
  /\ phase = "new" /\ scan = [fault |-> "none"]
  /\ reason = "none" /\ mask = TRUE /\ got = FALSE

-----------------------------------------------------------------------------
(* The values of filters (DataFusion and the Lance evaluator, external).   *)

Negation(v) == CASE v = "T" -> "F" [] v = "F" -> "T" [] OTHER -> "N"
Conjunction(v, w) == CASE "F" \in {v, w} -> "F"
                       [] v = "T" /\ w = "T" -> "T"
                       [] OTHER -> "N"

\* The value of a tree when its predicates on column c are worth val[c].
Value[t \in Trees] == [val \in [Columns -> Truth] |->
  CASE t.op = "query" -> val[t.column]
    [] t.op = "not" -> Negation(Value[t.arg][val])
    [] t.op = "istrue" -> IF Value[t.arg][val] = "T" THEN "T" ELSE "F"
    [] t.op = "and" -> Conjunction(Value[t.left][val], Value[t.right][val])
    [] OTHER -> Negation(Conjunction(Negation(Value[t.left][val]),
                                      Negation(Value[t.right][val])))]

\* The nodes of a tree, each as the tree under it.
Subtrees[t \in Trees] ==
  CASE t.op = "query" -> {t}
    [] t.op \in {"not", "istrue"} -> {t} \cup Subtrees[t.arg]
    [] OTHER -> {t} \cup Subtrees[t.left] \cup Subtrees[t.right]

\* filter.exists(IsTrue | IsFalse | IsNotTrue | IsNotFalse)
HasTruthTest(t) == \E u \in Subtrees[t] : u.op = "istrue"

\* ScalarIndexExpr has no truth test.
IndexExprs == {t \in Trees : ~HasTruthTest(t)}

\* create_filter_plan: the planner lowers IS TRUE to nullable equality.
Lowered[t \in Trees] ==
  CASE t.op = "query" -> t
    [] t.op = "not" -> Not(Lowered[t.arg])
    [] t.op = "istrue" -> Lowered[t.arg]
    [] OTHER -> Join(t.op, Lowered[t.left], Lowered[t.right])

-----------------------------------------------------------------------------
(* scoped_expression: the part of a tree one index can answer.             *)

\* What is asked of a tree for a segment: need says whether the part must be the "whole"
\* tree (require_complete) or may be a "part" of it; left nodes may still be met.
Requests == [segment : Segments, tree : IndexExprs, need : {"whole", "part"},
             depth : Nat, left : Nat]

Child(q, t, need, left) ==
  [segment |-> q.segment, tree |-> t, need |-> need,
   depth |-> q.depth + 1, left |-> left]

Found(expr, left) == [expr |-> expr, left |-> left, err |-> "none"]
Rejected(err, left) == [expr |-> Nothing, left |-> left, err |-> err]

\* Wrong variant: an OR keeps the branch the index can answer.
JoinScopedPrunesOr(op, l, r, need) ==
  CASE l # Nothing /\ r # Nothing -> Join(op, l, r)
    [] l = Nothing /\ need = "part" -> r
    [] l # Nothing /\ r = Nothing /\ need = "part" -> l
    [] OTHER -> Nothing

\* AND may keep one branch unless the subtree must be whole; OR needs both.
JoinScoped(op, l, r, need) ==
  CASE l # Nothing /\ r # Nothing -> Join(op, l, r)
    [] l = Nothing /\ op = "and" /\ need = "part" -> r
    [] l # Nothing /\ r = Nothing /\ op = "and" /\ need = "part" -> l
    [] OTHER -> Nothing

\* A query of another index contributes nothing; one of this index on another
\* column means the field path cannot be trusted.
ScopedQuery(t, s, left) ==
  CASE t.index # Index[s] -> Found(Nothing, left)
    [] t.index = Index[s] /\ t.column # Column[s] -> Rejected("field_path", left)
    [] t.index = Index[s] /\ t.column = Column[s] -> Found(t, left)

\* The negation of what was found under a NOT.
ScopedNot(r) == IF r.expr = Nothing THEN r ELSE Found(Not(r.expr), r.left)

\* What the branches of an AND or OR come to; the first error wins.
ScopedJoin(q, l, r) ==
  CASE l.err # "none" -> l
    [] l.err = "none" /\ r.err # "none" -> r
    [] l.err = "none" /\ r.err = "none" ->
         Found(JoinScoped(q.tree.op, l.expr, r.expr, q.need), r.left)

\* scoped_expression.
Scoped[q \in Requests] ==
  IF q.depth > MaxDepth \/ q.left = 0
  THEN Rejected("expression_budget", q.left)
  ELSE CASE q.tree.op = "query" -> ScopedQuery(q.tree, q.segment, q.left - 1)
         [] q.tree.op = "not" ->
              ScopedNot(Scoped[Child(q, q.tree.arg, "whole", q.left - 1)])
         [] OTHER ->
              LET l == Scoped[Child(q, q.tree.left, q.need, q.left - 1)]
              IN  ScopedJoin(q, l, Scoped[Child(q, q.tree.right, q.need, l.left)])

ScopedFor(t, s) ==
  Scoped[[segment |-> s, tree |-> t, need |-> "part", depth |-> 0, left |-> MaxNodes]]

-----------------------------------------------------------------------------
(* Automatic selection: choose, of which only the possible outcomes matter *)
(* here (module ScalarIndexSelection has the cost comparison).             *)

IsBTreeExpression(t) ==
  \A u \in Subtrees[t] : u.op # "not" /\ (u.op = "query" => u.index \in BTree)

Covers(s, scope) == scope \subseteq Coverage[s]

\* The segments choose may compare with the grouping segment.
Candidates(sc, query) ==
  {s \in Segments \ {sc.segment} :
     /\ Covers(s, sc.scope)
     /\ LET e == ScopedFor(query, s)
        IN  e.err = "none" /\ e.expr # Nothing /\ IsBTreeExpression(e.expr)}

\* A full scan was cheaper.
FullScan == [segment |-> "full_scan", expr |-> Nothing]

\* Wrong variant: the cheaper segment is searched with the grouping expression.
ChosenKeepsExpr(sc, query, expr) ==
  IF ~sc.auto \/ ~IsBTreeExpression(expr)
  THEN {[segment |-> sc.segment, expr |-> expr]}
  ELSE {FullScan} \cup
       {[segment |-> s, expr |-> expr] :
           s \in {sc.segment} \cup Candidates(sc, query)}

\* The segment and the expression the scan will search.
Chosen(sc, query, expr) ==
  IF ~sc.auto \/ ~IsBTreeExpression(expr)
  THEN {[segment |-> sc.segment, expr |-> expr]}
  ELSE {FullScan, [segment |-> sc.segment, expr |-> expr]} \cup
       {[segment |-> s, expr |-> ScopedFor(query, s).expr] :
           s \in Candidates(sc, query)}

-----------------------------------------------------------------------------
(* configure_candidates.                                                   *)

\* The first check that stops the preparation, in the order of the code.  The
\* snapshot is validated first; an invalid request is an error even with scalar
\* indices disabled.
Preparation(sc) ==
  IF sc.fault = "absent" THEN "error"
  ELSE IF sc.fault \in {"disabled", "legacy_storage", "nested_field",
                        "unknown_coverage"} THEN sc.fault
  ELSE IF ~Covers(sc.segment, sc.scope) THEN "partial_coverage"
  ELSE IF sc.fault \in {"fragment_state", "fragment_reuse", "no_filter"} THEN sc.fault
  ELSE IF HasTruthTest(sc.tree) THEN "boolean_truth_test"
  ELSE IF sc.fault \in {"filter_schema", "no_driver"} THEN sc.fault
  ELSE "none"

\* SegmentIndexLoader answers for one index only.
Loadable(t, s) ==
  \A u \in Subtrees[t] :
    u.op = "query" => u.index = Index[s] /\ u.column = Column[s]

\* Opening the segment and evaluating the expression with it.
Search(sc, choice) ==
  IF choice = FullScan THEN "runtime_cost"
  ELSE IF sc.fault = "io_error" THEN "error"
  ELSE IF sc.fault \in {"index_type", "row_id_domain"} THEN sc.fault
  ELSE IF ~Loadable(choice.expr, choice.segment) THEN "loader_refused"
  ELSE IF sc.fault = "inexact_result" THEN sc.fault
  ELSE "none"

\* What a segment says of the row (Lance evaluator, external): the value of
\* the expression if it has indexed the row, nothing found if it has not.  A
\* segment that no longer describes the row may say anything.
Misleading == {"nested_field", "unknown_coverage", "fragment_state",
               "fragment_reuse", "row_id_domain"}
Answers(sc, choice) ==
  IF sc.fault \in Misleading THEN BOOLEAN
  ELSE {Value[choice.expr][IF RowFragment \in Coverage[choice.segment]
                           THEN sc.row ELSE [c \in Columns |-> "F"]] = "T"}

\* The preparation stops: the reader keeps its scope and its filter, no mask.
FallBack(why) == reason' = why /\ mask' = TRUE

\* The segment is searched and its answer becomes the row prefilter.
SearchSegment(sc) ==
  LET query == Lowered[sc.tree]
      scoped == ScopedFor(query, sc.segment)
  IN  \/ scoped.err # "none" /\ FallBack(scoped.err)
      \/ scoped.err = "none" /\ scoped.expr = Nothing /\ FallBack("no_driver")
      \/ /\ scoped.err = "none" /\ scoped.expr # Nothing
         /\ \E choice \in Chosen(sc, query, scoped.expr) :
              LET why == Search(sc, choice)
              IN  \/ why # "none" /\ FallBack(why)
                  \/ /\ why = "none"
                     /\ reason' = "none"
                     /\ mask' \in Answers(sc, choice)

\* configure, for a scan sc.
Configure(sc) ==
  LET why == Preparation(sc)
  IN  /\ phase' = "configured"
      /\ scan' = sc
      /\ \/ why # "none" /\ FallBack(why)
         \/ why = "none" /\ SearchSegment(sc)
      /\ UNCHANGED got

\* Whether the row satisfies the whole filter.
Satisfies(sc) ==
  sc.fault = "no_filter" \/ Value[sc.tree][sc.row] = "T"

\* The reader (external): the rows of the scope that pass the mask and the
\* whole filter.  Legacy storage does not accept a mask.
Read ==
  /\ phase = "configured"
  /\ reason \notin {"error", "loader_refused"}
  /\ phase' = "read"
  /\ got' = (/\ RowFragment \in scan.scope /\ mask /\ Satisfies(scan)
             /\ scan.fault = "legacy_storage" => reason # "none")
  /\ UNCHANGED <<scan, reason, mask>>

-----------------------------------------------------------------------------

SegmentNext == \/ phase = "new" /\ \E sc \in Scans : Configure(sc)
               \/ Read

SegmentSpec == SegmentInit /\ [][SegmentNext]_segmentVars

-----------------------------------------------------------------------------
(* Properties.                                                             *)

\* A scan delivers a row exactly when it is in the explicit fragment list and
\* satisfies the whole filter, whatever segment was asked for or selected and
\* whatever the segment says: pruned AND, OR and NOT, NULL values, fragments
\* the segment has not indexed, snapshots it no longer describes.
ScopedReadIsExact ==
  phase = "read" => got = (RowFragment \in scan.scope /\ Satisfies(scan))

\* The expression that is evaluated only mentions the index whose segment was
\* opened for it, so the loader of that segment never turns a scan into an
\* error, also when automatic selection changed the segment.
LoaderNeverRefuses == reason # "loader_refused"
=============================================================================
