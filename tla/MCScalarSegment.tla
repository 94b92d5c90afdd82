--------------------------- MODULE MCScalarSegment ---------------------------
(* TLC instance of ScalarSegment: two BTree indices on two columns, one of   *)
(* them with a segment that has not indexed the fragment of the row, and the *)
(* filter trees of up to four nodes.                                         *)
EXTENDS ScalarSegment

SegmentSet == {"a1", "a12", "b12"}
IndexOf == [s \in SegmentSet |-> IF s = "b12" THEN "B" ELSE "A"]
ColumnOf == [s \in SegmentSet |-> IF s = "b12" THEN "b" ELSE "a"]
CoverageOf == [s \in SegmentSet |-> IF s = "a1" THEN {1} ELSE {1, 2}]
ScopeSet == {{1}, {2}, {1, 2}}

A == Query("A", "a")
B == Query("B", "b")
\* A query of index A that names the other column.
Moved == Query("A", "b")

Unary(trees) == {Not(t) : t \in trees} \cup {IsTrue(t) : t \in trees}
Binary(left, right) == {Join(op, l, r) : op \in {"and", "or"}, l \in left, r \in right}

Leaves == {A, B, Moved}

\* Every tree of exactly n nodes, and so every tree of at most five.
RECURSIVE TreesOf(_)
TreesOf(n) ==
  IF n = 1 THEN Leaves
  ELSE Unary(TreesOf(n - 1)) \cup
       UNION {Binary(TreesOf(i), TreesOf(n - 1 - i)) : i \in 1..(n - 2)}
UpToFive == UNION {TreesOf(n) : n \in 1..5}

RECURSIVE Nodes(_)
Nodes(t) == CASE t.op = "query" -> 1
              [] t.op \in {"not", "istrue"} -> 1 + Nodes(t.arg)
              [] OTHER -> 1 + Nodes(t.left) + Nodes(t.right)
NodesOf == [t \in UpToFive |-> Nodes(t)]

One == {A, B}
Two == Unary(One)
Three == Unary(Two) \cup Binary(One, One)
Four == Unary(Three) \cup Binary(One, Two) \cup Binary(Two, One)

\* Trees with a moved field, and one that exceeds the node budget.
Special == {Moved, Join("and", A, Moved), Join("or", Moved, B),
            Join("and", B, Join("and", A, A))}

Simple == One \cup Two \cup Three \cup Four \cup Special

\* TLC keeps the value of a definition, not that of a constant's substitute.
TreeSet == UpToFive
SizeOf == NodesOf
FilterSet == Simple
=============================================================================
