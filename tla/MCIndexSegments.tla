--------------------------- MODULE MCIndexSegments ---------------------------
(* TLC instance of IndexSegments: one vector column and one other, two       *)
(* fragments, three model slots.                                             *)
EXTENDS IndexSegments, TLC

MCColumns == {"vector", "plain"}
MCDim == [c \in MCColumns |-> IF c = "vector" THEN 2 ELSE 0]

Pq(type, metric) == [type |-> type, metric |-> metric, num_partitions |-> 2,
                     num_sub_vectors |-> 1, num_bits |-> 0, hnsw_m |-> 1]
\* The centroids of a PQ builder may be a slice of those trained.
MCVectorParams == {Pq("IvfHnswPq", "Dot"),
                   [Pq("IvfHnswPq", "Dot") EXCEPT !.num_partitions = 1],
                   [Pq("IvfFlat", "L2") EXCEPT !.num_partitions = 1]}

\* NULL, one fragment, and a list that names a fragment twice.
MCSelections == {<<>>, <<11>>, <<11, 11>>}

\* Slots are interchangeable, and so are builder handles.
HandleSymmetry == Permutations(Slots) \cup Permutations(Builders)
=============================================================================
