---------------------------- MODULE MCPreparedFts ----------------------------
(* TLC instance of PreparedFts: a dataset and two snapshots of it, two       *)
(* scanners that share a context.                                            *)
EXTENDS PreparedFts, TLC

CONSTANTS u1, u2

Seg(u, bitmap, known, shape) ==
  [uuid |-> u, bitmap |-> bitmap, known |-> known, shape |-> shape]

\* Two segments and an uncovered fragment.
TwoSegments == [frags |-> {1, 2, 3},
                segs |-> {Seg(u1, {1}, TRUE, "plain"), Seg(u2, {2}, TRUE, "plain")}]
\* A segment whose only fragment is gone.
EmptySegment == [frags |-> {1, 2},
                 segs |-> {Seg(u1, {1, 2}, TRUE, "positions"), Seg(u2, {3}, TRUE, "positions")}]
\* A bitmap that names a fragment that is gone, and an uncovered fragment.
StaleBitmap == [frags |-> {1, 2}, segs |-> {Seg(u1, {1, 3}, TRUE, "plain")}]

MCStored == {<<TwoSegments>>, <<EmptySegment>>, <<StaleBitmap>>}

\* A segment that fits StaleBitmap, and ones of another shape and of unknown
\* coverage.
MCBuilt == {Seg(u2, {2}, TRUE, "plain"), Seg(u2, {2}, TRUE, "positions"),
            Seg(u2, {2}, FALSE, "plain")}

All == {1, 2, 3, 4}

\* A plain scan, one with a prefilter and a mask, and one with explicit
\* fragments, which is refused.
MCRequests ==
  {[filtered |-> FALSE, filter |-> All, prefilter |-> FALSE, mask |-> All, fragment_ids |-> FALSE],
   [filtered |-> TRUE, filter |-> {1, 2}, prefilter |-> TRUE, mask |-> {1, 3, 4}, fragment_ids |-> FALSE],
   [filtered |-> FALSE, filter |-> All, prefilter |-> FALSE, mask |-> All, fragment_ids |-> TRUE]}

FtsSymmetry == Permutations(Scanners)
=============================================================================
