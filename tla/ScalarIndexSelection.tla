------------------------- MODULE ScalarIndexSelection -------------------------
(***************************************************************************)
(* Automatic selection of a scalar index segment                           *)
(* (src/src/scalar_index_selection.rs): choose compares the BTree segment  *)
(* the caller grouped its fragments by with the other segments that could  *)
(* answer the filter, and with a full scan of the fragments.               *)
(*                                                                         *)
(* Segments are met in the order of their names, so a segment is known by  *)
(* its position: 1 is the grouping segment.  The lookup tables come from   *)
(* files and from a cache that other scans fill; what the model keeps of   *)
(* one is its size in the file, its size in memory, and the rows per page  *)
(* and number of pages the expression touches.                             *)
(***************************************************************************)
EXTENDS Integers, Sequences

CONSTANTS MaxCandidates,  \* MAX_CANDIDATES
          MaxBytes,       \* MAX_LOOKUP_BYTES
          MaxDecoded,     \* MAX_DECODED_LOOKUP_BYTES
          MaxU64,         \* the largest cost a u64 holds
          Rows,           \* physical rows of the fragments to read
          Sizes,          \* bytes of a lookup in its file
          DecodedSizes,   \* bytes of a lookup in memory
          PageRows,       \* rows per page; never 0
          Pages,          \* pages the expression touches
          MaxIndices      \* bound: indices of the snapshot other than grouping

ASSUME SelectionAssumption ==
  /\ MaxCandidates \in Nat \ {0} /\ MaxBytes \in Nat /\ MaxDecoded \in Nat
  /\ MaxU64 \in Nat /\ Rows \in 0..MaxU64 /\ MaxIndices \in Nat
  /\ Sizes \subseteq Nat /\ DecodedSizes \subseteq Nat
  /\ PageRows \subseteq Nat \ {0} /\ Pages \subseteq Nat

VARIABLES
  phase,     \* "grouping", "comparing", "done"
  met,       \* alternatives met so far, eligible or not
  bytes,     \* budget.serialized_bytes
  decoded,   \* budget.decoded_bytes
  cost,      \* rows the selected segment is expected to touch
  selected,  \* the position of the selected segment; FullScan
  probes,    \* history: the exact product of each probe, or Unknown
  opened,    \* history: file bytes of the lookups probed, opened or cached
  held       \* history: bytes of the lookups decoded or taken from the cache

budget == <<bytes, decoded, opened, held>>
selectionVars == <<phase, met, budget, cost, selected, probes>>

Unknown == -1
FullScan == 0

SelectionTypeOK ==
  /\ phase \in {"grouping", "comparing", "done"}
  /\ met \in 0..MaxIndices
  /\ bytes \in 0..MaxBytes
  /\ decoded \in 0..MaxDecoded
  /\ cost \in 0..MaxU64
  /\ selected \in Nat
  /\ probes \in Seq(Nat \cup {Unknown})
  /\ opened \in Nat /\ held \in Nat

\* ProbeBudget::default
SelectionInit ==
  /\ phase = "grouping" /\ met = 0
  /\ bytes = MaxBytes /\ decoded = MaxDecoded
  /\ cost = 0 /\ selected = 1
  /\ probes = <<>>
  /\ opened = 0 /\ held = 0

-----------------------------------------------------------------------------
(* estimate_cost: a probe adds its result to probes.                       *)

\* Wrong variant: the product wraps like a release build's multiplication.
CostWraps(n) == n % (MaxU64 + 1)

\* rows_per_page.saturating_mul(pages)
Cost(n) == IF n > MaxU64 THEN MaxU64 ELSE n

Report(n) == probes' = Append(probes, n)

\* The key has no fixed width, the manifest does not list the lookup file, or
\* the file is larger than what is left of the byte budget.
NotProbed ==
  /\ Report(Unknown)
  /\ UNCHANGED budget

\* The file fits the byte budget and is charged before it is opened; a lookup
\* found in the cache is charged too and opens nothing.
Open(size) ==
  /\ size <= bytes
  /\ bytes' = bytes - size
  /\ opened' = opened + size

\* The file has too many pages or an unusable layout, or cannot be read.
LoadFails(size) ==
  /\ Open(size)
  /\ Report(Unknown)
  /\ UNCHANGED <<decoded, held>>

\* A lookup larger in memory than what is left of that budget is refused
\* before it is decoded, and a cached one before it is used.
TooLarge(size, mem) ==
  /\ Open(size)
  /\ mem > decoded
  /\ Report(Unknown)
  /\ UNCHANGED <<decoded, held>>

\* Wrong variant: only the lookups this preparation decodes are limited.
DecodeUnchecked(mem) ==
  /\ decoded' = IF mem > decoded THEN 0 ELSE decoded - mem
  /\ held' = held + mem

\* The lookup is decoded, or taken from the cache, and charged either way.
Decode(mem) ==
  /\ mem <= decoded
  /\ decoded' = decoded - mem
  /\ held' = held + mem

\* estimate_pages cannot evaluate the expression on these pages.
Unestimable(size, mem) ==
  /\ Open(size)
  /\ Decode(mem)
  /\ Report(Unknown)

\* estimate_pages counts the pages the expression touches.
Estimate(size, mem, rows, pages) ==
  /\ Open(size)
  /\ Decode(mem)
  /\ Report(rows * pages)

\* A probe with result n.
Probe == \/ NotProbed
         \/ \E size \in Sizes : LoadFails(size)
         \/ \E size \in Sizes, mem \in DecodedSizes :
              \/ TooLarge(size, mem) \/ Unestimable(size, mem)
              \/ \E rows \in PageRows, pages \in Pages :
                   Estimate(size, mem, rows, pages)

Latest == probes'[Len(probes')]

-----------------------------------------------------------------------------
(* choose.                                                                 *)

\* The grouping segment: without an estimate it is kept unconditionally.
ProbeGrouping ==
  /\ phase = "grouping"
  /\ Probe
  /\ \/ Latest = Unknown /\ phase' = "done" /\ cost' = cost
     \/ Latest # Unknown /\ phase' = "comparing" /\ cost' = Cost(Latest)
  /\ UNCHANGED <<met, selected>>

\* An index that has no flat key field, does not cover the fragments or does
\* not answer the filter as a BTree.
Skip ==
  /\ phase = "comparing"
  /\ Len(probes) < MaxCandidates
  /\ met < MaxIndices
  /\ met' = met + 1
  /\ UNCHANGED <<phase, budget, cost, selected, probes>>

\* Only a strictly cheaper segment replaces the selected one.
Prefer ==
  \/ /\ Latest # Unknown /\ Cost(Latest) < cost
     /\ cost' = Cost(Latest)
     /\ selected' = Len(probes')
  \/ /\ Latest = Unknown \/ Cost(Latest) >= cost
     /\ UNCHANGED <<cost, selected>>

\* An eligible alternative is probed and compared.
Compare ==
  /\ phase = "comparing"
  /\ Len(probes) < MaxCandidates
  /\ met < MaxIndices
  /\ met' = met + 1
  /\ Probe
  /\ Prefer
  /\ UNCHANGED phase

\* Wrong variant: a segment is searched unless it touches more than every row.
DecideOffByOne ==
  /\ phase = "comparing"
  /\ phase' = "done"
  /\ selected' = (IF cost > Rows THEN FullScan ELSE selected)
  /\ UNCHANGED <<met, budget, cost, probes>>

\* The alternatives, of which the snapshot may have any number, or the candidate
\* limit are exhausted.  A segment that would touch as many rows as the
\* fragments have is not worth a search.
Decide ==
  /\ phase = "comparing"
  /\ phase' = "done"
  /\ selected' = (IF cost >= Rows THEN FullScan ELSE selected)
  /\ UNCHANGED <<met, budget, cost, probes>>

-----------------------------------------------------------------------------

SelectionNext == ProbeGrouping \/ Skip \/ Compare \/ Decide

SelectionSpec == SelectionInit /\ [][SelectionNext]_selectionVars

-----------------------------------------------------------------------------
(* Properties.                                                             *)

Estimated(i) == i \in 1..Len(probes) /\ probes[i] # Unknown

\* A selected segment has an estimate no estimated segment beats, the first of
\* them in order, unless the grouping segment itself could not be estimated;
\* products that exceed 64 bits do not pass for cheap ones.
CheapestIsSelected ==
  phase = "done" /\ selected # FullScan =>
    \/ selected = 1 /\ ~Estimated(1)
    \/ /\ Estimated(selected)
       /\ \A i \in 1..Len(probes) : Estimated(i) =>
            /\ probes[selected] <= probes[i]
            /\ i < selected => probes[selected] < probes[i]

\* Selection abandons the index search exactly when the grouping segment was
\* estimated and every estimate says it touches at least as many rows as the
\* fragments have.
FullScanIsJustified ==
  phase = "done" =>
    (selected = FullScan <=>
       /\ Estimated(1)
       /\ \A i \in 1..Len(probes) : Estimated(i) => probes[i] >= Rows)

\* All the probes of a preparation together stay within the file budget, the
\* memory budget and the candidate limit, whatever is cached or fails.
BudgetsHold ==
  opened <= MaxBytes /\ held <= MaxDecoded /\ Len(probes) <= MaxCandidates
=============================================================================
