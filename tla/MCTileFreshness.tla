--------------------------- MODULE MCTileFreshness ---------------------------
(***************************************************************************)
(* Small instances of TileFreshness: one or two workers, one or two edits  *)
(* (palette, a filter added or a filter changed), at most one undo.        *)
(***************************************************************************)
EXTENDS TileFreshness, TLC

\* What the n-th edit of a run may be.
AnyEdits == [n \in 1..MaxEdits |-> {"palette", "add_filter", "update_filter"}]
FilterEdits == [n \in 1..MaxEdits |-> {"add_filter"}]
PaletteThenFilter == [n \in 1..MaxEdits |-> IF n = 1 THEN {"palette"} ELSE {"update_filter"}]

\* The workers run one and the same loop (used for safety only).
WorkerSymmetry == Permutations(Workers)

=============================================================================
