--------------------------- MODULE MCTileDelivery ---------------------------
(***************************************************************************)
(* Small instances of TileDelivery: one tile, at most one edit after the   *)
(* document has been opened.                                               *)
(***************************************************************************)
EXTENDS TileDelivery

=============================================================================
