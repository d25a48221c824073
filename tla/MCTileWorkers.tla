--------------------------- MODULE MCTileWorkers -----------------------------
(***************************************************************************)
(* Small instances of TileWorkers: two keys, so that two tasks can wait    *)
(* while two workers fall asleep, and for one of them a second task of a   *)
(* later generation in another lane, to merge with.                        *)
(***************************************************************************)
EXTENDS TileWorkers

CONSTANTS k1, k2

MCTask(k, gen, priority) ==
    [key |-> k, generation |-> gen, layer_generation |-> gen + 10, priority |-> priority]

MCTasks == {MCTask(k1, 1, 3), MCTask(k1, 2, 2), MCTask(k2, 1, 3)}

=============================================================================
