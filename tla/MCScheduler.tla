---------------------------- MODULE MCScheduler ------------------------------
(***************************************************************************)
(* A small instance of Scheduler: requests of two generations, each with   *)
(* its own layer generation, and priorities that straddle lanes.           *)
(***************************************************************************)
EXTENDS Scheduler

CONSTANTS k1, k2

MCTask(k, gen, priority) ==
    [key |-> k, generation |-> gen, layer_generation |-> gen + 10, priority |-> priority]

\* One key, all that can happen to one entry.
MCTasksOneKey == {MCTask(k1, gen, priority) : gen \in {1, 2}, priority \in {0, 2}}

=============================================================================
