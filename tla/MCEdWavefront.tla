--------------------------- MODULE MCEdWavefront -----------------------------
(***************************************************************************)
(* Small instances of EdWavefront.                                         *)
(***************************************************************************)
EXTENDS EdWavefront, TLC

FromScratch == {{}}
\* Of three rows, only the left tiles of two are there.
LeftFresh == {{<<0, 0>>, <<0, 1>>}}
WorkerSymmetry == Permutations(Workers)

=============================================================================
