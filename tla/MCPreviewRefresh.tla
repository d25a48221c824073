-------------------------- MODULE MCPreviewRefresh ---------------------------
(***************************************************************************)
(* A small instance of PreviewRefresh: one command thread, one handler,    *)
(* two workers, two edits of one layer, waves of at most one task, and     *)
(* counters wide enough to tell a wrapped value from a real one.           *)
(***************************************************************************)
EXTENDS PreviewRefresh

=============================================================================
