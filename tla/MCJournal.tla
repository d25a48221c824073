------------------------------ MODULE MCJournal ------------------------------
(***************************************************************************)
(* Small instances of Journal: a document, two edits that branch after an  *)
(* undo (and so share a revision), and one that needs more than the cap.   *)
(***************************************************************************)
EXTENDS Journal, TLC

CONSTANTS a, b, c

MCDocs == {a, b, c}
MCBlobs == {1, 2, 3, 4}
MCBlobsOf == (a :> {1}) @@ (b :> {2}) @@ (c :> {1, 3, 4})
MCRevision == (a :> 0) @@ (b :> 1) @@ (c :> 2)
MCMoves == {<<a, b>>, <<b, a>>, <<b, c>>, <<c, b>>}

=============================================================================
