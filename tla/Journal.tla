------------------------------- MODULE Journal -------------------------------
(***************************************************************************)
(* The crash-recovery journal of one document (src-tauri/src/journal/,     *)
(* with undo.rs and services/document_service.rs where they meet it).      *)
(* While the document is dirty one writer thread puts its pixel blobs, its *)
(* state file and its meta file on disk; a save deletes them; tab close    *)
(* keeps them for a Restore; the next start claims them and opens them as  *)
(* a new session with a journal of its own.  The process may crash between *)
(* any two steps.  A document is one of Docs: what it needs on disk is the *)
(* set BlobsOf of its layer images, and the moves between documents are    *)
(* its edits, undos and redos.  Each file is replaced atomically           *)
(* (engine-io/src/atomic_write.rs), so it is there or it is not.           *)
(***************************************************************************)
EXTENDS Integers, FiniteSets

CONSTANTS
    Docs, First,    \* the documents, and the one that was opened
    Blobs, BlobsOf, \* layer images (layer and raw_rev, in layer order), those of a document
    Revision,       \* Document::revision, which undo brings back
    Moves,          \* the edits, undos and redos: pairs of documents
    NoRaw,          \* images whose Raw tiles are not in the cache at first
    MaxSessions,    \* bound: sessions, each with a recovery_id and files of its own
    Cap,            \* JOURNAL_MAX_BYTES, in images
    MaxEdits, MaxCommands,  \* bounds: edits; saves, discards and crashes
    None, Gap

ASSUME JournalAssumption ==
    /\ First \in Docs
    /\ BlobsOf \in [Docs -> SUBSET Blobs]
    /\ Revision \in [Docs -> Nat]
    /\ Moves \subseteq Docs \X Docs
    /\ NoRaw \subseteq Blobs /\ Blobs \subseteq Nat
    /\ MaxSessions \in Nat \ {0}
    /\ MaxEdits \in Nat \ {0} /\ {Cap, MaxCommands} \subseteq Nat
    /\ None \notin Docs \union Nat /\ Gap \notin Docs \union {None}
    /\ None \notin {"live", "discarded"} /\ \A blobs \in SUBSET Blobs : blobs # None

VARIABLES
    mode,           \* "open", "scan" (no document, journals may be listed), "down"
    sid,            \* the session: runtime doc_id and recovery_id
    live, clean,    \* its document; is it the Arc of saved_snapshot?
    file,           \* the document in the project file
    files,          \* recovery directory: the journal of each session
    pending, hash, flushed,     \* JournalRuntime, by session
    raws,           \* images that can be encoded from the tile cache
    writer,         \* the journal-writer thread
    caller,         \* the callers of emit_dirty_doc and delete_journal, and the session they mean
    saved,          \* the snapshot a running save writes
    discard,        \* prepare_soft_discard
    recover,        \* recover_journal
    edits, commands,    \* so far: edits; saves, discards and crashes
    kept            \* history: what the journals are to give back, or Gap

sessionVars == <<mode, sid, live, clean, file>>
runtimeVars == <<pending, hash, flushed>>
vars == <<sessionVars, files, runtimeVars, raws, writer, caller, saved,
          discard, recover, edits, commands, kept>>

Ids == 1..MaxSessions
Callers == {"edit", "save", "recover", "scan"}
Idle == [at |-> "idle", id |-> 0]
NoFiles == [state |-> None, meta |-> None, blobs |-> None,
            state_claim |-> None, blobs_claim |-> None]
IdleWriter == [at |-> "idle", id |-> 0, doc |-> None, todo |-> {},
               incomplete |-> FALSE, reply |-> FALSE]
NoDiscard == [at |-> "none", doc |-> None, by |-> "none"]
NoRecover == [at |-> "none", id |-> 0, doc |-> None, siblings |-> {}]

(***************************************************************************)
(* kept is the document last journaled while it was dirty, until a save    *)
(* has written it.  The code gives it up, or loses it, in seven places:    *)
(* there kept becomes Gap, until the next whole journal, and NothingLost   *)
(* says that nothing else goes wrong.                                      *)
(***************************************************************************)
\* startup_cleanup: what a recovery had claimed gets its name back.
Restored(f) ==
    [state |-> IF f.state = None THEN f.state_claim ELSE f.state,
     meta |-> f.meta,
     blobs |-> IF f.blobs = None THEN f.blobs_claim ELSE f.blobs,
     state_claim |-> None, blobs_claim |-> None]

\* The journal in these files, as the next start will find it, opens as d.
GivesBack(journal, d) ==
    LET f == Restored(journal)
    IN  f.meta # None /\ f.state = d /\ f.blobs # None /\ BlobsOf[d] \subseteq f.blobs

\* A project file just opened, or the start after a crash that left a journal.
FileOpened ==
    /\ mode = "open" /\ edits = 0 /\ kept = None /\ raws = Blobs \ NoRaw
    /\ files = [i \in Ids |-> NoFiles]

Crashed(d) ==
    /\ mode = "down" /\ edits = 1 /\ kept = d /\ raws = {}
    /\ files = [i \in Ids |-> IF i = 1
                              THEN [NoFiles EXCEPT !.state = d, !.meta = "live", !.blobs = BlobsOf[d]]
                              ELSE NoFiles]

Init ==
    /\ \/ FileOpened
       \/ \E d \in Docs : d # First /\ Cardinality(BlobsOf[d]) <= Cap /\ Crashed(d)
    /\ sid = 1 /\ live = First /\ clean = TRUE /\ file = First
    /\ pending = {}
    /\ hash = [i \in Ids |-> None]
    /\ flushed = [i \in Ids |-> None]
    /\ writer = IdleWriter
    /\ caller = [p \in Callers |-> Idle]
    /\ saved = None
    /\ discard = NoDiscard
    /\ recover = NoRecover
    /\ commands = {}

Command(name) ==
    /\ name \notin commands /\ Cardinality(commands) < MaxCommands
    /\ commands' = commands \union {name}

Call(p, at, i) == caller' = [caller EXCEPT ![p] = [at |-> at, id |-> i]]
GoOn(p, at) == caller' = [caller EXCEPT ![p].at = at]
Return(p) == caller' = [caller EXCEPT ![p] = Idle]

NoDocument == live' = First /\ clean' = TRUE /\ raws' = {}

\* is_dirty_doc of a session; false when it is closed.
Open(i) == mode = "open" /\ i = sid
Dirty(i) == Open(i) /\ ~clean

\* delete_journal_for_session holds the journal lock over its removals;
\* discard_recovery_journals and purge_sibling_journals_for_source, the calls
\* of "scan", take no lock.
Locked == \E p \in Callers \ {"scan"} :
             caller[p].at \in {"delete_meta", "delete_blobs", "delete_claim", "delete_blobs_claim"}

(***************************************************************************)
(* Edits, and emit_dirty_doc -> schedule_dirty.                            *)
(***************************************************************************)
Edit ==
    /\ mode = "open" /\ caller["edit"].at = "idle"
    /\ edits < MaxEdits /\ edits' = edits + 1
    /\ \E d \in Docs : <<live, d>> \in Moves /\ live' = d
    /\ clean' = FALSE
    /\ Call("edit", "emit", sid)
    /\ UNCHANGED <<mode, sid, file, files, runtimeVars, raws, writer, saved,
                   discard, recover, commands, kept>>

\* schedule_dirty looks at the document before it takes the lock.
ScheduleDirty(p) ==
    /\ caller[p].at = "emit"
    /\ IF Dirty(caller[p].id) THEN GoOn(p, "pend")
       ELSE IF Open(caller[p].id) THEN GoOn(p, "delete") ELSE Return(p)
    /\ UNCHANGED <<sessionVars, files, runtimeVars, raws, writer, saved,
                   discard, recover, edits, commands, kept>>

Pend(p) ==
    /\ caller[p].at = "pend" /\ ~Locked
    /\ pending' = pending \union {caller[p].id}
    /\ Return(p)
    /\ UNCHANGED <<sessionVars, files, hash, flushed, raws, writer, saved,
                   discard, recover, edits, commands, kept>>

\* delete_journal: state, meta, blobs, then claims, one removal at a time.
InFlight(i) == writer.id = i /\ writer.at \notin {"idle", "due", "check"}
GapIf(when) == kept' = IF when THEN Gap ELSE kept

\* Gap: the journal that gives the document back is deleted though no save
\* wrote it, or a journal is deleted in the middle of a write.
Remove(i) == GapIf(InFlight(i) \/ (kept \in Docs /\ GivesBack(files[i], kept)))
DeleteOnly == UNCHANGED <<sessionVars, runtimeVars, raws, writer, saved,
                          discard, recover, edits, commands>>

DeleteState(p) ==
    /\ caller[p].at = "delete" /\ (p = "scan" \/ ~Locked)
    /\ files' = [files EXCEPT ![caller[p].id].state = None]
    /\ GoOn(p, "delete_meta")
    /\ Remove(caller[p].id) /\ DeleteOnly

DeleteMeta(p) ==
    /\ caller[p].at = "delete_meta"
    /\ files' = [files EXCEPT ![caller[p].id].meta = None]
    /\ GoOn(p, "delete_blobs")
    /\ Remove(caller[p].id) /\ DeleteOnly

DeleteBlobs(p) ==
    /\ caller[p].at = "delete_blobs"
    /\ files' = [files EXCEPT ![caller[p].id].blobs = None]
    /\ GoOn(p, "delete_claim")
    /\ Remove(caller[p].id) /\ DeleteOnly

DeleteStateClaim(p) ==
    /\ caller[p].at = "delete_claim"
    /\ files' = [files EXCEPT ![caller[p].id].state_claim = None]
    /\ GoOn(p, "delete_blobs_claim")
    /\ Remove(caller[p].id) /\ DeleteOnly

DeleteBlobsClaim(p) ==
    /\ caller[p].at = "delete_blobs_claim"
    /\ files' = [files EXCEPT ![caller[p].id].blobs_claim = None]
    /\ Return(p)
    /\ Remove(caller[p].id) /\ DeleteOnly

Caller(p) ==
    \/ ScheduleDirty(p)
    \/ Pend(p)
    \/ DeleteState(p)
    \/ DeleteMeta(p)
    \/ DeleteBlobs(p)
    \/ DeleteStateClaim(p)
    \/ DeleteBlobsClaim(p)

\* Mutant: the heartbeat only wakes the writer.
HeartbeatOnlyWakes ==
    /\ ~Locked /\ Dirty(sid) /\ sid \in pending
    /\ UNCHANGED vars

\* The heartbeat thread marks every dirty session pending, once a second.
Heartbeat ==
    /\ ~Locked /\ Dirty(sid) /\ sid \notin pending
    /\ pending' = pending \union {sid}
    /\ UNCHANGED <<sessionVars, files, hash, flushed, raws, writer, caller, saved,
                   discard, recover, edits, commands, kept>>

(***************************************************************************)
(* The writer thread: drain_due, or a flush it is asked for, then one      *)
(* write_journal_for_doc_from.  A document is due when its time has come:  *)
(* quiet, too long dirty, or the heartbeat interval.                       *)
(***************************************************************************)
Become(at) == writer' = [writer EXCEPT !.at = at]
WriterOnly == UNCHANGED <<sessionVars, raws, caller, saved, recover, edits, commands>>

DrainDue ==
    /\ writer.at = "idle" /\ ~Locked
    /\ \E i \in pending : Dirty(i) /\ writer' = [IdleWriter EXCEPT !.at = "due", !.id = i]
    /\ UNCHANGED <<files, runtimeVars, discard, kept>> /\ WriterOnly

\* The document was saved since: no longer pending.
DrainRecheck ==
    /\ writer.at = "due" /\ ~Locked
    /\ IF Dirty(writer.id)
       THEN UNCHANGED pending /\ Become("check")
       ELSE pending' = pending \ {writer.id} /\ writer' = IdleWriter
    /\ UNCHANGED <<files, hash, flushed, discard, kept>> /\ WriterOnly

\* flush_doc_sync: prepare_soft_discard sends a request and waits.
TakeFlush ==
    /\ writer.at = "idle" /\ discard.at = "flush"
    /\ writer' = [IdleWriter EXCEPT !.at = "check", !.id = sid, !.reply = TRUE]
    /\ discard' = [discard EXCEPT !.at = "flushing"]
    /\ UNCHANGED <<files, runtimeVars, kept>> /\ WriterOnly

\* A write returns; a flush is answered, with an error or without.
Finish(at, by) ==
    /\ writer' = IdleWriter
    /\ discard' = IF writer.reply THEN [discard EXCEPT !.at = at, !.by = by] ELSE discard

\* Clean documents must not create files.
CheckDirty ==
    /\ writer.at = "check"
    /\ IF Dirty(writer.id) THEN Become("snapshot") /\ UNCHANGED discard ELSE Finish("mark", "skip")
    /\ UNCHANGED <<files, runtimeVars, kept>> /\ WriterOnly

\* The document as it is now, clean or not, and its blobs directory.
Snapshot ==
    /\ writer.at = "snapshot"
    /\ IF Open(writer.id)
       THEN /\ writer' = [writer EXCEPT !.at = "blobs", !.doc = live, !.todo = BlobsOf[live]]
            /\ files' = [files EXCEPT ![sid].blobs = IF @ = None THEN {} ELSE @]
            /\ discard' = IF writer.reply THEN [discard EXCEPT !.doc = live] ELSE discard
       ELSE Finish("close", "error") /\ UNCHANGED files
    /\ UNCHANGED <<runtimeVars, kept>> /\ WriterOnly

OnDisk(i) == IF files[i].blobs = None THEN {} ELSE files[i].blobs
Missing(i, blobs) == files[i].state # None /\ ~(BlobsOf[files[i].state] \subseteq blobs)

\* One image: there already, or without its Raw tiles, or written, after a
\* collection of what this document does not name when space is short.
BlobThere(b) ==
    /\ b \in OnDisk(writer.id)
    /\ writer' = [writer EXCEPT !.todo = @ \ {b}]
    /\ UNCHANGED <<files, discard, kept>>

BlobIncomplete(b) ==
    /\ b \notin OnDisk(writer.id) /\ ~(Open(writer.id) /\ b \in raws)
    /\ writer' = [writer EXCEPT !.todo = @ \ {b}, !.incomplete = TRUE]
    /\ UNCHANGED <<files, discard, kept>>

BlobWritten(b) ==
    /\ b \notin OnDisk(writer.id) /\ Open(writer.id) /\ b \in raws
    /\ LET short == Cardinality(OnDisk(writer.id)) + 1 > Cap
           rest == IF short THEN OnDisk(writer.id) \intersect BlobsOf[writer.doc]
                   ELSE OnDisk(writer.id)
           full == Cardinality(rest) + 1 > Cap
           now == IF full THEN rest ELSE rest \union {b}
       IN  /\ files' = [files EXCEPT ![writer.id].blobs = now]
           /\ GapIf(Missing(writer.id, rest) /\ ~Missing(writer.id, OnDisk(writer.id)))
           /\ IF full THEN Finish("close", "error")
              ELSE writer' = [writer EXCEPT !.todo = @ \ {b}] /\ UNCHANGED discard

WriteBlob ==
    /\ writer.at = "blobs"
    /\ \E b \in writer.todo :
        /\ \A other \in writer.todo : b <= other
        /\ BlobThere(b) \/ BlobIncomplete(b) \/ BlobWritten(b)
    /\ UNCHANGED runtimeVars /\ WriterOnly

\* Mutant: the state is written although an image is missing.
BlobsDoneRegardless ==
    /\ writer.at = "blobs" /\ writer.todo = {}
    /\ Become("hash")
    /\ UNCHANGED <<files, runtimeVars, discard, kept>> /\ WriterOnly

\* Do not write state that references missing blobs.
BlobsDone ==
    /\ writer.at = "blobs" /\ writer.todo = {}
    /\ IF writer.incomplete THEN Finish("mark", "skip") ELSE Become("hash") /\ UNCHANGED discard
    /\ UNCHANGED <<files, runtimeVars, kept>> /\ WriterOnly

\* The state bytes are a function of the document: the hash tells them apart.
SkipState ==
    /\ writer.at = "hash" /\ ~Locked
    /\ LET same == hash[writer.id] = writer.doc
       IN  /\ Become(IF same THEN "meta" ELSE "state")
           /\ GapIf(same /\ files[writer.id].state # writer.doc)
    /\ UNCHANGED <<files, runtimeVars, discard>> /\ WriterOnly

Owed(journal) ==
    IF kept = Gap /\ ~(Restored(journal) = journal /\ GivesBack(journal, writer.doc))
    THEN Gap ELSE writer.doc

WriteState ==
    /\ writer.at = "state"
    /\ files' = [files EXCEPT ![writer.id].state = writer.doc]
    /\ Become("meta")
    /\ kept' = IF kept = None \/ files[writer.id].meta = None THEN kept
               ELSE Owed(files'[writer.id])
    /\ UNCHANGED <<runtimeVars, discard>> /\ WriterOnly

WriteMeta ==
    /\ writer.at = "meta"
    /\ files' = [files EXCEPT ![writer.id].meta = "live"]
    /\ Become("note")
    /\ kept' = IF Dirty(writer.id) \/ kept # None THEN Owed(files'[writer.id]) ELSE None
    /\ UNCHANGED <<runtimeVars, discard>> /\ WriterOnly

\* note_flushed and note_state_hash: no longer pending, edited since or not.
NoteFlushed ==
    /\ writer.at = "note" /\ ~Locked
    /\ pending' = pending \ {writer.id}
    /\ flushed' = [flushed EXCEPT ![writer.id] = Revision[writer.doc]]
    /\ hash' = [hash EXCEPT ![writer.id] = writer.doc]
    /\ Finish("mark", "flush")
    /\ UNCHANGED <<files, kept>> /\ WriterOnly

Writer ==
    \/ DrainDue
    \/ DrainRecheck
    \/ TakeFlush
    \/ CheckDirty
    \/ Snapshot
    \/ WriteBlob
    \/ BlobsDone
    \/ SkipState
    \/ WriteState
    \/ WriteMeta
    \/ NoteFlushed

\* An import or a decode puts the layer's Raw tiles into the cache.
RawArrives ==
    /\ mode = "open"
    /\ \E b \in Blobs \ raws : raws' = raws \union {b}
    /\ UNCHANGED <<sessionVars, files, runtimeVars, writer, caller, saved, discard,
                   recover, edits, commands, kept>>

(***************************************************************************)
(* save_project_as: the snapshot is written while other commands run; then *)
(* the live document is marked clean and its journal deleted.              *)
(***************************************************************************)
BeginSave ==
    /\ mode = "open" /\ caller["save"].at = "idle"
    /\ Command("save")
    /\ saved' = live
    /\ Call("save", "saving", sid)
    /\ UNCHANGED <<sessionVars, files, runtimeVars, raws, writer,
                   discard, recover, edits, kept>>

WriteProject ==
    /\ caller["save"].at = "saving"
    /\ \/ file' = saved /\ GoOn("save", "mark") /\ UNCHANGED saved
       \/ Return("save") /\ saved' = None /\ UNCHANGED file
    /\ UNCHANGED <<mode, sid, live, clean, files, runtimeVars, raws, writer,
                   discard, recover, edits, commands, kept>>

\* mark_clean: the live document, whatever was written.
MarkClean ==
    /\ caller["save"].at = "mark"
    /\ clean' = TRUE
    /\ saved' = None
    /\ Call("save", "emit", sid)
    /\ kept' = IF kept # Gap /\ saved \in {live, kept} THEN None ELSE kept
    /\ UNCHANGED <<mode, sid, live, file, files, runtimeVars, raws, writer,
                   discard, recover, edits, commands>>

SaveStep == WriteProject \/ MarkClean

(***************************************************************************)
(* prepare_soft_discard and the close of the tab.                          *)
(***************************************************************************)
DiscardOnly == UNCHANGED <<file, writer, caller, saved, recover>>

StartDiscard ==
    /\ Dirty(sid) /\ discard.at = "none"
    /\ Command("discard")
    /\ discard' = [at |-> "reuse", doc |-> live, by |-> "none"]
    /\ UNCHANGED <<mode, sid, live, clean, files, runtimeVars, raws, edits, kept>> /\ DiscardOnly

\* can_reuse_journal_for_soft_discard: the flushed revision is this one.
ReuseJournal ==
    /\ discard.at = "reuse" /\ ~Locked
    /\ LET reuse == /\ flushed[sid] = Revision[discard.doc]
                    /\ files[sid].state # None /\ files[sid].meta # None
       IN  discard' = [discard EXCEPT !.at = IF reuse THEN "mark" ELSE "flush",
                                           !.by = IF reuse THEN "reuse" ELSE "none"]
    /\ UNCHANGED <<mode, sid, live, clean, files, runtimeVars, raws, edits, commands, kept>> /\ DiscardOnly

\* mark_journal_discarded; without a meta file a reused journal is written
\* after all.  Restore is offered from here on.
MarkDiscarded ==
    /\ discard.at = "mark" /\ ~Locked
    /\ IF files[sid].meta = None /\ discard.by = "reuse"
       THEN /\ discard' = [discard EXCEPT !.at = "flush", !.by = "none"]
            /\ UNCHANGED <<files, kept>>
       ELSE /\ discard' = [discard EXCEPT !.at = "close"]
            /\ files' = [files EXCEPT ![sid].meta = IF @ = None THEN None ELSE "discarded"]
            /\ GapIf(\/ discard.by = "skip"
                     \/ discard.by = "reuse" /\ files[sid].state # discard.doc)
    /\ UNCHANGED <<mode, sid, live, clean, runtimeVars, raws, edits, commands>> /\ DiscardOnly

\* Mutant: the discard goes on although the tab is closed.
CloseTabDiscarding ==
    /\ discard.at = "close"
    /\ IF caller["save"].at \in {"saving", "mark"}
       THEN UNCHANGED <<mode, live, clean, raws>>
       ELSE mode' = "scan" /\ NoDocument
    /\ UNCHANGED <<sid, files, runtimeVars, discard, edits, commands, kept>> /\ DiscardOnly

\* close_session, refused while a save is running.
CloseTab ==
    /\ discard.at = "close"
    /\ discard' = NoDiscard
    /\ IF caller["save"].at \in {"saving", "mark"}
       THEN UNCHANGED <<mode, live, clean, raws>>
       ELSE mode' = "scan" /\ NoDocument
    /\ UNCHANGED <<sid, files, runtimeVars, edits, commands, kept>> /\ DiscardOnly

DiscardStep == ReuseJournal \/ MarkDiscarded \/ CloseTab

(***************************************************************************)
(* recover_journal: claim, assemble, open, remove, a new session, and the  *)
(* removal of other journals of the same file.                             *)
(***************************************************************************)
Goto(at) == recover' = [recover EXCEPT !.at = at]
RecoverOnly == UNCHANGED <<file, runtimeVars, writer, saved, discard, edits, commands>>

StartRecover ==
    /\ mode = "scan" /\ recover.at = "none" /\ sid + 1 \in Ids
    /\ caller["recover"].at = "idle" /\ caller["scan"].at = "idle"
    /\ \E i \in Ids :
        /\ files[i].meta # None /\ files[i].state # None
        /\ recover' = [NoRecover EXCEPT !.at = "claim", !.id = i]
    /\ UNCHANGED <<mode, sid, live, clean, files, raws, caller, kept>> /\ RecoverOnly

\* The rename of the state file claims the journal.
ClaimState ==
    /\ recover.at = "claim"
    /\ IF files[recover.id].state = None
       THEN recover' = NoRecover /\ UNCHANGED files
       ELSE /\ files' = [files EXCEPT ![recover.id].state_claim = files[recover.id].state,
                                      ![recover.id].state = None]
            /\ recover' = [recover EXCEPT !.at = "claim_blobs", !.doc = files[recover.id].state]
    /\ GapIf(InFlight(recover.id))
    /\ UNCHANGED <<mode, sid, live, clean, raws, caller>> /\ RecoverOnly

ClaimBlobs ==
    /\ recover.at = "claim_blobs"
    /\ files' = [files EXCEPT ![recover.id].blobs_claim = files[recover.id].blobs,
                              ![recover.id].blobs = None]
    /\ Goto("assemble")
    /\ GapIf(InFlight(recover.id))
    /\ UNCHANGED <<mode, sid, live, clean, raws, caller>> /\ RecoverOnly

\* assemble_dyproj_from_state_bytes wants every blob; the archive must open.
Assemble ==
    /\ recover.at = "assemble"
    /\ LET blobs == files[recover.id].blobs_claim
           whole == blobs # None /\ BlobsOf[recover.doc] \subseteq blobs
       IN  \/ whole /\ Goto("finalize")
           \/ Goto("restore")
    /\ UNCHANGED <<mode, sid, live, clean, files, raws, caller, kept>> /\ RecoverOnly

\* The claim is given back: the state, then the blobs.
RestoreState ==
    /\ recover.at = "restore"
    /\ files' = [files EXCEPT ![recover.id].state = recover.doc,
                              ![recover.id].state_claim = None]
    /\ Goto("restore_blobs")
    /\ UNCHANGED <<mode, sid, live, clean, raws, caller, kept>> /\ RecoverOnly

RestoreBlobs ==
    /\ recover.at = "restore_blobs"
    /\ LET f == files[recover.id]
       IN  files' = [files EXCEPT ![recover.id].blobs =
                        IF f.blobs_claim = None THEN f.blobs ELSE f.blobs_claim,
                                  ![recover.id].blobs_claim = None]
    /\ recover' = NoRecover
    /\ UNCHANGED <<mode, sid, live, clean, raws, caller, kept>> /\ RecoverOnly

\* ClaimedJournal::finalize and the meta file: the old journal is gone.
FinalizeState ==
    /\ recover.at = "finalize"
    /\ files' = [files EXCEPT ![recover.id].state_claim = None]
    /\ kept' = Gap
    /\ Goto("finalize_blobs")
    /\ UNCHANGED <<mode, sid, live, clean, raws, caller>> /\ RecoverOnly

FinalizeBlobs ==
    /\ recover.at = "finalize_blobs"
    /\ files' = [files EXCEPT ![recover.id].blobs_claim = None]
    /\ Goto("finalize_meta")
    /\ UNCHANGED <<mode, sid, live, clean, raws, caller, kept>> /\ RecoverOnly

FinalizeMeta ==
    /\ recover.at = "finalize_meta"
    /\ files' = [files EXCEPT ![recover.id].meta = None]
    /\ Goto("spawn")
    /\ UNCHANGED <<mode, sid, live, clean, raws, caller, kept>> /\ RecoverOnly

\* spawn_session: a new document and recovery id, nothing saved yet.
SpawnSession ==
    /\ recover.at = "spawn"
    /\ mode' = "open"
    /\ sid' = sid + 1
    /\ live' = recover.doc
    /\ clean' = FALSE
    /\ raws' = (Blobs \ NoRaw) \union BlobsOf[recover.doc]
    /\ Goto("clear")
    /\ UNCHANGED <<files, caller, kept>> /\ RecoverOnly

\* clear_history marks it clean and announces it.
ClearHistory ==
    /\ recover.at = "clear"
    /\ clean' = TRUE
    /\ Call("recover", "emit", sid)
    /\ Goto("unsaved")
    /\ UNCHANGED <<mode, sid, live, files, raws, kept>> /\ RecoverOnly

\* Recovered work is unsaved.
MarkUnsaved ==
    /\ recover.at = "unsaved" /\ caller["recover"].at = "idle"
    /\ clean' = FALSE
    /\ Call("recover", "emit", sid)
    /\ Goto("purge")
    /\ UNCHANGED <<mode, sid, live, files, raws, kept>> /\ RecoverOnly

\* purge_sibling_journals_for_source: the other journals of the same file, of
\* which there are none when the recovered one names no file.  The writer,
\* woken by MarkUnsaved, may have written the new session's meta by then.
ListSiblings ==
    /\ recover.at = "purge" /\ caller["recover"].at = "idle"
    /\ \E siblings \in SUBSET {i \in Ids \ {recover.id} : files[i].meta # None} :
          recover' = IF siblings = {} THEN NoRecover
                     ELSE [recover EXCEPT !.at = "siblings", !.siblings = siblings]
    /\ UNCHANGED <<mode, sid, live, clean, files, raws, caller, kept>> /\ RecoverOnly

\* One sibling after the other; with the last the command is done.
PurgeSibling ==
    /\ recover.at = "siblings" /\ caller["scan"].at = "idle"
    /\ \E i \in recover.siblings :
          /\ recover' = IF recover.siblings = {i} THEN NoRecover
                        ELSE [recover EXCEPT !.siblings = @ \ {i}]
          /\ Call("scan", "delete", i)
    /\ UNCHANGED <<mode, sid, live, clean, files, raws, kept>> /\ RecoverOnly

RecoverStep ==
    \/ ClaimState
    \/ ClaimBlobs
    \/ Assemble
    \/ RestoreState
    \/ RestoreBlobs
    \/ FinalizeState
    \/ FinalizeBlobs
    \/ FinalizeMeta
    \/ SpawnSession
    \/ ClearHistory
    \/ MarkUnsaved
    \/ ListSiblings
    \/ PurgeSibling

\* discard_recovery_journals: the user does not want them.
DiscardJournals ==
    /\ mode = "scan" /\ recover.at = "none" /\ caller["scan"].at = "idle"
    /\ \E i \in Ids : files[i].meta # None /\ Call("scan", "delete", i)
    /\ kept' = None
    /\ UNCHANGED <<mode, sid, live, clean, files, raws, recover>> /\ RecoverOnly

(***************************************************************************)
(* A crash takes everything but the disk; the next start restores what a   *)
(* recovery had claimed.                                                   *)
(***************************************************************************)
Crash ==
    /\ mode # "down"
    /\ Command("crash")
    /\ mode' = "down"
    /\ NoDocument
    /\ pending' = {}
    /\ hash' = [i \in Ids |-> None]
    /\ flushed' = [i \in Ids |-> None]
    /\ writer' = IdleWriter
    /\ caller' = [p \in Callers |-> Idle]
    /\ saved' = None
    /\ discard' = NoDiscard
    /\ recover' = NoRecover
    /\ UNCHANGED <<sid, file, files, edits, kept>>

Restart ==
    /\ mode = "down"
    /\ mode' = "scan"
    /\ files' = [i \in Ids |-> Restored(files[i])]
    /\ UNCHANGED <<sid, live, clean, file, runtimeVars, raws, writer, caller, saved,
                   discard, recover, edits, commands, kept>>

Next ==
    \/ Edit
    \/ \E p \in Callers : Caller(p)
    \/ Heartbeat
    \/ Writer
    \/ RawArrives
    \/ BeginSave
    \/ SaveStep
    \/ StartDiscard
    \/ DiscardStep
    \/ StartRecover
    \/ RecoverStep
    \/ DiscardJournals
    \/ Crash
    \/ Restart

Spec == Init /\ [][Next]_vars

\* The writer and the heartbeat thread run, a caller that holds the journal
\* lock lets go of it, and tiles arrive.  Nothing is asked of the user, of the
\* commands between their calls, or of the process, which may crash.
Fairness ==
    /\ WF_vars(Writer)
    /\ WF_vars(Heartbeat)
    /\ WF_vars(RawArrives)
    /\ WF_vars(\E p \in Callers \ {"scan"} : Caller(p))

FairSpec == Spec /\ Fairness

-----------------------------------------------------------------------------
MaybeBlobs == (SUBSET Blobs) \union {None}
MaybeDoc == Docs \union {None}

TypeOK ==
    /\ mode \in {"open", "scan", "down"}
    /\ sid \in Ids /\ live \in Docs /\ clean \in BOOLEAN /\ file \in Docs
    /\ files \in [Ids -> [state : MaybeDoc, meta : {None, "live", "discarded"},
                          blobs : MaybeBlobs, state_claim : MaybeDoc, blobs_claim : MaybeBlobs]]
    /\ pending \subseteq Ids
    /\ hash \in [Ids -> MaybeDoc]
    /\ flushed \in [Ids -> Nat \union {None}]
    /\ raws \subseteq Blobs
    /\ writer \in [at : {"idle", "due", "check", "snapshot", "blobs", "hash", "state", "meta", "note"},
                   id : Ids \union {0}, doc : MaybeDoc, todo : SUBSET Blobs,
                   incomplete : BOOLEAN, reply : BOOLEAN]
    /\ writer.at # "idle" => writer.id \in Ids
    /\ writer.at \in {"blobs", "hash", "state", "meta", "note"} => writer.doc \in Docs
    /\ caller \in [Callers -> [at : {"idle", "emit", "pend", "delete", "delete_meta",
                                     "delete_blobs", "delete_claim", "delete_blobs_claim",
                                     "saving", "mark"},
                               id : Ids \union {0}]]
    /\ \A p \in Callers : caller[p].at = "idle" <=> caller[p].id = 0
    /\ saved \in MaybeDoc
    /\ discard \in [at : {"none", "reuse", "flush", "flushing", "mark", "close"}, doc : MaybeDoc,
                    by : {"none", "reuse", "flush", "skip", "error"}]
    /\ discard # NoDiscard => mode = "open"
    /\ recover \in [at : {"none", "claim", "claim_blobs", "assemble", "restore", "restore_blobs",
                          "finalize", "finalize_blobs", "finalize_meta", "spawn", "clear",
                          "unsaved", "purge", "siblings"},
                    id : Ids \union {0}, doc : MaybeDoc, siblings : SUBSET Ids]
    /\ recover.at \notin {"none", "claim"} => recover.doc \in Docs
    /\ edits \in 0..MaxEdits
    /\ commands \subseteq {"save", "discard", "crash"}
    /\ kept \in MaybeDoc \union {Gap}

\* Work that was journaled is not lost: in every state, were the process to
\* stop there, some journal on disk gives back the document last journaled
\* (or the one for which Restore was offered), through collections, claims,
\* failed recoveries and crashes, except where kept is
\* Gap (write.rs:3-4, cleanup.rs:9-45, commands.rs:127-187, 227-235,
\* 429-442).
NothingLost == kept \in {None, Gap} \/ \E i \in Ids : GivesBack(files[i], kept)

\* A clean document is unchanged since the last save (write.rs:87), so that
\* deleting its journal loses nothing; the recovered one is clean for a moment.
CleanIsSaved == mode = "open" /\ clean /\ recover.at = "none" => live = file

\* A document that stays dirty is journaled in the end, also after an edit in
\* the middle of a write that took it off the pending list (runtime.rs:59-64,
\* 359-405), unless its state is taken for unchanged or it is too large.
Journaled ==
    Dirty(sid) => \/ GivesBack(files[sid], live)
                  \/ hash[sid] = live
                  \/ Cardinality(BlobsOf[live]) > Cap
EventuallyJournaled == <>[]Journaled

=============================================================================
