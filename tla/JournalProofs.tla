---------------------------- MODULE JournalProofs ----------------------------
(***************************************************************************)
(* Proofs about Journal, for every value of its constants: its types, and  *)
(* that nothing journaled is lost.                                         *)
(***************************************************************************)
EXTENDS Journal, TLAPS

-----------------------------------------------------------------------------
(***************************************************************************)
(* The inductive invariant.  What Keeps adds to NothingLost is the hold a  *)
(* running recovery has on the journal that gives the document back; what  *)
(* Written says of the writer is that the images its state file will name  *)
(* are on disk when it renames that file into place.                       *)
(***************************************************************************)
\* The steps of recover_journal: all before there is a session, those
\* after the claim of the state, those with a claimed state, those with the
\* images away, those that remove what was claimed.
Claimed == {"claim_blobs", "assemble", "restore", "restore_blobs",
            "finalize", "finalize_blobs", "finalize_meta"}
Scanning == Claimed \union {"claim", "spawn"}
StateClaimed == {"claim_blobs", "assemble", "restore", "finalize"}
BlobsClaimed == {"assemble", "restore", "restore_blobs", "finalize", "finalize_blobs"}
BlobsAway == BlobsClaimed \union {"finalize_meta"}
Finalizing == {"finalize_blobs", "finalize_meta"}

Writing == {"blobs", "hash", "state", "meta"}

\* The types by component.
FileSet == [state : MaybeDoc, meta : {None, "live", "discarded"},
            blobs : MaybeBlobs, state_claim : MaybeDoc, blobs_claim : MaybeBlobs]
WriterSet == [at : {"idle", "due", "check", "snapshot", "blobs", "hash", "state", "meta", "note"},
              id : Ids \union {0}, doc : MaybeDoc, todo : SUBSET Blobs,
              incomplete : BOOLEAN, reply : BOOLEAN]
CallerSet == [at : {"idle", "emit", "pend", "delete", "delete_meta",
                    "delete_blobs", "delete_claim", "delete_blobs_claim", "saving", "mark"},
              id : Ids \union {0}]
DiscardSet == [at : {"none", "reuse", "flush", "flushing", "mark", "close"}, doc : MaybeDoc,
               by : {"none", "reuse", "flush", "skip", "error"}]
RecoverSet == [at : {"none", "claim", "claim_blobs", "assemble", "restore", "restore_blobs",
                     "finalize", "finalize_blobs", "finalize_meta", "spawn", "clear",
                     "unsaved", "purge", "siblings"},
               id : Ids \union {0}, doc : MaybeDoc, siblings : SUBSET Ids]

SessionOK ==
    /\ mode \in {"open", "scan", "down"}
    /\ sid \in Ids /\ live \in Docs /\ clean \in BOOLEAN /\ file \in Docs
FilesOK == files \in [Ids -> FileSet]
RuntimeOK ==
    /\ pending \subseteq Ids
    /\ hash \in [Ids -> MaybeDoc]
    /\ flushed \in [Ids -> Nat \union {None}]
RestOK ==
    /\ raws \subseteq Blobs
    /\ edits \in 0..MaxEdits
    /\ commands \subseteq {"save", "discard", "crash"}
    /\ kept \in MaybeDoc \union {Gap}
CallerOK ==
    /\ caller \in [Callers -> CallerSet]
    /\ \A p \in Callers : caller[p].at = "idle" <=> caller[p].id = 0
    /\ saved \in MaybeDoc
    /\ caller["save"].at = "saving" => saved \in Docs

\* A write begins in an open session; one that was asked for is awaited.
WriterOK ==
    /\ writer \in WriterSet
    /\ writer.at # "idle" => writer.id \in Ids
    /\ writer.at \in Writing \union {"note"} => writer.doc \in Docs
    /\ writer.reply => discard.at = "flushing"
    /\ writer.id <= sid
    /\ mode = "down" => writer.at = "idle"
DiscardOK ==
    /\ discard \in DiscardSet
    /\ discard # NoDiscard => mode = "open"
RecoverOK ==
    /\ recover \in RecoverSet
    /\ recover.at \notin {"none", "claim"} => recover.doc \in Docs
    /\ recover.at # "none" => recover.id \in Ids
    /\ recover.at \in Scanning => mode = "scan" /\ sid + 1 \in Ids
    /\ mode = "down" => recover.at = "none"

Shape ==
    /\ SessionOK
    /\ FilesOK
    /\ RuntimeOK
    /\ RestOK
    /\ CallerOK
    /\ WriterOK
    /\ DiscardOK
    /\ RecoverOK

\* Outside a crash, a claim belongs to the recovery that made it.
ClaimsHeld ==
    mode # "down" => \A i \in Ids :
       /\ files[i].state_claim # None => recover.id = i /\ recover.at \in StateClaimed
       /\ files[i].blobs_claim # None => recover.id = i /\ recover.at \in BlobsClaimed

Busy(i) == writer.id = i /\ writer.at \in Writing \union {"snapshot", "note"}

\* A claimed journal that is being written has no images left, or still its
\* claimed state; a write that a recovery meets has already been given up.
ClaimParts ==
    recover.at \in Claimed =>
       /\ recover.at \in BlobsAway => files[recover.id].blobs = None
       /\ recover.at = "claim_blobs" /\ writer.id = recover.id /\ writer.at \in Writing =>
             files[recover.id].state_claim = recover.doc \/ files[recover.id].blobs = None
       /\ Busy(recover.id) => kept = Gap

\* A deletion that holds the journal lock has removed the meta file, which a
\* writer on its way to the lock may have put there again, and the images,
\* which a recovery that began before it cannot bring back.
Deleters ==
    /\ mode = "down" => \A p \in Callers : caller[p].at = "idle"
    /\ recover.at \in Scanning => caller["scan"].at = "idle"
    /\ \A p \in Callers \ {"scan"} :
          /\ caller[p].at \in {"delete_blobs", "delete_claim"} =>
                \/ files[caller[p].id].meta = None
                \/ writer.id = caller[p].id /\ writer.at = "note"
          /\ /\ caller[p].at = "delete_claim" /\ caller[p].id = recover.id
             /\ recover.at \in {"claim", "claim_blobs"}
             /\ writer.id = recover.id /\ writer.at \in Writing
             => files[recover.id].blobs = None

\* The recovery still has what it claimed of i, and does not remove it.
Untouched(i) ==
    recover.id = i =>
       /\ recover.at \in StateClaimed => files[i].state = None /\ files[i].state_claim = recover.doc
       /\ recover.at \notin Finalizing

Keeps == kept \notin {None, Gap} => \E i \in Ids : GivesBack(files[i], kept) /\ Untouched(i)

\* Nothing is owed of this write.
Released == kept = Gap \/ (kept = None /\ ~Open(writer.id))

ImagesThere ==
    /\ files[writer.id].blobs # None
    /\ writer.at = "blobs" =>
          writer.incomplete \/ BlobsOf[writer.doc] \ writer.todo \subseteq files[writer.id].blobs
    /\ writer.at # "blobs" => BlobsOf[writer.doc] \subseteq files[writer.id].blobs
    /\ writer.at = "meta" => files[writer.id].state = writer.doc

Written == writer.at \in Writing => Released \/ ImagesThere

IInv ==
    /\ Shape
    /\ ClaimsHeld
    /\ ClaimParts
    /\ Deleters
    /\ Keeps
    /\ Written

-----------------------------------------------------------------------------
(***************************************************************************)
(* The types, one lemma per action.                                        *)
(***************************************************************************)
LEMMA FilesWith ==
  ASSUME FilesOK, NEW i, NEW f \in FileSet
  PROVE  [files EXCEPT ![i] = f] \in [Ids -> FileSet]
  BY DEF FilesOK

LEMMA JournalTyped ==
  ASSUME FilesOK, NEW i \in Ids
  PROVE  /\ files[i] \in FileSet
         /\ files[i].state \in MaybeDoc
         /\ files[i].meta \in {None, "live", "discarded"}
         /\ files[i].blobs \in MaybeBlobs
         /\ files[i].state_claim \in MaybeDoc
         /\ files[i].blobs_claim \in MaybeBlobs
  BY DEF FilesOK, FileSet

LEMMA FileFields ==
  ASSUME NEW f \in FileSet
  PROVE  /\ \A d \in MaybeDoc : [f EXCEPT !.state = d] \in FileSet
         /\ \A d \in MaybeDoc : [f EXCEPT !.state_claim = d] \in FileSet
         /\ \A m \in {None, "live", "discarded"} : [f EXCEPT !.meta = m] \in FileSet
         /\ \A s \in MaybeBlobs : [f EXCEPT !.blobs = s] \in FileSet
         /\ \A s \in MaybeBlobs : [f EXCEPT !.blobs_claim = s] \in FileSet
  BY DEF FileSet

LEMMA Nothing == None \in MaybeDoc /\ None \in MaybeBlobs /\ {} \in MaybeBlobs
  <1>1. {} \in SUBSET Blobs
    OBVIOUS
  <1> QED  BY <1>1 DEF MaybeDoc, MaybeBlobs

LEMMA IdleWriterTyped == IdleWriter \in WriterSet
  BY DEF IdleWriter, WriterSet, MaybeDoc, Ids

LEMMA RestoredTyped ==
  ASSUME NEW f \in FileSet
  PROVE  Restored(f) \in FileSet
  BY Nothing DEF Restored, FileSet

LEMMA CallerTyped ==
  ASSUME CallerOK, NEW p \in Callers
  PROVE  caller[p].at # "idle" => caller[p].id \in Ids
  BY DEF CallerOK, CallerSet

LEMMA DiscardOpen == ASSUME DiscardOK, discard.at # "none" PROVE mode = "open"
  BY DEF DiscardOK, NoDiscard

\* What Finish leaves of the discard that waits for the write.
LEMMA FinishTyped ==
  ASSUME DiscardOK, WriterOK, NEW at \in {"mark", "close"}, NEW by \in {"flush", "skip", "error"},
         Finish(at, by), UNCHANGED mode
  PROVE  /\ writer' = IdleWriter
         /\ discard' \in DiscardSet
         /\ discard' # NoDiscard => mode' = "open"
  <1>1. [discard EXCEPT !.at = at, !.by = by] \in DiscardSet
    BY DEF DiscardOK, DiscardSet
  <1>2. writer.reply => mode = "open"
    BY DiscardOpen DEF WriterOK
  <1> QED  BY <1>1, <1>2 DEF Finish, DiscardOK

\* What a finished write leaves of the writer.
LEMMA IdleWriterOK ==
  ASSUME SessionOK', writer' = IdleWriter
  PROVE  WriterOK'
  <1>1. writer' \in WriterSet /\ writer'.at = "idle" /\ writer'.id = 0 /\ ~writer'.reply
    BY IdleWriterTyped DEF IdleWriter
  <1>2. 0 <= sid'
    BY DEF SessionOK, Ids
  <1> QED  BY <1>1, <1>2 DEF WriterOK, Writing

LEMMA OnDiskTyped ==
  ASSUME FilesOK, NEW i \in Ids
  PROVE  OnDisk(i) \in SUBSET Blobs
  BY JournalTyped DEF OnDisk, MaybeBlobs

LEMMA WriterTodo ==
  ASSUME NEW w \in WriterSet, NEW b
  PROVE  /\ [w EXCEPT !.todo = @ \ {b}] \in WriterSet
         /\ [w EXCEPT !.todo = @ \ {b}, !.incomplete = TRUE] \in WriterSet
  BY DEF WriterSet

\* What BlobWritten leaves on disk, and the step by its outcome.
Collected ==
    IF Cardinality(OnDisk(writer.id)) + 1 > Cap
    THEN OnDisk(writer.id) \intersect BlobsOf[writer.doc] ELSE OnDisk(writer.id)
After(b) == IF Cardinality(Collected) + 1 > Cap THEN Collected ELSE Collected \union {b}

LEMMA BlobWrittenCases ==
  ASSUME NEW b, BlobWritten(b)
  PROVE  /\ files' = [files EXCEPT ![writer.id].blobs = After(b)]
         /\ kept' = IF Missing(writer.id, Collected) /\ ~Missing(writer.id, OnDisk(writer.id))
                    THEN Gap ELSE kept
         /\ \/ Finish("close", "error") /\ writer' = IdleWriter
            \/ /\ ~(Cardinality(Collected) + 1 > Cap)
               /\ writer' = [writer EXCEPT !.todo = @ \ {b}] /\ discard' = discard
  <1>1. CASE Cardinality(Collected) + 1 > Cap
    BY <1>1, Zenon DEF BlobWritten, GapIf, Collected, After, Finish
  <1>2. CASE ~(Cardinality(Collected) + 1 > Cap)
    BY <1>2, Zenon DEF BlobWritten, GapIf, Collected, After, Finish
  <1> QED  BY <1>1, <1>2

LEMMA EditShape ==
  ASSUME Shape, Edit
  PROVE  Shape'
  <1>1. FilesOK' /\ RuntimeOK' /\ WriterOK' /\ DiscardOK' /\ RecoverOK'
    BY DEF Shape, FilesOK, RuntimeOK, WriterOK, DiscardOK, RecoverOK, Edit, runtimeVars
  <1>2. SessionOK'
    BY DEF Shape, SessionOK, Edit, Call, runtimeVars
  <1>3. RestOK'
    BY JournalAssumption DEF JournalAssumption, Shape, RestOK, Edit
  <1>4. CallerOK'
    BY DEF Shape, CallerOK, CallerSet, Callers, Ids, SessionOK, Edit, Call
  <1> QED  BY <1>1, <1>2, <1>3, <1>4 DEF Shape

LEMMA ScheduleDirtyShape ==
  ASSUME Shape, NEW p \in Callers, ScheduleDirty(p)
  PROVE  Shape'
  <1>1. SessionOK' /\ FilesOK' /\ RuntimeOK' /\ RestOK' /\ WriterOK' /\ DiscardOK' /\ RecoverOK'
    BY DEF Shape, SessionOK, FilesOK, RuntimeOK, RestOK, WriterOK, DiscardOK, RecoverOK,
           ScheduleDirty, sessionVars, runtimeVars
  <1>2. CallerOK'
    BY DEF Shape, CallerOK, CallerSet, Callers, Ids, MaybeDoc, Idle, ScheduleDirty, GoOn,
           Return, sessionVars, runtimeVars
  <1> QED  BY <1>1, <1>2 DEF Shape

LEMMA PendShape ==
  ASSUME Shape, NEW p \in Callers, Pend(p)
  PROVE  Shape'
  <1>1. SessionOK' /\ FilesOK' /\ RestOK' /\ WriterOK' /\ DiscardOK' /\ RecoverOK'
    BY DEF Shape, SessionOK, FilesOK, RestOK, WriterOK, DiscardOK, RecoverOK, Pend,
           sessionVars
  <1>2. RuntimeOK'
    BY CallerTyped DEF Shape, RuntimeOK, Pend
  <1>3. CallerOK'
    BY DEF Shape, CallerOK, CallerSet, Callers, Ids, MaybeDoc, Idle, Pend, Return,
           sessionVars
  <1> QED  BY <1>1, <1>2, <1>3 DEF Shape

LEMMA DeleteStateShape ==
  ASSUME Shape, NEW p \in Callers, DeleteState(p)
  PROVE  Shape'
  <1>1. SessionOK' /\ RuntimeOK' /\ WriterOK' /\ DiscardOK' /\ RecoverOK'
    BY DEF Shape, SessionOK, RuntimeOK, WriterOK, DiscardOK, RecoverOK, DeleteState,
           DeleteOnly, sessionVars, runtimeVars
  <1>2. FilesOK'
    <2> DEFINE i == caller[p].id
    <2>1. i \in Ids
      BY CallerTyped DEF Shape, DeleteState
    <2>2. [files[i] EXCEPT !.state = None] \in FileSet
      BY <2>1, JournalTyped, FileFields, Nothing DEF Shape
    <2>3. files' = [files EXCEPT ![i] = [files[i] EXCEPT !.state = None]]
      BY DEF DeleteState
    <2> QED  BY <2>2, <2>3, FilesWith DEF Shape, FilesOK
  <1>3. RestOK'
    BY DEF Shape, RestOK, MaybeDoc, DeleteState, GoOn, Remove, GapIf, DeleteOnly,
           sessionVars, runtimeVars
  <1>4. CallerOK'
    BY DEF Shape, CallerOK, CallerSet, Callers, Ids, MaybeDoc, Idle, DeleteState, GoOn,
           Remove, GapIf, DeleteOnly, sessionVars, runtimeVars
  <1> QED  BY <1>1, <1>2, <1>3, <1>4 DEF Shape

LEMMA DeleteMetaShape ==
  ASSUME Shape, NEW p \in Callers, DeleteMeta(p)
  PROVE  Shape'
  <1>1. SessionOK' /\ RuntimeOK' /\ WriterOK' /\ DiscardOK' /\ RecoverOK'
    BY DEF Shape, SessionOK, RuntimeOK, WriterOK, DiscardOK, RecoverOK, DeleteMeta,
           DeleteOnly, sessionVars, runtimeVars
  <1>2. FilesOK'
    <2> DEFINE i == caller[p].id
    <2>1. i \in Ids
      BY CallerTyped DEF Shape, DeleteMeta
    <2>2. [files[i] EXCEPT !.meta = None] \in FileSet
      BY <2>1, JournalTyped, FileFields, Nothing DEF Shape
    <2>3. files' = [files EXCEPT ![i] = [files[i] EXCEPT !.meta = None]]
      BY DEF DeleteMeta
    <2> QED  BY <2>2, <2>3, FilesWith DEF Shape, FilesOK
  <1>3. RestOK'
    BY DEF Shape, RestOK, MaybeDoc, DeleteMeta, GoOn, Remove, GapIf, DeleteOnly,
           sessionVars, runtimeVars
  <1>4. CallerOK'
    BY DEF Shape, CallerOK, CallerSet, Callers, Ids, MaybeDoc, Idle, DeleteMeta, GoOn,
           Remove, GapIf, DeleteOnly, sessionVars, runtimeVars
  <1> QED  BY <1>1, <1>2, <1>3, <1>4 DEF Shape

LEMMA DeleteBlobsShape ==
  ASSUME Shape, NEW p \in Callers, DeleteBlobs(p)
  PROVE  Shape'
  <1>1. SessionOK' /\ RuntimeOK' /\ WriterOK' /\ DiscardOK' /\ RecoverOK'
    BY DEF Shape, SessionOK, RuntimeOK, WriterOK, DiscardOK, RecoverOK, DeleteBlobs,
           DeleteOnly, sessionVars, runtimeVars
  <1>2. FilesOK'
    <2> DEFINE i == caller[p].id
    <2>1. i \in Ids
      BY CallerTyped DEF Shape, DeleteBlobs
    <2>2. [files[i] EXCEPT !.blobs = None] \in FileSet
      BY <2>1, JournalTyped, FileFields, Nothing DEF Shape
    <2>3. files' = [files EXCEPT ![i] = [files[i] EXCEPT !.blobs = None]]
      BY DEF DeleteBlobs
    <2> QED  BY <2>2, <2>3, FilesWith DEF Shape, FilesOK
  <1>3. RestOK'
    BY DEF Shape, RestOK, MaybeDoc, DeleteBlobs, GoOn, Remove, GapIf, DeleteOnly,
           sessionVars, runtimeVars
  <1>4. CallerOK'
    BY DEF Shape, CallerOK, CallerSet, Callers, Ids, MaybeDoc, Idle, DeleteBlobs, GoOn,
           Remove, GapIf, DeleteOnly, sessionVars, runtimeVars
  <1> QED  BY <1>1, <1>2, <1>3, <1>4 DEF Shape

LEMMA DeleteStateClaimShape ==
  ASSUME Shape, NEW p \in Callers, DeleteStateClaim(p)
  PROVE  Shape'
  <1>1. SessionOK' /\ RuntimeOK' /\ WriterOK' /\ DiscardOK' /\ RecoverOK'
    BY DEF Shape, SessionOK, RuntimeOK, WriterOK, DiscardOK, RecoverOK, DeleteStateClaim,
           DeleteOnly, sessionVars, runtimeVars
  <1>2. FilesOK'
    <2> DEFINE i == caller[p].id
    <2>1. i \in Ids
      BY CallerTyped DEF Shape, DeleteStateClaim
    <2>2. [files[i] EXCEPT !.state_claim = None] \in FileSet
      BY <2>1, JournalTyped, FileFields, Nothing DEF Shape
    <2>3. files' = [files EXCEPT ![i] = [files[i] EXCEPT !.state_claim = None]]
      BY DEF DeleteStateClaim
    <2> QED  BY <2>2, <2>3, FilesWith DEF Shape, FilesOK
  <1>3. RestOK'
    BY DEF Shape, RestOK, MaybeDoc, DeleteStateClaim, GoOn, Remove, GapIf, DeleteOnly,
           sessionVars, runtimeVars
  <1>4. CallerOK'
    BY DEF Shape, CallerOK, CallerSet, Callers, Ids, MaybeDoc, Idle, DeleteStateClaim, GoOn,
           Remove, GapIf, DeleteOnly, sessionVars, runtimeVars
  <1> QED  BY <1>1, <1>2, <1>3, <1>4 DEF Shape

LEMMA DeleteBlobsClaimShape ==
  ASSUME Shape, NEW p \in Callers, DeleteBlobsClaim(p)
  PROVE  Shape'
  <1>1. SessionOK' /\ RuntimeOK' /\ WriterOK' /\ DiscardOK' /\ RecoverOK'
    BY DEF Shape, SessionOK, RuntimeOK, WriterOK, DiscardOK, RecoverOK, DeleteBlobsClaim,
           DeleteOnly, sessionVars, runtimeVars
  <1>2. FilesOK'
    <2> DEFINE i == caller[p].id
    <2>1. i \in Ids
      BY CallerTyped DEF Shape, DeleteBlobsClaim
    <2>2. [files[i] EXCEPT !.blobs_claim = None] \in FileSet
      BY <2>1, JournalTyped, FileFields, Nothing DEF Shape
    <2>3. files' = [files EXCEPT ![i] = [files[i] EXCEPT !.blobs_claim = None]]
      BY DEF DeleteBlobsClaim
    <2> QED  BY <2>2, <2>3, FilesWith DEF Shape, FilesOK
  <1>3. RestOK'
    BY DEF Shape, RestOK, MaybeDoc, DeleteBlobsClaim, Return, Remove, GapIf, DeleteOnly,
           sessionVars, runtimeVars
  <1>4. CallerOK'
    BY DEF Shape, CallerOK, CallerSet, Callers, Ids, MaybeDoc, Idle, DeleteBlobsClaim, Return,
           Remove, GapIf, DeleteOnly, sessionVars, runtimeVars
  <1> QED  BY <1>1, <1>2, <1>3, <1>4 DEF Shape

LEMMA HeartbeatShape ==
  ASSUME Shape, Heartbeat
  PROVE  Shape'
  <1>1. SessionOK' /\ FilesOK' /\ RestOK' /\ CallerOK' /\ WriterOK' /\ DiscardOK' /\ RecoverOK'
    BY DEF Shape, SessionOK, FilesOK, RestOK, CallerOK, WriterOK, DiscardOK, RecoverOK,
           Heartbeat, sessionVars
  <1>2. RuntimeOK'
    BY DEF Shape, RuntimeOK, SessionOK, Heartbeat
  <1> QED  BY <1>1, <1>2 DEF Shape

LEMMA DrainDueShape ==
  ASSUME Shape, DrainDue
  PROVE  Shape'
  <1>1. SessionOK' /\ FilesOK' /\ RuntimeOK' /\ RestOK' /\ CallerOK' /\ DiscardOK' /\ RecoverOK'
    BY DEF Shape, SessionOK, FilesOK, RuntimeOK, RestOK, CallerOK, DiscardOK, RecoverOK,
           DrainDue, WriterOnly, sessionVars, runtimeVars
  <1>2. WriterOK'
    <2>1. PICK i \in pending : Dirty(i) /\ writer' = [IdleWriter EXCEPT !.at = "due", !.id = i]
      BY DEF DrainDue
    <2>2. i = sid /\ sid \in Ids /\ mode = "open"
      BY <2>1 DEF Dirty, Open, Shape, SessionOK
    <2>3. writer' \in WriterSet /\ writer'.at = "due" /\ writer'.id = i /\ ~writer'.reply
      BY <2>1, <2>2 DEF IdleWriter, WriterSet, MaybeDoc
    <2> QED  BY <2>2, <2>3 DEF DrainDue, WriterOnly, WriterOK, Writing, Ids, sessionVars
  <1> QED  BY <1>1, <1>2 DEF Shape

LEMMA DrainRecheckShape ==
  ASSUME Shape, DrainRecheck
  PROVE  Shape'
  <1>1. SessionOK' /\ FilesOK' /\ RestOK' /\ CallerOK' /\ DiscardOK' /\ RecoverOK'
    BY DEF Shape, SessionOK, FilesOK, RestOK, CallerOK, DiscardOK, RecoverOK, DrainRecheck,
           WriterOnly, sessionVars
  <1>2. RuntimeOK'
    BY DEF Shape, RuntimeOK, MaybeDoc, DrainRecheck, WriterOnly, Become, IdleWriter,
           sessionVars
  <1>3. WriterOK'
    <2>1. CASE Dirty(writer.id)
      BY <2>1 DEF Shape, WriterOK, WriterSet, SessionOK, DrainRecheck, WriterOnly, Become,
             Writing, sessionVars
    <2>2. CASE ~Dirty(writer.id)
      BY <2>2, <1>1, IdleWriterOK DEF DrainRecheck
    <2> QED  BY <2>1, <2>2
  <1> QED  BY <1>1, <1>2, <1>3 DEF Shape

LEMMA TakeFlushShape ==
  ASSUME Shape, TakeFlush
  PROVE  Shape'
  <1>1. SessionOK' /\ FilesOK' /\ RuntimeOK' /\ RestOK' /\ CallerOK' /\ RecoverOK'
    BY DEF Shape, SessionOK, FilesOK, RuntimeOK, RestOK, CallerOK, RecoverOK, TakeFlush,
           WriterOnly, sessionVars, runtimeVars
  <1>2. WriterOK'
    <2>1. mode = "open" /\ sid \in Ids
      BY DiscardOpen DEF TakeFlush, Shape, SessionOK
    <2>2. writer' \in WriterSet /\ writer'.at = "check" /\ writer'.id = sid
      BY <2>1 DEF TakeFlush, IdleWriter, WriterSet, MaybeDoc
    <2>3. discard'.at = "flushing"
      BY DEF TakeFlush, Shape, DiscardOK, DiscardSet
    <2> QED  BY <2>1, <2>2, <2>3 DEF TakeFlush, WriterOnly, WriterOK, Writing, Ids, sessionVars
  <1>3. DiscardOK'
    BY DEF Shape, DiscardOK, DiscardSet, MaybeDoc, NoDiscard, TakeFlush, WriterOnly,
           IdleWriter, sessionVars, runtimeVars
  <1> QED  BY <1>1, <1>2, <1>3 DEF Shape

LEMMA CheckDirtyShape ==
  ASSUME Shape, CheckDirty
  PROVE  Shape'
  <1>1. SessionOK' /\ FilesOK' /\ RuntimeOK' /\ RestOK' /\ CallerOK' /\ RecoverOK'
    BY DEF Shape, SessionOK, FilesOK, RuntimeOK, RestOK, CallerOK, RecoverOK, CheckDirty,
           WriterOnly, sessionVars, runtimeVars
  <1>2. WriterOK'
    <2>1. CASE Dirty(writer.id)
      BY <2>1 DEF Shape, WriterOK, WriterSet, DiscardOK, DiscardSet, SessionOK, CheckDirty,
             WriterOnly, Become, Writing, sessionVars
    <2>2. CASE ~(Dirty(writer.id))
      BY <2>2, <1>1, IdleWriterOK DEF CheckDirty, Finish
    <2> QED  BY <2>1, <2>2
  <1>3. DiscardOK'
    <2>1. CASE Dirty(writer.id)
      BY <2>1 DEF Shape, DiscardOK, CheckDirty, WriterOnly, Become, sessionVars
    <2>2. CASE ~(Dirty(writer.id))
      <3>1. Finish("mark", "skip") /\ UNCHANGED mode
        BY <2>2 DEF CheckDirty, WriterOnly, sessionVars
      <3> QED  BY <3>1, FinishTyped DEF Shape, DiscardOK
    <2> QED  BY <2>1, <2>2
  <1> QED  BY <1>1, <1>2, <1>3 DEF Shape

LEMMA SnapshotShape ==
  ASSUME Shape, Snapshot
  PROVE  Shape'
  <1>1. SessionOK' /\ RuntimeOK' /\ RestOK' /\ CallerOK' /\ RecoverOK'
    BY DEF Shape, SessionOK, RuntimeOK, RestOK, CallerOK, RecoverOK, Snapshot, WriterOnly,
           sessionVars, runtimeVars
  <1>2. FilesOK'
    <2>1. CASE Open(writer.id)
      <3> DEFINE s == IF files[sid].blobs = None THEN {} ELSE files[sid].blobs
      <3>1. sid \in Ids
        BY DEF Shape, SessionOK
      <3>2. [files[sid] EXCEPT !.blobs = s] \in FileSet
        BY <3>1, JournalTyped, FileFields, Nothing DEF Shape
      <3>3. files' = [files EXCEPT ![sid] = [files[sid] EXCEPT !.blobs = s]]
        BY <2>1 DEF Snapshot
      <3> QED  BY <3>2, <3>3, FilesWith DEF Shape, FilesOK
    <2>2. CASE ~Open(writer.id)
      BY <2>2 DEF Shape, FilesOK, Snapshot
    <2> QED  BY <2>1, <2>2
  <1>3. WriterOK'
    <2>1. CASE Open(writer.id)
      <3>1. BlobsOf[live] \in SUBSET Blobs /\ live \in Docs
        BY JournalAssumption DEF JournalAssumption, Shape, SessionOK
      <3> DEFINE w == [writer EXCEPT !.at = "blobs", !.doc = live, !.todo = BlobsOf[live]]
      <3>2. w \in WriterSet /\ w.at = "blobs" /\ w.id = writer.id /\ w.doc = live /\ w.reply = writer.reply
        BY <3>1 DEF Shape, WriterOK, WriterSet, MaybeDoc
      <3>3. writer.reply => discard'.at = "flushing"
        BY <2>1 DEF Snapshot, Shape, WriterOK, DiscardOK, DiscardSet
      <3>4. writer' = w /\ UNCHANGED <<mode, sid>>
        BY <2>1 DEF Snapshot, WriterOnly, sessionVars
      <3> HIDE DEF w
      <3> QED  BY <2>1, <3>1, <3>2, <3>3, <3>4 DEF WriterOK, Snapshot, Open, Shape
    <2>2. CASE ~Open(writer.id)
      BY <2>2, <1>1, IdleWriterOK DEF Snapshot, Finish
    <2> QED  BY <2>1, <2>2
  <1>4. DiscardOK'
    <2>1. CASE Open(writer.id)
      <3>1. [discard EXCEPT !.doc = live] \in DiscardSet
        BY DEF Shape, SessionOK, DiscardOK, DiscardSet, MaybeDoc
      <3> QED  BY <2>1, <3>1 DEF Snapshot, WriterOnly, sessionVars, Shape, DiscardOK, Open
    <2>2. CASE ~Open(writer.id)
      <3>1. Finish("close", "error") /\ UNCHANGED mode
        BY <2>2 DEF Snapshot, WriterOnly, sessionVars
      <3> QED  BY <3>1, FinishTyped DEF Shape, DiscardOK
    <2> QED  BY <2>1, <2>2
  <1> QED  BY <1>1, <1>2, <1>3, <1>4 DEF Shape

LEMMA WriteBlobShape ==
  ASSUME Shape, WriteBlob
  PROVE  Shape'
  <1>1. SessionOK' /\ RuntimeOK' /\ CallerOK' /\ RecoverOK'
    BY DEF Shape, SessionOK, RuntimeOK, CallerOK, RecoverOK, WriteBlob, WriterOnly,
           sessionVars, runtimeVars
  <1>2. FilesOK'
    <2>1. PICK b \in writer.todo : BlobThere(b) \/ BlobIncomplete(b) \/ BlobWritten(b)
      BY DEF WriteBlob
    <2>2. writer.id \in Ids /\ b \in Blobs
      BY DEF Shape, WriterOK, WriterSet, WriteBlob
    <2>3. CASE files' = files
      BY <2>3 DEF Shape, FilesOK
    <2>4. CASE BlobWritten(b)
      <3>1. OnDisk(writer.id) \in SUBSET Blobs
        BY <2>2, OnDiskTyped DEF Shape
      <3>2. After(b) \in MaybeBlobs
        BY <2>2, <3>1 DEF After, Collected, MaybeBlobs
      <3>3. [files[writer.id] EXCEPT !.blobs = After(b)] \in FileSet
        BY <2>2, <3>2, JournalTyped, FileFields DEF Shape
      <3>4. files' = [files EXCEPT ![writer.id] = [files[writer.id] EXCEPT !.blobs = After(b)]]
        BY <2>4, BlobWrittenCases
      <3> QED  BY <3>3, <3>4, FilesWith DEF Shape, FilesOK
    <2> QED  BY <2>1, <2>3, <2>4 DEF BlobThere, BlobIncomplete
  <1>3. RestOK'
    BY DEF Shape, RestOK, MaybeDoc, WriteBlob, WriterOnly, BlobThere, BlobIncomplete,
           BlobWritten, GapIf, Finish, IdleWriter, NoDiscard, OnDisk, sessionVars,
           runtimeVars
  <1>4. WriterOK'
    <2>1. PICK b \in writer.todo : BlobThere(b) \/ BlobIncomplete(b) \/ BlobWritten(b)
      BY DEF WriteBlob
    <2>2. \/ writer' = IdleWriter
          \/ /\ UNCHANGED discard
             /\ \/ writer' = [writer EXCEPT !.todo = @ \ {b}]
                \/ writer' = [writer EXCEPT !.todo = @ \ {b}, !.incomplete = TRUE]
      BY <2>1, BlobWrittenCases DEF BlobThere, BlobIncomplete
    <2>3. CASE writer' = IdleWriter
      BY <2>3, <1>1, IdleWriterOK
    <2>4. CASE writer' # IdleWriter
      <3>1. writer' \in WriterSet
        BY <2>2, <2>4, WriterTodo DEF Shape, WriterOK
      <3>2. /\ writer'.at = writer.at /\ writer'.id = writer.id
            /\ writer'.doc = writer.doc /\ writer'.reply = writer.reply
        BY <2>2, <2>4 DEF Shape, WriterOK, WriterSet
      <3> QED  BY <2>2, <2>4, <3>1, <3>2 DEF Shape, WriterOK, WriteBlob, WriterOnly, sessionVars
    <2> QED  BY <2>3, <2>4
  <1>5. DiscardOK'
    <2>1. PICK b \in writer.todo : BlobThere(b) \/ BlobIncomplete(b) \/ BlobWritten(b)
      BY DEF WriteBlob
    <2>2. UNCHANGED mode /\ (UNCHANGED discard \/ Finish("close", "error"))
      BY <2>1, BlobWrittenCases DEF BlobThere, BlobIncomplete, WriteBlob, WriterOnly,
             sessionVars
    <2> QED  BY <2>2, FinishTyped DEF Shape, DiscardOK
  <1> QED  BY <1>1, <1>2, <1>3, <1>4, <1>5 DEF Shape

LEMMA BlobsDoneShape ==
  ASSUME Shape, BlobsDone
  PROVE  Shape'
  <1>1. SessionOK' /\ FilesOK' /\ RuntimeOK' /\ RestOK' /\ CallerOK' /\ RecoverOK'
    BY DEF Shape, SessionOK, FilesOK, RuntimeOK, RestOK, CallerOK, RecoverOK, BlobsDone,
           WriterOnly, sessionVars, runtimeVars
  <1>2. WriterOK'
    <2>1. CASE ~writer.incomplete
      BY <2>1 DEF Shape, WriterOK, WriterSet, DiscardOK, DiscardSet, SessionOK, BlobsDone,
             WriterOnly, Become, Writing, sessionVars
    <2>2. CASE ~(~writer.incomplete)
      BY <2>2, <1>1, IdleWriterOK DEF BlobsDone, Finish
    <2> QED  BY <2>1, <2>2
  <1>3. DiscardOK'
    <2>1. CASE ~writer.incomplete
      BY <2>1 DEF Shape, DiscardOK, BlobsDone, WriterOnly, Become, sessionVars
    <2>2. CASE ~(~writer.incomplete)
      <3>1. Finish("mark", "skip") /\ UNCHANGED mode
        BY <2>2 DEF BlobsDone, WriterOnly, sessionVars
      <3> QED  BY <3>1, FinishTyped DEF Shape, DiscardOK
    <2> QED  BY <2>1, <2>2
  <1> QED  BY <1>1, <1>2, <1>3 DEF Shape

LEMMA SkipStateShape ==
  ASSUME Shape, SkipState
  PROVE  Shape'
  <1>1. SessionOK' /\ FilesOK' /\ RuntimeOK' /\ CallerOK' /\ DiscardOK' /\ RecoverOK'
    BY DEF Shape, SessionOK, FilesOK, RuntimeOK, CallerOK, DiscardOK, RecoverOK, SkipState,
           WriterOnly, sessionVars, runtimeVars
  <1>2. RestOK'
    BY DEF Shape, RestOK, MaybeDoc, SkipState, WriterOnly, Become, GapIf, sessionVars,
           runtimeVars
  <1>3. WriterOK'
    BY DEF Shape, WriterOK, WriterSet, Writing, SkipState, WriterOnly, Become, GapIf,
           sessionVars, runtimeVars
  <1> QED  BY <1>1, <1>2, <1>3 DEF Shape

LEMMA WriteStateShape ==
  ASSUME Shape, WriteState
  PROVE  Shape'
  <1>1. SessionOK' /\ RuntimeOK' /\ CallerOK' /\ DiscardOK' /\ RecoverOK'
    BY DEF Shape, SessionOK, RuntimeOK, CallerOK, DiscardOK, RecoverOK, WriteState,
           WriterOnly, sessionVars, runtimeVars
  <1>2. FilesOK'
    <2> DEFINE i == writer.id
    <2>1. i \in Ids /\ writer.doc \in MaybeDoc
      BY DEF Shape, WriterOK, WriterSet, WriteState
    <2>2. [files[i] EXCEPT !.state = writer.doc] \in FileSet
      BY <2>1, JournalTyped, FileFields DEF Shape
    <2>3. files' = [files EXCEPT ![i] = [files[i] EXCEPT !.state = writer.doc]]
      BY DEF WriteState
    <2> QED  BY <2>2, <2>3, FilesWith DEF Shape, FilesOK
  <1>3. RestOK'
    <2>1. kept' \in {kept, None, Gap, writer.doc}
      BY DEF WriteState, Owed
    <2>2. writer.doc \in MaybeDoc
      BY DEF Shape, WriterOK, WriterSet
    <2> QED  BY <2>1, <2>2, Nothing DEF Shape, RestOK, WriteState, WriterOnly
  <1>4. WriterOK'
    BY DEF Shape, WriterOK, WriterSet, Writing, WriteState, WriterOnly, Become, Owed,
           sessionVars, runtimeVars
  <1> QED  BY <1>1, <1>2, <1>3, <1>4 DEF Shape

LEMMA WriteMetaShape ==
  ASSUME Shape, WriteMeta
  PROVE  Shape'
  <1>1. SessionOK' /\ RuntimeOK' /\ CallerOK' /\ DiscardOK' /\ RecoverOK'
    BY DEF Shape, SessionOK, RuntimeOK, CallerOK, DiscardOK, RecoverOK, WriteMeta,
           WriterOnly, sessionVars, runtimeVars
  <1>2. FilesOK'
    <2> DEFINE i == writer.id
    <2>1. i \in Ids
      BY DEF Shape, WriterOK, WriterSet, WriteMeta
    <2>2. [files[i] EXCEPT !.meta = "live"] \in FileSet
      BY <2>1, JournalTyped, FileFields DEF Shape
    <2>3. files' = [files EXCEPT ![i] = [files[i] EXCEPT !.meta = "live"]]
      BY DEF WriteMeta
    <2> QED  BY <2>2, <2>3, FilesWith DEF Shape, FilesOK
  <1>3. RestOK'
    <2>1. kept' \in {kept, None, Gap, writer.doc}
      BY DEF WriteMeta, Owed
    <2>2. writer.doc \in MaybeDoc
      BY DEF Shape, WriterOK, WriterSet
    <2> QED  BY <2>1, <2>2, Nothing DEF Shape, RestOK, WriteMeta, WriterOnly
  <1>4. WriterOK'
    BY DEF Shape, WriterOK, WriterSet, Writing, WriteMeta, WriterOnly, Become, Owed,
           sessionVars, runtimeVars
  <1> QED  BY <1>1, <1>2, <1>3, <1>4 DEF Shape

LEMMA NoteFlushedShape ==
  ASSUME Shape, NoteFlushed
  PROVE  Shape'
  <1>1. SessionOK' /\ FilesOK' /\ RestOK' /\ CallerOK' /\ RecoverOK'
    BY DEF Shape, SessionOK, FilesOK, RestOK, CallerOK, RecoverOK, NoteFlushed, WriterOnly,
           sessionVars
  <1>2. RuntimeOK'
    BY JournalAssumption DEF JournalAssumption, Shape, RuntimeOK, MaybeDoc, WriterOK,
           NoteFlushed
  <1>3. WriterOK'
    BY DEF Shape, WriterOK, WriterSet, Writing, MaybeDoc, Ids, SessionOK, sessionVars,
           NoteFlushed, WriterOnly, Finish, IdleWriter
  <1>4. DiscardOK'
    <2>1. Finish("mark", "flush") /\ UNCHANGED mode
      BY DEF NoteFlushed, WriterOnly, sessionVars
    <2> QED  BY <2>1, FinishTyped DEF Shape, DiscardOK
  <1> QED  BY <1>1, <1>2, <1>3, <1>4 DEF Shape

LEMMA RawArrivesShape ==
  ASSUME Shape, RawArrives
  PROVE  Shape'
  <1>1. SessionOK' /\ FilesOK' /\ RuntimeOK' /\ CallerOK' /\ WriterOK' /\ DiscardOK' /\ RecoverOK'
    BY DEF Shape, SessionOK, FilesOK, RuntimeOK, CallerOK, WriterOK, DiscardOK, RecoverOK,
           RawArrives, sessionVars, runtimeVars
  <1>2. RestOK'
    BY DEF Shape, RestOK, MaybeDoc, RawArrives, sessionVars, runtimeVars
  <1> QED  BY <1>1, <1>2 DEF Shape

LEMMA BeginSaveShape ==
  ASSUME Shape, BeginSave
  PROVE  Shape'
  <1>1. SessionOK' /\ FilesOK' /\ RuntimeOK' /\ WriterOK' /\ DiscardOK' /\ RecoverOK'
    BY DEF Shape, SessionOK, FilesOK, RuntimeOK, WriterOK, DiscardOK, RecoverOK, BeginSave,
           sessionVars, runtimeVars
  <1>2. RestOK'
    BY DEF Shape, RestOK, MaybeDoc, BeginSave, Command, Call, sessionVars, runtimeVars
  <1>3. CallerOK'
    BY DEF Shape, CallerOK, CallerSet, Callers, Ids, MaybeDoc, SessionOK, BeginSave, Call
  <1> QED  BY <1>1, <1>2, <1>3 DEF Shape

LEMMA WriteProjectShape ==
  ASSUME Shape, WriteProject
  PROVE  Shape'
  <1>1. FilesOK' /\ RuntimeOK' /\ RestOK' /\ WriterOK' /\ DiscardOK' /\ RecoverOK'
    BY DEF Shape, FilesOK, RuntimeOK, RestOK, WriterOK, DiscardOK, RecoverOK, WriteProject,
           runtimeVars
  <1>2. SessionOK'
    BY DEF Shape, SessionOK, CallerOK, WriteProject
  <1>3. CallerOK'
    BY DEF Shape, CallerOK, CallerSet, Callers, Ids, MaybeDoc, Idle, WriteProject, GoOn,
           Return, runtimeVars
  <1> QED  BY <1>1, <1>2, <1>3 DEF Shape

LEMMA MarkCleanShape ==
  ASSUME Shape, MarkClean
  PROVE  Shape'
  <1>1. FilesOK' /\ RuntimeOK' /\ WriterOK' /\ DiscardOK' /\ RecoverOK'
    BY DEF Shape, FilesOK, RuntimeOK, WriterOK, DiscardOK, RecoverOK, MarkClean, runtimeVars
  <1>2. SessionOK'
    BY DEF Shape, SessionOK, MarkClean, Call, runtimeVars
  <1>3. RestOK'
    BY DEF Shape, RestOK, MaybeDoc, MarkClean, Call, runtimeVars
  <1>4. CallerOK'
    BY DEF Shape, CallerOK, CallerSet, Callers, Ids, MaybeDoc, SessionOK, MarkClean, Call
  <1> QED  BY <1>1, <1>2, <1>3, <1>4 DEF Shape

LEMMA StartDiscardShape ==
  ASSUME Shape, StartDiscard
  PROVE  Shape'
  <1>1. SessionOK' /\ FilesOK' /\ RuntimeOK' /\ CallerOK' /\ RecoverOK'
    BY DEF Shape, SessionOK, FilesOK, RuntimeOK, CallerOK, RecoverOK, StartDiscard,
           DiscardOnly, runtimeVars
  <1>2. RestOK'
    BY DEF Shape, RestOK, MaybeDoc, StartDiscard, Command, DiscardOnly, Dirty, Open,
           NoDiscard, runtimeVars
  <1>3. WriterOK'
    BY DEF Shape, WriterOK, WriterSet, Writing, StartDiscard, Command, DiscardOnly, Dirty,
           Open, NoDiscard, runtimeVars
  <1>4. DiscardOK'
    BY DEF Shape, DiscardOK, DiscardSet, MaybeDoc, SessionOK, StartDiscard, Dirty, Open
  <1> QED  BY <1>1, <1>2, <1>3, <1>4 DEF Shape

LEMMA ReuseJournalShape ==
  ASSUME Shape, ReuseJournal
  PROVE  Shape'
  <1>1. SessionOK' /\ FilesOK' /\ RuntimeOK' /\ RestOK' /\ CallerOK' /\ RecoverOK'
    BY DEF Shape, SessionOK, FilesOK, RuntimeOK, RestOK, CallerOK, RecoverOK, ReuseJournal,
           DiscardOnly, runtimeVars
  <1>2. WriterOK'
    BY DEF Shape, WriterOK, WriterSet, Writing, ReuseJournal, DiscardOnly, NoDiscard,
           runtimeVars
  <1>3. DiscardOK'
    <2> DEFINE d(at, by) == [discard EXCEPT !.at = at, !.by = by]
    <2>1. mode = "open"
      BY DiscardOpen DEF Shape, ReuseJournal
    <2>2. d("mark", "reuse") \in DiscardSet /\ d("flush", "none") \in DiscardSet
      BY DEF Shape, DiscardOK, DiscardSet
    <2>3. discard' = d("mark", "reuse") \/ discard' = d("flush", "none")
      BY DEF ReuseJournal
    <2> QED  BY <2>1, <2>2, <2>3 DEF DiscardOK, ReuseJournal
  <1> QED  BY <1>1, <1>2, <1>3 DEF Shape

LEMMA MarkDiscardedShape ==
  ASSUME Shape, MarkDiscarded
  PROVE  Shape'
  <1>1. SessionOK' /\ RuntimeOK' /\ CallerOK' /\ RecoverOK'
    BY DEF Shape, SessionOK, RuntimeOK, CallerOK, RecoverOK, MarkDiscarded, DiscardOnly,
           runtimeVars
  <1>2. FilesOK'
    <2> DEFINE m == IF files[sid].meta = None THEN None ELSE "discarded"
    <2>1. sid \in Ids
      BY DEF Shape, SessionOK
    <2>2. [files[sid] EXCEPT !.meta = m] \in FileSet
      BY <2>1, JournalTyped, FileFields DEF Shape
    <2>3. \/ files' = files
          \/ files' = [files EXCEPT ![sid] = [files[sid] EXCEPT !.meta = m]]
      BY DEF MarkDiscarded
    <2> QED  BY <2>2, <2>3, FilesWith DEF Shape, FilesOK
  <1>3. RestOK'
    BY DEF Shape, RestOK, MaybeDoc, MarkDiscarded, DiscardOnly, GapIf, NoDiscard,
           runtimeVars
  <1>4. WriterOK'
    BY DEF Shape, WriterOK, WriterSet, Writing, MarkDiscarded, DiscardOnly, GapIf,
           NoDiscard, runtimeVars
  <1>5. DiscardOK'
    <2>1. mode = "open"
      BY DiscardOpen DEF Shape, MarkDiscarded
    <2>2. /\ [discard EXCEPT !.at = "flush", !.by = "none"] \in DiscardSet
          /\ [discard EXCEPT !.at = "close"] \in DiscardSet
      BY DEF Shape, DiscardOK, DiscardSet
    <2>3. discard' \in DiscardSet
      BY <2>2 DEF MarkDiscarded
    <2> QED  BY <2>1, <2>3 DEF DiscardOK, MarkDiscarded
  <1> QED  BY <1>1, <1>2, <1>3, <1>4, <1>5 DEF Shape

LEMMA CloseTabShape ==
  ASSUME Shape, CloseTab
  PROVE  Shape'
  <1>1. FilesOK' /\ RuntimeOK' /\ CallerOK'
    BY DEF Shape, FilesOK, RuntimeOK, CallerOK, CloseTab, DiscardOnly, runtimeVars
  <1>2. SessionOK'
    BY JournalAssumption DEF JournalAssumption, Shape, SessionOK, CloseTab, DiscardOnly,
           NoDocument
  <1>3. RestOK'
    BY DEF Shape, RestOK, MaybeDoc, CloseTab, DiscardOnly, NoDocument, NoDiscard,
           runtimeVars
  <1>4. WriterOK'
    BY DEF Shape, WriterOK, WriterSet, Writing, CloseTab, DiscardOnly, NoDocument,
           NoDiscard, runtimeVars
  <1>5. DiscardOK'
    BY DEF Shape, DiscardOK, DiscardSet, MaybeDoc, NoDiscard, CloseTab, DiscardOnly,
           NoDocument, runtimeVars
  <1>6. RecoverOK'
    BY DEF Shape, RecoverOK, RecoverSet, Scanning, Claimed, MaybeDoc, NoRecover, CloseTab,
           DiscardOnly, NoDocument, NoDiscard, runtimeVars
  <1> QED  BY <1>1, <1>2, <1>3, <1>4, <1>5, <1>6 DEF Shape

LEMMA StartRecoverShape ==
  ASSUME Shape, StartRecover
  PROVE  Shape'
  <1>1. SessionOK' /\ FilesOK' /\ RuntimeOK' /\ RestOK' /\ CallerOK' /\ WriterOK' /\ DiscardOK'
    BY DEF Shape, SessionOK, FilesOK, RuntimeOK, RestOK, CallerOK, WriterOK, DiscardOK,
           StartRecover, RecoverOnly, runtimeVars
  <1>2. RecoverOK'
    BY DEF Shape, RecoverOK, RecoverSet, Scanning, Claimed, MaybeDoc, NoRecover,
           StartRecover, RecoverOnly, runtimeVars
  <1> QED  BY <1>1, <1>2 DEF Shape

LEMMA ClaimStateShape ==
  ASSUME Shape, ClaimState
  PROVE  Shape'
  <1>1. SessionOK' /\ RuntimeOK' /\ CallerOK' /\ WriterOK' /\ DiscardOK'
    BY DEF Shape, SessionOK, RuntimeOK, CallerOK, WriterOK, DiscardOK, ClaimState,
           RecoverOnly, runtimeVars
  <1>2. FilesOK'
    <2> DEFINE i == recover.id
               f == [files[i] EXCEPT !.state_claim = files[i].state, !.state = None]
    <2>1. i \in Ids
      BY DEF Shape, RecoverOK, ClaimState
    <2>2. f \in FileSet
      BY <2>1, JournalTyped, Nothing DEF Shape, FileSet
    <2>3. files' = files \/ files' = [files EXCEPT ![i] = f]
      BY DEF ClaimState
    <2> QED  BY <2>2, <2>3, FilesWith DEF Shape, FilesOK
  <1>3. RestOK'
    BY DEF Shape, RestOK, MaybeDoc, ClaimState, RecoverOnly, NoRecover, GapIf, runtimeVars
  <1>4. RecoverOK'
    <2>1. CASE files[recover.id].state = None
      BY <2>1 DEF ClaimState, RecoverOnly, NoRecover, RecoverOK, RecoverSet, MaybeDoc,
             Scanning, Claimed
    <2>2. CASE files[recover.id].state # None
      <3>1. recover.id \in Ids /\ mode = "scan" /\ sid + 1 \in Ids
        BY DEF Shape, RecoverOK, ClaimState, Scanning
      <3>2. files[recover.id].state \in Docs
        BY <2>2, <3>1, JournalTyped DEF Shape, MaybeDoc
      <3>3. /\ recover' \in RecoverSet /\ recover'.id = recover.id
            /\ recover'.at = "claim_blobs" /\ recover'.doc \in Docs
        BY <2>2, <3>2 DEF Shape, RecoverOK, RecoverSet, MaybeDoc, ClaimState
      <3> QED  BY <3>1, <3>3 DEF RecoverOK, ClaimState
    <2> QED  BY <2>1, <2>2
  <1> QED  BY <1>1, <1>2, <1>3, <1>4 DEF Shape

LEMMA ClaimBlobsShape ==
  ASSUME Shape, ClaimBlobs
  PROVE  Shape'
  <1>1. SessionOK' /\ RuntimeOK' /\ CallerOK' /\ WriterOK' /\ DiscardOK'
    BY DEF Shape, SessionOK, RuntimeOK, CallerOK, WriterOK, DiscardOK, ClaimBlobs,
           RecoverOnly, runtimeVars
  <1>2. FilesOK'
    <2> DEFINE i == recover.id
               f == [files[i] EXCEPT !.blobs_claim = files[i].blobs, !.blobs = None]
    <2>1. i \in Ids /\ recover.doc \in MaybeDoc
      BY DEF Shape, RecoverOK, RecoverSet, ClaimBlobs
    <2>2. f \in FileSet
      BY <2>1, JournalTyped, Nothing DEF Shape, FileSet
    <2>3. files' = [files EXCEPT ![i] = f]
      BY DEF ClaimBlobs
    <2> QED  BY <2>2, <2>3, FilesWith DEF Shape, FilesOK
  <1>3. RestOK'
    BY DEF Shape, RestOK, MaybeDoc, ClaimBlobs, RecoverOnly, Goto, GapIf, runtimeVars
  <1>4. RecoverOK'
    BY DEF Shape, RecoverOK, RecoverSet, Scanning, Claimed, MaybeDoc, NoRecover,
           ClaimBlobs, RecoverOnly, Goto, GapIf, runtimeVars
  <1> QED  BY <1>1, <1>2, <1>3, <1>4 DEF Shape

LEMMA AssembleShape ==
  ASSUME Shape, Assemble
  PROVE  Shape'
  <1>1. SessionOK' /\ FilesOK' /\ RuntimeOK' /\ RestOK' /\ CallerOK' /\ WriterOK' /\ DiscardOK'
    BY DEF Shape, SessionOK, FilesOK, RuntimeOK, RestOK, CallerOK, WriterOK, DiscardOK,
           Assemble, RecoverOnly, runtimeVars
  <1>2. RecoverOK'
    BY DEF Shape, RecoverOK, RecoverSet, Scanning, Claimed, MaybeDoc, NoRecover, Assemble,
           RecoverOnly, Goto, runtimeVars
  <1> QED  BY <1>1, <1>2 DEF Shape

LEMMA RestoreStateShape ==
  ASSUME Shape, RestoreState
  PROVE  Shape'
  <1>1. SessionOK' /\ RuntimeOK' /\ RestOK' /\ CallerOK' /\ WriterOK' /\ DiscardOK'
    BY DEF Shape, SessionOK, RuntimeOK, RestOK, CallerOK, WriterOK, DiscardOK,
           RestoreState, RecoverOnly, runtimeVars
  <1>2. FilesOK'
    <2> DEFINE i == recover.id
               f == [files[i] EXCEPT !.state = recover.doc, !.state_claim = None]
    <2>1. i \in Ids /\ recover.doc \in MaybeDoc
      BY DEF Shape, RecoverOK, RecoverSet, RestoreState
    <2>2. f \in FileSet
      BY <2>1, JournalTyped, Nothing DEF Shape, FileSet
    <2>3. files' = [files EXCEPT ![i] = f]
      BY DEF RestoreState
    <2> QED  BY <2>2, <2>3, FilesWith DEF Shape, FilesOK
  <1>3. RecoverOK'
    BY DEF Shape, RecoverOK, RecoverSet, Scanning, Claimed, MaybeDoc, NoRecover,
           RestoreState, RecoverOnly, Goto, runtimeVars
  <1> QED  BY <1>1, <1>2, <1>3 DEF Shape

LEMMA RestoreBlobsShape ==
  ASSUME Shape, RestoreBlobs
  PROVE  Shape'
  <1>1. SessionOK' /\ RuntimeOK' /\ RestOK' /\ CallerOK' /\ WriterOK' /\ DiscardOK'
    BY DEF Shape, SessionOK, RuntimeOK, RestOK, CallerOK, WriterOK, DiscardOK,
           RestoreBlobs, RecoverOnly, runtimeVars
  <1>2. FilesOK'
    <2> DEFINE i == recover.id
               f == [files[i] EXCEPT !.blobs = IF files[i].blobs_claim = None THEN files[i].blobs ELSE files[i].blobs_claim,
                                     !.blobs_claim = None]
    <2>1. i \in Ids /\ recover.doc \in MaybeDoc
      BY DEF Shape, RecoverOK, RecoverSet, RestoreBlobs
    <2>2. f \in FileSet
      BY <2>1, JournalTyped, Nothing DEF Shape, FileSet
    <2>3. files' = [files EXCEPT ![i] = f]
      BY DEF RestoreBlobs
    <2> QED  BY <2>2, <2>3, FilesWith DEF Shape, FilesOK
  <1>3. RecoverOK'
    BY DEF Shape, RecoverOK, RecoverSet, Scanning, Claimed, MaybeDoc, NoRecover,
           RestoreBlobs, RecoverOnly, runtimeVars
  <1> QED  BY <1>1, <1>2, <1>3 DEF Shape

LEMMA FinalizeStateShape ==
  ASSUME Shape, FinalizeState
  PROVE  Shape'
  <1>1. SessionOK' /\ RuntimeOK' /\ CallerOK' /\ WriterOK' /\ DiscardOK'
    BY DEF Shape, SessionOK, RuntimeOK, CallerOK, WriterOK, DiscardOK, FinalizeState,
           RecoverOnly, runtimeVars
  <1>2. FilesOK'
    <2> DEFINE i == recover.id
               f == [files[i] EXCEPT !.state_claim = None]
    <2>1. i \in Ids /\ recover.doc \in MaybeDoc
      BY DEF Shape, RecoverOK, RecoverSet, FinalizeState
    <2>2. f \in FileSet
      BY <2>1, JournalTyped, Nothing DEF Shape, FileSet
    <2>3. files' = [files EXCEPT ![i] = f]
      BY DEF FinalizeState
    <2> QED  BY <2>2, <2>3, FilesWith DEF Shape, FilesOK
  <1>3. RestOK'
    BY DEF Shape, RestOK, MaybeDoc, FinalizeState, RecoverOnly, Goto, runtimeVars
  <1>4. RecoverOK'
    BY DEF Shape, RecoverOK, RecoverSet, Scanning, Claimed, MaybeDoc, NoRecover,
           FinalizeState, RecoverOnly, Goto, runtimeVars
  <1> QED  BY <1>1, <1>2, <1>3, <1>4 DEF Shape

LEMMA FinalizeBlobsShape ==
  ASSUME Shape, FinalizeBlobs
  PROVE  Shape'
  <1>1. SessionOK' /\ RuntimeOK' /\ RestOK' /\ CallerOK' /\ WriterOK' /\ DiscardOK'
    BY DEF Shape, SessionOK, RuntimeOK, RestOK, CallerOK, WriterOK, DiscardOK,
           FinalizeBlobs, RecoverOnly, runtimeVars
  <1>2. FilesOK'
    <2> DEFINE i == recover.id
               f == [files[i] EXCEPT !.blobs_claim = None]
    <2>1. i \in Ids /\ recover.doc \in MaybeDoc
      BY DEF Shape, RecoverOK, RecoverSet, FinalizeBlobs
    <2>2. f \in FileSet
      BY <2>1, JournalTyped, Nothing DEF Shape, FileSet
    <2>3. files' = [files EXCEPT ![i] = f]
      BY DEF FinalizeBlobs
    <2> QED  BY <2>2, <2>3, FilesWith DEF Shape, FilesOK
  <1>3. RecoverOK'
    BY DEF Shape, RecoverOK, RecoverSet, Scanning, Claimed, MaybeDoc, NoRecover,
           FinalizeBlobs, RecoverOnly, Goto, runtimeVars
  <1> QED  BY <1>1, <1>2, <1>3 DEF Shape

LEMMA FinalizeMetaShape ==
  ASSUME Shape, FinalizeMeta
  PROVE  Shape'
  <1>1. SessionOK' /\ RuntimeOK' /\ RestOK' /\ CallerOK' /\ WriterOK' /\ DiscardOK'
    BY DEF Shape, SessionOK, RuntimeOK, RestOK, CallerOK, WriterOK, DiscardOK,
           FinalizeMeta, RecoverOnly, runtimeVars
  <1>2. FilesOK'
    <2> DEFINE i == recover.id
               f == [files[i] EXCEPT !.meta = None]
    <2>1. i \in Ids /\ recover.doc \in MaybeDoc
      BY DEF Shape, RecoverOK, RecoverSet, FinalizeMeta
    <2>2. f \in FileSet
      BY <2>1, JournalTyped, Nothing DEF Shape, FileSet
    <2>3. files' = [files EXCEPT ![i] = f]
      BY DEF FinalizeMeta
    <2> QED  BY <2>2, <2>3, FilesWith DEF Shape, FilesOK
  <1>3. RecoverOK'
    BY DEF Shape, RecoverOK, RecoverSet, Scanning, Claimed, MaybeDoc, NoRecover,
           FinalizeMeta, RecoverOnly, Goto, runtimeVars
  <1> QED  BY <1>1, <1>2, <1>3 DEF Shape

LEMMA SpawnSessionShape ==
  ASSUME Shape, SpawnSession
  PROVE  Shape'
  <1>1. FilesOK' /\ RuntimeOK' /\ CallerOK'
    BY DEF Shape, FilesOK, RuntimeOK, CallerOK, SpawnSession, RecoverOnly, runtimeVars
  <1>2. SessionOK'
    BY DEF Shape, SessionOK, RecoverOK, Scanning, SpawnSession, RecoverOnly
  <1>3. RestOK'
    BY JournalAssumption DEF JournalAssumption, Shape, RestOK, RecoverOK, SpawnSession,
           RecoverOnly
  <1>4. WriterOK'
    BY DEF Shape, WriterOK, WriterSet, Ids, SessionOK, SpawnSession, RecoverOnly
  <1>5. DiscardOK'
    BY DEF Shape, DiscardOK, DiscardSet, MaybeDoc, NoDiscard, SpawnSession, RecoverOnly,
           Goto, runtimeVars
  <1>6. RecoverOK'
    BY DEF Shape, RecoverOK, RecoverSet, Scanning, Claimed, MaybeDoc, NoRecover,
           SpawnSession, RecoverOnly, Goto, runtimeVars
  <1> QED  BY <1>1, <1>2, <1>3, <1>4, <1>5, <1>6 DEF Shape

LEMMA ClearHistoryShape ==
  ASSUME Shape, ClearHistory
  PROVE  Shape'
  <1>1. FilesOK' /\ RuntimeOK' /\ RestOK' /\ WriterOK' /\ DiscardOK'
    BY DEF Shape, FilesOK, RuntimeOK, RestOK, WriterOK, DiscardOK, ClearHistory,
           RecoverOnly, runtimeVars
  <1>2. SessionOK'
    BY DEF Shape, SessionOK, ClearHistory, RecoverOnly, Goto, Call, runtimeVars
  <1>3. CallerOK'
    BY DEF Shape, CallerOK, CallerSet, Callers, Ids, SessionOK, ClearHistory, RecoverOnly,
           Call
  <1>4. RecoverOK'
    BY DEF Shape, RecoverOK, RecoverSet, Scanning, Claimed, MaybeDoc, NoRecover,
           ClearHistory, RecoverOnly, Goto, Call, runtimeVars
  <1> QED  BY <1>1, <1>2, <1>3, <1>4 DEF Shape

LEMMA MarkUnsavedShape ==
  ASSUME Shape, MarkUnsaved
  PROVE  Shape'
  <1>1. FilesOK' /\ RuntimeOK' /\ RestOK' /\ WriterOK' /\ DiscardOK'
    BY DEF Shape, FilesOK, RuntimeOK, RestOK, WriterOK, DiscardOK, MarkUnsaved,
           RecoverOnly, runtimeVars
  <1>2. SessionOK'
    BY DEF Shape, SessionOK, MarkUnsaved, RecoverOnly, Goto, Call, runtimeVars
  <1>3. CallerOK'
    BY DEF Shape, CallerOK, CallerSet, Callers, Ids, SessionOK, MarkUnsaved, RecoverOnly,
           Call
  <1>4. RecoverOK'
    BY DEF Shape, RecoverOK, RecoverSet, Scanning, Claimed, MaybeDoc, NoRecover,
           MarkUnsaved, RecoverOnly, Goto, Call, runtimeVars
  <1> QED  BY <1>1, <1>2, <1>3, <1>4 DEF Shape

LEMMA ListSiblingsShape ==
  ASSUME Shape, ListSiblings
  PROVE  Shape'
  <1>1. SessionOK' /\ FilesOK' /\ RuntimeOK' /\ RestOK' /\ CallerOK' /\ WriterOK' /\ DiscardOK'
    BY DEF Shape, SessionOK, FilesOK, RuntimeOK, RestOK, CallerOK, WriterOK, DiscardOK,
           ListSiblings, RecoverOnly, runtimeVars
  <1>2. PICK siblings \in SUBSET Ids :
            recover' = IF siblings = {} THEN NoRecover
                       ELSE [recover EXCEPT !.at = "siblings", !.siblings = siblings]
    BY DEF ListSiblings
  <1>3. recover' \in RecoverSet
    BY <1>2 DEF Shape, RecoverOK, RecoverSet, NoRecover, MaybeDoc
  <1>4. RecoverOK'
    BY <1>2, <1>3 DEF Shape, RecoverOK, RecoverSet, Scanning, Claimed, NoRecover, ListSiblings
  <1> QED  BY <1>1, <1>4 DEF Shape

LEMMA PurgeSiblingShape ==
  ASSUME Shape, PurgeSibling
  PROVE  Shape'
  <1>1. SessionOK' /\ FilesOK' /\ RuntimeOK' /\ RestOK' /\ WriterOK' /\ DiscardOK'
    BY DEF Shape, SessionOK, FilesOK, RuntimeOK, RestOK, WriterOK, DiscardOK, PurgeSibling,
           RecoverOnly, runtimeVars
  <1>2. PICK i \in recover.siblings :
            /\ recover' = IF recover.siblings = {i} THEN NoRecover
                          ELSE [recover EXCEPT !.siblings = @ \ {i}]
            /\ Call("scan", "delete", i)
    BY DEF PurgeSibling
  <1>3. i \in Ids
    BY <1>2 DEF Shape, RecoverOK, RecoverSet
  <1>4. CallerOK'
    BY <1>2, <1>3 DEF Shape, CallerOK, CallerSet, Callers, Ids, PurgeSibling, RecoverOnly, Call
  <1>5. RecoverOK'
    BY <1>2 DEF Shape, RecoverOK, RecoverSet, Scanning, Claimed, MaybeDoc, NoRecover,
           PurgeSibling
  <1> QED  BY <1>1, <1>4, <1>5 DEF Shape

LEMMA DiscardJournalsShape ==
  ASSUME Shape, DiscardJournals
  PROVE  Shape'
  <1>1. SessionOK' /\ FilesOK' /\ RuntimeOK' /\ WriterOK' /\ DiscardOK' /\ RecoverOK'
    BY DEF Shape, SessionOK, FilesOK, RuntimeOK, WriterOK, DiscardOK, RecoverOK,
           DiscardJournals, RecoverOnly, runtimeVars
  <1>2. RestOK'
    BY DEF Shape, RestOK, MaybeDoc, DiscardJournals, RecoverOnly, Call, runtimeVars
  <1>3. CallerOK'
    BY DEF Shape, CallerOK, CallerSet, Callers, Ids, MaybeDoc, Idle, DiscardJournals,
           RecoverOnly, Call, runtimeVars
  <1> QED  BY <1>1, <1>2, <1>3 DEF Shape

LEMMA CrashShape ==
  ASSUME Shape, Crash
  PROVE  Shape'
  <1>1. FilesOK'
    BY DEF Shape, FilesOK, Crash
  <1>2. SessionOK'
    BY JournalAssumption DEF JournalAssumption, Shape, SessionOK, Crash, NoDocument
  <1>3. RuntimeOK'
    BY DEF Shape, RuntimeOK, MaybeDoc, Crash, Command, NoDocument, IdleWriter, Idle,
           NoDiscard, NoRecover
  <1>4. RestOK'
    BY DEF Shape, RestOK, MaybeDoc, Crash, Command, NoDocument, IdleWriter, Idle,
           NoDiscard, NoRecover
  <1>5. CallerOK'
    BY DEF Shape, CallerOK, CallerSet, Callers, Ids, MaybeDoc, Idle, Crash, Command,
           NoDocument, IdleWriter, NoDiscard, NoRecover
  <1>6. WriterOK'
    BY DEF Shape, WriterOK, WriterSet, Writing, MaybeDoc, Ids, SessionOK, Crash, IdleWriter
  <1>7. DiscardOK'
    BY DEF Shape, DiscardOK, DiscardSet, MaybeDoc, NoDiscard, Crash, Command, NoDocument,
           IdleWriter, Idle, NoRecover
  <1>8. RecoverOK'
    BY DEF Shape, RecoverOK, RecoverSet, Scanning, Claimed, MaybeDoc, NoRecover, Crash,
           Command, NoDocument, IdleWriter, Idle, NoDiscard
  <1> QED  BY <1>1, <1>2, <1>3, <1>4, <1>5, <1>6, <1>7, <1>8 DEF Shape

LEMMA RestartShape ==
  ASSUME Shape, Restart
  PROVE  Shape'
  <1>1. RuntimeOK' /\ RestOK' /\ CallerOK'
    BY DEF Shape, RuntimeOK, RestOK, CallerOK, Restart, runtimeVars
  <1>2. SessionOK'
    BY DEF Shape, SessionOK, Restart, runtimeVars
  <1>3. FilesOK'
    <2>1. \A i \in Ids : Restored(files[i]) \in FileSet
      BY JournalTyped, RestoredTyped DEF Shape
    <2> QED  BY <2>1 DEF Restart, FilesOK
  <1>4. WriterOK'
    BY DEF Shape, WriterOK, WriterSet, Writing, Restart, runtimeVars
  <1>5. DiscardOK'
    BY DEF Shape, DiscardOK, DiscardSet, MaybeDoc, NoDiscard, Restart, runtimeVars
  <1>6. RecoverOK'
    BY DEF Shape, RecoverOK, RecoverSet, Scanning, Claimed, MaybeDoc, NoRecover, Restart,
           runtimeVars
  <1> QED  BY <1>1, <1>2, <1>3, <1>4, <1>5, <1>6 DEF Shape

-----------------------------------------------------------------------------
(***************************************************************************)
(* Nothing is lost, one lemma per action.                                  *)
(***************************************************************************)
\* The files after a step that replaces only the blobs, or only the meta file.
SameBut(f, g, field) ==
    /\ field # "state" => g.state = f.state
    /\ field # "meta" => g.meta = f.meta
    /\ field # "blobs" => g.blobs = f.blobs
    /\ g.state_claim = f.state_claim /\ g.blobs_claim = f.blobs_claim

LEMMA SnapshotFiles ==
  ASSUME Shape, Snapshot
  PROVE  \A i \in Ids : /\ SameBut(files[i], files'[i], "blobs")
                        /\ \/ files'[i].blobs = files[i].blobs
                           \/ Open(i) /\ files[i].blobs = None /\ files'[i].blobs = {}
  <1>1. CASE Open(writer.id)
    <2> DEFINE s == IF files[sid].blobs = None THEN {} ELSE files[sid].blobs
    <2>1. files' = [files EXCEPT ![sid].blobs = s]
      BY <1>1 DEF Snapshot
    <2> QED  BY <1>1, <2>1 DEF Shape, FilesOK, FileSet, SameBut, Open
  <1>2. CASE ~Open(writer.id)
    BY <1>2 DEF Snapshot, SameBut
  <1> QED  BY <1>1, <1>2

LEMMA MarkDiscardedFiles ==
  ASSUME Shape, MarkDiscarded
  PROVE  \A i \in Ids : /\ SameBut(files[i], files'[i], "meta")
                        /\ files'[i].meta = None <=> files[i].meta = None
  <1>1. "discarded" # None
    BY JournalAssumption DEF JournalAssumption
  <1> DEFINE m == IF files[sid].meta = None THEN None ELSE "discarded"
  <1>2. files' = files \/ files' = [files EXCEPT ![sid].meta = m]
    BY DEF MarkDiscarded
  <1> QED  BY <1>1, <1>2 DEF Shape, FilesOK, FileSet, SameBut

\* The files after WriteBlob: only the images of the writer's journal change.
LEMMA WriteBlobFiles ==
  ASSUME Shape, NEW b \in writer.todo, WriteBlob, BlobWritten(b)
  PROVE  /\ writer.id \in Ids
         /\ \A i \in Ids : SameBut(files[i], files'[i], "blobs")
         /\ \A i \in Ids : i # writer.id => files'[i] = files[i]
         /\ files'[writer.id].blobs = After(b)
         /\ After(b) # None
  <1>1. writer.id \in Ids /\ b \in Blobs
    BY DEF Shape, WriterOK, WriterSet, WriteBlob
  <1>2. files' = [files EXCEPT ![writer.id].blobs = After(b)]
    BY BlobWrittenCases
  <1>3. After(b) \in SUBSET Blobs
    BY <1>1, OnDiskTyped DEF Shape, After, Collected
  <1>4. After(b) # None
    BY <1>3, JournalAssumption DEF JournalAssumption
  <1>5. files \in [Ids -> FileSet]
    BY DEF Shape, FilesOK
  <1> HIDE DEF After
  <1> QED  BY <1>1, <1>2, <1>4, <1>5 DEF FileSet, SameBut

\* With its images away or its state claimed, a journal is not whole.
LEMMA NotWhole ==
  ASSUME NEW f, NEW d, f.blobs = None \/ f.state_claim # None
  PROVE  ~(Restored(f) = f /\ GivesBack(f, d))
  BY DEF Restored, GivesBack

\* A journal without claims that holds d gives it back.
LEMMA Whole ==
  ASSUME NEW f, NEW d \in Docs, f.meta # None, f.state = d, f.blobs # None, BlobsOf[d] \subseteq f.blobs
  PROVE  GivesBack(f, d)
  <1>1. d # None
    BY JournalAssumption DEF JournalAssumption
  <1> QED  BY <1>1 DEF Restored, GivesBack

\* Where the writer is in the middle of a write that is still owed, no
\* recovery has claimed its journal.
LEMMA NotClaimed ==
  ASSUME IInv, writer.at \in Writing, kept # Gap
  PROVE  recover.id = writer.id => recover.at \notin Claimed
  BY DEF IInv, ClaimParts, Busy

LEMMA UnclaimedUntouched ==
  ASSUME NEW i, recover'.id = i => recover'.at \notin Claimed
  PROVE  Untouched(i)'
  BY DEF Untouched, Claimed, StateClaimed, Finalizing

LEMMA StillUntouched ==
  ASSUME NEW i, Untouched(i), UNCHANGED recover,
         files'[i].state = files[i].state, files'[i].state_claim = files[i].state_claim
  PROVE  Untouched(i)'
  BY DEF Untouched

LEMMA EditKeeps ==
  ASSUME IInv, Shape', Edit
  PROVE  ClaimsHeld' /\ ClaimParts' /\ Keeps' /\ Written'
  <1>1. ClaimsHeld' /\ ClaimParts' /\ Keeps' /\ Written'
    BY DEF IInv, ClaimsHeld, ClaimParts, Busy, Keeps, Untouched, Written, Released,
           ImagesThere, Open, Edit, runtimeVars
  <1> QED  BY <1>1

LEMMA ScheduleDirtyKeeps ==
  ASSUME IInv, Shape', NEW p \in Callers, ScheduleDirty(p)
  PROVE  ClaimsHeld' /\ ClaimParts' /\ Keeps' /\ Written'
  <1>1. ClaimsHeld' /\ ClaimParts' /\ Keeps' /\ Written'
    BY DEF IInv, ClaimsHeld, ClaimParts, Busy, Keeps, Untouched, Written, Released,
           ImagesThere, Open, ScheduleDirty, sessionVars, runtimeVars
  <1> QED  BY <1>1

LEMMA PendKeeps ==
  ASSUME IInv, Shape', NEW p \in Callers, Pend(p)
  PROVE  ClaimsHeld' /\ ClaimParts' /\ Keeps' /\ Written'
  <1>1. ClaimsHeld' /\ ClaimParts' /\ Keeps' /\ Written'
    BY DEF IInv, ClaimsHeld, ClaimParts, Busy, Keeps, Untouched, Written, Released,
           ImagesThere, Open, Pend, sessionVars
  <1> QED  BY <1>1

\* Removing one file of a journal that does not give the document back.
LEMMA RemoveKeeps ==
  ASSUME IInv, NEW i \in Ids, Remove(i), UNCHANGED recover,
         \A j \in Ids : j # i => files'[j] = files[j]
  PROVE  Keeps'
  <1>1. SUFFICES ASSUME kept' \notin {None, Gap}
                 PROVE  \E j \in Ids : GivesBack(files'[j], kept') /\ Untouched(j)'
    BY DEF Keeps
  <1>2. kept' = kept /\ kept \in Docs /\ ~GivesBack(files[i], kept)
    BY <1>1 DEF Remove, GapIf, IInv, Shape, RestOK, MaybeDoc
  <1>3. PICK j \in Ids : GivesBack(files[j], kept) /\ Untouched(j)
    BY <1>1, <1>2 DEF IInv, Keeps
  <1>4. files'[j] = files[j]
    BY <1>2, <1>3
  <1> QED  BY <1>2, <1>3, <1>4 DEF Untouched

LEMMA DeleteStateKeeps ==
  ASSUME IInv, Shape', NEW p \in Callers, DeleteState(p)
  PROVE  ClaimsHeld' /\ ClaimParts' /\ Keeps' /\ Written'
  <1> DEFINE i == caller[p].id
  <1>1. /\ i \in Ids /\ Remove(i) /\ UNCHANGED <<mode, sid, recover, writer>>
        /\ files' = [files EXCEPT ![i].state = None] /\ files \in [Ids -> FileSet]
    BY CallerTyped DEF IInv, Shape, FilesOK, DeleteState, DeleteOnly, sessionVars
  <1>2. ClaimsHeld'
    BY <1>1 DEF IInv, Shape, ClaimsHeld, FileSet
  <1>3. ClaimParts'
    BY <1>1 DEF IInv, Shape, RecoverOK, ClaimParts, Claimed, Busy, FileSet, Remove, GapIf
  <1>4. Keeps'
    BY <1>1, RemoveKeeps
  <1>5. Written'
    BY <1>1 DEF IInv, Shape, WriterOK, Written, Writing, Released, ImagesThere, Open, InFlight,
           FileSet, Remove, GapIf
  <1> QED  BY <1>2, <1>3, <1>4, <1>5

LEMMA DeleteMetaKeeps ==
  ASSUME IInv, Shape', NEW p \in Callers, DeleteMeta(p)
  PROVE  ClaimsHeld' /\ ClaimParts' /\ Keeps' /\ Written'
  <1> DEFINE i == caller[p].id
  <1>1. /\ i \in Ids /\ Remove(i) /\ UNCHANGED <<mode, sid, recover, writer>>
        /\ files' = [files EXCEPT ![i].meta = None] /\ files \in [Ids -> FileSet]
    BY CallerTyped DEF IInv, Shape, FilesOK, DeleteMeta, DeleteOnly, sessionVars
  <1>2. ClaimsHeld'
    BY <1>1 DEF IInv, Shape, ClaimsHeld, FileSet
  <1>3. ClaimParts'
    BY <1>1 DEF IInv, Shape, RecoverOK, ClaimParts, Claimed, Busy, FileSet, Remove, GapIf
  <1>4. Keeps'
    BY <1>1, RemoveKeeps
  <1>5. Written'
    BY <1>1 DEF IInv, Shape, WriterOK, Written, Writing, Released, ImagesThere, Open, InFlight,
           FileSet, Remove, GapIf
  <1> QED  BY <1>2, <1>3, <1>4, <1>5

LEMMA DeleteBlobsKeeps ==
  ASSUME IInv, Shape', NEW p \in Callers, DeleteBlobs(p)
  PROVE  ClaimsHeld' /\ ClaimParts' /\ Keeps' /\ Written'
  <1> DEFINE i == caller[p].id
  <1>1. /\ i \in Ids /\ Remove(i) /\ UNCHANGED <<mode, sid, recover, writer>>
        /\ files' = [files EXCEPT ![i].blobs = None] /\ files \in [Ids -> FileSet]
    BY CallerTyped DEF IInv, Shape, FilesOK, DeleteBlobs, DeleteOnly, sessionVars
  <1>2. ClaimsHeld'
    BY <1>1 DEF IInv, Shape, ClaimsHeld, FileSet
  <1>3. ClaimParts'
    BY <1>1 DEF IInv, Shape, RecoverOK, ClaimParts, Claimed, Busy, FileSet, Remove, GapIf
  <1>4. Keeps'
    BY <1>1, RemoveKeeps
  <1>5. Written'
    BY <1>1 DEF IInv, Shape, WriterOK, Written, Writing, Released, ImagesThere, Open, InFlight,
           FileSet, Remove, GapIf
  <1> QED  BY <1>2, <1>3, <1>4, <1>5

LEMMA DeleteStateClaimKeeps ==
  ASSUME IInv, Shape', NEW p \in Callers, DeleteStateClaim(p)
  PROVE  ClaimsHeld' /\ ClaimParts' /\ Keeps' /\ Written'
  <1> DEFINE i == caller[p].id
  <1>1. /\ i \in Ids /\ Remove(i) /\ UNCHANGED <<mode, sid, recover, writer>>
        /\ files' = [files EXCEPT ![i].state_claim = None] /\ files \in [Ids -> FileSet]
    BY CallerTyped DEF IInv, Shape, FilesOK, DeleteStateClaim, DeleteOnly, sessionVars
  <1>2. ClaimsHeld'
    BY <1>1 DEF IInv, Shape, ClaimsHeld, FileSet
  <1>3. ClaimParts'
    <2>1. SUFFICES ASSUME recover.at = "claim_blobs", writer.id = recover.id, writer.at \in Writing,
                          i = recover.id
                   PROVE  files[recover.id].blobs = None
      BY <1>1 DEF IInv, Shape, RecoverOK, ClaimParts, Claimed, BlobsAway, BlobsClaimed, Busy,
             FileSet, Remove, GapIf
    <2>2. caller[p].at = "delete_claim" /\ p # "scan"
      BY <2>1 DEF DeleteStateClaim, IInv, Deleters, Scanning, Claimed
    <2> QED  BY <2>1, <2>2 DEF IInv, Deleters
  <1>4. Keeps'
    BY <1>1, RemoveKeeps
  <1>5. Written'
    BY <1>1 DEF IInv, Shape, WriterOK, Written, Writing, Released, ImagesThere, Open, InFlight,
           FileSet, Remove, GapIf
  <1> QED  BY <1>2, <1>3, <1>4, <1>5

LEMMA DeleteBlobsClaimKeeps ==
  ASSUME IInv, Shape', NEW p \in Callers, DeleteBlobsClaim(p)
  PROVE  ClaimsHeld' /\ ClaimParts' /\ Keeps' /\ Written'
  <1> DEFINE i == caller[p].id
  <1>1. /\ i \in Ids /\ Remove(i) /\ UNCHANGED <<mode, sid, recover, writer>>
        /\ files' = [files EXCEPT ![i].blobs_claim = None] /\ files \in [Ids -> FileSet]
    BY CallerTyped DEF IInv, Shape, FilesOK, DeleteBlobsClaim, DeleteOnly, sessionVars
  <1>2. ClaimsHeld'
    BY <1>1 DEF IInv, Shape, ClaimsHeld, FileSet
  <1>3. ClaimParts'
    BY <1>1 DEF IInv, Shape, RecoverOK, ClaimParts, Claimed, Busy, FileSet, Remove, GapIf
  <1>4. Keeps'
    BY <1>1, RemoveKeeps
  <1>5. Written'
    BY <1>1 DEF IInv, Shape, WriterOK, Written, Writing, Released, ImagesThere, Open, InFlight,
           FileSet, Remove, GapIf
  <1> QED  BY <1>2, <1>3, <1>4, <1>5

LEMMA HeartbeatKeeps ==
  ASSUME IInv, Shape', Heartbeat
  PROVE  ClaimsHeld' /\ ClaimParts' /\ Keeps' /\ Written'
  <1>1. ClaimsHeld' /\ ClaimParts' /\ Keeps' /\ Written'
    BY DEF IInv, ClaimsHeld, ClaimParts, Busy, Keeps, Untouched, Written, Released,
           ImagesThere, Open, Heartbeat, sessionVars
  <1> QED  BY <1>1

LEMMA DrainDueKeeps ==
  ASSUME IInv, Shape', DrainDue
  PROVE  ClaimsHeld' /\ ClaimParts' /\ Keeps' /\ Written'
  <1>1. ClaimsHeld' /\ Keeps'
    BY DEF IInv, ClaimsHeld, Keeps, Untouched, DrainDue, WriterOnly, sessionVars,
           runtimeVars
  <1>2. ClaimParts'
    BY DEF IInv, ClaimParts, Busy, Claimed, BlobsAway, BlobsClaimed, Writing, InFlight,
           DrainDue, WriterOnly, IdleWriter, Dirty, Open, sessionVars, runtimeVars
  <1>3. Written'
    BY DEF IInv, Written, Released, ImagesThere, Open, Writing, InFlight, DrainDue,
           WriterOnly, IdleWriter, Dirty, sessionVars, runtimeVars
  <1> QED  BY <1>1, <1>2, <1>3

LEMMA DrainRecheckKeeps ==
  ASSUME IInv, Shape', DrainRecheck
  PROVE  ClaimsHeld' /\ ClaimParts' /\ Keeps' /\ Written'
  <1>1. ClaimsHeld' /\ Keeps'
    BY DEF IInv, ClaimsHeld, Keeps, Untouched, DrainRecheck, WriterOnly, sessionVars
  <1>2. ClaimParts'
    <2>1. writer'.at \in {"idle", "check"}
      BY DEF DrainRecheck, Become, IdleWriter, IInv, Shape, WriterOK, WriterSet
    <2> QED  BY <2>1 DEF IInv, ClaimParts, Busy, Writing, DrainRecheck, WriterOnly
  <1>3. Written'
    <2>1. writer'.at \in {"idle", "check"}
      BY DEF DrainRecheck, Become, IdleWriter, IInv, Shape, WriterOK, WriterSet
    <2> QED  BY <2>1 DEF Written, Writing
  <1> QED  BY <1>1, <1>2, <1>3

LEMMA TakeFlushKeeps ==
  ASSUME IInv, Shape', TakeFlush
  PROVE  ClaimsHeld' /\ ClaimParts' /\ Keeps' /\ Written'
  <1>1. ClaimsHeld' /\ Keeps'
    BY DEF IInv, ClaimsHeld, Keeps, Untouched, TakeFlush, WriterOnly, sessionVars,
           runtimeVars
  <1>2. ClaimParts'
    BY DEF IInv, ClaimParts, Busy, Claimed, BlobsAway, BlobsClaimed, Writing, InFlight,
           TakeFlush, WriterOnly, IdleWriter, NoDiscard, sessionVars, runtimeVars
  <1>3. Written'
    BY DEF IInv, Written, Released, ImagesThere, Open, Writing, InFlight, TakeFlush,
           WriterOnly, IdleWriter, NoDiscard, sessionVars, runtimeVars
  <1> QED  BY <1>1, <1>2, <1>3

LEMMA CheckDirtyKeeps ==
  ASSUME IInv, Shape', CheckDirty
  PROVE  ClaimsHeld' /\ ClaimParts' /\ Keeps' /\ Written'
  <1>1. ClaimsHeld' /\ Keeps'
    BY DEF IInv, ClaimsHeld, Keeps, Untouched, CheckDirty, WriterOnly, sessionVars,
           runtimeVars
  <1>2. ClaimParts'
    BY DEF IInv, Shape, ClaimParts, Scanning, Busy, Writing, RecoverOK, CheckDirty,
           WriterOnly, Finish, IdleWriter, Dirty, Open
  <1>3. Written'
    <2>1. writer'.at \in {"idle", "snapshot"}
      BY DEF CheckDirty, Become, Finish, IdleWriter, IInv, Shape, WriterOK, WriterSet
    <2> QED  BY <2>1 DEF Written, Writing
  <1> QED  BY <1>1, <1>2, <1>3

LEMMA SnapshotKeeps ==
  ASSUME IInv, Shape', Snapshot
  PROVE  ClaimsHeld' /\ ClaimParts' /\ Keeps' /\ Written'
  <1>1. ClaimsHeld'
    BY SnapshotFiles DEF IInv, ClaimsHeld, SameBut, Snapshot, WriterOnly, sessionVars
  <1>2. ClaimParts'
    BY DEF IInv, Shape, ClaimParts, Scanning, Busy, Writing, RecoverOK, Snapshot,
           WriterOnly, Finish, IdleWriter, Open
  <1>3. Keeps'
    <2>1. SUFFICES ASSUME kept' \notin {None, Gap}
                  PROVE  \E i \in Ids : GivesBack(files'[i], kept) /\ Untouched(i)'
      BY DEF Keeps, Snapshot
    <2>2. PICK i \in Ids : GivesBack(files[i], kept) /\ Untouched(i)
      BY <2>1 DEF IInv, Keeps, Snapshot
    <2>3. SameBut(files[i], files'[i], "blobs") /\ recover' = recover
      BY SnapshotFiles DEF IInv, Snapshot, WriterOnly
    <2>4. files'[i].blobs = files[i].blobs
      <3>1. CASE Open(i) /\ files[i].blobs = None
        <4>1. mode = "open" /\ recover.at \notin BlobsClaimed
          BY <3>1 DEF Open, IInv, Shape, RecoverOK, Scanning, Claimed, BlobsClaimed
        <4>2. files[i].blobs_claim = None
          BY <4>1 DEF IInv, ClaimsHeld
        <4> QED  BY <2>2, <3>1, <4>2 DEF GivesBack, Restored
      <3> QED  BY <3>1, SnapshotFiles DEF IInv
    <2> QED  BY <2>2, <2>3, <2>4 DEF SameBut, GivesBack, Restored, Untouched
  <1>4. Written'
    <2>1. CASE ~Open(writer.id)
      BY <2>1 DEF Snapshot, Finish, IdleWriter, Written, Writing
    <2>2. CASE Open(writer.id)
      <3>1. /\ writer'.at = "blobs" /\ writer'.id = sid
            /\ writer'.doc = live /\ writer'.todo = BlobsOf[live]
        BY <2>2 DEF Snapshot, Open, IInv, Shape, WriterOK, WriterSet
      <3>2. sid \in Ids /\ {} # None
        BY JournalAssumption DEF JournalAssumption, IInv, Shape, SessionOK
      <3>3. files'[sid].blobs # None
        BY <2>2, <3>2 DEF Snapshot, IInv, Shape, FilesOK, FileSet
      <3> QED  BY <3>1, <3>3 DEF Written, ImagesThere
    <2> QED  BY <2>1, <2>2
  <1> QED  BY <1>1, <1>2, <1>3, <1>4

LEMMA WriteBlobKeeps ==
  ASSUME IInv, Shape', WriteBlob
  PROVE  ClaimsHeld' /\ ClaimParts' /\ Keeps' /\ Written'
  <1>1. ClaimsHeld'
    <2>1. PICK b \in writer.todo : BlobThere(b) \/ BlobIncomplete(b) \/ BlobWritten(b)
      BY DEF WriteBlob
    <2>2. CASE BlobWritten(b)
      BY <2>2, WriteBlobFiles DEF IInv, ClaimsHeld, SameBut, WriteBlob, WriterOnly, sessionVars
    <2>3. CASE files' = files
      BY <2>3 DEF IInv, ClaimsHeld, WriteBlob, WriterOnly, sessionVars
    <2> QED  BY <2>1, <2>2, <2>3 DEF BlobThere, BlobIncomplete
  <1>2. ClaimParts'
    <2>1. PICK b \in writer.todo : BlobThere(b) \/ BlobIncomplete(b) \/ BlobWritten(b)
      BY DEF WriteBlob
    <2>2. CASE BlobWritten(b)
      <3>1. mode = "open" /\ recover.at \notin Claimed
        BY <2>2 DEF BlobWritten, Open, IInv, Shape, RecoverOK, Scanning
      <3> QED  BY <3>1 DEF ClaimParts, WriteBlob, WriterOnly
    <2>3. CASE BlobThere(b) \/ BlobIncomplete(b)
      <3>1. writer'.at = writer.at /\ writer'.id = writer.id
        BY <2>3 DEF BlobThere, BlobIncomplete, IInv, Shape, WriterOK, WriterSet
      <3>2. UNCHANGED <<files, kept, recover>>
        BY <2>3 DEF BlobThere, BlobIncomplete, WriteBlob, WriterOnly
      <3> QED  BY <3>1, <3>2 DEF IInv, ClaimParts, Busy
    <2> QED  BY <2>1, <2>2, <2>3
  <1>3. Keeps'
    <2>1. PICK b \in writer.todo : BlobThere(b) \/ BlobIncomplete(b) \/ BlobWritten(b)
      BY DEF WriteBlob
    <2>2. UNCHANGED recover
      BY DEF WriteBlob, WriterOnly
    <2>3. CASE UNCHANGED <<files, kept>>
      BY <2>2, <2>3 DEF IInv, Keeps, Untouched
    <2>4. CASE BlobWritten(b)
      <3>1. SUFFICES ASSUME kept' \notin {None, Gap}
                    PROVE  \E i \in Ids : GivesBack(files'[i], kept) /\ Untouched(i)'
        BY <2>4, BlobWrittenCases DEF Keeps
      <3>2. kept' = kept /\ ~(Missing(writer.id, Collected) /\ ~Missing(writer.id, OnDisk(writer.id)))
        BY <2>4, <3>1, BlobWrittenCases
      <3>3. PICK i \in Ids : GivesBack(files[i], kept) /\ Untouched(i)
        BY <3>1, <3>2 DEF IInv, Keeps
      <3>4. CASE i # writer.id
        BY <2>2, <2>4, <3>3, <3>4, WriteBlobFiles, StillUntouched DEF IInv
      <3>5. CASE i = writer.id
        <4>1. mode = "open" /\ recover.at \notin Claimed
          BY <2>4 DEF BlobWritten, Open, IInv, Shape, RecoverOK, Scanning
        <4>2. files[i].state_claim = None /\ files[i].blobs_claim = None
          BY <4>1 DEF IInv, ClaimsHeld, Claimed, StateClaimed, BlobsClaimed
        <4>3. /\ files[i].meta # None /\ files[i].state = kept
              /\ files[i].blobs # None /\ BlobsOf[kept] \subseteq files[i].blobs
          BY <3>3, <4>2 DEF GivesBack, Restored
        <4>4. kept \in Docs /\ kept # None
          BY <3>1, <3>2 DEF IInv, Shape, RestOK, MaybeDoc
        <4>5. BlobsOf[kept] \subseteq Collected
          BY <3>2, <3>5, <4>3, <4>4 DEF Missing, OnDisk
        <4>6. /\ files'[i].meta = files[i].meta /\ files'[i].state = kept
              /\ files'[i].blobs = After(b) /\ After(b) # None
          BY <2>4, <3>5, <4>3, WriteBlobFiles DEF IInv, SameBut
        <4>7. BlobsOf[kept] \subseteq After(b)
          BY <4>5 DEF After
        <4>8. GivesBack(files'[i], kept)
          BY <4>3, <4>4, <4>6, <4>7 DEF GivesBack, Restored
        <4>9. Untouched(i)'
          BY <2>2, <4>1, UnclaimedUntouched
        <4> QED  BY <4>8, <4>9
      <3> QED  BY <3>4, <3>5
    <2> QED  BY <2>1, <2>3, <2>4 DEF BlobThere, BlobIncomplete
  <1>4. Written'
    <2>1. PICK b \in writer.todo : BlobThere(b) \/ BlobIncomplete(b) \/ BlobWritten(b)
      BY DEF WriteBlob
    <2>2. UNCHANGED <<mode, sid>> /\ writer.at = "blobs" /\ writer.id \in Ids
      BY DEF WriteBlob, WriterOnly, sessionVars, IInv, Shape, WriterOK
    <2>3. Released \/ ImagesThere
      BY <2>2 DEF IInv, Written, Writing
    <2>4. CASE BlobThere(b) \/ BlobIncomplete(b)
      <3>1. /\ writer'.at = "blobs" /\ writer'.id = writer.id /\ writer'.doc = writer.doc
            /\ writer'.todo = writer.todo \ {b}
            /\ BlobThere(b) => writer'.incomplete = writer.incomplete
            /\ BlobIncomplete(b) => writer'.incomplete
        BY <2>2, <2>4 DEF BlobThere, BlobIncomplete, IInv, Shape, WriterOK, WriterSet
      <3>2. UNCHANGED <<files, kept>>
        BY <2>4 DEF BlobThere, BlobIncomplete
      <3>3. CASE Released
        BY <2>2, <3>1, <3>2, <3>3 DEF Written, Released, Open
      <3>4. CASE ImagesThere
        <4>1. BlobThere(b) => b \in files[writer.id].blobs
          BY DEF BlobThere, OnDisk
        <4> QED  BY <2>2, <2>4, <3>1, <3>2, <3>4, <4>1 DEF Written, ImagesThere
      <3> QED  BY <2>3, <3>3, <3>4
    <2>5. CASE BlobWritten(b) /\ writer' = IdleWriter
      BY <2>5 DEF IdleWriter, Written, Writing
    <2>6. CASE BlobWritten(b) /\ writer' # IdleWriter
      <3>1. /\ ~(Cardinality(Collected) + 1 > Cap) /\ kept' \in {kept, Gap}
            /\ writer' = [writer EXCEPT !.todo = @ \ {b}]
        BY <2>6, BlobWrittenCases, Zenon
      <3>2. /\ writer'.at = "blobs" /\ writer'.id = writer.id /\ writer'.doc = writer.doc
            /\ writer'.todo = writer.todo \ {b} /\ writer'.incomplete = writer.incomplete
        BY <2>2, <3>1 DEF IInv, Shape, WriterOK, WriterSet
      <3>3. Open(writer.id)
        BY <2>6 DEF BlobWritten
      <3>4. CASE Released
        BY <3>1, <3>3, <3>4 DEF Released, Written
      <3>5. CASE ImagesThere
        <4>1. files'[writer.id].blobs = After(b) /\ After(b) # None
          BY <2>6, WriteBlobFiles DEF IInv
        <4>2. After(b) = Collected \union {b}
          BY <3>1 DEF After
        <4>3. writer.incomplete \/ BlobsOf[writer.doc] \ writer.todo \subseteq Collected
          BY <2>2, <3>5 DEF ImagesThere, Collected, OnDisk
        <4> QED  BY <3>2, <4>1, <4>2, <4>3 DEF Written, ImagesThere
      <3> QED  BY <2>3, <3>4, <3>5
    <2> QED  BY <2>1, <2>4, <2>5, <2>6
  <1> QED  BY <1>1, <1>2, <1>3, <1>4

LEMMA BlobsDoneKeeps ==
  ASSUME IInv, Shape', BlobsDone
  PROVE  ClaimsHeld' /\ ClaimParts' /\ Keeps' /\ Written'
  <1>1. ClaimsHeld' /\ Keeps'
    BY DEF IInv, ClaimsHeld, Keeps, Untouched, BlobsDone, WriterOnly, sessionVars,
           runtimeVars
  <1>2. ClaimParts'
    <2>1. writer'.at = "idle" \/ (writer'.at = "hash" /\ writer'.id = writer.id)
      <3>1. CASE writer.incomplete
        BY <3>1 DEF BlobsDone, Finish, IdleWriter
      <3>2. CASE ~writer.incomplete
        BY <3>2 DEF BlobsDone, Become, IInv, Shape, WriterOK, WriterSet
      <3> QED  BY <3>1, <3>2
    <2> QED  BY <2>1 DEF IInv, ClaimParts, Busy, Writing, BlobsDone, WriterOnly
  <1>3. Written'
    <2>1. CASE writer.incomplete
      BY <2>1 DEF BlobsDone, Finish, IdleWriter, Written, Writing
    <2>2. CASE ~writer.incomplete
      <3>1. writer'.at = "hash" /\ writer'.id = writer.id /\ writer'.doc = writer.doc
        BY <2>2 DEF BlobsDone, Become, IInv, Shape, WriterOK, WriterSet
      <3>2. Released \/ ImagesThere
        BY DEF IInv, Written, Writing, BlobsDone
      <3>3. CASE Released
        BY <3>1, <3>3 DEF Written, Released, Open, BlobsDone, WriterOnly, sessionVars
      <3>4. CASE ImagesThere
        <4>1. BlobsOf[writer.doc] \subseteq files[writer.id].blobs
          BY <2>2, <3>4 DEF ImagesThere, BlobsDone
        <4> QED  BY <3>1, <3>4, <4>1 DEF Written, ImagesThere, BlobsDone
      <3> QED  BY <3>2, <3>3, <3>4
    <2> QED  BY <2>1, <2>2
  <1> QED  BY <1>1, <1>2, <1>3

LEMMA SkipStateKeeps ==
  ASSUME IInv, Shape', SkipState
  PROVE  ClaimsHeld' /\ ClaimParts' /\ Keeps' /\ Written'
  <1>1. ClaimsHeld'
    BY DEF IInv, ClaimsHeld, SkipState, WriterOnly, sessionVars, runtimeVars
  <1>2. ClaimParts'
    BY DEF IInv, ClaimParts, Busy, Claimed, BlobsAway, BlobsClaimed, Writing, InFlight,
           SkipState, WriterOnly, Become, GapIf, sessionVars, runtimeVars
  <1>3. Keeps'
    BY DEF IInv, Keeps, Untouched, StateClaimed, Finalizing, GivesBack, Restored,
           SkipState, WriterOnly, Become, GapIf, sessionVars, runtimeVars
  <1>4. Written'
    BY DEF IInv, Written, Released, ImagesThere, Open, Writing, InFlight, SkipState,
           WriterOnly, Become, GapIf, sessionVars, runtimeVars
  <1> QED  BY <1>1, <1>2, <1>3, <1>4

LEMMA WriteStateKeeps ==
  ASSUME IInv, Shape', WriteState
  PROVE  ClaimsHeld' /\ ClaimParts' /\ Keeps' /\ Written'
  <1>1. ClaimsHeld'
    BY DEF IInv, ClaimsHeld, StateClaimed, BlobsClaimed, WriteState, WriterOnly, Become,
           Owed, sessionVars, runtimeVars
  <1>2. ClaimParts'
    <2>a. /\ writer.at \in Writing /\ writer'.id = writer.id /\ UNCHANGED recover
          /\ recover.at # "none" => recover.id \in Ids
          /\ \A i \in Ids : /\ files'[i].blobs = files[i].blobs
                            /\ files'[i].state_claim = files[i].state_claim
      BY DEF IInv, Shape, WriterOK, RecoverOK, WriterSet, FilesOK, FileSet, Writing,
             WriteState, WriterOnly, Become
    <2>1. SUFFICES ASSUME recover.at \in Claimed, writer.id = recover.id
                  PROVE  kept' = Gap
      BY <2>a DEF IInv, ClaimParts, Claimed, Busy
    <2>2. kept = Gap
      BY <2>1, <2>a DEF IInv, ClaimParts, Busy
    <2>3. recover.id \in Ids /\ recover.doc \in Docs
      BY <2>1 DEF IInv, Shape, RecoverOK, Claimed
    <2>4. files[recover.id].blobs = None \/ files[recover.id].state_claim # None
      BY <2>1, <2>3, <2>a, JournalAssumption
         DEF JournalAssumption, IInv, ClaimParts, Claimed, BlobsAway, BlobsClaimed
    <2>5. files'[recover.id].blobs = None \/ files'[recover.id].state_claim # None
      BY <2>1, <2>3, <2>4 DEF WriteState, IInv, Shape, FilesOK, FileSet
    <2>6. Owed(files'[writer.id]) = Gap
      BY <2>1, <2>2, <2>5, NotWhole DEF Owed
    <2> QED  BY <2>2, <2>6 DEF WriteState
  <1>3. Keeps'
    <2>1. SUFFICES ASSUME kept' \notin {None, Gap}
                  PROVE  \E i \in Ids : GivesBack(files'[i], kept') /\ Untouched(i)'
      BY DEF Keeps
    <2>2. writer.id \in Ids /\ writer.doc \in Docs /\ writer.at \in Writing /\ UNCHANGED recover
      BY DEF IInv, Shape, WriterOK, Writing, WriteState, WriterOnly
    <2>3. /\ \A i \in Ids : i # writer.id => files'[i] = files[i]
          /\ SameBut(files[writer.id], files'[writer.id], "state")
          /\ files'[writer.id].state = writer.doc
      BY <2>2 DEF IInv, Shape, FilesOK, FileSet, SameBut, WriteState
    <2>4. CASE files[writer.id].meta = None
      <3>1. kept' = kept
        BY <2>4 DEF WriteState
      <3>2. PICK i \in Ids : GivesBack(files[i], kept) /\ Untouched(i)
        BY <2>1, <3>1 DEF IInv, Keeps
      <3>3. i # writer.id
        BY <2>4, <3>2 DEF GivesBack, Restored
      <3> QED  BY <2>2, <2>3, <3>1, <3>2, <3>3, StillUntouched
    <2>5. CASE files[writer.id].meta # None /\ kept = Gap
      <3>1. kept' = writer.doc /\ GivesBack(files'[writer.id], writer.doc)
        BY <2>1, <2>5 DEF WriteState, Owed
      <3>2. recover.id = writer.id => recover.at \notin Claimed
        <4>1. SUFFICES ASSUME recover.id = writer.id, recover.at \in Claimed
                       PROVE  kept' = Gap
          BY <2>1
        <4> QED  BY <1>2, <4>1, <2>2 DEF ClaimParts, Busy, WriteState, WriterOnly, Become,
               Writing, IInv, Shape, WriterOK, WriterSet
      <3> QED  BY <2>2, <3>1, <3>2, UnclaimedUntouched
    <2>6. CASE files[writer.id].meta # None /\ kept # Gap
      <3>1. kept # None /\ kept' = writer.doc
        BY <2>1, <2>6 DEF WriteState, Owed
      <3>2. /\ files[writer.id].blobs # None
            /\ BlobsOf[writer.doc] \subseteq files[writer.id].blobs
        BY <2>2, <2>6, <3>1 DEF IInv, Written, Released, ImagesThere, WriteState
      <3>3. GivesBack(files'[writer.id], writer.doc)
        BY <2>2, <2>3, <2>6, <3>2, Whole DEF SameBut
      <3> QED  BY <2>2, <2>6, <3>1, <3>3, NotClaimed, UnclaimedUntouched
    <2> QED  BY <2>4, <2>5, <2>6
  <1>4. Written'
    <2>2. writer.id \in Ids /\ writer.doc \in Docs
      BY DEF IInv, Shape, WriterOK, Writing, WriteState
    <2>3. /\ SameBut(files[writer.id], files'[writer.id], "state")
          /\ files'[writer.id].state = writer.doc
      BY <2>2 DEF IInv, Shape, FilesOK, FileSet, SameBut, WriteState
    <2>4. writer'.at = "meta" /\ writer'.id = writer.id /\ writer'.doc = writer.doc
      BY DEF WriteState, Become, IInv, Shape, WriterOK, WriterSet
    <2>5. UNCHANGED <<mode, sid>>
      BY DEF WriteState, WriterOnly, sessionVars
    <2>6. Released \/ ImagesThere
      BY DEF IInv, Written, Writing, WriteState
    <2>7. CASE ImagesThere
      BY <2>3, <2>4, <2>7 DEF Written, ImagesThere, SameBut, WriteState
    <2>8. CASE kept = None /\ ~Open(writer.id)
      BY <2>4, <2>5, <2>8 DEF Written, Released, Open, WriteState
    <2>9. CASE kept = Gap
      <3>1. \/ kept' = Gap
            \/ Restored(files'[writer.id]) = files'[writer.id] /\ GivesBack(files'[writer.id], writer.doc)
        <4>1. kept' = Gap \/ kept' = Owed(files'[writer.id])
          BY <2>9 DEF WriteState
        <4> QED  BY <2>9, <4>1 DEF Owed
      <3>2. CASE kept' = Gap
        BY <3>2 DEF Written, Released
      <3>3. CASE Restored(files'[writer.id]) = files'[writer.id] /\ GivesBack(files'[writer.id], writer.doc)
        BY <2>3, <2>4, <3>3 DEF GivesBack, Written, ImagesThere
      <3> QED  BY <3>1, <3>2, <3>3
    <2> QED  BY <2>6, <2>7, <2>8, <2>9 DEF Released
  <1> QED  BY <1>1, <1>2, <1>3, <1>4

LEMMA WriteMetaKeeps ==
  ASSUME IInv, Shape', WriteMeta
  PROVE  ClaimsHeld' /\ ClaimParts' /\ Keeps' /\ Written'
  <1>1. ClaimsHeld'
    BY DEF IInv, ClaimsHeld, StateClaimed, BlobsClaimed, WriteMeta, WriterOnly, Become,
           Owed, sessionVars, runtimeVars
  <1>2. ClaimParts'
    <2>a. /\ writer.at \in Writing /\ writer'.id = writer.id /\ UNCHANGED recover
          /\ recover.at # "none" => recover.id \in Ids
          /\ \A i \in Ids : /\ files'[i].blobs = files[i].blobs
                            /\ files'[i].state_claim = files[i].state_claim
      BY DEF IInv, Shape, WriterOK, RecoverOK, WriterSet, FilesOK, FileSet, Writing,
             WriteMeta, WriterOnly, Become
    <2>1. SUFFICES ASSUME recover.at \in Claimed, writer.id = recover.id
                  PROVE  kept' = Gap
      BY <2>a DEF IInv, ClaimParts, Claimed, Busy
    <2>2. kept = Gap
      BY <2>1, <2>a DEF IInv, ClaimParts, Busy
    <2>3. recover.id \in Ids /\ recover.doc \in Docs
      BY <2>1 DEF IInv, Shape, RecoverOK, Claimed
    <2>4. files[recover.id].blobs = None \/ files[recover.id].state_claim # None
      BY <2>1, <2>3, <2>a, JournalAssumption
         DEF JournalAssumption, IInv, ClaimParts, Claimed, BlobsAway, BlobsClaimed
    <2>5. files'[recover.id].blobs = None \/ files'[recover.id].state_claim # None
      BY <2>1, <2>3, <2>4 DEF WriteMeta, IInv, Shape, FilesOK, FileSet
    <2>6. Owed(files'[writer.id]) = Gap
      BY <2>1, <2>2, <2>5, NotWhole DEF Owed
    <2> QED  BY <2>2, <2>6 DEF WriteMeta
  <1>3. Keeps'
    <2>1. SUFFICES ASSUME kept' \notin {None, Gap}
                  PROVE  \E i \in Ids : GivesBack(files'[i], kept') /\ Untouched(i)'
      BY DEF Keeps
    <2>2. writer.id \in Ids /\ writer.doc \in Docs /\ writer.at \in Writing /\ UNCHANGED recover
      BY DEF IInv, Shape, WriterOK, Writing, WriteMeta, WriterOnly
    <2>3. SameBut(files[writer.id], files'[writer.id], "meta") /\ files'[writer.id].meta # None
      BY <2>2, JournalAssumption
         DEF JournalAssumption, IInv, Shape, FilesOK, FileSet, SameBut, WriteMeta
    <2>4. kept' = writer.doc /\ kept' = Owed(files'[writer.id])
      BY <2>1 DEF WriteMeta, Owed
    <2>5. CASE kept = Gap
      <3>1. GivesBack(files'[writer.id], writer.doc)
        BY <2>1, <2>4, <2>5 DEF Owed
      <3>2. recover.id = writer.id => recover.at \notin Claimed
        <4>1. SUFFICES ASSUME recover.id = writer.id, recover.at \in Claimed
                       PROVE  kept' = Gap
          BY <2>1
        <4> QED  BY <1>2, <4>1, <2>2 DEF ClaimParts, Busy, WriteMeta, WriterOnly, Become,
               Writing, IInv, Shape, WriterOK, WriterSet
      <3> QED  BY <2>2, <2>4, <3>1, <3>2, UnclaimedUntouched
    <2>6. CASE kept # Gap
      <3>1. ~Released
        BY <2>1, <2>6 DEF WriteMeta, Released, Dirty
      <3>2. /\ files[writer.id].state = writer.doc /\ files[writer.id].blobs # None
            /\ BlobsOf[writer.doc] \subseteq files[writer.id].blobs
        BY <2>2, <3>1 DEF IInv, Written, ImagesThere, WriteMeta
      <3>3. GivesBack(files'[writer.id], writer.doc)
        BY <2>2, <2>3, <3>2, Whole DEF SameBut
      <3> QED  BY <2>2, <2>4, <2>6, <3>3, NotClaimed, UnclaimedUntouched
    <2> QED  BY <2>5, <2>6
  <1>4. Written'
    BY DEF IInv, Written, Released, ImagesThere, Open, Writing, InFlight, WriteMeta,
           WriterOnly, Become, Owed, sessionVars, runtimeVars
  <1> QED  BY <1>1, <1>2, <1>3, <1>4

LEMMA NoteFlushedKeeps ==
  ASSUME IInv, Shape', NoteFlushed
  PROVE  ClaimsHeld' /\ ClaimParts' /\ Keeps' /\ Written'
  <1>1. ClaimsHeld' /\ Keeps'
    BY DEF IInv, ClaimsHeld, Keeps, Untouched, NoteFlushed, WriterOnly, sessionVars
  <1>2. ClaimParts'
    BY DEF IInv, ClaimParts, Busy, Claimed, BlobsAway, BlobsClaimed, Writing, InFlight,
           NoteFlushed, WriterOnly, Finish, IdleWriter, NoDiscard, sessionVars
  <1>3. Written'
    BY DEF IInv, Written, Released, ImagesThere, Open, Writing, InFlight, NoteFlushed,
           WriterOnly, Finish, IdleWriter, NoDiscard, sessionVars
  <1> QED  BY <1>1, <1>2, <1>3

LEMMA RawArrivesKeeps ==
  ASSUME IInv, Shape', RawArrives
  PROVE  ClaimsHeld' /\ ClaimParts' /\ Keeps' /\ Written'
  <1>1. ClaimsHeld' /\ ClaimParts' /\ Keeps' /\ Written'
    BY DEF IInv, ClaimsHeld, ClaimParts, Busy, Keeps, Untouched, Written, Released,
           ImagesThere, Open, RawArrives, sessionVars, runtimeVars
  <1> QED  BY <1>1

LEMMA BeginSaveKeeps ==
  ASSUME IInv, Shape', BeginSave
  PROVE  ClaimsHeld' /\ ClaimParts' /\ Keeps' /\ Written'
  <1>1. ClaimsHeld' /\ ClaimParts' /\ Keeps' /\ Written'
    BY DEF IInv, ClaimsHeld, ClaimParts, Busy, Keeps, Untouched, Written, Released,
           ImagesThere, Open, BeginSave, sessionVars, runtimeVars
  <1> QED  BY <1>1

LEMMA WriteProjectKeeps ==
  ASSUME IInv, Shape', WriteProject
  PROVE  ClaimsHeld' /\ ClaimParts' /\ Keeps' /\ Written'
  <1>1. ClaimsHeld' /\ ClaimParts' /\ Keeps' /\ Written'
    BY DEF IInv, ClaimsHeld, ClaimParts, Busy, Keeps, Untouched, Written, Released,
           ImagesThere, Open, WriteProject, runtimeVars
  <1> QED  BY <1>1

LEMMA MarkCleanKeeps ==
  ASSUME IInv, Shape', MarkClean
  PROVE  ClaimsHeld' /\ ClaimParts' /\ Keeps' /\ Written'
  <1>1. ClaimsHeld'
    BY DEF IInv, ClaimsHeld, MarkClean, runtimeVars
  <1>2. ClaimParts'
    BY DEF IInv, ClaimParts, Busy, Claimed, BlobsAway, BlobsClaimed, Writing, InFlight,
           MarkClean, Call, runtimeVars
  <1>3. Keeps'
    BY DEF IInv, Keeps, Untouched, StateClaimed, Finalizing, GivesBack, Restored,
           MarkClean, Call, runtimeVars
  <1>4. Written'
    BY DEF IInv, Written, Released, ImagesThere, Open, Writing, InFlight, MarkClean, Call,
           runtimeVars
  <1> QED  BY <1>1, <1>2, <1>3, <1>4

LEMMA StartDiscardKeeps ==
  ASSUME IInv, Shape', StartDiscard
  PROVE  ClaimsHeld' /\ ClaimParts' /\ Keeps' /\ Written'
  <1>1. ClaimsHeld' /\ ClaimParts' /\ Keeps' /\ Written'
    BY DEF IInv, ClaimsHeld, ClaimParts, Busy, Keeps, Untouched, Written, Released,
           ImagesThere, Open, StartDiscard, DiscardOnly, runtimeVars
  <1> QED  BY <1>1

LEMMA ReuseJournalKeeps ==
  ASSUME IInv, Shape', ReuseJournal
  PROVE  ClaimsHeld' /\ ClaimParts' /\ Keeps' /\ Written'
  <1>1. ClaimsHeld' /\ ClaimParts' /\ Keeps' /\ Written'
    BY DEF IInv, ClaimsHeld, ClaimParts, Busy, Keeps, Untouched, Written, Released,
           ImagesThere, Open, ReuseJournal, DiscardOnly, runtimeVars
  <1> QED  BY <1>1

LEMMA MarkDiscardedKeeps ==
  ASSUME IInv, Shape', MarkDiscarded
  PROVE  ClaimsHeld' /\ ClaimParts' /\ Keeps' /\ Written'
  <1>1. ClaimsHeld'
    BY MarkDiscardedFiles DEF IInv, ClaimsHeld, SameBut, MarkDiscarded, DiscardOnly
  <1>2. ClaimParts'
    BY DEF IInv, Shape, ClaimParts, Scanning, DiscardOK, RecoverOK, MarkDiscarded, NoDiscard
  <1>3. Keeps'
    <2>1. kept' \in {kept, Gap} /\ UNCHANGED recover
      BY DEF MarkDiscarded, GapIf, DiscardOnly
    <2>2. SUFFICES ASSUME kept \notin {None, Gap}
                  PROVE  \E i \in Ids : GivesBack(files'[i], kept) /\ Untouched(i)'
      BY <2>1 DEF Keeps
    <2>3. PICK i \in Ids : GivesBack(files[i], kept) /\ Untouched(i)
      BY <2>2 DEF IInv, Keeps
    <2>4. SameBut(files[i], files'[i], "meta") /\ (files'[i].meta = None <=> files[i].meta = None)
      BY MarkDiscardedFiles DEF IInv
    <2>5. GivesBack(files'[i], kept)
      BY <2>3, <2>4 DEF GivesBack, Restored, SameBut
    <2>6. Untouched(i)'
      BY <2>1, <2>3, <2>4, StillUntouched DEF SameBut
    <2> QED  BY <2>5, <2>6
  <1>4. Written'
    <2>1. kept' \in {kept, Gap} /\ UNCHANGED <<writer, mode, sid>>
      BY DEF MarkDiscarded, GapIf, DiscardOnly
    <2>2. writer.id \in Ids => SameBut(files[writer.id], files'[writer.id], "meta")
      BY MarkDiscardedFiles DEF IInv
    <2>3. writer.at \in Writing => writer.id \in Ids
      BY DEF IInv, Shape, WriterOK, Writing
    <2> QED  BY <2>1, <2>2, <2>3 DEF IInv, Written, Released, Open, ImagesThere, SameBut
  <1> QED  BY <1>1, <1>2, <1>3, <1>4

LEMMA CloseTabKeeps ==
  ASSUME IInv, Shape', CloseTab
  PROVE  ClaimsHeld' /\ ClaimParts' /\ Keeps' /\ Written'
  <1>1. ClaimParts' /\ Keeps'
    BY DEF IInv, ClaimParts, Busy, Keeps, Untouched, CloseTab, DiscardOnly, runtimeVars
  <1>2. ClaimsHeld'
    BY DEF IInv, Shape, ClaimsHeld, DiscardOK, CloseTab, DiscardOnly, NoDiscard
  <1>3. Written'
    BY DEF IInv, Written, Released, ImagesThere, Open, Writing, InFlight, CloseTab,
           DiscardOnly, NoDocument, NoDiscard, runtimeVars
  <1> QED  BY <1>1, <1>2, <1>3

LEMMA StartRecoverKeeps ==
  ASSUME IInv, Shape', StartRecover
  PROVE  ClaimsHeld' /\ ClaimParts' /\ Keeps' /\ Written'
  <1>1. Written'
    BY DEF IInv, Written, Released, ImagesThere, Open, StartRecover, RecoverOnly,
           runtimeVars
  <1>2. ClaimsHeld'
    BY DEF IInv, ClaimsHeld, StateClaimed, BlobsClaimed, StartRecover, RecoverOnly,
           runtimeVars
  <1>3. ClaimParts'
    BY DEF IInv, ClaimParts, Busy, Claimed, BlobsAway, BlobsClaimed, Writing, InFlight,
           StartRecover, RecoverOnly, runtimeVars
  <1>4. Keeps'
    BY DEF IInv, Keeps, Untouched, StateClaimed, Finalizing, GivesBack, Restored,
           StartRecover, RecoverOnly, runtimeVars
  <1> QED  BY <1>1, <1>2, <1>3, <1>4

LEMMA ClaimStateKeeps ==
  ASSUME IInv, Shape', ClaimState
  PROVE  ClaimsHeld' /\ ClaimParts' /\ Keeps' /\ Written'
  <1>1. ClaimsHeld'
    <2>1. CASE files[recover.id].state = None
      BY <2>1 DEF ClaimState, RecoverOnly, NoRecover, IInv, ClaimsHeld, StateClaimed,
             BlobsClaimed
    <2>2. CASE files[recover.id].state # None
      <3>1. recover.at = "claim" /\ recover'.at = "claim_blobs" /\ recover'.id = recover.id /\ recover.id \in Ids
        BY <2>2 DEF ClaimState, IInv, Shape, RecoverOK, RecoverSet
      <3>2. /\ \A j \in Ids : files'[j].blobs_claim = files[j].blobs_claim
            /\ \A j \in Ids : j # recover.id => files'[j] = files[j]
        BY <2>2, <3>1 DEF ClaimState, IInv, Shape, FilesOK, FileSet
      <3> QED  BY <3>1, <3>2 DEF ClaimState, IInv, ClaimsHeld, StateClaimed, BlobsClaimed
    <2> QED  BY <2>1, <2>2
  <1>2. ClaimParts'
    <2>1. CASE files[recover.id].state = None
      BY <2>1 DEF ClaimState, NoRecover, ClaimParts, Claimed
    <2>2. CASE files[recover.id].state # None
      <3>1. /\ recover'.at = "claim_blobs" /\ recover'.id = recover.id
            /\ recover'.doc = files[recover.id].state /\ UNCHANGED writer
        BY <2>2 DEF ClaimState, RecoverOnly, IInv, Shape, RecoverOK, RecoverSet
      <3>2. files'[recover.id].state_claim = files[recover.id].state
        BY <2>2 DEF ClaimState, IInv, Shape, RecoverOK, FilesOK, FileSet
      <3>3. Busy(recover.id) => kept' = Gap
        BY DEF ClaimState, GapIf, InFlight, Busy, Writing
      <3> QED  BY <3>1, <3>2, <3>3 DEF ClaimParts, BlobsAway, BlobsClaimed, Busy
    <2> QED  BY <2>1, <2>2
  <1>3. Keeps'
    <2>1. kept' \in {kept, Gap}
      BY DEF ClaimState, GapIf
    <2>2. SUFFICES ASSUME kept \notin {None, Gap}
                  PROVE  \E i \in Ids : GivesBack(files'[i], kept) /\ Untouched(i)'
      BY <2>1 DEF Keeps
    <2>3. PICK i \in Ids : GivesBack(files[i], kept) /\ Untouched(i)
      BY <2>2 DEF IInv, Keeps
    <2>4. recover.id \in Ids /\ mode = "scan"
      BY DEF IInv, Shape, RecoverOK, Scanning, Claimed, ClaimState
    <2>5. CASE files[recover.id].state = None
      BY <2>3, <2>5 DEF ClaimState, NoRecover, Untouched, StateClaimed, Finalizing
    <2>6. CASE files[recover.id].state # None
      <3>1. recover'.at = "claim_blobs" /\ recover'.id = recover.id /\ recover'.doc = files[recover.id].state
        BY <2>6 DEF ClaimState, IInv, Shape, RecoverOK, RecoverSet
      <3>2. /\ \A j \in Ids : j # recover.id => files'[j] = files[j]
            /\ files'[recover.id].state = None /\ files'[recover.id].state_claim = files[recover.id].state
            /\ files'[recover.id].meta = files[recover.id].meta
            /\ files'[recover.id].blobs = files[recover.id].blobs
            /\ files'[recover.id].blobs_claim = files[recover.id].blobs_claim
        BY <2>4, <2>6 DEF ClaimState, IInv, Shape, FilesOK, FileSet
      <3>3. GivesBack(files'[i], kept)
        BY <2>3, <2>6, <3>2 DEF GivesBack, Restored
      <3>4. Untouched(i)'
        BY <3>1, <3>2 DEF Untouched, Finalizing
      <3> QED  BY <3>3, <3>4
    <2> QED  BY <2>5, <2>6
  <1>4. Written'
    BY DEF IInv, Shape, Written, Released, ImagesThere, Open, FilesOK, FileSet, RecoverOK,
           ClaimState, RecoverOnly, GapIf
  <1> QED  BY <1>1, <1>2, <1>3, <1>4

LEMMA ClaimBlobsKeeps ==
  ASSUME IInv, Shape', ClaimBlobs
  PROVE  ClaimsHeld' /\ ClaimParts' /\ Keeps' /\ Written'
  <1>1. ClaimsHeld'
    BY DEF IInv, Shape, ClaimsHeld, StateClaimed, BlobsClaimed, FilesOK, ClaimBlobs, Goto
  <1>2. ClaimParts'
    BY DEF Shape, ClaimParts, Busy, Writing, InFlight, FilesOK, ClaimBlobs, RecoverOnly,
           Goto, GapIf
  <1>3. Keeps'
    <2>1. kept' \in {kept, Gap}
      BY DEF ClaimBlobs, GapIf
    <2>2. SUFFICES ASSUME kept \notin {None, Gap}
                  PROVE  \E i \in Ids : GivesBack(files'[i], kept) /\ Untouched(i)'
      BY <2>1 DEF Keeps
    <2>3. PICK i \in Ids : GivesBack(files[i], kept) /\ Untouched(i)
      BY <2>2 DEF IInv, Keeps
    <2>4. recover.id \in Ids /\ mode = "scan"
      BY DEF IInv, Shape, RecoverOK, Scanning, Claimed, ClaimBlobs
    <2>5. recover'.at = "assemble" /\ recover'.id = recover.id /\ recover'.doc = recover.doc
      BY DEF ClaimBlobs, Goto, IInv, Shape, RecoverOK, RecoverSet
    <2>6. files[recover.id].blobs_claim = None
      BY <2>4 DEF ClaimBlobs, IInv, ClaimsHeld, BlobsClaimed
    <2>7. /\ \A j \in Ids : j # recover.id => files'[j] = files[j]
          /\ files'[recover.id].state = files[recover.id].state
          /\ files'[recover.id].state_claim = files[recover.id].state_claim
          /\ files'[recover.id].meta = files[recover.id].meta
          /\ files'[recover.id].blobs = None
          /\ files'[recover.id].blobs_claim = files[recover.id].blobs
      BY <2>4 DEF ClaimBlobs, IInv, Shape, FilesOK, FileSet
    <2>8. GivesBack(files'[i], kept)
      BY <2>3, <2>6, <2>7 DEF GivesBack, Restored
    <2>9. Untouched(i)'
      BY <2>3, <2>5, <2>7 DEF Untouched, StateClaimed, Finalizing, ClaimBlobs
    <2> QED  BY <2>8, <2>9
  <1>4. Written'
    BY DEF IInv, Shape, Written, Writing, Released, ImagesThere, Open, FilesOK, FileSet,
           WriterOK, ClaimBlobs, RecoverOnly, GapIf
  <1> QED  BY <1>1, <1>2, <1>3, <1>4

LEMMA AssembleKeeps ==
  ASSUME IInv, Shape', Assemble
  PROVE  ClaimsHeld' /\ ClaimParts' /\ Keeps' /\ Written'
  <1>1. Written'
    BY DEF IInv, Written, Released, ImagesThere, Open, Assemble, RecoverOnly, runtimeVars
  <1>2. ClaimsHeld'
    <2>1. /\ recover'.at \in {"finalize", "restore"} /\ recover'.id = recover.id
          /\ recover'.doc = recover.doc /\ recover.at = "assemble"
      BY DEF Assemble, Goto, IInv, Shape, RecoverOK, RecoverSet
    <2>2. UNCHANGED <<mode, files, kept, writer>>
      BY DEF Assemble, RecoverOnly
    <2> QED  BY <2>1, <2>2 DEF IInv, ClaimsHeld, StateClaimed, BlobsClaimed
  <1>3. ClaimParts'
    <2>1. /\ recover'.at \in {"finalize", "restore"} /\ recover'.id = recover.id
          /\ recover'.doc = recover.doc /\ recover.at = "assemble"
      BY DEF Assemble, Goto, IInv, Shape, RecoverOK, RecoverSet
    <2>2. UNCHANGED <<mode, files, kept, writer>>
      BY DEF Assemble, RecoverOnly
    <2> QED  BY <2>1, <2>2 DEF IInv, ClaimParts, Claimed, BlobsAway, BlobsClaimed, Busy
  <1>4. Keeps'
    <2>1. /\ recover'.at \in {"finalize", "restore"} /\ recover'.id = recover.id
          /\ recover'.doc = recover.doc /\ recover.at = "assemble"
      BY DEF Assemble, Goto, IInv, Shape, RecoverOK, RecoverSet
    <2>2. UNCHANGED <<mode, files, kept, writer>>
      BY DEF Assemble, RecoverOnly
    <2> QED  BY <2>1, <2>2 DEF IInv, Keeps, Untouched, StateClaimed, Finalizing
  <1> QED  BY <1>1, <1>2, <1>3, <1>4

LEMMA RestoreStateKeeps ==
  ASSUME IInv, Shape', RestoreState
  PROVE  ClaimsHeld' /\ ClaimParts' /\ Keeps' /\ Written'
  <1>1. ClaimsHeld'
    BY DEF IInv, Shape, ClaimsHeld, BlobsClaimed, FilesOK, RestoreState, Goto
  <1>2. ClaimParts'
    BY DEF IInv, Shape, ClaimParts, Claimed, BlobsClaimed, BlobsAway, Busy, FilesOK,
           RestoreState, RecoverOnly, Goto
  <1>3. Keeps'
    BY DEF IInv, Shape, Keeps, Untouched, StateClaimed, Finalizing, FilesOK, FileSet,
           RestoreState, Goto
  <1>4. Written'
    BY DEF IInv, Shape, Written, Writing, Released, ImagesThere, Open, Busy, Claimed,
           ClaimParts, FilesOK, WriterOK, RestoreState, RecoverOnly
  <1> QED  BY <1>1, <1>2, <1>3, <1>4

LEMMA RestoreBlobsKeeps ==
  ASSUME IInv, Shape', RestoreBlobs
  PROVE  ClaimsHeld' /\ ClaimParts' /\ Keeps' /\ Written'
  <1>1. ClaimsHeld'
    BY DEF IInv, Shape, ClaimsHeld, StateClaimed, FilesOK, RestoreBlobs
  <1>2. ClaimParts'
    BY DEF IInv, ClaimParts, Busy, Claimed, BlobsAway, BlobsClaimed, Writing, InFlight,
           RestoreBlobs, RecoverOnly, NoRecover, runtimeVars
  <1>3. Keeps'
    <2>1. SUFFICES ASSUME kept \notin {None, Gap}
                  PROVE  \E i \in Ids : GivesBack(files'[i], kept) /\ Untouched(i)'
      BY DEF Keeps, RestoreBlobs
    <2>2. PICK i \in Ids : GivesBack(files[i], kept)
      BY <2>1 DEF IInv, Keeps
    <2>3. recover.id \in Ids /\ files[recover.id].blobs = None
      BY DEF IInv, Shape, RecoverOK, ClaimParts, Claimed, BlobsAway, BlobsClaimed, RestoreBlobs
    <2>4. /\ \A j \in Ids : j # recover.id => files'[j] = files[j]
          /\ files'[recover.id].state = files[recover.id].state
          /\ files'[recover.id].state_claim = files[recover.id].state_claim
          /\ files'[recover.id].meta = files[recover.id].meta
          /\ files'[recover.id].blobs = files[recover.id].blobs_claim
          /\ files'[recover.id].blobs_claim = None
      BY <2>3 DEF RestoreBlobs, IInv, Shape, FilesOK, FileSet
    <2>5. GivesBack(files'[i], kept)
      BY <2>2, <2>3, <2>4 DEF GivesBack, Restored
    <2> QED  BY <2>5 DEF Untouched, RestoreBlobs, NoRecover, StateClaimed, Finalizing
  <1>4. Written'
    BY DEF IInv, Shape, Written, Writing, Released, ImagesThere, Open, Busy, Claimed,
           ClaimParts, FilesOK, WriterOK, RestoreBlobs, RecoverOnly
  <1> QED  BY <1>1, <1>2, <1>3, <1>4

LEMMA FinalizeStateKeeps ==
  ASSUME IInv, Shape', FinalizeState
  PROVE  ClaimsHeld' /\ ClaimParts' /\ Keeps' /\ Written'
  <1>1. ClaimsHeld'
    BY DEF IInv, Shape, ClaimsHeld, BlobsClaimed, FilesOK, FinalizeState, Goto
  <1>2. ClaimParts'
    BY DEF IInv, ClaimParts, Busy, Claimed, BlobsAway, BlobsClaimed, Writing, InFlight,
           FinalizeState, RecoverOnly, Goto, runtimeVars
  <1>3. Keeps'
    BY DEF IInv, Keeps, Untouched, StateClaimed, Finalizing, GivesBack, Restored,
           FinalizeState, RecoverOnly, Goto, runtimeVars
  <1>4. Written'
    BY DEF IInv, Written, Released, ImagesThere, Open, Writing, InFlight, FinalizeState,
           RecoverOnly, Goto, runtimeVars
  <1> QED  BY <1>1, <1>2, <1>3, <1>4

LEMMA FinalizeBlobsKeeps ==
  ASSUME IInv, Shape', FinalizeBlobs
  PROVE  ClaimsHeld' /\ ClaimParts' /\ Keeps' /\ Written'
  <1>1. ClaimsHeld'
    BY DEF IInv, Shape, ClaimsHeld, StateClaimed, FilesOK, FinalizeBlobs
  <1>2. ClaimParts'
    BY DEF IInv, ClaimParts, Busy, Claimed, BlobsAway, BlobsClaimed, Writing, InFlight,
           FinalizeBlobs, RecoverOnly, Goto, runtimeVars
  <1>3. Keeps'
    BY DEF IInv, Keeps, Untouched, StateClaimed, Finalizing, GivesBack, Restored,
           FinalizeBlobs, RecoverOnly, Goto, runtimeVars
  <1>4. Written'
    BY DEF IInv, Written, Released, ImagesThere, Open, Writing, InFlight, FinalizeBlobs,
           RecoverOnly, Goto, runtimeVars
  <1> QED  BY <1>1, <1>2, <1>3, <1>4

LEMMA FinalizeMetaKeeps ==
  ASSUME IInv, Shape', FinalizeMeta
  PROVE  ClaimsHeld' /\ ClaimParts' /\ Keeps' /\ Written'
  <1>1. ClaimsHeld'
    BY DEF IInv, ClaimsHeld, StateClaimed, BlobsClaimed, FinalizeMeta, RecoverOnly, Goto,
           runtimeVars
  <1>2. ClaimParts'
    BY DEF IInv, ClaimParts, Busy, Claimed, BlobsAway, BlobsClaimed, Writing, InFlight,
           FinalizeMeta, RecoverOnly, Goto, runtimeVars
  <1>3. Keeps'
    BY DEF IInv, Keeps, Untouched, StateClaimed, Finalizing, GivesBack, Restored,
           FinalizeMeta, RecoverOnly, Goto, runtimeVars
  <1>4. Written'
    BY DEF IInv, Written, Released, ImagesThere, Open, Writing, InFlight, FinalizeMeta,
           RecoverOnly, Goto, runtimeVars
  <1> QED  BY <1>1, <1>2, <1>3, <1>4

LEMMA SpawnSessionKeeps ==
  ASSUME IInv, Shape', SpawnSession
  PROVE  ClaimsHeld' /\ ClaimParts' /\ Keeps' /\ Written'
  <1>1. ClaimsHeld'
    BY DEF IInv, Shape, ClaimsHeld, StateClaimed, BlobsClaimed, RecoverOK, SpawnSession
  <1>2. ClaimParts'
    BY DEF IInv, ClaimParts, Busy, Claimed, BlobsAway, BlobsClaimed, Writing, InFlight,
           SpawnSession, RecoverOnly, Goto, runtimeVars
  <1>3. Keeps'
    BY DEF IInv, Keeps, Untouched, StateClaimed, Finalizing, GivesBack, Restored,
           SpawnSession, RecoverOnly, Goto, runtimeVars
  <1>4. Written'
    <2>1. mode = "scan" /\ writer.id # sid' /\ UNCHANGED <<files, writer, kept>>
      BY DEF IInv, Shape, SessionOK, Ids, WriterOK, WriterSet, RecoverOK, Scanning,
             SpawnSession, RecoverOnly
    <2> QED  BY <2>1 DEF IInv, Written, Released, ImagesThere, Open
  <1> QED  BY <1>1, <1>2, <1>3, <1>4

LEMMA ClearHistoryKeeps ==
  ASSUME IInv, Shape', ClearHistory
  PROVE  ClaimsHeld' /\ ClaimParts' /\ Keeps' /\ Written'
  <1>1. Written'
    BY DEF IInv, Written, Released, ImagesThere, Open, ClearHistory, RecoverOnly,
           runtimeVars
  <1>2. ClaimsHeld'
    BY DEF IInv, ClaimsHeld, StateClaimed, BlobsClaimed, ClearHistory, RecoverOnly, Goto,
           Call, runtimeVars
  <1>3. ClaimParts'
    BY DEF IInv, ClaimParts, Busy, Claimed, BlobsAway, BlobsClaimed, Writing, InFlight,
           ClearHistory, RecoverOnly, Goto, Call, runtimeVars
  <1>4. Keeps'
    BY DEF IInv, Keeps, Untouched, StateClaimed, Finalizing, GivesBack, Restored,
           ClearHistory, RecoverOnly, Goto, Call, runtimeVars
  <1> QED  BY <1>1, <1>2, <1>3, <1>4

LEMMA MarkUnsavedKeeps ==
  ASSUME IInv, Shape', MarkUnsaved
  PROVE  ClaimsHeld' /\ ClaimParts' /\ Keeps' /\ Written'
  <1>1. Written'
    BY DEF IInv, Written, Released, ImagesThere, Open, MarkUnsaved, RecoverOnly, runtimeVars
  <1>2. ClaimsHeld'
    BY DEF IInv, ClaimsHeld, StateClaimed, BlobsClaimed, MarkUnsaved, RecoverOnly, Goto, Call,
           NoRecover, runtimeVars
  <1>3. ClaimParts'
    BY DEF IInv, ClaimParts, Busy, Claimed, BlobsAway, BlobsClaimed, Writing, InFlight,
           MarkUnsaved, RecoverOnly, Goto, Call, runtimeVars
  <1>4. Keeps'
    BY DEF IInv, Keeps, Untouched, StateClaimed, Finalizing, GivesBack, Restored,
           MarkUnsaved, RecoverOnly, Goto, Call, runtimeVars
  <1> QED  BY <1>1, <1>2, <1>3, <1>4

LEMMA ListSiblingsKeeps ==
  ASSUME IInv, Shape', ListSiblings
  PROVE  ClaimsHeld' /\ ClaimParts' /\ Keeps' /\ Written'
  <1>1. /\ recover'.at \in {"none", "siblings"} /\ recover.at \in {"purge", "siblings"}
        /\ UNCHANGED <<mode, sid, files, kept, writer>>
    BY DEF IInv, Shape, RecoverOK, RecoverSet, ListSiblings, NoRecover, RecoverOnly
  <1>2. ClaimsHeld' /\ ClaimParts' /\ Keeps'
    BY <1>1 DEF IInv, ClaimsHeld, ClaimParts, Claimed, StateClaimed, BlobsClaimed, Keeps,
           Untouched, Finalizing
  <1>3. Written'
    BY <1>1 DEF IInv, Written, Released, ImagesThere, Open
  <1> QED  BY <1>2, <1>3

LEMMA PurgeSiblingKeeps ==
  ASSUME IInv, Shape', PurgeSibling
  PROVE  ClaimsHeld' /\ ClaimParts' /\ Keeps' /\ Written'
  <1>1. /\ recover'.at \in {"none", "siblings"} /\ recover.at \in {"purge", "siblings"}
        /\ UNCHANGED <<mode, sid, files, kept, writer>>
    BY DEF IInv, Shape, RecoverOK, RecoverSet, PurgeSibling, NoRecover, RecoverOnly
  <1>2. ClaimsHeld' /\ ClaimParts' /\ Keeps'
    BY <1>1 DEF IInv, ClaimsHeld, ClaimParts, Claimed, StateClaimed, BlobsClaimed, Keeps,
           Untouched, Finalizing
  <1>3. Written'
    BY <1>1 DEF IInv, Written, Released, ImagesThere, Open
  <1> QED  BY <1>2, <1>3

LEMMA DiscardJournalsKeeps ==
  ASSUME IInv, Shape', DiscardJournals
  PROVE  ClaimsHeld' /\ ClaimParts' /\ Keeps' /\ Written'
  <1>1. ClaimsHeld'
    BY DEF IInv, ClaimsHeld, DiscardJournals, RecoverOnly, runtimeVars
  <1>2. ClaimParts'
    BY DEF IInv, ClaimParts, Busy, Claimed, BlobsAway, BlobsClaimed, Writing, InFlight,
           DiscardJournals, RecoverOnly, Call, runtimeVars
  <1>3. Keeps'
    BY DEF IInv, Keeps, Untouched, StateClaimed, Finalizing, GivesBack, Restored,
           DiscardJournals, RecoverOnly, Call, runtimeVars
  <1>4. Written'
    BY DEF IInv, Written, Released, ImagesThere, Open, Writing, InFlight, DiscardJournals,
           RecoverOnly, Call, runtimeVars
  <1> QED  BY <1>1, <1>2, <1>3, <1>4

LEMMA CrashKeeps ==
  ASSUME IInv, Shape', Crash
  PROVE  ClaimsHeld' /\ ClaimParts' /\ Keeps' /\ Written'
  <1>1. ClaimsHeld'
    BY DEF IInv, ClaimsHeld, StateClaimed, BlobsClaimed, Crash, Command, NoDocument,
           IdleWriter, Idle, NoDiscard, NoRecover
  <1>2. ClaimParts'
    BY DEF IInv, ClaimParts, Busy, Claimed, BlobsAway, BlobsClaimed, Writing, InFlight,
           Crash, Command, NoDocument, IdleWriter, Idle, NoDiscard, NoRecover
  <1>3. Keeps'
    BY DEF IInv, Keeps, Untouched, StateClaimed, Finalizing, GivesBack, Restored, Crash,
           Command, NoDocument, IdleWriter, Idle, NoDiscard, NoRecover
  <1>4. Written'
    BY DEF IInv, Written, Released, ImagesThere, Open, Writing, InFlight, Crash, Command,
           NoDocument, IdleWriter, Idle, NoDiscard, NoRecover
  <1> QED  BY <1>1, <1>2, <1>3, <1>4

LEMMA RestartKeeps ==
  ASSUME IInv, Shape', Restart
  PROVE  ClaimsHeld' /\ ClaimParts' /\ Keeps' /\ Written'
  <1>1. ClaimsHeld'
    BY DEF Restart, ClaimsHeld, Restored
  <1>2. ClaimParts'
    BY DEF IInv, Shape, ClaimParts, Claimed, RecoverOK, Restart
  <1>3. Keeps'
    BY DEF IInv, Shape, Keeps, Untouched, StateClaimed, GivesBack, Restored, RecoverOK,
           Restart
  <1>4. Written'
    BY DEF IInv, Shape, Written, Writing, WriterOK, Restart
  <1> QED  BY <1>1, <1>2, <1>3, <1>4

-----------------------------------------------------------------------------
(***************************************************************************)
(* The theorems.                                                           *)
(***************************************************************************)
LEMMA InitIInv == Init => IInv
  <1> SUFFICES ASSUME Init PROVE IInv
    OBVIOUS
  <1>1. /\ mode \in {"open", "down"} /\ sid = 1 /\ 1 \in Ids
        /\ writer.at = "idle" /\ writer.id = 0 /\ ~writer.reply /\ writer \in WriterSet
        /\ discard = NoDiscard /\ recover = NoRecover /\ recover.at = "none"
    <2>1. sid = 1 /\ writer = IdleWriter /\ discard = NoDiscard /\ recover = NoRecover
      BY DEF Init
    <2>2. mode \in {"open", "down"}
      BY DEF Init, FileOpened, Crashed
    <2>3. 1 \in Ids
      BY JournalAssumption DEF JournalAssumption, Ids
    <2> QED  BY <2>1, <2>2, <2>3, IdleWriterTyped DEF IdleWriter, NoRecover
  <1>2. NoFiles \in FileSet
    BY Nothing DEF NoFiles, FileSet
  <1>3. ASSUME NEW d \in Docs
        PROVE  [NoFiles EXCEPT !.state = d, !.meta = "live", !.blobs = BlobsOf[d]] \in FileSet
    <2>1. BlobsOf[d] \in MaybeBlobs /\ d \in MaybeDoc
      BY JournalAssumption DEF JournalAssumption, MaybeBlobs, MaybeDoc
    <2> QED  BY <2>1, Nothing DEF NoFiles, FileSet
  <1>4. FilesOK
    <2>1. CASE FileOpened
      BY <1>2, <2>1 DEF FileOpened, FilesOK
    <2>2. CASE \E d \in Docs : Crashed(d)
      BY <1>2, <1>3, <2>2 DEF Crashed, FilesOK
    <2> QED  BY <2>1, <2>2 DEF Init
  <1>5. SessionOK
    BY <1>1, JournalAssumption DEF JournalAssumption, Init, SessionOK
  <1>6. RuntimeOK
    BY Nothing DEF Init, RuntimeOK
  <1>7. RestOK
    <2>1. 0 \in 0..MaxEdits /\ 1 \in 0..MaxEdits
      BY JournalAssumption DEF JournalAssumption
    <2>2. CASE FileOpened
      BY <2>1, <2>2, Nothing DEF Init, FileOpened, RestOK
    <2>3. CASE \E d \in Docs : Crashed(d)
      BY <2>1, <2>3 DEF Init, Crashed, RestOK, MaybeDoc
    <2> QED  BY <2>2, <2>3 DEF Init
  <1>8. CallerOK
    BY Nothing DEF Init, CallerOK, CallerSet, Idle, Callers, Ids
  <1>9. WriterOK
    BY <1>1 DEF WriterOK, Writing
  <1>10. DiscardOK
    BY <1>1, Nothing DEF DiscardOK, DiscardSet, NoDiscard
  <1>11. RecoverOK
    BY <1>1, Nothing DEF RecoverOK, RecoverSet, NoRecover, Scanning, Claimed
  <1>12. ClaimsHeld
    <2>1. mode # "down" => files = [i \in Ids |-> NoFiles]
      BY DEF Init, FileOpened, Crashed
    <2> QED  BY <2>1 DEF ClaimsHeld, NoFiles
  <1>13. ClaimParts /\ Written
    BY <1>1 DEF ClaimParts, Written, Claimed, Writing
  <1>14. Keeps
    <2>1. CASE FileOpened
      BY <2>1 DEF FileOpened, Keeps
    <2>2. CASE \E d \in Docs : Crashed(d)
      <3>1. PICK d \in Docs : Crashed(d)
        BY <2>2
      <3>2. /\ files[1].state = d /\ files[1].meta = "live"
            /\ files[1].blobs = BlobsOf[d] /\ kept = d
        BY <1>1, <3>1 DEF Crashed, NoFiles
      <3>3. "live" # None /\ BlobsOf[d] # None
        BY JournalAssumption DEF JournalAssumption
      <3>4. GivesBack(files[1], d)
        BY <3>2, <3>3, Whole
      <3>5. Untouched(1)
        BY <1>1 DEF Untouched, StateClaimed, Finalizing
      <3> QED  BY <1>1, <3>2, <3>4, <3>5 DEF Keeps
    <2> QED  BY <2>1, <2>2 DEF Init
  <1>15. Deleters
    BY <1>1 DEF Deleters, Scanning, Claimed, Init, Idle
  <1> QED  BY <1>4, <1>5, <1>6, <1>7, <1>8, <1>9, <1>10, <1>11, <1>12, <1>13, <1>14, <1>15
           DEF IInv, Shape

Rest == Shape /\ ClaimsHeld /\ ClaimParts /\ Keeps /\ Written

LEMMA StepKeepsRest ==
  ASSUME IInv, [Next]_vars
  PROVE  Rest'
  <1>0. Shape
    BY DEF IInv
  <1>1. CASE Edit
    BY <1>0, <1>1, EditShape, EditKeeps DEF Rest
  <1>2. CASE Heartbeat
    BY <1>0, <1>2, HeartbeatShape, HeartbeatKeeps DEF Rest
  <1>3. CASE RawArrives
    BY <1>0, <1>3, RawArrivesShape, RawArrivesKeeps DEF Rest
  <1>4. CASE BeginSave
    BY <1>0, <1>4, BeginSaveShape, BeginSaveKeeps DEF Rest
  <1>5. CASE StartDiscard
    BY <1>0, <1>5, StartDiscardShape, StartDiscardKeeps DEF Rest
  <1>6. CASE StartRecover
    BY <1>0, <1>6, StartRecoverShape, StartRecoverKeeps DEF Rest
  <1>7. CASE DiscardJournals
    BY <1>0, <1>7, DiscardJournalsShape, DiscardJournalsKeeps DEF Rest
  <1>8. CASE Crash
    BY <1>0, <1>8, CrashShape, CrashKeeps DEF Rest
  <1>9. CASE Restart
    BY <1>0, <1>9, RestartShape, RestartKeeps DEF Rest
  <1>10. ASSUME NEW p \in Callers, Caller(p) PROVE Rest'
    <2>1. CASE ScheduleDirty(p)
      BY <1>0, <2>1, ScheduleDirtyShape, ScheduleDirtyKeeps DEF Rest
    <2>2. CASE Pend(p)
      BY <1>0, <2>2, PendShape, PendKeeps DEF Rest
    <2>3. CASE DeleteState(p)
      BY <1>0, <2>3, DeleteStateShape, DeleteStateKeeps DEF Rest
    <2>4. CASE DeleteMeta(p)
      BY <1>0, <2>4, DeleteMetaShape, DeleteMetaKeeps DEF Rest
    <2>5. CASE DeleteBlobs(p)
      BY <1>0, <2>5, DeleteBlobsShape, DeleteBlobsKeeps DEF Rest
    <2>6. CASE DeleteStateClaim(p)
      BY <1>0, <2>6, DeleteStateClaimShape, DeleteStateClaimKeeps DEF Rest
    <2>7. CASE DeleteBlobsClaim(p)
      BY <1>0, <2>7, DeleteBlobsClaimShape, DeleteBlobsClaimKeeps DEF Rest
    <2> QED  BY <1>10, <2>1, <2>2, <2>3, <2>4, <2>5, <2>6, <2>7 DEF Caller
  <1>11. CASE Writer
    <2>1. CASE DrainDue
      BY <1>0, <2>1, DrainDueShape, DrainDueKeeps DEF Rest
    <2>2. CASE DrainRecheck
      BY <1>0, <2>2, DrainRecheckShape, DrainRecheckKeeps DEF Rest
    <2>3. CASE TakeFlush
      BY <1>0, <2>3, TakeFlushShape, TakeFlushKeeps DEF Rest
    <2>4. CASE CheckDirty
      BY <1>0, <2>4, CheckDirtyShape, CheckDirtyKeeps DEF Rest
    <2>5. CASE Snapshot
      BY <1>0, <2>5, SnapshotShape, SnapshotKeeps DEF Rest
    <2>6. CASE WriteBlob
      BY <1>0, <2>6, WriteBlobShape, WriteBlobKeeps DEF Rest
    <2>7. CASE BlobsDone
      BY <1>0, <2>7, BlobsDoneShape, BlobsDoneKeeps DEF Rest
    <2>8. CASE SkipState
      BY <1>0, <2>8, SkipStateShape, SkipStateKeeps DEF Rest
    <2>9. CASE WriteState
      BY <1>0, <2>9, WriteStateShape, WriteStateKeeps DEF Rest
    <2>10. CASE WriteMeta
      BY <1>0, <2>10, WriteMetaShape, WriteMetaKeeps DEF Rest
    <2>11. CASE NoteFlushed
      BY <1>0, <2>11, NoteFlushedShape, NoteFlushedKeeps DEF Rest
    <2> QED  BY <1>11, <2>1, <2>2, <2>3, <2>4, <2>5, <2>6, <2>7, <2>8, <2>9, <2>10, <2>11
           DEF Writer
  <1>12. CASE SaveStep
    <2>1. CASE WriteProject
      BY <1>0, <2>1, WriteProjectShape, WriteProjectKeeps DEF Rest
    <2>2. CASE MarkClean
      BY <1>0, <2>2, MarkCleanShape, MarkCleanKeeps DEF Rest
    <2> QED  BY <1>12, <2>1, <2>2 DEF SaveStep
  <1>13. CASE DiscardStep
    <2>1. CASE ReuseJournal
      BY <1>0, <2>1, ReuseJournalShape, ReuseJournalKeeps DEF Rest
    <2>2. CASE MarkDiscarded
      BY <1>0, <2>2, MarkDiscardedShape, MarkDiscardedKeeps DEF Rest
    <2>3. CASE CloseTab
      BY <1>0, <2>3, CloseTabShape, CloseTabKeeps DEF Rest
    <2> QED  BY <1>13, <2>1, <2>2, <2>3 DEF DiscardStep
  <1>14. CASE RecoverStep
    <2>1. CASE ClaimState
      BY <1>0, <2>1, ClaimStateShape, ClaimStateKeeps DEF Rest
    <2>2. CASE ClaimBlobs
      BY <1>0, <2>2, ClaimBlobsShape, ClaimBlobsKeeps DEF Rest
    <2>3. CASE Assemble
      BY <1>0, <2>3, AssembleShape, AssembleKeeps DEF Rest
    <2>4. CASE RestoreState
      BY <1>0, <2>4, RestoreStateShape, RestoreStateKeeps DEF Rest
    <2>5. CASE RestoreBlobs
      BY <1>0, <2>5, RestoreBlobsShape, RestoreBlobsKeeps DEF Rest
    <2>6. CASE FinalizeState
      BY <1>0, <2>6, FinalizeStateShape, FinalizeStateKeeps DEF Rest
    <2>7. CASE FinalizeBlobs
      BY <1>0, <2>7, FinalizeBlobsShape, FinalizeBlobsKeeps DEF Rest
    <2>8. CASE FinalizeMeta
      BY <1>0, <2>8, FinalizeMetaShape, FinalizeMetaKeeps DEF Rest
    <2>9. CASE SpawnSession
      BY <1>0, <2>9, SpawnSessionShape, SpawnSessionKeeps DEF Rest
    <2>10. CASE ClearHistory
      BY <1>0, <2>10, ClearHistoryShape, ClearHistoryKeeps DEF Rest
    <2>11. CASE MarkUnsaved
      BY <1>0, <2>11, MarkUnsavedShape, MarkUnsavedKeeps DEF Rest
    <2>12. CASE ListSiblings
      BY <1>0, <2>12, ListSiblingsShape, ListSiblingsKeeps DEF Rest
    <2>13. CASE PurgeSibling
      BY <1>0, <2>13, PurgeSiblingShape, PurgeSiblingKeeps DEF Rest
    <2> QED  BY <1>14, <2>1, <2>2, <2>3, <2>4, <2>5, <2>6, <2>7, <2>8, <2>9, <2>10, <2>11,
                <2>12, <2>13 DEF RecoverStep
  <1>15. CASE UNCHANGED vars
    BY <1>15 DEF vars, sessionVars, runtimeVars, IInv, Rest, Shape, SessionOK, FilesOK, RuntimeOK,
           RestOK,
       CallerOK, WriterOK, DiscardOK, RecoverOK, ClaimsHeld, ClaimParts, Busy, Keeps, Untouched,
       Written, Released, Open, ImagesThere
  <1> QED  BY <1>1, <1>2, <1>3, <1>4, <1>5, <1>6, <1>7, <1>8, <1>9, <1>10, <1>11, <1>12,
         <1>13, <1>14, <1>15 DEF Next

\* The deletions that hold the lock, and what a recovery that meets one finds.
LEMMA StepKeepsDeleters ==
  ASSUME IInv, Rest', Next
  PROVE  Deleters'
  <1> USE DEF Callers
  <1>1. /\ Deleters /\ caller \in [Callers -> CallerSet] /\ files \in [Ids -> FileSet]
        /\ writer \in WriterSet /\ recover \in RecoverSet
        /\ recover.at # "none" => recover.id \in Ids
        /\ \A p \in Callers : caller[p].at # "idle" => caller[p].id \in Ids
        /\ recover.at \in Scanning => mode = "scan"
        /\ mode = "down" => recover.at = "none"
        /\ writer.at # "idle" => writer.id \in Ids
    BY CallerTyped DEF IInv, Shape, CallerOK, FilesOK, WriterOK, RecoverOK
  <1>2. CASE Edit
    BY <1>1, <1>2 DEF Deleters, Edit, Call, CallerSet
  <1>3. CASE Heartbeat
    BY <1>1, <1>3 DEF Deleters, Heartbeat, sessionVars
  <1>4. CASE RawArrives
    BY <1>1, <1>4 DEF Deleters, RawArrives, sessionVars
  <1>5. CASE BeginSave
    <2>1. /\ UNCHANGED <<mode, files, writer, recover>> /\ mode # "down"
          /\ \A p \in Callers \ {"save"} : caller'[p] = caller[p]
          /\ caller'["save"].at = "saving"
      BY <1>1, <1>5 DEF BeginSave, Call, CallerSet, sessionVars
    <2> QED  BY <1>1, <2>1 DEF Deleters
  <1>6. CASE StartDiscard
    BY <1>1, <1>6 DEF Deleters, StartDiscard, DiscardOnly, Dirty, Open
  <1>7. CASE StartRecover
    <2>1. /\ UNCHANGED <<mode, caller, files, writer>> /\ recover'.at = "claim"
          /\ files[recover'.id].meta # None /\ recover'.id \in Ids
          /\ caller["scan"].at = "idle"
      BY <1>1, <1>7 DEF StartRecover, RecoverOnly, NoRecover
    <2> QED  BY <1>1, <2>1 DEF Deleters, Scanning, Writing
  <1>8. CASE DiscardJournals
    BY <1>1, <1>8 DEF Deleters, DiscardJournals, RecoverOnly, Call, CallerSet, Scanning, Claimed
  <1>9. CASE Crash
    BY <1>1, <1>9 DEF Deleters, Crash, Idle, NoRecover, Scanning, Claimed
  <1>10. CASE Restart
    BY <1>1, <1>10 DEF Deleters, Restart, runtimeVars, Restored
  <1>11. CASE SaveStep
    <2>1. /\ UNCHANGED <<mode, files, writer, recover>> /\ mode # "down"
          /\ \A p \in Callers \ {"save"} : caller'[p] = caller[p]
          /\ caller'["save"].at \in {"mark", "idle", "emit"}
      BY <1>1, <1>11 DEF Deleters, SaveStep, WriteProject, MarkClean, GoOn, Return, Call, Idle,
                         CallerSet
    <2> QED  BY <1>1, <2>1 DEF Deleters
  <1>12. CASE DiscardStep
    <2>1. /\ UNCHANGED <<caller, writer, recover>>
          /\ mode' = "down" => mode = "down"
      BY <1>1, <1>12 DEF DiscardStep, ReuseJournal, MarkDiscarded, CloseTab, DiscardOnly
    <2>2. \A i \in Ids : /\ files'[i].blobs = files[i].blobs
                         /\ files[i].meta = None => files'[i].meta = None
      <3>1. CASE UNCHANGED files
        BY <3>1
      <3>2. CASE files' = [files EXCEPT ![sid].meta = IF @ = None THEN None ELSE "discarded"]
        BY <1>1, <3>2 DEF FileSet
      <3> QED  BY <1>12, <3>1, <3>2 DEF DiscardStep, ReuseJournal, MarkDiscarded, CloseTab
    <2> QED  BY <1>1, <2>1, <2>2 DEF Deleters
  <1>13. ASSUME NEW p \in Callers, Caller(p) PROVE Deleters'
    <2>1. CASE ScheduleDirty(p)
      BY <1>1, <2>1 DEF Deleters, ScheduleDirty, GoOn, Return, Idle, CallerSet, sessionVars
    <2>2. CASE Pend(p)
      BY <1>1, <2>2 DEF Deleters, Pend, Return, Idle, CallerSet, sessionVars
    <2>3. CASE DeleteState(p)
      BY <1>1, <2>3 DEF Deleters, DeleteState, DeleteOnly, GoOn, CallerSet, FileSet, sessionVars
    <2>4. CASE DeleteMeta(p)
      BY <1>1, <2>4 DEF Deleters, DeleteMeta, DeleteOnly, GoOn, CallerSet, FileSet, sessionVars
    <2>5. CASE DeleteBlobs(p)
      BY <1>1, <2>5 DEF Deleters, DeleteBlobs, DeleteOnly, GoOn, CallerSet, FileSet, sessionVars
    <2>6. CASE DeleteStateClaim(p)
      BY <1>1, <2>6 DEF Deleters, DeleteStateClaim, DeleteOnly, GoOn, CallerSet, FileSet, sessionVars
    <2>7. CASE DeleteBlobsClaim(p)
      BY <1>1, <2>7 DEF Deleters, DeleteBlobsClaim, DeleteOnly, Return, Idle, CallerSet, FileSet, sessionVars
    <2> QED  BY <1>13, <2>1, <2>2, <2>3, <2>4, <2>5, <2>6, <2>7 DEF Caller
  <1>14. CASE Writer
    <2>1. CASE DrainDue
      BY <1>1, <2>1 DEF Deleters, WriterOnly, sessionVars, DrainDue, IdleWriter, Writing
    <2>2. CASE DrainRecheck
      BY <1>1, <2>2 DEF Deleters, WriterOnly, sessionVars, DrainRecheck, Become, IdleWriter, Writing, WriterSet
    <2>3. CASE TakeFlush
      BY <1>1, <2>3 DEF Deleters, WriterOnly, sessionVars, TakeFlush, IdleWriter, Writing
    <2>4. CASE CheckDirty
      BY <1>1, <2>4 DEF Deleters, WriterOnly, sessionVars, CheckDirty, Become, Finish, IdleWriter, Writing, WriterSet
    <2>5. CASE Snapshot
      <3>1. /\ UNCHANGED <<mode, caller, recover>> /\ writer.at = "snapshot"
            /\ \/ Open(writer.id) /\ writer'.id = writer.id
               \/ writer' = IdleWriter /\ UNCHANGED files
        BY <1>1, <2>5 DEF Snapshot, Finish, WriterSet, WriterOnly, sessionVars
      <3>2. \A i \in Ids : files'[i].meta = files[i].meta
        BY <1>1, <2>5 DEF Snapshot, FileSet
      <3>3. recover'.at \notin Scanning \/ writer'.at \notin Writing
        BY <1>1, <3>1 DEF Open, IdleWriter, Writing
      <3>4. recover.at \notin {"claim", "claim_blobs"} \/ writer'.at \notin Writing
        BY <3>1, <3>3 DEF Scanning, Claimed
      <3>5. \A p \in Callers : caller'[p] = caller[p] /\ writer.at # "note"
        BY <3>1
      <3> QED  BY <1>1, <3>1, <3>2, <3>4, <3>5 DEF Deleters
    <2>6. CASE WriteBlob
      <3>1. /\ UNCHANGED <<mode, caller, recover>> /\ writer.at = "blobs"
            /\ \/ Open(writer.id) /\ (writer'.id = writer.id \/ writer' = IdleWriter)
               \/ writer'.id = writer.id /\ UNCHANGED files
        BY <1>1, <2>6 DEF WriteBlob, BlobThere, BlobIncomplete, BlobWritten, Finish, WriterSet,
                          WriterOnly, sessionVars
      <3>2. \A i \in Ids : files'[i].meta = files[i].meta
        BY <1>1, <2>6 DEF WriteBlob, BlobThere, BlobIncomplete, BlobWritten, FileSet
      <3>3. writer.at \in Writing
        BY <3>1 DEF Writing
      <3>4. \/ recover.at \notin {"claim", "claim_blobs"}
            \/ writer'.at \notin Writing
            \/ writer'.id = writer.id /\ UNCHANGED files
        BY <1>1, <3>1 DEF Open, IdleWriter, Writing, Scanning, Claimed
      <3>5. \A p \in Callers : caller'[p] = caller[p] /\ writer.at # "note"
        BY <3>1
      <3> QED  BY <1>1, <3>1, <3>2, <3>3, <3>4, <3>5 DEF Deleters
    <2>7. CASE BlobsDone
      BY <1>1, <2>7 DEF Deleters, WriterOnly, sessionVars, BlobsDone, Become, Finish, IdleWriter, Writing, WriterSet
    <2>8. CASE SkipState
      BY <1>1, <2>8 DEF Deleters, WriterOnly, sessionVars, SkipState, Become, Writing, WriterSet
    <2>9. CASE WriteState
      BY <1>1, <2>9 DEF Deleters, WriterOnly, sessionVars, WriteState, Become, Writing, WriterSet, FileSet
    <2>10. CASE WriteMeta
      BY <1>1, <2>10 DEF Deleters, WriterOnly, sessionVars, WriteMeta, Become, Writing, WriterSet, FileSet
    <2>11. CASE NoteFlushed
      BY <1>1, <2>11 DEF Deleters, WriterOnly, sessionVars, NoteFlushed, Locked, Finish, IdleWriter, Writing
    <2> QED  BY <1>14, <2>1, <2>2, <2>3, <2>4, <2>5, <2>6, <2>7, <2>8, <2>9, <2>10, <2>11 DEF Writer
  <1>15. CASE RecoverStep
    <2>1. CASE ClaimState
      <3>1. /\ UNCHANGED <<mode, caller, writer>> /\ recover.at = "claim"
            /\ \/ recover' = NoRecover /\ UNCHANGED files
               \/ recover'.at = "claim_blobs" /\ recover'.id = recover.id
        BY <1>1, <2>1 DEF ClaimState, RecoverSet, RecoverOnly
      <3>2. \A i \in Ids : files'[i].meta = files[i].meta /\ files'[i].blobs = files[i].blobs
        BY <1>1, <2>1 DEF ClaimState, FileSet
      <3> QED  BY <1>1, <3>1, <3>2 DEF Deleters, NoRecover, Scanning, Claimed
    <2>2. CASE ClaimBlobs
      BY <1>1, <2>2 DEF Deleters, RecoverOnly, ClaimBlobs, Goto, RecoverSet, FileSet, Scanning, Claimed
    <2>3. CASE Assemble
      BY <1>1, <2>3 DEF Deleters, RecoverOnly, Assemble, Goto, RecoverSet, FileSet, Scanning, Claimed
    <2>4. CASE RestoreState
      BY <1>1, <2>4 DEF Deleters, RecoverOnly, RestoreState, Goto, RecoverSet, FileSet, Scanning, Claimed
    <2>5. CASE RestoreBlobs
      BY <1>1, <2>5 DEF Deleters, RecoverOnly, RestoreBlobs, NoRecover, RecoverSet, FileSet, Scanning, Claimed
    <2>6. CASE FinalizeState
      BY <1>1, <2>6 DEF Deleters, RecoverOnly, FinalizeState, Goto, RecoverSet, FileSet, Scanning, Claimed
    <2>7. CASE FinalizeBlobs
      BY <1>1, <2>7 DEF Deleters, RecoverOnly, FinalizeBlobs, Goto, RecoverSet, FileSet, Scanning, Claimed
    <2>8. CASE FinalizeMeta
      BY <1>1, <2>8 DEF Deleters, RecoverOnly, FinalizeMeta, Goto, RecoverSet, FileSet, Scanning, Claimed
    <2>9. CASE SpawnSession
      BY <1>1, <2>9 DEF Deleters, RecoverOnly, SpawnSession, Goto, RecoverSet, FileSet, Scanning, Claimed
    <2>10. CASE ClearHistory
      BY <1>1, <2>10 DEF Deleters, RecoverOnly, ClearHistory, Goto, Call, CallerSet, RecoverSet, FileSet, Scanning, Claimed
    <2>11. CASE MarkUnsaved
      BY <1>1, <2>11 DEF Deleters, RecoverOnly, MarkUnsaved, Goto, Call, CallerSet, RecoverSet, FileSet, Scanning, Claimed
    <2>12. CASE ListSiblings
      BY <1>1, <2>12 DEF Deleters, RecoverOnly, ListSiblings, NoRecover, RecoverSet, FileSet, Scanning, Claimed
    <2>13. CASE PurgeSibling
      BY <1>1, <2>13 DEF Deleters, RecoverOnly, PurgeSibling, NoRecover, Call, CallerSet, RecoverSet, FileSet, Scanning, Claimed
    <2> QED  BY <1>15, <2>1, <2>2, <2>3, <2>4, <2>5, <2>6, <2>7, <2>8, <2>9, <2>10, <2>11, <2>12, <2>13 DEF RecoverStep
  <1> QED  BY <1>2, <1>3, <1>4, <1>5, <1>6, <1>7, <1>8, <1>9, <1>10, <1>11, <1>12, <1>13, <1>14, <1>15 DEF Next

LEMMA StepKeepsIInv == IInv /\ [Next]_vars => IInv'
  <1> SUFFICES ASSUME IInv, [Next]_vars PROVE IInv'
    OBVIOUS
  <1>1. Rest'
    BY StepKeepsRest
  <1>2. CASE Next
    BY <1>1, <1>2, StepKeepsDeleters DEF IInv, Rest
  <1>3. CASE UNCHANGED vars
    BY <1>1, <1>3 DEF IInv, Rest, Deleters, vars, sessionVars
  <1> QED  BY <1>2, <1>3

THEOREM Invariance == Spec => []IInv
  <1> QED  BY InitIInv, StepKeepsIInv, PTL DEF Spec

\* The journal, its writer, the callers and the recovery keep their types: in
\* particular a discard waits only in an open document, and what a recovery
\* opens is a document (runtime.rs, commands.rs).
THEOREM TypeCorrect == Spec => []TypeOK
  <1>1. IInv => TypeOK
    BY DEF IInv, Shape, SessionOK, FilesOK, RuntimeOK, RestOK, CallerOK, WriterOK, DiscardOK,
       RecoverOK, FileSet, WriterSet, CallerSet, DiscardSet, RecoverSet, Writing, TypeOK
  <1> QED  BY <1>1, Invariance, PTL

\* Whatever is journaled stays on disk until a save has written it, a crash
\* at any step included, except in the seven places where the code itself
\* gives it up (write.rs:3-4, cleanup.rs:9-45, commands.rs:127-187, 227-235,
\* 429-442).
THEOREM WorkKept == Spec => []NothingLost
  <1>1. IInv => NothingLost
    BY DEF IInv, Keeps, NothingLost
  <1> QED  BY <1>1, Invariance, PTL

=============================================================================
