------------------------------ MODULE Storage -------------------------------
(***************************************************************************)
(* The chunk storage of storage.c: uploads (storage_begin,                 *)
(* storage_put_chunk, storage_commit), the manifests and directories they  *)
(* keep, and their recovery by storage_create.                             *)
(*                                                                         *)
(* mem[d] is the StoredDocument of d (NoDoc when d is not in the list).    *)
(* disk[d] holds the directories pending/d and objects/d.  Files and       *)
(* manifests are written to a temporary file, synced, and renamed: a       *)
(* rename is one step.  It survives a power loss only once the directory   *)
(* was synced: image[d] is the set of states in which a power loss may     *)
(* leave the directories of d, in the order of a journal: everything since *)
(* the last sync up to some rename is kept, the rest undone.  When a       *)
(* process is killed, the directories stay as they are.                    *)
(*                                                                         *)
(* op[d] is the operation that holds the mutex of d; the others wait.  The *)
(* requests come from clients that do as they please: they repeat, skip    *)
(* and interrupt uploads, and the file they read may have changed since    *)
(* they computed its ObjectID, so that a chunk may be another Variant than *)
(* Good although its own hash is right.  A chunk whose hash, offset or     *)
(* size is wrong is refused without any effect and left out.               *)
(***************************************************************************)
EXTENDS Naturals

CONSTANTS Doc,       \* ObjectIDs
          Chunk,     \* the indices of the chunks of a document
          Variant,   \* contents of a chunk
          Good,      \* the content the ObjectID was computed from
          Size,      \* compressed_size of a variant
          NoChunk, NoDoc, NoDir,
          Errors,    \* which of "write", "rename", "sync", "back" may fail
          Crashes,   \* which of "kill" and "power" may happen
          MaxFaults  \* bound on the crashes and errors

ASSUME StorageAssumption ==
  /\ Good \in Variant /\ NoChunk \notin Variant
  /\ Size \in [Variant -> Nat]
  /\ Errors \subseteq {"write", "rename", "sync", "back"}
  /\ Crashes \subseteq {"kill", "power"}
  /\ MaxFaults \in Nat

VARIABLES up, mem, disk, image, op, faults,
          acked,     \* auxiliary: the chunks that a storage_put_chunk stored and returned 0
                     \* for, since the last file that displaced another
          sealed,    \* auxiliary: the documents whose final manifest was written
          published, \* auxiliary: the documents that a storage_commit published and synced
          confirmed  \* auxiliary: the documents for which a storage_commit returned 0

vars == <<up, mem, disk, image, op, faults, acked, sealed, published, confirmed>>

CREATED == "CREATED"
TRANSFERRING == "TRANSFERRING"
VERIFYING == "VERIFYING"
FINISHED == "FINISHED"

Chunks == [Chunk -> Variant \cup {NoChunk}]
Nothing == [i \in Chunk |-> NoChunk]
Document == [state : {CREATED, TRANSFERRING, VERIFYING, FINISHED}, chunks : Chunks]

\* A directory: its manifest.bin (NoDoc when there is none) and its chunk files.
Dir == [manifest : Document \cup {NoDoc}, files : Chunks]
EmptyDir == [manifest |-> NoDoc, files |-> Nothing]
Place == [pending : Dir \cup {NoDir}, objects : Dir \cup {NoDir}]

ASSUME AbsentAssumption == NoDoc \notin Document /\ NoDir \notin Dir

Idle == [kind |-> "idle"]
Op == {Idle} \cup [kind : {"begin"}, step : {"manifest", "sync"}]
      \cup [kind : {"put"}, step : {"files", "manifest", "sync"}, chunk : Chunk, prev : {CREATED, TRANSFERRING}]
      \cup [kind : {"commit"}, step : {"manifest", "sync", "publish", "parents", "back"}]

Init ==
  /\ up = TRUE
  /\ mem = [d \in Doc |-> NoDoc]
  /\ disk = [d \in Doc |-> [pending |-> NoDir, objects |-> NoDir]]
  /\ image = [d \in Doc |-> {disk[d]}]
  /\ op = [d \in Doc |-> Idle]
  /\ faults = 0
  /\ acked = [d \in Doc |-> {}] /\ sealed = {} /\ published = {} /\ confirmed = {}

-----------------------------------------------------------------------------
(* Names and directories *)

\* A rename in the directories of d, and the sync of the directory it changed.
Rename(d, place) ==
  /\ disk' = [disk EXCEPT ![d] = place]
  /\ image' = [image EXCEPT ![d] = @ \cup {place}]

Sync(d) == image' = [image EXCEPT ![d] = {disk[d]}] /\ UNCHANGED disk

\* What write_manifest writes for the document s.
Manifest(s) == [s EXCEPT !.state = IF @ = VERIFYING THEN FINISHED ELSE @]

\* verify_document: the files of a directory are those of the records, and
\* together they are the document the ObjectID names.
Verified(dir, s) == \A i \in Chunk : s.chunks[i] # NoChunk /\ dir.files[i] = s.chunks[i] /\ s.chunks[i] = Good

\* read_manifest: the chunks marked present must have a file of their size, and
\* only a pending manifest may miss some; a final one is verified as well.
ReadableChunks(dir) ==
  \A i \in Chunk : dir.manifest.chunks[i] # NoChunk
                     => dir.files[i] # NoChunk /\ Size[dir.files[i]] = Size[dir.manifest.chunks[i]]

ReadableFinal(dir) ==
  /\ dir # NoDir /\ dir.manifest # NoDoc
  /\ dir.manifest.state \in {FINISHED, VERIFYING}
  /\ ReadableChunks(dir) /\ Verified(dir, dir.manifest)

ReadablePending(dir) ==
  /\ dir # NoDir /\ dir.manifest # NoDoc
  /\ dir.manifest.state # FINISHED
  /\ ReadableChunks(dir)

\* Mutant of Loaded: only the documents that are still VERIFYING are recovered.
LoadedVerifying(place) ==
  IF ReadableFinal(place.objects) /\ place.objects.manifest.state = VERIFYING
  THEN [place.objects.manifest EXCEPT !.state = FINISHED]
  ELSE IF ReadablePending(place.pending) THEN place.pending.manifest
  ELSE NoDoc

\* load_documents of objects, then of pending for those not found there.
Loaded(place) ==
  IF ReadableFinal(place.objects) THEN [place.objects.manifest EXCEPT !.state = FINISHED]
  ELSE IF ReadablePending(place.pending) THEN place.pending.manifest
  ELSE NoDoc

-----------------------------------------------------------------------------
(* The operations *)

Fault(e) == e \in Errors /\ faults < MaxFaults /\ faults' = faults + 1

Free(d) == up /\ op[d] = Idle

At(d, kind, step) == up /\ op[d].kind = kind /\ op[d].step = step

Advance(d, step) == op' = [op EXCEPT ![d].step = step]

\* storage_begin of a document that is not in the list: make pending/d.  (For one
\* that is in the list it returns at once.)
BeginNew(d) ==
  /\ Free(d) /\ mem[d] = NoDoc
  /\ op' = [op EXCEPT ![d] = [kind |-> "begin", step |-> "manifest"]]
  /\ Rename(d, IF disk[d].pending = NoDir THEN [disk[d] EXCEPT !.pending = EmptyDir] ELSE disk[d])
  /\ UNCHANGED <<up, mem, faults, acked, sealed, published, confirmed>>

NewDocument == [state |-> CREATED, chunks |-> Nothing]

BeginManifest(d) ==
  /\ At(d, "begin", "manifest")
  /\ Rename(d, [disk[d] EXCEPT !.pending.manifest = Manifest(NewDocument)])
  /\ Advance(d, "sync")
  /\ UNCHANGED <<up, mem, faults, acked, sealed, published, confirmed>>

\* Only pending/d is synced, not pending: in the order of a journal that makes the
\* mkdir of pending/d durable as well.
Begun(d) ==
  /\ At(d, "begin", "sync")
  /\ Sync(d)
  /\ mem' = [mem EXCEPT ![d] = NewDocument]
  /\ op' = [op EXCEPT ![d] = Idle]
  /\ UNCHANGED <<up, faults, acked, sealed, published, confirmed>>

\* The manifest could not be written or the directory not synced: d is taken off
\* the list again.
BeginFails(d) ==
  /\ \/ At(d, "begin", "manifest") /\ Fault("write")
     \/ At(d, "begin", "sync") /\ Fault("sync")
  /\ op' = [op EXCEPT ![d] = Idle]
  /\ UNCHANGED <<up, mem, disk, image, acked, sealed, published, confirmed>>

\* storage_put_chunk of a chunk that is there already: 0 if it is the same.  Nothing is
\* written or synced, so this is no acknowledgement in the sense of acked: after a kill
\* the record may come from a manifest whose rename a power loss undoes.
PutAgain(d, i, v) ==
  /\ Free(d) /\ mem[d] # NoDoc /\ mem[d].chunks[i] = v
  /\ UNCHANGED vars

\* Mutant of Put: the record is kept although a manifest that lacks it is the last
\* one on the disk.
PutUnrecorded(d, i, v) ==
  /\ Free(d) /\ mem[d] # NoDoc /\ mem[d].chunks[i] = NoChunk
  /\ Rename(d, [disk[d] EXCEPT !.pending.files[i] = v])
  /\ mem' = [mem EXCEPT ![d].chunks[i] = v]
  /\ acked' = [acked EXCEPT ![d] = @ \cup {i}]
  /\ UNCHANGED <<up, op, faults, sealed, published, confirmed>>

\* The file of chunk i replaces one that the manifest on the disk still names (a call
\* that failed had written it), and has another size: until the next manifest
\* read_manifest refuses the directory, and a crash loses the whole upload.
Displaces(d, i, v) ==
  LET named == disk[d].pending.manifest.chunks[i] IN named # NoChunk /\ Size[named] # Size[v]

\* storage_put_chunk of a new chunk: the file is in place, the record is set.
Put(d, i, v) ==
  /\ Free(d) /\ mem[d] # NoDoc /\ mem[d].state # FINISHED /\ mem[d].chunks[i] = NoChunk
  /\ Rename(d, [disk[d] EXCEPT !.pending.files[i] = v])
  /\ mem' = [mem EXCEPT ![d] = [state |-> TRANSFERRING, chunks |-> [@.chunks EXCEPT ![i] = v]]]
  /\ op' = [op EXCEPT ![d] = [kind |-> "put", step |-> "files", chunk |-> i, prev |-> mem[d].state]]
  /\ acked' = IF Displaces(d, i, v) THEN [acked EXCEPT ![d] = {}] ELSE acked
  /\ UNCHANGED <<up, faults, sealed, published, confirmed>>

PutSync(d) ==
  /\ At(d, "put", "files")
  /\ Sync(d) /\ Advance(d, "manifest")
  /\ UNCHANGED <<up, mem, faults, acked, sealed, published, confirmed>>

PutManifest(d) ==
  /\ At(d, "put", "manifest")
  /\ Rename(d, [disk[d] EXCEPT !.pending.manifest = Manifest(mem[d])])
  /\ Advance(d, "sync")
  /\ UNCHANGED <<up, mem, faults, acked, sealed, published, confirmed>>

PutDone(d) ==
  /\ At(d, "put", "sync")
  /\ Sync(d)
  /\ op' = [op EXCEPT ![d] = Idle]
  /\ acked' = [acked EXCEPT ![d] = @ \cup {op[d].chunk}]
  /\ UNCHANGED <<up, mem, faults, sealed, published, confirmed>>

\* A sync or the manifest failed: the record and the state are put back.
PutFails(d) ==
  /\ \/ At(d, "put", "files") /\ Fault("sync")
     \/ At(d, "put", "manifest") /\ Fault("write")
     \/ At(d, "put", "sync") /\ Fault("sync")
  /\ mem' = [mem EXCEPT ![d] = [state |-> op[d].prev, chunks |-> [@.chunks EXCEPT ![op[d].chunk] = NoChunk]]]
  /\ op' = [op EXCEPT ![d] = Idle]
  /\ UNCHANGED <<up, disk, image, acked, sealed, published, confirmed>>

Complete(d) == mem[d] # NoDoc /\ mem[d].state # FINISHED /\ \A i \in Chunk : mem[d].chunks[i] # NoChunk

PendingVerified(d) == disk[d].pending # NoDir /\ Verified(disk[d].pending, mem[d])

\* Mutant of Commit: only the number of chunks is looked at.
CommitUnverified(d) ==
  /\ Free(d) /\ Complete(d)
  /\ mem' = [mem EXCEPT ![d].state = VERIFYING]
  /\ op' = [op EXCEPT ![d] = [kind |-> "commit", step |-> "manifest"]]
  /\ UNCHANGED <<up, disk, image, faults, acked, sealed, published, confirmed>>

\* Mutant of Commit: a document whose commit failed is not committed again.
CommitOnce(d) ==
  /\ Free(d) /\ Complete(d) /\ mem[d].state # VERIFYING
  /\ mem' = [mem EXCEPT ![d].state = VERIFYING]
  /\ op' = IF PendingVerified(d) THEN [op EXCEPT ![d] = [kind |-> "commit", step |-> "manifest"]] ELSE op
  /\ UNCHANGED <<up, disk, image, faults, acked, sealed, published, confirmed>>

\* storage_commit of a complete document: verify it.  (For an incomplete one it
\* returns an error.)
Commit(d) ==
  /\ Free(d) /\ Complete(d)
  /\ mem' = [mem EXCEPT ![d].state = VERIFYING]
  /\ op' = IF PendingVerified(d) THEN [op EXCEPT ![d] = [kind |-> "commit", step |-> "manifest"]] ELSE op
  /\ UNCHANGED <<up, disk, image, faults, acked, sealed, published, confirmed>>

\* storage_commit of a FINISHED document returns 0 at once: nothing is synced, though
\* storage_create may have found it in objects after a kill that preceded the sync.
CommitAgain(d) ==
  /\ Free(d) /\ mem[d] # NoDoc /\ mem[d].state = FINISHED
  /\ confirmed' = confirmed \cup {d}
  /\ UNCHANGED <<up, mem, disk, image, op, faults, acked, sealed, published>>

CommitManifest(d) ==
  /\ At(d, "commit", "manifest")
  /\ Rename(d, [disk[d] EXCEPT !.pending.manifest = Manifest(mem[d])])
  /\ sealed' = sealed \cup {d}
  /\ Advance(d, "sync")
  /\ UNCHANGED <<up, mem, faults, acked, published, confirmed>>

CommitSync(d) ==
  /\ At(d, "commit", "sync")
  /\ Sync(d) /\ Advance(d, "publish")
  /\ UNCHANGED <<up, mem, faults, acked, sealed, published, confirmed>>

\* rename(pending, final); a directory objects/d with files would make it fail, and
\* FinishedIsIntact says there is none.
Publish(d) ==
  /\ At(d, "commit", "publish")
  /\ Rename(d, [pending |-> NoDir, objects |-> disk[d].pending])
  /\ Advance(d, "parents")
  /\ UNCHANGED <<up, mem, faults, acked, sealed, published, confirmed>>

\* Both directories are synced: the document is FINISHED.
Published(d) ==
  /\ At(d, "commit", "parents")
  /\ Sync(d)
  /\ mem' = [mem EXCEPT ![d].state = FINISHED]
  /\ op' = [op EXCEPT ![d] = Idle]
  /\ published' = published \cup {d} /\ confirmed' = confirmed \cup {d}
  /\ UNCHANGED <<up, faults, acked, sealed>>

\* Syncing them failed: the directory is to be moved back.
NotPublished(d) ==
  /\ At(d, "commit", "parents") /\ Fault("sync")
  /\ Advance(d, "back")
  /\ UNCHANGED <<up, mem, disk, image, acked, sealed, published, confirmed>>

MoveBack(d) ==
  /\ At(d, "commit", "back")
  /\ Rename(d, [pending |-> disk[d].objects, objects |-> NoDir])
  /\ op' = [op EXCEPT ![d] = Idle]
  /\ UNCHANGED <<up, mem, faults, acked, sealed, published, confirmed>>

\* The other ways in which a commit fails; the document stays VERIFYING.
CommitFails(d) ==
  /\ \/ At(d, "commit", "manifest") /\ Fault("write")
     \/ At(d, "commit", "sync") /\ Fault("sync")
     \/ At(d, "commit", "publish") /\ Fault("rename")
     \/ At(d, "commit", "back") /\ Fault("back")
  /\ op' = [op EXCEPT ![d] = Idle]
  /\ UNCHANGED <<up, mem, disk, image, acked, sealed, published, confirmed>>

\* The process is killed, or the power fails.
Crash(kind) ==
  /\ up /\ kind \in Crashes /\ faults < MaxFaults
  /\ up' = FALSE /\ faults' = faults + 1
  /\ mem' = [d \in Doc |-> NoDoc] /\ op' = [d \in Doc |-> Idle]
  /\ \/ kind = "kill" /\ UNCHANGED <<disk, image>>
     \/ /\ kind = "power"
        /\ disk' \in {f \in [Doc -> UNION {image[d] : d \in Doc}] : \A d \in Doc : f[d] \in image[d]}
        /\ image' = [d \in Doc |-> {disk'[d]}]
  /\ UNCHANGED <<acked, sealed, published, confirmed>>

\* storage_create
Create ==
  /\ ~up /\ up' = TRUE
  /\ mem' = [d \in Doc |-> Loaded(disk[d])]
  /\ UNCHANGED <<disk, image, op, faults, acked, sealed, published, confirmed>>

Step(d) ==
  \/ BeginManifest(d) \/ Begun(d)
  \/ PutSync(d) \/ PutManifest(d) \/ PutDone(d)
  \/ CommitManifest(d) \/ CommitSync(d) \/ Publish(d) \/ Published(d) \/ MoveBack(d)

Fails(d) == BeginFails(d) \/ PutFails(d) \/ NotPublished(d) \/ CommitFails(d)

Next ==
  \/ \E d \in Doc : BeginNew(d) \/ Commit(d) \/ CommitAgain(d) \/ Step(d) \/ Fails(d)
  \/ \E d \in Doc, i \in Chunk, v \in Variant : Put(d, i, v) \/ PutAgain(d, i, v)
  \/ \E kind \in Crashes : Crash(kind)
  \/ Create

Spec == Init /\ [][Next]_vars

\* The threads run, the process is started again after a crash, and somebody keeps
\* repeating the upload of the unchanged file.
Fairness ==
  /\ WF_vars(Create)
  /\ \A d \in Doc : /\ WF_vars(Step(d)) /\ WF_vars(BeginNew(d)) /\ WF_vars(Commit(d))
                    /\ \A i \in Chunk : WF_vars(Put(d, i, Good))

-----------------------------------------------------------------------------
(* Properties *)

\* A document the catalog calls FINISHED (storage_find, storage_list and
\* storage_read_chunk serve it) is complete in objects and has the content its
\* ObjectID names; once a storage_commit has published it and synced both
\* directories, storage_create finds it there again after any number of kills and
\* power losses.  It is never in pending and in objects at once.
FinishedIsIntact ==
  \A d \in Doc :
    /\ mem[d] # NoDoc /\ mem[d].state = FINISHED => ReadableFinal(disk[d].objects)
    /\ d \in published => \A place \in image[d] : ReadableFinal(place.objects)
    /\ disk[d].pending = NoDir \/ disk[d].objects = NoDir

\* storage_commit returns 0 only for a document that is durable: whatever a power loss
\* may undo, storage_create finds the document again.
ConfirmedIsDurable ==
  \A d \in confirmed : \A place \in image[d] : ReadableFinal(place.objects)

\* The chunks that storage_put_chunk stored, returning 0, are not to be sent again, whatever
\* crashed or failed since, as long as no storage_commit has written the final
\* manifest and no later call has put a file of another size in the place of one that
\* a failed call left in the manifest.
AckedChunksKept ==
  up => \A d \in Doc \ sealed : \A i \in acked[d] : mem[d] # NoDoc /\ mem[d].chunks[i] # NoChunk

\* storage_commit cannot succeed any more: a chunk that is not the one the ObjectID
\* names was accepted, or the directory could not be moved back from objects.
Obstructed(d) ==
  IF disk[d].pending = NoDir THEN mem[d].state = VERIFYING /\ op[d] = Idle
  ELSE \E i \in Chunk : mem[d].chunks[i] # NoChunk
                          /\ {mem[d].chunks[i], disk[d].pending.files[i]} # {Good}

\* An upload that is repeated is published in the end: no crash and no failed write,
\* other than those two, leaves the document in a state in which storage_begin,
\* storage_put_chunk and storage_commit do not get any further.
UploadCompletes ==
  \A d \in Doc : <>[](mem[d] # NoDoc /\ (mem[d].state = FINISHED \/ Obstructed(d)))

\* The storage is an ObjectStore: a document is stored when every power loss leaves
\* it readable in objects, and visible when the catalog calls it FINISHED.
Store == INSTANCE ObjectStore WITH
  stored <- {d \in Doc : \A place \in image[d] : ReadableFinal(place.objects)},
  visible <- {d \in Doc : mem[d] # NoDoc /\ mem[d].state = FINISHED}

ImplementsObjectStore == Store!Spec
=============================================================================
