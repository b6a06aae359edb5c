--------------------------- MODULE StorageProofs ----------------------------
(***************************************************************************)
(* Proofs about the chunk storage for any documents, chunks and sizes, any *)
(* number of kills, power losses and failed writes, renames and syncs.     *)
(*                                                                         *)
(* The invariant is about one document at a time.  It says of every place  *)
(* in which a power loss may leave its directories that objects holds      *)
(* whole documents only (PlaceOK), of the record in memory what the        *)
(* operation that holds the mutex has done so far (MemoryOK), and of the   *)
(* chunks that were acknowledged that storage_create would find each of    *)
(* them in every place (Owed).                                             *)
(***************************************************************************)
EXTENDS Storage, TLAPS

\* A step that names no prover is for Zenon, which gets up to a minute.
USE ZenonT(60)

----------------------------------------------------------------------------
(* The invariant *)

\* A place in which a power loss may leave the directories of a document.
PlaceOK(p) ==
  /\ p \in Place
  /\ p.pending = NoDir \/ p.objects = NoDir
  /\ p.objects # NoDir => ReadableFinal(p.objects) /\ p.objects.manifest.state = FINISHED
  /\ p.pending # NoDir /\ p.pending.manifest # NoDoc => p.pending.manifest.state # VERIFYING

\* The files in pending are those that the record names, as far as their sizes tell.
Backed(dir, s) ==
  \A i \in Chunk : s.chunks[i] # NoChunk => dir.files[i] # NoChunk /\ Size[dir.files[i]] = Size[s.chunks[i]]

\* The record s of a document in the list, with its place p and the operation o.
RecordOK(s, p, o) ==
  /\ s \in Document
  /\ p.pending # NoDir => Backed(p.pending, s)
  /\ s.state = FINISHED => o.kind = "idle" /\ p.objects # NoDir
  /\ s.state = VERIFYING => o.kind \in {"idle", "commit"} /\ \A i \in Chunk : s.chunks[i] # NoChunk
  /\ s.state \in {CREATED, TRANSFERRING} => o.kind \in {"idle", "put"} /\ p.pending # NoDir

\* What an operation that is under way has done.
PutOK(s, p, o) ==
  /\ s # NoDoc /\ s.state = TRANSFERRING /\ s.chunks[o.chunk] # NoChunk
  /\ o.step = "sync" => p.pending.manifest = s

CommitOK(s, p, o, I) ==
  /\ s # NoDoc /\ s.state = VERIFYING
  /\ o.step \in {"manifest", "sync", "publish"} => p.pending # NoDir /\ Verified(p.pending, s)
  /\ o.step \in {"sync", "publish"} => p.pending.manifest = Manifest(s)
  /\ o.step \in {"parents", "back"} =>
       p.objects # NoDir /\ Verified(p.objects, s) /\ \E q \in I : q.objects = NoDir

MemoryOK(s, p, o, I) ==
  /\ s = NoDoc => p.objects = NoDir /\ o.kind \in {"idle", "begin"}
  /\ s # NoDoc => RecordOK(s, p, o)
  /\ o.kind = "begin" => s = NoDoc /\ p.pending # NoDir
  /\ o.kind = "put" => PutOK(s, p, o)
  /\ o.kind = "commit" => CommitOK(s, p, o, I)

\* The document d: its record s, its place p, the operation o, and the places I that
\* a power loss may leave.
DocOK(d, u, s, p, o, I, C) ==
  /\ p \in I /\ \A q \in I : PlaceOK(q)
  /\ IF u THEN MemoryOK(s, p, o, I) ELSE s = NoDoc /\ o = Idle
  /\ d \in C => (\A q \in I : q.objects # NoDir) /\ (u => s # NoDoc /\ s.state = FINISHED)

\* storage_create would find the chunks A in the place p, of an upload that was not
\* committed.
Owed(p, A) ==
  /\ p.objects = NoDir
  /\ p.pending # NoDir /\ p.pending.manifest # NoDoc => p.pending.manifest.state # FINISHED
  /\ A # {} => /\ ReadablePending(p.pending)
               /\ \A i \in A : p.pending.manifest.chunks[i] # NoChunk

AckedOK(d, u, s, o, I, A, S) ==
  d \notin S =>
    /\ \A q \in I : Owed(q, A)
    /\ u => \A i \in A : s # NoDoc /\ s.chunks[i] # NoChunk
    /\ o.kind = "put" => o.chunk \notin A
    /\ o.kind = "commit" => o.step = "manifest"

StorageInv ==
  /\ up \in BOOLEAN
  /\ mem \in [Doc -> Document \cup {NoDoc}] /\ disk \in [Doc -> Place] /\ op \in [Doc -> Op]
  /\ image \in [Doc -> SUBSET Place] /\ acked \in [Doc -> SUBSET Chunk]
  /\ \A d \in Doc : /\ DocOK(d, up, mem[d], disk[d], op[d], image[d], published)
                     /\ AckedOK(d, up, mem[d], op[d], image[d], acked[d], sealed)

----------------------------------------------------------------------------
(* Types *)

\* The fields of records, directories and places.
LEMMA FieldTypes ==
  /\ \A s \in Document : /\ s # NoDoc /\ s.state \in {CREATED, TRANSFERRING, VERIFYING, FINISHED} /\ s.chunks \in Chunks
                         /\ \A i \in Chunk : s.chunks[i] # NoChunk => s.chunks[i] \in Variant
  /\ \A dir \in Dir : dir # NoDir /\ dir.manifest \in Document \cup {NoDoc} /\ dir.files \in Chunks
  /\ \A p \in Place : p.pending \in Dir \cup {NoDir} /\ p.objects \in Dir \cup {NoDir}
  /\ CREATED # FINISHED /\ TRANSFERRING # FINISHED /\ VERIFYING # FINISHED
  /\ CREATED # VERIFYING /\ TRANSFERRING # VERIFYING
  BY AbsentAssumption DEF Document, Dir, Place, Chunks, CREATED, TRANSFERRING, VERIFYING, FINISHED

\* A manifest is written into pending, and a chunk file renamed into it.
WithManifest(p, M) == [p EXCEPT !.pending.manifest = M]
WithFile(p, i, v) == [p EXCEPT !.pending.files[i] = v]

\* What write_manifest changes.
LEMMA SetManifest ==
  ASSUME NEW p \in Place, p.pending # NoDir, NEW M \in Document, NEW q, q = WithManifest(p, M)
  PROVE  /\ q \in Place /\ q.objects = p.objects /\ q.pending \in Dir /\ q.pending # NoDir
         /\ q.pending.manifest = M /\ q.pending.files = p.pending.files
<1>1. PICK dir \in Dir : dir = p.pending
  BY FieldTypes
<1>2. PICK e : e = [dir EXCEPT !.manifest = M]
  OBVIOUS
<1>3. e \in Dir /\ e.manifest = M /\ e.files = dir.files
  BY <1>2 DEF Dir
<1>4. q = [p EXCEPT !.pending = e]
  BY <1>1, <1>2 DEF WithManifest
<1>5. q \in Place /\ q.objects = p.objects /\ q.pending = e
  BY <1>3, <1>4 DEF Place
<1> QED BY <1>1, <1>3, <1>5, FieldTypes

\* What the rename of a chunk file changes.
LEMMA SetFile ==
  ASSUME NEW p \in Place, p.pending # NoDir, NEW i \in Chunk, NEW v \in Variant,
         NEW q, q = WithFile(p, i, v)
  PROVE  /\ q \in Place /\ q.objects = p.objects /\ q.pending \in Dir /\ q.pending # NoDir
         /\ q.pending.manifest = p.pending.manifest
         /\ q.pending.files[i] = v /\ \A k \in Chunk \ {i} : q.pending.files[k] = p.pending.files[k]
<1>1. PICK dir \in Dir : dir = p.pending
  BY FieldTypes
<1>2. PICK f : f = [dir.files EXCEPT ![i] = v]
  OBVIOUS
<1>3. f \in Chunks /\ f[i] = v /\ \A k \in Chunk \ {i} : f[k] = dir.files[k]
  BY <1>2, FieldTypes DEF Chunks
<1>4. PICK e : e = [dir EXCEPT !.files = f]
  OBVIOUS
<1>5. e \in Dir /\ e.manifest = dir.manifest /\ e.files = f
  BY <1>3, <1>4 DEF Dir
<1>6. q = [p EXCEPT !.pending = e]
  BY <1>1, <1>2, <1>4 DEF WithFile
<1>7. q \in Place /\ q.objects = p.objects /\ q.pending = e
  BY <1>5, <1>6 DEF Place
<1> QED BY <1>1, <1>3, <1>5, <1>7, FieldTypes

\* What write_manifest writes.
LEMMA ManifestIs ==
  ASSUME NEW s \in Document
  PROVE  /\ Manifest(s) \in Document /\ Manifest(s).chunks = s.chunks /\ Manifest(s).state # VERIFYING
         /\ s.state = VERIFYING => Manifest(s).state = FINISHED
         /\ s.state # VERIFYING => Manifest(s) = s
<1>1. PICK st : st = IF s.state = VERIFYING THEN FINISHED ELSE s.state
  OBVIOUS
<1>2. Manifest(s) = [s EXCEPT !.state = st]
  BY <1>1 DEF Manifest
<1>3. st \in {CREATED, TRANSFERRING, VERIFYING, FINISHED} /\ st # VERIFYING
  BY <1>1, FieldTypes
<1>4. s = [state |-> s.state, chunks |-> s.chunks]
  BY DEF Document
<1> QED BY <1>1, <1>2, <1>3, <1>4, FieldTypes DEF Document

\* The operations, and their steps.
LEMMA OpTypes ==
  /\ Idle \in Op /\ Idle.kind = "idle"
  /\ \A o \in Op : /\ o.kind = "put" => /\ o.step \in {"files", "manifest", "sync"} /\ o.chunk \in Chunk
                                        /\ o.prev \in {CREATED, TRANSFERRING}
                   /\ o.kind = "commit" => o.step \in {"manifest", "sync", "publish", "parents", "back"}
                   /\ o.kind \in {"idle", "begin", "put", "commit"}
<1>1. Idle \in Op /\ Idle.kind = "idle"
  BY DEF Op, Idle
<1>2. ASSUME NEW o \in Op
      PROVE  /\ o.kind = "put" => /\ o.step \in {"files", "manifest", "sync"} /\ o.chunk \in Chunk
                                  /\ o.prev \in {CREATED, TRANSFERRING}
             /\ o.kind = "commit" => o.step \in {"manifest", "sync", "publish", "parents", "back"}
             /\ o.kind \in {"idle", "begin", "put", "commit"}
  <2>1. CASE o = Idle
    BY <2>1, <1>1
  <2>2. CASE o \in [kind : {"begin"}, step : {"manifest", "sync"}]
    BY <2>2
  <2>3. CASE o \in [kind : {"put"}, step : {"files", "manifest", "sync"}, chunk : Chunk, prev : {CREATED, TRANSFERRING}]
    BY <2>3
  <2>4. CASE o \in [kind : {"commit"}, step : {"manifest", "sync", "publish", "parents", "back"}]
    BY <2>4
  <2> QED BY <1>2, <2>1, <2>2, <2>3, <2>4 DEF Op
<1> QED BY <1>1, <1>2

\* An operation goes on to its next step.
LEMMA AdvanceIs ==
  ASSUME NEW o \in Op, NEW step,
         \/ o.kind = "begin" /\ step \in {"manifest", "sync"}
         \/ o.kind = "put" /\ step \in {"files", "manifest", "sync"}
         \/ o.kind = "commit" /\ step \in {"manifest", "sync", "publish", "parents", "back"},
         NEW w, w = [o EXCEPT !.step = step]
  PROVE  w \in Op /\ w.kind = o.kind /\ w.step = step /\ (o.kind = "put" => w.chunk = o.chunk /\ w.prev = o.prev)
<1>1. CASE o = Idle
  BY <1>1, OpTypes
<1>2. CASE o \in [kind : {"begin"}, step : {"manifest", "sync"}]
  <2>1. w = [kind |-> "begin", step |-> step] /\ step \in {"manifest", "sync"}
    BY <1>2
  <2> QED BY <1>2, <2>1 DEF Op
<1>3. CASE o \in [kind : {"put"}, step : {"files", "manifest", "sync"}, chunk : Chunk, prev : {CREATED, TRANSFERRING}]
  <2>1. /\ w = [kind |-> "put", step |-> step, chunk |-> o.chunk, prev |-> o.prev]
        /\ step \in {"files", "manifest", "sync"}
    BY <1>3
  <2> QED BY <1>3, <2>1 DEF Op
<1>4. CASE o \in [kind : {"commit"}, step : {"manifest", "sync", "publish", "parents", "back"}]
  <2>1. w = [kind |-> "commit", step |-> step] /\ step \in {"manifest", "sync", "publish", "parents", "back"}
    BY <1>4
  <2> QED BY <1>4, <2>1 DEF Op
<1> QED BY <1>1, <1>2, <1>3, <1>4 DEF Op

\* What the invariant says of one document.
LEMMA Now ==
  ASSUME StorageInv, NEW d \in Doc
  PROVE  /\ mem[d] \in Document \cup {NoDoc} /\ disk[d] \in Place /\ op[d] \in Op
         /\ image[d] \in SUBSET Place /\ acked[d] \in SUBSET Chunk
         /\ disk[d] \in image[d] /\ (\A q \in image[d] : PlaceOK(q)) /\ PlaceOK(disk[d])
         /\ up => MemoryOK(mem[d], disk[d], op[d], image[d])
         /\ AckedOK(d, up, mem[d], op[d], image[d], acked[d], sealed)
  BY DEF StorageInv, DocOK

----------------------------------------------------------------------------
(* The steps of an operation *)

\* A power loss may find d outside objects.
Half(I) == \E q \in I : q.objects = NoDir

\* What a step does for those who look at the storage from outside: nothing, or it
\* publishes d.
Abstract(d, s, I) ==
  \/ /\ I = image[d] \/ (Half(image[d]) /\ Half(I))
     /\ mem[d] # NoDoc => mem[d].state # FINISHED
     /\ s # NoDoc => s.state # FINISHED
     /\ published' = published
  \/ ~Half(I) /\ s # NoDoc /\ s.state = FINISHED /\ published' = published \cup {d}

\* The step changes d only, and leaves this.
Sets(d, s, p, o, I, A) ==
  /\ up' = up
  /\ mem' = [mem EXCEPT ![d] = s] /\ disk' = [disk EXCEPT ![d] = p] /\ op' = [op EXCEPT ![d] = o]
  /\ image' = [image EXCEPT ![d] = I] /\ acked' = [acked EXCEPT ![d] = A]
  /\ sealed' \in {sealed, sealed \cup {d}}

Leaves(d, s, p, o, I, A) ==
  /\ Sets(d, s, p, o, I, A) /\ Abstract(d, s, I)
  /\ p \in I /\ \A q \in I : PlaceOK(q)
  /\ MemoryOK(s, p, o, I)
  /\ AckedOK(d, TRUE, s, o, I, A, sealed')

Works(d) ==
  /\ up
  /\ \E s \in Document \cup {NoDoc}, p \in Place, o \in Op, I \in SUBSET Place, A \in SUBSET Chunk :
       Leaves(d, s, p, o, I, A)

\* A step that works on one document keeps the invariant.
LEMMA WorksKeeps ==
  ASSUME StorageInv, NEW d \in Doc, Works(d)
  PROVE  StorageInv'
<1>1. PICK s \in Document \cup {NoDoc}, p \in Place, o \in Op, I \in SUBSET Place, A \in SUBSET Chunk :
        Leaves(d, s, p, o, I, A)
  BY DEF Works
<1>2. up /\ up' = up
  BY <1>1 DEF Works, Leaves, Sets
<1>3. /\ mem' \in [Doc -> Document \cup {NoDoc}] /\ disk' \in [Doc -> Place] /\ op' \in [Doc -> Op]
      /\ image' \in [Doc -> SUBSET Place] /\ acked' \in [Doc -> SUBSET Chunk]
  BY <1>1 DEF Leaves, Sets, StorageInv
<1>4. mem'[d] = s /\ disk'[d] = p /\ op'[d] = o /\ image'[d] = I /\ acked'[d] = A
  BY <1>1 DEF Leaves, Sets, StorageInv
<1>5. \A e \in Doc \ {d} : /\ mem'[e] = mem[e] /\ disk'[e] = disk[e] /\ op'[e] = op[e]
                           /\ image'[e] = image[e] /\ acked'[e] = acked[e]
  BY <1>1 DEF Leaves, Sets, StorageInv
<1>6. \A e \in Doc \ {d} : (e \in sealed' => e \in sealed) /\ (e \in sealed => e \in sealed')
                           /\ (e \in published' => e \in published)
  BY <1>1 DEF Leaves, Sets, Abstract
<1>7. ASSUME d \in published' PROVE (\A q \in I : q.objects # NoDir) /\ s # NoDoc /\ s.state = FINISHED
  <2>1. CASE d \in published /\ published' = published
    <3>1. mem[d] # NoDoc /\ mem[d].state = FINISHED
      BY <1>2, <2>1 DEF StorageInv, DocOK
    <3> QED BY <1>1, <2>1, <3>1 DEF Leaves, Abstract, Half
  <2>2. CASE ~(d \in published /\ published' = published)
    BY <1>1, <1>7, <2>2 DEF Leaves, Abstract, Half
  <2> QED BY <2>1, <2>2
<1>8. DocOK(d, up', mem'[d], disk'[d], op'[d], image'[d], published')
  <2>1. DocOK(d, up', s, p, o, I, published')
    BY <1>1, <1>2, <1>7 DEF DocOK, Leaves
  <2> QED BY <1>4, <2>1
<1>9. AckedOK(d, up', mem'[d], op'[d], image'[d], acked'[d], sealed')
  <2>1. AckedOK(d, up', s, o, I, A, sealed')
    BY <1>1, <1>2 DEF AckedOK, Leaves
  <2> QED BY <1>4, <2>1
<1>10. ASSUME NEW e \in Doc \ {d}
       PROVE  /\ DocOK(e, up', mem'[e], disk'[e], op'[e], image'[e], published')
              /\ AckedOK(e, up', mem'[e], op'[e], image'[e], acked'[e], sealed')
  <2>1. DocOK(e, up', mem[e], disk[e], op[e], image[e], published')
    BY <1>2, <1>6 DEF StorageInv, DocOK
  <2>2. AckedOK(e, up', mem[e], op[e], image[e], acked[e], sealed')
    <3>1. AckedOK(e, up, mem[e], op[e], image[e], acked[e], sealed)
      BY DEF StorageInv
    <3> QED BY <1>2, <1>6, <3>1 DEF AckedOK
  <2> QED BY <1>5, <2>1, <2>2
<1> QED BY <1>2, <1>3, <1>8, <1>9, <1>10 DEF StorageInv

\* What does not change is set to what it was.
LEMMA Same ==
  ASSUME StorageInv, NEW d \in Doc
  PROVE  /\ mem = [mem EXCEPT ![d] = mem[d]] /\ disk = [disk EXCEPT ![d] = disk[d]]
         /\ op = [op EXCEPT ![d] = op[d]] /\ image = [image EXCEPT ![d] = image[d]]
         /\ acked = [acked EXCEPT ![d] = acked[d]]
  BY DEF StorageInv

\* A place without a final manifest, in which d is not in objects.
LEMMA PendingPlace ==
  ASSUME NEW p \in Place, p.objects = NoDir,
         p.pending # NoDir /\ p.pending.manifest # NoDoc => p.pending.manifest.state # VERIFYING
  PROVE  PlaceOK(p)
  BY DEF PlaceOK

\* storage_begin, its three steps.
LEMMA BeginNewWorks ==
  ASSUME StorageInv, NEW d \in Doc, BeginNew(d)
  PROVE  Works(d)
<1>1. PICK p : p = IF disk[d].pending = NoDir THEN [disk[d] EXCEPT !.pending = EmptyDir] ELSE disk[d]
  OBVIOUS
<1>2. PICK o : o = [kind |-> "begin", step |-> "manifest"]
  OBVIOUS
<1>3. o \in Op /\ o.kind = "begin"
  BY <1>2 DEF Op
<1>4. up /\ mem[d] = NoDoc /\ MemoryOK(mem[d], disk[d], op[d], image[d]) /\ disk[d] \in Place /\ PlaceOK(disk[d])
  BY Now DEF BeginNew, Free
<1>5. disk[d].objects = NoDir
  BY <1>4 DEF MemoryOK
<1>6. EmptyDir \in Dir /\ EmptyDir.manifest = NoDoc
  BY DEF EmptyDir, Dir, Nothing, Chunks
<1>7. /\ p \in Place /\ p.objects = NoDir /\ p.pending # NoDir
      /\ p.pending.manifest # NoDoc => p.pending.manifest.state # VERIFYING
  <2>1. CASE disk[d].pending = NoDir
    <3>1. p = [disk[d] EXCEPT !.pending = EmptyDir]
      BY <1>1, <2>1
    <3>2. p \in Place /\ p.objects = disk[d].objects /\ p.pending = EmptyDir
      BY <1>4, <1>6, <3>1 DEF Place
    <3> QED BY <1>5, <1>6, <3>2, FieldTypes
  <2>2. CASE disk[d].pending # NoDir
    BY <1>1, <1>4, <1>5, <2>2 DEF PlaceOK
  <2> QED BY <2>1, <2>2
<1>8. PlaceOK(p)
  BY <1>7, PendingPlace
<1>9. PICK I : I = image[d] \cup {p}
  OBVIOUS
<1>10. I \in SUBSET Place /\ p \in I /\ \A q \in I : PlaceOK(q)
  BY <1>7, <1>8, <1>9, Now
<1>11. Sets(d, NoDoc, p, o, I, acked[d])
  BY <1>1, <1>2, <1>4, <1>9, Same DEF BeginNew, Rename, Sets
<1>12. Half(image[d]) /\ Half(I)
  BY <1>5, <1>9, Now DEF Half
<1>13. Abstract(d, NoDoc, I)
  BY <1>4, <1>12 DEF Abstract, BeginNew
<1>14. MemoryOK(NoDoc, p, o, I)
  BY <1>3, <1>7 DEF MemoryOK
<1>15. AckedOK(d, TRUE, NoDoc, o, I, acked[d], sealed')
  <2> SUFFICES ASSUME d \notin sealed' PROVE acked[d] = {} /\ \A q \in I : Owed(q, acked[d])
    BY <1>3 DEF AckedOK
  <2>1. d \notin sealed
    BY DEF BeginNew
  <2>2. acked[d] = {} /\ \A q \in image[d] : Owed(q, acked[d])
    BY <1>4, <2>1, Now DEF AckedOK
  <2>3. Owed(p, acked[d])
    <3>1. Owed(disk[d], acked[d])
      BY <2>2, Now
    <3> QED BY <1>1, <1>6, <1>7, <2>2, <3>1 DEF Owed, Place
  <2> QED BY <1>9, <2>2, <2>3
<1>16. Leaves(d, NoDoc, p, o, I, acked[d])
  BY <1>10, <1>11, <1>13, <1>14, <1>15 DEF Leaves
<1> QED BY <1>3, <1>4, <1>7, <1>10, <1>16, Now DEF Works

\* A step of the operation o moves it on, and leaves the other documents' alone.
LEMMA Advances ==
  ASSUME StorageInv, NEW d \in Doc, NEW step, Advance(d, step), NEW w, w = [op[d] EXCEPT !.step = step]
  PROVE  op' = [op EXCEPT ![d] = w]
  BY DEF Advance, StorageInv

\* The manifest of a new document.
LEMMA NewManifest ==
  /\ NewDocument \in Document /\ NewDocument.state = CREATED /\ \A i \in Chunk : NewDocument.chunks[i] = NoChunk
  /\ Manifest(NewDocument) = NewDocument
<1>1. NewDocument \in Document /\ NewDocument.state = CREATED /\ \A i \in Chunk : NewDocument.chunks[i] = NoChunk
  BY DEF NewDocument, Document, Nothing, Chunks
<1> QED BY <1>1, ManifestIs, FieldTypes

LEMMA BeginManifestWorks ==
  ASSUME StorageInv, NEW d \in Doc, BeginManifest(d)
  PROVE  Works(d)
<1>1. PICK p : p = [disk[d] EXCEPT !.pending.manifest = Manifest(NewDocument)]
  OBVIOUS
<1>2. PICK o : o = [op[d] EXCEPT !.step = "sync"]
  OBVIOUS
<1>3. up /\ op[d].kind = "begin" /\ MemoryOK(mem[d], disk[d], op[d], image[d])
  BY Now DEF BeginManifest, At
<1>4. o \in Op /\ o.kind = "begin"
  BY <1>2, <1>3, Now, AdvanceIs
<1>5. mem[d] = NoDoc /\ disk[d].objects = NoDir /\ disk[d].pending # NoDir
  BY <1>3 DEF MemoryOK
<1>6. /\ p \in Place /\ p.objects = NoDir /\ p.pending # NoDir
      /\ p.pending.manifest = NewDocument
  <2>1. Manifest(NewDocument) \in Document
    BY NewManifest
  <2>2. p = WithManifest(disk[d], Manifest(NewDocument))
    BY <1>1 DEF WithManifest
  <2> QED BY <1>5, <2>1, <2>2, Now, SetManifest, NewManifest, SMTT(60)
<1>7. PlaceOK(p)
  BY <1>6, PendingPlace, NewManifest, FieldTypes
<1>8. PICK I : I = image[d] \cup {p}
  OBVIOUS
<1>9. I \in SUBSET Place /\ p \in I /\ \A q \in I : PlaceOK(q)
  BY <1>6, <1>7, <1>8, Now
<1>10. op' = [op EXCEPT ![d] = o]
  BY <1>2, Advances DEF BeginManifest
<1>11. Sets(d, NoDoc, p, o, I, acked[d])
  BY <1>1, <1>5, <1>8, <1>10, Same DEF BeginManifest, Rename, Sets
<1>12. Half(image[d]) /\ Half(I)
  BY <1>5, <1>8, Now DEF Half
<1>13. Abstract(d, NoDoc, I)
  BY <1>5, <1>12 DEF Abstract, BeginManifest
<1>14. MemoryOK(NoDoc, p, o, I)
  BY <1>4, <1>6 DEF MemoryOK
<1>15. AckedOK(d, TRUE, NoDoc, o, I, acked[d], sealed')
  <2> SUFFICES ASSUME d \notin sealed' PROVE acked[d] = {} /\ \A q \in I : Owed(q, acked[d])
    BY <1>4 DEF AckedOK
  <2>1. d \notin sealed
    BY DEF BeginManifest
  <2>2. acked[d] = {} /\ \A q \in image[d] : Owed(q, acked[d])
    BY <1>3, <1>5, <2>1, Now DEF AckedOK
  <2>3. Owed(p, acked[d])
    BY <1>6, <2>2, NewManifest, FieldTypes DEF Owed
  <2> QED BY <1>8, <2>2, <2>3
<1>16. Leaves(d, NoDoc, p, o, I, acked[d])
  BY <1>9, <1>11, <1>13, <1>14, <1>15 DEF Leaves
<1> QED BY <1>3, <1>4, <1>6, <1>9, <1>16, Now DEF Works

LEMMA BegunWorks ==
  ASSUME StorageInv, NEW d \in Doc, Begun(d)
  PROVE  Works(d)
<1>1. PICK p : p = disk[d]
  OBVIOUS
<1>2. PICK I : I = {p}
  OBVIOUS
<1>3. up /\ op[d].kind = "begin" /\ MemoryOK(mem[d], disk[d], op[d], image[d])
  BY Now DEF Begun, At
<1>4. mem[d] = NoDoc /\ p.objects = NoDir /\ p.pending # NoDir
  BY <1>1, <1>3 DEF MemoryOK
<1>5. I \in SUBSET Place /\ p \in I /\ p \in Place /\ \A q \in I : PlaceOK(q)
  BY <1>1, <1>2, Now
<1>6. Sets(d, NewDocument, p, Idle, I, acked[d])
  BY <1>1, <1>2, Same DEF Begun, Sync, Sets
<1>7. Half(image[d]) /\ Half(I)
  BY <1>1, <1>2, <1>4, Now DEF Half
<1>8. NewDocument \in Document /\ NewDocument # NoDoc /\ NewDocument.state = CREATED
  BY NewManifest, FieldTypes
<1>9. Abstract(d, NewDocument, I)
  BY <1>4, <1>7, <1>8, FieldTypes DEF Abstract, Begun
<1>10. RecordOK(NewDocument, p, Idle)
  BY <1>4, <1>8, NewManifest, OpTypes, FieldTypes DEF RecordOK, Backed
<1>11. MemoryOK(NewDocument, p, Idle, I)
  BY <1>8, <1>10, OpTypes DEF MemoryOK
<1>12. AckedOK(d, TRUE, NewDocument, Idle, I, acked[d], sealed')
  <2> SUFFICES ASSUME d \notin sealed' PROVE acked[d] = {} /\ \A q \in I : Owed(q, acked[d])
    BY OpTypes DEF AckedOK
  <2>1. d \notin sealed
    BY DEF Begun
  <2>2. acked[d] = {} /\ \A q \in image[d] : Owed(q, acked[d])
    BY <1>3, <1>4, <2>1, Now DEF AckedOK
  <2> QED BY <1>1, <1>2, <2>2, Now
<1>13. Leaves(d, NewDocument, p, Idle, I, acked[d])
  BY <1>5, <1>6, <1>9, <1>11, <1>12 DEF Leaves
<1> QED BY <1>3, <1>5, <1>8, <1>13, Now, OpTypes DEF Works

LEMMA BeginFailsWorks ==
  ASSUME StorageInv, NEW d \in Doc, BeginFails(d)
  PROVE  Works(d)
<1>1. up /\ op[d].kind = "begin" /\ MemoryOK(mem[d], disk[d], op[d], image[d])
  BY Now DEF BeginFails, At
<1>2. mem[d] = NoDoc /\ disk[d].objects = NoDir
  BY <1>1 DEF MemoryOK
<1>3. Sets(d, NoDoc, disk[d], Idle, image[d], acked[d])
  BY <1>1, <1>2, Same DEF BeginFails, Sets
<1>4. Abstract(d, NoDoc, image[d])
  BY <1>2 DEF Abstract, BeginFails
<1>5. MemoryOK(NoDoc, disk[d], Idle, image[d])
  BY <1>2, OpTypes DEF MemoryOK
<1>6. AckedOK(d, TRUE, NoDoc, Idle, image[d], acked[d], sealed')
  BY <1>1, <1>2, Now, OpTypes DEF AckedOK, BeginFails
<1>7. Leaves(d, NoDoc, disk[d], Idle, image[d], acked[d])
  BY <1>3, <1>4, <1>5, <1>6, Now DEF Leaves
<1> QED BY <1>1, <1>7, Now, OpTypes DEF Works

\* storage_put_chunk.  The record of a document that does not have all its chunks.
LEMMA Unfinished ==
  ASSUME StorageInv, up, NEW d \in Doc, mem[d] # NoDoc, mem[d].state \in {CREATED, TRANSFERRING}
  PROVE  /\ mem[d] \in Document /\ RecordOK(mem[d], disk[d], op[d]) /\ Backed(disk[d].pending, mem[d])
         /\ disk[d].pending # NoDir /\ disk[d].objects = NoDir /\ Half(image[d])
<1>1. mem[d] \in Document /\ RecordOK(mem[d], disk[d], op[d])
  BY Now DEF MemoryOK
<1>2. disk[d].pending # NoDir /\ Backed(disk[d].pending, mem[d])
  BY <1>1 DEF RecordOK
<1>3. disk[d].objects = NoDir
  BY <1>2, Now DEF PlaceOK
<1> QED BY <1>1, <1>2, <1>3, Now DEF Half

\* A file that does not displace another leaves what is owed readable.
LEMMA FileKeepsOwed ==
  ASSUME NEW p \in Place, p.pending # NoDir, NEW i \in Chunk, NEW v \in Variant, NEW A \in SUBSET Chunk,
         Owed(p, A),
         A # {} => (p.pending.manifest.chunks[i] # NoChunk => Size[p.pending.manifest.chunks[i]] = Size[v])
  PROVE  Owed(WithFile(p, i, v), A)
<1>1. PICK q : q = WithFile(p, i, v)
  OBVIOUS
<1>2. /\ q \in Place /\ q.objects = p.objects /\ q.pending \in Dir /\ q.pending # NoDir
      /\ q.pending.manifest = p.pending.manifest
      /\ q.pending.files[i] = v /\ \A k \in Chunk \ {i} : q.pending.files[k] = p.pending.files[k]
  BY <1>1, SetFile, SMTT(60)
<1>3. ASSUME A # {} PROVE ReadablePending(q.pending)
  <2>1. ReadablePending(p.pending)
    BY <1>3 DEF Owed
  <2>2. ReadableChunks(q.pending)
    <3> SUFFICES ASSUME NEW k \in Chunk, q.pending.manifest.chunks[k] # NoChunk
                 PROVE  q.pending.files[k] # NoChunk /\ Size[q.pending.files[k]] = Size[q.pending.manifest.chunks[k]]
      BY DEF ReadableChunks
    <3>1. CASE k = i
      BY <1>2, <1>3, <3>1, StorageAssumption
    <3>2. CASE k # i
      BY <1>2, <2>1, <3>2 DEF ReadablePending, ReadableChunks
    <3> QED BY <3>1, <3>2
  <2> QED BY <1>2, <2>1, <2>2 DEF ReadablePending
<1>4. Owed(q, A)
  BY <1>2, <1>3 DEF Owed
<1> QED BY <1>1, <1>4

\* The record of a put, and that of a put that failed.
Recorded(s, i, v, st) == [state |-> st, chunks |-> [s.chunks EXCEPT ![i] = v]]

\* It differs from s in the state and in chunk i.
LEMMA PutRecord ==
  ASSUME NEW s \in Document, NEW i \in Chunk, NEW v \in Variant \cup {NoChunk}, NEW st \in {CREATED, TRANSFERRING},
         NEW t, t = Recorded(s, i, v, st)
  PROVE  /\ t \in Document /\ t # NoDoc /\ t.state = st
         /\ t.chunks[i] = v /\ \A k \in Chunk \ {i} : t.chunks[k] = s.chunks[k]
<1>1. PICK c : c = [s.chunks EXCEPT ![i] = v]
  OBVIOUS
<1>2. c \in Chunks /\ c[i] = v /\ \A k \in Chunk \ {i} : c[k] = s.chunks[k]
  BY <1>1, FieldTypes DEF Chunks
<1>3. t = [state |-> st, chunks |-> c]
  BY <1>1 DEF Recorded
<1>4. t \in Document /\ t.state = st /\ t.chunks = c
  BY <1>2, <1>3, SMTT(60) DEF Document
<1> QED BY <1>2, <1>4, FieldTypes

LEMMA PutWorks ==
  ASSUME StorageInv, NEW d \in Doc, NEW i \in Chunk, NEW v \in Variant, Put(d, i, v)
  PROVE  Works(d)
<1>1. up /\ mem[d] # NoDoc /\ mem[d].state # FINISHED /\ mem[d].chunks[i] = NoChunk
      /\ MemoryOK(mem[d], disk[d], op[d], image[d])
  BY Now DEF Put, Free
<1>2. mem[d] \in Document /\ mem[d].state \in {CREATED, TRANSFERRING}
  BY <1>1, Now, FieldTypes DEF MemoryOK, RecordOK
<1>3. /\ Backed(disk[d].pending, mem[d]) /\ disk[d].pending # NoDir
      /\ disk[d].objects = NoDir /\ Half(image[d])
  BY <1>1, <1>2, Unfinished
<1>4. PICK p : p = WithFile(disk[d], i, v)
  OBVIOUS
<1>5. /\ p \in Place /\ p.objects = NoDir /\ p.pending # NoDir
      /\ p.pending.manifest = disk[d].pending.manifest
      /\ p.pending.files[i] = v /\ \A k \in Chunk \ {i} : p.pending.files[k] = disk[d].pending.files[k]
  BY <1>3, <1>4, SetFile, Now, SMTT(60)
<1>6. PICK s : s = Recorded(mem[d], i, v, TRANSFERRING)
  OBVIOUS
<1>7. /\ s \in Document /\ s # NoDoc /\ s.state = TRANSFERRING
      /\ s.chunks[i] = v /\ \A k \in Chunk \ {i} : s.chunks[k] = mem[d].chunks[k]
  <2>1. v \in Variant \cup {NoChunk} /\ TRANSFERRING \in {CREATED, TRANSFERRING}
    OBVIOUS
  <2>2. PICK m \in Document : m = mem[d]
    BY <1>2
  <2>3. s = Recorded(m, i, v, TRANSFERRING)
    BY <1>6, <2>2
  <2>4. /\ s \in Document /\ s # NoDoc /\ s.state = TRANSFERRING
        /\ s.chunks[i] = v /\ \A k \in Chunk \ {i} : s.chunks[k] = m.chunks[k]
    BY <2>1, <2>3, PutRecord, SMTT(60)
  <2> QED BY <2>2, <2>4
<1>8. PICK o : o = [kind |-> "put", step |-> "files", chunk |-> i, prev |-> mem[d].state]
  OBVIOUS
<1>9. o \in Op /\ o.kind = "put" /\ o.step = "files" /\ o.chunk = i
  BY <1>2, <1>8 DEF Op
<1>10. PICK I : I = image[d] \cup {p}
  OBVIOUS
<1>11. PlaceOK(p)
  BY <1>3, <1>5, PendingPlace, Now DEF PlaceOK
<1>12. I \in SUBSET Place /\ p \in I /\ \A q \in I : PlaceOK(q)
  BY <1>5, <1>10, <1>11, Now
<1>13. PICK A : A = IF Displaces(d, i, v) THEN {} ELSE acked[d]
  OBVIOUS
<1>14. A \in SUBSET Chunk /\ acked' = [acked EXCEPT ![d] = A]
  <2>1. CASE Displaces(d, i, v)
    BY <1>13, <2>1 DEF Put
  <2>2. CASE ~Displaces(d, i, v)
    BY <1>13, <2>2, Now, Same DEF Put
  <2> QED BY <2>1, <2>2
<1>15. Sets(d, s, p, o, I, A)
  <2>1. /\ mem' = [mem EXCEPT ![d] = s] /\ op' = [op EXCEPT ![d] = o]
    BY <1>6, <1>8 DEF Put, Recorded, StorageInv
  <2>2. disk' = [disk EXCEPT ![d] = p] /\ image' = [image EXCEPT ![d] = I]
    BY <1>4, <1>10 DEF Put, Rename, WithFile
  <2> QED BY <1>14, <2>1, <2>2 DEF Sets, Put
<1>16. Abstract(d, s, I)
  BY <1>1, <1>3, <1>7, <1>10, FieldTypes DEF Abstract, Half, Put
<1>17. RecordOK(s, p, o)
  <2>1. Backed(p.pending, s)
    <3> SUFFICES ASSUME NEW k \in Chunk, s.chunks[k] # NoChunk
                 PROVE  p.pending.files[k] # NoChunk /\ Size[p.pending.files[k]] = Size[s.chunks[k]]
      BY DEF Backed
    <3>1. CASE k = i
      BY <1>5, <1>7, <3>1, StorageAssumption
    <3>2. CASE k # i
      BY <1>3, <1>5, <1>7, <3>2 DEF Backed
    <3> QED BY <3>1, <3>2
  <2> QED BY <1>5, <1>7, <1>9, <2>1, FieldTypes DEF RecordOK
<1>18. MemoryOK(s, p, o, I)
  <2>1. PutOK(s, p, o)
    BY <1>7, <1>9, StorageAssumption DEF PutOK
  <2> QED BY <1>7, <1>9, <1>17, <2>1 DEF MemoryOK
<1>19. AckedOK(d, TRUE, s, o, I, A, sealed')
  <2> SUFFICES ASSUME d \notin sealed'
               PROVE  (\A q \in I : Owed(q, A)) /\ (\A k \in A : s.chunks[k] # NoChunk) /\ i \notin A
    BY <1>7, <1>9 DEF AckedOK
  <2>1. (\A q \in image[d] : Owed(q, acked[d])) /\ \A k \in acked[d] : mem[d].chunks[k] # NoChunk
    BY <1>1, Now DEF AckedOK, Put
  <2>2. i \notin acked[d]
    BY <1>1, <2>1
  <2>3. (\A k \in A : s.chunks[k] # NoChunk) /\ i \notin A
    BY <1>7, <1>13, <2>1, <2>2, Now
  <2>4. \A q \in image[d] : Owed(q, A)
    BY <1>13, <2>1 DEF Owed
  <2>5. Owed(p, A)
    <3>1. A # {} => (disk[d].pending.manifest.chunks[i] # NoChunk => Size[disk[d].pending.manifest.chunks[i]] = Size[v])
      BY <1>13 DEF Displaces
    <3>2. Owed(disk[d], A)
      BY <2>4, Now
    <3> QED BY <1>3, <1>4, <1>14, <3>1, <3>2, FileKeepsOwed, Now
  <2> QED BY <1>10, <2>3, <2>4, <2>5
<1>20. Leaves(d, s, p, o, I, A)
  BY <1>12, <1>15, <1>16, <1>18, <1>19 DEF Leaves
<1> QED BY <1>1, <1>5, <1>7, <1>9, <1>12, <1>14, <1>20 DEF Works

\* What holds while storage_put_chunk is under way.
LEMMA Putting ==
  ASSUME StorageInv, up, NEW d \in Doc, op[d].kind = "put"
  PROVE  /\ mem[d] \in Document /\ mem[d] # NoDoc /\ mem[d].state = TRANSFERRING
         /\ PutOK(mem[d], disk[d], op[d]) /\ RecordOK(mem[d], disk[d], op[d]) /\ Backed(disk[d].pending, mem[d])
         /\ disk[d].pending # NoDir /\ disk[d].objects = NoDir /\ Half(image[d])
         /\ op[d].chunk \in Chunk /\ op[d].prev \in {CREATED, TRANSFERRING}
         /\ d \notin sealed => /\ \A q \in image[d] : Owed(q, acked[d])
                               /\ \A k \in acked[d] : mem[d].chunks[k] # NoChunk
                               /\ op[d].chunk \notin acked[d]
<1>1. PutOK(mem[d], disk[d], op[d]) /\ mem[d] # NoDoc /\ mem[d].state = TRANSFERRING
  BY Now DEF MemoryOK, PutOK
<1>2. op[d].chunk \in Chunk /\ op[d].prev \in {CREATED, TRANSFERRING}
  BY Now, OpTypes
<1>3. d \notin sealed => /\ \A q \in image[d] : Owed(q, acked[d])
                         /\ \A k \in acked[d] : mem[d].chunks[k] # NoChunk
                         /\ op[d].chunk \notin acked[d]
  BY Now DEF AckedOK
<1> QED BY <1>1, <1>2, <1>3, Unfinished

LEMMA PutSyncWorks ==
  ASSUME StorageInv, NEW d \in Doc, PutSync(d)
  PROVE  Works(d)
<1>1. up /\ op[d].kind = "put"
  BY DEF PutSync, At
<1>2. PICK o : o = [op[d] EXCEPT !.step = "manifest"]
  OBVIOUS
<1>3. o \in Op /\ o.kind = "put" /\ o.step = "manifest" /\ o.chunk = op[d].chunk
  <2>1. PICK u \in Op : u = op[d]
    BY Now
  <2>2. u.kind = "put" /\ "manifest" \in {"files", "manifest", "sync"} /\ o = [u EXCEPT !.step = "manifest"]
    BY <1>1, <1>2, <2>1
  <2>3. o \in Op /\ o.kind = u.kind /\ o.step = "manifest" /\ o.chunk = u.chunk
    BY <2>2, AdvanceIs, SMTT(60)
  <2> QED BY <2>1, <2>2, <2>3
<1>4. PICK I : I = {disk[d]}
  OBVIOUS
<1>5. op' = [op EXCEPT ![d] = o]
  BY <1>2, Advances DEF PutSync
<1>6. Sets(d, mem[d], disk[d], o, I, acked[d])
  BY <1>4, <1>5, Same DEF PutSync, Sync, Sets
<1>7. Abstract(d, mem[d], I)
  BY <1>1, <1>4, Putting, FieldTypes DEF Abstract, Half, PutSync
<1>8. MemoryOK(mem[d], disk[d], o, I)
  <2>1. RecordOK(mem[d], disk[d], o)
    BY <1>1, <1>3, Putting, FieldTypes DEF RecordOK
  <2>2. PutOK(mem[d], disk[d], o)
    BY <1>1, <1>3, Putting DEF PutOK
  <2> QED BY <1>1, <1>3, <2>1, <2>2, Putting DEF MemoryOK
<1>9. AckedOK(d, TRUE, mem[d], o, I, acked[d], sealed')
  <2>1. sealed' = sealed
    BY DEF PutSync
  <2>2. d \notin sealed => Owed(disk[d], acked[d])
    BY <1>1, Putting, Now
  <2> QED BY <1>1, <1>3, <1>4, <2>1, <2>2, Putting DEF AckedOK
<1>10. I \in SUBSET Place /\ disk[d] \in I /\ \A q \in I : PlaceOK(q)
  BY <1>4, Now
<1>11. Leaves(d, mem[d], disk[d], o, I, acked[d])
  BY <1>6, <1>7, <1>8, <1>9, <1>10 DEF Leaves
<1> QED BY <1>1, <1>3, <1>10, <1>11, Now DEF Works

\* A manifest that names the files of the directory keeps what is owed readable.
LEMMA ManifestOwes ==
  ASSUME NEW p \in Place, p.pending # NoDir, p.objects = NoDir, NEW s \in Document, s.state = TRANSFERRING,
         Backed(p.pending, s), NEW A \in SUBSET Chunk, \A k \in A : s.chunks[k] # NoChunk,
         p.pending.manifest = s
  PROVE  Owed(p, A)
<1>1. p.pending.manifest # NoDoc /\ p.pending.manifest.state # FINISHED
  BY FieldTypes
<1>2. ReadableChunks(p.pending)
  BY DEF ReadableChunks, Backed
<1>3. ReadablePending(p.pending)
  BY <1>1, <1>2 DEF ReadablePending
<1> QED BY <1>1, <1>3 DEF Owed

LEMMA PutManifestWorks ==
  ASSUME StorageInv, NEW d \in Doc, PutManifest(d)
  PROVE  Works(d)
<1>1. up /\ op[d].kind = "put"
  BY DEF PutManifest, At
<1>2. PICK s \in Document : s = mem[d]
  BY <1>1, Putting
<1>3. /\ s # NoDoc /\ s.state = TRANSFERRING /\ Backed(disk[d].pending, s)
      /\ disk[d].pending # NoDir /\ disk[d].objects = NoDir /\ Half(image[d]) /\ s.chunks[op[d].chunk] # NoChunk
  BY <1>1, <1>2, Putting DEF PutOK
<1>4. Manifest(s) = s
  BY <1>3, ManifestIs, FieldTypes
<1>5. PICK p : p = WithManifest(disk[d], s)
  OBVIOUS
<1>6. /\ p \in Place /\ p.objects = NoDir /\ p.pending \in Dir /\ p.pending # NoDir
      /\ p.pending.manifest = s /\ p.pending.files = disk[d].pending.files
  BY <1>3, <1>5, SetManifest, Now, SMTT(60)
<1>7. PICK o : o = [op[d] EXCEPT !.step = "sync"]
  OBVIOUS
<1>8. o \in Op /\ o.kind = "put" /\ o.step = "sync" /\ o.chunk = op[d].chunk
  <2>1. PICK u \in Op : u = op[d]
    BY Now
  <2>2. u.kind = "put" /\ "sync" \in {"files", "manifest", "sync"} /\ o = [u EXCEPT !.step = "sync"]
    BY <1>1, <1>7, <2>1
  <2>3. o \in Op /\ o.kind = u.kind /\ o.step = "sync" /\ o.chunk = u.chunk
    BY <2>2, AdvanceIs, SMTT(60)
  <2> QED BY <2>1, <2>2, <2>3
<1>9. PICK I : I = image[d] \cup {p}
  OBVIOUS
<1>10. op' = [op EXCEPT ![d] = o]
  BY <1>7, Advances DEF PutManifest
<1>11. Sets(d, s, p, o, I, acked[d])
  <2>1. disk' = [disk EXCEPT ![d] = p] /\ image' = [image EXCEPT ![d] = I]
    BY <1>2, <1>4, <1>5, <1>9 DEF PutManifest, Rename, WithManifest
  <2> QED BY <1>2, <1>10, <2>1, Same DEF Sets, PutManifest
<1>12. Abstract(d, s, I)
  BY <1>2, <1>3, <1>9, FieldTypes DEF Abstract, Half, PutManifest
<1>13. Backed(p.pending, s)
  BY <1>3, <1>6 DEF Backed
<1>14. MemoryOK(s, p, o, I)
  <2>1. RecordOK(s, p, o)
    BY <1>3, <1>6, <1>8, <1>13, FieldTypes DEF RecordOK
  <2>2. PutOK(s, p, o)
    BY <1>3, <1>6, <1>8 DEF PutOK
  <2> QED BY <1>3, <1>8, <2>1, <2>2 DEF MemoryOK
<1>15. AckedOK(d, TRUE, s, o, I, acked[d], sealed')
  <2> SUFFICES ASSUME d \notin sealed
               PROVE  /\ \A q \in I : Owed(q, acked[d])
                      /\ \A k \in acked[d] : s.chunks[k] # NoChunk
                      /\ op[d].chunk \notin acked[d]
    BY <1>3, <1>8 DEF AckedOK, PutManifest
  <2>1. /\ \A q \in image[d] : Owed(q, acked[d])
        /\ \A k \in acked[d] : s.chunks[k] # NoChunk
        /\ op[d].chunk \notin acked[d]
    BY <1>1, <1>2, Putting
  <2>2. Owed(p, acked[d])
    BY <1>3, <1>6, <1>13, <2>1, ManifestOwes, Now
  <2> QED BY <1>9, <2>1, <2>2
<1>16. PlaceOK(p)
  BY <1>3, <1>6, PendingPlace, FieldTypes
<1>17. I \in SUBSET Place /\ p \in I /\ \A q \in I : PlaceOK(q)
  BY <1>6, <1>9, <1>16, Now
<1>18. Leaves(d, s, p, o, I, acked[d])
  BY <1>11, <1>12, <1>14, <1>15, <1>17 DEF Leaves
<1> QED BY <1>1, <1>6, <1>8, <1>17, <1>18, Now DEF Works

LEMMA PutDoneWorks ==
  ASSUME StorageInv, NEW d \in Doc, PutDone(d)
  PROVE  Works(d)
<1>1. up /\ op[d].kind = "put" /\ op[d].step = "sync"
  BY DEF PutDone, At
<1>2. PICK s \in Document : s = mem[d]
  BY <1>1, Putting
<1>3. /\ s # NoDoc /\ s.state = TRANSFERRING /\ Backed(disk[d].pending, s)
      /\ disk[d].pending # NoDir /\ disk[d].objects = NoDir /\ Half(image[d])
      /\ disk[d].pending.manifest = s /\ s.chunks[op[d].chunk] # NoChunk /\ op[d].chunk \in Chunk
  BY <1>1, <1>2, Putting DEF PutOK
<1>4. PICK I : I = {disk[d]}
  OBVIOUS
<1>5. PICK A : A = acked[d] \cup {op[d].chunk}
  OBVIOUS
<1>6. A \in SUBSET Chunk
  BY <1>3, <1>5, Now
<1>7. Sets(d, s, disk[d], Idle, I, A)
  BY <1>2, <1>4, <1>5, Same DEF PutDone, Sync, Sets
<1>8. Abstract(d, s, I)
  BY <1>2, <1>3, <1>4, FieldTypes DEF Abstract, Half, PutDone
<1>9. MemoryOK(s, disk[d], Idle, I)
  <2>1. RecordOK(s, disk[d], Idle)
    BY <1>3, OpTypes, FieldTypes DEF RecordOK
  <2> QED BY <1>3, <2>1, OpTypes DEF MemoryOK
<1>10. AckedOK(d, TRUE, s, Idle, I, A, sealed')
  <2> SUFFICES ASSUME d \notin sealed
               PROVE  (\A q \in I : Owed(q, A)) /\ \A k \in A : s.chunks[k] # NoChunk
    BY <1>3, OpTypes DEF AckedOK, PutDone
  <2>1. \A k \in A : s.chunks[k] # NoChunk
    BY <1>1, <1>2, <1>3, <1>5, Putting
  <2>2. Owed(disk[d], A)
    BY <1>3, <1>6, <2>1, ManifestOwes, Now
  <2> QED BY <1>4, <2>1, <2>2
<1>11. I \in SUBSET Place /\ disk[d] \in I /\ \A q \in I : PlaceOK(q)
  BY <1>4, Now
<1>12. Leaves(d, s, disk[d], Idle, I, A)
  BY <1>7, <1>8, <1>9, <1>10, <1>11 DEF Leaves
<1> QED BY <1>1, <1>6, <1>11, <1>12, Now, OpTypes DEF Works

LEMMA PutFailsWorks ==
  ASSUME StorageInv, NEW d \in Doc, PutFails(d)
  PROVE  Works(d)
<1>1. up /\ op[d].kind = "put"
  BY DEF PutFails, At
<1>2. PICK m \in Document : m = mem[d]
  BY <1>1, Putting
<1>3. /\ m # NoDoc /\ m.state = TRANSFERRING /\ Backed(disk[d].pending, m) /\ disk[d].pending # NoDir
      /\ disk[d].objects = NoDir /\ op[d].chunk \in Chunk /\ op[d].prev \in {CREATED, TRANSFERRING}
  BY <1>1, <1>2, Putting
<1>4. PICK i \in Chunk : i = op[d].chunk
  BY <1>3
<1>5. PICK st \in {CREATED, TRANSFERRING} : st = op[d].prev
  BY <1>3
<1>6. PICK s : s = Recorded(m, i, NoChunk, st)
  OBVIOUS
<1>7. /\ s \in Document /\ s # NoDoc /\ s.state = st
      /\ s.chunks[i] = NoChunk /\ \A k \in Chunk \ {i} : s.chunks[k] = m.chunks[k]
  <2>1. NoChunk \in Variant \cup {NoChunk}
    OBVIOUS
  <2> QED BY <1>6, <2>1, PutRecord, SMTT(60)
<1>8. Sets(d, s, disk[d], Idle, image[d], acked[d])
  <2>1. mem' = [mem EXCEPT ![d] = s]
    BY <1>2, <1>4, <1>5, <1>6 DEF PutFails, Recorded, StorageInv
  <2> QED BY <2>1, Same DEF PutFails, Sets
<1>9. Abstract(d, s, image[d])
  BY <1>2, <1>3, <1>7, FieldTypes DEF Abstract, PutFails
<1>10. MemoryOK(s, disk[d], Idle, image[d])
  <2>1. Backed(disk[d].pending, s)
    BY <1>3, <1>7 DEF Backed
  <2>2. RecordOK(s, disk[d], Idle)
    BY <1>3, <1>7, <2>1, OpTypes, FieldTypes DEF RecordOK
  <2> QED BY <1>7, <2>2, OpTypes DEF MemoryOK
<1>11. AckedOK(d, TRUE, s, Idle, image[d], acked[d], sealed')
  <2> SUFFICES ASSUME d \notin sealed
               PROVE  (\A q \in image[d] : Owed(q, acked[d])) /\ \A k \in acked[d] : s.chunks[k] # NoChunk
    BY <1>7, OpTypes DEF AckedOK, PutFails
  <2>1. /\ \A q \in image[d] : Owed(q, acked[d])
        /\ \A k \in acked[d] : m.chunks[k] # NoChunk
        /\ i \notin acked[d] /\ acked[d] \in SUBSET Chunk
    BY <1>1, <1>2, <1>4, Putting, Now
  <2> QED BY <1>7, <2>1
<1>12. Leaves(d, s, disk[d], Idle, image[d], acked[d])
  BY <1>8, <1>9, <1>10, <1>11, Now DEF Leaves
<1> QED BY <1>1, <1>7, <1>12, Now, OpTypes DEF Works

\* storage_commit.  What holds while it is under way.
LEMMA Committing ==
  ASSUME StorageInv, up, NEW d \in Doc, op[d].kind = "commit"
  PROVE  /\ mem[d] \in Document /\ mem[d] # NoDoc /\ mem[d].state = VERIFYING
         /\ CommitOK(mem[d], disk[d], op[d], image[d]) /\ RecordOK(mem[d], disk[d], op[d])
         /\ d \notin sealed => op[d].step = "manifest"
<1>1. CommitOK(mem[d], disk[d], op[d], image[d]) /\ mem[d] # NoDoc /\ mem[d].state = VERIFYING
  BY Now DEF MemoryOK, CommitOK
<1>2. RecordOK(mem[d], disk[d], op[d]) /\ mem[d] \in Document
  BY <1>1, Now DEF MemoryOK
<1>3. d \notin sealed => op[d].step = "manifest"
  BY Now DEF AckedOK
<1> QED BY <1>1, <1>2, <1>3

\* A step of storage_commit that leaves the state VERIFYING keeps the record's part.
LEMMA VerifyingMemory ==
  ASSUME NEW s \in Document, s # NoDoc, s.state = VERIFYING, \A i \in Chunk : s.chunks[i] # NoChunk,
         NEW p \in Place, p.pending # NoDir => Backed(p.pending, s),
         NEW o \in Op, o.kind \in {"idle", "commit"}, NEW I, o.kind = "commit" => CommitOK(s, p, o, I)
  PROVE  MemoryOK(s, p, o, I)
<1>1. RecordOK(s, p, o)
  BY FieldTypes DEF RecordOK
<1> QED BY <1>1 DEF MemoryOK

\* A step of storage_commit after which the document is sealed, or which writes nothing.
LEMMA CommitStep ==
  ASSUME StorageInv, NEW d \in Doc, up, op[d].kind = "commit", NEW p \in Place, NEW o \in Op, NEW I \in SUBSET Place,
         Sets(d, mem[d], p, o, I, acked[d]), published' = published,
         I = image[d] \/ (Half(image[d]) /\ Half(I)),
         p \in I, \A q \in I : PlaceOK(q),
         p.pending # NoDir => Backed(p.pending, mem[d]),
         o.kind \in {"idle", "commit"}, o.kind = "commit" => CommitOK(mem[d], p, o, I),
         d \in sealed' \/ (I = image[d] /\ o.kind = "idle")
  PROVE  Works(d)
<1>1. PICK s \in Document : s = mem[d]
  BY Committing
<1>2. s # NoDoc /\ s.state = VERIFYING /\ \A i \in Chunk : s.chunks[i] # NoChunk
  BY <1>1, Committing DEF RecordOK
<1>3. MemoryOK(s, p, o, I)
  BY <1>1, <1>2, VerifyingMemory
<1>4. Abstract(d, s, I)
  BY <1>1, <1>2, FieldTypes DEF Abstract
<1>5. AckedOK(d, TRUE, s, o, I, acked[d], sealed')
  <2>1. CASE d \in sealed'
    BY <2>1 DEF AckedOK
  <2>2. CASE d \notin sealed'
    <3>1. I = image[d] /\ o.kind = "idle" /\ d \notin sealed
      BY <2>2 DEF Sets
    <3> QED BY <1>1, <1>2, <3>1, Now DEF AckedOK
  <2> QED BY <2>1, <2>2
<1>6. Leaves(d, s, p, o, I, acked[d])
  BY <1>1, <1>3, <1>4, <1>5 DEF Leaves
<1> QED BY <1>6, Now DEF Works

LEMMA CommitWorks ==
  ASSUME StorageInv, NEW d \in Doc, Commit(d)
  PROVE  Works(d)
<1>1. up /\ op[d] = Idle /\ mem[d] # NoDoc /\ mem[d].state # FINISHED /\ \A i \in Chunk : mem[d].chunks[i] # NoChunk
  BY DEF Commit, Free, Complete
<1>2. mem[d] \in Document /\ RecordOK(mem[d], disk[d], op[d])
  BY <1>1, Now DEF MemoryOK
<1>3. PICK m \in Document : m = mem[d]
  BY <1>2
<1>4. PICK s : s = [m EXCEPT !.state = VERIFYING]
  OBVIOUS
<1>5. s \in Document /\ s # NoDoc /\ s.state = VERIFYING /\ s.chunks = m.chunks
  <2>1. s \in Document /\ s.state = VERIFYING /\ s.chunks = m.chunks
    BY <1>4 DEF Document
  <2> QED BY <2>1, FieldTypes
<1>6. PICK o : o = IF PendingVerified(d) THEN [kind |-> "commit", step |-> "manifest"] ELSE Idle
  OBVIOUS
<1>7. o \in Op /\ o.kind \in {"idle", "commit"} /\ (o.kind = "commit" => o.step = "manifest" /\ PendingVerified(d))
  <2>1. CASE PendingVerified(d)
    BY <1>6, <2>1 DEF Op
  <2>2. CASE ~PendingVerified(d)
    BY <1>6, <2>2, OpTypes
  <2> QED BY <2>1, <2>2
<1>8. op' = [op EXCEPT ![d] = o]
  <2>1. CASE PendingVerified(d)
    BY <1>6, <2>1 DEF Commit
  <2>2. CASE ~PendingVerified(d)
    BY <1>1, <1>6, <2>2, Same DEF Commit
  <2> QED BY <2>1, <2>2
<1>9. Sets(d, s, disk[d], o, image[d], acked[d])
  <2>1. mem' = [mem EXCEPT ![d] = s]
    BY <1>3, <1>4 DEF Commit, StorageInv
  <2> QED BY <1>8, <2>1, Same DEF Commit, Sets
<1>10. Abstract(d, s, image[d])
  BY <1>1, <1>5, FieldTypes DEF Abstract, Commit
<1>11. disk[d].pending # NoDir => Backed(disk[d].pending, s)
  BY <1>2, <1>3, <1>5 DEF RecordOK, Backed
<1>12. o.kind = "commit" => CommitOK(s, disk[d], o, image[d])
  <2>1. o.kind = "commit" => disk[d].pending # NoDir /\ Verified(disk[d].pending, s)
    BY <1>3, <1>5, <1>7 DEF PendingVerified, Verified
  <2> QED BY <1>5, <1>7, <2>1 DEF CommitOK
<1>13. MemoryOK(s, disk[d], o, image[d])
  <2>1. \A i \in Chunk : s.chunks[i] # NoChunk
    BY <1>1, <1>3, <1>5
  <2> QED BY <1>5, <1>7, <1>11, <1>12, <2>1, VerifyingMemory, Now
<1>14. AckedOK(d, TRUE, s, o, image[d], acked[d], sealed')
  <2>1. d \notin sealed => \A q \in image[d] : Owed(q, acked[d])
    BY Now DEF AckedOK
  <2>2. \A i \in acked[d] : s.chunks[i] # NoChunk
    BY <1>1, <1>3, <1>5, Now
  <2> QED BY <1>5, <1>7, <2>1, <2>2 DEF AckedOK, Commit
<1>15. Leaves(d, s, disk[d], o, image[d], acked[d])
  BY <1>9, <1>10, <1>13, <1>14, Now DEF Leaves
<1> QED BY <1>1, <1>5, <1>7, <1>15, Now DEF Works

\* The steps of storage_commit, as steps of the mutex holder.
LEMMA AdvanceCommit ==
  ASSUME StorageInv, NEW d \in Doc, op[d].kind = "commit",
         NEW step \in {"manifest", "sync", "publish", "parents", "back"}, Advance(d, step)
  PROVE  \E o \in Op : o.kind = "commit" /\ o.step = step /\ op' = [op EXCEPT ![d] = o]
<1>1. PICK u \in Op : u = op[d]
  BY Now
<1>2. PICK o : o = [u EXCEPT !.step = step]
  OBVIOUS
<1>3. u.kind = "commit"
  BY <1>1
<1>4. o \in Op /\ o.kind = u.kind /\ o.step = step
  BY <1>2, <1>3, AdvanceIs, SMTT(60)
<1>5. op' = [op EXCEPT ![d] = o]
  BY <1>1, <1>2, Advances
<1> QED BY <1>3, <1>4, <1>5

LEMMA CommitManifestWorks ==
  ASSUME StorageInv, NEW d \in Doc, CommitManifest(d)
  PROVE  Works(d)
<1>1. up /\ op[d].kind = "commit" /\ op[d].step = "manifest"
  BY DEF CommitManifest, At
<1>2. PICK s \in Document : s = mem[d]
  BY <1>1, Committing
<1>3. /\ s # NoDoc /\ s.state = VERIFYING /\ disk[d].pending # NoDir /\ Verified(disk[d].pending, s)
      /\ Backed(disk[d].pending, s)
  BY <1>1, <1>2, Committing DEF CommitOK, RecordOK
<1>4. PICK M \in Document : M = Manifest(s)
  BY ManifestIs
<1>5. M.state # VERIFYING
  BY <1>4, ManifestIs
<1>6. PICK p : p = WithManifest(disk[d], M)
  OBVIOUS
<1>7. disk[d].objects = NoDir
  BY <1>3, Now DEF PlaceOK
<1>8. /\ p \in Place /\ p.objects = NoDir /\ p.pending # NoDir
      /\ p.pending.manifest = M /\ p.pending.files = disk[d].pending.files
  BY <1>3, <1>6, <1>7, SetManifest, Now, SMTT(60)
<1>9. PICK o \in Op : o.kind = "commit" /\ o.step = "sync" /\ op' = [op EXCEPT ![d] = o]
  BY <1>1, AdvanceCommit DEF CommitManifest
<1>10. PICK I : I = image[d] \cup {p}
  OBVIOUS
<1>11. Sets(d, mem[d], p, o, I, acked[d])
  <2>1. disk' = [disk EXCEPT ![d] = p] /\ image' = [image EXCEPT ![d] = I]
    BY <1>2, <1>4, <1>6, <1>10 DEF CommitManifest, Rename, WithManifest
  <2> QED BY <1>9, <2>1, Same DEF Sets, CommitManifest
<1>12. Half(image[d]) /\ Half(I)
  BY <1>7, <1>10, Now DEF Half
<1>13. PlaceOK(p)
  BY <1>5, <1>8, PendingPlace
<1>14. I \in SUBSET Place /\ p \in I /\ \A q \in I : PlaceOK(q)
  BY <1>8, <1>10, <1>13, Now
<1>15. Backed(p.pending, mem[d]) /\ Verified(p.pending, mem[d])
  BY <1>2, <1>3, <1>8 DEF Backed, Verified
<1>16. CommitOK(mem[d], p, o, I)
  BY <1>2, <1>3, <1>4, <1>8, <1>9, <1>15 DEF CommitOK
<1>17. d \in sealed' /\ published' = published
  BY DEF CommitManifest
<1> QED BY <1>1, <1>8, <1>9, <1>11, <1>12, <1>14, <1>15, <1>16, <1>17, CommitStep

\* The steps that come after the final manifest: the document is sealed.
LEMMA Sealed ==
  ASSUME StorageInv, NEW d \in Doc, up, op[d].kind = "commit", op[d].step # "manifest"
  PROVE  d \in sealed
  BY Committing

LEMMA CommitSyncWorks ==
  ASSUME StorageInv, NEW d \in Doc, CommitSync(d)
  PROVE  Works(d)
<1>1. up /\ op[d].kind = "commit" /\ op[d].step = "sync"
  BY DEF CommitSync, At
<1>2. /\ mem[d] # NoDoc /\ mem[d].state = VERIFYING /\ disk[d].pending # NoDir /\ Verified(disk[d].pending, mem[d])
      /\ disk[d].pending.manifest = Manifest(mem[d]) /\ Backed(disk[d].pending, mem[d])
  BY <1>1, Committing DEF CommitOK, RecordOK
<1>3. disk[d].objects = NoDir
  BY <1>2, Now DEF PlaceOK
<1>4. PICK o \in Op : o.kind = "commit" /\ o.step = "publish" /\ op' = [op EXCEPT ![d] = o]
  BY <1>1, AdvanceCommit DEF CommitSync
<1>5. PICK I : I = {disk[d]}
  OBVIOUS
<1>6. Sets(d, mem[d], disk[d], o, I, acked[d])
  BY <1>4, <1>5, Same DEF Sets, Sync, CommitSync
<1>7. Half(image[d]) /\ Half(I)
  BY <1>3, <1>5, Now DEF Half
<1>8. I \in SUBSET Place /\ disk[d] \in I /\ \A q \in I : PlaceOK(q)
  BY <1>5, Now
<1>9. CommitOK(mem[d], disk[d], o, I)
  BY <1>2, <1>4 DEF CommitOK
<1>10. d \in sealed' /\ published' = published
  BY <1>1, Sealed DEF CommitSync
<1> QED BY <1>1, <1>2, <1>4, <1>6, <1>7, <1>8, <1>9, <1>10, CommitStep, Now, SMTT(60)

\* A verified directory with the final manifest is readable in objects.
LEMMA VerifiedReadable ==
  ASSUME NEW dir \in Dir, NEW s \in Document, s.state = VERIFYING, dir.manifest = Manifest(s), Verified(dir, s)
  PROVE  ReadableFinal(dir) /\ dir.manifest.state = FINISHED
<1>1. /\ dir.manifest \in Document /\ dir.manifest.state = FINISHED /\ dir.manifest.chunks = s.chunks
      /\ dir # NoDir /\ dir.manifest # NoDoc
  BY ManifestIs, FieldTypes
<1>2. Verified(dir, dir.manifest)
  BY <1>1 DEF Verified
<1>3. ReadableChunks(dir)
  BY <1>2 DEF Verified, ReadableChunks
<1> QED BY <1>1, <1>2, <1>3 DEF ReadableFinal

LEMMA PublishWorks ==
  ASSUME StorageInv, NEW d \in Doc, Publish(d)
  PROVE  Works(d)
<1>1. up /\ op[d].kind = "commit" /\ op[d].step = "publish"
  BY DEF Publish, At
<1>2. /\ mem[d] \in Document /\ mem[d] # NoDoc /\ mem[d].state = VERIFYING
      /\ disk[d].pending # NoDir /\ Verified(disk[d].pending, mem[d])
      /\ disk[d].pending.manifest = Manifest(mem[d])
  BY <1>1, Committing DEF CommitOK
<1>3. disk[d].objects = NoDir
  BY <1>2, Now DEF PlaceOK
<1>4. PICK dir \in Dir : dir = disk[d].pending
  BY <1>2, Now, FieldTypes
<1>5. ReadableFinal(dir) /\ dir.manifest.state = FINISHED
  BY <1>2, <1>4, VerifiedReadable
<1>6. PICK p : p = [pending |-> NoDir, objects |-> dir]
  OBVIOUS
<1>7. p \in Place /\ p.pending = NoDir /\ p.objects = dir /\ p.objects # NoDir
  BY <1>2, <1>4, <1>6 DEF Place
<1>8. PlaceOK(p)
  BY <1>5, <1>7 DEF PlaceOK
<1>9. PICK o \in Op : o.kind = "commit" /\ o.step = "parents" /\ op' = [op EXCEPT ![d] = o]
  BY <1>1, AdvanceCommit DEF Publish
<1>10. PICK I : I = image[d] \cup {p}
  OBVIOUS
<1>11. Sets(d, mem[d], p, o, I, acked[d])
  <2>1. disk' = [disk EXCEPT ![d] = p] /\ image' = [image EXCEPT ![d] = I]
    BY <1>4, <1>6, <1>10 DEF Publish, Rename
  <2> QED BY <1>9, <2>1, Same DEF Sets, Publish
<1>12. Half(image[d]) /\ Half(I)
  BY <1>3, <1>10, Now DEF Half
<1>13. I \in SUBSET Place /\ p \in I /\ \A q \in I : PlaceOK(q)
  BY <1>7, <1>8, <1>10, Now
<1>14. CommitOK(mem[d], p, o, I)
  BY <1>2, <1>4, <1>7, <1>9, <1>12 DEF CommitOK, Half
<1>15. d \in sealed' /\ published' = published
  BY <1>1, Sealed DEF Publish
<1> QED BY <1>1, <1>7, <1>9, <1>11, <1>12, <1>13, <1>14, <1>15, CommitStep

\* What holds once the directory is in objects.
LEMMA InObjects ==
  ASSUME StorageInv, NEW d \in Doc, up, op[d].kind = "commit", op[d].step \in {"parents", "back"}
  PROVE  /\ mem[d] \in Document /\ mem[d] # NoDoc /\ mem[d].state = VERIFYING
         /\ disk[d].objects # NoDir /\ disk[d].pending = NoDir
         /\ Verified(disk[d].objects, mem[d]) /\ Half(image[d]) /\ d \in sealed
<1>1. /\ mem[d] \in Document /\ mem[d] # NoDoc /\ mem[d].state = VERIFYING
      /\ disk[d].objects # NoDir /\ Verified(disk[d].objects, mem[d]) /\ Half(image[d])
  BY Committing DEF CommitOK, Half
<1> QED BY <1>1, Sealed, Now DEF PlaceOK

LEMMA PublishedWorks ==
  ASSUME StorageInv, NEW d \in Doc, Published(d)
  PROVE  Works(d) /\ mem'[d] # NoDoc /\ mem'[d].state = FINISHED
<1>1. up /\ op[d].kind = "commit" /\ op[d].step = "parents"
  BY DEF Published, At
<1>2. PICK m \in Document : m = mem[d]
  BY <1>1, InObjects
<1>3. disk[d].objects # NoDir /\ disk[d].pending = NoDir /\ d \in sealed
  BY <1>1, InObjects
<1>4. PICK s : s = [m EXCEPT !.state = FINISHED]
  OBVIOUS
<1>5. s \in Document /\ s # NoDoc /\ s.state = FINISHED
  <2>1. s \in Document /\ s.state = FINISHED
    BY <1>4 DEF Document
  <2> QED BY <2>1, FieldTypes
<1>6. PICK I : I = {disk[d]}
  OBVIOUS
<1>7. mem' = [mem EXCEPT ![d] = s] /\ mem'[d] = s
  BY <1>2, <1>4 DEF Published, StorageInv
<1>8. Sets(d, s, disk[d], Idle, I, acked[d])
  BY <1>6, <1>7, Same DEF Sets, Sync, Published
<1>9. Abstract(d, s, I)
  BY <1>3, <1>5, <1>6 DEF Abstract, Half, Published
<1>10. MemoryOK(s, disk[d], Idle, I)
  <2>1. RecordOK(s, disk[d], Idle)
    BY <1>3, <1>5, OpTypes, FieldTypes DEF RecordOK
  <2> QED BY <1>5, <2>1, OpTypes DEF MemoryOK
<1>11. AckedOK(d, TRUE, s, Idle, I, acked[d], sealed')
  BY <1>3 DEF AckedOK, Published
<1>12. I \in SUBSET Place /\ disk[d] \in I /\ \A q \in I : PlaceOK(q)
  BY <1>6, Now
<1>13. Leaves(d, s, disk[d], Idle, I, acked[d])
  BY <1>8, <1>9, <1>10, <1>11, <1>12 DEF Leaves
<1>14. Works(d)
  BY <1>1, <1>5, <1>12, <1>13, Now, OpTypes DEF Works
<1> QED BY <1>5, <1>7, <1>14

LEMMA NotPublishedWorks ==
  ASSUME StorageInv, NEW d \in Doc, NotPublished(d)
  PROVE  Works(d)
<1>1. up /\ op[d].kind = "commit" /\ op[d].step = "parents"
  BY DEF NotPublished, At
<1>2. PICK o \in Op : o.kind = "commit" /\ o.step = "back" /\ op' = [op EXCEPT ![d] = o]
  BY <1>1, AdvanceCommit DEF NotPublished
<1>3. Sets(d, mem[d], disk[d], o, image[d], acked[d])
  BY <1>2, Same DEF Sets, NotPublished
<1>4. CommitOK(mem[d], disk[d], o, image[d])
  BY <1>1, <1>2, InObjects DEF CommitOK, Half
<1>5. d \in sealed' /\ published' = published /\ disk[d].pending = NoDir
  BY <1>1, InObjects DEF NotPublished
<1> QED BY <1>1, <1>2, <1>3, <1>4, <1>5, CommitStep, Now

LEMMA MoveBackWorks ==
  ASSUME StorageInv, NEW d \in Doc, MoveBack(d)
  PROVE  Works(d)
<1>1. up /\ op[d].kind = "commit" /\ op[d].step = "back"
  BY DEF MoveBack, At
<1>2. PICK dir \in Dir : dir = disk[d].objects
  BY <1>1, InObjects, Now, FieldTypes
<1>3. PICK p : p = [pending |-> dir, objects |-> NoDir]
  OBVIOUS
<1>4. p \in Place /\ p.pending = dir /\ p.objects = NoDir
  BY <1>3 DEF Place
<1>5. dir.manifest.state = FINISHED
  BY <1>1, <1>2, InObjects, Now DEF PlaceOK
<1>6. PlaceOK(p)
  BY <1>4, <1>5, PendingPlace, FieldTypes
<1>7. Backed(p.pending, mem[d])
  BY <1>1, <1>2, <1>4, InObjects, SMTT(60) DEF Verified, Backed
<1>8. PICK I : I = image[d] \cup {p}
  OBVIOUS
<1>9. Half(image[d]) /\ Half(I)
  BY <1>1, <1>4, <1>8, InObjects DEF Half
<1>10. I \in SUBSET Place /\ p \in I /\ \A q \in I : PlaceOK(q)
  BY <1>4, <1>6, <1>8, Now
<1>11. Sets(d, mem[d], p, Idle, I, acked[d])
  <2>1. disk' = [disk EXCEPT ![d] = p] /\ image' = [image EXCEPT ![d] = I]
    BY <1>2, <1>3, <1>8 DEF MoveBack, Rename
  <2> QED BY <2>1, Same DEF Sets, MoveBack
<1>12. d \in sealed' /\ published' = published
  BY <1>1, InObjects DEF MoveBack
<1>13. Idle \in Op /\ Idle.kind \in {"idle", "commit"} /\ Idle.kind # "commit"
  BY OpTypes
<1> QED BY <1>1, <1>4, <1>7, <1>9, <1>10, <1>11, <1>12, <1>13, CommitStep

LEMMA CommitFailsWorks ==
  ASSUME StorageInv, NEW d \in Doc, CommitFails(d)
  PROVE  Works(d)
<1>1. up /\ op[d].kind = "commit"
  BY DEF CommitFails, At
<1>2. Sets(d, mem[d], disk[d], Idle, image[d], acked[d])
  BY Same DEF Sets, CommitFails
<1>3. (disk[d].pending # NoDir => Backed(disk[d].pending, mem[d])) /\ published' = published
  BY <1>1, Committing DEF RecordOK, CommitFails
<1>4. Idle \in Op /\ Idle.kind = "idle" /\ Idle.kind \in {"idle", "commit"} /\ Idle.kind # "commit"
  BY OpTypes
<1>5. disk[d] \in Place /\ image[d] \in SUBSET Place /\ disk[d] \in image[d] /\ \A q \in image[d] : PlaceOK(q)
  BY Now
<1> QED BY <1>1, <1>2, <1>3, <1>4, <1>5, CommitStep

----------------------------------------------------------------------------
(* Crashes and recovery *)

\* What storage_create finds in a place: a document in objects is FINISHED, a pending
\* one as its manifest says, or not at all.
LEMMA LoadedIs ==
  ASSUME NEW p, PlaceOK(p)
  PROVE  /\ p.objects # NoDir => Loaded(p) \in Document /\ Loaded(p).state = FINISHED
         /\ p.objects = NoDir /\ ReadablePending(p.pending) =>
              /\ p.pending \in Dir /\ Loaded(p) = p.pending.manifest /\ Loaded(p) \in Document
              /\ Loaded(p).state \in {CREATED, TRANSFERRING}
         /\ p.objects = NoDir /\ ~ReadablePending(p.pending) => Loaded(p) = NoDoc
<1>1. CASE p.objects # NoDir
  <2>1. ReadableFinal(p.objects) /\ p.objects \in Dir
    BY <1>1, FieldTypes DEF PlaceOK
  <2>2. PICK m \in Document : m = p.objects.manifest
    BY <2>1, FieldTypes DEF ReadableFinal
  <2>3. Loaded(p) = [m EXCEPT !.state = FINISHED]
    BY <2>1, <2>2 DEF Loaded
  <2>4. Loaded(p) \in Document /\ Loaded(p).state = FINISHED
    BY <2>3 DEF Document
  <2> QED BY <1>1, <2>4
<1>2. CASE p.objects = NoDir
  <2>1. ~ReadableFinal(p.objects)
    BY <1>2 DEF ReadableFinal
  <2>2. ASSUME ReadablePending(p.pending)
        PROVE  /\ p.pending \in Dir /\ Loaded(p) = p.pending.manifest /\ Loaded(p) \in Document
               /\ Loaded(p).state \in {CREATED, TRANSFERRING}
    <3>1. p.pending \in Dir /\ p.pending.manifest \in Document
      BY <2>2, FieldTypes DEF PlaceOK, ReadablePending
    <3>2. Loaded(p) = p.pending.manifest
      BY <2>1, <2>2 DEF Loaded
    <3>3. p.pending.manifest.state # VERIFYING /\ p.pending.manifest.state # FINISHED
      BY <2>2, <3>1, FieldTypes DEF PlaceOK, ReadablePending
    <3> QED BY <3>1, <3>2, <3>3, FieldTypes
  <2>3. ~ReadablePending(p.pending) => Loaded(p) = NoDoc
    BY <2>1 DEF Loaded
  <2> QED BY <1>2, <2>2, <2>3
<1> QED BY <1>1, <1>2

\* A crash keeps, for each document, one of the places it may leave.
LEMMA CrashPlaces ==
  ASSUME StorageInv, NEW kind, Crash(kind)
  PROVE  /\ up' = FALSE /\ disk' \in [Doc -> Place] /\ image' \in [Doc -> SUBSET Place]
         /\ \A d \in Doc : /\ mem'[d] = NoDoc /\ op'[d] = Idle /\ disk'[d] \in image'[d]
                           /\ image'[d] \subseteq image[d]
<1>1. \A d \in Doc : mem'[d] = NoDoc /\ op'[d] = Idle
  BY DEF Crash
<1>2. CASE UNCHANGED <<disk, image>>
  BY <1>1, <1>2, Now DEF Crash, StorageInv
<1>3. CASE /\ disk' \in {f \in [Doc -> UNION {image[d] : d \in Doc}] : \A d \in Doc : f[d] \in image[d]}
           /\ image' = [d \in Doc |-> {disk'[d]}]
  <2>1. \A d \in Doc : disk'[d] \in image[d] /\ disk'[d] \in Place
    BY <1>3, Now
  <2>2. disk' \in [Doc -> Place]
    BY <1>3, <2>1
  <2>3. image' \in [Doc -> SUBSET Place] /\ \A d \in Doc : image'[d] = {disk'[d]}
    BY <1>3, <2>1
  <2> QED BY <1>1, <2>1, <2>2, <2>3 DEF Crash
<1> QED BY <1>2, <1>3 DEF Crash

LEMMA CrashKeeps ==
  ASSUME StorageInv, NEW kind, Crash(kind)
  PROVE  StorageInv'
<1>1. /\ up' = FALSE /\ disk' \in [Doc -> Place] /\ image' \in [Doc -> SUBSET Place]
      /\ \A d \in Doc : /\ mem'[d] = NoDoc /\ op'[d] = Idle /\ disk'[d] \in image'[d]
                        /\ image'[d] \subseteq image[d]
  BY CrashPlaces
<1>2. mem' \in [Doc -> Document \cup {NoDoc}] /\ op' \in [Doc -> Op] /\ acked' \in [Doc -> SUBSET Chunk]
  <2>1. mem' = [d \in Doc |-> NoDoc] /\ op' = [d \in Doc |-> Idle] /\ acked' = acked
    BY DEF Crash
  <2> QED BY <2>1, OpTypes DEF StorageInv
<1>3. ASSUME NEW d \in Doc PROVE DocOK(d, FALSE, NoDoc, disk'[d], Idle, image'[d], published')
  <2>1. \A q \in image'[d] : PlaceOK(q)
    BY <1>1, Now
  <2>2. d \in published' => \A q \in image'[d] : q.objects # NoDir
    BY <1>1 DEF StorageInv, DocOK, Crash
  <2> QED BY <1>1, <2>1, <2>2 DEF DocOK
<1>4. ASSUME NEW d \in Doc PROVE AckedOK(d, FALSE, NoDoc, Idle, image'[d], acked'[d], sealed')
  <2>1. acked'[d] = acked[d] /\ sealed' = sealed
    BY DEF Crash
  <2>2. d \notin sealed => \A q \in image'[d] : Owed(q, acked[d])
    BY <1>1, Now DEF AckedOK
  <2> QED BY <2>1, <2>2, OpTypes DEF AckedOK
<1>5. ASSUME NEW d \in Doc
      PROVE  /\ DocOK(d, up', mem'[d], disk'[d], op'[d], image'[d], published')
             /\ AckedOK(d, up', mem'[d], op'[d], image'[d], acked'[d], sealed')
  BY <1>1, <1>3, <1>4
<1> QED BY <1>1, <1>2, <1>5 DEF StorageInv

LEMMA CreateKeeps ==
  ASSUME StorageInv, Create
  PROVE  StorageInv'
<1>1. /\ ~up /\ up' = TRUE /\ disk' = disk /\ image' = image /\ op' = op /\ acked' = acked /\ sealed' = sealed
      /\ published' = published /\ \A d \in Doc : mem'[d] = Loaded(disk[d])
  BY DEF Create
<1>2. \A d \in Doc : op[d] = Idle
  BY <1>1 DEF StorageInv, DocOK
<1>3. ASSUME NEW d \in Doc
      PROVE  /\ Loaded(disk[d]) \in Document \cup {NoDoc}
             /\ MemoryOK(Loaded(disk[d]), disk[d], Idle, image[d])
             /\ AckedOK(d, TRUE, Loaded(disk[d]), Idle, image[d], acked[d], sealed)
             /\ d \in published => Loaded(disk[d]) # NoDoc /\ Loaded(disk[d]).state = FINISHED
  <2>1. PICK p : p = disk[d] /\ PlaceOK(p) /\ p \in image[d]
    BY Now
  <2>2. PICK s : s = Loaded(p)
    OBVIOUS
  <2>3. /\ p.objects # NoDir => s \in Document /\ s.state = FINISHED
        /\ p.objects = NoDir /\ ReadablePending(p.pending) =>
             /\ p.pending \in Dir /\ s = p.pending.manifest /\ s \in Document /\ s.state \in {CREATED, TRANSFERRING}
        /\ p.objects = NoDir /\ ~ReadablePending(p.pending) => s = NoDoc
    BY <2>1, <2>2, LoadedIs
  <2>4. MemoryOK(s, p, Idle, image[d])
    <3>1. CASE p.objects # NoDir
      <4>1. p.pending = NoDir
        BY <2>1, <3>1 DEF PlaceOK
      <4>2. s \in Document /\ s # NoDoc /\ s.state = FINISHED
        BY <2>3, <3>1, FieldTypes
      <4>3. RecordOK(s, p, Idle)
        BY <3>1, <4>1, <4>2, OpTypes, FieldTypes DEF RecordOK
      <4> QED BY <4>2, <4>3, OpTypes DEF MemoryOK
    <3>2. CASE p.objects = NoDir /\ ReadablePending(p.pending)
      <4>1. /\ p.pending \in Dir /\ s = p.pending.manifest /\ s \in Document /\ s # NoDoc
            /\ s.state \in {CREATED, TRANSFERRING} /\ p.pending # NoDir
        BY <2>3, <3>2, FieldTypes
      <4>2. Backed(p.pending, s)
        BY <3>2, <4>1 DEF ReadablePending, ReadableChunks, Backed
      <4>3. RecordOK(s, p, Idle)
        BY <4>1, <4>2, OpTypes, FieldTypes DEF RecordOK
      <4> QED BY <4>1, <4>3, OpTypes DEF MemoryOK
    <3>3. CASE p.objects = NoDir /\ ~ReadablePending(p.pending)
      BY <2>3, <3>3, OpTypes DEF MemoryOK
    <3> QED BY <3>1, <3>2, <3>3
  <2>5. AckedOK(d, TRUE, s, Idle, image[d], acked[d], sealed)
    <3> SUFFICES ASSUME d \notin sealed
                 PROVE  (\A q \in image[d] : Owed(q, acked[d])) /\ \A i \in acked[d] : s # NoDoc /\ s.chunks[i] # NoChunk
      BY OpTypes DEF AckedOK
    <3>1. \A q \in image[d] : Owed(q, acked[d])
      BY Now DEF AckedOK
    <3>2. Owed(p, acked[d])
      BY <2>1, <3>1
    <3>3. ASSUME NEW i \in acked[d] PROVE s # NoDoc /\ s.chunks[i] # NoChunk
      <4>1. p.objects = NoDir /\ ReadablePending(p.pending) /\ p.pending.manifest.chunks[i] # NoChunk
        BY <3>2, <3>3 DEF Owed
      <4> QED BY <2>3, <4>1, FieldTypes
    <3> QED BY <3>1, <3>3
  <2>6. d \in published => s # NoDoc /\ s.state = FINISHED
    BY <2>1, <2>3, FieldTypes DEF StorageInv, DocOK
  <2>7. s \in Document \cup {NoDoc}
    BY <2>3
  <2> QED BY <2>1, <2>2, <2>4, <2>5, <2>6, <2>7
<1>4. mem' \in [Doc -> Document \cup {NoDoc}]
  <2>1. mem' = [d \in Doc |-> Loaded(disk[d])]
    BY DEF Create
  <2> QED BY <1>3, <2>1
<1>5. ASSUME NEW d \in Doc
      PROVE  /\ DocOK(d, up', mem'[d], disk'[d], op'[d], image'[d], published')
             /\ AckedOK(d, up', mem'[d], op'[d], image'[d], acked'[d], sealed')
  <2>1. DocOK(d, TRUE, Loaded(disk[d]), disk[d], Idle, image[d], published)
    <3>1. d \in published => \A q \in image[d] : q.objects # NoDir
      BY DEF StorageInv, DocOK
    <3> QED BY <1>3, <3>1, Now DEF DocOK
  <2> QED BY <1>1, <1>2, <1>3, <2>1
<1> QED BY <1>1, <1>4, <1>5 DEF StorageInv

----------------------------------------------------------------------------
(* The theorems *)

\* All but the note of the calls that returned 0.
Contents == <<up, mem, disk, image, op, acked, sealed, published>>

\* Every step of the storage works on one document, crashes, recovers or changes nothing: a
\* storage_put_chunk or storage_commit that finds its work done only returns 0.
LEMMA StepKinds ==
  ASSUME StorageInv, [Next]_vars
  PROVE  \/ \E d \in Doc : Works(d)
         \/ \E kind \in Crashes : Crash(kind)
         \/ Create
         \/ UNCHANGED Contents
<1>1. ASSUME NEW d \in Doc, BeginNew(d) \/ Commit(d) \/ Step(d) \/ Fails(d) PROVE Works(d)
  <2>1. CASE BeginNew(d)
    BY <2>1, BeginNewWorks
  <2>2. CASE Commit(d)
    BY <2>2, CommitWorks
  <2>3. CASE Step(d)
    <3>1. CASE BeginManifest(d)
      BY <3>1, BeginManifestWorks
    <3>2. CASE Begun(d)
      BY <3>2, BegunWorks
    <3>3. CASE PutSync(d)
      BY <3>3, PutSyncWorks
    <3>4. CASE PutManifest(d)
      BY <3>4, PutManifestWorks
    <3>5. CASE PutDone(d)
      BY <3>5, PutDoneWorks
    <3>6. CASE CommitManifest(d)
      BY <3>6, CommitManifestWorks
    <3>7. CASE CommitSync(d)
      BY <3>7, CommitSyncWorks
    <3>8. CASE Publish(d)
      BY <3>8, PublishWorks
    <3>9. CASE Published(d)
      BY <3>9, PublishedWorks
    <3>10. CASE MoveBack(d)
      BY <3>10, MoveBackWorks
    <3> QED BY <2>3, <3>1, <3>2, <3>3, <3>4, <3>5, <3>6, <3>7, <3>8, <3>9, <3>10 DEF Step
  <2>4. CASE Fails(d)
    <3>1. CASE BeginFails(d)
      BY <3>1, BeginFailsWorks
    <3>2. CASE PutFails(d)
      BY <3>2, PutFailsWorks
    <3>3. CASE NotPublished(d)
      BY <3>3, NotPublishedWorks
    <3>4. CASE CommitFails(d)
      BY <3>4, CommitFailsWorks
    <3> QED BY <2>4, <3>1, <3>2, <3>3, <3>4 DEF Fails
  <2> QED BY <1>1, <2>1, <2>2, <2>3, <2>4
<1>2. ASSUME NEW d \in Doc, NEW i \in Chunk, NEW v \in Variant, Put(d, i, v) PROVE Works(d)
  BY <1>2, PutWorks
<1>3. ASSUME NEW d \in Doc, NEW i \in Chunk, NEW v \in Variant, PutAgain(d, i, v) PROVE UNCHANGED Contents
  BY <1>3 DEF PutAgain, vars, Contents
<1>4. ASSUME NEW d \in Doc, CommitAgain(d) PROVE UNCHANGED Contents
  BY <1>4 DEF CommitAgain, Contents
<1>5. ASSUME UNCHANGED vars PROVE UNCHANGED Contents
  BY <1>5 DEF vars, Contents
<1> QED BY <1>1, <1>2, <1>3, <1>4, <1>5 DEF Next

\* The storage starts empty.
LEMMA InitStorageInv == Init => StorageInv
<1> SUFFICES ASSUME Init PROVE StorageInv
  OBVIOUS
<1>1. PICK p : p = [pending |-> NoDir, objects |-> NoDir]
  OBVIOUS
<1>2. p \in Place /\ p.pending = NoDir /\ p.objects = NoDir
  BY <1>1 DEF Place
<1>3. /\ up = TRUE /\ mem = [d \in Doc |-> NoDoc] /\ disk = [d \in Doc |-> p] /\ op = [d \in Doc |-> Idle]
      /\ acked = [d \in Doc |-> {}] /\ sealed = {} /\ published = {}
  BY <1>1 DEF Init
<1>4. image = [d \in Doc |-> {p}]
  BY <1>3 DEF Init
<1>5. PlaceOK(p)
  BY <1>2, PendingPlace
<1>6. MemoryOK(NoDoc, p, Idle, {p})
  BY <1>2, OpTypes DEF MemoryOK
<1>7. ASSUME NEW d \in Doc
      PROVE  DocOK(d, TRUE, NoDoc, p, Idle, {p}, {}) /\ AckedOK(d, TRUE, NoDoc, Idle, {p}, {}, {})
  BY <1>2, <1>5, <1>6, OpTypes DEF DocOK, AckedOK, Owed
<1>8. \A d \in Doc : mem[d] = NoDoc /\ disk[d] = p /\ op[d] = Idle /\ acked[d] = {} /\ image[d] = {p}
  BY <1>3, <1>4
<1>9. \A d \in Doc : /\ DocOK(d, up, mem[d], disk[d], op[d], image[d], published)
                      /\ AckedOK(d, up, mem[d], op[d], image[d], acked[d], sealed)
  BY <1>3, <1>7, <1>8
<1> QED BY <1>2, <1>3, <1>4, <1>9, OpTypes DEF StorageInv

\* Nothing changes.
LEMMA StutterKeeps == ASSUME StorageInv, UNCHANGED Contents PROVE StorageInv'
  BY DEF StorageInv, Contents

LEMMA NextStorageInv == StorageInv /\ [Next]_vars => StorageInv'
<1> SUFFICES ASSUME StorageInv, [Next]_vars PROVE StorageInv'
  OBVIOUS
<1> QED BY StepKinds, WorksKeeps, CrashKeeps, CreateKeeps, StutterKeeps

\* The invariant about each document holds in every state of the storage.
THEOREM StorageInvariance == Spec => []StorageInv
  BY InitStorageInv, NextStorageInv, PTL DEF Spec

\* A document in objects is readable there, wherever a power loss leaves it.
LEMMA ReadableInObjects ==
  ASSUME StorageInv, NEW d \in Doc
  PROVE  \A q \in image[d] : ReadableFinal(q.objects) <=> q.objects # NoDir
<1>1. \A q \in image[d] : PlaceOK(q)
  BY Now
<1> QED BY <1>1 DEF PlaceOK, ReadableFinal

\* storage_find, storage_list and storage_read_chunk serve complete documents with the content
\* of their ObjectID only; those that a storage_commit has published and synced itself are
\* found again after any number of kills and power losses; and none is in pending and in
\* objects at once. A storage_commit that finds the document FINISHED returns 0 as well and
\* syncs nothing: what it confirms is outside this theorem.
THEOREM FinishedDocuments == Spec => []FinishedIsIntact
<1>1. StorageInv => FinishedIsIntact
  <2> SUFFICES ASSUME StorageInv, NEW d \in Doc
               PROVE  /\ mem[d] # NoDoc /\ mem[d].state = FINISHED => ReadableFinal(disk[d].objects)
                      /\ d \in published => \A place \in image[d] : ReadableFinal(place.objects)
                      /\ disk[d].pending = NoDir \/ disk[d].objects = NoDir
    BY DEF FinishedIsIntact
  <2>1. ASSUME mem[d] # NoDoc /\ mem[d].state = FINISHED PROVE ReadableFinal(disk[d].objects)
    <3>1. up
      BY <2>1 DEF StorageInv, DocOK
    <3>2. disk[d].objects # NoDir
      BY <2>1, <3>1, Now DEF MemoryOK, RecordOK
    <3> QED BY <3>2, ReadableInObjects, Now
  <2>2. d \in published => \A place \in image[d] : ReadableFinal(place.objects)
    BY ReadableInObjects DEF StorageInv, DocOK
  <2>3. disk[d].pending = NoDir \/ disk[d].objects = NoDir
    BY Now DEF PlaceOK
  <2> QED BY <2>1, <2>2, <2>3
<1> QED BY <1>1, StorageInvariance, PTL

\* No crash and no failed write makes a client send again a chunk for which
\* storage_put_chunk stored it and returned 0, but for the two cases that AckedChunksKept
\* names. A call that finds the chunk present returns 0 and adds nothing to this.
THEOREM KeptChunks == Spec => []AckedChunksKept
<1>1. StorageInv => AckedChunksKept
  BY DEF StorageInv, AckedOK, AckedChunksKept
<1> QED BY <1>1, StorageInvariance, PTL

----------------------------------------------------------------------------
(* The storage implements ObjectStore *)

\* What the refinement maps stored and visible to.
Stored == {d \in Doc : \A place \in image[d] : ReadableFinal(place.objects)}
Visible == {d \in Doc : mem[d] # NoDoc /\ mem[d].state = FINISHED}

\* A document is stored when no power loss finds it outside objects.
LEMMA StoredIs ==
  ASSUME StorageInv
  PROVE  Stored = {d \in Doc : ~Half(image[d])}
  BY ReadableInObjects DEF Stored, Half

\* A step that works on d publishes it, or changes neither what is stored nor what is
\* visible.
LEMMA WorksMaps ==
  ASSUME StorageInv, NEW d \in Doc, Works(d)
  PROVE  /\ up /\ up' = up
         /\ \/ Stored' = Stored /\ Visible' = Visible
            \/ Stored' = Stored \cup {d} /\ Visible' = Visible \cup {d}
<1>1. PICK s \in Document \cup {NoDoc}, p \in Place, o \in Op, I \in SUBSET Place, A \in SUBSET Chunk :
        Leaves(d, s, p, o, I, A)
  BY DEF Works
<1>2. StorageInv'
  BY WorksKeeps
<1>3. up /\ up' = up
  BY <1>1 DEF Works, Leaves, Sets
<1>4. mem'[d] = s /\ image'[d] = I
  BY <1>1 DEF Leaves, Sets, StorageInv
<1>5. \A e \in Doc \ {d} : mem'[e] = mem[e] /\ image'[e] = image[e]
  BY <1>1 DEF Leaves, Sets, StorageInv
<1>6. Stored = {e \in Doc : ~Half(image[e])}
  BY StoredIs
<1>7. Stored' = {e \in Doc : ~Half(image'[e])}
  <2>1. \A e \in Doc : \A q \in image'[e] : ReadableFinal(q.objects) <=> q.objects # NoDir
    <3>1. \A e \in Doc : \A q \in image'[e] : PlaceOK(q)
      BY <1>2 DEF StorageInv, DocOK
    <3> QED BY <3>1 DEF PlaceOK, ReadableFinal
  <2>2. Stored' = {e \in Doc : \A place \in image'[e] : ReadableFinal(place.objects)}
    BY DEF Stored, ReadableFinal, ReadableChunks, Verified
  <2> QED BY <2>1, <2>2 DEF Half
<1>8. Visible' = {e \in Doc : mem'[e] # NoDoc /\ mem'[e].state = FINISHED}
  BY DEF Visible, FINISHED
<1>9. CASE /\ I = image[d] \/ (Half(image[d]) /\ Half(I))
           /\ mem[d] # NoDoc => mem[d].state # FINISHED
           /\ s # NoDoc => s.state # FINISHED
  <2>1. Stored' = Stored
    BY <1>4, <1>5, <1>6, <1>7, <1>9
  <2>2. Visible' = Visible
    BY <1>4, <1>5, <1>8, <1>9 DEF Visible
  <2> QED BY <1>3, <2>1, <2>2
<1>10. CASE ~Half(I) /\ s # NoDoc /\ s.state = FINISHED
  <2>1. Stored' = Stored \cup {d}
    BY <1>4, <1>5, <1>6, <1>7, <1>10
  <2>2. Visible' = Visible \cup {d}
    BY <1>4, <1>5, <1>8, <1>10 DEF Visible
  <2> QED BY <1>3, <2>1, <2>2
<1> QED BY <1>1, <1>9, <1>10 DEF Leaves, Abstract

\* A crash may decide a publication that was under way, and loses nothing.
LEMMA CrashMaps ==
  ASSUME StorageInv, NEW kind, Crash(kind)
  PROVE  up /\ up' = FALSE /\ Stored \subseteq Stored' /\ Visible' = {}
<1>1. up' = FALSE /\ \A d \in Doc : mem'[d] = NoDoc /\ image'[d] \subseteq image[d]
  BY CrashPlaces
<1>2. Stored' = {e \in Doc : \A place \in image'[e] : ReadableFinal(place.objects)}
  BY DEF Stored, ReadableFinal, ReadableChunks, Verified
<1>3. Visible' = {e \in Doc : mem'[e] # NoDoc /\ mem'[e].state = FINISHED}
  BY DEF Visible, FINISHED
<1>4. up
  BY DEF Crash
<1> QED BY <1>1, <1>2, <1>3, <1>4 DEF Stored

\* storage_create finds everything that is stored.
LEMMA CreateMaps ==
  ASSUME StorageInv, Create
  PROVE  ~up /\ up' = TRUE /\ Stored' = Stored /\ Stored \subseteq Visible'
<1>1. ~up /\ up' = TRUE /\ image' = image /\ \A d \in Doc : mem'[d] = Loaded(disk[d])
  BY DEF Create
<1>2. Stored' = Stored
  BY <1>1 DEF Stored, ReadableFinal, ReadableChunks, Verified
<1>3. Visible' = {e \in Doc : mem'[e] # NoDoc /\ mem'[e].state = FINISHED}
  BY DEF Visible, FINISHED
<1>4. ASSUME NEW d \in Stored PROVE d \in Visible'
  <2>1. d \in Doc /\ disk[d].objects # NoDir /\ PlaceOK(disk[d])
    BY Now DEF Stored, ReadableFinal
  <2>2. Loaded(disk[d]) \in Document /\ Loaded(disk[d]).state = FINISHED
    BY <2>1, LoadedIs
  <2> QED BY <1>1, <1>3, <2>1, <2>2, FieldTypes
<1> QED BY <1>1, <1>2, <1>4

\* The storage is an ObjectStore: whatever the clients repeat, skip or interrupt, and whatever
\* fails or crashes, documents appear as a whole, and storage_create makes visible all
\* that is stored.
THEOREM StoresObjects == Spec => ImplementsObjectStore
<1>1. Init => Store!Init
  <2> SUFFICES ASSUME Init PROVE up = TRUE /\ Stored = {} /\ Visible = {}
    BY DEF Store!Init, Stored, Visible
  <2>1. Visible = {}
    BY DEF Init, Visible
  <2>2. ASSUME NEW d \in Doc PROVE d \notin Stored
    <3>1. disk[d].objects = NoDir /\ image[d] = {disk[d]}
      BY DEF Init
    <3> QED BY <3>1 DEF Stored, ReadableFinal
  <2> QED BY <2>1, <2>2 DEF Init, Stored
<1>2. StorageInv /\ [Next]_vars => [Store!Next]_(Store!vars)
  <2> SUFFICES ASSUME StorageInv, [Next]_vars PROVE Store!Next \/ (up' = up /\ Stored' = Stored /\ Visible' = Visible)
    BY DEF Store!vars, Stored, Visible
  <2>1. ASSUME NEW d \in Doc, Works(d) PROVE Store!Publish(d) \/ (up' = up /\ Stored' = Stored /\ Visible' = Visible)
    <3>1. \/ Stored' = Stored /\ Visible' = Visible
          \/ Stored' = Stored \cup {d} /\ Visible' = Visible \cup {d}
      BY <2>1, WorksMaps
    <3>2. up /\ up' = up
      BY <2>1, WorksMaps
    <3> QED BY <3>1, <3>2 DEF Store!Publish, Stored, Visible
  <2>2. ASSUME NEW kind \in Crashes, Crash(kind) PROVE Store!Stop
    <3>1. up /\ up' = FALSE /\ Stored \subseteq Stored' /\ Visible' = {}
      BY <2>2, CrashMaps
    <3>2. Stored' = Stored \cup Stored' /\ Stored' \in SUBSET Doc
      BY <3>1 DEF Stored
    <3>3. \E undecided \in SUBSET Doc : Stored' = Stored \cup undecided
      BY <3>2
    <3> QED BY <3>1, <3>3 DEF Store!Stop, Stored, Visible
  <2>3. ASSUME Create PROVE Store!Recover
    <3>1. ~up /\ up' = TRUE /\ Stored' = Stored /\ Stored \subseteq Visible'
      BY <2>3, CreateMaps
    <3>2. Visible' = Stored \cup Visible' /\ Visible' \in SUBSET Doc
      BY <3>1 DEF Visible
    <3>3. \E undecided \in SUBSET Doc : Visible' = Stored \cup undecided
      BY <3>2
    <3> QED BY <3>1, <3>3 DEF Store!Recover, Stored, Visible
  <2>4. ASSUME UNCHANGED Contents PROVE up' = up /\ Stored' = Stored /\ Visible' = Visible
    BY <2>4 DEF Contents, Stored, Visible, ReadableFinal, ReadableChunks, Verified
  <2> QED BY <2>1, <2>2, <2>3, <2>4, StepKinds DEF Store!Next
<1> QED BY <1>1, <1>2, StorageInvariance, PTL DEF Spec, ImplementsObjectStore, Store!Spec
=============================================================================
