----------------------------- MODULE FileClient -----------------------------
(***************************************************************************)
(* The clients of file_client.c, which upload a file to a Peer or a Super  *)
(* Peer and download a document from whoever the Super Peer's lookup       *)
(* offers.  Both divide the work among a pool of threads that take the     *)
(* next chunk until there is none or one of them has failed.               *)
(*                                                                         *)
(* ul[c] and dl[c] are the processes.  The downloads have one              *)
(* destination in common; each writes a new file, named c here, that has   *)
(* the name dest.part first and the name dest in the end:                  *)
(*   part, dest    the file that has the name, or NoFile                   *)
(*   content[c]    the chunks that were verified and written into file c   *)
(*   pending[h]    the chunks <<o, i>> of unfinished uploads that h keeps  *)
(***************************************************************************)
EXTENDS PeerService

CONSTANTS Upload, Download,   \* the client processes
          Chunks,             \* chunk_count of a document
          Workers,            \* the threads of a pool
          NoFile

ASSUME ClientAssumption == Chunks \in Nat \ {0} /\ Workers \in Nat \ {0} /\ NoFile \notin Download

VARIABLES ul, dl, part, dest, content, pending

clientVars == <<ul, dl, part, dest, content, pending>>
vars == <<dirVars, events, peerVars, clientVars>>

Chunk == 0..Chunks - 1

\* A pool: the next chunk, whether a thread has failed, and the chunks its threads are
\* at, with the owners that were tried for each.
Pool == [next |-> 0, failed |-> FALSE, busy |-> {}, tried |-> [i \in Chunk |-> {}]]

MayTake(q) == ~ q.failed /\ q.next < Chunks /\ Cardinality(q.busy) < Workers
Take(q) == [q EXCEPT !.next = @ + 1, !.busy = @ \cup {q.next}]
Finish(q, i) == [q EXCEPT !.busy = @ \ {i}, !.tried[i] = {}]
Fail(q, i) == [Finish(q, i) EXCEPT !.failed = TRUE]

\* execute_workers has joined all threads.
Joined(q) == q.busy = {} /\ (q.failed \/ q.next = Chunks)

NoUpload == [phase |-> "new", to |-> Self, obj |-> NoObject, pool |-> Pool]
NoDownload == [phase |-> "new", obj |-> NoObject, owners |-> {}, i |-> 0,
               loc |-> [j \in Chunk |-> {}], pool |-> Pool]

ClientInit ==
  /\ ul = [c \in Upload |-> NoUpload] /\ dl = [c \in Download |-> NoDownload]
  /\ part = NoFile /\ dest = NoFile
  /\ content = [c \in Download |-> {}]
  /\ pending = [h \in Holder |-> {}]

Init == DirectoryInit /\ PeerInit /\ ClientInit

-----------------------------------------------------------------------------
(* file_client_upload *)

SetUpload(c, u) == ul' = [ul EXCEPT ![c] = u]
UploadEnds(c, how) == SetUpload(c, [NoUpload EXCEPT !.phase = how])

\* PING and BEGIN.
BeginUpload(c) ==
  /\ ul[c].phase = "new" /\ Spend(4)
  /\ \E h \in Holder, o \in Object :
       /\ Serving(h)
       /\ SetUpload(c, [NoUpload EXCEPT !.phase = "send", !.to = h, !.obj = o])
  /\ UNCHANGED <<dirVars, peerVars, dl, part, dest, content, pending>>

UploadTake(c) ==
  /\ ul[c].phase = "send" /\ MayTake(ul[c].pool)
  /\ SetUpload(c, [ul[c] EXCEPT !.pool = Take(@)])
  /\ UNCHANGED <<dirVars, events, peerVars, dl, part, dest, content, pending>>

\* One chunk is stored, and acknowledged.
UploadChunk(c, i) ==
  /\ ul[c].phase = "send" /\ i \in ul[c].pool.busy /\ Serving(ul[c].to)
  /\ pending' = [pending EXCEPT ![ul[c].to] = @ \cup {<<ul[c].obj, i>>}]
  /\ SetUpload(c, [ul[c] EXCEPT !.pool = Finish(@, i)])
  /\ UNCHANGED <<dirVars, events, peerVars, dl, part, dest, content>>

\* The file cannot be read, or the chunk is refused or not answered.
UploadChunkFails(c, i) ==
  /\ ul[c].phase = "send" /\ i \in ul[c].pool.busy
  /\ IF Serving(ul[c].to) THEN Event ELSE UNCHANGED events
  /\ SetUpload(c, [ul[c] EXCEPT !.pool = Fail(@, i)])
  /\ UNCHANGED <<dirVars, peerVars, dl, part, dest, content, pending>>

UploadFails(c) ==
  /\ ul[c].phase = "send" /\ Joined(ul[c].pool)
  /\ ul[c].pool.failed \/ ~ Serving(ul[c].to)
  /\ UploadEnds(c, "failed")
  /\ UNCHANGED <<dirVars, events, peerVars, dl, part, dest, content, pending>>

\* COMMIT: the handler of handle_store or handle_client_store publishes the
\* document, and goes on to announce it.
UploadCommit(c) ==
  LET h == ul[c].to  o == ul[c].obj
  IN  /\ ul[c].phase = "send" /\ Joined(ul[c].pool) /\ ~ ul[c].pool.failed
      /\ Serving(h) /\ commit[h] = NoCommit
      /\ \A i \in Chunk : <<o, i>> \in pending[h]
      /\ stored' = [stored EXCEPT ![h] = @ \cup {o}]
      /\ commit' = [commit EXCEPT ![h] = [obj |-> o, sent |-> FALSE]]
      /\ SetUpload(c, [NoUpload EXCEPT !.phase = "commit", !.to = h, !.obj = o])
      /\ UNCHANGED <<dirVars, events, peer, acked, left, late, dl, part, dest, content, pending>>

\* The handler answers the client that waits for its COMMIT.
Answer(h, how) ==
  ul' = [c \in Upload |-> IF ul[c].phase = "commit" /\ ul[c].to = h
                          THEN [NoUpload EXCEPT !.phase = how] ELSE ul[c]]

\* announce_document in the handler of a Peer; a Super Peer submits at once.
CommitAnnounce(h) ==
  /\ commit[h] # NoCommit /\ ~ commit[h].sent /\ up
  /\ IF superpeer_is_registered(h)
     THEN /\ announcing' = announcing \cup {Entry(h, commit[h].obj, "upload", TRUE)}
          /\ commit' = [commit EXCEPT ![h].sent = TRUE]
          /\ UNCHANGED ul
     ELSE commit' = [commit EXCEPT ![h] = NoCommit] /\ Answer(h, "failed") /\ UNCHANGED announcing
  /\ UNCHANGED <<up, epoch, reg, avail, log, events, peer, stored, acked, left, late,
                 dl, part, dest, content, pending>>

\* The handler's call runs out, before or after the request was handled, or the
\* Super Peer has died.
CommitFails(h) ==
  /\ commit[h] # NoCommit /\ h # Self
  /\ IF commit[h].sent /\ Awaited(h, "upload") = {} THEN UNCHANGED events ELSE Event
  /\ announcing' = Forsaken(h, {"upload"})
  /\ late' = IF commit[h].sent THEN late
             ELSE late \cup {Late("ANNOUNCE", h, peer[h].inc, commit[h].obj)}
  /\ commit' = [commit EXCEPT ![h] = NoCommit]
  /\ Answer(h, "failed")
  /\ UNCHANGED <<up, epoch, reg, avail, log, peer, stored, acked, left,
                 dl, part, dest, content, pending>>

\* The client gives up, or the one it sent the COMMIT to has died.
UploadGivesUp(c) ==
  /\ ul[c].phase = "commit"
  /\ IF commit[ul[c].to] = NoCommit THEN UNCHANGED events ELSE Event
  /\ UploadEnds(c, "failed")
  /\ UNCHANGED <<dirVars, peerVars, dl, part, dest, content, pending>>
-----------------------------------------------------------------------------
(* The answers of the Super Peer, and its end. *)

Told(a) ==
  IF ~ a.wait THEN UNCHANGED <<peer, commit, acked, ul>>
  ELSE /\ acked' = [acked EXCEPT ![a.src] = @ \cup {a.obj}]
       /\ IF a.thread = "control"
          THEN /\ peer' = [peer EXCEPT ![a.src].phase = "announce", ![a.src].todo = @ \ {a.obj}]
               /\ UNCHANGED <<commit, ul>>
          ELSE /\ commit' = [commit EXCEPT ![a.src] = NoCommit]
               /\ Answer(a.src, "done") /\ UNCHANGED peer

ToldError(a) ==
  IF ~ a.wait THEN UNCHANGED <<peer, commit, ul>>
  ELSE IF a.thread = "control" THEN CatalogFailed(a.src) /\ UNCHANGED <<commit, ul>>
  ELSE /\ commit' = [commit EXCEPT ![a.src] = NoCommit]
       /\ Answer(a.src, "failed") /\ UNCHANGED peer

Announced(a) ==
  Apply(a) /\ Told(a) /\ UNCHANGED <<stored, left, late, dl, part, dest, content, pending>>

Unannounced(a) ==
  SubmitFails(a) /\ ToldError(a) /\ UNCHANGED <<stored, acked, left, late, dl, part, dest, content, pending>>

SuperPeerDies ==
  /\ CrashSuperPeer
  /\ commit' = [commit EXCEPT ![Self] = NoCommit]
  /\ UNCHANGED <<peer, stored, acked, left, late, clientVars>>

-----------------------------------------------------------------------------
(* file_client_lookup: the chunks one after the other, first the owners,   *)
(* then which of them are registered.                                      *)

SetDownload(c, d) == dl' = [dl EXCEPT ![c] = d]
Ended(how) == [NoDownload EXCEPT !.phase = how]

BeginDownload(c) ==
  /\ dl[c].phase = "new" /\ up /\ Spend(3)
  /\ \E o \in Object : SetDownload(c, [NoDownload EXCEPT !.phase = "owners", !.obj = o])
  /\ UNCHANGED <<dirVars, peerVars, ul, part, dest, content, pending>>

ReadOwners(c) ==
  /\ dl[c].phase = "owners" /\ up
  /\ SetDownload(c, [dl[c] EXCEPT !.phase = "valid", !.owners = avail[dl[c].obj]])
  /\ UNCHANGED <<dirVars, events, peerVars, ul, part, dest, content, pending>>

\* ENODATA when nobody is left for a chunk.
ReadValid(c) ==
  LET d == dl[c]  valid == {h \in d.owners : Valid(h)}
  IN  /\ d.phase = "valid" /\ up
      /\ SetDownload(c, IF valid = {} THEN Ended("failed")
                        ELSE [d EXCEPT !.loc[d.i] = valid, !.i = @ + 1, !.owners = {},
                                       !.phase = IF d.i + 1 = Chunks THEN "found" ELSE "owners"])
      /\ UNCHANGED <<dirVars, events, peerVars, ul, part, dest, content, pending>>

LookupFails(c) ==
  /\ dl[c].phase \in {"owners", "valid"}
  /\ IF up THEN Event ELSE UNCHANGED events
  /\ SetDownload(c, Ended("failed"))
  /\ UNCHANGED <<dirVars, peerVars, ul, part, dest, content, pending>>

-----------------------------------------------------------------------------
(* file_client_download *)

\* access(destination)
CheckDestination(c) ==
  /\ dl[c].phase = "found"
  /\ SetDownload(c, IF dest # NoFile THEN Ended("failed") ELSE [dl[c] EXCEPT !.phase = "open"])
  /\ UNCHANGED <<dirVars, events, peerVars, ul, part, dest, content, pending>>

\* Mutant of OpenPart: the part file is removed on every failure.
OpenPartCleans(c) ==
  /\ dl[c].phase = "open"
  /\ IF part # NoFile THEN SetDownload(c, Ended("cleanup")) /\ UNCHANGED part
     ELSE part' = c /\ SetDownload(c, [dl[c] EXCEPT !.phase = "work"])
  /\ UNCHANGED <<dirVars, events, peerVars, ul, dest, content, pending>>

\* open with O_EXCL; when it fails the file is another's.
OpenPart(c) ==
  /\ dl[c].phase = "open"
  /\ IF part # NoFile THEN SetDownload(c, Ended("failed")) /\ UNCHANGED part
     ELSE part' = c /\ SetDownload(c, [dl[c] EXCEPT !.phase = "work"])
  /\ UNCHANGED <<dirVars, events, peerVars, ul, dest, content, pending>>

DownloadTake(c) ==
  /\ dl[c].phase = "work" /\ MayTake(dl[c].pool)
  /\ SetDownload(c, [dl[c] EXCEPT !.pool = Take(@)])
  /\ UNCHANGED <<dirVars, events, peerVars, ul, part, dest, content, pending>>

\* download_one: the owners of the chunk in turn.
Untried(d, i) == d.loc[i] \ d.pool.tried[i]

FetchChunk(c, i) ==
  LET d == dl[c]
  IN  /\ d.phase = "work" /\ i \in d.pool.busy
      /\ \E h \in Untried(d, i) : Serving(h) /\ d.obj \in stored[h]
      /\ content' = [content EXCEPT ![c] = @ \cup {i}]
      /\ SetDownload(c, [d EXCEPT !.pool = Finish(@, i)])
      /\ UNCHANGED <<dirVars, events, peerVars, ul, part, dest, pending>>

\* No answer, or not the chunk that the descriptor describes.
TryFails(c, i) ==
  LET d == dl[c]
  IN  /\ d.phase = "work" /\ i \in d.pool.busy
      /\ \E h \in Untried(d, i) :
           /\ IF Serving(h) /\ d.obj \in stored[h] THEN Event ELSE UNCHANGED events
           /\ SetDownload(c, [d EXCEPT !.pool.tried[i] = @ \cup {h}])
      /\ UNCHANGED <<dirVars, peerVars, ul, part, dest, content, pending>>

ChunkFails(c, i) ==
  LET d == dl[c]
  IN  /\ d.phase = "work" /\ i \in d.pool.busy /\ Untried(d, i) = {}
      /\ SetDownload(c, [d EXCEPT !.pool = Fail(@, i)])
      /\ UNCHANGED <<dirVars, events, peerVars, ul, part, dest, content, pending>>

\* The file that has the name is verified as a whole once the pool has done all chunks.
Verify(c) ==
  LET d == dl[c]
  IN  /\ d.phase = "work" /\ Joined(d.pool)
      /\ SetDownload(c, [NoDownload EXCEPT !.phase =
           IF ~ d.pool.failed /\ part # NoFile /\ content[part] = Chunk THEN "link" ELSE "cleanup"])
      /\ UNCHANGED <<dirVars, events, peerVars, ul, part, dest, content, pending>>

\* Mutant of Link: rename, which replaces a file that has the name.
LinkRenames(c) ==
  /\ dl[c].phase = "link"
  /\ dest' = c /\ part' = NoFile /\ SetDownload(c, Ended("done"))
  /\ UNCHANGED <<dirVars, events, peerVars, ul, content, pending>>

\* link(part_path, destination): by name, and never over another file.
Link(c) ==
  /\ dl[c].phase = "link"
  /\ IF dest = NoFile /\ part # NoFile THEN dest' = part /\ SetDownload(c, Ended("unlink"))
     ELSE SetDownload(c, Ended("cleanup")) /\ UNCHANGED dest
  /\ UNCHANGED <<dirVars, events, peerVars, ul, part, content, pending>>

Unlink(c) ==
  /\ dl[c].phase = "unlink"
  /\ part' = NoFile /\ SetDownload(c, Ended("sync"))
  /\ UNCHANGED <<dirVars, events, peerVars, ul, dest, content, pending>>

SyncParent(c) ==
  /\ dl[c].phase = "sync"
  /\ SetDownload(c, Ended("done"))
  /\ UNCHANGED <<dirVars, events, peerVars, ul, part, dest, content, pending>>

\* Writing, syncing or reading the file fails, or a thread cannot be created.
DownloadError(c) ==
  /\ \/ dl[c].phase = "work" /\ dl[c].pool.busy = {}
     \/ dl[c].phase \in {"link", "unlink", "sync"}
  /\ Event
  /\ SetDownload(c, Ended("cleanup"))
  /\ UNCHANGED <<dirVars, peerVars, ul, part, dest, content, pending>>

\* The end of a download that owns its part file and fails.
CleanUp(c) ==
  /\ dl[c].phase = "cleanup"
  /\ part' = NoFile /\ SetDownload(c, Ended("failed"))
  /\ UNCHANGED <<dirVars, events, peerVars, ul, dest, content, pending>>

KillDownload(c) ==
  /\ dl[c].phase \notin {"new", "failed", "done", "killed"} /\ Event
  /\ SetDownload(c, Ended("killed"))
  /\ UNCHANGED <<dirVars, peerVars, ul, part, dest, content, pending>>
-----------------------------------------------------------------------------
PeerStep(p) ==
  /\ \/ Join(p) \/ ListCatalog(p) \/ Announce(p) \/ CatalogDone(p) \/ WaitFails(p)
     \/ Heartbeat(p) \/ Leave(p)
  /\ UNCHANGED clientVars

PeerEvent(p) ==
  /\ \/ Start(p) \/ JoinLate(p) \/ AnnounceLate(p) \/ HeartbeatLate(p) \/ LeaveLate(p)
     \/ Stop(p) \/ CrashPeer(p)
     \/ (Detect(p) \/ Bury(p)) /\ UNCHANGED peerVars
     \/ \E r \in late : r.src = p /\ HandleLate(r)
  /\ UNCHANGED clientVars

SuperPeerStep ==
  \/ StartSuperPeer /\ UNCHANGED <<peerVars, clientVars>>
  \/ \E a \in announcing : (Submit(a) /\ UNCHANGED <<peerVars, clientVars>>) \/ Announced(a)

UploadStep(c) ==
  \/ BeginUpload(c) \/ UploadFails(c) \/ UploadCommit(c) \/ UploadGivesUp(c)
  \/ UploadTake(c) \/ \E i \in Chunk : UploadChunk(c, i) \/ UploadChunkFails(c, i)

DownloadStep(c) ==
  \/ BeginDownload(c) \/ ReadOwners(c) \/ ReadValid(c) \/ LookupFails(c)
  \/ CheckDestination(c) \/ OpenPart(c) \/ Verify(c) \/ Link(c) \/ Unlink(c) \/ SyncParent(c)
  \/ DownloadError(c) \/ CleanUp(c) \/ KillDownload(c)
  \/ DownloadTake(c) \/ \E i \in Chunk : FetchChunk(c, i) \/ TryFails(c, i) \/ ChunkFails(c, i)

Next ==
  \/ \E p \in Peer : PeerStep(p) \/ PeerEvent(p)
  \/ SuperPeerStep
  \/ SuperPeerDies
  \/ \E a \in announcing : Unannounced(a)
  \/ \E h \in Holder : CommitAnnounce(h) \/ CommitFails(h)
  \/ \E c \in Upload : UploadStep(c)
  \/ \E c \in Download : DownloadStep(c)

Spec == Init /\ [][Next]_vars

\* The Super Peer is started again and its threads run; the threads of a running Peer
\* run, and it goes on sending heartbeats.
FairSpec == Spec /\ WF_vars(SuperPeerStep) /\ \A p \in Peer : WF_vars(PeerStep(p))

-----------------------------------------------------------------------------
(* Properties *)

\* A document whose announcement was acknowledged is offered by lookups as long as its
\* owner is registered with its present incarnation and owes no reconnection: removing
\* the owner (membership_failure, M_LEAVE), replaying the log and announcing again
\* never leave a registered Peer without its documents.
AckedIsOffered ==
  up => /\ \A p \in Peer :
             /\ peer[p].phase = "idle" /\ ~ peer[p].needs
             /\ reg[p] = [inc |-> peer[p].inc, state |-> "alive"]
             => \A o \in acked[p] : p \in Offered(o)
        /\ \A o \in acked[Self] : Self \in Offered(o)

\* After the LEAVE of a Peer was accepted no lookup offers it until it is started
\* again, whatever requests of it are handled late and whatever the log replays.
GoneIsNotOffered == \A p \in left, o \in Object : p \notin Offered(o)

\* The destination gets a file once, and only a file with all chunks in it: a download
\* never replaces a file that another one put there meanwhile.
PublishedOnce ==
  [][dest' # dest => dest = NoFile /\ dest' \in Download /\ content'[dest'] = Chunk]_vars

\* A download at work keeps its part file for as long as it may succeed, and a part file
\* is never left behind but by a client that was killed.
PartFiles ==
  /\ \A c \in Download : dl[c].phase \in {"work", "link"} /\ dest = NoFile => part = c
  /\ part # NoFile => dl[part].phase \in {"work", "link", "unlink", "cleanup", "killed"}

\* Once the mishaps are over, the documents a running Peer was acknowledged for are
\* offered and stay offered: the control thread repeats JOIN and announcements until
\* the whole catalog got through.
CatalogReturns ==
  <>[](\A p \in Peer : Running(p) => \A o \in acked[p] : p \in Offered(o))
=============================================================================
