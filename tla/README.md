# Verification of the distributed file storage

The repository is a peer-to-peer file store in C. Clients cut files into chunks
and upload them to Peers or Super Peers. Whoever stores a document announces it
to a Super Peer. The Super Peers replicate the announcements in a log, elect a
coordinator for it, watch each other and their Peers, and form a Chord ring.

This directory holds TLA+ specifications of these parts, TLC configurations that
check them on small instances, and TLAPS proofs of the properties that matter
most, for every value of the constants. `PROJECT.json` lists the runs, the
theorems, the hazards of the code, and the source lines each definition models.

## The parts and how they interact

    file client --- uploads, downloads ---> Peer / Super Peer: chunk storage, LFU cache
         |                                        |
         |  lookup                                |  announcement (STORE)
         v                                        v
    Super Peer: directory  <-- applied from -- C4 log and journal
                    |                             ^   two-phase commit
                    |  only registered Peers      |   among the Super Peers,
                    v                             |   led by the coordinator
    membership table (JOIN, LEAVE, heartbeats,    |
    gossip, detector)  --- who is ALIVE ----> Bully election, state transfer
                    |
                    +--- failed / seen nodes ----> Chord ring

Every process serves its connections with the thread-pool server.

| Part | Source | Modules |
| --- | --- | --- |
| Operation log, transaction journal | `c4_log.c` | `C4Log`, `C4CommitProofs`, `MCC4Log` |
| Two-phase commit of announcements | `c4_cluster.c` (`c4_cluster_submit`; PREPARE, COMMIT, ABORT) | `C4Commit`, `C4CommitProofs`, `C4AgreementProofs`, `MCC4Commit` |
| Bully election, incremental state transfer | `c4_cluster.c` (`c4_cluster_tick`; ELECTION, COORDINATOR, IST_REQUEST, STATE_TRANSFER) | `C4Election`, `C4ElectionProofs`, `MCC4Election` |
| Member table, gossip records, ledger | `membership.c`, `gossip.c` | `Membership`, `HeartbeatProofs` |
| Heartbeat service | `heartbeat.c`, JOIN and LEAVE in `peer.c`, `superpeer.c` | `Heartbeat`, `HeartbeatProofs`, `MCHeartbeat` |
| Chord ring | `chord.c`, `chord_network.c`, coupling in `superpeer.c` | `Chord`, `ChordProofs` |
| Chunk storage | `storage.c` | `Storage`, `ObjectStore`, `StorageProofs`, `MCStorage` |
| LFU chunk cache | `storage.c` | `ChunkCache`, `MCStorage` |
| Thread-pool server | `concurrent_server.c` | `ConcurrentServer`, `BoundedFifo`, `ConcurrentServerProofs` |
| Metadata and directory | `metadata.c`, `directory.c`, handlers in `superpeer.c` | `Directory` |
| Peer | `peer.c` | `PeerService` |
| File client | `file_client.c` | `FileClient`, `FileClientProofs`, `MCFiles` |

`C4Election` extends `C4Commit`, which extends `C4Log`: the election, the commit
and the log are checked together. `FileClient` extends `PeerService`, which
extends `Directory`. `ChunkCache` extends `Storage`. `Heartbeat` extends
`Membership`. The two abstract specifications, `ObjectStore` and `BoundedFifo`,
say what the storage and the ring of the server promise; the detailed modules
implement them.

## How the modules correspond to the code

**C4Log.** A node has two files: the log of entries (`log`) and the journal of
PREPARE, COMMIT and ABORT records (`journal`), and the table of transactions in
memory (`txns`). `torn[n]` says which of the two files end in an incomplete entry
or record. A public
operation of `c4_log.c` runs under one mutex and is one action: `Prepare`,
`AppendEntry`, `Commit`, `Abort`. A commit writes two files; `CommitWriteError`
and `CrashInCommit` stop between the writes or inside the second, `CrashInRecord`
inside a record, `CrashInEntry` inside an entry that a state transfer appends.
`Open` cuts an incomplete entry off the log; an incomplete record makes
`load_journal` fail. `Open` and `Load` replay the journal one record at a time, as `load_journal`
does, and end in "failed" where the code returns an error.

**C4Commit.** `submission[n][t]` is a thread in `c4_cluster_submit`; its `phase`
says where it is: check, prepare calls, own vote, commit calls, apply, abort
calls. It calls the replicas one by one. `calls` holds the requests on their way;
a call is answered in time, fails, or is handled after the caller has given up.
An entry is applied to `directory[n]` after the mutex of the log is released, so
that is a step of its own (`applying`, for COMMIT and for state transfer alike).
Applying fails for payloads in `Malformed`, which the metadata refuse: the entry
stays in the log, the call is answered with an error, and `Unstartable` keeps the
process from starting again, since `c4_cluster_create` applies the whole log. In `CommitSpec` leadership, membership
and state transfer do anything at any time; in `StableSpec` there is one
coordinator.

**C4Election.** `tick[n]` is the thread of `c4_cluster_tick`, `handlers` are the
threads that serve an M_COORDINATOR, `network` the requests that were lost by
their callers and may still be handled. A fetched entry is appended in one step
(`AppendFetched`, `FollowerAppend`) and applied in the next (`ApplyFetched`,
`FollowerApply`); an entry sent to a follower is confirmed when it is applied. `term`, `requested`, `waiting` and
`leader` are the fields of the code.

**Membership and Heartbeat.** The table is a function from nodes to records; the
operators `Register`, `ApplyHeartbeat`, `Merge`, `Probe`, `Tick`, `Unregister`,
`Save` and `Load` are the functions of `membership.c`. `Heartbeat` has one job
for each pair of caller and target (`enqueue` admits no more), the two files
`node.incarnation` and `membership.bin`, and the requests in the network, which
outlive their caller. A section under the gate is one action.

**Chord.** `chord[n]` is the Chord object with its list of unavailable nodes;
`task[n]` is the join or maintenance the main thread is in. What a call returned
is used in a later step, so that a failure can be noticed in between.

**Storage and ChunkCache.** `mem` is the list of documents, `disk` the
directories `pending/` and `objects/`, `image` the states in which a power loss
may leave them (a rename is durable after the directory is synced). `op[d]` is
the operation that holds the mutex of the document. `ChunkCache` adds the cache
list, its capacity and clock, and threads that read: lookup, file read and
insertion are separate steps, because the mutex is released for the file read.

**ConcurrentServer.** A step is a critical section of the pool's mutex, or what a
thread does between two of them. Descriptors are numbers that the system reuses
as soon as they are closed; a condition variable may wake without a signal.

**Directory, PeerService, FileClient.** `avail` holds the owners in the metadata,
`reg` the registrations, `log` the committed announcements. A Peer's control
thread joins, announces each document of its catalog and sends heartbeats. A
client process has a pool of threads that take chunks; `part`, `dest` and
`content` are the files of a download.

## What the runs check

| Run | What it shows |
| --- | --- |
| `log` | Used in any order, with failing writes, kills and reopenings: the log passes every check of `c4_log_open` (`LogReplayable`), the journal has one vote and one decision per transaction (`JournalGrammar`), the table is the one the journal tells (`TableMatchesJournal`), an index is reserved once (`ReservedOnce`), a log written in step can be opened again (`InStepReopens`), and nothing is written behind an entry that a kill left incomplete (`TornEntryIsCut`). |
| `commit` | One coordinator, two concurrent announcements, lost, late and reordered requests, a crash and failing votes: success means replicated (`AckedIsReplicated`), no COMMIT before all votes (`CommitAfterVotes`), logs are prefixes of one another (`LogsAgree`), nobody commits what another aborted (`DecisionsAgree`). |
| `election` | Three Super Peers, a crash and a failed call or wrong suspicion: all running nodes end up with the highest of them as coordinator (`LeaderSettles`, liveness). |
| `rejoin` | A follower dies, the coordinator commits without it, it comes back, an election runs; one call or write fails (that of an entry after its COMMIT record, too), and the directory may refuse the announcement: election and state transfer refine `CommitSpec`, about which the theorems are, each directory is what the log says, but for what is being applied or was refused (`DirectoryFollowsLog`), and a follower that acknowledges a coordinator has its entries (`CatchUpFirst`). |
| `durable_commits_reopen` | A violation, see "Findings". |
| `server` | Acceptor, two workers and the stopping thread: one holder for each descriptor and none left at the end (`OneHolder`), stop reaches each handler (`StopReachesHandlers`), the ring refines `BoundedFifo` (`RingIsFifo`), destroy returns, and so does a create that could not start all threads (`ShutdownEnds`), a queued connection is served unless all workers are busy (`QueueIsServed`). |
| `member` | Two Super Peers and a Peer, without failing writes: batches are never refused for a Peer's record (`GossipIsValid`), the home is never behind its Peer's copies (`HomeIsAhead`), records and tombstones never go back (`RecordsMoveForward`), a late LEAVE never removes the running process (`LateLeaveIsHarmless`). |
| `member_ring` | Three Super Peers with failing writes: no record is ahead of its node (`NothingAheadOfItsNode`), a node enters the ring by direct evidence of that instance (`AdmittedByDirectEvidence`). |
| `storage` | A document of two chunks, of which a client may send a wrong one, with kills, power losses and failing writes, renames and syncs: what is FINISHED is intact, and what a commit published and synced survives a power loss (`FinishedIsIntact`), chunks that a put stored and acknowledged are kept (`AckedChunksKept`; "Findings" says until when), the storage refines `ObjectStore` (`ImplementsObjectStore`), a repeated upload is published (`UploadCompletes`); two reading threads while the capacity changes: chunks cached once, intact, within the capacity (`CacheIsSound`), victims in LFU order (`LeastUsedEvicted`). |
| `confirmed_is_durable` | A violation, see "Findings". |
| `chord` | Rings of two and three nodes and one change at any point: a late answer does not bring a forgotten node back (`NoForgottenReference`); in a complete ring lookups end at the owner (`LookupsFindOwner`) and maintenance changes nothing (`RingStays`); after a stop, start or join the running nodes form a complete ring (`RingForms`, liveness). |
| `files` | Super Peer, Peer, an upload and two downloads to one destination: acknowledged documents of a registered Peer are offered (`AckedIsOffered`), a departed Peer is not (`GoneIsNotOffered`), part files are never shared or left behind, and are kept by a download while it may succeed (`PartFiles`), a destination is published once and whole (`PublishedOnce`), the catalog of a running Peer comes back after mishaps (`CatalogReturns`, liveness). |

All runs check deadlock: wherever a system may come to rest, the specification
says so with an action.

### Bounds, and why they are enough

- `log`: one node (logs do not interact), three transactions, three indices:
  a committed one, an aborted one and one that competes for the same index.
- `commit`, `durable_commits_reopen`: two Super Peers are coordinator and
  replica; two transactions compete for an index and may be delivered in either
  order. `MaxFaults` = 1 crash or failed write. The theorems cover
  any number of nodes, transactions and faults.
- `election`: three nodes, since a Bully election needs somebody below, between
  and above; `MaxTerm` = 2, one crash and one mishap. A candidate that would need
  a third term is reported by `Capped` and not counted against liveness.
- `rejoin`: two nodes, one transaction with a payload the directory takes or one
  it refuses: the shortest history in which a node comes back behind the
  coordinator.
- `server`: two workers, a ring of two, four descriptors: the ring wraps, fills
  up and rejects, and a descriptor number is used again while others are open.
- `member`, `member_ring`: `MaxCalls` says who calls whom and how often, `Silent`
  who may be silent for long, `MaxEvents` how many jobs, crashes and exits there
  are in all. `MaxSequence` and `MaxEpoch` stand for UINT64_MAX, so that the
  overflow of both happens.
- `storage`: one document (documents have separate mutexes and directories), two
  chunks in a right and a wrong variant of different compressed size, five faults, two readers, capacities of
  0, 1 and 2 chunks, counters that saturate at 3 (UINT64_MAX in the code).
- `chord`: identifiers of two bits (liveness is dear, and the safety properties
  are proved for any number), three nodes that are not evenly spaced, one change,
  one thread maintaining at a time besides the calls it answers.
- `files`: one Peer and the Super Peer as a second holder, an upload and two
  downloads, pools of two threads on two chunks. One bound `MaxEvents` = 7 is
  spent on mishaps (2), downloads (3) and uploads (4), so that every pair of them
  meets without all of them at once.

Symmetry is used for transaction identifiers, where nothing orders them, and
never together with a liveness property.

### Fairness

Weak fairness says that a thread that can run does. `election`: the tick thread,
the handlers and the membership detector of each node; no fairness for faults,
late requests or clients. `server`: the threads; `accept` fails once its socket
is shut down; a handler returns once its connection is shut down (`recv`
returns 0) and not before. `storage`: the threads, the restart, and somebody who
repeats the upload of the unchanged file, as `UploadCompletes` says. `files`: the
Super Peer and each Peer. `chord`: the main thread of every node runs
maintenance again and again while other threads change its state, so it needs
strong fairness; the detector needs weak fairness. Both loops of the code run on
timers that are never disabled.

## What is proved

TLAPS proves the following for all values of the constants: any number of Super
Peers, Peers, documents, chunks, transactions, crashes, workers, descriptors. All
safety properties of the runs are proved but those of the cache.

**The log (`C4CommitProofs`, first part).** `LogTypeCorrect`, and all six
properties of the run `log`: `LogAlwaysReplayable`, `NothingBehindTornEntry`,
`JournalKeepsGrammar`, `TableAlwaysMatches`, `IndexReservedOnce` and
`OpenSucceedsInStep`. The log is replayable by induction with the
types alone, because `append_locked` compares index, version and TransactionID
with what it has. `TornEntryIsCut` needs `FileIsCut`: a log that is open or being
opened ends in a whole entry, since every kill closes it and `Open` cuts it.
`TableMatchesJournal` needs `JournalInv`: while a log is being
opened the table is the one told by the records read so far, and the journal has
one vote and one decision for each transaction; without the first a reopened
table would be unrelated to the journal, without the second a record could
overwrite a decision. The last two need `VoteInv`, a fact about the past: every
vote in the journal took the index after some length the log has had and after
the votes that were undecided just before it. So no two waiting votes share an
index; and a replay, which meets a vote with the same undecided votes before it
but a log that may have grown, accepts it unless the log has grown past it with
something else, which is what being in step excludes.

**The commit (`C4CommitProofs`, second part).** `CommitTypeCorrect` with
`EntryIsRead`: a submission in its vote has read an entry with its own
TransactionID. From it follows `CommitImplementsLog`: every step of the commit is
a step of `C4Log` or leaves the logs alone, so the theorems about the log hold of
every Super Peer. `AckedReplicated` and `VotesBeforeCommit` rest on `ReplicaInv`:
the replicas a submission has already called have journalled their vote
(in phase prepare), or all of them have and those called again have committed (in
phase commit); what is being applied is in the log. `CommitAfterVotes` alone is
not inductive, since it says nothing of the phase before.

The third part is about the directory. `DirectoryAlwaysFollows`: a running Super
Peer's directory is what its log holds, but for what a thread is about to apply
and what the metadata refuse. The invariant `DirectoryInv` adds that whatever a
thread is about to apply is there to be applied: committed in the table and in the
log when it comes from a commit (`DueIsReady`), in the log of a running process
when it was learned by state transfer (`LearnedIsLogged`). So applying never
publishes what is not committed, and each entry that was appended keeps a thread
that owes it to the directory until it is offered or refused.

**Agreement (`C4AgreementProofs`).** With one coordinator (`StableSpec`), which may
itself be killed and come back, `OneCoordinatorLogsAgree`, for all failing writes,
and `OneCoordinatorDecides`, when only writes of PREPARE and COMMIT records fail.
The argument is that a replica has nothing of its own. `VotesOfLeader`: every vote,
and every vote that is asked for, is in the leader's journal. `CommitsOfLeader`:
what a replica has committed, is told to commit or has in its log is in the
leader's log, and what is there the leader has voted for and committed; since a
journal has one vote for a transaction, it is the same entry. `AbortsOfLeader`:
whoever is told to abort, or has aborted, is told so by a leader whose ABORT is on
disk. This one needs that a submission that has not decided is not committed,
which a crash between the two writes of a commit, or a submission that read the
end of the log too early, could break. So `OneOutstanding`: the leader has one
vote at a time that is neither aborted nor in the log, for the next index, and
`CommitsInLog`: a commit in its table is in its log.

**From one coordinator to elections.** The other theorems about the commit are
about `CommitSpec`, where leadership, membership and state transfer are arbitrary.
`StableImplementsCommit` proves that the specification of the `commit` run
implements it (with `AliveInv`: membership only names nodes other than oneself).
That the election implements it too is the next point.

**The election (`C4ElectionProofs`).** `ElectionImplementsCommit`: every step of
`C4Election` is a step of `C4Commit` or leaves its variables alone, for any number
of Super Peers, terms, suspicions, lost and late calls and restarts. So what is
proved of `CommitSpec` holds through every election and state transfer, which
`ElectionKeepsPromises` states for `AckedIsReplicated`, `DirectoryFollowsLog` and
`TornEntryIsCut`. (`LogsAgree` and `DecisionsAgree` do not
follow: they are about one coordinator.) The commit allows a state transfer to
append only what is in some log, and lets only running nodes act. Neither can be
seen from a single step of the election, since an entry is read from one log,
travels, and is appended to another later. Hence `ElectionInv`: entries that were
fetched, or are on their way in a STATE_TRANSFER, are in some log; threads and
handlers run only while their process does; and a synchronising coordinator's
position lies within its log. No step removes an entry, so a late one is still in
some log.

`FollowersCatchUp` proves `CatchUpFirst`. It needs `CursorInv`: the cursor of the
fetch a handler of COORDINATOR makes never passes the end of its own log, although
other threads append to this log meanwhile and some of what is fetched is there
already; an entry that was appended and not yet applied (`logged`) is in the log
although the cursor has not passed it. The empty answer that ends the fetch then means that the log is as long
as the coordinator's.

**The server (`ConcurrentServerProofs`).** `OneHolderAlways`,
`StopAlwaysReaches` and `RingAlwaysFifo`. `ServerInv` says, separately for the
accepting thread, the ring and the workers, that they hold open descriptors and
no two the same (`Apart`), that every open descriptor is held (`Held`), that
`active[w]` is what `w` serves (`ActiveInv`), and what the main thread has waited
for (`MainInv`). Without `ActiveInv` a stop could miss a handler, without
`MainInv` a connection could be left when destroy returns. The ring lemmas turn
the indices modulo `Size` into sums without wrap-around; `TakeIsTail` and
`EnqueueIsAppend` then show that the slots are a queue.

**The membership service (`HeartbeatProofs`).** All six properties of the two membership runs:
`NothingAhead`, `ValidGossip`, `HomeAhead`, `MoveForward`, `AdmittedDirectly` and
`LateLeave`. There are some twenty actions, and most of them end in the same few
functions of `membership.c`, so the proof goes through kinds of change.
The first half shows that whatever is done to a record of a table keeps its
incarnation and sequence (Kept: detector, probe, LEAVE), or comes from the node
itself (Heard: JOIN, heartbeat, discovery), or copies a record out of a batch
(Told), that a step changes one Heartbeat object by such
changes or starts or ends its process, and that each message it adds was made from
that object. The second half then proves the invariant `IInv` and the action
properties for the kinds. `IInv` adds to the types: every incarnation that is
anywhere was written to the node's `node.incarnation` before it was used, which
`NothingAheadOfItsNode` needs after a crash; each Super Peer's record of another's
Peer was reported by its home, in tables and ledgers too, since a batch is made
from them; what the home of a Peer has let out is covered by its ledger on the
disk, without which `HomeIsAhead` would end at the first restart; a LEAVE on its
way is older than its sender's running process, which `LateLeaveIsHarmless` needs;
and every message is one that its sender's role sends.

**The storage (`StorageProofs`).** `FinishedDocuments`, `KeptChunks`, and
`StoresObjects`: the storage implements `ObjectStore`. `StorageInv` is about one
document at a time. Of every place in which a power loss may leave its directories
it says that `objects/` holds a whole, verified document or none, and never both
directories (`PlaceOK`); of the record in memory, that its chunks have files of
their size, and what the operation under way has done (`MemoryOK`: a commit has
verified the directory, the manifest on the disk is the record's); of the chunks
that were acknowledged, that `storage_create` would find them in every such place
(`Owed`). The second is what makes `Publish` leave a readable document, the
third what `AckedChunksKept` needs over a crash. A document is stored when no
place is outside `objects/`, so the sync of the parents is the step that publishes
it, a crash may decide a publication under way, and all other steps stutter.
`FinishedIsIntact` counts a document as durable when a commit synced it itself
(`published`), and `AckedChunksKept` a chunk when a put stored it itself: a repeated
COMMIT or PUT that finds its work done answers 0 and writes nothing (`CommitAgain`,
`PutAgain`). What that answer is worth is the second finding.

**Lookups, Peers and clients (`FileClientProofs`).** `AckedAlwaysOffered`,
`GoneNeverOffered`, `PartFilesKept` and `PublishesOnce`, all safety properties of
the run `files`, from `ClientInv`. A Peer is in touch (`InTouch`) when its JOIN with
its present incarnation was accepted and it has no failure to make good. `PeerOK`:
a Peer in touch whose record is alive owns, in the metadata, all that it was
acknowledged for but what it still has to announce; `EntryOK`: an announcement that
is past its check is in the log, belongs to a stored document, and is the only one
the control thread waits for. Without the second a reply could acknowledge what the
metadata have lost meanwhile. `GoneInv`: no record and no late request is of a later
incarnation than the Peer, so the tombstone of a LEAVE withstands every late JOIN.
`FileInv`: as long as the destination has no file, the part file is that of the
download at work, which is complete when it is about to be linked.

**The ring (`ChordProofs`).** `ForgottenStay`, `OwnersFound` and `RingLeftAlone`, all
safety properties of the run `chord`, for any number of bits and nodes, and any
number of changes. `Sound`: a Chord object refers to nothing it takes for
unavailable, and a node never takes itself for unavailable, since its table has no
record of itself. The other two theorems need to know what the ring is: `Quiet(S)`
says that the nodes S run and refer to each other as a complete ring, that they know
each other ALIVE, and what each task has heard so far agrees with that. Lemmas about
the circle show that `chord_consider_predecessor`, `chord_notify`,
`chord_set_finger` and `chord_repair` change nothing in such a ring, also where
identifiers wrap. For a lookup `Nears` says that every node visited is farther from
the key than the one to be asked, so none comes again, and that from there it is
less than 2^(Bits - visited) to any node before the key. `Halves` is the step: if
some node before the key is at least 2^(k-1) away, then the finger k-1 precedes the
key and the hop is at least that long; if none is, less than that is left anyway. So
the limit on hops is never what ends a lookup.

The assumptions are those of the modules: index and version of an entry are not
zero, `NoEntry`, `NoNode`, `NoFd`, `NoMember`, `NoChunk`, `NoDoc` and `NoDir` are
none of the values they stand beside, the ring has at least one slot, identifiers
of nodes are numbers, one Super Peer has the highest (there are finitely many), and a Peer is not a Super Peer, the home of a Peer is a
Super Peer, and the identifiers of the ring are the numbers below 2^Bits. `PowersOfTwo`
states the law of exponents for these bits, which the provers do not know. TLC
evaluates each of them in its runs. TLC has also checked the inductive invariants on
the instances of the runs.

**Only model-checked.** Liveness, since the prover does not handle fairness and
ENABLED. The cache (`CacheIsSound`, `LeastUsedEvicted`), whose eviction loop is a
recursive operator.

## Findings

`durable_commits_reopen`: `c4_log_commit` writes the COMMIT record before it
checks that the entry is the next one of the log (`c4_log.c:900`). Two concurrent
announcements reserve the indices 1 and 2; a replica that gets the COMMIT of the
second first answers ERANGE and keeps its COMMIT record. If it dies before the
first arrives, `load_journal` (`c4_log.c:416`) cannot append the entry and refuses
to open. `documentacao/checkpoint5_aluno2.md:17` says that recovery applies
every durable COMMIT that is missing in the log.

`confirmed_is_durable`: `storage_commit` returns 0 for a FINISHED document without
syncing anything (`storage.c:1066`). A commit is killed between its rename
(`storage.c:1088`) and its sync (`storage.c:1094`); the restarted process loads the
document as FINISHED and confirms the repeated COMMIT; a power loss may still take
the rename back, and then `pending/` holds a manifest that says FINISHED, which
`read_manifest` refuses (`storage.c:514`): the confirmed document is gone. The
comment on a failed sync (`storage.c:1096`) says the rename is undone "sem confirmar
estado não durável".

Observed while modelling, within what the models allow:

- A submission begun while leading goes on and commits after the leadership is
  lost (`c4_cluster.c:711`). A leader that restarts before anybody noticed elects
  itself and commits alone. When two nodes lead, logs of the same length cannot be
  told apart by index and version; this is why `LogsAgree` is stated for one
  coordinator.
- A follower whose fetch inside COORDINATOR failed has no leader and requests no
  election until somebody else does; `LeaderSettles` excludes it (`unsynced`). A
  recovery that times out is passed over, so a leader may start with a shorter
  log. A follower suspected during a commit stays behind until an election.
- An announcement is committed before the metadata see it (`c4_cluster.c:782`). One
  that they refuse is in all logs although the client is told of a failure, and
  keeps each Super Peer from starting again, because `c4_cluster_create` fails when
  an entry of the log cannot be applied (`c4_cluster.c:373`).
- If the ABORT record cannot be written the error is ignored (`c4_cluster.c:804`)
  and decisions may differ; an entry that cannot be appended after its COMMIT
  record has the same effect. So `commit` lets only the writes of PREPARE and
  COMMIT records fail. A torn journal tail (`c4_log.c:297`) and an aborted vote
  whose index was used again (`c4_log.c:382`) keep a log from opening;
  `InStepReopens` says when it opens.
- A rumour can turn FAILED into ALIVE (`membership.c:484`); it does not admit the
  node to the ring (`AdmittedByDirectEvidence`). The first heartbeat after a JOIN
  always causes a second JOIN. The result of a reconnection overwrites a
  `needs_reconnect` set meanwhile (`heartbeat.c:284`); if a heartbeat
  of the home brought its new incarnation meanwhile, nothing sets it again. The home
  has then replayed the announcements from its log, and it has the Peer in its
  ledger or refuses the Peer's next heartbeat.
- An upload killed between the final manifest and the rename starts again from
  nothing (`storage.c:514`), which is why `AckedChunksKept` ends there. If a put fails after its manifest was
  renamed, the manifest names a chunk that memory has forgotten; a later put of that
  chunk with another compressed size replaces the file, and until the next manifest
  `read_manifest` (`storage.c:570`) refuses the directory: a crash there loses the
  whole upload. `acked` starts anew at such a step (`Displaces`).
- A download client that is killed leaves its `.part` file, which blocks later
  downloads to the same destination (O_EXCL). An upload that was stored but whose
  announcement failed is announced at the next reconnection.

## Limits of the models

- C4: one submission of a TransactionID at a time on a node; a lost reply is a
  request handled just after the caller gave up. Whether an entry can be applied
  depends on its payload alone, not on what the directory already holds. A write
  that fails is undone (the code calls `ftruncate`, `c4_log.c:479`); that
  `ftruncate` itself fails is left out.
- Election: the cursor of a state transfer is read when it is accepted; the call
  in which a handler of COORDINATOR fetches a batch is one step, because the leader
  only reads its log. An entry that was sent counts as confirmed also when the
  receiver was restarted since it applied it. M_SNAPSHOT only reads and is left out.
- Heartbeat: clocks are classes of age; role and home of a node do not change. The
  job queue of 64 with four threads, batches of more than 64 records, a JOIN
  without incarnation and failing allocations are left out; that a failure is
  detected in the end is not checked.
- Storage: a journalled file system keeps the order of renames; the directory that
  `storage_begin` makes is durable with its first manifest; read errors while
  loading are left out. A chunk that is not the one the ObjectID names, and a
  directory that cannot be moved back, stop an upload for good (`Obstructed`).
- Cache: hit, miss and eviction counters are left out. The capacity changes at any
  time, as in the tests; the program sets it when it starts.
- Chord: the member table is one of five values per pair; a join is tried any
  number of times (30 in the code); the last running node does not stop.
  `refresh_chord_membership` is one step: it runs on the main thread on a copy of
  the table, and what other threads change meanwhile is taken up by its next run.
- Files: one Super Peer, whose log is the set of its committed announcements;
  writing its ledger succeeds; names of documents are left out. The heartbeats that
  the Super Peer sends to its Peer, which may set `seen` and `needs_reconnect`
  (`peer.c:288`, `heartbeat.c:164`), are left out: they carry what the answers to
  the Peer's own heartbeats carry.

## Not modelled

- `protocol.c`, `transfer_protocol.c`, `wire.h`: byte layouts and CRC32 without
  state; messages are records here.
- `node.c`, `app_config.c`, `content.c`, `compression.c`: identities, parsing,
  SHA-256 and LZ4 are library functions of one value; contents are model values.
- `rpc.c`, `network.c`: sockets and deadlines appear as calls that are answered,
  fail or are handled late.
- `local_control.c`: hands one command at a time from the command line to the
  Peer; the transfer itself is in `FileClient`.
- Command line, logging, topology and metrics of `superpeer.c`, `peer.c` and
  `file_client.c`: they print and change nothing.
- Clock rates, memory exhaustion and hash collisions.

## Running the checks

    tlc -workers 2 -config MCC4Commit.cfg MCC4Commit
    tlapm C4CommitProofs.tla

The longest runs (`files`, `rejoin`, `chord`) take two to three minutes, the
others less. A module of proofs takes from two to twenty minutes. In them a step that
names no prover is for Zenon (`USE ZenonT(60)`), and one that needs arithmetic,
tuples or sequences cites `SMTT(60)`.
