----------------------------- MODULE C4Election -----------------------------
(***************************************************************************)
(* The election of the coordinator and the transfer of state               *)
(* (c4_cluster_tick, c4_become_coordinator, c4_recover_from_member and the *)
(* ELECTION, COORDINATOR, IST_REQUEST and STATE_TRANSFER cases of          *)
(* c4_cluster_handle in c4_cluster.c), running together with the two-phase *)
(* commit of C4Commit.                                                     *)
(*                                                                         *)
(* Every node has one thread that runs c4_cluster_tick; it calls the other *)
(* members one after the other.  A call that is answered in time is one    *)
(* step of caller and handler.  A call that fails although the receiver is *)
(* running is a mishap: the request is lost, or handled late.  M_COORDINATOR*)
(* is handled by a thread of the receiver, which fetches the missing       *)
(* suffix of the log from the sender before it answers.  A thread that has *)
(* appended a received entry goes on when the entry has been applied       *)
(* (ApplyLearned of C4Commit), which other threads may precede.            *)
(***************************************************************************)
EXTENDS C4Commit

CONSTANTS Settled,    \* whether the first election is over at the start
          Clients,    \* the Super Peers whose clients announce documents
          Mortal,     \* the processes that may be killed
          Restarts,   \* whether killed processes are started again
          MaxTerm,    \* bound on the terms
          MaxMishaps  \* bound on the failed calls, failed appends and wrong suspicions

ASSUME IdAssumption ==
  /\ Node \subseteq Nat \ {0} /\ NoNode = 0
  /\ \E n \in Node : \A m \in Node : m <= n

ASSUME ElectionBounds ==
  /\ Settled \in BOOLEAN /\ Restarts \in BOOLEAN
  /\ Clients \subseteq Node /\ Mortal \subseteq Node /\ MaxTerm \in Nat /\ MaxMishaps \in Nat

VARIABLES term,       \* term[n]: the term n knows
          requested,  \* requested[n]: election_requested
          waiting,    \* waiting[n]: election_waiting
          tick,       \* tick[n]: where the thread of c4_cluster_tick is
          handlers,   \* the threads that handle an accepted M_COORDINATOR
          network,    \* requests that are on their way
          unsynced,   \* nodes whose last M_COORDINATOR handler failed to fetch the log
          mishaps     \* how many calls and appends failed and suspicions were wrong

electionVars == <<term, requested, waiting, tick, handlers, network, unsynced, mishaps>>

allVars == <<vars, electionVars>>

\* c4_recover_from_member: the member asked, the last index fetched, the entries
\* of the batch that are still to be appended and applied, and whether the first
\* of them has been appended.
NoRecovery == [from |-> NoNode, cursor |-> 0, batch |-> <<>>, logged |-> FALSE]

Recovery == [from : Node \cup {NoNode}, cursor : Nat, batch : Seq(Entry), logged : BOOLEAN]

\* Where a recovery from m starts.
Recover(n, m) == [NoRecovery EXCEPT !.from = m, !.cursor = LastIndex(n)]

Thread == [phase : {"idle", "elect", "recover", "announce", "sync"},
           members : SUBSET Node,  \* the live members captured by the tick
           todo : SUBSET Node,     \* those still to be called in this phase
           call : Node \cup {NoNode}, \* the member called, in announce and sync
           higher : BOOLEAN,       \* higher_responded
           term : Nat,             \* the term announced
           next : Nat, last : Nat, \* the entries c4_broadcast_log still sends
           recovery : Recovery]

Asleep == [phase |-> "idle", members |-> {}, todo |-> {}, call |-> NoNode, higher |-> FALSE,
           term |-> 0, next |-> 0, last |-> 0, recovery |-> NoRecovery]

\* Between two accesses to shared state the thread goes through empty loops:
\* nobody higher to ask, nobody left to announce to, no entries to send.
Goto(n, t) ==
  LET recover == t.phase = "elect" /\ t.todo = {} /\ ~t.higher
      sync == t.phase = "announce" /\ t.todo = {} /\ t.call = NoNode
      rest == t.phase = "sync" /\ t.call = NoNode /\ t.todo = {} IN
  IF recover THEN [t EXCEPT !.phase = "recover", !.todo = t.members]
  ELSE IF sync /\ log[n] # <<>> /\ t.members # {}
       THEN [t EXCEPT !.phase = "sync", !.todo = t.members, !.last = LastIndex(n)]
  ELSE IF sync \/ rest THEN Asleep
  ELSE t

Continue(n, t) == tick' = [tick EXCEPT ![n] = Goto(n, t)]

Handler == [node : Node, src : Node, recovery : Recovery]

Election(n, m) == [type |-> "M_ELECTION", src |-> n, dst |-> m]

Coordinator(n, m) == [type |-> "M_COORDINATOR", src |-> n, dst |-> m, term |-> tick[n].term]

StateTransfer(n, m, e) == [type |-> "M_STATE_TRANSFER", src |-> n, dst |-> m, entry |-> e]

Message == [type : {"M_ELECTION"}, src : Node, dst : Node]
           \cup [type : {"M_COORDINATOR"}, src : Node, dst : Node, term : Nat]
           \cup [type : {"M_STATE_TRANSFER"}, src : Node, dst : Node, entry : Entry]

Mishap == mishaps < MaxMishaps /\ mishaps' = mishaps + 1

Running(n) == status[n] = "open"

\* m handles a request of n only when it takes n for a live Super Peer.
Hears(m, n) == Running(m) /\ n \in alive[m]

----------------------------------------------------------------------------
(* c4_cluster_tick *)

Highest(S) == CHOOSE n \in S : \A m \in S : m <= n

Higher(n, S) == {m \in S : m > n}

LeaderLost(n) == leader[n] \notin {NoNode, n} \cup alive[n]

Outranked(n) == leader[n] = n /\ Higher(n, alive[n]) # {}

\* Mutant of TickElects: a coordinator does not look for higher members.
TickElectsContent(n, expired) ==
  requested[n] \/ LeaderLost(n) \/ (waiting[n] /\ expired)

\* The start of a tick; expired tells whether C4_ELECTION_RETRY_MS have passed.
TickElects(n, expired) ==
  requested[n] \/ LeaderLost(n) \/ Outranked(n) \/ (waiting[n] /\ expired)

Tick(n, expired) ==
  /\ Running(n) /\ tick[n].phase = "idle"
  /\ TickElects(n, expired)
  /\ leader' = IF LeaderLost(n) THEN [leader EXCEPT ![n] = NoNode] ELSE leader
  /\ requested' = [requested EXCEPT ![n] = TRUE]
  /\ waiting' = IF expired THEN [waiting EXCEPT ![n] = FALSE] ELSE waiting
  /\ Continue(n, [Asleep EXCEPT !.phase = "elect", !.members = alive[n],
                                !.todo = Higher(n, alive[n])])
  /\ UNCHANGED <<logVars, alive, directory, commitVars, term, handlers, network, unsynced,
                 mishaps>>

\* M_ELECTION to a higher member: it answers and will hold an election itself.
CallElection(n, m) ==
  /\ tick[n].phase = "elect" /\ m \in tick[n].todo
  /\ Hears(m, n)
  /\ requested' = [requested EXCEPT ![m] = TRUE]
  /\ Continue(n, [tick[n] EXCEPT !.todo = @ \ {m}, !.higher = TRUE])
  /\ UNCHANGED <<vars, term, waiting, handlers, network, unsynced, mishaps>>

\* The higher member does not answer with M_OK; the request may be handled late.
ElectionFails(n, m) ==
  /\ tick[n].phase = "elect" /\ m \in tick[n].todo
  /\ \/ ~Hears(m, n) /\ UNCHANGED <<network, mishaps>>
     \/ /\ Hears(m, n) /\ Mishap
        /\ network' \in {network, network \cup {Election(n, m)}}
  /\ Continue(n, [tick[n] EXCEPT !.todo = @ \ {m}])
  /\ UNCHANGED <<vars, term, requested, waiting, handlers, unsynced>>

HandleElection(r) ==
  /\ r \in network /\ r.type = "M_ELECTION" /\ Running(r.dst)
  /\ requested' = IF Hears(r.dst, r.src) THEN [requested EXCEPT ![r.dst] = TRUE] ELSE requested
  /\ network' = network \ {r}
  /\ UNCHANGED <<vars, term, waiting, tick, handlers, unsynced, mishaps>>

\* A higher member answered: wait for its M_COORDINATOR.
AwaitCoordinator(n) ==
  /\ tick[n].phase = "elect" /\ tick[n].todo = {} /\ tick[n].higher
  /\ waiting' = [waiting EXCEPT ![n] = TRUE]
  /\ requested' = [requested EXCEPT ![n] = FALSE]
  /\ tick' = [tick EXCEPT ![n] = Asleep]
  /\ UNCHANGED <<vars, term, handlers, network, unsynced, mishaps>>

----------------------------------------------------------------------------
(* c4_recover_from_member *)

\* m serves M_IST_REQUEST of n for the entries after index k.
Serves(m, n, k) ==
  /\ Hears(m, n)
  /\ k <= LastIndex(m)
  /\ k > 0 => log[m][k].version = log[n][k].version

\* The batches m may answer: as many entries as fit, at least one if there is one.
Batches(m, k) ==
  IF k = LastIndex(m) THEN {<<>>} ELSE {SubSeq(log[m], k + 1, j) : j \in (k + 1)..LastIndex(m)}

\* A transaction of the batch is already in n's log.
Repeats(n, batch) == \E i \in DOMAIN batch : HasTxId(n, batch[i].txid)

\* Mutant of AppendReceived: the entry is applied and not written to the log.
AppendReceivedUnlogged(n, e) ==
  /\ directory' = [directory EXCEPT ![n] = @ \cup {e}]
  /\ UNCHANGED <<logVars, leader, alive, commitVars>>

\* Mutant of AppendReceived: the entry is written to the log and not applied.
AppendReceivedUnapplied(n, e) ==
  /\ AppendEntry(n, e) \/ (HasEntry(n, e) /\ UNCHANGED logVars)
  /\ UNCHANGED <<leader, alive, directory, commitVars>>

\* An entry of another replica is appended, or found in the log, and is to be applied.
AppendReceived(n, e) ==
  /\ AppendEntry(n, e) \/ (HasEntry(n, e) /\ UNCHANGED logVars)
  /\ applying' = applying \cup {Learned(n, e)}
  /\ UNCHANGED <<leader, alive, submission, calls, directory, acked, faults>>

\* The thread of n that appended e has tried to apply it.
Tried(n, e) == Learned(n, e) \notin applying

\* The cursor moves when the entry has been applied.
Advanced(r) == [r EXCEPT !.cursor = Head(r.batch).index, !.batch = Tail(@), !.logged = FALSE]

----------------------------------------------------------------------------
(* c4_become_coordinator *)

\* No higher member answered: recover from every live member.
RecoverFrom(n, m) ==
  /\ tick[n].phase = "recover" /\ tick[n].recovery = NoRecovery /\ m \in tick[n].todo
  /\ tick' = [tick EXCEPT ![n].todo = @ \ {m}, ![n].recovery = Recover(n, m)]
  /\ UNCHANGED <<vars, term, requested, waiting, handlers, network, unsynced, mishaps>>

\* The logs diverge, or so it seems (EBADMSG, EEXIST or ERANGE): the election
\* is suspended and will be held again.
Suspend(n) ==
  /\ requested' = [requested EXCEPT ![n] = TRUE]
  /\ waiting' = [waiting EXCEPT ![n] = TRUE]
  /\ tick' = [tick EXCEPT ![n] = Asleep]
  /\ UNCHANGED <<vars, term, handlers, network, unsynced>>

\* The next member is asked.
PassOver(n) ==
  /\ tick' = [tick EXCEPT ![n].recovery = NoRecovery]
  /\ UNCHANGED <<vars, term, requested, waiting, handlers, network, unsynced>>

\* A batch arrives; an empty one ends the recovery from this member.
FetchBatch(n) ==
  LET r == tick[n].recovery IN
  /\ r.from # NoNode /\ r.batch = <<>>
  /\ Serves(r.from, n, r.cursor)
  /\ \E batch \in Batches(r.from, r.cursor) :
        IF Repeats(n, batch) THEN Suspend(n) /\ UNCHANGED mishaps
        ELSE /\ tick' = [tick EXCEPT ![n].recovery =
                           IF batch = <<>> THEN NoRecovery ELSE [r EXCEPT !.batch = batch]]
             /\ UNCHANGED <<vars, term, requested, waiting, handlers, network, unsynced, mishaps>>

\* The member refuses or does not answer: it is passed over.  A connection that
\* is closed without an answer may look like a malformed one.
FetchFails(n) ==
  LET r == tick[n].recovery IN
  /\ r.from # NoNode /\ r.batch = <<>>
  /\ IF Serves(r.from, n, r.cursor) THEN Mishap ELSE UNCHANGED mishaps
  /\ \/ PassOver(n)
     \/ (Serves(r.from, n, r.cursor) \/ ~Running(r.from)) /\ Suspend(n)

\* The first entry of the batch is appended; the log refuses it; or it cannot be
\* written, and the member is passed over.
AppendFetched(n) ==
  LET r == tick[n].recovery IN
  /\ r.batch # <<>> /\ ~r.logged
  /\ \/ /\ AppendReceived(n, Head(r.batch))
        /\ tick' = [tick EXCEPT ![n].recovery.logged = TRUE]
        /\ UNCHANGED <<term, requested, waiting, handlers, network, unsynced, mishaps>>
     \/ ~AppendAccepts(n, Head(r.batch)) /\ Suspend(n) /\ UNCHANGED mishaps
     \/ IsNext(n, Head(r.batch)) /\ Mishap /\ PassOver(n)

\* It has been applied; or it was refused, which ends the recovery from this
\* member, with an error that may suspend the election (EBADMSG) or not.
ApplyFetched(n) ==
  LET r == tick[n].recovery IN
  /\ r.batch # <<>> /\ r.logged /\ Tried(n, Head(r.batch))
  /\ \/ /\ Applicable(Head(r.batch))
        /\ tick' = [tick EXCEPT ![n].recovery = Advanced(r)]
        /\ UNCHANGED <<vars, term, requested, waiting, handlers, network, unsynced>>
     \/ ~Applicable(Head(r.batch)) /\ (Suspend(n) \/ PassOver(n))
  /\ UNCHANGED mishaps

Lead(n) ==
  /\ tick[n].phase = "recover" /\ tick[n].recovery = NoRecovery /\ tick[n].todo = {}
  /\ term[n] < MaxTerm
  /\ term' = [term EXCEPT ![n] = @ + 1]
  /\ leader' = [leader EXCEPT ![n] = n]
  /\ requested' = [requested EXCEPT ![n] = FALSE]
  /\ waiting' = [waiting EXCEPT ![n] = FALSE]
  /\ Continue(n, [tick[n] EXCEPT !.phase = "announce", !.todo = tick[n].members,
                                 !.term = term[n] + 1])
  /\ unsynced' = unsynced \ {n}
  /\ UNCHANGED <<logVars, alive, directory, commitVars, handlers, network, mishaps>>

\* c4_broadcast_coordinator: the answer is awaited and not looked at.
Announce(n, m) ==
  /\ tick[n].phase = "announce" /\ tick[n].call = NoNode /\ m \in tick[n].todo
  /\ Continue(n, [tick[n] EXCEPT !.todo = @ \ {m}, !.call = IF Running(m) THEN m ELSE NoNode])
  /\ network' = IF Running(m) THEN network \cup {Coordinator(n, m)} ELSE network
  /\ UNCHANGED <<vars, term, requested, waiting, handlers, unsynced, mishaps>>

\* m is still busy with the M_COORDINATOR of n.
Announcing(n, m) ==
  \/ Coordinator(n, m) \in network
  \/ \E h \in handlers : h.node = m /\ h.src = n

\* The answer arrives; or the deadline passes, the request being lost or not.
Announced(n) ==
  /\ tick[n].phase = "announce" /\ tick[n].call # NoNode
  /\ \/ ~Announcing(n, tick[n].call) /\ UNCHANGED <<network, mishaps>>
     \/ /\ Announcing(n, tick[n].call) /\ Mishap
        /\ network' \in {network, network \ {Coordinator(n, tick[n].call)}}
  /\ Continue(n, [tick[n] EXCEPT !.call = NoNode])
  /\ UNCHANGED <<vars, term, requested, waiting, handlers, unsynced>>

\* c4_broadcast_log turns to the next member.
SyncWith(n, m) ==
  /\ tick[n].phase = "sync" /\ tick[n].call = NoNode /\ m \in tick[n].todo
  /\ tick' = [tick EXCEPT ![n].todo = @ \ {m}, ![n].call = m, ![n].next = 1]
  /\ UNCHANGED <<vars, term, requested, waiting, handlers, network, unsynced, mishaps>>

\* The STATE_TRANSFER case accepts e from n.
Accepts(m, n, e) == leader[m] = n /\ Hears(m, n) /\ AppendAccepts(m, e)

\* The entry whose confirmation c4_broadcast_log awaits, from the second one on.
Sent(n) == log[n][tick[n].next - 1]

\* The receiver has applied the entry sent before.
Confirmed(n) ==
  tick[n].next > 1 => Tried(tick[n].call, Sent(n)) /\ Applicable(Sent(n))

\* The next entry is sent, and appended by the receiver.
SyncEntry(n) ==
  LET t == tick[n]
      e == log[n][t.next] IN
  /\ t.phase = "sync" /\ t.call # NoNode
  /\ t.next <= t.last /\ Confirmed(n)
  /\ Accepts(t.call, n, e)
  /\ AppendReceived(t.call, e)
  /\ tick' = [tick EXCEPT ![n].next = @ + 1]
  /\ UNCHANGED <<term, requested, waiting, handlers, network, unsynced, mishaps>>

\* The last entry is confirmed.
SyncDone(n) ==
  /\ tick[n].phase = "sync" /\ tick[n].call # NoNode
  /\ tick[n].next > tick[n].last /\ Confirmed(n) /\ Running(tick[n].call)
  /\ Continue(n, [tick[n] EXCEPT !.call = NoNode])
  /\ UNCHANGED <<vars, term, requested, waiting, handlers, network, unsynced, mishaps>>

\* An entry is refused, or its call fails and it may arrive late; or the receiver
\* cannot apply it, or the answer does not come in time: c4_broadcast_log gives up.
SyncFails(n) ==
  LET t == tick[n]
      e == log[n][t.next] IN
  /\ t.phase = "sync" /\ t.call # NoNode
  /\ \/ /\ t.next <= t.last /\ Confirmed(n)
        /\ \/ ~Accepts(t.call, n, e) /\ UNCHANGED <<network, mishaps>>
           \/ /\ Accepts(t.call, n, e) /\ Mishap
              /\ network' \in {network, network \cup {StateTransfer(n, t.call, e)}}
     \/ /\ ~Confirmed(n) \/ (t.next > t.last /\ ~Running(t.call))
        /\ IF Tried(t.call, Sent(n)) THEN UNCHANGED mishaps ELSE Mishap
        /\ UNCHANGED network
  /\ tick' = [tick EXCEPT ![n] = Asleep]
  /\ UNCHANGED <<vars, term, requested, waiting, handlers, unsynced>>

HandleStateTransfer(r) ==
  /\ r \in network /\ r.type = "M_STATE_TRANSFER" /\ Running(r.dst)
  /\ IF Accepts(r.dst, r.src, r.entry) THEN AppendReceived(r.dst, r.entry) ELSE UNCHANGED vars
  /\ network' = network \ {r}
  /\ UNCHANGED <<term, requested, waiting, tick, handlers, unsynced, mishaps>>

----------------------------------------------------------------------------
(* M_COORDINATOR at a follower *)

Acceptable(r) == Hears(r.dst, r.src) /\ r.term >= term[r.dst] /\ r.src >= r.dst

\* The sender is taken for the coordinator before its log has been fetched.
HandleCoordinator(r) ==
  /\ r \in network /\ r.type = "M_COORDINATOR" /\ Running(r.dst)
  /\ Acceptable(r)
  /\ term' = [term EXCEPT ![r.dst] = r.term]
  /\ leader' = [leader EXCEPT ![r.dst] = r.src]
  /\ requested' = [requested EXCEPT ![r.dst] = FALSE]
  /\ waiting' = [waiting EXCEPT ![r.dst] = FALSE]
  /\ handlers' = handlers \cup {[node |-> r.dst, src |-> r.src,
                                 recovery |-> Recover(r.dst, r.src)]}
  /\ network' = network \ {r}
  /\ unsynced' = unsynced \ {r.dst}
  /\ UNCHANGED <<logVars, alive, directory, commitVars, tick, mishaps>>

\* An older term, a lower node or one that is not taken for live: an error is answered.
RefuseCoordinator(r) ==
  /\ r \in network /\ r.type = "M_COORDINATOR" /\ Running(r.dst)
  /\ ~Acceptable(r)
  /\ network' = network \ {r}
  /\ UNCHANGED <<vars, term, requested, waiting, tick, handlers, unsynced, mishaps>>

\* The log could not be fetched: the coordinator is forgotten again.
NotSynced(h) ==
  /\ leader' = IF leader[h.node] = h.src THEN [leader EXCEPT ![h.node] = NoNode] ELSE leader
  /\ handlers' = handlers \ {h}
  /\ unsynced' = unsynced \cup {h.node}
  /\ UNCHANGED <<logVars, alive, directory, commitVars, term, requested, waiting, tick, network>>

\* Mutant of FollowerFetch: the coordinator is acknowledged when the batch arrives.
FollowerFetchEarly(h) ==
  /\ h \in handlers /\ h.recovery.batch = <<>>
  /\ Serves(h.src, h.node, h.recovery.cursor)
  /\ handlers' = handlers \ {h}
  /\ UNCHANGED <<vars, term, requested, waiting, tick, network, unsynced, mishaps>>

FollowerFetch(h) ==
  LET r == h.recovery IN
  /\ h \in handlers /\ r.batch = <<>>
  /\ Serves(h.src, h.node, r.cursor)
  /\ \E batch \in Batches(h.src, r.cursor) :
        IF Repeats(h.node, batch) THEN NotSynced(h) /\ UNCHANGED mishaps
        ELSE /\ handlers' = (handlers \ {h}) \cup
                   (IF batch = <<>> THEN {} ELSE {[h EXCEPT !.recovery.batch = batch]})
             /\ UNCHANGED <<vars, term, requested, waiting, tick, network, unsynced, mishaps>>

FollowerFetchFails(h) ==
  /\ h \in handlers /\ h.recovery.batch = <<>>
  /\ IF Serves(h.src, h.node, h.recovery.cursor) THEN Mishap ELSE UNCHANGED mishaps
  /\ NotSynced(h)

\* The first entry of the batch is appended; the log refuses it, or it cannot be
\* written.
FollowerAppend(h) ==
  LET r == h.recovery IN
  /\ h \in handlers /\ r.batch # <<>> /\ ~r.logged
  /\ \/ /\ AppendReceived(h.node, Head(r.batch))
        /\ handlers' = (handlers \ {h}) \cup {[h EXCEPT !.recovery.logged = TRUE]}
        /\ UNCHANGED <<term, requested, waiting, tick, network, unsynced, mishaps>>
     \/ ~AppendAccepts(h.node, Head(r.batch)) /\ NotSynced(h) /\ UNCHANGED mishaps
     \/ IsNext(h.node, Head(r.batch)) /\ Mishap /\ NotSynced(h)

FollowerApply(h) ==
  LET r == h.recovery IN
  /\ h \in handlers /\ r.batch # <<>> /\ r.logged /\ Tried(h.node, Head(r.batch))
  /\ \/ /\ Applicable(Head(r.batch))
        /\ handlers' = (handlers \ {h}) \cup {[h EXCEPT !.recovery = Advanced(r)]}
        /\ UNCHANGED <<vars, term, requested, waiting, tick, network, unsynced>>
     \/ ~Applicable(Head(r.batch)) /\ NotSynced(h)
  /\ UNCHANGED mishaps

----------------------------------------------------------------------------
(* Crashes, restarts and membership *)

\* The entry n is sending may be handled though n is killed.
InFlight(n) ==
  IF /\ tick[n].phase = "sync" /\ tick[n].call # NoNode /\ Running(tick[n].call)
     /\ tick[n].next <= tick[n].last /\ Confirmed(n)
  THEN {StateTransfer(n, tick[n].call, log[n][tick[n].next])} ELSE {}

\* The process is killed; c4_cluster_create starts with term 0 and an election.
DieAndForget(n) ==
  /\ Die(n)
  /\ term' = [term EXCEPT ![n] = 0]
  /\ requested' = [requested EXCEPT ![n] = TRUE]
  /\ waiting' = [waiting EXCEPT ![n] = FALSE]
  /\ tick' = [tick EXCEPT ![n] = Asleep]
  /\ handlers' = {h \in handlers : h.node # n}
  /\ \E sent \in SUBSET InFlight(n) : network' = {r \in network : r.dst # n} \cup sent
  /\ unsynced' = unsynced \ {n}
  /\ UNCHANGED mishaps

\* Membership takes a running member for failed.
Suspect(n, m) ==
  /\ Running(n) /\ Running(m) /\ m \in alive[n] /\ Mishap
  /\ alive' = [alive EXCEPT ![n] = @ \ {m}]
  /\ UNCHANGED <<logVars, leader, directory, commitVars, term, requested, waiting, tick,
                 handlers, network, unsynced>>

----------------------------------------------------------------------------

\* The nodes have joined one another; the first election is still to be held, or over.
ElectionInit ==
  /\ NothingSubmitted
  /\ alive = [n \in Node |-> Node \ {n}]
  /\ leader = [n \in Node |-> IF Settled THEN Highest(Node) ELSE NoNode]
  /\ term = [n \in Node |-> IF Settled THEN 1 ELSE 0]
  /\ requested = [n \in Node |-> ~Settled]
  /\ waiting = [n \in Node |-> FALSE]
  /\ tick = [n \in Node |-> Asleep]
  /\ handlers = {}
  /\ network = {}
  /\ unsynced = {}
  /\ mishaps = 0

TickThread(n) ==
  \/ \E expired \in {FALSE, waiting[n]} : Tick(n, expired)
  \/ \E m \in Node : CallElection(n, m) \/ ElectionFails(n, m)
  \/ AwaitCoordinator(n)
  \/ \E m \in Node : RecoverFrom(n, m)
  \/ FetchBatch(n) \/ FetchFails(n) \/ AppendFetched(n) \/ ApplyFetched(n) \/ Lead(n)
  \/ \E m \in Node : Announce(n, m) \/ SyncWith(n, m)
  \/ Announced(n) \/ SyncEntry(n) \/ SyncDone(n) \/ SyncFails(n)

HandlerThread(h) ==
  FollowerFetch(h) \/ FollowerFetchFails(h) \/ FollowerAppend(h) \/ FollowerApply(h)

HandleRequest(r) ==
  \/ HandleElection(r)
  \/ HandleCoordinator(r) \/ RefuseCoordinator(r)
  \/ HandleStateTransfer(r)

MembershipStep(n, m) ==
  \/ Detect(n, m) /\ UNCHANGED electionVars
  \/ Suspect(n, m)

RestartNode(n) == Restarts /\ Restart(n) /\ UNCHANGED electionVars

Submit(n, t) ==
  /\ SubmitNew(n, t) \/ \E p \in Payload : SubmitAgain(n, t, p)
  /\ UNCHANGED electionVars

\* The request whose reply the submission of t on n awaits is still to be handled.
Unanswered(n, t) ==
  /\ submission[n][t].call # NoNode
  /\ RequestTo(n, t, submission[n][t].call) \in calls \cup applying

\* A submission goes on; giving up on a request that a running node has is a mishap.
CoordinateCommit(n, t) ==
  /\ Coordinate(n, t)
  /\ IF Unanswered(n, t) THEN Mishap ELSE UNCHANGED mishaps
  /\ UNCHANGED <<term, requested, waiting, tick, handlers, network, unsynced>>

HandleCommitRequest(r) == Handle(r) /\ UNCHANGED electionVars

ElectionNext ==
  \/ \E n \in Node : TickThread(n) \/ RestartNode(n)
  \/ \E n \in Mortal : DieAndForget(n)
  \/ \E h \in handlers : HandlerThread(h)
  \/ \E r \in network : HandleRequest(r)
  \/ \E n, m \in Node : MembershipStep(n, m)
  \/ \E n \in Clients, t \in TxId : Submit(n, t) \/ CoordinateCommit(n, t)
  \/ \E r \in calls \cup applying : HandleCommitRequest(r)

ElectionSpec == ElectionInit /\ [][ElectionNext]_allVars

\* The threads of a running node run, a request that was delivered is handled,
\* every wait has a deadline, and membership finds out who is running.
FairElectionSpec ==
  /\ ElectionSpec
  /\ \A n \in Node : /\ WF_allVars(TickThread(n))
                     /\ WF_allVars(\E h \in handlers : h.node = n /\ HandlerThread(h))
                     /\ WF_allVars(\E r \in network : r.dst = n /\ HandleRequest(r))
                     /\ WF_allVars(\E r \in calls \cup applying : r.dst = n /\ HandleCommitRequest(r))
                     /\ WF_allVars(\E m \in Node : Detect(n, m) /\ UNCHANGED electionVars)

----------------------------------------------------------------------------
(* Properties *)

\* A candidate is held up only by the bound on the terms.
Capped == \E n \in Node : tick[n].phase = "recover" /\ term[n] = MaxTerm

UpNodes == {n \in Node : Running(n)}

\* After the last disturbance the highest running node leads, and every other
\* one follows it, except a node whose fetch of the log failed and that waits
\* for the next election.
LeaderSettles ==
  <>[](Capped \/ \A n \in UpNodes \ unsynced : leader[n] = Highest(UpNodes))

\* A follower acknowledges M_COORDINATOR only when its log is at least as long
\* as the coordinator's is at that moment: a handler ends otherwise only by
\* failing or with its process.
CatchUpFirst ==
  [][\A h \in handlers :
       \/ \E g \in handlers' : g.node = h.node /\ g.src = h.src
       \/ h.node \in unsynced' \/ ~Running(h.node)'
       \/ LastIndex(h.node) >= LastIndex(h.src)]_allVars

=============================================================================
