------------------------------ MODULE C4Commit ------------------------------
(***************************************************************************)
(* Two-phase commit of an announcement (c4_cluster_submit and the PREPARE, *)
(* COMMIT and ABORT cases of c4_cluster_handle in c4_cluster.c) over the   *)
(* logs of C4Log.                                                          *)
(*                                                                         *)
(* A submission is a thread of the coordinator: it calls the captured      *)
(* replicas one after the other and waits for each reply until the         *)
(* deadline of the call.  A request is lost, handled in time, or handled   *)
(* after the caller gave up on it (it was waiting in the receiver's queue  *)
(* of connections, or the reply is lost: to both sides that is the same).  *)
(* Receiving a reply only changes the waiting thread, so it is part of the *)
(* step that handles the request.  Requests do not survive the receiver: a *)
(* connection to a process that is not running is refused.  An entry is    *)
(* written under the mutex of the log and applied to the directory after   *)
(* it is released, so these are two steps, also in a state transfer; and   *)
(* an entry that is in the log may turn out not to be applicable.          *)
(*                                                                         *)
(* Who leads, which replicas a node believes alive and which entries it is *)
(* sent by the others is decided by the election, the state transfer and   *)
(* the membership protocol.  CommitSpec lets them do anything, at any      *)
(* time; in StableSpec every node only ever follows Leader and copies its  *)
(* log, and membership knows who is running.                               *)
(***************************************************************************)
EXTENDS C4Log, FiniteSets

CONSTANTS NoNode,    \* the zero NodeID
          Leader,    \* the coordinator of StableSpec
          Malformed, \* the announcements that apply_c4_entry refuses
          WriteErrors, \* which journal records and entries may fail to be written
          MaxFaults  \* bound on the crashes and failed writes

ASSUME NodeAssumption == Leader \in Node /\ NoNode \notin Node

ASSUME MalformedAssumption == Malformed \subseteq Payload

ASSUME BoundAssumption == WriteErrors \subseteq {"PREPARE", "COMMIT", "ABORT", "entry"} /\ MaxFaults \in Nat

VARIABLES leader,     \* leader[n]: whom n takes for the coordinator
          alive,      \* alive[n]: the other Super Peers below FAILED in n's membership table
          submission, \* submission[n][t]: the c4_cluster_submit of t running on n
          calls,      \* requests on their way
          applying,   \* M_COMMIT requests and transfers whose entry is logged, not yet applied
          directory,  \* directory[n]: the entries applied to n's metadata
          acked,      \* acked[t]: the replicas covered by a submission of t that returned 0
          faults      \* how many crashes and failed writes there were

commitVars == <<submission, calls, applying, acked, faults>>

vars == <<status, log, journal, torn, txns, pos, leader, alive, submission, calls, applying,
          directory, acked, faults>>

Phase == {"idle", "read", "vote", "prepare", "apply", "commit", "abort", "resend"}

Submission == [phase : Phase,
               todo : SUBSET Node,            \* replicas still to be called in this phase
               sent : SUBSET Node,            \* replicas called so far (sent_members)
               call : Node \cup {NoNode},     \* the replica whose reply is awaited
               ok : BOOLEAN,                  \* prepare_ok
               entry : Entry \cup {NoEntry}]  \* the entry to be prepared

Idle == [phase |-> "idle", todo |-> {}, sent |-> {}, call |-> NoNode, ok |-> TRUE,
         entry |-> NoEntry]

Started(phase, S) == [Idle EXCEPT !.phase = phase, !.todo = S]

Calling(s, m) == [s EXCEPT !.todo = @ \ {m}, !.sent = @ \cup {m}, !.call = m]

\* Nobody looks at the answers to M_ABORT.
Answered(s, ok) == [s EXCEPT !.call = NoNode, !.ok = @ /\ (ok \/ s.phase = "abort")]

Request == [type : {"M_PREPARE"}, src : Node, dst : Node, txid : TxId, entry : Entry]
           \cup [type : {"M_COMMIT", "M_ABORT"}, src : Node, dst : Node, txid : TxId,
                 entry : {NoEntry}]

\* The request a submission of t on n sends to m.
RequestTo(n, t, m) ==
  LET phase == submission[n][t].phase IN
  [type |-> IF phase = "prepare" THEN "M_PREPARE"
            ELSE IF phase = "abort" THEN "M_ABORT" ELSE "M_COMMIT",
   src |-> n, dst |-> m, txid |-> t,
   entry |-> IF phase = "prepare" THEN submission[n][t].entry ELSE NoEntry]

\* A thread of n that has appended an entry of another replica and is to apply it.
Learned(n, e) == [type |-> "M_STATE_TRANSFER", dst |-> n, txid |-> e.txid, entry |-> e]

Learner == {Learned(n, e) : n \in Node, e \in Entry}

Entries(s) == {s[i] : i \in DOMAIN s}

\* apply_c4_entry publishes the announcement, or refuses it and changes nothing.
Applicable(e) == e.payload \notin Malformed

Applied(n, e) == IF Applicable(e) THEN [directory EXCEPT ![n] = @ \cup {e}] ELSE directory

WriteFails(what) == what \in WriteErrors /\ faults < MaxFaults /\ faults' = faults + 1

----------------------------------------------------------------------------
(* The coordinator *)

\* t is new to the log: capture the live replicas.  A transaction is submitted
\* until it has succeeded.
SubmitNew(n, t) ==
  /\ status[n] = "open" /\ leader[n] = n
  /\ submission[n][t].phase = "idle" /\ acked[t] = {}
  /\ ~HasTxId(n, t)
  /\ submission' = [submission EXCEPT ![n][t] = Started("read", alive[n])]
  /\ UNCHANGED <<logVars, leader, alive, calls, applying, directory, acked, faults>>

NextEntry(n, t, p) ==
  [index |-> LastIndex(n) + 1, version |-> LastVersion(n) + 1, txid |-> t, payload |-> p]

\* Read the end of the log; other threads may use it before the vote.
ReadEnd(n, t, p) ==
  /\ submission[n][t].phase = "read"
  /\ NextEntry(n, t, p) \in Entry
  /\ submission' = [submission EXCEPT
                     ![n][t] = [@ EXCEPT !.phase = "vote", !.entry = NextEntry(n, t, p)]]
  /\ UNCHANGED <<logVars, leader, alive, calls, applying, directory, acked, faults>>

\* Vote locally, then ask the replicas.
Vote(n, t) ==
  /\ submission[n][t].phase = "vote"
  /\ PrepareAccepts(n, submission[n][t].entry)
  /\ IF IsNewPrepare(n, submission[n][t].entry) THEN Prepare(n, submission[n][t].entry)
                                                ELSE UNCHANGED logVars
  /\ submission' = [submission EXCEPT ![n][t] = [@ EXCEPT !.phase = "prepare"]]
  /\ UNCHANGED <<leader, alive, calls, applying, directory, acked, faults>>

\* The local vote is refused or cannot be written: the submission fails.
VoteFails(n, t) ==
  /\ submission[n][t].phase = "vote"
  /\ \/ ~PrepareAccepts(n, submission[n][t].entry) /\ UNCHANGED faults
     \/ WriteFails("PREPARE")
  /\ submission' = [submission EXCEPT ![n][t] = Idle]
  /\ UNCHANGED <<logVars, leader, alive, calls, applying, directory, acked>>

\* t is in the log with the same payload: repeat the decision to the replicas.
SubmitAgain(n, t, p) ==
  /\ status[n] = "open" /\ leader[n] = n
  /\ submission[n][t].phase = "idle" /\ acked[t] = {}
  /\ \E i \in DOMAIN log[n] : log[n][i].txid = t /\ log[n][i].payload = p
  /\ submission' = [submission EXCEPT ![n][t] = Started("resend", alive[n])]
  /\ UNCHANGED <<logVars, leader, alive, calls, applying, directory, acked, faults>>

\* Call the next replica; a process that is not running refuses the connection.
Call(n, t, m) ==
  /\ submission[n][t].phase \in {"prepare", "commit", "abort", "resend"}
  /\ submission[n][t].call = NoNode
  /\ m \in submission[n][t].todo
  /\ submission' = [submission EXCEPT ![n][t] = Calling(@, m)]
  /\ calls' = IF status[m] = "open" THEN calls \cup {RequestTo(n, t, m)} ELSE calls
  /\ UNCHANGED <<logVars, leader, alive, applying, directory, acked, faults>>

\* Mutant of CallFails: a vote that does not arrive counts as given.
CallFailsIgnored(n, t) ==
  /\ submission[n][t].call # NoNode
  /\ submission' = [submission EXCEPT ![n][t] = Answered(@, TRUE)]
  /\ UNCHANGED <<logVars, leader, alive, calls, applying, directory, acked, faults>>

\* The call failed or its deadline passed; the request may still be handled.
CallFails(n, t) ==
  /\ submission[n][t].call # NoNode
  /\ submission' = [submission EXCEPT ![n][t] = Answered(@, FALSE)]
  /\ UNCHANGED <<logVars, leader, alive, calls, applying, directory, acked, faults>>

AllCalled(n, t, phase) ==
  /\ submission[n][t].phase = phase
  /\ submission[n][t].call = NoNode
  /\ submission[n][t].todo = {}

\* Every replica voted: commit here.
DecideCommit(n, t) ==
  /\ AllCalled(n, t, "prepare")
  /\ submission[n][t].ok
  /\ CommitAccepts(n, t)
  /\ Commit(n, t)
  /\ submission' = [submission EXCEPT ![n][t] = [@ EXCEPT !.phase = "apply"]]
  /\ UNCHANGED <<leader, alive, calls, applying, directory, acked, faults>>

\* Publish the committed entry here, then tell the replicas that voted.  When it
\* cannot be applied the submission fails, and the replicas are told nothing.
ApplyHere(n, t) ==
  LET e == txns[n][t].entry IN
  /\ submission[n][t].phase = "apply"
  /\ directory' = Applied(n, e)
  /\ submission' = [submission EXCEPT
                     ![n][t] = IF Applicable(e) THEN Started("commit", @.sent) ELSE Idle]
  /\ UNCHANGED <<logVars, leader, alive, calls, applying, acked, faults>>

\* The local commit fails: the submission ends without telling the replicas.
DecideFails(n, t) ==
  /\ AllCalled(n, t, "prepare")
  /\ submission[n][t].ok
  /\ \/ ~Committable(n, t) /\ UNCHANGED <<logVars, faults>>
     \/ ~CommitAccepts(n, t) /\ Commit(n, t) /\ UNCHANGED faults
     \/ WriteFails("COMMIT") /\ UNCHANGED logVars
     \/ WriteFails("entry") /\ CommitWriteError(n, t)
  /\ submission' = [submission EXCEPT ![n][t] = Idle]
  /\ UNCHANGED <<leader, alive, calls, applying, directory, acked>>

\* A replica did not vote: abort here, whatever the result, and tell the replicas.
DecideAbort(n, t) ==
  /\ AllCalled(n, t, "prepare")
  /\ ~submission[n][t].ok
  /\ \/ Abort(n, t) /\ UNCHANGED faults
     \/ ~Abortable(n, t) /\ UNCHANGED <<logVars, faults>>
     \/ WriteFails("ABORT") /\ UNCHANGED logVars
  /\ submission' = [submission EXCEPT ![n][t] = Started("abort", @.sent)]
  /\ UNCHANGED <<leader, alive, calls, applying, directory, acked>>

\* Mutant of Return: the client is told of success after the local commit.
ReturnEarly(n, t) ==
  /\ \/ AllCalled(n, t, "commit") \/ AllCalled(n, t, "abort") \/ AllCalled(n, t, "resend")
  /\ acked' = IF submission[n][t].phase # "abort"
              THEN [acked EXCEPT ![t] = @ \cup submission[n][t].sent \cup {n}]
              ELSE acked
  /\ submission' = [submission EXCEPT ![n][t] = Idle]
  /\ UNCHANGED <<logVars, leader, alive, calls, applying, directory, faults>>

\* The submission returns, 0 when every replica confirmed the commit.
Return(n, t) ==
  /\ \/ AllCalled(n, t, "commit") \/ AllCalled(n, t, "abort") \/ AllCalled(n, t, "resend")
  /\ acked' = IF submission[n][t].phase # "abort" /\ submission[n][t].ok
              THEN [acked EXCEPT ![t] = @ \cup submission[n][t].sent \cup {n}]
              ELSE acked
  /\ submission' = [submission EXCEPT ![n][t] = Idle]
  /\ UNCHANGED <<logVars, leader, alive, calls, applying, directory, faults>>

----------------------------------------------------------------------------
(* The replicas *)

\* c4_source_is_active_leader
FromLeader(r) == leader[r.dst] = r.src /\ r.src \in alive[r.dst]

Awaited(r) ==
  /\ submission[r.src][r.txid].call = r.dst
  /\ RequestTo(r.src, r.txid, r.dst) = r

\* The reply reaches a caller that still waits.
Answer(r, ok) ==
  /\ submission' = IF Awaited(r) THEN [submission EXCEPT ![r.src][r.txid] = Answered(@, ok)]
                                 ELSE submission
  /\ UNCHANGED <<leader, alive, acked>>

HandlePrepare(r) ==
  /\ r \in calls /\ r.type = "M_PREPARE" /\ status[r.dst] = "open"
  /\ IF FromLeader(r) /\ IsNewPrepare(r.dst, r.entry) THEN Prepare(r.dst, r.entry)
                                                      ELSE UNCHANGED logVars
  /\ calls' = calls \ {r}
  /\ Answer(r, FromLeader(r) /\ PrepareAccepts(r.dst, r.entry))
  /\ UNCHANGED <<applying, directory, faults>>

\* c4_log_commit succeeds; the handler goes on to apply the entry.
HandleCommit(r) ==
  /\ r \in calls /\ r.type = "M_COMMIT" /\ status[r.dst] = "open"
  /\ FromLeader(r)
  /\ CommitAccepts(r.dst, r.txid)
  /\ Commit(r.dst, r.txid)
  /\ calls' = calls \ {r}
  /\ applying' = applying \cup {r}
  /\ UNCHANGED <<submission, leader, alive, directory, acked, faults>>

ApplyCommit(r) ==
  LET e == txns[r.dst][r.txid].entry IN
  /\ r \in applying /\ r.type = "M_COMMIT"
  /\ directory' = Applied(r.dst, e)
  /\ applying' = applying \ {r}
  /\ Answer(r, Applicable(e))
  /\ UNCHANGED <<logVars, calls, faults>>

\* A thread that appended a transferred entry applies it.
ApplyLearned(r) ==
  /\ r \in applying /\ r.type = "M_STATE_TRANSFER"
  /\ directory' = Applied(r.dst, r.entry)
  /\ applying' = applying \ {r}
  /\ UNCHANGED <<logVars, leader, alive, submission, calls, acked, faults>>

\* The sender is not the leader, the transaction is not prepared, or the log
\* refuses its entry, in which case the decision is journalled all the same.
RefuseCommit(r) ==
  /\ r \in calls /\ r.type = "M_COMMIT" /\ status[r.dst] = "open"
  /\ ~(FromLeader(r) /\ CommitAccepts(r.dst, r.txid))
  /\ IF FromLeader(r) /\ Committable(r.dst, r.txid) THEN Commit(r.dst, r.txid)
                                                    ELSE UNCHANGED logVars
  /\ calls' = calls \ {r}
  /\ Answer(r, FALSE)
  /\ UNCHANGED <<applying, directory, faults>>

HandleCommitWriteError(r) ==
  /\ r \in calls /\ r.type = "M_COMMIT" /\ FromLeader(r)
  /\ WriteFails("entry") /\ CommitWriteError(r.dst, r.txid)
  /\ calls' = calls \ {r}
  /\ Answer(r, FALSE)
  /\ UNCHANGED <<applying, directory>>

HandleAbort(r) ==
  /\ r \in calls /\ r.type = "M_ABORT" /\ status[r.dst] = "open"
  /\ IF FromLeader(r) /\ Abortable(r.dst, r.txid) THEN Abort(r.dst, r.txid)
                                                  ELSE UNCHANGED logVars
  /\ calls' = calls \ {r}
  /\ Answer(r, FromLeader(r) /\ txns[r.dst][r.txid].state # "COMMITTED")
  /\ UNCHANGED <<applying, directory, faults>>

Handle(r) ==
  \/ HandlePrepare(r)
  \/ HandleCommit(r) \/ ApplyCommit(r) \/ RefuseCommit(r) \/ HandleCommitWriteError(r)
  \/ HandleAbort(r)
  \/ ApplyLearned(r)

----------------------------------------------------------------------------
(* Crashes and restarts: c4_cluster_create opens the log and applies it *)

\* n is executing an operation on its log that writes a journal record.
Recording(n) == leader[n] = n \/ \E r \in calls : r.dst = n /\ FromLeader(r)

\* n is executing c4_log_commit on t.
Committing(n, t) ==
  \/ AllCalled(n, t, "prepare") /\ submission[n][t].ok
  \/ \E r \in calls : /\ r.type = "M_COMMIT" /\ r.dst = n /\ r.txid = t
                      /\ FromLeader(r)

\* n is executing append_locked: in a commit, in a state transfer, in c4_log_open.
Appending(n) ==
  \/ \E t \in TxId : Committing(n, t)
  \/ \E m \in Node : \E e \in Entries(log[m]) : IsNext(n, e)
  \/ AtRecord(n, "COMMIT")

\* The process is killed: its threads and what it keeps in memory are gone.
Die(n) ==
  /\ faults < MaxFaults
  /\ faults' = faults + 1
  /\ \/ Crash(n)
     \/ CrashInRecord(n) /\ Recording(n)
     \/ CrashInEntry(n) /\ Appending(n)
     \/ \E t \in TxId : CrashInCommit(n, t) /\ Committing(n, t)
  /\ leader' = [leader EXCEPT ![n] = NoNode]
  /\ submission' = [submission EXCEPT ![n] = [t \in TxId |-> Idle]]
  /\ calls' = {r \in calls : r.dst # n}
  /\ applying' = {r \in applying : r.dst # n}
  /\ directory' = [directory EXCEPT ![n] = {}]
  /\ alive' = [alive EXCEPT ![n] = {}]
  /\ UNCHANGED acked

\* The log is open, and an entry in it cannot be applied.
Unstartable(n) ==
  /\ status[n] = "loading" /\ pos[n] > Len(journal[n]) /\ "journal" \notin torn[n]
  /\ \E e \in Entries(log[n]) : ~Applicable(e)

\* c4_cluster_create opens the log and applies its entries one by one; when one
\* is refused it closes the log again and fails.
Restart(n) ==
  /\ IF Unstartable(n) THEN Crash(n) ELSE Open(n) \/ Load(n)
  /\ directory' = IF status'[n] = "open" THEN [directory EXCEPT ![n] = Entries(log[n])]
                                        ELSE directory
  /\ UNCHANGED <<leader, alive, commitVars>>

----------------------------------------------------------------------------
(* The other components *)

\* State transfer (IST or M_STATE_TRANSFER): n appends an entry of m's log, or
\* finds that it has it, and goes on to apply it.
Transfer(n, m) ==
  /\ status[n] = "open"
  /\ \E i \in DOMAIN log[m] :
        /\ AppendEntry(n, log[m][i]) \/ (HasEntry(n, log[m][i]) /\ UNCHANGED logVars)
        /\ applying' = applying \cup {Learned(n, log[m][i])}
  /\ UNCHANGED <<leader, alive, submission, calls, directory, acked, faults>>

\* The election: a node that follows nobody joins the others and accepts Leader.
Follow(n) ==
  /\ status[n] = "open" /\ leader[n] = NoNode
  /\ leader' = [leader EXCEPT ![n] = Leader]
  /\ alive' = [alive EXCEPT ![n] = {m \in Node \ {n} : status[m] = "open"}]
  /\ UNCHANGED <<logVars, directory, commitVars>>

\* Membership: n learns whether m is running.
Detect(n, m) ==
  /\ status[n] = "open" /\ m # n
  /\ alive' = [alive EXCEPT ![n] = IF status[m] = "open" THEN @ \cup {m} ELSE @ \ {m}]
  /\ UNCHANGED <<logVars, leader, directory, commitVars>>

\* Any election and membership: a node takes any node for the coordinator and
\* any nodes for alive.
Upheaval(n) ==
  /\ status[n] = "open"
  /\ \E m \in Node \cup {NoNode}, S \in SUBSET (Node \ {n}) :
        /\ leader' = [leader EXCEPT ![n] = m]
        /\ alive' = [alive EXCEPT ![n] = S]
  /\ UNCHANGED <<logVars, directory, commitVars>>

----------------------------------------------------------------------------

NothingSubmitted ==
  /\ LogInit
  /\ submission = [n \in Node |-> [t \in TxId |-> Idle]]
  /\ calls = {}
  /\ applying = {}
  /\ directory = [n \in Node |-> {}]
  /\ acked = [t \in TxId |-> {}]
  /\ faults = 0

Init ==
  /\ NothingSubmitted
  /\ leader = [n \in Node |-> Leader]
  /\ alive = [n \in Node |-> Node \ {n}]

CommitInit ==
  /\ NothingSubmitted
  /\ leader \in [Node -> Node \cup {NoNode}]
  /\ alive \in [Node -> SUBSET Node]

Coordinate(n, t) ==
  \/ \E p \in Payload : ReadEnd(n, t, p)
  \/ Vote(n, t) \/ VoteFails(n, t)
  \/ \E m \in Node : Call(n, t, m)
  \/ CallFails(n, t) \/ DecideCommit(n, t) \/ ApplyHere(n, t) \/ DecideFails(n, t)
  \/ DecideAbort(n, t) \/ Return(n, t)

ProtocolNext ==
  \/ \E n \in Node, t \in TxId :
        \/ SubmitNew(n, t)
        \/ \E p \in Payload : SubmitAgain(n, t, p)
        \/ Coordinate(n, t)
  \/ \E r \in calls \cup applying : Handle(r)
  \/ \E n \in Node : Die(n) \/ Restart(n)

StableNext ==
  \/ ProtocolNext
  \/ \E n \in Node \ {Leader} : Transfer(n, Leader)
  \/ \E n \in Node : Follow(n) \/ \E m \in Node : Detect(n, m)

CommitNext ==
  \/ \E n \in Node : Upheaval(n) \/ \E m \in Node : Transfer(n, m)
  \/ ProtocolNext

StableSpec == Init /\ [][StableNext]_vars

CommitSpec == CommitInit /\ [][CommitNext]_vars

----------------------------------------------------------------------------
(* Properties *)

Recorded(n, type, t) == RecordIn(journal[n], Len(journal[n]), type, t)

\* The types of the submissions, requests and directories.
TypeOK ==
  /\ LogTypeOK
  /\ leader \in [Node -> Node \cup {NoNode}]
  /\ alive \in [Node -> SUBSET Node]
  /\ submission \in [Node -> [TxId -> Submission]]
  /\ calls \subseteq Request /\ applying \subseteq Request \cup Learner
  /\ directory \in [Node -> SUBSET (Entry \cup {NoEntry})]
  /\ acked \in [TxId -> SUBSET Node]
  /\ faults \in 0..MaxFaults

\* Once c4_cluster_submit has returned 0 for t, t is in the log of every
\* replica it captured, and stays there: under any election and membership
\* behaviour, also when a replica crashes right after its acknowledgement.
AckedIsReplicated == \A t \in TxId : \A n \in acked[t] : HasTxId(n, t)

\* A coordinator tells replicas to commit only when each replica it called has
\* the vote on disk.
CommitAfterVotes ==
  \A n \in Node, t \in TxId : submission[n][t].phase = "commit" =>
     \A m \in submission[n][t].sent \cup submission[n][t].todo :
        Recorded(m, "PREPARE", t)

\* An entry is published in a running node's directory only when it is in its
\* log, so never for a vote without decision; and an entry of the log that can be
\* applied is missing from the directory only while a thread that committed it or
\* received it from another replica is about to apply it: no crash, failed write,
\* lost reply or race of a commit with a state transfer leaves one behind.
DirectoryFollowsLog ==
  \A n \in Node : status[n] = "open" =>
     /\ directory[n] \subseteq Entries(log[n])
     /\ \A e \in Entries(log[n]) \ directory[n] :
           \/ ~Applicable(e)
           \/ submission[n][e.txid].phase = "apply"
           \/ \E r \in applying : r.dst = n /\ r.txid = e.txid

\* With one coordinator, all logs are prefixes of one another.
LogsAgree ==
  \A m, n \in Node : \A i \in DOMAIN log[m] \cap DOMAIN log[n] : log[m][i] = log[n][i]

\* With one coordinator, no transaction is committed in one journal and aborted
\* in another, whatever replies are lost, late or cut off by crashes.
DecisionsAgree ==
  \A m, n \in Node, t \in TxId : ~(Recorded(m, "COMMIT", t) /\ Recorded(n, "ABORT", t))

=============================================================================
