------------------------- MODULE C4AgreementProofs --------------------------
(***************************************************************************)
(* One coordinator: the logs and the decisions of all Super Peers agree,   *)
(* for any number of nodes, transactions and faults.  The argument is that *)
(* a replica has nothing of its own.  It votes when the leader, which has  *)
(* voted itself, asks it to; it commits what is in the leader's log; it    *)
(* aborts what the leader's journal aborts.  So logs are prefixes of the   *)
(* leader's, and decisions are the leader's, which has one for each        *)
(* transaction.  For the latter the leader must never give up a vote that  *)
(* it later commits: it has one vote at a time that is neither aborted nor *)
(* in its log, and that vote is for the next index.                        *)
(***************************************************************************)
EXTENDS C4CommitProofs

\* A step that names no prover is for Zenon, which gets up to a minute.
USE ZenonT(60)

----------------------------------------------------------------------------
(* One coordinator: what the others have is the leader's *)

\* Everybody follows Leader, only Leader submits, and only while it is running.
OneCoordinator ==
  /\ \A n \in Node : leader[n] \in {Leader, NoNode}
  /\ \A n \in Node, t \in TxId : submission[n][t].phase # "idle" => n = Leader /\ status[n] = "open"
  /\ \A r \in calls : r.src = Leader

\* The journal j has the vote for e.
VotedFor(j, e) == \E i \in DOMAIN j : j[i] = PrepareRecord(e)

\* A vote anywhere is one that the leader gave first.
VotesOfLeader ==
  /\ \A t \in TxId : submission[Leader][t].phase = "prepare" =>
       VotedFor(journal[Leader], submission[Leader][t].entry)
  /\ \A r \in calls : r.type = "M_PREPARE" => VotedFor(journal[Leader], r.entry)
  /\ \A n \in Node : \A i \in DOMAIN journal[n] : journal[n][i].type = "PREPARE" =>
       VotedFor(journal[Leader], journal[n][i].entry)

\* What the leader has in its log it voted for and committed; what a replica is
\* told to commit, has committed or has in its log is in the leader's.
CommitsOfLeader ==
  /\ \A i \in DOMAIN log[Leader] : /\ VotedFor(journal[Leader], log[Leader][i])
                                   /\ Recorded(Leader, "COMMIT", log[Leader][i].txid)
  /\ \A r \in calls : r.type = "M_COMMIT" => InLog(log, Leader, r.txid)
  /\ \A n \in Node \ {Leader}, t \in TxId : Recorded(n, "COMMIT", t) => InLog(log, Leader, t)
  /\ \A n \in Node : \A i \in DOMAIN log[n] : HasEntry(Leader, log[n][i])

\* What every step starts from.
Known ==
  /\ TypeOK /\ EntryIsRead
  /\ LogReplayable /\ JournalInv /\ VoteInv
  /\ ReplicaInv /\ AliveInv /\ OneCoordinator

\* The submission of t on n keeps its phase and what it has read.
SamePhase(n, t) ==
  /\ submission'[n][t].phase = submission[n][t].phase
  /\ submission'[n][t].entry = submission[n][t].entry

\* How a submission that is not idle came to its phase.
Moved(n, t) ==
  \/ SamePhase(n, t)
  \/ SubmitNew(n, t) /\ submission'[n][t].phase = "read"
  \/ \E p \in Payload : /\ ReadEnd(n, t, p) /\ submission'[n][t].phase = "vote"
                        /\ submission'[n][t].entry = NextEntry(n, t, p)
  \/ /\ Vote(n, t) /\ submission'[n][t].phase = "prepare"
     /\ submission'[n][t].entry = submission[n][t].entry
  \/ DecideAbort(n, t) /\ submission'[n][t].phase = "abort"
  \/ submission'[n][t].phase \in {"apply", "commit", "resend"}

\* n is submitting t, or is about to.
Submits(n, t) == submission[n][t].phase # "idle" \/ (leader[n] = n /\ status[n] = "open")

\* The steps of the coordinator's own thread.
LEMMA ThreadMoves ==
  ASSUME TypeOK, EntryIsRead, NEW n \in Node, NEW t \in TxId,
         \/ SubmitNew(n, t) \/ Coordinate(n, t) \/ \E p \in Payload : SubmitAgain(n, t, p)
  PROVE  /\ submission'[n][t].phase # "idle" => Moved(n, t) /\ Submits(n, t)
         /\ \A m \in Node, u \in TxId : m # n \/ u # t => submission'[m][u] = submission[m][u]
<1> DEFINE s == submission[n][t]
           Same == \A m \in Node, u \in TxId : m # n \/ u # t => submission'[m][u] = submission[m][u]
<1>1. /\ s \in Submission /\ alive[n] \in SUBSET Node /\ s.sent \in SUBSET Node
      /\ submission \in [Node -> [TxId -> Submission]]
  BY SubmissionFields DEF TypeOK
<1>2. ASSUME NEW x \in Submission, submission' = [submission EXCEPT ![n][t] = x]
      PROVE  submission'[n][t] = x /\ Same
  BY <1>1, <1>2, SetIs, SMTT(60)
<1>3. "read" \in Phase /\ "resend" \in Phase /\ "commit" \in Phase /\ "abort" \in Phase
      /\ "prepare" \in Phase /\ "apply" \in Phase /\ "vote" \in Phase
  BY DEF Phase
<1>4. ASSUME NEW phase \in Phase, NEW S \in SUBSET Node,
             submission' = [submission EXCEPT ![n][t] = Started(phase, S)]
      PROVE  submission'[n][t].phase = phase /\ Same
  <2>1. PICK x : x = Started(phase, S)
    OBVIOUS
  <2>2. x \in Submission /\ x.phase = phase
    BY <2>1, StartedIs
  <2> QED BY <1>2, <1>4, <2>1, <2>2
<1>5. ASSUME NEW phase \in Phase, submission' = [submission EXCEPT ![n][t] = [s EXCEPT !.phase = phase]]
      PROVE  submission'[n][t].phase = phase /\ submission'[n][t].entry = s.entry /\ Same
  <2>1. PICK x : x = [s EXCEPT !.phase = phase]
    OBVIOUS
  <2>2. x \in Submission /\ x.phase = phase /\ x.entry = s.entry
    BY <1>1, <2>1, PhaseIs, SMTT(60)
  <2> QED BY <1>2, <1>5, <2>1, <2>2
<1>6. ASSUME submission' = [submission EXCEPT ![n][t] = Idle]
      PROVE  submission'[n][t].phase = "idle" /\ Same
  BY <1>2, <1>6, IdleIs
<1> SUFFICES (submission'[n][t].phase # "idle" => Moved(n, t) /\ Submits(n, t)) /\ Same
  OBVIOUS
<1> HIDE DEF Same
<1>7. CASE SubmitNew(n, t)
  <2>1. /\ submission' = [submission EXCEPT ![n][t] = Started("read", alive[n])]
        /\ leader[n] = n /\ status[n] = "open"
    BY <1>7 DEF SubmitNew
  <2>2. submission'[n][t].phase = "read" /\ Same
    BY <1>1, <1>3, <1>4, <2>1
  <2> QED BY <1>7, <2>1, <2>2 DEF Moved, Submits
<1>8. CASE \E p \in Payload : SubmitAgain(n, t, p)
  <2>1. /\ submission' = [submission EXCEPT ![n][t] = Started("resend", alive[n])]
        /\ leader[n] = n /\ status[n] = "open"
    BY <1>8 DEF SubmitAgain
  <2>2. submission'[n][t].phase = "resend" /\ Same
    BY <1>1, <1>3, <1>4, <2>1
  <2> QED BY <2>1, <2>2 DEF Moved, Submits
<1>9. CASE \E p \in Payload : ReadEnd(n, t, p)
  <2>1. PICK p \in Payload : ReadEnd(n, t, p)
    BY <1>9
  <2>2. PICK e : e = NextEntry(n, t, p)
    OBVIOUS
  <2>3. e \in Entry /\ s.phase = "read"
    BY <2>1, <2>2 DEF ReadEnd
  <2>4. PICK x : x = [s EXCEPT !.phase = "vote", !.entry = e]
    OBVIOUS
  <2>5. x \in Submission /\ x.entry = e /\ x.phase = "vote"
    BY <1>1, <1>3, <2>3, <2>4 DEF Submission
  <2>6. submission' = [submission EXCEPT ![n][t] = x]
    BY <2>1, <2>2, <2>4 DEF ReadEnd
  <2>7. submission'[n][t] = x /\ Same
    BY <1>2, <2>5, <2>6
  <2>8. Moved(n, t)
    BY <2>1, <2>2, <2>5, <2>7 DEF Moved
  <2> QED BY <2>3, <2>7, <2>8 DEF Submits
<1>10. CASE Vote(n, t)
  <2>1. s.phase = "vote" /\ submission' = [submission EXCEPT ![n][t] = [s EXCEPT !.phase = "prepare"]]
    BY <1>10 DEF Vote
  <2>2. submission'[n][t].phase = "prepare" /\ submission'[n][t].entry = s.entry /\ Same
    BY <1>3, <1>5, <2>1
  <2>3. Moved(n, t)
    BY <1>10, <2>2 DEF Moved
  <2> QED BY <2>1, <2>2, <2>3 DEF Submits
<1>11. CASE VoteFails(n, t) \/ DecideFails(n, t) \/ Return(n, t)
  <2>1. s.phase # "idle" /\ submission' = [submission EXCEPT ![n][t] = Idle]
    BY <1>11 DEF VoteFails, DecideFails, Return, AllCalled
  <2> QED BY <1>6, <2>1
<1>12. CASE \E m \in Node : Call(n, t, m)
  <2>1. PICK m \in Node : /\ submission' = [submission EXCEPT ![n][t] = Calling(s, m)]
                          /\ s.phase \in {"prepare", "commit", "abort", "resend"}
    BY <1>12 DEF Call
  <2>2. PICK x : x = Calling(s, m)
    OBVIOUS
  <2>3. x \in Submission /\ x.phase = s.phase /\ x.entry = s.entry
    BY <1>1, <2>2, CallingIs, SMTT(60)
  <2>4. submission'[n][t] = x /\ Same
    BY <1>2, <2>1, <2>2, <2>3
  <2> QED BY <2>1, <2>3, <2>4 DEF Moved, SamePhase, Submits
<1>13. CASE CallFails(n, t)
  <2>1. PICK x : x = Answered(s, FALSE)
    OBVIOUS
  <2>2. x \in Submission /\ x.phase = s.phase /\ x.entry = s.entry
    BY <1>1, <2>1, AnsweredIs
  <2>3. submission' = [submission EXCEPT ![n][t] = x] /\ s.call # NoNode
    BY <1>13, <2>1 DEF CallFails
  <2>4. submission'[n][t] = x /\ Same
    BY <1>2, <2>2, <2>3
  <2> QED BY <2>2, <2>4 DEF Moved, SamePhase, Submits
<1>14. CASE DecideCommit(n, t)
  <2>1. s.phase = "prepare" /\ submission' = [submission EXCEPT ![n][t] = [s EXCEPT !.phase = "apply"]]
    BY <1>14 DEF DecideCommit, AllCalled
  <2>2. submission'[n][t].phase = "apply" /\ Same
    BY <1>3, <1>5, <2>1
  <2> QED BY <2>1, <2>2 DEF Moved, Submits
<1>15. CASE ApplyHere(n, t)
  <2>1. /\ s.phase = "apply"
        /\ \/ submission' = [submission EXCEPT ![n][t] = Started("commit", s.sent)]
           \/ submission' = [submission EXCEPT ![n][t] = Idle]
    BY <1>15 DEF ApplyHere
  <2>2. CASE submission' = [submission EXCEPT ![n][t] = Started("commit", s.sent)]
    <3>1. submission'[n][t].phase = "commit" /\ Same
      BY <1>1, <1>3, <1>4, <2>2
    <3> QED BY <2>1, <3>1 DEF Moved, Submits
  <2>3. CASE submission' = [submission EXCEPT ![n][t] = Idle]
    BY <1>6, <2>3
  <2> QED BY <2>1, <2>2, <2>3
<1>16. CASE DecideAbort(n, t)
  <2>1. s.phase = "prepare" /\ submission' = [submission EXCEPT ![n][t] = Started("abort", s.sent)]
    BY <1>16 DEF DecideAbort, AllCalled
  <2>2. submission'[n][t].phase = "abort" /\ Same
    BY <1>1, <1>3, <1>4, <2>1
  <2>3. Moved(n, t)
    BY <1>16, <2>2 DEF Moved
  <2> QED BY <2>1, <2>2, <2>3 DEF Submits
<1> QED
  BY <1>7, <1>8, <1>9, <1>10, <1>11, <1>12, <1>13, <1>14, <1>15, <1>16 DEF Coordinate

\* An answer changes no phase.
LEMMA AnswerSamePhase ==
  ASSUME TypeOK, NEW r \in Request, NEW ok \in BOOLEAN, Answer(r, ok)
  PROVE  \A n \in Node, t \in TxId : SamePhase(n, t)
<1>1. r.src \in Node /\ r.txid \in TxId /\ submission \in [Node -> [TxId -> Submission]]
  BY RequestFields DEF TypeOK
<1>2. CASE submission' = submission
  BY <1>2 DEF SamePhase
<1>3. CASE submission' = [submission EXCEPT ![r.src][r.txid] = Answered(@, ok)]
  <2>1. PICK s \in Submission : s = submission[r.src][r.txid]
    BY <1>1
  <2>2. PICK x : x = Answered(s, ok)
    OBVIOUS
  <2>3. x \in Submission /\ x.phase = s.phase /\ x.entry = s.entry
    BY <2>2, AnsweredIs, SMTT(60)
  <2>4. submission' = [submission EXCEPT ![r.src][r.txid] = x]
    BY <1>3, <2>1, <2>2
  <2>5. /\ submission'[r.src][r.txid] = x
        /\ \A m \in Node, u \in TxId :
             m # r.src \/ u # r.txid => submission'[m][u] = submission[m][u]
    BY <1>1, <2>3, <2>4, SetIs, SMTT(60)
  <2> QED BY <2>1, <2>3, <2>5 DEF SamePhase
<1> QED BY <1>2, <1>3 DEF Answer

\* Only a kill stops a node, and it ends the node's submissions.
LEMMA SubmissionOrigin ==
  ASSUME TypeOK, EntryIsRead, StableNext, NEW n \in Node, NEW t \in TxId,
         submission'[n][t].phase # "idle"
  PROVE  Moved(n, t) /\ Submits(n, t) /\ (status[n] = "open" => status'[n] = "open")
<1>0. status \in [Node -> {"open", "loading", "closed", "failed"}]
  BY DEF TypeOK, LogTypeOK
<1>1. ASSUME status' = status, SamePhase(n, t)
      PROVE  Moved(n, t) /\ Submits(n, t) /\ (status[n] = "open" => status'[n] = "open")
  BY <1>1 DEF Moved, SamePhase, Submits
<1>2. ASSUME NEW m \in Node, NEW u \in TxId,
             \/ SubmitNew(m, u) \/ Coordinate(m, u) \/ \E p \in Payload : SubmitAgain(m, u, p)
      PROVE  Moved(n, t) /\ Submits(n, t) /\ (status[n] = "open" => status'[n] = "open")
  <2>1. status' = status
    BY <1>2 DEF SubmitNew, SubmitAgain, Coordinate, ReadEnd, Vote, VoteFails, Call, CallFails,
         DecideCommit, ApplyHere, DecideFails, DecideAbort, Return, Prepare, Commit, CommitWriteError,
         Abort, logVars
  <2>2. CASE m = n /\ u = t
    <3>1. Moved(n, t) /\ Submits(n, t)
      BY <1>2, <2>2, ThreadMoves
    <3> QED BY <2>1, <3>1
  <2>3. CASE m # n \/ u # t
    <3>1. submission'[n][t] = submission[n][t]
      BY <1>2, <2>3, ThreadMoves, SMTT(60)
    <3> QED BY <1>1, <2>1, <3>1 DEF SamePhase
  <2> QED BY <2>2, <2>3
<1>3. ASSUME NEW r \in calls \cup applying, Handle(r)
      PROVE  Moved(n, t) /\ Submits(n, t) /\ (status[n] = "open" => status'[n] = "open")
  <2>1. r.type # "M_STATE_TRANSFER" => r \in Request
    BY HandledIs
  <2>2. status' = status
    BY <1>3 DEF Handle, HandlePrepare, HandleCommit, ApplyCommit, RefuseCommit, ApplyLearned,
         HandleCommitWriteError, HandleAbort, Prepare, Commit, CommitWriteError, Abort, logVars
  <2>3. CASE ApplyLearned(r)
    <3>1. submission' = submission
      BY <2>3 DEF ApplyLearned
    <3> QED BY <1>1, <2>2, <3>1 DEF SamePhase
  <2>4. CASE Serve(r)
    <3>1. r.type # "M_STATE_TRANSFER" /\ (submission' = submission \/ \E ok \in BOOLEAN : Answer(r, ok))
      BY <2>4 DEF Serve, HandlePrepare, HandleCommit, ApplyCommit, RefuseCommit,
           HandleCommitWriteError, HandleAbort, Applicable
    <3>2. CASE submission' = submission
      BY <1>1, <2>2, <3>2 DEF SamePhase
    <3>3. CASE \E ok \in BOOLEAN : Answer(r, ok)
      <4>1. SamePhase(n, t)
        BY <2>1, <3>1, <3>3, AnswerSamePhase
      <4> QED BY <1>1, <2>2, <4>1
    <3> QED BY <3>1, <3>2, <3>3
  <2> QED BY <1>3, <2>3, <2>4, HandleIs
<1>4. ASSUME NEW m \in Node, Die(m)
      PROVE  Moved(n, t) /\ Submits(n, t) /\ (status[n] = "open" => status'[n] = "open")
  <2>1. submission' = [submission EXCEPT ![m] = [u \in TxId |-> Idle]]
    BY <1>4 DEF Die
  <2>2. m # n /\ submission'[n][t] = submission[n][t]
    BY <2>1, IdleIs DEF TypeOK
  <2>3. status' = [status EXCEPT ![m] = "closed"]
    BY <1>4 DEF Die, Crash, CrashInRecord, CrashInEntry, CrashInCommit, Stopped
  <2> QED BY <1>0, <2>2, <2>3 DEF Moved, SamePhase, Submits
<1>5. ASSUME NEW m \in Node, Restart(m)
      PROVE  Moved(n, t) /\ Submits(n, t) /\ (status[n] = "open" => status'[n] = "open")
  <2>1. submission' = submission
    BY <1>5 DEF Restart, commitVars
  <2>2. status[m] # "open" /\ (status' = status \/ \E x : status' = [status EXCEPT ![m] = x])
    BY <1>5 DEF Restart, Unstartable, Crash, Stopped, Open, Load, LoadPrepare, LoadCommit, LoadAbort,
         LoadEnd, AtRecord, LoadFails, Loaded
  <2>3. status[n] = "open" => status'[n] = "open"
    BY <1>0, <2>2
  <2> QED BY <2>1, <2>3 DEF Moved, SamePhase, Submits
<1>6. ASSUME NEW m \in Node, Transfer(m, Leader) \/ Follow(m) \/ \E k \in Node : Detect(m, k)
      PROVE  Moved(n, t) /\ Submits(n, t) /\ (status[n] = "open" => status'[n] = "open")
  <2>1. submission' = submission /\ status' = status
    BY <1>6 DEF Transfer, Follow, Detect, commitVars, AppendEntry, logVars
  <2> QED BY <1>1, <2>1 DEF SamePhase
<1> QED BY <1>2, <1>3, <1>4, <1>5, <1>6 DEF StableNext, ProtocolNext

\* A request is put on its way by a call, or was on its way before.
LEMMA CallsOrigin ==
  ASSUME StableNext
  PROVE  \A c \in calls' : \/ c \in calls
                            \/ \E n \in Node, t \in TxId, m \in Node :
                                 Call(n, t, m) /\ c = RequestTo(n, t, m)
<1>1. ASSUME NEW n \in Node, NEW t \in TxId, NEW m \in Node, Call(n, t, m)
      PROVE  \A c \in calls' : c \in calls \/ c = RequestTo(n, t, m)
  BY <1>1 DEF Call
<1>2. ASSUME NEW n \in Node, NEW t \in TxId,
             \/ SubmitNew(n, t) \/ Vote(n, t) \/ VoteFails(n, t) \/ CallFails(n, t)
             \/ DecideCommit(n, t) \/ ApplyHere(n, t) \/ DecideFails(n, t) \/ DecideAbort(n, t)
             \/ Return(n, t)
             \/ \E p \in Payload : SubmitAgain(n, t, p) \/ ReadEnd(n, t, p)
      PROVE  calls' \subseteq calls
  BY <1>2 DEF SubmitNew, Vote, VoteFails, CallFails, DecideCommit, ApplyHere, DecideFails,
       DecideAbort, Return, SubmitAgain, ReadEnd
<1>3. ASSUME NEW r \in calls \cup applying, Handle(r) PROVE calls' \subseteq calls
  BY <1>3 DEF Handle, HandlePrepare, HandleCommit, ApplyCommit, RefuseCommit, ApplyLearned,
       HandleCommitWriteError, HandleAbort
<1>4. ASSUME NEW n \in Node, Die(n) PROVE calls' \subseteq calls
  BY <1>4 DEF Die
<1>5. ASSUME NEW n \in Node,
             \/ Restart(n) \/ Transfer(n, Leader) \/ Follow(n) \/ \E m \in Node : Detect(n, m)
      PROVE  calls' \subseteq calls
  BY <1>5 DEF Restart, Transfer, Follow, Detect, commitVars
<1>6. CASE \E n \in Node, t \in TxId, m \in Node : Call(n, t, m)
  BY <1>1, <1>6, SMTT(60)
<1>7. CASE calls' \subseteq calls
  BY <1>7
<1> QED BY <1>2, <1>3, <1>4, <1>5, <1>6, <1>7 DEF StableNext, ProtocolNext, Coordinate

\* The leader is the only one to submit, to send requests and to be followed.
LEMMA OneCoordinatorStep ==
  ASSUME TypeOK, EntryIsRead, OneCoordinator, StableNext
  PROVE  OneCoordinator'
<1>1. ASSUME NEW n \in Node PROVE leader'[n] \in {Leader, NoNode}
  <2>1. \/ leader' = leader
        \/ \E m \in Node : leader' = [leader EXCEPT ![m] = NoNode]
        \/ \E m \in Node : leader' = [leader EXCEPT ![m] = Leader]
    <3>1. ASSUME NEW m \in Node, NEW t \in TxId,
                 \/ SubmitNew(m, t) \/ Coordinate(m, t)
                 \/ \E p \in Payload : SubmitAgain(m, t, p)
          PROVE  leader' = leader
      BY <3>1 DEF Coordinate, SubmitNew, SubmitAgain, ReadEnd, Vote, VoteFails, Call, CallFails,
           DecideCommit, ApplyHere, DecideFails, DecideAbort, Return
    <3>2. ASSUME NEW r \in calls \cup applying, Handle(r) PROVE leader' = leader
      BY <3>2 DEF Handle, HandlePrepare, HandleCommit, ApplyCommit, RefuseCommit, ApplyLearned,
           HandleCommitWriteError, HandleAbort, Answer
    <3>3. ASSUME NEW m \in Node, Die(m) PROVE leader' = [leader EXCEPT ![m] = NoNode]
      BY <3>3 DEF Die
    <3>4. ASSUME NEW m \in Node, Follow(m) PROVE leader' = [leader EXCEPT ![m] = Leader]
      BY <3>4 DEF Follow
    <3>5. ASSUME NEW m \in Node,
                 Restart(m) \/ Transfer(m, Leader) \/ \E k \in Node : Detect(m, k)
          PROVE  leader' = leader
      BY <3>5 DEF Restart, Transfer, Detect
    <3> QED BY <3>1, <3>2, <3>3, <3>4, <3>5 DEF StableNext, ProtocolNext
  <2>2. leader \in [Node -> Node \cup {NoNode}]
    BY DEF TypeOK
  <2> QED BY <2>1, <2>2 DEF OneCoordinator
<1>2. ASSUME NEW n \in Node, NEW t \in TxId, submission'[n][t].phase # "idle"
      PROVE  n = Leader /\ status'[n] = "open"
  <2>1. Submits(n, t) /\ (status[n] = "open" => status'[n] = "open")
    BY <1>2, SubmissionOrigin
  <2> QED BY <2>1, NodeAssumption DEF OneCoordinator, Submits
<1>3. ASSUME NEW r \in calls' PROVE r.src = Leader
  <2>1. CASE r \in calls
    BY <2>1 DEF OneCoordinator
  <2>2. ASSUME NEW n \in Node, NEW t \in TxId, NEW m \in Node, Call(n, t, m), r = RequestTo(n, t, m)
        PROVE  r.src = Leader
    <3>1. submission[n][t].phase # "idle"
      BY <2>2 DEF Call
    <3> QED BY <2>2, <3>1 DEF OneCoordinator, RequestTo
  <2> QED BY <2>1, <2>2, CallsOrigin
<1> QED BY <1>1, <1>2, <1>3 DEF OneCoordinator

----------------------------------------------------------------------------
(* One coordinator: where a record and an entry come from *)

\* The journal of n has a record of this type for t, the journals being J.
Decided(J, n, type, t) == RecordIn(J[n], Len(J[n]), type, t)

\* m is told by the leader to do what the type of the request says with t.
Told(m, type, t) == \E r \in calls : r.type = type /\ r.dst = m /\ r.txid = t

\* m is asked by the leader to vote for e.
AskedFor(m, e) == \E r \in calls : r.type = "M_PREPARE" /\ r.dst = m /\ r.entry = e

\* The record that a step writes to the journal of m.
Writing(m, r) ==
  /\ journal'[m] = Append(journal[m], r)
  /\ \/ \E e \in Entry :
          /\ r = PrepareRecord(e) /\ log' = log
          /\ IF m = Leader
             THEN \E t \in TxId : Vote(m, t) /\ e = submission[m][t].entry /\ IsNewPrepare(m, e)
             ELSE AskedFor(m, e)
     \/ \E t \in TxId : r = DecisionRecord("COMMIT", t) /\ (m # Leader => Told(m, "M_COMMIT", t))
     \/ \E t \in TxId : r = DecisionRecord("ABORT", t) /\ (m # Leader => Told(m, "M_ABORT", t))

\* A request that is accepted is not addressed to the leader.
LEMMA LeaderAsksOthers ==
  ASSUME TypeOK, AliveInv, OneCoordinator, NEW r \in calls, FromLeader(r)
  PROVE  r.dst # Leader
BY RequestFields DEF TypeOK, AliveInv, OneCoordinator, FromLeader

\* Where a record comes from: the leader's own thread, or a request.
LEMMA JournalOrigin ==
  ASSUME Known, StableNext, NEW m \in Node
  PROVE  journal'[m] = journal[m] \/ \E r \in Record : Writing(m, r)
<1> DEFINE Goal == journal'[m] = journal[m] \/ \E r \in Record : Writing(m, r)
<1>0. TypeOK /\ EntryIsRead /\ AliveInv /\ OneCoordinator /\ journal \in [Node -> Seq(Record)]
  BY DEF Known, TypeOK, LogTypeOK
<1>1. ASSUME NEW n \in Node, NEW r \in Record, journal' = [journal EXCEPT ![n] = Append(@, r)]
      PROVE  (m = n => journal'[m] = Append(journal[m], r)) /\ (m # n => journal'[m] = journal[m])
  BY <1>0, <1>1
<1>2. ASSUME journal' = journal PROVE Goal
  BY <1>2
<1>3. ASSUME NEW n \in Node, NEW e \in Entry, Prepare(n, e),
             IF n = Leader
             THEN \E t \in TxId : Vote(n, t) /\ e = submission[n][t].entry /\ IsNewPrepare(n, e)
             ELSE AskedFor(n, e)
      PROVE  Goal
  <2>1. PrepareRecord(e) \in Record
    BY SMTT(60) DEF Record
  <2>2. journal' = [journal EXCEPT ![n] = Append(@, PrepareRecord(e))] /\ log' = log
    BY <1>3 DEF Prepare
  <2>3. CASE m # n
    BY <1>1, <2>1, <2>2, <2>3
  <2>4. CASE m = n
    <3>1. journal'[m] = Append(journal[m], PrepareRecord(e))
      BY <1>1, <2>1, <2>2, <2>4
    <3>2. Writing(m, PrepareRecord(e))
      BY <1>3, <2>2, <2>4, <3>1 DEF Writing
    <3> QED BY <2>1, <3>2
  <2> QED BY <2>3, <2>4
<1>4. ASSUME NEW n \in Node, NEW t \in TxId,
             \/ journal' = journal
             \/ journal' = [journal EXCEPT ![n] = Append(@, DecisionRecord("COMMIT", t))],
             n # Leader => Told(n, "M_COMMIT", t)
      PROVE  Goal
  <2>1. DecisionRecord("COMMIT", t) \in Record
    BY DecisionType
  <2>2. CASE journal'[m] = Append(journal[m], DecisionRecord("COMMIT", t)) /\ m = n
    <3>1. Writing(m, DecisionRecord("COMMIT", t))
      BY <1>4, <2>2 DEF Writing
    <3> QED BY <2>1, <3>1
  <2>3. CASE journal'[m] = journal[m]
    BY <2>3
  <2> QED BY <1>1, <1>4, <2>1, <2>2, <2>3
<1>5. ASSUME NEW n \in Node, NEW t \in TxId,
             journal' = [journal EXCEPT ![n] = Append(@, DecisionRecord("ABORT", t))],
             n # Leader => Told(n, "M_ABORT", t)
      PROVE  Goal
  <2>1. DecisionRecord("ABORT", t) \in Record
    BY DecisionType
  <2>2. CASE journal'[m] = Append(journal[m], DecisionRecord("ABORT", t)) /\ m = n
    <3>1. Writing(m, DecisionRecord("ABORT", t))
      BY <1>5, <2>2 DEF Writing
    <3> QED BY <2>1, <3>1
  <2>3. CASE journal'[m] = journal[m]
    BY <2>3
  <2> QED BY <1>1, <1>5, <2>1, <2>2, <2>3
<1> HIDE DEF Goal
<1>6. ASSUME NEW n \in Node, NEW t \in TxId, Commit(n, t) \/ CommitWriteError(n, t) \/ CrashInCommit(n, t)
      PROVE  \/ journal' = journal
             \/ journal' = [journal EXCEPT ![n] = Append(@, DecisionRecord("COMMIT", t))]
  BY <1>6 DEF Commit, CommitWriteError, JournalCommit, CrashInCommit
<1>7. ASSUME NEW n \in Node, NEW t \in TxId, submission[n][t].phase # "idle" PROVE n = Leader
  BY <1>0, <1>7 DEF OneCoordinator
<1>8. ASSUME NEW n \in Node, NEW t \in TxId,
             \/ SubmitNew(n, t) \/ VoteFails(n, t) \/ CallFails(n, t) \/ ApplyHere(n, t)
             \/ Return(n, t)
             \/ \E p \in Payload : SubmitAgain(n, t, p) \/ ReadEnd(n, t, p)
             \/ \E k \in Node : Call(n, t, k)
      PROVE  Goal
  <2>1. journal' = journal
    BY <1>8 DEF SubmitNew, VoteFails, CallFails, ApplyHere, Return, SubmitAgain, ReadEnd, Call,
         logVars
  <2> QED BY <1>2, <2>1
<1>9. ASSUME NEW n \in Node, NEW t \in TxId, Vote(n, t) PROVE Goal
  <2>1. PICK e : e = submission[n][t].entry
    OBVIOUS
  <2>2. submission[n][t].phase = "vote" /\ (UNCHANGED logVars \/ (IsNewPrepare(n, e) /\ Prepare(n, e)))
    BY <1>9, <2>1 DEF Vote
  <2>3. e \in Entry /\ n = Leader
    BY <1>0, <1>7, <2>1, <2>2 DEF EntryIsRead, HasRead
  <2>4. CASE UNCHANGED logVars
    BY <1>2, <2>4 DEF logVars
  <2>5. CASE IsNewPrepare(n, e) /\ Prepare(n, e)
    BY <1>3, <1>9, <2>1, <2>3, <2>5
  <2> QED BY <2>2, <2>4, <2>5
<1>10. ASSUME NEW n \in Node, NEW t \in TxId, DecideCommit(n, t) \/ DecideFails(n, t) PROVE Goal
  <2>1. submission[n][t].phase = "prepare"
    BY <1>10 DEF DecideCommit, DecideFails, AllCalled
  <2>2. n = Leader
    BY <1>7, <2>1
  <2>3. Commit(n, t) \/ CommitWriteError(n, t) \/ journal' = journal
    BY <1>10 DEF DecideCommit, DecideFails, logVars
  <2> QED BY <1>2, <1>4, <1>6, <2>2, <2>3
<1>11. ASSUME NEW n \in Node, NEW t \in TxId, DecideAbort(n, t) PROVE Goal
  <2>1. submission[n][t].phase = "prepare"
    BY <1>11 DEF DecideAbort, AllCalled
  <2>2. n = Leader
    BY <1>7, <2>1
  <2>3. \/ journal' = journal
        \/ journal' = [journal EXCEPT ![n] = Append(@, DecisionRecord("ABORT", t))]
    BY <1>11 DEF DecideAbort, Abort, logVars
  <2> QED BY <1>2, <1>5, <2>2, <2>3
<1>12. ASSUME NEW r \in calls \cup applying, Handle(r) PROVE Goal
  <2>1. r.dst \in Node /\ r.txid \in TxId /\ (r.type = "M_PREPARE" => r.entry \in Entry)
    BY <1>0, HandledIs
  <2>2. CASE journal' = journal
    BY <1>2, <2>2
  <2>3. CASE /\ r \in calls /\ FromLeader(r)
             /\ r.type = "M_PREPARE" /\ Prepare(r.dst, r.entry)
    <3>1. r.dst # Leader
      BY <1>0, <2>3, LeaderAsksOthers
    <3>2. AskedFor(r.dst, r.entry)
      BY <2>3 DEF AskedFor
    <3> QED BY <1>3, <2>1, <2>3, <3>1, <3>2
  <2>4. CASE /\ r \in calls /\ FromLeader(r)
             /\ r.type = "M_COMMIT" /\ (Commit(r.dst, r.txid) \/ CommitWriteError(r.dst, r.txid))
    <3>1. Told(r.dst, "M_COMMIT", r.txid)
      BY <2>4 DEF Told
    <3> QED BY <1>4, <1>6, <2>1, <2>4, <3>1
  <2>5. CASE /\ r \in calls /\ FromLeader(r)
             /\ r.type = "M_ABORT" /\ Abort(r.dst, r.txid)
    <3>1. Told(r.dst, "M_ABORT", r.txid)
      BY <2>5 DEF Told
    <3> QED BY <1>5, <2>1, <2>5, <3>1 DEF Abort
  <2> QED BY <1>12, <2>2, <2>3, <2>4, <2>5 DEF Handle, HandlePrepare, HandleCommit, ApplyCommit,
            ApplyLearned, RefuseCommit, HandleCommitWriteError, HandleAbort, logVars
<1>13. ASSUME NEW n \in Node, Die(n) PROVE Goal
  <2>1. CASE Crash(n) \/ CrashInRecord(n) \/ CrashInEntry(n)
    BY <1>2, <2>1 DEF Crash, CrashInRecord, CrashInEntry
  <2>2. ASSUME NEW t \in TxId, CrashInCommit(n, t), Committing(n, t) PROVE Goal
    <3>1. n # Leader => Told(n, "M_COMMIT", t)
      BY <1>7, <2>2 DEF Committing, AllCalled, Told
    <3> QED BY <1>4, <1>6, <2>2, <3>1
  <2> QED BY <1>13, <2>1, <2>2 DEF Die
<1>14. ASSUME NEW n \in Node,
              \/ Restart(n) \/ Transfer(n, Leader) \/ Follow(n) \/ \E k \in Node : Detect(n, k)
       PROVE  Goal
  <2>1. journal' = journal
    BY <1>14 DEF Restart, Crash, Open, Load, LoadPrepare, LoadCommit, LoadAbort, LoadEnd, LoadFails, Loaded,
         Transfer, AppendEntry, Follow, Detect, logVars
  <2> QED BY <1>2, <2>1
<1>15. Goal
  BY <1>8, <1>9, <1>10, <1>11, <1>12, <1>13, <1>14 DEF StableNext, ProtocolNext, Coordinate
<1> QED BY <1>15 DEF Goal

\* The entry that a step appends to the log of m: that of a transaction whose COMMIT
\* is on disk, or, on a replica, one that the leader has.
Gains(m, e) ==
  /\ IsNext(m, e) /\ log'[m] = Append(log[m], e)
  /\ \/ \E t \in TxId : /\ e.txid = t /\ VotedFor(journal'[m], e)
                        /\ Decided(journal', m, "COMMIT", t)
     \/ m # Leader /\ HasEntry(Leader, e)

\* The vote for a transaction of the table is on disk.
LEMMA TableVoted ==
  ASSUME LogTypeOK, JournalInv, NEW n \in Node, NEW t \in TxId, status[n] \in {"open", "loading"},
         txns[n][t].state \in {"PREPARED", "COMMITTED"}
  PROVE  /\ txns[n][t].entry \in Entry /\ txns[n][t].entry.txid = t
         /\ VotedFor(journal[n], txns[n][t].entry)
<1>1. txns[n][t].entry \in Entry
  BY TxnTypes
<1>2. journal[n] \in Seq(Record) /\ pos[n] \in Nat \ {0}
  BY DEF LogTypeOK
<1>3. PICK k \in 0..Len(journal[n]) : Tells(journal[n], k, txns[n])
  <2>1. CASE status[n] = "open"
    BY <1>2, <2>1, SMTT(60) DEF JournalInv, TableInv
  <2>2. CASE status[n] = "loading"
    <3>1. Tells(journal[n], pos[n] - 1, txns[n]) /\ pos[n] - 1 \in 0..Len(journal[n])
      BY <1>2, <2>2, SMTT(60) DEF JournalInv, TableInv
    <3> QED BY <3>1
  <2> QED BY <2>1, <2>2
<1>4. PICK i \in 1..k : journal[n][i] = PrepareRecord(txns[n][t].entry) /\ journal[n][i].txid = t
  BY <1>3 DEF Tells
<1>5. PrepareRecord(txns[n][t].entry).txid = txns[n][t].entry.txid
  BY DEF PrepareRecord
<1>6. i \in DOMAIN journal[n]
  BY <1>2, SMTT(60)
<1> QED BY <1>1, <1>4, <1>5, <1>6 DEF VotedFor

\* Votes and decisions on disk stay there.
LEMMA RecordsStay ==
  ASSUME LogTypeOK, [LogNext]_logVars, NEW n \in Node
  PROVE  /\ \A e : VotedFor(journal[n], e) => VotedFor(journal'[n], e)
         /\ \A t, type : Decided(journal, n, type, t) => Decided(journal', n, type, t)
<1>1. journal[n] \in Seq(Record)
  BY DEF LogTypeOK
<1>2. CASE journal'[n] = journal[n]
  BY <1>2 DEF VotedFor, Decided
<1>3. ASSUME NEW r \in Record, journal'[n] = Append(journal[n], r)
      PROVE  /\ \A e : VotedFor(journal[n], e) => VotedFor(journal'[n], e)
             /\ \A t, type : Decided(journal, n, type, t) => Decided(journal', n, type, t)
  <2>1. /\ Len(journal'[n]) = Len(journal[n]) + 1 /\ Len(journal[n]) \in Nat
        /\ DOMAIN journal[n] = 1..Len(journal[n]) /\ DOMAIN journal'[n] = 1..Len(journal'[n])
        /\ \A i \in 1..Len(journal[n]) : journal'[n][i] = journal[n][i]
    BY <1>1, <1>3, SMTT(60)
  <2>2. 1..Len(journal[n]) \subseteq 1..Len(journal'[n])
    BY <2>1, SMTT(60)
  <2> QED BY <2>1, <2>2 DEF VotedFor, Decided, RecordIn
<1> QED BY <1>2, <1>3, JournalStep

\* The journal has the commit that it was told to write, or that it had before.
LEMMA CommitDecided ==
  ASSUME LogTypeOK, JournalInv, NEW n \in Node, NEW t \in TxId, status[n] = "open",
         Committable(n, t), JournalCommit(n, t)
  PROVE  Decided(journal', n, "COMMIT", t)
<1>1. journal \in [Node -> Seq(Record)]
  BY DEF LogTypeOK
<1>2. CASE txns[n][t].state = "PREPARED"
  <2>1. PICK r \in Record : r = DecisionRecord("COMMIT", t)
    BY DecisionType
  <2>2. r.type = "COMMIT" /\ r.txid = t
    BY <2>1 DEF DecisionRecord
  <2>3. journal'[n] = Append(journal[n], r)
    BY <1>1, <1>2, <2>1 DEF JournalCommit
  <2>4. Len(journal'[n]) \in 1..Len(journal'[n]) /\ journal'[n][Len(journal'[n])] = r
    BY <1>1, <2>3, SMTT(60)
  <2> QED BY <2>2, <2>4 DEF Decided, RecordIn
<1>3. CASE txns[n][t].state # "PREPARED"
  <2>1. txns[n][t].state = "COMMITTED" /\ journal' = journal
    BY <1>3 DEF Committable, JournalCommit
  <2> QED BY <2>1 DEF Decided, JournalInv, TableInv, Tells
<1> QED BY <1>2, <1>3

\* Where an entry comes from.
LEMMA LogOrigin ==
  ASSUME Known, StableNext, NEW m \in Node
  PROVE  log'[m] = log[m] \/ \E e \in Entry : Gains(m, e)
<1> DEFINE Goal == log'[m] = log[m] \/ \E e \in Entry : Gains(m, e)
<1>0. /\ TypeOK /\ LogTypeOK /\ EntryIsRead /\ JournalInv
      /\ log \in [Node -> Seq(Entry)] /\ status \in [Node -> {"open", "loading", "closed", "failed"}]
  BY DEF Known, TypeOK, LogTypeOK
<1>1. [LogNext]_logVars
  <2>1. CommitNext \/ UNCHANGED vars
    BY StableStep DEF Known
  <2>2. CASE CommitNext
    BY <1>0, <2>2, CommitStepIsLogStep
  <2>3. CASE UNCHANGED vars
    BY <2>3 DEF vars, logVars
  <2> QED BY <2>1, <2>2, <2>3
<1>2. ASSUME log' = log PROVE Goal
  BY <1>2
<1>3. ASSUME NEW n \in Node, NEW t \in TxId, status[n] \in {"open", "loading"},
             txns[n][t].state \in {"PREPARED", "COMMITTED"},
             Decided(journal', n, "COMMIT", t),
             log' = [log EXCEPT ![n] = LogWith(n, txns[n][t].entry)]
      PROVE  Goal
  <2>1. PICK e \in Entry : e = txns[n][t].entry /\ e.txid = t /\ VotedFor(journal[n], e)
    BY <1>0, <1>3, TableVoted, SMTT(60)
  <2>2. VotedFor(journal'[n], e)
    BY <1>0, <1>1, <2>1, RecordsStay
  <2>3. CASE m # n
    BY <1>0, <1>3, <2>3
  <2>4. CASE m = n /\ ~IsNext(n, e)
    BY <1>0, <1>3, <2>1, <2>4 DEF LogWith
  <2>5. CASE m = n /\ IsNext(n, e)
    <3>1. log'[m] = Append(log[m], e)
      BY <1>0, <1>3, <2>1, <2>5 DEF LogWith
    <3>2. Gains(m, e)
      BY <1>3, <2>1, <2>2, <2>5, <3>1 DEF Gains
    <3> QED BY <3>2
  <2> QED BY <2>3, <2>4, <2>5
<1>4. ASSUME NEW n \in Node, NEW t \in TxId, Commit(n, t) PROVE Goal
  <2>1. /\ status[n] = "open" /\ Committable(n, t) /\ JournalCommit(n, t)
        /\ log' = [log EXCEPT ![n] = LogWith(n, txns[n][t].entry)]
    BY <1>4 DEF Commit
  <2>2. Decided(journal', n, "COMMIT", t)
    BY <1>0, <2>1, CommitDecided
  <2> QED BY <1>3, <2>1, <2>2 DEF Committable
<1>5. ASSUME NEW n \in Node, LoadCommit(n) PROVE Goal
  <2>1. PICK r : r = journal[n][pos[n]]
    OBVIOUS
  <2>2. AtRecord(n, "COMMIT") /\ journal' = journal
    BY <1>5 DEF LoadCommit, LoadFails, Loaded
  <2>3. /\ r \in Record /\ r.type = "COMMIT" /\ r.txid \in TxId
        /\ status[n] = "loading" /\ pos[n] \in Nat /\ pos[n] <= Len(journal[n])
    BY <1>0, <2>1, <2>2, AtRecordTypes, SMTT(60)
  <2>4. Decided(journal', n, "COMMIT", r.txid)
    <3>1. pos[n] \in 1..Len(journal[n])
      BY <1>0, <2>3, SMTT(60) DEF LogTypeOK
    <3> QED BY <2>1, <2>2, <2>3, <3>1 DEF Decided, RecordIn
  <2>5. \/ LoadFails(n)
        \/ /\ txns[n][r.txid].state = "PREPARED"
           /\ log' = [log EXCEPT ![n] = LogWith(n, txns[n][r.txid].entry)]
    BY <1>5, <2>1, LoadCommitEffect
  <2>6. CASE LoadFails(n)
    BY <1>2, <2>6 DEF LoadFails
  <2> QED BY <1>3, <2>3, <2>4, <2>5, <2>6
<1>6. ASSUME NEW n \in Node, Transfer(n, Leader) PROVE Goal
  <2>1. PICK i \in DOMAIN log[Leader] : AppendEntry(n, log[Leader][i]) \/ UNCHANGED logVars
    BY <1>6 DEF Transfer
  <2>2. PICK e \in Entry : e = log[Leader][i]
    BY <1>0, <2>1, NodeAssumption, SMTT(60)
  <2>3. HasEntry(Leader, e) /\ HasTxId(Leader, e.txid)
    BY <2>1, <2>2 DEF HasEntry, HasTxId
  <2>4. CASE UNCHANGED logVars
    BY <1>2, <2>4 DEF logVars
  <2>5. CASE AppendEntry(n, e)
    <3>1. IsNext(n, e) /\ log' = [log EXCEPT ![n] = Append(@, e)]
      BY <2>5 DEF AppendEntry
    <3>2. n # Leader
      BY <2>3, <3>1 DEF IsNext
    <3>3. CASE m # n
      BY <1>0, <3>1, <3>3
    <3>4. CASE m = n
      <4>1. log'[m] = Append(log[m], e)
        BY <1>0, <3>1, <3>4
      <4>2. Gains(m, e)
        BY <2>3, <3>1, <3>2, <3>4, <4>1 DEF Gains
      <4> QED BY <4>2
    <3> QED BY <3>3, <3>4
  <2> QED BY <2>1, <2>2, <2>4, <2>5
<1> HIDE DEF Goal
<1>7. ASSUME NEW n \in Node, NEW t \in TxId,
             \/ SubmitNew(n, t) \/ Coordinate(n, t) \/ \E p \in Payload : SubmitAgain(n, t, p)
      PROVE  Goal
  <2>1. log' = log \/ Commit(n, t)
    BY <1>7 DEF SubmitNew, SubmitAgain, Coordinate, ReadEnd, Vote, VoteFails, Call, CallFails,
         DecideCommit, ApplyHere, DecideFails, DecideAbort, Return, Prepare, CommitWriteError,
         Abort, logVars
  <2> QED BY <1>2, <1>4, <2>1
<1>8. ASSUME NEW r \in calls \cup applying, Handle(r) PROVE Goal
  <2>1. r.dst \in Node /\ r.txid \in TxId
    BY <1>0, HandledIs
  <2>2. log' = log \/ Commit(r.dst, r.txid)
    BY <1>8 DEF Handle, HandlePrepare, HandleCommit, ApplyCommit, RefuseCommit, ApplyLearned,
         HandleCommitWriteError, HandleAbort, Prepare, CommitWriteError, Abort, logVars
  <2> QED BY <1>2, <1>4, <2>1, <2>2
<1>9. ASSUME NEW n \in Node, Die(n) \/ Follow(n) \/ \E k \in Node : Detect(n, k) PROVE Goal
  <2>1. log' = log
    BY <1>9 DEF Die, Crash, CrashInRecord, CrashInEntry, CrashInCommit, Follow, Detect, logVars
  <2> QED BY <1>2, <2>1
<1>10. ASSUME NEW n \in Node, Restart(n) PROVE Goal
  <2>1. log' = log \/ LoadCommit(n)
    BY <1>10 DEF Restart, Crash, Open, Load, LoadPrepare, LoadAbort, LoadEnd, LoadFails, Loaded
  <2> QED BY <1>2, <1>5, <2>1
<1>11. Goal
  BY <1>6, <1>7, <1>8, <1>9, <1>10 DEF StableNext, ProtocolNext
<1> QED BY <1>11 DEF Goal

\* A vote that c4_log_prepare accepts is on disk.
LEMMA VoteWritten ==
  ASSUME LogTypeOK, JournalInv, NEW n \in Node, NEW e \in Entry, status[n] = "open",
         PrepareAccepts(n, e), IF IsNewPrepare(n, e) THEN Prepare(n, e) ELSE UNCHANGED logVars
  PROVE  VotedFor(journal'[n], e)
<1>1. journal \in [Node -> Seq(Record)] /\ e.txid \in TxId
  BY DEF LogTypeOK, Entry
<1>2. CASE IsNewPrepare(n, e)
  <2>1. PICK r \in Record : r = PrepareRecord(e)
    BY SMTT(60) DEF Record
  <2>2. journal'[n] = Append(journal[n], r)
    BY <1>1, <1>2, <2>1 DEF Prepare
  <2>3. Len(journal'[n]) \in DOMAIN journal'[n] /\ journal'[n][Len(journal'[n])] = r
    BY <1>1, <2>2, SMTT(60)
  <2> QED BY <2>1, <2>3 DEF VotedFor
<1>3. CASE ~IsNewPrepare(n, e)
  <2>1. txns[n][e.txid].state \in {"PREPARED", "COMMITTED"} /\ txns[n][e.txid].entry = e
    BY <1>3 DEF PrepareAccepts
  <2>2. VotedFor(journal[n], e)
    BY <1>1, <2>1, TableVoted
  <2> QED BY <1>3, <2>2 DEF logVars
<1> QED BY <1>2, <1>3

\* A step of the system is a step of the logs.
LEMMA KnownLogStep ==
  ASSUME Known, StableNext
  PROVE  [LogNext]_logVars /\ LogTypeOK
<1>1. CommitNext \/ UNCHANGED vars
  BY StableStep DEF Known
<1>2. CASE CommitNext
  BY <1>2, CommitStepIsLogStep DEF Known, TypeOK
<1>3. CASE UNCHANGED vars
  BY <1>3 DEF Known, TypeOK, vars, logVars
<1> QED BY <1>1, <1>2, <1>3

\* The leader votes before it asks, and a replica votes when asked.
LEMMA VotesOfLeaderStep ==
  ASSUME Known, VotesOfLeader, StableNext
  PROVE  VotesOfLeader'
<1>0. /\ TypeOK /\ LogTypeOK /\ EntryIsRead /\ JournalInv /\ OneCoordinator
      /\ [LogNext]_logVars /\ Leader \in Node /\ journal \in [Node -> Seq(Record)]
  BY KnownLogStep, NodeAssumption DEF Known, LogTypeOK
<1>1. \A e : VotedFor(journal[Leader], e) => VotedFor(journal'[Leader], e)
  BY <1>0, RecordsStay
<1>2. ASSUME NEW t \in TxId, submission'[Leader][t].phase = "prepare"
      PROVE  VotedFor(journal'[Leader], submission'[Leader][t].entry)
  <2>1. Moved(Leader, t)
    BY <1>0, <1>2, SubmissionOrigin
  <2>2. CASE SamePhase(Leader, t)
    BY <1>1, <1>2, <2>2 DEF SamePhase, VotesOfLeader
  <2>3. CASE Vote(Leader, t) /\ submission'[Leader][t].entry = submission[Leader][t].entry
    <3>1. PICK e : e = submission[Leader][t].entry
      OBVIOUS
    <3>2. /\ submission[Leader][t].phase = "vote" /\ PrepareAccepts(Leader, e)
          /\ IF IsNewPrepare(Leader, e) THEN Prepare(Leader, e) ELSE UNCHANGED logVars
      BY <2>3, <3>1 DEF Vote
    <3>3. e \in Entry /\ status[Leader] = "open"
      BY <1>0, <3>1, <3>2 DEF EntryIsRead, HasRead, OneCoordinator
    <3>4. VotedFor(journal'[Leader], e)
      BY <1>0, <3>2, <3>3, VoteWritten
    <3> QED BY <2>3, <3>1, <3>4
  <2> QED BY <1>2, <2>1, <2>2, <2>3 DEF Moved
<1>3. ASSUME NEW c \in calls', c.type = "M_PREPARE" PROVE VotedFor(journal'[Leader], c.entry)
  <2>1. CASE c \in calls
    BY <1>1, <1>3, <2>1 DEF VotesOfLeader
  <2>2. ASSUME NEW n \in Node, NEW t \in TxId, NEW m \in Node, Call(n, t, m), c = RequestTo(n, t, m)
        PROVE  VotedFor(journal'[Leader], c.entry)
    <3>1. submission[n][t].phase \in {"prepare", "commit", "abort", "resend"}
      BY <2>2 DEF Call
    <3>2. submission[n][t].phase = "prepare" /\ c.entry = submission[n][t].entry
      BY <1>3, <2>2, <3>1 DEF RequestTo
    <3>3. n = Leader
      BY <1>0, <3>2 DEF OneCoordinator
    <3> QED BY <1>1, <3>2, <3>3 DEF VotesOfLeader
  <2> QED BY <2>1, <2>2, CallsOrigin
<1>4. ASSUME NEW n \in Node, NEW i \in DOMAIN journal'[n], journal'[n][i].type = "PREPARE"
      PROVE  VotedFor(journal'[Leader], journal'[n][i].entry)
  <2>1. CASE journal'[n] = journal[n]
    BY <1>1, <1>4, <2>1 DEF VotesOfLeader
  <2>2. ASSUME NEW r \in Record, Writing(n, r) PROVE VotedFor(journal'[Leader], journal'[n][i].entry)
    <3>1. journal'[n] = Append(journal[n], r)
      BY <2>2 DEF Writing
    <3>2. \/ i \in DOMAIN journal[n] /\ journal'[n][i] = journal[n][i]
          \/ i \in DOMAIN journal'[n] /\ journal'[n][i] = r
      BY <1>0, <1>4, <3>1, SMTT(60)
    <3>3. CASE i \in DOMAIN journal[n] /\ journal'[n][i] = journal[n][i]
      BY <1>1, <1>4, <3>3 DEF VotesOfLeader
    <3>4. CASE journal'[n][i] = r /\ n = Leader
      <4>1. r = PrepareRecord(r.entry)
        BY <1>4, <3>4, RecordTypes
      <4> QED BY <1>4, <3>4, <4>1 DEF VotedFor
    <3>5. CASE journal'[n][i] = r /\ n # Leader
      <4>1. PICK e \in Entry : r = PrepareRecord(e) /\ AskedFor(n, e)
        BY <1>4, <2>2, <3>5, SMTT(60) DEF Writing, DecisionRecord
      <4>2. r.entry = e
        BY <4>1 DEF PrepareRecord
      <4>3. VotedFor(journal[Leader], e)
        BY <4>1 DEF AskedFor, VotesOfLeader
      <4> QED BY <1>1, <3>5, <4>2, <4>3
    <3> QED BY <3>2, <3>3, <3>4, <3>5
  <2> QED BY <2>1, <2>2, JournalOrigin
<1> QED BY <1>2, <1>3, <1>4 DEF VotesOfLeader

\* A journal has one vote for a transaction.
LEMMA OneVote ==
  ASSUME NEW j \in Seq(Record), OneVoteOneDecision(j), NEW d, NEW e,
         VotedFor(j, d), VotedFor(j, e), d.txid = e.txid
  PROVE  d = e
<1>1. PICK i \in DOMAIN j : j[i] = PrepareRecord(d)
  BY DEF VotedFor
<1>2. PICK k \in DOMAIN j : j[k] = PrepareRecord(e)
  BY DEF VotedFor
<1>3. /\ j[i].type = "PREPARE" /\ j[k].type = "PREPARE" /\ j[i].txid = j[k].txid
      /\ j[i].entry = d /\ j[k].entry = e
  BY <1>1, <1>2, SMTT(60) DEF PrepareRecord
<1>4. DOMAIN j = 1..Len(j)
  BY SMTT(60)
<1>5. ~(i \in 1..(k - 1)) /\ ~(k \in 1..(i - 1))
  BY <1>1, <1>2, <1>3 DEF OneVoteOneDecision
<1>6. i = k
  BY <1>4, <1>5, SMTT(60)
<1> QED BY <1>3, <1>6

\* The last entry of a log that grows is new, the others stay.
LEMMA LogEntries ==
  ASSUME LogTypeOK, [LogNext]_logVars, NEW n \in Node, NEW i \in DOMAIN log'[n]
  PROVE  \/ i \in DOMAIN log[n] /\ log'[n][i] = log[n][i]
         \/ /\ log'[n] # log[n] /\ \A e \in Entry : log'[n] = Append(log[n], e) => log'[n][i] = e
<1>1. log[n] \in Seq(Entry)
  BY DEF LogTypeOK
<1>2. CASE log'[n] = log[n]
  BY <1>2
<1>3. ASSUME NEW e \in Entry, log'[n] = Append(log[n], e)
      PROVE  \/ i \in DOMAIN log[n] /\ log'[n][i] = log[n][i]
             \/ i = Len(log'[n]) /\ log'[n] # log[n]
  BY <1>1, <1>3, SMTT(60)
<1>4. ASSUME NEW e \in Entry, log'[n] = Append(log[n], e), i = Len(log'[n]) PROVE log'[n][i] = e
  BY <1>1, <1>4, SMTT(60)
<1> QED BY <1>2, <1>3, <1>4, LogStep

\* What is in a log stays.
LEMMA EntryStays ==
  ASSUME LogTypeOK, [LogNext]_logVars, NEW n \in Node, NEW e, HasEntry(n, e)
  PROVE  \E k \in DOMAIN log'[n] : log'[n][k] = e
<1>1. log[n] \in Seq(Entry)
  BY DEF LogTypeOK
<1>2. PICK i \in DOMAIN log[n] : log[n][i] = e
  BY DEF HasEntry
<1>3. log'[n] = log[n] \/ \E d \in Entry : log'[n] = Append(log[n], d)
  BY LogStep
<1>4. i \in DOMAIN log'[n] /\ log'[n][i] = log[n][i]
  BY <1>1, <1>2, <1>3, SMTT(60)
<1> QED BY <1>2, <1>4

\* What is committed anywhere is what the leader committed.
LEMMA CommitsOfLeaderStep ==
  ASSUME Known, VotesOfLeader, CommitsOfLeader, StableNext, VotesOfLeader', LogTypeOK', JournalInv'
  PROVE  CommitsOfLeader'
<1>0. /\ LogTypeOK /\ JournalInv /\ OneCoordinator /\ SubmissionsInv
      /\ [LogNext]_logVars /\ Leader \in Node
      /\ journal \in [Node -> Seq(Record)] /\ journal' \in [Node -> Seq(Record)]
      /\ log \in [Node -> Seq(Entry)] /\ log' \in [Node -> Seq(Entry)]
  BY KnownLogStep, NodeAssumption DEF Known, LogTypeOK, ReplicaInv
<1>1. /\ \A e : VotedFor(journal[Leader], e) => VotedFor(journal'[Leader], e)
      /\ \A t, type : Decided(journal, Leader, type, t) => Decided(journal', Leader, type, t)
  BY <1>0, RecordsStay
<1>2. \A t : InLog(log, Leader, t) => InLog(log', Leader, t)
  BY <1>0, LogAndVotesStay
<1>3. ASSUME NEW i \in DOMAIN log'[Leader]
      PROVE  /\ VotedFor(journal'[Leader], log'[Leader][i])
             /\ Decided(journal', Leader, "COMMIT", log'[Leader][i].txid)
  <2>1. CASE i \in DOMAIN log[Leader] /\ log'[Leader][i] = log[Leader][i]
    BY <1>1, <2>1 DEF CommitsOfLeader, Recorded, Decided
  <2>2. ASSUME NEW e \in Entry, Gains(Leader, e), log'[Leader][i] = e
        PROVE  /\ VotedFor(journal'[Leader], log'[Leader][i])
               /\ Decided(journal', Leader, "COMMIT", log'[Leader][i].txid)
    BY <2>2 DEF Gains
  <2>3. CASE /\ log'[Leader] # log[Leader]
             /\ \A e \in Entry : log'[Leader] = Append(log[Leader], e) => log'[Leader][i] = e
    <3>1. PICK e \in Entry : Gains(Leader, e)
      BY <1>0, <2>3, LogOrigin
    <3>2. log'[Leader] = Append(log[Leader], e)
      BY <3>1 DEF Gains
    <3> QED BY <2>2, <2>3, <3>1, <3>2
  <2> QED BY <1>0, <2>1, <2>3, LogEntries
<1>4. ASSUME NEW c \in calls', c.type = "M_COMMIT" PROVE InLog(log', Leader, c.txid)
  <2>1. CASE c \in calls
    BY <1>2, <1>4, <2>1 DEF CommitsOfLeader
  <2>2. ASSUME NEW n \in Node, NEW t \in TxId, NEW m \in Node, Call(n, t, m), c = RequestTo(n, t, m)
        PROVE  InLog(log', Leader, c.txid)
    <3>1. submission[n][t].phase \in {"prepare", "commit", "abort", "resend"}
      BY <2>2 DEF Call
    <3>2. submission[n][t].phase \in {"commit", "resend"} /\ c.txid = t
      BY <1>4, <2>2, <3>1 DEF RequestTo
    <3>3. n = Leader
      BY <1>0, <3>2 DEF OneCoordinator
    <3>4. InLog(log, Leader, t)
      BY <1>0, <3>2, <3>3 DEF SubmissionsInv, SubmissionInv
    <3> QED BY <1>2, <3>2, <3>4
  <2> QED BY <2>1, <2>2, CallsOrigin
<1>5. ASSUME NEW n \in Node \ {Leader}, NEW t \in TxId, Decided(journal', n, "COMMIT", t)
      PROVE  InLog(log', Leader, t)
  <2>1. CASE Decided(journal, n, "COMMIT", t)
    BY <1>2, <2>1 DEF CommitsOfLeader, Recorded, Decided
  <2>2. ASSUME NEW r \in Record, Writing(n, r), ~Decided(journal, n, "COMMIT", t)
        PROVE  InLog(log', Leader, t)
    <3>1. PICK i \in 1..Len(journal'[n]) : journal'[n][i].type = "COMMIT" /\ journal'[n][i].txid = t
      BY <1>5 DEF Decided, RecordIn
    <3>2. journal'[n] = Append(journal[n], r)
      BY <2>2 DEF Writing
    <3>3. (i \in 1..Len(journal[n]) /\ journal'[n][i] = journal[n][i]) \/ journal'[n][i] = r
      BY <1>0, <3>1, <3>2, SMTT(60)
    <3>4. r.type = "COMMIT" /\ r.txid = t
      BY <2>2, <3>1, <3>3 DEF Decided, RecordIn
    <3>5. PICK u \in TxId : r = DecisionRecord("COMMIT", u) /\ Told(n, "M_COMMIT", u)
      BY <2>2, <3>4, SMTT(60) DEF Writing, PrepareRecord, DecisionRecord
    <3>6. u = t
      BY <3>4, <3>5 DEF DecisionRecord
    <3>7. InLog(log, Leader, t)
      BY <3>5, <3>6 DEF Told, CommitsOfLeader
    <3> QED BY <1>2, <3>7
  <2>3. journal'[n] = journal[n] => Decided(journal, n, "COMMIT", t)
    BY <1>5 DEF Decided
  <2> QED BY <2>1, <2>2, <2>3, JournalOrigin
<1>6. ASSUME NEW n \in Node, NEW i \in DOMAIN log'[n]
      PROVE  \E k \in DOMAIN log'[Leader] : log'[Leader][k] = log'[n][i]
  <2>1. CASE n = Leader
    BY <1>6, <2>1
  <2>2. ASSUME NEW e, HasEntry(Leader, e) PROVE \E k \in DOMAIN log'[Leader] : log'[Leader][k] = e
    BY <1>0, <2>2, EntryStays
  <2>3. CASE i \in DOMAIN log[n] /\ log'[n][i] = log[n][i]
    BY <2>2, <2>3 DEF CommitsOfLeader
  <2>4. CASE /\ log'[n] # log[n] /\ n # Leader
             /\ \A e \in Entry : log'[n] = Append(log[n], e) => log'[n][i] = e
    <3>1. PICK e \in Entry : Gains(n, e)
      BY <2>4, LogOrigin
    <3>2. log'[n][i] = e
      BY <2>4, <3>1 DEF Gains
    <3>3. CASE HasEntry(Leader, e)
      BY <2>2, <3>2, <3>3
    <3>4. CASE \E t \in TxId : /\ e.txid = t /\ VotedFor(journal'[n], e)
                               /\ Decided(journal', n, "COMMIT", t)
      <4>1. InLog(log', Leader, e.txid)
        BY <1>5, <2>4, <3>4
      <4>2. PICK k \in DOMAIN log'[Leader] : log'[Leader][k].txid = e.txid
        BY <4>1 DEF InLog
      <4>3. VotedFor(journal'[Leader], log'[Leader][k])
        BY <1>3
      <4>4. PICK h \in DOMAIN journal'[n] : journal'[n][h] = PrepareRecord(e)
        BY <3>4 DEF VotedFor
      <4>5. journal'[n][h].type = "PREPARE" /\ journal'[n][h].entry = e
        BY <4>4, SMTT(60) DEF PrepareRecord
      <4>6. VotedFor(journal'[Leader], e)
        BY <4>5 DEF VotesOfLeader
      <4>7. OneVoteOneDecision(journal'[Leader]) /\ journal'[Leader] \in Seq(Record)
        BY <1>0 DEF JournalInv, JournalGrammar
      <4>8. log'[Leader][k] = e
        BY <4>2, <4>3, <4>6, <4>7, OneVote
      <4> QED BY <3>2, <4>8
    <3> QED BY <2>4, <3>1, <3>3, <3>4 DEF Gains
  <2> QED BY <1>0, <2>1, <2>3, <2>4, LogEntries
<1> QED
  <2>1. \A i \in DOMAIN log'[Leader] : /\ VotedFor(journal'[Leader], log'[Leader][i])
                                       /\ Recorded(Leader, "COMMIT", log[Leader][i].txid)'
    BY <1>3 DEF Decided, Recorded
  <2>2. \A n \in Node \ {Leader}, t \in TxId : Recorded(n, "COMMIT", t)' => InLog(log', Leader, t)
    BY <1>5 DEF Decided, Recorded
  <2>3. \A n \in Node : \A i \in DOMAIN log'[n] : HasEntry(Leader, log[n][i])'
    BY <1>6 DEF HasEntry
  <2> QED BY <1>4, <2>1, <2>2, <2>3 DEF CommitsOfLeader

\* Every step keeps what every step starts from.
LEMMA KnownStep ==
  ASSUME Known, [StableNext]_vars
  PROVE  Known'
<1>1. [CommitNext]_vars /\ AliveInv'
  BY StableStep DEF Known
<1>2. TypeOK' /\ EntryIsRead' /\ [LogNext]_logVars /\ LogTypeOK
  BY <1>1, CommitTypeStep DEF Known, TypeOK
<1>3. LogTypeOK' /\ LogReplayable' /\ VoteInv'
  BY <1>2, LogReplayableStep, VoteInvStep DEF Known, TypeOK
<1>4. JournalInv'
  BY <1>2, <1>3, JournalInvStep DEF Known
<1>5. ReplicaInv'
  BY <1>1, ReplicaInvStep DEF Known, JournalInv, TableInv, TableMatchesJournal
<1>6. OneCoordinator'
  <2>1. CASE StableNext
    BY <2>1, OneCoordinatorStep DEF Known
  <2>2. CASE UNCHANGED vars
    BY <2>2 DEF Known, OneCoordinator, vars
  <2> QED BY <2>1, <2>2
<1> QED BY <1>1, <1>2, <1>3, <1>4, <1>5, <1>6 DEF Known

\* What is known of the logs and the votes.
Led == Known /\ VotesOfLeader /\ CommitsOfLeader

\* Every step keeps what is known of the logs and the votes.
LEMMA LedStep ==
  ASSUME Led, [StableNext]_vars
  PROVE  Led' /\ LogTypeOK' /\ JournalInv'
<1>1. Known' /\ LogTypeOK' /\ JournalInv'
  BY KnownStep DEF Led, Known, TypeOK
<1>2. CASE StableNext
  <2>1. VotesOfLeader'
    BY <1>2, VotesOfLeaderStep DEF Led
  <2>2. CommitsOfLeader'
    BY <1>1, <1>2, <2>1, CommitsOfLeaderStep DEF Led
  <2> QED BY <1>1, <2>1, <2>2 DEF Led
<1>3. CASE UNCHANGED vars
  <2>1. submission' = submission /\ journal' = journal /\ calls' = calls /\ log' = log
    BY <1>3 DEF vars
  <2>2. VotesOfLeader'
    BY <2>1 DEF Led, VotesOfLeader
  <2>3. CommitsOfLeader'
    BY <2>1 DEF Led, CommitsOfLeader, Recorded, HasEntry
  <2> QED BY <1>1, <2>2, <2>3 DEF Led
<1> QED BY <1>2, <1>3

\* A new system.
LEMMA LedInit == Init => Led
<1> SUFFICES ASSUME Init PROVE Known /\ VotesOfLeader /\ CommitsOfLeader
  BY DEF Led
<1>1. CommitInit /\ LogInit /\ AliveInv
  BY NodeAssumption DEF Init, CommitInit, AliveInv, NothingSubmitted
<1>2. TypeOK /\ EntryIsRead
  BY <1>1, CommitTypeInit
<1>3. ReplicaInv
  BY <1>1, ReplicaInvInit
<1>4. LogReplayable
  BY <1>1, SMTT(60) DEF LogInit, LogReplayable, Replayable
<1>5. JournalInv /\ VoteInv
  BY <1>1, SMTT(60) DEF LogInit, JournalInv, TableInv, JournalGrammar, OneVoteOneDecision, Tells, RecordIn,
         NoTransactions, Unknown, VoteInv
<1>6. /\ submission = [n \in Node |-> [t \in TxId |-> Idle]] /\ calls = {} /\ applying = {}
      /\ log = [n \in Node |-> <<>>] /\ journal = [n \in Node |-> <<>>]
      /\ leader = [n \in Node |-> Leader]
  BY DEF Init, NothingSubmitted, LogInit
<1>7. \A n \in Node, t \in TxId : submission[n][t].phase = "idle"
  BY <1>6, IdleIs
<1>8. OneCoordinator
  BY <1>6, <1>7 DEF OneCoordinator
<1>9. \A n \in Node : DOMAIN journal[n] = {} /\ DOMAIN log[n] = {} /\ Len(journal[n]) = 0
  <2>1. \A n \in Node : journal[n] = <<>> /\ log[n] = <<>>
    BY <1>6
  <2>2. DOMAIN <<>> = {} /\ Len(<<>>) = 0
    BY SMTT(60)
  <2> QED BY <2>1, <2>2
<1>10. VotesOfLeader
  BY <1>6, <1>7, <1>9, NodeAssumption DEF VotesOfLeader
<1>11. CommitsOfLeader
  BY <1>6, <1>9, NodeAssumption, SMTT(60) DEF CommitsOfLeader, Recorded, RecordIn
<1> QED BY <1>1, <1>2, <1>3, <1>4, <1>5, <1>8, <1>10, <1>11 DEF Known

\* The leader's log is the longest, and the others are prefixes of it.
LEMMA PrefixesOfLeader ==
  ASSUME LogTypeOK, LogReplayable, CommitsOfLeader
  PROVE  LogsAgree
<1>1. ASSUME NEW n \in Node, NEW i \in DOMAIN log[n]
      PROVE  i \in DOMAIN log[Leader] /\ log[n][i] = log[Leader][i]
  <2>1. PICK k \in DOMAIN log[Leader] : log[Leader][k] = log[n][i]
    BY DEF CommitsOfLeader, HasEntry
  <2>2. log[n][i].index = i /\ log[Leader][k].index = k
    BY NodeAssumption DEF LogReplayable, Replayable
  <2> QED BY <2>1, <2>2
<1> QED BY <1>1 DEF LogsAgree

\* With one coordinator all logs are prefixes of one another, whatever requests are
\* lost, late or answered late, whatever writes fail and whoever is killed and comes
\* back at any point, the coordinator included.
THEOREM OneCoordinatorLogsAgree == StableSpec => []LogsAgree
<1>1. Led /\ [StableNext]_vars => Led'
  BY LedStep
<1>2. Led => LogsAgree
  BY PrefixesOfLeader DEF Led, Known, TypeOK
<1> QED BY <1>1, <1>2, LedInit, PTL DEF StableSpec

----------------------------------------------------------------------------
(* One coordinator: decisions *)

\* The leader's vote at i has neither been aborted nor reached the log.
Outstanding(i) ==
  /\ i \in DOMAIN journal[Leader] /\ journal[Leader][i].type = "PREPARE"
  /\ ~Recorded(Leader, "ABORT", journal[Leader][i].txid)
  /\ ~InLog(log, Leader, journal[Leader][i].txid)

\* The leader has one vote at a time outstanding, for the next index.
OneOutstanding ==
  \A i \in DOMAIN journal[Leader] : Outstanding(i) =>
    /\ journal[Leader][i].entry.index = Len(log[Leader]) + 1
    /\ \A h \in DOMAIN journal[Leader] : Outstanding(h) => h = i

\* The commits in the leader's table have reached its log.
CommitsInLog ==
  \A t \in TxId : txns[Leader][t].state = "COMMITTED" => InLog(log, Leader, t)

\* A submission that has not decided is not in the log; what it has read of the end
\* of the log may be old.
NotDecided ==
  \A t \in TxId :
    /\ submission[Leader][t].phase \in {"read", "vote", "prepare"} => ~InLog(log, Leader, t)
    /\ submission[Leader][t].phase = "vote" =>
         submission[Leader][t].entry.index <= Len(log[Leader]) + 1

\* Whoever is told to abort, or has aborted, is told so by a leader that has.
AbortsOfLeader ==
  /\ \A t \in TxId : submission[Leader][t].phase = "abort" => Recorded(Leader, "ABORT", t)
  /\ \A r \in calls : r.type = "M_ABORT" => Recorded(Leader, "ABORT", r.txid)
  /\ \A n \in Node, t \in TxId : Recorded(n, "ABORT", t) => Recorded(Leader, "ABORT", t)

\* The types of what the leader keeps.
LEMMA LeaderTypes ==
  ASSUME Led
  PROVE  /\ LogTypeOK /\ JournalInv /\ VoteInv /\ OneCoordinator /\ EntryIsRead /\ TypeOK
         /\ Leader \in Node /\ journal[Leader] \in Seq(Record) /\ log[Leader] \in Seq(Entry)
         /\ DOMAIN journal[Leader] = 1..Len(journal[Leader])
         /\ OneVoteOneDecision(journal[Leader])
         /\ status[Leader] = "open" => Tells(journal[Leader], Len(journal[Leader]), txns[Leader])
<1>1. /\ LogTypeOK /\ JournalInv /\ VoteInv /\ OneCoordinator /\ EntryIsRead /\ TypeOK /\ Leader \in Node
  BY NodeAssumption DEF Led, Known, TypeOK
<1>2. journal[Leader] \in Seq(Record) /\ log[Leader] \in Seq(Entry)
  BY <1>1 DEF LogTypeOK
<1> QED BY <1>1, <1>2, SMTT(60) DEF JournalInv, JournalGrammar, TableInv

\* A vote record has the entry and its transaction.
LEMMA VoteRecord ==
  ASSUME Led, NEW i \in DOMAIN journal[Leader], journal[Leader][i].type = "PREPARE"
  PROVE  LET r == journal[Leader][i] IN
         /\ r.entry \in Entry /\ r = PrepareRecord(r.entry)
         /\ r.txid = r.entry.txid /\ r.txid \in TxId
         /\ r.entry.index \in Nat /\ r.entry.version = r.entry.index
<1>1. PICK r : r = journal[Leader][i]
  OBVIOUS
<1>2. r \in Record
  BY <1>1, LeaderTypes, SMTT(60)
<1>3. r.entry \in Entry /\ r = PrepareRecord(r.entry) /\ r.txid \in TxId
  BY <1>1, <1>2, RecordTypes
<1>4. r.txid = r.entry.txid
  BY <1>3, SMTT(60) DEF PrepareRecord
<1>5. r.entry.index \in Nat
  BY <1>3, IndexAssumption DEF Entry
<1>6. r.entry.version = r.entry.index
  BY <1>1, LeaderTypes DEF VoteInv
<1> QED BY <1>1, <1>3, <1>4, <1>5, <1>6

\* A transaction that the leader has prepared and not decided is outstanding.
LEMMA PreparedIsOutstanding ==
  ASSUME Led, NEW t \in TxId, status[Leader] = "open", txns[Leader][t].state = "PREPARED"
  PROVE  \E i \in DOMAIN journal[Leader] :
           /\ Outstanding(i) /\ journal[Leader][i] = PrepareRecord(txns[Leader][t].entry)
           /\ journal[Leader][i].txid = t
<1>1. Tells(journal[Leader], Len(journal[Leader]), txns[Leader])
  BY LeaderTypes
<1>2. PICK i \in 1..Len(journal[Leader]) :
        journal[Leader][i] = PrepareRecord(txns[Leader][t].entry) /\ journal[Leader][i].txid = t
  BY <1>1 DEF Tells
<1>3. i \in DOMAIN journal[Leader] /\ journal[Leader][i].type = "PREPARE"
  BY <1>2, LeaderTypes, SMTT(60) DEF PrepareRecord
<1>4. ~Recorded(Leader, "ABORT", t) /\ ~Recorded(Leader, "COMMIT", t)
  BY <1>1 DEF Tells, Recorded
<1>5. ~InLog(log, Leader, t)
  BY <1>4 DEF InLog, Led, CommitsOfLeader
<1> QED BY <1>2, <1>3, <1>4, <1>5 DEF Outstanding

\* The entry of a prepared transaction is the next one of the leader's log.
LEMMA LeaderCommits ==
  ASSUME Led, OneOutstanding, NEW t \in TxId, status[Leader] = "open",
         txns[Leader][t].state = "PREPARED"
  PROVE  txns[Leader][t].entry.txid = t /\ IsNext(Leader, txns[Leader][t].entry)
<1>1. PICK i \in DOMAIN journal[Leader] :
           /\ Outstanding(i) /\ journal[Leader][i] = PrepareRecord(txns[Leader][t].entry)
           /\ journal[Leader][i].txid = t
  BY PreparedIsOutstanding
<1>2. PICK e : e = txns[Leader][t].entry
  OBVIOUS
<1>3. journal[Leader][i].entry = e /\ journal[Leader][i].type = "PREPARE" /\ e.txid = t
  <2>1. /\ PrepareRecord(e).entry = e /\ PrepareRecord(e).type = "PREPARE"
        /\ PrepareRecord(e).txid = e.txid
    BY SMTT(60) DEF PrepareRecord
  <2> QED BY <1>1, <1>2, <2>1
<1>4. e.version = e.index /\ e.index = Len(log[Leader]) + 1
  BY <1>1, <1>3, VoteRecord DEF OneOutstanding
<1>5. ~HasTxId(Leader, t)
  BY <1>1 DEF Outstanding, InLog, HasTxId
<1>6. LastVersion(Leader) = Len(log[Leader])
  <2>1. Len(journal[Leader]) \in 0..Len(journal[Leader])
    BY LeaderTypes, SMTT(60)
  <2> QED BY <2>1, LeaderTypes, TableIs
<1> QED BY <1>2, <1>3, <1>4, <1>5, <1>6 DEF IsNext, LastIndex

\* A vote that is outstanding is a prepared transaction of a running leader.
LEMMA OutstandingIsPending ==
  ASSUME Led, OneOutstanding, CommitsInLog, status[Leader] = "open", NEW i, Outstanding(i)
  PROVE  journal[Leader][i].txid \in Pending(Leader)
<1>1. PICK r : r = journal[Leader][i]
  OBVIOUS
<1>2. /\ i \in DOMAIN journal[Leader] /\ r.type = "PREPARE" /\ ~Recorded(Leader, "ABORT", r.txid)
      /\ ~InLog(log, Leader, r.txid)
  BY <1>1 DEF Outstanding
<1>3. r.txid \in TxId /\ r = PrepareRecord(r.entry) /\ r.txid = r.entry.txid
  BY <1>1, <1>2, VoteRecord
<1>4. PICK x : x = txns[Leader][r.txid]
  OBVIOUS
<1>5. Tells(journal[Leader], Len(journal[Leader]), txns[Leader])
  BY LeaderTypes
<1>6. x.state \in {"UNKNOWN", "PREPARED", "COMMITTED", "ABORTED"}
  BY <1>3, <1>4, LeaderTypes, TxnTypes
<1>7. x.state # "COMMITTED"
  BY <1>2, <1>3, <1>4 DEF CommitsInLog
<1>8. x.state # "ABORTED"
  BY <1>2, <1>3, <1>4, <1>5 DEF Tells, Recorded
<1>9. x.state # "UNKNOWN"
  <2>1. i \in 1..Len(journal[Leader]) /\ journal[Leader][i].txid = r.txid
    BY <1>1, <1>2, LeaderTypes
  <2> QED BY <1>3, <1>4, <1>5, <2>1 DEF Tells
<1>10. x.state = "PREPARED"
  BY <1>6, <1>7, <1>8, <1>9
<1>11. VotedFor(journal[Leader], x.entry) /\ x.entry.txid = r.txid
  BY <1>3, <1>4, <1>10, LeaderTypes, TableVoted
<1>12. VotedFor(journal[Leader], r.entry)
  BY <1>1, <1>2, <1>3 DEF VotedFor
<1>13. x.entry = r.entry
  BY <1>3, <1>11, <1>12, LeaderTypes, OneVote
<1>14. r.entry.index = Len(log[Leader]) + 1 /\ Len(log[Leader]) \in Nat
  <2>1. Len(log[Leader]) \in Nat
    BY LeaderTypes, SMTT(60)
  <2> QED BY <1>1, <1>2, <2>1 DEF OneOutstanding
<1>15. x.entry.index > Len(log[Leader])
  BY <1>13, <1>14, SMTT(60)
<1> QED BY <1>1, <1>3, <1>4, <1>10, <1>15 DEF Pending, LastIndex

\* The leader votes only when no vote is outstanding, and for the next index: a
\* submission that read the end of the log too early is refused.
LEMMA VoteAlone ==
  ASSUME Led, OneOutstanding, CommitsInLog, NotDecided, NEW t \in TxId, Vote(Leader, t),
         NEW e, e = submission[Leader][t].entry, IsNewPrepare(Leader, e)
  PROVE  /\ e.index = Len(log[Leader]) + 1
         /\ \A i : ~Outstanding(i)
<1>1. submission[Leader][t].phase = "vote" /\ Expected(Leader, e)
  BY DEF Vote, IsNewPrepare
<1>2. /\ status[Leader] = "open" /\ e \in Entry /\ e.index <= Len(log[Leader]) + 1
      /\ Len(log[Leader]) \in Nat
  <2>1. status[Leader] = "open" /\ e \in Entry /\ log[Leader] \in Seq(Entry)
    BY <1>1, LeaderTypes DEF OneCoordinator, EntryIsRead, HasRead
  <2>2. e.index <= Len(log[Leader]) + 1
    BY <1>1 DEF NotDecided
  <2>3. Len(log[Leader]) \in Nat
    BY <2>1, SMTT(60)
  <2> QED BY <2>1, <2>2, <2>3
<1>3. e.index \in Nat
  BY <1>2, IndexAssumption DEF Entry
<1>4. ASSUME NEW u \in Pending(Leader)
      PROVE  txns[Leader][u].entry.index \in Nat /\ txns[Leader][u].entry.index > Len(log[Leader])
  <2>1. u \in TxId /\ txns[Leader][u].state = "PREPARED"
        /\ txns[Leader][u].entry.index > Len(log[Leader])
    BY <1>4 DEF Pending, LastIndex
  <2>2. txns[Leader][u].entry \in Entry
    BY <2>1, LeaderTypes, TxnTypes
  <2> QED BY <2>1, <2>2, IndexAssumption DEF Entry
<1>5. Pending(Leader) = {} /\ e.index = Len(log[Leader]) + 1
  <2>1. ASSUME NEW u \in Pending(Leader), e.index = txns[Leader][u].entry.index + 1 PROVE FALSE
    <3>1. \A a, b, c \in Nat : a <= b + 1 /\ c > b => a # c + 1
      BY SMTT(60)
    <3> QED BY <1>2, <1>3, <1>4, <2>1, <3>1
  <2> QED BY <1>1, <2>1 DEF Expected, LastIndex
<1> QED BY <1>2, <1>5, OutstandingIsPending

\* The steps that append to the leader's log while it runs are the decisions of its
\* own submissions.
LEMMA LeaderAppends ==
  ASSUME Led, StableNext, status[Leader] = "open", log'[Leader] # log[Leader]
  PROVE  \E t \in TxId : /\ DecideCommit(Leader, t) \/ DecideFails(Leader, t)
                         /\ Commit(Leader, t)
<1> DEFINE Goal == \E t \in TxId : /\ DecideCommit(Leader, t) \/ DecideFails(Leader, t)
                                   /\ Commit(Leader, t)
<1>0. /\ TypeOK /\ LogTypeOK /\ OneCoordinator /\ AliveInv /\ Leader \in Node
      /\ log \in [Node -> Seq(Entry)]
  BY LeaderTypes DEF Led, Known, LogTypeOK
<1>1. ASSUME NEW n \in Node, NEW x, log' = [log EXCEPT ![n] = x] PROVE n = Leader
  BY <1>0, <1>1
<1>2. log' # log
  OBVIOUS
<1>3. ASSUME NEW n \in Node, NEW t \in TxId, Commit(n, t) PROVE n = Leader
  <2>1. log' = [log EXCEPT ![n] = LogWith(n, txns[n][t].entry)]
    BY <1>3 DEF Commit
  <2> QED BY <1>1, <2>1
<1>4. ASSUME NEW n \in Node, NEW t \in TxId,
             \/ SubmitNew(n, t) \/ Coordinate(n, t) \/ \E p \in Payload : SubmitAgain(n, t, p)
      PROVE  Goal
  <2>1. (DecideCommit(n, t) \/ DecideFails(n, t)) /\ Commit(n, t)
    BY <1>2, <1>4 DEF SubmitNew, SubmitAgain, Coordinate, ReadEnd, Vote, VoteFails, Call, CallFails,
         DecideCommit, ApplyHere, DecideFails, DecideAbort, Return, Prepare, CommitWriteError,
         Abort, logVars
  <2>2. n = Leader
    BY <1>3, <2>1
  <2> QED BY <2>1, <2>2
<1>5. ASSUME NEW r \in calls \cup applying, Handle(r) PROVE Goal
  <2>1. r \in calls /\ FromLeader(r) /\ Commit(r.dst, r.txid)
    BY <1>2, <1>5 DEF Handle, HandlePrepare, HandleCommit, ApplyCommit, RefuseCommit, ApplyLearned,
         HandleCommitWriteError, HandleAbort, Prepare, CommitWriteError, Abort, logVars
  <2>2. r.dst \in Node /\ r.txid \in TxId
    BY <1>0, HandledIs
  <2>3. r.dst # Leader
    BY <1>0, <2>1, LeaderAsksOthers
  <2> QED BY <1>3, <2>1, <2>2, <2>3
<1>6. ASSUME NEW n \in Node, Die(n) \/ Follow(n) \/ \E k \in Node : Detect(n, k) PROVE Goal
  <2>1. log' = log
    BY <1>6 DEF Die, Crash, CrashInRecord, CrashInEntry, CrashInCommit, Follow, Detect, logVars
  <2> QED BY <1>2, <2>1
<1>7. ASSUME NEW n \in Node, Restart(n) PROVE Goal
  <2>1. LoadCommit(n)
    BY <1>2, <1>7 DEF Restart, Crash, Open, Load, LoadPrepare, LoadAbort, LoadEnd, LoadFails, Loaded
  <2>2. status[n] = "loading" /\ (log' = log \/ \E x : log' = [log EXCEPT ![n] = x])
    BY <2>1 DEF LoadCommit, AtRecord, LoadFails
  <2>3. n = Leader
    BY <1>1, <1>2, <2>2
  <2> QED BY <2>2, <2>3
<1>8. ASSUME NEW n \in Node, Transfer(n, Leader) PROVE Goal
  <2>1. PICK i \in DOMAIN log[Leader] : AppendEntry(n, log[Leader][i])
    BY <1>2, <1>8 DEF Transfer, logVars
  <2>2. IsNext(n, log[Leader][i]) /\ log' = [log EXCEPT ![n] = Append(@, log[Leader][i])]
    BY <2>1 DEF AppendEntry
  <2>3. n = Leader
    BY <1>1, <2>2
  <2> QED BY <2>2, <2>3 DEF IsNext, HasTxId
<1> HIDE DEF Goal
<1>9. Goal
  BY <1>4, <1>5, <1>6, <1>7, <1>8 DEF StableNext, ProtocolNext
<1> QED BY <1>9 DEF Goal

\* Then the submission of the transaction in the new entry has decided.
LEMMA AppendedDecided ==
  ASSUME Led, StableNext, status[Leader] = "open", NEW t \in TxId,
         ~InLog(log, Leader, t), InLog(log', Leader, t)
  PROVE  submission'[Leader][t].phase \in {"apply", "idle"}
<1>0. /\ TypeOK /\ LogTypeOK /\ JournalInv /\ Leader \in Node /\ log \in [Node -> Seq(Entry)]
      /\ submission \in [Node -> [TxId -> Submission]]
  BY LeaderTypes DEF LogTypeOK, TypeOK
<1>1. log'[Leader] # log[Leader]
  BY DEF InLog
<1>2. PICK u \in TxId : /\ DecideCommit(Leader, u) \/ DecideFails(Leader, u)
                        /\ Commit(Leader, u)
  BY <1>1, LeaderAppends
<1>3. PICK e : e = txns[Leader][u].entry
  OBVIOUS
<1>4. e \in Entry /\ e.txid = u
  <2>1. txns[Leader][u].state \in {"PREPARED", "COMMITTED"}
    BY <1>2 DEF Commit, Committable
  <2> QED BY <1>0, <1>3, <2>1, TableVoted
<1>5. log'[Leader] = Append(log[Leader], e)
  <2>1. log'[Leader] = LogWith(Leader, e)
    BY <1>0, <1>2, <1>3 DEF Commit
  <2> QED BY <1>1, <2>1 DEF LogWith
<1>6. PICK i \in DOMAIN log'[Leader] : log'[Leader][i].txid = t
  BY DEF InLog
<1>7. log'[Leader][i] = e \/ (i \in DOMAIN log[Leader] /\ log'[Leader][i] = log[Leader][i])
  BY <1>0, <1>4, <1>5, <1>6, SMTT(60)
<1>8. u = t
  BY <1>4, <1>6, <1>7 DEF InLog
<1>9. PICK s \in Submission : s = submission[Leader][t]
  BY <1>0
<1>10. CASE DecideCommit(Leader, t)
  <2>1. PICK x : x = [s EXCEPT !.phase = "apply"]
    OBVIOUS
  <2>2. x \in Submission /\ x.phase = "apply"
    BY <2>1, PhaseIs, SMTT(60) DEF Phase
  <2>3. submission' = [submission EXCEPT ![Leader][t] = x]
    BY <1>9, <1>10, <2>1 DEF DecideCommit
  <2>4. submission'[Leader][t] = x
    BY <1>0, <2>2, <2>3, SetIs, SMTT(60)
  <2> QED BY <2>2, <2>4
<1>11. CASE DecideFails(Leader, t)
  <2>1. submission' = [submission EXCEPT ![Leader][t] = Idle]
    BY <1>11 DEF DecideFails
  <2>2. submission'[Leader][t] = Idle
    BY <1>0, <2>1, IdleIs, SetIs, SMTT(60)
  <2> QED BY <2>2, IdleIs
<1> QED BY <1>2, <1>8, <1>10, <1>11

\* A submission that has not decided is not in the log.
LEMMA NotDecidedStep ==
  ASSUME Led, NotDecided, StableNext
  PROVE  NotDecided'
<1>0. /\ TypeOK /\ LogTypeOK /\ EntryIsRead /\ OneCoordinator /\ Leader \in Node
      /\ [LogNext]_logVars /\ log[Leader] \in Seq(Entry)
  BY LeaderTypes, KnownLogStep DEF Led
<1>1. Len(log[Leader]) \in Nat /\ Len(log'[Leader]) \in Nat /\ Len(log[Leader]) <= Len(log'[Leader])
  <2>1. log'[Leader] = log[Leader] \/ \E e \in Entry : log'[Leader] = Append(log[Leader], e)
    BY <1>0, LogStep
  <2> QED BY <1>0, <2>1, SMTT(60)
<1>2. ASSUME NEW t \in TxId, submission'[Leader][t].phase \in {"read", "vote", "prepare"}
      PROVE  /\ ~InLog(log', Leader, t)
             /\ submission'[Leader][t].phase = "vote" =>
                  submission'[Leader][t].entry.index <= Len(log'[Leader]) + 1
  <2>1. Moved(Leader, t) /\ Submits(Leader, t)
    BY <1>0, <1>2, SubmissionOrigin
  <2>2. status[Leader] = "open"
    BY <1>0, <2>1 DEF OneCoordinator, Submits
  <2>3. ~InLog(log, Leader, t) => ~InLog(log', Leader, t)
    BY <1>2, <2>2, AppendedDecided
  <2>4. CASE SamePhase(Leader, t)
    <3>1. /\ submission[Leader][t].phase = submission'[Leader][t].phase
          /\ submission[Leader][t].entry = submission'[Leader][t].entry
      BY <2>4 DEF SamePhase
    <3>2. submission[Leader][t].phase = "vote" => submission[Leader][t].entry \in Entry
      BY <1>0 DEF EntryIsRead, HasRead
    <3>3. submission[Leader][t].phase = "vote" => submission[Leader][t].entry.index \in Nat
      BY <3>2, IndexAssumption DEF Entry
    <3>4. \A a, b, c \in Nat : a <= b + 1 /\ b <= c => a <= c + 1
      BY SMTT(60)
    <3> QED BY <1>1, <1>2, <2>3, <3>1, <3>3, <3>4 DEF NotDecided
  <2>5. CASE SubmitNew(Leader, t) /\ submission'[Leader][t].phase = "read"
    BY <2>3, <2>5 DEF SubmitNew, HasTxId, InLog
  <2>6. ASSUME NEW p \in Payload, ReadEnd(Leader, t, p), submission'[Leader][t].phase = "vote",
               submission'[Leader][t].entry = NextEntry(Leader, t, p)
        PROVE  /\ ~InLog(log', Leader, t)
               /\ submission'[Leader][t].entry.index <= Len(log'[Leader]) + 1
    <3>1. submission[Leader][t].phase = "read" /\ log' = log
      BY <2>6 DEF ReadEnd, logVars
    <3>2. submission'[Leader][t].entry.index = Len(log[Leader]) + 1
      BY <2>6, SMTT(60) DEF NextEntry, LastIndex
    <3>3. Len(log[Leader]) + 1 <= Len(log[Leader]) + 1
      BY <1>0, SMTT(60)
    <3> QED BY <1>1, <2>3, <3>1, <3>2, <3>3 DEF NotDecided
  <2>7. CASE Vote(Leader, t) /\ submission'[Leader][t].phase = "prepare"
    <3>1. submission[Leader][t].phase = "vote"
      BY <2>7 DEF Vote
    <3> QED BY <2>3, <2>7, <3>1 DEF NotDecided
  <2> QED BY <1>2, <2>1, <2>4, <2>5, <2>6, <2>7 DEF Moved
<1> QED BY <1>2 DEF NotDecided

\* A vote that is outstanding after a step that writes no vote was outstanding before.
LEMMA OutstandingBefore ==
  ASSUME Led, StableNext, NEW i \in DOMAIN journal[Leader], Outstanding(i)'
  PROVE  Outstanding(i)
<1>0. LogTypeOK /\ [LogNext]_logVars /\ Leader \in Node /\ journal[Leader] \in Seq(Record)
  BY LeaderTypes, KnownLogStep DEF Led
<1>1. journal'[Leader][i] = journal[Leader][i]
  <2>1. \/ journal'[Leader] = journal[Leader]
        \/ \E r \in Record : journal'[Leader] = Append(journal[Leader], r)
    BY <1>0, JournalStep
  <2> QED BY <1>0, <2>1, SMTT(60)
<1>2. PICK r : r = journal[Leader][i]
  OBVIOUS
<1>3. r.type = "PREPARE" /\ ~Decided(journal', Leader, "ABORT", r.txid) /\ ~InLog(log', Leader, r.txid)
  BY <1>1, <1>2 DEF Outstanding, Recorded, Decided
<1>4. ~Decided(journal, Leader, "ABORT", r.txid) /\ ~InLog(log, Leader, r.txid)
  BY <1>0, <1>3, RecordsStay, LogAndVotesStay
<1> QED BY <1>2, <1>3, <1>4 DEF Outstanding, Recorded, Decided

\* An entry that the leader appends was its outstanding vote.
LEMMA AppendedWasOutstanding ==
  ASSUME Led, StableNext, JournalInv', LogTypeOK', NEW e \in Entry, Gains(Leader, e),
         NEW h \in DOMAIN journal[Leader], journal[Leader][h] = PrepareRecord(e)
  PROVE  Outstanding(h)
<1>0. LogTypeOK /\ [LogNext]_logVars /\ Leader \in Node /\ journal'[Leader] \in Seq(Record)
  BY LeaderTypes, KnownLogStep DEF Led, LogTypeOK
<1>1. ~HasTxId(Leader, e.txid) /\ Decided(journal', Leader, "COMMIT", e.txid)
  BY DEF Gains, IsNext
<1>2. ~Decided(journal', Leader, "ABORT", e.txid)
  <2>1. OneVoteOneDecision(journal'[Leader]) /\ DOMAIN journal'[Leader] = 1..Len(journal'[Leader])
    BY <1>0, SMTT(60) DEF JournalInv, JournalGrammar
  <2>2. PICK c \in 1..Len(journal'[Leader]) :
          journal'[Leader][c].type = "COMMIT" /\ journal'[Leader][c].txid = e.txid
    BY <1>1 DEF Decided, RecordIn
  <2>3. ASSUME NEW a \in 1..Len(journal'[Leader]), journal'[Leader][a].type = "ABORT",
               journal'[Leader][a].txid = e.txid
        PROVE  FALSE
    <3>1. ~(a \in 1..(c - 1)) /\ ~(c \in 1..(a - 1))
      BY <2>1, <2>2, <2>3 DEF OneVoteOneDecision
    <3>2. a # c
      BY <2>2, <2>3
    <3>3. Len(journal'[Leader]) \in Nat
      BY <1>0, SMTT(60)
    <3> QED BY <3>1, <3>2, <3>3, SMTT(60)
  <2> QED BY <2>3 DEF Decided, RecordIn
<1>3. ~Decided(journal, Leader, "ABORT", e.txid)
  BY <1>0, <1>2, RecordsStay
<1>4. journal[Leader][h].type = "PREPARE" /\ journal[Leader][h].txid = e.txid
  BY SMTT(60) DEF PrepareRecord
<1> QED BY <1>1, <1>3, <1>4 DEF Outstanding, Decided, Recorded, InLog, HasTxId

\* The leader's journal gets a vote from the leader's thread, or no vote.
LEMMA LeaderVotes ==
  ASSUME Led, StableNext
  PROVE  \/ \A i \in DOMAIN journal'[Leader] : journal'[Leader][i].type = "PREPARE" =>
              i \in DOMAIN journal[Leader] /\ journal'[Leader][i] = journal[Leader][i]
         \/ /\ log'[Leader] = log[Leader]
            /\ \E t \in TxId, e \in Entry :
                 /\ Vote(Leader, t) /\ e = submission[Leader][t].entry /\ IsNewPrepare(Leader, e)
                 /\ journal'[Leader] = Append(journal[Leader], PrepareRecord(e))
<1>0. Leader \in Node /\ journal[Leader] \in Seq(Record)
  BY LeaderTypes
<1>1. CASE journal'[Leader] = journal[Leader]
  BY <1>1
<1>2. ASSUME NEW r \in Record, journal'[Leader] = Append(journal[Leader], r), r.type # "PREPARE"
      PROVE  \A i \in DOMAIN journal'[Leader] : journal'[Leader][i].type = "PREPARE" =>
               i \in DOMAIN journal[Leader] /\ journal'[Leader][i] = journal[Leader][i]
  <2>1. \A i \in DOMAIN journal'[Leader] :
          \/ i \in DOMAIN journal[Leader] /\ journal'[Leader][i] = journal[Leader][i]
          \/ i \in DOMAIN journal'[Leader] /\ journal'[Leader][i] = r
    BY <1>0, <1>2, SMTT(60)
  <2> QED BY <1>2, <2>1
<1>3. ASSUME NEW r \in Record, Writing(Leader, r), r.type = "PREPARE"
      PROVE  /\ log'[Leader] = log[Leader]
             /\ \E t \in TxId, e \in Entry :
                  /\ Vote(Leader, t) /\ e = submission[Leader][t].entry /\ IsNewPrepare(Leader, e)
                  /\ journal'[Leader] = Append(journal[Leader], PrepareRecord(e))
  BY <1>3, SMTT(60) DEF Writing, DecisionRecord
<1>4. CASE \E r \in Record : Writing(Leader, r)
  <2>1. PICK r \in Record : Writing(Leader, r)
    BY <1>4
  <2>2. journal'[Leader] = Append(journal[Leader], r)
    BY <2>1 DEF Writing
  <2> QED BY <1>2, <1>3, <2>1, <2>2
<1> QED BY <1>0, <1>1, <1>4, JournalOrigin DEF Led

\* The leader has one vote outstanding at a time.
LEMMA OneOutstandingStep ==
  ASSUME Led, OneOutstanding, CommitsInLog, NotDecided, StableNext, JournalInv', LogTypeOK'
  PROVE  OneOutstanding'
<1>0. /\ LogTypeOK /\ [LogNext]_logVars /\ Leader \in Node
      /\ journal[Leader] \in Seq(Record) /\ log[Leader] \in Seq(Entry)
  BY LeaderTypes, KnownLogStep DEF Led
<1> SUFFICES ASSUME NEW i \in DOMAIN journal'[Leader], Outstanding(i)'
             PROVE  /\ journal'[Leader][i].entry.index = Len(log'[Leader]) + 1
                    /\ \A h \in DOMAIN journal'[Leader] : Outstanding(h)' => h = i
  BY DEF OneOutstanding
<1>1. CASE \A h \in DOMAIN journal'[Leader] : journal'[Leader][h].type = "PREPARE" =>
              h \in DOMAIN journal[Leader] /\ journal'[Leader][h] = journal[Leader][h]
  <2>1. ASSUME NEW h \in DOMAIN journal'[Leader], Outstanding(h)'
        PROVE  /\ h \in DOMAIN journal[Leader] /\ Outstanding(h)
               /\ journal'[Leader][h] = journal[Leader][h]
    <3>1. journal'[Leader][h].type = "PREPARE"
      BY <2>1 DEF Outstanding
    <3>2. h \in DOMAIN journal[Leader] /\ journal'[Leader][h] = journal[Leader][h]
      BY <1>1, <3>1
    <3> QED BY <2>1, <3>2, OutstandingBefore
  <2>2. log'[Leader] = log[Leader]
    <3> SUFFICES ASSUME log'[Leader] # log[Leader] PROVE FALSE
      OBVIOUS
    <3>1. PICK e \in Entry : Gains(Leader, e)
      BY <1>0, LogOrigin DEF Led
    <3>2. PICK h \in DOMAIN journal'[Leader] : journal'[Leader][h] = PrepareRecord(e)
      BY <3>1 DEF Gains, VotedFor
    <3>3. journal'[Leader][h].type = "PREPARE" /\ journal'[Leader][h].txid = e.txid
      BY <3>2, SMTT(60) DEF PrepareRecord
    <3>4. h \in DOMAIN journal[Leader] /\ journal[Leader][h] = PrepareRecord(e)
      BY <1>1, <3>2, <3>3
    <3>5. Outstanding(h)
      BY <3>1, <3>4, AppendedWasOutstanding
    <3>6. h = i
      BY <2>1, <3>4, <3>5 DEF OneOutstanding
    <3>7. log'[Leader] = Append(log[Leader], e)
      BY <3>1 DEF Gains
    <3>8. Len(log'[Leader]) \in DOMAIN log'[Leader] /\ log'[Leader][Len(log'[Leader])] = e
      BY <1>0, <3>7, SMTT(60)
    <3>9. InLog(log', Leader, e.txid)
      BY <3>8 DEF InLog
    <3> QED BY <3>3, <3>6, <3>9 DEF Outstanding
  <2> QED BY <2>1, <2>2 DEF OneOutstanding
<1>2. ASSUME log'[Leader] = log[Leader], NEW t \in TxId, NEW e \in Entry,
             Vote(Leader, t), e = submission[Leader][t].entry, IsNewPrepare(Leader, e),
             journal'[Leader] = Append(journal[Leader], PrepareRecord(e))
      PROVE  /\ journal'[Leader][i].entry.index = Len(log'[Leader]) + 1
             /\ \A h \in DOMAIN journal'[Leader] : Outstanding(h)' => h = i
  <2>1. e.index = Len(log[Leader]) + 1 /\ \A h : ~Outstanding(h)
    BY <1>2, VoteAlone
  <2>2. PICK r \in Record : r = PrepareRecord(e)
    BY SMTT(60) DEF Record
  <2>a. /\ \A h \in DOMAIN journal'[Leader] : h \in DOMAIN journal[Leader] \/ h = Len(journal[Leader]) + 1
        /\ journal'[Leader][Len(journal[Leader]) + 1] = r
    <3>1. PICK j \in Seq(Record) : j = journal[Leader]
      BY <1>0
    <3>2. journal'[Leader] = Append(j, r)
      BY <1>2, <2>2, <3>1
    <3>3. /\ \A h \in DOMAIN Append(j, r) : h \in DOMAIN j \/ h = Len(j) + 1
          /\ Append(j, r)[Len(j) + 1] = r
      BY SMTT(60)
    <3> QED BY <3>1, <3>2, <3>3
  <2>3. ASSUME NEW h \in DOMAIN journal'[Leader], Outstanding(h)' PROVE h = Len(journal[Leader]) + 1
    <3>1. h \notin DOMAIN journal[Leader]
      BY <2>1, <2>3, OutstandingBefore
    <3> QED BY <2>3, <2>a, <3>1
  <2>4. i = Len(journal[Leader]) + 1
    BY <2>3
  <2>5. journal'[Leader][i] = r
    BY <2>4, <2>a
  <2>6. r.entry = e
    BY <2>2 DEF PrepareRecord
  <2> QED BY <1>2, <2>1, <2>3, <2>4, <2>5, <2>6
<1> QED BY <1>1, <1>2, LeaderVotes

\* Where a commit in the table comes from, unless writing an entry fails.
LEMMA CommittedOrigin ==
  ASSUME Known, StableNext, "entry" \notin WriteErrors, NEW n \in Node, NEW t \in TxId,
         txns'[n][t].state = "COMMITTED"
  PROVE  \/ txns[n][t].state = "COMMITTED"
         \/ status[n] = "open" /\ Commit(n, t)
         \/ /\ status[n] = "loading" /\ txns[n][t].state = "PREPARED"
            /\ AppendAccepts(n, txns[n][t].entry)
            /\ log' = [log EXCEPT ![n] = LogWith(n, txns[n][t].entry)]
<1> DEFINE Goal == \/ txns[n][t].state = "COMMITTED"
                   \/ status[n] = "open" /\ Commit(n, t)
                   \/ /\ status[n] = "loading" /\ txns[n][t].state = "PREPARED"
                      /\ AppendAccepts(n, txns[n][t].entry)
                      /\ log' = [log EXCEPT ![n] = LogWith(n, txns[n][t].entry)]
<1>0. TypeOK /\ LogTypeOK /\ EntryIsRead /\ txns \in [Node -> [TxId -> Txn]]
  BY DEF Known, TypeOK, LogTypeOK
<1>1. ASSUME txns' = txns PROVE Goal
  BY <1>1
<1>2. ASSUME NEW m \in Node, NEW u \in TxId, NEW st, NEW e, st # "COMMITTED",
             txns' = [txns EXCEPT ![m][u] = [state |-> st, entry |-> e]]
      PROVE  Goal
  <2>1. txns'[n][t] = txns[n][t] \/ txns'[n][t] = [state |-> st, entry |-> e]
    BY <1>0, <1>2
  <2>2. [state |-> st, entry |-> e].state = st
    BY SMTT(60)
  <2> QED BY <1>2, <2>1, <2>2
<1>3. ASSUME NEW m \in Node, txns' = [txns EXCEPT ![m] = NoTransactions] PROVE Goal
  <2>1. txns'[n] = txns[n] \/ txns'[n] = NoTransactions
    BY <1>0, <1>3
  <2>2. NoTransactions[t].state # "COMMITTED"
    BY DEF NoTransactions, Unknown
  <2> QED BY <2>1, <2>2
<1>4. ASSUME NEW m \in Node, NEW u \in TxId, Commit(m, u) PROVE Goal
  <2>1. /\ status[m] = "open"
        /\ txns' = [txns EXCEPT ![m][u] = [state |-> "COMMITTED", entry |-> txns[m][u].entry]]
    BY <1>4 DEF Commit, JournalCommit
  <2>2. (m = n /\ u = t) \/ txns'[n][t] = txns[n][t]
    BY <1>0, <2>1
  <2> QED BY <1>4, <2>1, <2>2
<1>5. ASSUME NEW m \in Node, LoadCommit(m) PROVE Goal
  <2>1. PICK r : r = journal[m][pos[m]]
    OBVIOUS
  <2>2. AtRecord(m, "COMMIT")
    BY <1>5 DEF LoadCommit
  <2>3. r.txid \in TxId /\ status[m] = "loading"
    BY <1>0, <2>1, <2>2, AtRecordTypes, SMTT(60)
  <2>4. PICK u \in TxId : u = r.txid
    BY <2>3
  <2>5. \/ LoadFails(m)
        \/ /\ txns[m][u].state = "PREPARED" /\ AppendAccepts(m, txns[m][u].entry)
           /\ Loaded(m, u, "COMMITTED", txns[m][u].entry)
           /\ log' = [log EXCEPT ![m] = LogWith(m, txns[m][u].entry)]
    BY <1>5, <2>1, <2>4 DEF LoadCommit
  <2>6. CASE LoadFails(m)
    BY <1>3, <2>6 DEF LoadFails
  <2>7. CASE Loaded(m, u, "COMMITTED", txns[m][u].entry)
    <3>1. (m = n /\ u = t) \/ txns'[n][t] = txns[n][t]
      BY <1>0, <2>7 DEF Loaded
    <3> QED BY <2>3, <2>5, <2>6, <3>1
  <2> QED BY <2>5, <2>6, <2>7
<1>6. ASSUME NEW m \in Node, LoadPrepare(m) \/ LoadAbort(m) PROVE Goal
  <2>1. PICK r : r = journal[m][pos[m]]
    OBVIOUS
  <2>2. LoadPrepare(m) => AtRecord(m, "PREPARE")
    BY DEF LoadPrepare
  <2>3. LoadAbort(m) => AtRecord(m, "ABORT")
    BY DEF LoadAbort
  <2>4. LoadPrepare(m) => r.entry.txid \in TxId
    <3>1. LoadPrepare(m) => r \in Record /\ r.type = "PREPARE"
      BY <1>0, <2>1, <2>2, AtRecordTypes, SMTT(60)
    <3>2. LoadPrepare(m) => r.entry \in Entry
      BY <3>1, RecordTypes
    <3> QED BY <3>2 DEF Entry
  <2>5. LoadAbort(m) => r.txid \in TxId
    BY <1>0, <2>1, <2>3, AtRecordTypes, SMTT(60)
  <2>6. \/ LoadFails(m)
        \/ \E u \in TxId : \/ Loaded(m, u, "PREPARED", r.entry)
                           \/ Loaded(m, u, "ABORTED", txns[m][u].entry)
    BY <1>6, <2>1, <2>4, <2>5, LoadPrepareEffect, LoadAbortEffect
  <2>7. CASE LoadFails(m)
    BY <1>3, <2>7 DEF LoadFails
  <2>8. ASSUME NEW u \in TxId, NEW st \in {"PREPARED", "ABORTED"}, NEW e, Loaded(m, u, st, e)
        PROVE  Goal
    BY <1>2, <2>8 DEF Loaded
  <2> HIDE DEF Goal
  <2> QED BY <2>6, <2>7, <2>8
<1> HIDE DEF Goal
<1>7. ASSUME NEW m \in Node, NEW e \in Entry, Prepare(m, e) PROVE Goal
  <2>1. e.txid \in TxId
    BY DEF Entry
  <2> QED BY <1>2, <1>7, <2>1 DEF Prepare
<1>8. ASSUME NEW m \in Node, NEW u \in TxId, Abort(m, u) PROVE Goal
  BY <1>2, <1>8 DEF Abort
<1>9. ~WriteFails("entry")
  BY DEF WriteFails
<1>10. ASSUME NEW m \in Node, NEW u \in TxId,
              \/ SubmitNew(m, u) \/ Coordinate(m, u) \/ \E p \in Payload : SubmitAgain(m, u, p)
       PROVE  Goal
  <2>1. PICK e : e = submission[m][u].entry
    OBVIOUS
  <2>2. Vote(m, u) => e \in Entry
    BY <1>0, <2>1 DEF Vote, EntryIsRead, HasRead
  <2>3. txns' = txns \/ (Vote(m, u) /\ Prepare(m, e)) \/ Commit(m, u) \/ Abort(m, u)
    BY <1>9, <1>10, <2>1 DEF SubmitNew, SubmitAgain, Coordinate, ReadEnd, Vote, VoteFails, Call,
         CallFails, DecideCommit, ApplyHere, DecideFails, DecideAbort, Return, logVars
  <2> QED BY <1>1, <1>4, <1>7, <1>8, <2>2, <2>3
<1>11. ASSUME NEW r \in calls \cup applying, Handle(r) PROVE Goal
  <2>1. r.dst \in Node /\ r.txid \in TxId /\ (r.type = "M_PREPARE" => r.entry \in Entry)
    BY <1>0, HandledIs
  <2>2. \/ txns' = txns \/ Commit(r.dst, r.txid) \/ Abort(r.dst, r.txid)
        \/ (r.type = "M_PREPARE" /\ Prepare(r.dst, r.entry))
    BY <1>9, <1>11 DEF Handle, HandlePrepare, HandleCommit, ApplyCommit, RefuseCommit, ApplyLearned,
         HandleCommitWriteError, HandleAbort, logVars
  <2> QED BY <1>1, <1>4, <1>7, <1>8, <2>1, <2>2
<1>12. ASSUME NEW m \in Node, Die(m) PROVE Goal
  <2>1. txns' = [txns EXCEPT ![m] = NoTransactions]
    BY <1>12 DEF Die, Crash, CrashInRecord, CrashInEntry, CrashInCommit, Stopped
  <2> QED BY <1>3, <2>1
<1>13. ASSUME NEW m \in Node, Restart(m) PROVE Goal
  <2>1. \/ txns' = txns \/ txns' = [txns EXCEPT ![m] = NoTransactions]
        \/ LoadPrepare(m) \/ LoadCommit(m) \/ LoadAbort(m)
    BY <1>13 DEF Restart, Crash, Stopped, Open, Load, LoadEnd, LoadFails
  <2> QED BY <1>1, <1>3, <1>5, <1>6, <2>1
<1>14. ASSUME NEW m \in Node,
              Transfer(m, Leader) \/ Follow(m) \/ \E k \in Node : Detect(m, k)
       PROVE  Goal
  <2>1. txns' = txns
    BY <1>14 DEF Transfer, AppendEntry, Follow, Detect, logVars
  <2> QED BY <1>1, <2>1
<1>15. Goal
  BY <1>10, <1>11, <1>12, <1>13, <1>14 DEF StableNext, ProtocolNext
<1> QED BY <1>15 DEF Goal

\* A commit reaches the leader's log with its record.
LEMMA CommitsInLogStep ==
  ASSUME Led, OneOutstanding, CommitsInLog, StableNext, "entry" \notin WriteErrors
  PROVE  CommitsInLog'
<1>0. /\ LogTypeOK /\ JournalInv /\ [LogNext]_logVars /\ Leader \in Node
      /\ log \in [Node -> Seq(Entry)]
  BY LeaderTypes, KnownLogStep DEF Led, LogTypeOK
<1> SUFFICES ASSUME NEW t \in TxId, txns'[Leader][t].state = "COMMITTED"
             PROVE  InLog(log', Leader, t)
  BY DEF CommitsInLog
<1>1. ASSUME InLog(log, Leader, t) PROVE InLog(log', Leader, t)
  BY <1>0, <1>1, LogAndVotesStay
<1>2. CASE txns[Leader][t].state = "COMMITTED"
  BY <1>1, <1>2 DEF CommitsInLog
<1>3. ASSUME status[Leader] \in {"open", "loading"}, txns[Leader][t].state = "PREPARED",
             AppendAccepts(Leader, txns[Leader][t].entry),
             log' = [log EXCEPT ![Leader] = LogWith(Leader, txns[Leader][t].entry)]
      PROVE  InLog(log', Leader, t)
  <2>1. PICK e \in Entry : e = txns[Leader][t].entry /\ e.txid = t
    BY <1>0, <1>3, TableVoted
  <2>2. CASE HasEntry(Leader, e)
    BY <1>1, <2>1, <2>2 DEF HasEntry, InLog
  <2>3. CASE IsNext(Leader, e)
    <3>1. log'[Leader] = Append(log[Leader], e)
      BY <1>0, <1>3, <2>1, <2>3 DEF LogWith
    <3>2. Len(log'[Leader]) \in DOMAIN log'[Leader] /\ log'[Leader][Len(log'[Leader])] = e
      BY <1>0, <3>1, SMTT(60)
    <3> QED BY <2>1, <3>2 DEF InLog
  <2> QED BY <1>3, <2>1, <2>2, <2>3 DEF AppendAccepts
<1>4. CASE status[Leader] = "open" /\ Commit(Leader, t)
  <2>1. /\ txns[Leader][t].state \in {"PREPARED", "COMMITTED"}
        /\ log' = [log EXCEPT ![Leader] = LogWith(Leader, txns[Leader][t].entry)]
    BY <1>4 DEF Commit, Committable
  <2>2. txns[Leader][t].state = "PREPARED" => AppendAccepts(Leader, txns[Leader][t].entry)
    BY <1>4, LeaderCommits DEF AppendAccepts
  <2> QED BY <1>2, <1>3, <1>4, <2>1, <2>2
<1> QED BY <1>0, <1>2, <1>3, <1>4, CommittedOrigin DEF Led

\* Whoever is told to abort is told so by a leader that has.
LEMMA AbortsOfLeaderStep ==
  ASSUME Led, CommitsInLog, NotDecided, AbortsOfLeader, StableNext, "ABORT" \notin WriteErrors
  PROVE  AbortsOfLeader'
<1>0. /\ TypeOK /\ LogTypeOK /\ EntryIsRead /\ OneCoordinator /\ [LogNext]_logVars /\ Leader \in Node
      /\ journal \in [Node -> Seq(Record)]
  BY LeaderTypes, KnownLogStep DEF Led, LogTypeOK
<1>1. \A t : Decided(journal, Leader, "ABORT", t) => Decided(journal', Leader, "ABORT", t)
  BY <1>0, RecordsStay
<1>2. \A n, t : Decided(journal, n, "ABORT", t) <=> Recorded(n, "ABORT", t)
  BY DEF Decided, Recorded
<1>3. ASSUME NEW t \in TxId, submission'[Leader][t].phase = "abort"
      PROVE  Decided(journal', Leader, "ABORT", t)
  <2>1. Moved(Leader, t)
    BY <1>0, <1>3, SubmissionOrigin
  <2>2. CASE SamePhase(Leader, t)
    BY <1>1, <1>2, <1>3, <2>2 DEF SamePhase, AbortsOfLeader
  <2>3. CASE DecideAbort(Leader, t)
    <3>1. submission[Leader][t].phase = "prepare"
      BY <2>3 DEF DecideAbort, AllCalled
    <3>2. status[Leader] = "open" /\ ~InLog(log, Leader, t)
      BY <1>0, <3>1 DEF OneCoordinator, NotDecided
    <3>3. Abort(Leader, t) \/ ~Abortable(Leader, t)
      BY <2>3 DEF DecideAbort, WriteFails
    <3>4. CASE Abort(Leader, t)
      <4>1. PICK r \in Record : r = DecisionRecord("ABORT", t)
        BY DecisionType
      <4>2. r.type = "ABORT" /\ r.txid = t
        BY <4>1 DEF DecisionRecord
      <4>3. journal'[Leader] = Append(journal[Leader], r)
        BY <1>0, <3>4, <4>1 DEF Abort
      <4>4. Len(journal'[Leader]) \in 1..Len(journal'[Leader]) /\ journal'[Leader][Len(journal'[Leader])] = r
        BY <1>0, <4>3, SMTT(60)
      <4> QED BY <4>2, <4>4 DEF Decided, RecordIn
    <3>5. CASE ~Abortable(Leader, t)
      <4>1. txns[Leader][t].state \in {"COMMITTED", "ABORTED"}
        BY <1>0, <3>5, TxnTypes DEF Abortable
      <4>2. txns[Leader][t].state # "COMMITTED"
        BY <3>2 DEF CommitsInLog
      <4>3. Tells(journal[Leader], Len(journal[Leader]), txns[Leader])
        BY <3>2, LeaderTypes
      <4>4. Decided(journal, Leader, "ABORT", t)
        BY <4>1, <4>2, <4>3 DEF Tells, Decided
      <4> QED BY <1>1, <4>4
    <3> QED BY <3>3, <3>4, <3>5
  <2> QED BY <1>3, <2>1, <2>2, <2>3 DEF Moved
<1>4. ASSUME NEW c \in calls', c.type = "M_ABORT" PROVE Decided(journal', Leader, "ABORT", c.txid)
  <2>1. CASE c \in calls
    BY <1>1, <1>2, <1>4, <2>1 DEF AbortsOfLeader
  <2>2. ASSUME NEW n \in Node, NEW t \in TxId, NEW m \in Node, Call(n, t, m), c = RequestTo(n, t, m)
        PROVE  Decided(journal', Leader, "ABORT", c.txid)
    <3>1. submission[n][t].phase \in {"prepare", "commit", "abort", "resend"}
      BY <2>2 DEF Call
    <3>2. submission[n][t].phase = "abort" /\ c.txid = t
      BY <1>4, <2>2, <3>1 DEF RequestTo
    <3>3. n = Leader
      BY <1>0, <3>2 DEF OneCoordinator
    <3> QED BY <1>1, <1>2, <3>2, <3>3 DEF AbortsOfLeader
  <2> QED BY <2>1, <2>2, CallsOrigin
<1>5. ASSUME NEW n \in Node, NEW t \in TxId, Decided(journal', n, "ABORT", t)
      PROVE  Decided(journal', Leader, "ABORT", t)
  <2>1. CASE n = Leader
    BY <1>5, <2>1
  <2>2. CASE Decided(journal, n, "ABORT", t)
    BY <1>1, <1>2, <2>2 DEF AbortsOfLeader
  <2>3. ASSUME NEW r \in Record, Writing(n, r), ~Decided(journal, n, "ABORT", t), n # Leader
        PROVE  Decided(journal', Leader, "ABORT", t)
    <3>1. PICK i \in 1..Len(journal'[n]) : journal'[n][i].type = "ABORT" /\ journal'[n][i].txid = t
      BY <1>5 DEF Decided, RecordIn
    <3>2. journal'[n] = Append(journal[n], r)
      BY <2>3 DEF Writing
    <3>3. (i \in 1..Len(journal[n]) /\ journal'[n][i] = journal[n][i]) \/ journal'[n][i] = r
      BY <1>0, <3>1, <3>2, SMTT(60)
    <3>4. r.type = "ABORT" /\ r.txid = t
      BY <2>3, <3>1, <3>3 DEF Decided, RecordIn
    <3>5. PICK u \in TxId : r = DecisionRecord("ABORT", u) /\ Told(n, "M_ABORT", u)
      BY <2>3, <3>4, SMTT(60) DEF Writing, PrepareRecord, DecisionRecord
    <3>6. u = t
      BY <3>4, <3>5 DEF DecisionRecord
    <3>7. Decided(journal, Leader, "ABORT", t)
      BY <1>2, <3>5, <3>6 DEF Told, AbortsOfLeader
    <3> QED BY <1>1, <3>7
  <2>4. journal'[n] = journal[n] => Decided(journal, n, "ABORT", t)
    BY <1>5 DEF Decided
  <2> QED BY <2>1, <2>2, <2>3, <2>4, JournalOrigin DEF Led
<1>6. \A n, t : Decided(journal', n, "ABORT", t) <=> Recorded(n, "ABORT", t)'
  BY DEF Decided, Recorded
<1> QED BY <1>3, <1>4, <1>5, <1>6 DEF AbortsOfLeader

\* What is known of the decisions.
DecisionInv == OneOutstanding /\ CommitsInLog /\ NotDecided /\ AbortsOfLeader

\* Every step keeps what is known of the decisions.
LEMMA DecisionInvStep ==
  ASSUME WriteErrors \subseteq {"PREPARE", "COMMIT"}, Led, DecisionInv, [StableNext]_vars
  PROVE  DecisionInv'
<1>1. "entry" \notin WriteErrors /\ "ABORT" \notin WriteErrors
  OBVIOUS
<1>2. LogTypeOK' /\ JournalInv'
  BY LedStep
<1>3. CASE StableNext
  <2>1. OneOutstanding'
    BY <1>2, <1>3, OneOutstandingStep DEF DecisionInv
  <2>2. CommitsInLog'
    BY <1>1, <1>3, CommitsInLogStep DEF DecisionInv
  <2>3. NotDecided'
    BY <1>3, NotDecidedStep DEF DecisionInv
  <2>4. AbortsOfLeader'
    BY <1>1, <1>3, AbortsOfLeaderStep DEF DecisionInv
  <2> QED BY <2>1, <2>2, <2>3, <2>4 DEF DecisionInv
<1>4. CASE UNCHANGED vars
  <2>1. /\ submission' = submission /\ journal' = journal /\ calls' = calls /\ log' = log
        /\ txns' = txns
    BY <1>4 DEF vars
  <2>2. OneOutstanding' /\ CommitsInLog'
    BY <2>1 DEF DecisionInv, OneOutstanding, Outstanding, CommitsInLog, Recorded
  <2>3. NotDecided' /\ AbortsOfLeader'
    BY <2>1 DEF DecisionInv, NotDecided, AbortsOfLeader, Recorded
  <2> QED BY <2>2, <2>3 DEF DecisionInv
<1> QED BY <1>3, <1>4

\* A new system has decided nothing.
LEMMA DecisionInvInit == Init => DecisionInv
<1> SUFFICES ASSUME Init PROVE DecisionInv
  OBVIOUS
<1>1. /\ submission = [n \in Node |-> [t \in TxId |-> Idle]] /\ calls = {} /\ Leader \in Node
      /\ log = [n \in Node |-> <<>>] /\ journal = [n \in Node |-> <<>>]
      /\ txns = [n \in Node |-> NoTransactions]
  BY NodeAssumption DEF Init, NothingSubmitted, LogInit
<1>2. \A n \in Node, t \in TxId : submission[n][t].phase = "idle"
  BY <1>1, IdleIs
<1>3. \A n \in Node : DOMAIN journal[n] = {} /\ Len(journal[n]) = 0
  <2>1. \A n \in Node : journal[n] = <<>>
    BY <1>1
  <2>2. DOMAIN <<>> = {} /\ Len(<<>>) = 0
    BY SMTT(60)
  <2> QED BY <2>1, <2>2
<1>4. \A t \in TxId : txns[Leader][t].state = "UNKNOWN"
  BY <1>1 DEF NoTransactions, Unknown
<1>5. OneOutstanding /\ CommitsInLog
  BY <1>1, <1>3, <1>4 DEF OneOutstanding, CommitsInLog
<1>6. NotDecided
  BY <1>1, <1>2 DEF NotDecided
<1>7. \A n \in Node, t \in TxId : ~Recorded(n, "ABORT", t)
  BY <1>3, SMTT(60) DEF Recorded, RecordIn
<1>8. AbortsOfLeader
  BY <1>1, <1>2, <1>7 DEF AbortsOfLeader
<1> QED BY <1>5, <1>6, <1>8 DEF DecisionInv

\* A decision anywhere is the leader's, and the leader's journal has one for a
\* transaction.
LEMMA OneDecision ==
  ASSUME Led, AbortsOfLeader
  PROVE  DecisionsAgree
<1> SUFFICES ASSUME NEW m \in Node, NEW n \in Node, NEW t \in TxId,
                    Recorded(m, "COMMIT", t), Recorded(n, "ABORT", t)
             PROVE  FALSE
  BY DEF DecisionsAgree
<1>1. Recorded(Leader, "ABORT", t)
  BY DEF AbortsOfLeader
<1>2. Recorded(Leader, "COMMIT", t)
  <2>1. CASE m = Leader
    BY <2>1
  <2>2. CASE m # Leader
    <3>1. InLog(log, Leader, t)
      BY <2>2 DEF Led, CommitsOfLeader
    <3> QED BY <3>1 DEF InLog, Led, CommitsOfLeader
  <2> QED BY <2>1, <2>2
<1>3. PICK j : j = journal[Leader]
  OBVIOUS
<1>4. PICK a \in 1..Len(j) : j[a].type = "ABORT" /\ j[a].txid = t
  BY <1>1, <1>3 DEF Recorded, RecordIn
<1>5. PICK c \in 1..Len(j) : j[c].type = "COMMIT" /\ j[c].txid = t
  BY <1>2, <1>3 DEF Recorded, RecordIn
<1>6. OneVoteOneDecision(j) /\ DOMAIN j = 1..Len(j) /\ Len(j) \in Nat
  BY <1>3, LeaderTypes, SMTT(60)
<1>7. ~(a \in 1..(c - 1)) /\ ~(c \in 1..(a - 1))
  BY <1>4, <1>5, <1>6 DEF OneVoteOneDecision
<1>8. a # c
  BY <1>4, <1>5
<1> QED BY <1>6, <1>7, <1>8, SMTT(60)

\* With one coordinator, no transaction is committed in one journal and aborted in
\* another, whatever replies are lost, late or cut off by crashes and restarts of any
\* node, and whatever PREPARE and COMMIT records cannot be written.  Without the
\* assumption it is false: c4_cluster_submit tells the replicas to abort also when its
\* own ABORT record could not be written, and a commit whose entry could not be written
\* may be submitted again and then be aborted on the replicas.
THEOREM OneCoordinatorDecides ==
  ASSUME WriteErrors \subseteq {"PREPARE", "COMMIT"}
  PROVE  StableSpec => []DecisionsAgree
<1>1. Init => Led /\ DecisionInv
  BY LedInit, DecisionInvInit
<1>2. Led /\ DecisionInv /\ [StableNext]_vars => Led' /\ DecisionInv'
  BY LedStep, DecisionInvStep
<1>3. Led /\ DecisionInv => DecisionsAgree
  BY OneDecision DEF DecisionInv
<1> QED BY <1>1, <1>2, <1>3, PTL DEF StableSpec

=============================================================================
