-------------------------- MODULE C4ElectionProofs --------------------------
(***************************************************************************)
(* Proofs about the election and the state transfer, for any number of     *)
(* Super Peers, terms, transactions, crashes, failed calls and wrong       *)
(* suspicions.                                                             *)
(*                                                                         *)
(* Every step of C4Election is a step of C4Commit or leaves its variables  *)
(* alone, so the theorems of C4CommitProofs hold through every election.   *)
(* For this it must be known that an entry that is on its way, or fetched  *)
(* and not yet appended, is in some log, and that the threads of a node    *)
(* run only while its process does (ElectionInv).                          *)
(*                                                                         *)
(* The second part shows that a follower acknowledges a coordinator only   *)
(* when it has caught up with it.  The cursor of its fetch, and the entry  *)
(* that it has appended and not yet applied, never pass the end of its own *)
(* log (CursorInv).                                                        *)
(***************************************************************************)
EXTENDS C4Election, C4CommitProofs

\* A step that names no prover is for Zenon, which gets up to a minute.
USE ZenonT(60)

----------------------------------------------------------------------------
(* The election and the state transfer *)

\* The entry e is in the log of some node, the logs being L.
Known(L, e) == \E m \in Node : \E i \in DOMAIN L[m] : L[m][i] = e

AllKnown(L, batch) == \A i \in DOMAIN batch : Known(L, batch[i])

\* A tick thread t of n, the logs being L and the states of the nodes S: it runs
\* with its process, and has and sends only entries of logs.
ThreadOK(L, S, n, t) ==
  /\ t \in Thread
  /\ t # Asleep => S[n] = "open"
  /\ AllKnown(L, t.recovery.batch)
  /\ t.phase = "sync" => t.last \in 1..Len(L[n]) /\ (t.call # NoNode => t.next \in 1..(t.last + 1))

HandlerOK(L, S, h) ==
  /\ h \in Handler
  /\ S[h.node] = "open"
  /\ AllKnown(L, h.recovery.batch)

MessageOK(L, r) ==
  /\ r \in Message
  /\ r.type = "M_STATE_TRANSFER" => Known(L, r.entry)

ElectionInv ==
  /\ term \in [Node -> Nat]
  /\ tick \in [Node -> Thread]
  /\ \A n \in Node : ThreadOK(log, status, n, tick[n])
  /\ \A h \in handlers : HandlerOK(log, status, h)
  /\ \A r \in network : MessageOK(log, r)

\* What is in the logs stays there.
LEMMA LogsStay ==
  ASSUME LogTypeOK, [LogNext]_logVars, NEW n \in Node
  PROVE  /\ Len(log[n]) \in Nat /\ Len(log'[n]) \in Nat /\ Len(log[n]) <= Len(log'[n])
         /\ \A i \in DOMAIN log[n] : i \in DOMAIN log'[n] /\ log'[n][i] = log[n][i]
<1>1. log[n] \in Seq(Entry)
  BY SMTT(60) DEF LogTypeOK
<1>2. CASE log'[n] = log[n]
  BY <1>1, <1>2, SMTT(60)
<1>3. ASSUME NEW e \in Entry, log'[n] = Append(log[n], e)
      PROVE  /\ Len(log[n]) \in Nat /\ Len(log'[n]) \in Nat /\ Len(log[n]) <= Len(log'[n])
             /\ \A i \in DOMAIN log[n] : i \in DOMAIN log'[n] /\ log'[n][i] = log[n][i]
  BY <1>1, <1>3, SMTT(60)
<1> QED BY <1>2, <1>3, LogStep

\* An entry that is in some log stays there.
LEMMA KnownStays ==
  ASSUME LogTypeOK, [LogNext]_logVars, NEW e, Known(log, e)
  PROVE  Known(log', e)
<1>1. PICK m \in Node : \E i \in DOMAIN log[m] : log[m][i] = e
  BY DEF Known
<1>2. PICK i \in DOMAIN log[m] : log[m][i] = e
  BY <1>1
<1>3. i \in DOMAIN log'[m] /\ log'[m][i] = log[m][i]
  BY LogsStay
<1> QED BY <1>2, <1>3 DEF Known

\* So do the entries of a batch.
LEMMA AllKnownStays ==
  ASSUME LogTypeOK, [LogNext]_logVars, NEW batch, AllKnown(log, batch)
  PROVE  AllKnown(log', batch)
BY KnownStays DEF AllKnown

\* A step that leaves n running keeps what is known of its thread.
LEMMA ThreadStays ==
  ASSUME LogTypeOK, [LogNext]_logVars, NEW n \in Node, NEW t, ThreadOK(log, status, n, t),
         t # Asleep => status'[n] = "open"
  PROVE  ThreadOK(log', status', n, t)
<1>1. t \in Thread /\ t.last \in Nat /\ AllKnown(log', t.recovery.batch)
  BY AllKnownStays DEF ThreadOK, Thread
<1>2. t.phase = "sync" => t.last \in 1..Len(log'[n]) /\ (t.call # NoNode => t.next \in 1..(t.last + 1))
  <2>1. t.phase = "sync" => t.last \in 1..Len(log[n]) /\ (t.call # NoNode => t.next \in 1..(t.last + 1))
    BY DEF ThreadOK
  <2>2. Len(log[n]) \in Nat /\ Len(log'[n]) \in Nat /\ Len(log[n]) <= Len(log'[n])
    BY LogsStay
  <2> QED BY <1>1, <2>1, <2>2, SMTT(60)
<1> QED BY <1>1, <1>2 DEF ThreadOK

\* A thread that moves, the others going on as before.
LEMMA TickMoves ==
  ASSUME LogTypeOK, [LogNext]_logVars, ElectionInv, NEW n \in Node, NEW x,
         tick' = [tick EXCEPT ![n] = x], ThreadOK(log', status', n, x),
         \A m \in Node \ {n} : status[m] = "open" => status'[m] = "open"
  PROVE  tick' \in [Node -> Thread] /\ \A m \in Node : ThreadOK(log', status', m, tick'[m])
<1>1. tick \in [Node -> Thread] /\ x \in Thread
  BY DEF ElectionInv, ThreadOK
<1>2. tick' \in [Node -> Thread] /\ tick'[n] = x /\ \A m \in Node \ {n} : tick'[m] = tick[m]
  BY <1>1
<1>3. ASSUME NEW m \in Node \ {n} PROVE ThreadOK(log', status', m, tick'[m])
  <2>1. ThreadOK(log, status, m, tick[m])
    BY DEF ElectionInv
  <2>2. tick[m] # Asleep => status'[m] = "open"
    BY <2>1 DEF ThreadOK
  <2>3. ThreadOK(log', status', m, tick[m])
    BY <2>1, <2>2, ThreadStays
  <2> QED BY <1>2, <2>3
<1> QED BY <1>2, <1>3

\* A step after which all that run still run keeps the invariant when the thread
\* that moved, new handlers and new messages are as it says.
LEMMA InvMoves ==
  ASSUME LogTypeOK, [LogNext]_logVars, ElectionInv, NEW n \in Node, NEW x,
         tick' = [tick EXCEPT ![n] = x], ThreadOK(log', status', n, x),
         \A m \in Node : status[m] = "open" => status'[m] = "open",
         term' \in [Node -> Nat],
         \A h \in handlers' : h \in handlers \/ HandlerOK(log', status', h),
         \A r \in network' : r \in network \/ MessageOK(log', r)
  PROVE  ElectionInv'
<1>1. tick' \in [Node -> Thread] /\ \A m \in Node : ThreadOK(log', status', m, tick'[m])
  BY TickMoves
<1>2. ASSUME NEW h \in handlers' PROVE HandlerOK(log', status', h)
  <2>1. CASE h \in handlers
    <3>1. HandlerOK(log, status, h)
      BY <2>1 DEF ElectionInv
    <3>2. h \in Handler /\ h.node \in Node /\ status[h.node] = "open"
      BY <3>1 DEF HandlerOK, Handler
    <3>3. AllKnown(log', h.recovery.batch)
      BY <3>1, AllKnownStays DEF HandlerOK
    <3> QED BY <3>2, <3>3 DEF HandlerOK
  <2> QED BY <2>1
<1>3. ASSUME NEW r \in network' PROVE MessageOK(log', r)
  <2>1. CASE r \in network
    <3>1. MessageOK(log, r)
      BY <2>1 DEF ElectionInv
    <3>2. r.type = "M_STATE_TRANSFER" => Known(log', r.entry)
      BY <3>1, KnownStays DEF MessageOK
    <3> QED BY <3>1, <3>2 DEF MessageOK
  <2> QED BY <2>1
<1> QED BY <1>1, <1>2, <1>3 DEF ElectionInv

\* The same for a step in which no tick thread moves.
LEMMA InvStays ==
  ASSUME LogTypeOK, [LogNext]_logVars, ElectionInv, tick' = tick,
         \A m \in Node : status[m] = "open" => status'[m] = "open",
         term' \in [Node -> Nat],
         \A h \in handlers' : h \in handlers \/ HandlerOK(log', status', h),
         \A r \in network' : r \in network \/ MessageOK(log', r)
  PROVE  ElectionInv'
<1>1. CASE Node = {}
  <2>1. tick' \in [Node -> Thread] /\ \A m \in Node : ThreadOK(log', status', m, tick'[m])
    BY <1>1 DEF ElectionInv
  <2>2. FALSE
    BY <1>1, NodeAssumption
  <2> QED BY <2>2
<1>2. ASSUME NEW n \in Node PROVE ElectionInv'
  <2>1. tick' = [tick EXCEPT ![n] = tick[n]]
    BY DEF ElectionInv
  <2>2. ThreadOK(log, status, n, tick[n])
    BY DEF ElectionInv
  <2>3. tick[n] # Asleep => status'[n] = "open"
    BY <2>2 DEF ThreadOK
  <2>4. ThreadOK(log', status', n, tick[n])
    BY <2>2, <2>3, ThreadStays
  <2> QED BY <2>1, <2>4, InvMoves
<1> QED BY <1>1, <1>2

\* The fields of a thread.
LEMMA ThreadFields ==
  ASSUME NEW t \in Thread
  PROVE  /\ t.phase \in {"idle", "elect", "recover", "announce", "sync"}
         /\ t.members \in SUBSET Node /\ t.todo \in SUBSET Node
         /\ t.call \in Node \cup {NoNode} /\ t.higher \in BOOLEAN
         /\ t.term \in Nat /\ t.next \in Nat /\ t.last \in Nat /\ t.recovery \in Recovery
BY DEF Thread

\* A thread that is not in c4_recover_from_member.
LEMMA NoRecoveryIs ==
  /\ NoRecovery \in Recovery
  /\ AllKnown(log', NoRecovery.batch) /\ AllKnown(log, NoRecovery.batch)
BY SMTT(60) DEF NoRecovery, Recovery, AllKnown

\* It has fetched nothing, and from nobody.
LEMMA NoRecoveryFields == NoRecovery.from = NoNode /\ NoRecovery.batch = <<>>
BY DEF NoRecovery

\* A thread between two ticks.
LEMMA AsleepIs == Asleep \in Thread /\ Asleep.phase = "idle" /\ Asleep.recovery = NoRecovery
BY NoRecoveryIs, SMTT(60) DEF Asleep, Thread

\* It may sleep also when its process ends.
LEMMA AsleepOK ==
  ASSUME NEW n \in Node
  PROVE  ThreadOK(log, status, n, Asleep) /\ ThreadOK(log', status', n, Asleep)
BY AsleepIs, NoRecoveryIs DEF ThreadOK

\* Passing the empty loops.
LEMMA GotoIs ==
  ASSUME NEW n \in Node, NEW t \in Thread
  PROVE  \/ Goto(n, t) = t \/ Goto(n, t) = Asleep
         \/ t.phase = "elect" /\ Goto(n, t) = [t EXCEPT !.phase = "recover", !.todo = t.members]
         \/ /\ t.call = NoNode /\ log[n] # <<>>
            /\ Goto(n, t) = [t EXCEPT !.phase = "sync", !.todo = t.members, !.last = LastIndex(n)]
BY DEF Goto

\* They keep what is known of the thread.
LEMMA GotoOK ==
  ASSUME LogTypeOK, NEW n \in Node, NEW t \in Thread, status[n] = "open",
         AllKnown(log, t.recovery.batch),
         t.phase = "sync" => t.last \in 1..Len(log[n]) /\ (t.call # NoNode => t.next \in 1..(t.last + 1))
  PROVE  ThreadOK(log, status, n, Goto(n, t))
<1>1. CASE Goto(n, t) = t
  BY <1>1 DEF ThreadOK
<1>2. CASE Goto(n, t) = Asleep
  BY <1>2, AsleepOK
<1>3. ASSUME NEW x, x = [t EXCEPT !.phase = "recover", !.todo = t.members]
      PROVE  ThreadOK(log, status, n, x)
  <2>1. t.members \in SUBSET Node
    BY ThreadFields
  <2>2. x \in Thread /\ x.phase = "recover" /\ x.recovery = t.recovery
    BY <1>3, <2>1 DEF Thread
  <2> QED BY <2>2 DEF ThreadOK
<1>4. ASSUME NEW x, t.call = NoNode, log[n] # <<>>,
             x = [t EXCEPT !.phase = "sync", !.todo = t.members, !.last = LastIndex(n)]
      PROVE  ThreadOK(log, status, n, x)
  <2>1. t.members \in SUBSET Node
    BY ThreadFields
  <2>2. LastIndex(n) = Len(log[n]) /\ Len(log[n]) \in Nat /\ Len(log[n]) \in 1..Len(log[n])
    BY <1>4, SMTT(60) DEF LogTypeOK, LastIndex
  <2>3. /\ x \in Thread /\ x.phase = "sync" /\ x.recovery = t.recovery /\ x.call = NoNode
        /\ x.last = Len(log[n])
    BY <1>4, <2>1, <2>2 DEF Thread
  <2> QED BY <2>2, <2>3 DEF ThreadOK
<1> QED BY <1>1, <1>2, <1>3, <1>4, GotoIs

\* A thread that is at work.
LEMMA AtWork ==
  ASSUME ElectionInv, NEW n \in Node,
         tick[n].phase # "idle" \/ tick[n].recovery # NoRecovery
  PROVE  /\ tick[n] \in Thread /\ status[n] = "open" /\ AllKnown(log, tick[n].recovery.batch)
         /\ tick[n].phase = "sync" =>
               tick[n].last \in 1..Len(log[n]) /\ (tick[n].call # NoNode => tick[n].next \in 1..(tick[n].last + 1))
BY AsleepIs DEF ElectionInv, ThreadOK

\* A running node takes another one for the coordinator, or none.
LEMMA NewLeader ==
  ASSUME AliveInv, NEW n \in Node, status[n] = "open", NEW m \in Node \cup {NoNode},
         leader' = [leader EXCEPT ![n] = m], UNCHANGED <<logVars, alive, directory, commitVars>>
  PROVE  CommitNext
<1>1. alive[n] \in SUBSET (Node \ {n}) /\ alive' = [alive EXCEPT ![n] = alive[n]]
  BY DEF AliveInv
<1>2. Upheaval(n)
  BY <1>1 DEF Upheaval
<1> QED BY <1>2 DEF CommitNext

\* A running node takes fewer or more others for alive.
LEMMA NewMembers ==
  ASSUME AliveInv, NEW n \in Node, status[n] = "open", NEW S \in SUBSET (Node \ {n}),
         alive' = [alive EXCEPT ![n] = S], UNCHANGED <<logVars, leader, directory, commitVars>>
  PROVE  CommitNext
<1>1. leader[n] \in Node \cup {NoNode} /\ leader' = [leader EXCEPT ![n] = leader[n]]
  BY DEF AliveInv
<1>2. Upheaval(n)
  BY <1>1 DEF Upheaval
<1> QED BY <1>2 DEF CommitNext

\* An entry of a log is appended by a running node.
LEMMA AppendsKnown ==
  ASSUME NEW n \in Node, status[n] = "open", NEW e, Known(log, e), AppendReceived(n, e)
  PROVE  CommitNext /\ status' = status
<1>1. PICK m \in Node : \E i \in DOMAIN log[m] : log[m][i] = e
  BY DEF Known
<1>2. Transfer(n, m)
  BY <1>1 DEF Transfer, AppendReceived
<1>3. status' = status
  BY DEF AppendReceived, AppendEntry, logVars
<1> QED BY <1>2, <1>3 DEF CommitNext

\* Steps that leave the commit protocol alone are stuttering steps of it.
LEMMA Unmoved ==
  ASSUME UNCHANGED vars
  PROVE  [CommitNext]_vars /\ [LogNext]_logVars /\ log' = log /\ status' = status
BY DEF vars, logVars

\* The thread of n moves, and sends what the invariant allows.
LEMMA QuietMove ==
  ASSUME LogTypeOK, ElectionInv, NEW n \in Node, NEW x, ThreadOK(log, status, n, x),
         tick' = [tick EXCEPT ![n] = x], UNCHANGED <<vars, term, handlers>>,
         \A r \in network' : r \in network \/ MessageOK(log, r)
  PROVE  [CommitNext]_vars /\ ElectionInv'
<1>1. [CommitNext]_vars /\ [LogNext]_logVars /\ log' = log /\ status' = status
  BY Unmoved
<1>2. term' \in [Node -> Nat] /\ handlers' = handlers
  BY DEF ElectionInv
<1>3. ThreadOK(log', status', n, x)
  BY <1>1
<1>4. \A r \in network' : r \in network \/ MessageOK(log', r)
  BY <1>1
<1>5. ElectionInv'
  BY <1>1, <1>2, <1>3, <1>4, InvMoves
<1> QED BY <1>1, <1>5

\* The same for a thread that goes through empty loops.
LEMMA QuietContinue ==
  ASSUME LogTypeOK, ElectionInv, NEW n \in Node, NEW t \in Thread, status[n] = "open",
         AllKnown(log, t.recovery.batch),
         t.phase = "sync" => t.last \in 1..Len(log[n]) /\ (t.call # NoNode => t.next \in 1..(t.last + 1)),
         Continue(n, t), UNCHANGED <<vars, term, handlers>>,
         \A r \in network' : r \in network \/ MessageOK(log, r)
  PROVE  [CommitNext]_vars /\ ElectionInv'
<1>1. ThreadOK(log, status, n, Goto(n, t))
  BY GotoOK
<1>2. tick' = [tick EXCEPT ![n] = Goto(n, t)]
  BY DEF Continue
<1> QED BY <1>1, <1>2, QuietMove

\* A step in which a running node changes its coordinator, and its thread goes on.
LEMMA LeaderMove ==
  ASSUME TypeOK, EntryIsRead, AliveInv, ElectionInv, NEW n \in Node, status[n] = "open",
         NEW m \in Node \cup {NoNode}, leader' = [leader EXCEPT ![n] = m],
         UNCHANGED <<logVars, alive, directory, commitVars>>,
         NEW x, tick' = [tick EXCEPT ![n] = x], ThreadOK(log, status, n, x),
         term' \in [Node -> Nat], handlers' = handlers, network' = network
  PROVE  [CommitNext]_vars /\ ElectionInv'
<1>1. CommitNext
  BY NewLeader
<1>2. [LogNext]_logVars /\ log' = log /\ status' = status /\ LogTypeOK
  BY DEF logVars, TypeOK
<1>3. ThreadOK(log', status', n, x)
  BY <1>2
<1>4. ElectionInv'
  BY <1>2, <1>3, InvMoves
<1> QED BY <1>1, <1>4

\* The start of c4_cluster_tick: a lost coordinator is forgotten.
LEMMA TickStep ==
  ASSUME TypeOK, EntryIsRead, AliveInv, ElectionInv, NEW n \in Node, NEW expired, Tick(n, expired)
  PROVE  [CommitNext]_vars /\ ElectionInv'
<1> DEFINE t == [Asleep EXCEPT !.phase = "elect", !.members = alive[n],
                               !.todo = Higher(n, alive[n])]
<1>1. LogTypeOK /\ status[n] = "open"
  BY DEF TypeOK, Tick, Running
<1>2. alive[n] \in SUBSET Node /\ Higher(n, alive[n]) \in SUBSET Node
  BY DEF AliveInv, Higher
<1>3. t \in Thread /\ t.phase = "elect" /\ t.recovery = NoRecovery
  BY <1>2, AsleepIs DEF Thread
<1>4. Continue(n, t) /\ UNCHANGED <<logVars, alive, directory, commitVars, term, handlers, network>>
  BY DEF Tick
<1> HIDE DEF t
<1>5. AllKnown(log, t.recovery.batch)
  BY <1>3, NoRecoveryIs
<1>6. CASE LeaderLost(n)
  <2>1. leader' = [leader EXCEPT ![n] = NoNode]
    BY <1>6 DEF Tick
  <2>2. ThreadOK(log, status, n, Goto(n, t))
    BY <1>1, <1>3, <1>5, GotoOK
  <2>3. tick' = [tick EXCEPT ![n] = Goto(n, t)] /\ term' \in [Node -> Nat]
    BY <1>4 DEF Continue, ElectionInv
  <2> QED BY <1>1, <1>4, <2>1, <2>2, <2>3, LeaderMove
<1>7. CASE ~LeaderLost(n)
  <2>1. UNCHANGED <<vars, term, handlers>> /\ network' = network
    BY <1>4, <1>7 DEF Tick, vars, logVars, commitVars
  <2> QED BY <1>1, <1>3, <1>4, <1>5, <2>1, QuietContinue
<1> QED BY <1>6, <1>7

\* The calls of an election.
LEMMA ElectStep ==
  ASSUME TypeOK, ElectionInv, NEW n \in Node, NEW m \in Node,
         CallElection(n, m) \/ ElectionFails(n, m) \/ AwaitCoordinator(n)
  PROVE  [CommitNext]_vars /\ ElectionInv'
<1>1. /\ LogTypeOK /\ tick[n].phase = "elect" /\ tick[n].phase # "idle"
      /\ UNCHANGED <<vars, term, handlers>>
  BY DEF TypeOK, CallElection, ElectionFails, AwaitCoordinator
<1>2. tick[n] \in Thread /\ status[n] = "open" /\ AllKnown(log, tick[n].recovery.batch)
  BY <1>1, AtWork
<1>3. tick[n].todo \ {m} \in SUBSET Node
  BY <1>2, ThreadFields
<1>4. CASE CallElection(n, m)
  <2> DEFINE t == [tick[n] EXCEPT !.todo = @ \ {m}, !.higher = TRUE]
  <2>1. t \in Thread /\ t.phase = "elect" /\ t.recovery = tick[n].recovery
    BY <1>1, <1>2, <1>3 DEF Thread
  <2>2. Continue(n, t) /\ network' = network
    BY <1>4 DEF CallElection
  <2> HIDE DEF t
  <2> QED BY <1>1, <1>2, <2>1, <2>2, QuietContinue
<1>5. CASE ElectionFails(n, m)
  <2> DEFINE t == [tick[n] EXCEPT !.todo = @ \ {m}]
  <2>1. t \in Thread /\ t.phase = "elect" /\ t.recovery = tick[n].recovery
    BY <1>1, <1>2, <1>3 DEF Thread
  <2>2. Continue(n, t) /\ network' \subseteq network \cup {Election(n, m)}
    BY <1>5 DEF ElectionFails
  <2>3. MessageOK(log, Election(n, m))
    BY DEF MessageOK, Message, Election
  <2>4. \A r \in network' : r \in network \/ MessageOK(log, r)
    BY <2>2, <2>3
  <2> HIDE DEF t
  <2> QED BY <1>1, <1>2, <2>1, <2>2, <2>4, QuietContinue
<1>6. CASE AwaitCoordinator(n)
  <2>1. tick' = [tick EXCEPT ![n] = Asleep] /\ network' = network
    BY <1>6 DEF AwaitCoordinator
  <2> QED BY <1>1, <2>1, AsleepOK, QuietMove
<1> QED BY <1>4, <1>5, <1>6

\* The entries that a member answers are of its log.
LEMMA BatchesKnown ==
  ASSUME LogTypeOK, NEW m \in Node, NEW k \in Nat, k <= LastIndex(m), NEW batch \in Batches(m, k)
  PROVE  batch \in Seq(Entry) /\ AllKnown(log, batch)
<1>1. log[m] \in Seq(Entry)
  BY SMTT(60) DEF LogTypeOK
<1>2. CASE batch = <<>>
  BY <1>2, SMTT(60) DEF AllKnown
<1>3. ASSUME NEW j \in (k + 1)..LastIndex(m), batch = SubSeq(log[m], k + 1, j)
      PROVE  batch \in Seq(Entry) /\ AllKnown(log, batch)
  <2>1. batch \in Seq(Entry) /\ \A i \in DOMAIN batch : k + i \in DOMAIN log[m] /\ batch[i] = log[m][k + i]
    BY <1>1, <1>3, SMTT(60) DEF LastIndex
  <2> QED BY <2>1 DEF AllKnown, Known
<1> QED BY <1>2, <1>3 DEF Batches

\* The fields of a recovery.
LEMMA RecoveryFields ==
  ASSUME NEW r \in Recovery
  PROVE  /\ r.from \in Node \cup {NoNode} /\ r.cursor \in Nat /\ r.batch \in Seq(Entry)
         /\ r.logged \in BOOLEAN
BY DEF Recovery

\* A recovery that starts has fetched nothing.
LEMMA RecoverIs ==
  ASSUME LogTypeOK, NEW n \in Node, NEW m \in Node
  PROVE  /\ Recover(n, m) \in Recovery /\ AllKnown(log, Recover(n, m).batch)
         /\ Recover(n, m).cursor = LastIndex(n) /\ Recover(n, m).batch = <<>>
         /\ Recover(n, m).logged = FALSE
<1>1. LastIndex(n) \in Nat
  BY SMTT(60) DEF LogTypeOK, LastIndex
<1>2. <<>> \in Seq(Entry) /\ AllKnown(log, <<>>)
  BY SMTT(60) DEF AllKnown
<1> QED BY <1>1, <1>2 DEF Recover, NoRecovery, Recovery

\* A recovery that has got its batch.
LEMMA BatchIs ==
  ASSUME NEW r \in Recovery, NEW batch \in Seq(Entry), NEW x, x = [r EXCEPT !.batch = batch]
  PROVE  /\ x \in Recovery /\ x.batch = batch /\ x.from = r.from /\ x.cursor = r.cursor
         /\ x.logged = r.logged
BY DEF Recovery

\* A recovery that has appended the first entry of its batch.
LEMMA LoggedIs ==
  ASSUME NEW r \in Recovery, NEW x, x = [r EXCEPT !.logged = TRUE]
  PROVE  x \in Recovery /\ x.batch = r.batch /\ x.cursor = r.cursor
BY DEF Recovery

\* The first entry of a batch.
LEMMA FirstIs ==
  ASSUME NEW r \in Recovery, r.batch # <<>>
  PROVE  Head(r.batch) \in Entry /\ Head(r.batch).index \in Nat
<1>1. r.batch \in Seq(Entry)
  BY RecoveryFields
<1>2. Head(r.batch) \in Entry
  BY <1>1, SMTT(60)
<1> QED BY <1>2, IndexAssumption DEF Entry

\* A recovery that has applied the first entry of its batch.
LEMMA AdvancedIs ==
  ASSUME NEW r \in Recovery, r.batch # <<>>, AllKnown(log, r.batch)
  PROVE  /\ Advanced(r) \in Recovery /\ AllKnown(log, Advanced(r).batch)
         /\ Known(log, Head(r.batch)) /\ Head(r.batch) \in Entry
         /\ Advanced(r).cursor = Head(r.batch).index /\ Advanced(r).logged = FALSE
<1> DEFINE b == r.batch
<1>1. b \in Seq(Entry) /\ b # <<>>
  BY RecoveryFields
<1> HIDE DEF b
<1>2. /\ Head(b) \in Entry /\ Tail(b) \in Seq(Entry) /\ Head(b) = b[1] /\ 1 \in DOMAIN b
      /\ \A i \in DOMAIN Tail(b) : i + 1 \in DOMAIN b /\ Tail(b)[i] = b[i + 1]
  BY <1>1, SMTT(60)
<1>3. AllKnown(log, b)
  BY DEF b
<1>4. Known(log, Head(b)) /\ AllKnown(log, Tail(b))
  BY <1>2, <1>3 DEF AllKnown
<1>5. Head(b).index \in Nat
  BY <1>2, IndexAssumption DEF Entry
<1>6. Advanced(r) = [r EXCEPT !.cursor = Head(b).index, !.batch = Tail(b), !.logged = FALSE]
  BY DEF Advanced, b
<1>7. /\ Advanced(r) \in Recovery /\ Advanced(r).batch = Tail(b) /\ Advanced(r).cursor = Head(b).index
      /\ Advanced(r).logged = FALSE
  BY <1>2, <1>5, <1>6 DEF Recovery
<1>8. r.batch = b
  BY DEF b
<1> QED BY <1>2, <1>4, <1>7, <1>8

\* A thread with another recovery.
LEMMA WithRecovery ==
  ASSUME NEW n \in Node, NEW t, NEW L, NEW S, ThreadOK(L, S, n, t), S[n] = "open",
         NEW r \in Recovery, AllKnown(L, r.batch), NEW x, x = [t EXCEPT !.recovery = r]
  PROVE  ThreadOK(L, S, n, x)
<1>1. /\ x \in Thread /\ x.phase = t.phase /\ x.recovery = r
      /\ x.last = t.last /\ x.call = t.call /\ x.next = t.next
  BY DEF Thread, ThreadOK
<1> QED BY <1>1 DEF ThreadOK

\* A suspended election.
LEMMA SuspendStep ==
  ASSUME LogTypeOK, ElectionInv, NEW n \in Node, Suspend(n)
  PROVE  [CommitNext]_vars /\ ElectionInv'
<1>1. tick' = [tick EXCEPT ![n] = Asleep] /\ UNCHANGED <<vars, term, handlers>> /\ network' = network
  BY DEF Suspend
<1> QED BY <1>1, AsleepOK, QuietMove

\* A recovery that starts, gets a batch or ends.
LEMMA RecoveryMove ==
  ASSUME LogTypeOK, ElectionInv, NEW n \in Node, status[n] = "open",
         NEW r \in Recovery, AllKnown(log, r.batch), NEW S \in SUBSET Node,
         tick' = [tick EXCEPT ![n] = [tick[n] EXCEPT !.todo = S, !.recovery = r]],
         UNCHANGED <<vars, term, handlers, network>>
  PROVE  [CommitNext]_vars /\ ElectionInv'
<1> DEFINE x == [tick[n] EXCEPT !.todo = S, !.recovery = r]
<1>1. ThreadOK(log, status, n, tick[n])
  BY DEF ElectionInv
<1>2. /\ x \in Thread /\ x.phase = tick[n].phase /\ x.recovery = r
      /\ x.last = tick[n].last /\ x.call = tick[n].call /\ x.next = tick[n].next
  BY <1>1 DEF Thread, ThreadOK
<1>3. tick' = [tick EXCEPT ![n] = x]
  OBVIOUS
<1> HIDE DEF x
<1>4. ThreadOK(log, status, n, x)
  BY <1>1, <1>2 DEF ThreadOK
<1>5. UNCHANGED <<vars, term, handlers>> /\ network' = network
  OBVIOUS
<1> QED BY <1>3, <1>4, <1>5, QuietMove

\* The same when the loop over the members does not move.
LEMMA RecoverySet ==
  ASSUME LogTypeOK, ElectionInv, NEW n \in Node, tick[n] \in Thread, status[n] = "open",
         NEW x \in Recovery, AllKnown(log, x.batch), tick' = [tick EXCEPT ![n].recovery = x],
         UNCHANGED <<vars, term, handlers, network>>
  PROVE  [CommitNext]_vars /\ ElectionInv'
<1>1. tick \in [Node -> Thread] /\ tick[n].todo \in SUBSET Node
  BY ThreadFields DEF ElectionInv
<1>2. tick' = [tick EXCEPT ![n] = [tick[n] EXCEPT !.recovery = x]]
  BY <1>1
<1>3. [tick[n] EXCEPT !.recovery = x] = [tick[n] EXCEPT !.todo = tick[n].todo, !.recovery = x]
  BY DEF Thread
<1>4. tick' = [tick EXCEPT ![n] = [tick[n] EXCEPT !.todo = tick[n].todo, !.recovery = x]]
  BY <1>2, <1>3
<1> QED BY <1>1, <1>4, RecoveryMove

\* A member that is passed over.
LEMMA PassOverStep ==
  ASSUME LogTypeOK, ElectionInv, NEW n \in Node, tick[n] \in Thread, status[n] = "open", PassOver(n)
  PROVE  [CommitNext]_vars /\ ElectionInv'
<1>1. NoRecovery \in Recovery /\ AllKnown(log, NoRecovery.batch)
  BY NoRecoveryIs
<1>2. tick' = [tick EXCEPT ![n].recovery = NoRecovery] /\ UNCHANGED <<vars, term, handlers, network>>
  BY DEF PassOver
<1> QED BY <1>1, <1>2, RecoverySet

\* The loop over the members that are asked for their logs.
LEMMA RecoverFromStep ==
  ASSUME LogTypeOK, ElectionInv, NEW n \in Node, NEW m \in Node, RecoverFrom(n, m)
  PROVE  [CommitNext]_vars /\ ElectionInv'
<1>1. /\ tick[n].phase # "idle"
      /\ tick' = [tick EXCEPT ![n].todo = @ \ {m}, ![n].recovery = Recover(n, m)]
      /\ UNCHANGED <<vars, term, handlers, network>>
  BY DEF RecoverFrom
<1>2. tick[n] \in Thread /\ status[n] = "open" /\ tick \in [Node -> Thread]
  BY <1>1, AtWork DEF ElectionInv
<1>3. tick[n].todo \ {m} \in SUBSET Node
  BY <1>2, ThreadFields
<1>4. tick' = [tick EXCEPT ![n] = [tick[n] EXCEPT !.todo = tick[n].todo \ {m}, !.recovery = Recover(n, m)]]
  BY <1>1, <1>2
<1>5. Recover(n, m) \in Recovery /\ AllKnown(log, Recover(n, m).batch)
  BY RecoverIs
<1> QED BY <1>1, <1>2, <1>3, <1>4, <1>5, RecoveryMove

\* The answers to M_IST_REQUEST, in the thread of the tick.
LEMMA FetchStep ==
  ASSUME LogTypeOK, ElectionInv, NEW n \in Node, FetchBatch(n) \/ FetchFails(n)
  PROVE  [CommitNext]_vars /\ ElectionInv'
<1> DEFINE r == tick[n].recovery
<1>1. r.from # NoNode
  BY DEF FetchBatch, FetchFails
<1>2. r # NoRecovery
  BY <1>1, NoRecoveryFields
<1>3. tick[n] \in Thread /\ status[n] = "open"
  BY <1>2, AtWork
<1>4. r \in Recovery /\ r.from \in Node /\ r.cursor \in Nat /\ tick[n].todo \in SUBSET Node
  <2>1. r \in Recovery /\ tick[n].todo \in SUBSET Node
    BY <1>3, ThreadFields
  <2> HIDE DEF r
  <2>2. r.from \in Node \cup {NoNode} /\ r.cursor \in Nat
    BY <2>1, RecoveryFields
  <2> QED BY <1>1, <2>1, <2>2
<1>5. ASSUME NEW x \in Recovery, AllKnown(log, x.batch), tick' = [tick EXCEPT ![n].recovery = x],
             UNCHANGED <<vars, term, handlers, network>>
      PROVE  [CommitNext]_vars /\ ElectionInv'
  BY <1>3, <1>5, RecoverySet
<1>6. NoRecovery \in Recovery /\ AllKnown(log, NoRecovery.batch)
  BY NoRecoveryIs
<1>7. CASE FetchBatch(n)
  <2>1. PICK batch \in Batches(r.from, r.cursor) :
           IF Repeats(n, batch) THEN Suspend(n) /\ UNCHANGED mishaps
           ELSE /\ tick' = [tick EXCEPT ![n].recovery =
                              IF batch = <<>> THEN NoRecovery ELSE [r EXCEPT !.batch = batch]]
                /\ UNCHANGED <<vars, term, requested, waiting, handlers, network, unsynced, mishaps>>
    BY <1>7 DEF FetchBatch
  <2>2. r.cursor <= LastIndex(r.from)
    BY <1>7 DEF FetchBatch, Serves
  <2>3. batch \in Seq(Entry) /\ AllKnown(log, batch)
    BY <1>4, <2>2, BatchesKnown
  <2> DEFINE x == IF batch = <<>> THEN NoRecovery ELSE [r EXCEPT !.batch = batch]
  <2>4. x \in Recovery /\ AllKnown(log, x.batch)
    <3>1. CASE batch = <<>>
      BY <1>6, <3>1
    <3>2. CASE batch # <<>>
      <4> DEFINE y == [r EXCEPT !.batch = batch]
      <4>1. y \in Recovery /\ y.batch = batch
        BY <1>4, <2>3, BatchIs
      <4>2. x = y
        BY <3>2
      <4> QED BY <2>3, <4>1, <4>2
    <3> QED BY <3>1, <3>2
  <2>5. CASE Repeats(n, batch)
    BY <2>1, <2>5, SuspendStep
  <2>6. CASE ~Repeats(n, batch)
    <3>1. tick' = [tick EXCEPT ![n].recovery = x] /\ UNCHANGED <<vars, term, handlers, network>>
      BY <2>1, <2>6
    <3> HIDE DEF x
    <3> QED BY <1>5, <2>4, <3>1
  <2> QED BY <2>5, <2>6
<1>8. CASE FetchFails(n)
  <2>1. CASE Suspend(n)
    BY <2>1, SuspendStep
  <2>2. CASE PassOver(n)
    BY <1>3, <2>2, PassOverStep
  <2> QED BY <1>8, <2>1, <2>2 DEF FetchFails
<1> QED BY <1>7, <1>8

\* An entry that was fetched is appended and applied by the thread of the tick.
LEMMA AppendFetchedStep ==
  ASSUME TypeOK, EntryIsRead, ElectionInv, NEW n \in Node, AppendFetched(n) \/ ApplyFetched(n)
  PROVE  [CommitNext]_vars /\ ElectionInv'
<1> DEFINE r == tick[n].recovery
<1>1. r.batch # <<>> /\ LogTypeOK
  BY DEF AppendFetched, ApplyFetched, TypeOK
<1>2. r # NoRecovery
  BY <1>1, NoRecoveryFields
<1>3. /\ tick[n] \in Thread /\ status[n] = "open" /\ AllKnown(log, r.batch) /\ r \in Recovery
      /\ ThreadOK(log, status, n, tick[n]) /\ tick \in [Node -> Thread]
  <2>1. tick[n] \in Thread /\ status[n] = "open" /\ AllKnown(log, r.batch)
    BY <1>2, AtWork
  <2>2. r \in Recovery
    BY <2>1, ThreadFields
  <2> QED BY <2>1, <2>2 DEF ElectionInv
<1>4. CASE Suspend(n)
  BY <1>1, <1>4, SuspendStep
<1>5. CASE PassOver(n)
  BY <1>1, <1>3, <1>5, PassOverStep
<1>6. /\ Advanced(r) \in Recovery /\ AllKnown(log, Advanced(r).batch)
      /\ Known(log, Head(r.batch))
  BY <1>1, <1>3, AdvancedIs
<1>7. CASE ApplyFetched(n) /\ ~Suspend(n) /\ ~PassOver(n)
  <2>1. tick' = [tick EXCEPT ![n].recovery = Advanced(r)] /\ UNCHANGED <<vars, term, handlers, network>>
    BY <1>7 DEF ApplyFetched
  <2> QED BY <1>1, <1>3, <1>6, <2>1, RecoverySet
<1>8. CASE AppendFetched(n) /\ ~Suspend(n) /\ ~PassOver(n)
  <2> DEFINE q == [r EXCEPT !.logged = TRUE]
             x == [tick[n] EXCEPT !.recovery = q]
  <2>1. /\ AppendReceived(n, Head(r.batch)) /\ tick' = [tick EXCEPT ![n].recovery.logged = TRUE]
        /\ UNCHANGED <<term, handlers, network>>
    BY <1>8 DEF AppendFetched
  <2>2. q \in Recovery /\ q.batch = r.batch
    BY <1>3, LoggedIs
  <2>3. CommitNext /\ status' = status
    BY <1>3, <1>6, <2>1, AppendsKnown
  <2>4. [LogNext]_logVars
    BY <2>3, CommitTypeStep
  <2>5. tick' = [tick EXCEPT ![n] = x]
    BY <1>3, <2>1
  <2>6. ThreadOK(log', status', n, tick[n])
    BY <1>1, <1>3, <2>3, <2>4, ThreadStays
  <2>7. AllKnown(log', q.batch)
    BY <1>1, <1>3, <2>2, <2>4, AllKnownStays
  <2> HIDE DEF r, q
  <2>8. ThreadOK(log', status', n, x)
    BY <1>3, <2>2, <2>3, <2>6, <2>7, WithRecovery
  <2> HIDE DEF x
  <2>9. term' \in [Node -> Nat] /\ handlers' = handlers /\ network' = network
    BY <2>1 DEF ElectionInv
  <2>10. ElectionInv'
    BY <1>1, <2>3, <2>4, <2>5, <2>8, <2>9, InvMoves
  <2> QED BY <2>3, <2>10
<1> QED BY <1>4, <1>5, <1>7, <1>8

\* The end of c4_become_coordinator.
LEMMA LeadStep ==
  ASSUME TypeOK, EntryIsRead, AliveInv, ElectionInv, NEW n \in Node, Lead(n)
  PROVE  [CommitNext]_vars /\ ElectionInv'
<1> DEFINE t == [tick[n] EXCEPT !.phase = "announce", !.todo = tick[n].members, !.term = term[n] + 1]
<1>1. /\ tick[n].phase # "idle" /\ LogTypeOK
      /\ leader' = [leader EXCEPT ![n] = n] /\ term' = [term EXCEPT ![n] = @ + 1]
      /\ Continue(n, t)
      /\ UNCHANGED <<logVars, alive, directory, commitVars>> /\ handlers' = handlers
      /\ network' = network
  BY DEF Lead, TypeOK
<1>2. tick[n] \in Thread /\ status[n] = "open" /\ AllKnown(log, tick[n].recovery.batch)
  BY <1>1, AtWork
<1>3. tick[n].members \in SUBSET Node
  BY <1>2, ThreadFields
<1>4. term[n] + 1 \in Nat /\ term' \in [Node -> Nat]
  <2>1. term \in [Node -> Nat]
    BY DEF ElectionInv
  <2> QED BY <1>1, <2>1, SMTT(60)
<1>5. t \in Thread /\ t.phase = "announce" /\ t.recovery = tick[n].recovery
  BY <1>2, <1>3, <1>4 DEF Thread
<1> HIDE DEF t
<1>6. ThreadOK(log, status, n, Goto(n, t))
  BY <1>1, <1>2, <1>5, GotoOK
<1>7. tick' = [tick EXCEPT ![n] = Goto(n, t)]
  BY <1>1 DEF Continue
<1> QED BY <1>1, <1>2, <1>4, <1>6, <1>7, LeaderMove

\* c4_broadcast_coordinator.
LEMMA AnnounceStep ==
  ASSUME LogTypeOK, ElectionInv, NEW n \in Node, NEW m \in Node, Announce(n, m) \/ Announced(n)
  PROVE  [CommitNext]_vars /\ ElectionInv'
<1>1. tick[n].phase = "announce" /\ tick[n].phase # "idle" /\ UNCHANGED <<vars, term, handlers>>
  BY DEF Announce, Announced
<1>2. tick[n] \in Thread /\ status[n] = "open" /\ AllKnown(log, tick[n].recovery.batch)
  BY <1>1, AtWork
<1>3. tick[n].todo \ {m} \in SUBSET Node /\ tick[n].term \in Nat
  BY <1>2, ThreadFields
<1>4. CASE Announce(n, m)
  <2> DEFINE c == IF Running(m) THEN m ELSE NoNode
  <2> DEFINE t == [tick[n] EXCEPT !.todo = @ \ {m}, !.call = c]
  <2>1. c \in Node \cup {NoNode}
    OBVIOUS
  <2>2. Continue(n, t) /\ network' \subseteq network \cup {Coordinator(n, m)}
    BY <1>4 DEF Announce
  <2> HIDE DEF c
  <2>3. t \in Thread /\ t.phase = "announce" /\ t.recovery = tick[n].recovery
    BY <1>1, <1>2, <1>3, <2>1 DEF Thread
  <2>4. MessageOK(log, Coordinator(n, m))
    BY <1>3 DEF MessageOK, Message, Coordinator
  <2>5. \A r \in network' : r \in network \/ MessageOK(log, r)
    BY <2>2, <2>4
  <2> HIDE DEF t
  <2> QED BY <1>1, <1>2, <2>2, <2>3, <2>5, QuietContinue
<1>5. CASE Announced(n)
  <2> DEFINE t == [tick[n] EXCEPT !.call = NoNode]
  <2>1. t \in Thread /\ t.phase = "announce" /\ t.recovery = tick[n].recovery
    BY <1>1, <1>2 DEF Thread
  <2>2. Continue(n, t) /\ \A r \in network' : r \in network
    BY <1>5 DEF Announced
  <2> HIDE DEF t
  <2> QED BY <1>1, <1>2, <2>1, <2>2, QuietContinue
<1> QED BY <1>4, <1>5

\* c4_broadcast_log turns to a member, is done with it, or gives up.
LEMMA SyncMove ==
  ASSUME LogTypeOK, ElectionInv, NEW n \in Node, NEW m \in Node,
         SyncWith(n, m) \/ SyncDone(n) \/ SyncFails(n)
  PROVE  [CommitNext]_vars /\ ElectionInv'
<1>1. tick[n].phase = "sync" /\ tick[n].phase # "idle" /\ UNCHANGED <<vars, term, handlers>>
  BY DEF SyncWith, SyncDone, SyncFails
<1>2. /\ tick[n] \in Thread /\ status[n] = "open" /\ AllKnown(log, tick[n].recovery.batch)
      /\ tick[n].last \in 1..Len(log[n]) /\ (tick[n].call # NoNode => tick[n].next \in 1..(tick[n].last + 1))
  BY <1>1, AtWork
<1>3. tick[n].todo \ {m} \in SUBSET Node /\ tick[n].last \in Nat
  BY <1>2, ThreadFields
<1>4. CASE SyncWith(n, m)
  <2> DEFINE x == [tick[n] EXCEPT !.todo = @ \ {m}, !.call = m, !.next = 1]
  <2>1. tick' = [tick EXCEPT ![n].todo = @ \ {m}, ![n].call = m, ![n].next = 1] /\ network' = network
    BY <1>4 DEF SyncWith
  <2>2. tick' = [tick EXCEPT ![n] = x]
    BY <2>1 DEF ElectionInv
  <2>3. 1 \in Nat
    BY SMTT(60)
  <2>4. /\ x \in Thread /\ x.phase = "sync" /\ x.recovery = tick[n].recovery /\ x.call = m
        /\ x.next = 1 /\ x.last = tick[n].last
    BY <1>1, <1>2, <1>3, <2>3 DEF Thread
  <2> HIDE DEF x
  <2>5. 1 \in 1..(tick[n].last + 1)
    BY <1>2, <1>3, SMTT(60)
  <2>6. ThreadOK(log, status, n, x)
    BY <1>2, <2>4, <2>5 DEF ThreadOK
  <2> QED BY <1>1, <2>1, <2>2, <2>6, QuietMove
<1>5. CASE SyncFails(n)
  <2> DEFINE e == log[n][tick[n].next]
  <2>1. /\ tick' = [tick EXCEPT ![n] = Asleep] /\ tick[n].call # NoNode
        /\ \/ network' = network
           \/ /\ tick[n].next <= tick[n].last
              /\ network' \subseteq network \cup {StateTransfer(n, tick[n].call, e)}
    BY <1>5 DEF SyncFails
  <2>2. CASE network' = network
    BY <1>1, <2>1, <2>2, AsleepOK, QuietMove
  <2>3. CASE network' # network
    <3>1. tick[n].next \in DOMAIN log[n] /\ e \in Entry
      BY <1>2, <1>3, <2>1, <2>3, SMTT(60) DEF LogTypeOK
    <3>2. tick[n].call \in Node
      BY <1>2, <2>1, ThreadFields
    <3>3. Known(log, e)
      BY <3>1 DEF Known
    <3> HIDE DEF e
    <3>4. MessageOK(log, StateTransfer(n, tick[n].call, e))
      BY <3>1, <3>2, <3>3 DEF MessageOK, Message, StateTransfer
    <3>5. \A r \in network' : r \in network \/ MessageOK(log, r)
      BY <2>1, <2>3, <3>4
    <3> QED BY <1>1, <2>1, <3>5, AsleepOK, QuietMove
  <2> QED BY <2>2, <2>3
<1>6. CASE SyncDone(n)
  <2> DEFINE t == [tick[n] EXCEPT !.call = NoNode]
  <2>1. /\ t \in Thread /\ t.recovery = tick[n].recovery /\ t.last = tick[n].last
        /\ t.call = NoNode
    BY <1>2 DEF Thread
  <2>2. Continue(n, t) /\ network' = network
    BY <1>6 DEF SyncDone
  <2> HIDE DEF t
  <2> QED BY <1>1, <1>2, <2>1, <2>2, QuietContinue
<1> QED BY <1>4, <1>5, <1>6

\* c4_broadcast_log sends an entry that is accepted.
LEMMA SyncEntryStep ==
  ASSUME TypeOK, EntryIsRead, ElectionInv, NEW n \in Node, SyncEntry(n)
  PROVE  [CommitNext]_vars /\ ElectionInv'
<1> DEFINE t == tick[n]
           e == log[n][t.next]
           y == [t EXCEPT !.next = t.next + 1]
<1>1. /\ t.phase = "sync" /\ t.phase # "idle" /\ t.call # NoNode /\ Accepts(t.call, n, e)
      /\ t.next <= t.last /\ AppendReceived(t.call, e) /\ tick' = [tick EXCEPT ![n].next = @ + 1]
      /\ UNCHANGED <<term, handlers, network>> /\ LogTypeOK
  BY DEF SyncEntry, TypeOK
<1>2. /\ t \in Thread /\ status[n] = "open" /\ AllKnown(log, t.recovery.batch)
      /\ t.last \in 1..Len(log[n]) /\ t.next \in 1..(t.last + 1)
  BY <1>1, AtWork
<1>3. t.call \in Node /\ t.last \in Nat /\ t.next \in Nat
  BY <1>1, <1>2, ThreadFields
<1>4. t.next \in DOMAIN log[n] /\ t.next + 1 \in Nat /\ t.next + 1 \in 1..(t.last + 1)
  BY <1>1, <1>2, <1>3, SMTT(60) DEF LogTypeOK
<1>5. Known(log, e)
  BY <1>4 DEF Known
<1>6. CommitNext /\ status' = status
  <2>1. status[t.call] = "open"
    BY <1>1 DEF Accepts, Hears, Running
  <2> HIDE DEF e, t
  <2> QED BY <1>1, <1>3, <1>5, <2>1, AppendsKnown
<1>7. [LogNext]_logVars
  BY <1>6, CommitTypeStep
<1>8. tick' = [tick EXCEPT ![n] = y]
  BY <1>1 DEF ElectionInv
<1> HIDE DEF t
<1>9. /\ y \in Thread /\ y.phase = "sync" /\ y.recovery = t.recovery /\ y.last = t.last
      /\ y.next = t.next + 1
  BY <1>1, <1>2, <1>4 DEF Thread
<1> HIDE DEF y
<1>10. ThreadOK(log, status, n, y)
  BY <1>2, <1>4, <1>9 DEF ThreadOK
<1>11. ThreadOK(log', status', n, y)
  BY <1>1, <1>2, <1>6, <1>7, <1>10, ThreadStays
<1>12. term' \in [Node -> Nat] /\ handlers' = handlers /\ network' = network
  BY <1>1 DEF ElectionInv
<1>13. ElectionInv'
  BY <1>1, <1>6, <1>7, <1>8, <1>11, <1>12, InvMoves
<1> QED BY <1>6, <1>13

\* Every step of c4_cluster_tick.
LEMMA TickThreadStep ==
  ASSUME TypeOK, EntryIsRead, AliveInv, ElectionInv, NEW n \in Node, TickThread(n)
  PROVE  [CommitNext]_vars /\ ElectionInv'
<1>1. LogTypeOK
  BY DEF TypeOK
<1>2. ASSUME NEW expired, Tick(n, expired) PROVE [CommitNext]_vars /\ ElectionInv'
  BY <1>2, TickStep
<1>3. ASSUME NEW m \in Node, CallElection(n, m) \/ ElectionFails(n, m) \/ AwaitCoordinator(n)
      PROVE  [CommitNext]_vars /\ ElectionInv'
  BY <1>3, ElectStep
<1>4. ASSUME NEW m \in Node, RecoverFrom(n, m) PROVE [CommitNext]_vars /\ ElectionInv'
  BY <1>1, <1>4, RecoverFromStep
<1>5. CASE FetchBatch(n) \/ FetchFails(n)
  BY <1>1, <1>5, FetchStep
<1>6. CASE AppendFetched(n) \/ ApplyFetched(n)
  BY <1>6, AppendFetchedStep
<1>7. CASE Lead(n)
  BY <1>7, LeadStep
<1>8. ASSUME NEW m \in Node, Announce(n, m) \/ Announced(n) PROVE [CommitNext]_vars /\ ElectionInv'
  BY <1>1, <1>8, AnnounceStep
<1>9. ASSUME NEW m \in Node, SyncWith(n, m) \/ SyncDone(n) \/ SyncFails(n)
      PROVE  [CommitNext]_vars /\ ElectionInv'
  BY <1>1, <1>9, SyncMove
<1>10. CASE SyncEntry(n)
  BY <1>10, SyncEntryStep
<1> QED BY <1>2, <1>3, <1>4, <1>5, <1>6, <1>7, <1>8, <1>9, <1>10 DEF TickThread

----------------------------------------------------------------------------

\* The fields of a handler.
LEMMA HandlerFields ==
  ASSUME ElectionInv, NEW h \in handlers
  PROVE  /\ h.node \in Node /\ h.src \in Node /\ h.recovery \in Recovery
         /\ h \in Handler /\ status[h.node] = "open" /\ AllKnown(log, h.recovery.batch)
BY DEF ElectionInv, HandlerOK, Handler

\* The fields of a message, of which M_STATE_TRANSFER carries an entry of a log.
LEMMA MessageFields ==
  ASSUME ElectionInv, NEW r \in network
  PROVE  /\ r \in Message /\ r.src \in Node /\ r.dst \in Node
         /\ r.type = "M_COORDINATOR" => r.term \in Nat
         /\ r.type = "M_STATE_TRANSFER" => Known(log, r.entry)
<1>1. r \in Message /\ (r.type = "M_STATE_TRANSFER" => Known(log, r.entry))
  BY DEF ElectionInv, MessageOK
<1>2. r.src \in Node /\ r.dst \in Node /\ (r.type = "M_COORDINATOR" => r.term \in Nat)
  BY <1>1, SMTT(60) DEF Message
<1> QED BY <1>1, <1>2

\* A handler with another recovery.
LEMMA HandlerWith ==
  ASSUME NEW h \in Handler, NEW L, NEW S, S[h.node] = "open", NEW q \in Recovery,
         AllKnown(L, q.batch), NEW x, x = [h EXCEPT !.recovery = q]
  PROVE  HandlerOK(L, S, x) /\ x.node = h.node /\ x.src = h.src /\ x.recovery = q
<1>1. x \in Handler /\ x.node = h.node /\ x.src = h.src /\ x.recovery = q
  BY DEF Handler
<1> QED BY <1>1 DEF HandlerOK

\* A step of the messages and handlers that leaves the commit protocol alone.
LEMMA QuietStay ==
  ASSUME LogTypeOK, ElectionInv, UNCHANGED <<vars, term, tick>>,
         \A h \in handlers' : h \in handlers \/ HandlerOK(log, status, h),
         \A r \in network' : r \in network
  PROVE  [CommitNext]_vars /\ ElectionInv'
<1>1. [CommitNext]_vars /\ [LogNext]_logVars /\ log' = log /\ status' = status
  BY Unmoved
<1>2. term' \in [Node -> Nat] /\ tick' = tick
  BY DEF ElectionInv
<1>3. \A h \in handlers' : h \in handlers \/ HandlerOK(log', status', h)
  BY <1>1
<1>4. ElectionInv'
  BY <1>1, <1>2, <1>3, InvStays
<1> QED BY <1>1, <1>4

\* A handler forgets or takes a coordinator.
LEMMA LeaderStay ==
  ASSUME TypeOK, AliveInv, ElectionInv, NEW n \in Node, status[n] = "open",
         NEW m \in Node \cup {NoNode}, leader' = [leader EXCEPT ![n] = m],
         UNCHANGED <<logVars, alive, directory, commitVars>>,
         tick' = tick, term' \in [Node -> Nat],
         \A h \in handlers' : h \in handlers \/ HandlerOK(log, status, h),
         \A r \in network' : r \in network
  PROVE  [CommitNext]_vars /\ ElectionInv'
<1>1. CommitNext
  BY NewLeader
<1>2. [LogNext]_logVars /\ log' = log /\ status' = status /\ LogTypeOK
  BY DEF logVars, TypeOK
<1>3. \A h \in handlers' : h \in handlers \/ HandlerOK(log', status', h)
  BY <1>2
<1>4. ElectionInv'
  BY <1>2, <1>3, InvStays
<1> QED BY <1>1, <1>4

\* The log of the coordinator could not be fetched.
LEMMA NotSyncedStep ==
  ASSUME TypeOK, AliveInv, ElectionInv, NEW h \in handlers, NotSynced(h)
  PROVE  [CommitNext]_vars /\ ElectionInv'
<1>1. h.node \in Node /\ h.src \in Node /\ status[h.node] = "open"
  BY HandlerFields
<1>2. /\ UNCHANGED <<logVars, alive, directory, commitVars>> /\ term' = term
      /\ tick' = tick /\ network' = network /\ handlers' = handlers \ {h}
  BY DEF NotSynced
<1>3. term' \in [Node -> Nat] /\ \A g \in handlers' : g \in handlers
  BY <1>2 DEF ElectionInv
<1>4. PICK m \in Node \cup {NoNode} : leader' = [leader EXCEPT ![h.node] = m]
  <2>1. CASE leader[h.node] = h.src
    BY <2>1 DEF NotSynced
  <2>2. CASE leader[h.node] # h.src
    <3>1. leader' = leader
      BY <2>2 DEF NotSynced
    <3>2. leader[h.node] \in Node \cup {NoNode} /\ leader = [leader EXCEPT ![h.node] = leader[h.node]]
      BY <1>1 DEF AliveInv
    <3> QED BY <3>1, <3>2
  <2> QED BY <2>1, <2>2
<1> QED BY <1>1, <1>2, <1>3, <1>4, LeaderStay

\* An entry that was sent or fetched is appended by a running node, no tick thread moving.
LEMMA AppendStay ==
  ASSUME TypeOK, EntryIsRead, ElectionInv, NEW n \in Node, status[n] = "open", NEW e,
         Known(log, e), AppendReceived(n, e), UNCHANGED <<term, tick>>,
         \A h \in handlers' : h \in handlers \/ HandlerOK(log, status, h),
         \A r \in network' : r \in network
  PROVE  [CommitNext]_vars /\ ElectionInv'
<1>1. CommitNext /\ status' = status /\ LogTypeOK
  BY AppendsKnown DEF TypeOK
<1>2. [LogNext]_logVars
  BY <1>1, CommitTypeStep
<1>3. \A h \in handlers' : h \in handlers \/ HandlerOK(log', status', h)
  BY <1>1, <1>2, AllKnownStays DEF HandlerOK
<1>4. term' \in [Node -> Nat]
  BY DEF ElectionInv
<1>5. ElectionInv'
  BY <1>1, <1>2, <1>3, <1>4, InvStays
<1> QED BY <1>1, <1>5

\* The steps of a thread that handles M_COORDINATOR.
LEMMA HandlerThreadStep ==
  ASSUME TypeOK, EntryIsRead, AliveInv, ElectionInv, NEW h \in handlers, HandlerThread(h)
  PROVE  [CommitNext]_vars /\ ElectionInv'
<1> DEFINE q == h.recovery
<1>1. /\ h.node \in Node /\ h.src \in Node /\ q \in Recovery
      /\ h \in Handler /\ status[h.node] = "open" /\ AllKnown(log, q.batch)
  BY HandlerFields
<1>2. LogTypeOK
  BY DEF TypeOK
<1>3. CASE NotSynced(h)
  BY <1>3, NotSyncedStep
<1>4. CASE FollowerFetch(h) /\ ~NotSynced(h)
  <2>1. PICK batch \in Batches(h.src, q.cursor) :
           /\ handlers' = (handlers \ {h}) \cup
                   (IF batch = <<>> THEN {} ELSE {[h EXCEPT !.recovery.batch = batch]})
           /\ UNCHANGED <<vars, term, requested, waiting, tick, network, unsynced, mishaps>>
    BY <1>4 DEF FollowerFetch
  <2>2. q.cursor \in Nat
    BY <1>1, RecoveryFields
  <2>3. q.cursor <= LastIndex(h.src)
    BY <1>4 DEF FollowerFetch, Serves
  <2>4. batch \in Seq(Entry) /\ AllKnown(log, batch)
    BY <1>1, <1>2, <2>2, <2>3, BatchesKnown
  <2> DEFINE b == [q EXCEPT !.batch = batch]
             x == [h EXCEPT !.recovery = b]
  <2>5. b \in Recovery /\ b.batch = batch
    BY <1>1, <2>4, BatchIs
  <2>6. [h EXCEPT !.recovery.batch = batch] = x
    BY <1>1 DEF Handler
  <2> HIDE DEF b, q
  <2>7. HandlerOK(log, status, x)
    BY <1>1, <2>4, <2>5, HandlerWith
  <2> HIDE DEF x
  <2>8. \A g \in handlers' : g \in handlers \/ HandlerOK(log, status, g)
    BY <2>1, <2>6, <2>7
  <2>9. UNCHANGED <<vars, term, tick>> /\ \A r \in network' : r \in network
    BY <2>1
  <2> QED BY <1>2, <2>8, <2>9, QuietStay
<1>5. CASE FollowerFetchFails(h)
  BY <1>5, NotSyncedStep DEF FollowerFetchFails
<1>6. CASE FollowerAppend(h) /\ ~NotSynced(h)
  <2> DEFINE y == [q EXCEPT !.logged = TRUE]
             x == [h EXCEPT !.recovery = y]
  <2>1. /\ q.batch # <<>> /\ AppendReceived(h.node, Head(q.batch))
        /\ handlers' = (handlers \ {h}) \cup {[h EXCEPT !.recovery.logged = TRUE]}
        /\ UNCHANGED <<term, tick>> /\ network' = network
    BY <1>6 DEF FollowerAppend
  <2>2. Known(log, Head(q.batch))
    BY <1>1, <2>1, AdvancedIs
  <2>3. y \in Recovery /\ y.batch = q.batch
    BY <1>1, LoggedIs
  <2>4. [h EXCEPT !.recovery.logged = TRUE] = x
    BY <1>1 DEF Handler
  <2> HIDE DEF y, q
  <2>5. HandlerOK(log, status, x)
    BY <1>1, <2>3, HandlerWith
  <2>6. \A g \in handlers' : g \in handlers \/ g = x
    BY <2>1, <2>4
  <2> HIDE DEF x
  <2> QED BY <1>1, <2>1, <2>2, <2>5, <2>6, AppendStay
<1>7. CASE FollowerApply(h) /\ ~NotSynced(h)
  <2> DEFINE x == [h EXCEPT !.recovery = Advanced(q)]
  <2>1. q.batch # <<>> /\ handlers' = (handlers \ {h}) \cup {x}
    BY <1>7 DEF FollowerApply
  <2>2. UNCHANGED <<vars, term, tick>> /\ \A r \in network' : r \in network
    BY <1>7 DEF FollowerApply
  <2>3. Advanced(q) \in Recovery /\ AllKnown(log, Advanced(q).batch)
    BY <1>1, <2>1, AdvancedIs
  <2> HIDE DEF q
  <2>4. HandlerOK(log, status, x)
    BY <1>1, <2>3, HandlerWith
  <2> HIDE DEF x
  <2>5. \A g \in handlers' : g \in handlers \/ HandlerOK(log, status, g)
    BY <2>1, <2>4
  <2> QED BY <1>2, <2>2, <2>5, QuietStay
<1> QED BY <1>3, <1>4, <1>5, <1>6, <1>7 DEF HandlerThread

\* The steps that handle a message of the election.
LEMMA HandleRequestStep ==
  ASSUME TypeOK, EntryIsRead, AliveInv, ElectionInv, NEW r \in network, HandleRequest(r)
  PROVE  [CommitNext]_vars /\ ElectionInv'
<1>1. /\ r.src \in Node /\ r.dst \in Node /\ LogTypeOK
      /\ r.type = "M_COORDINATOR" => r.term \in Nat
      /\ r.type = "M_STATE_TRANSFER" => Known(log, r.entry)
  BY MessageFields DEF TypeOK
<1>2. CASE HandleElection(r) \/ RefuseCoordinator(r)
  <2>1. /\ UNCHANGED <<vars, term, tick>> /\ handlers' = handlers
        /\ \A x \in network' : x \in network
    BY <1>2 DEF HandleElection, RefuseCoordinator
  <2> QED BY <1>1, <2>1, QuietStay
<1>3. CASE HandleCoordinator(r)
  <2> DEFINE h == [node |-> r.dst, src |-> r.src, recovery |-> Recover(r.dst, r.src)]
  <2>1. /\ status[r.dst] = "open" /\ r.term \in Nat
        /\ leader' = [leader EXCEPT ![r.dst] = r.src] /\ term' = [term EXCEPT ![r.dst] = r.term]
        /\ UNCHANGED <<logVars, alive, directory, commitVars>> /\ tick' = tick
        /\ handlers' = handlers \cup {h} /\ network' = network \ {r}
    BY <1>1, <1>3 DEF HandleCoordinator, Running
  <2>2. Recover(r.dst, r.src) \in Recovery /\ AllKnown(log, Recover(r.dst, r.src).batch)
    BY <1>1, RecoverIs
  <2>3. HandlerOK(log, status, h)
    BY <1>1, <2>1, <2>2 DEF HandlerOK, Handler
  <2> HIDE DEF h
  <2>4. term' \in [Node -> Nat]
    BY <2>1 DEF ElectionInv
  <2>5. /\ \A g \in handlers' : g \in handlers \/ HandlerOK(log, status, g)
        /\ \A x \in network' : x \in network
    BY <2>1, <2>3
  <2> QED BY <1>1, <2>1, <2>4, <2>5, LeaderStay
<1>4. CASE HandleStateTransfer(r)
  <2>1. UNCHANGED <<term, tick>> /\ handlers' = handlers /\ \A x \in network' : x \in network
    BY <1>4 DEF HandleStateTransfer
  <2>2. CASE Accepts(r.dst, r.src, r.entry)
    <3>1. AppendReceived(r.dst, r.entry) /\ Known(log, r.entry) /\ status[r.dst] = "open"
      BY <1>1, <1>4, <2>2 DEF HandleStateTransfer, Accepts, Hears, Running
    <3> QED BY <1>1, <2>1, <3>1, AppendStay
  <2>3. CASE ~Accepts(r.dst, r.src, r.entry)
    <3>1. UNCHANGED <<vars, term, tick>>
      BY <1>4, <2>1, <2>3 DEF HandleStateTransfer
    <3> QED BY <1>1, <2>1, <3>1, QuietStay
  <2> QED BY <2>2, <2>3
<1> QED BY <1>2, <1>3, <1>4 DEF HandleRequest

\* Only the end of its process stops a node.
LEMMA RunningStays ==
  ASSUME LogTypeOK, NEW m \in Node, status[m] = "open",
         \/ \E n \in Node, t \in TxId : \/ SubmitNew(n, t) \/ Coordinate(n, t)
                                        \/ \E p \in Payload : SubmitAgain(n, t, p)
         \/ \E r \in calls \cup applying : Handle(r)
         \/ \E n \in Node : Restart(n)
  PROVE  status'[m] = "open"
<1>1. ASSUME NEW n, NEW t, SubmitNew(n, t) \/ Coordinate(n, t) \/ \E p \in Payload : SubmitAgain(n, t, p)
      PROVE  status' = status
  BY <1>1 DEF SubmitNew, SubmitAgain, Coordinate, ReadEnd, Vote, VoteFails, Call, CallFails,
              DecideCommit, ApplyHere, DecideFails, DecideAbort, Return, Prepare, Commit, Abort,
              CommitWriteError, logVars
<1>2. ASSUME NEW r, Handle(r) PROVE status' = status
  BY <1>2 DEF Handle, HandlePrepare, HandleCommit, ApplyCommit, RefuseCommit, ApplyLearned,
              HandleCommitWriteError, HandleAbort, Prepare, Commit, Abort, CommitWriteError, logVars
<1>3. ASSUME NEW n \in Node, Restart(n) PROVE status'[m] = "open"
  <2>1. status[n] \in {"closed", "failed", "loading"} /\ \E st : status' = [status EXCEPT ![n] = st]
    <3>1. CASE Open(n)
      BY <3>1 DEF Open
    <3>2. CASE Load(n)
      <4>1. status[n] = "loading" /\ status = [status EXCEPT ![n] = status[n]]
        BY <3>2 DEF Load, LoadPrepare, LoadCommit, LoadAbort, LoadEnd, AtRecord, LogTypeOK
      <4>2. status' = status \/ \E st : status' = [status EXCEPT ![n] = st]
        BY <3>2 DEF Load, LoadPrepare, LoadCommit, LoadAbort, LoadEnd, Loaded, LoadFails
      <4> QED BY <4>1, <4>2
    <3>3. CASE Unstartable(n) /\ Crash(n)
      BY <3>3 DEF Unstartable, Crash, Stopped
    <3> QED BY <1>3, <3>1, <3>2, <3>3 DEF Restart
  <2>2. m # n
    BY <2>1
  <2> QED BY <2>1, <2>2 DEF LogTypeOK
<1> QED BY <1>1, <1>2, <1>3

\* A step of the commit protocol, in which the election does not move.
LEMMA ProtocolStep ==
  ASSUME TypeOK, EntryIsRead, ElectionInv, ProtocolNext, UNCHANGED <<term, tick, handlers, network>>,
         \/ \E n \in Node, t \in TxId : \/ SubmitNew(n, t) \/ Coordinate(n, t)
                                        \/ \E p \in Payload : SubmitAgain(n, t, p)
         \/ \E r \in calls \cup applying : Handle(r)
         \/ \E n \in Node : Restart(n)
  PROVE  [CommitNext]_vars /\ ElectionInv'
<1>1. CommitNext /\ LogTypeOK
  BY DEF CommitNext, TypeOK
<1>2. [LogNext]_logVars
  BY <1>1, CommitTypeStep
<1>3. \A m \in Node : status[m] = "open" => status'[m] = "open"
  BY <1>1, RunningStays
<1>4. term' \in [Node -> Nat] /\ tick' = tick /\ handlers' = handlers /\ network' = network
  BY DEF ElectionInv
<1>5. ElectionInv'
  BY <1>1, <1>2, <1>3, <1>4, InvStays
<1> QED BY <1>1, <1>5

\* A process that is killed takes its threads along; what it was sending may arrive.
LEMMA DieStep ==
  ASSUME TypeOK, EntryIsRead, ElectionInv, NEW n \in Node, DieAndForget(n)
  PROVE  [CommitNext]_vars /\ ElectionInv'
<1>1. CommitNext /\ LogTypeOK
  BY DEF DieAndForget, CommitNext, ProtocolNext, TypeOK
<1>2. [LogNext]_logVars
  BY <1>1, CommitTypeStep
<1>3. \A m \in Node \ {n} : status'[m] = status[m]
  <2>1. status' = [status EXCEPT ![n] = "closed"]
    BY DEF DieAndForget, Die, Crash, CrashInRecord, CrashInEntry, CrashInCommit, Stopped
  <2> QED BY <1>1, <2>1 DEF LogTypeOK
<1>4. /\ tick' = [tick EXCEPT ![n] = Asleep] /\ term' = [term EXCEPT ![n] = 0]
      /\ handlers' = {h \in handlers : h.node # n}
      /\ network' \subseteq network \cup InFlight(n)
  BY DEF DieAndForget
<1>5. tick' \in [Node -> Thread] /\ \A m \in Node : ThreadOK(log', status', m, tick'[m])
  <2>1. ThreadOK(log', status', n, Asleep)
    BY AsleepOK
  <2> QED BY <1>1, <1>2, <1>3, <1>4, <2>1, TickMoves
<1>6. term' \in [Node -> Nat]
  <2>1. 0 \in Nat
    BY SMTT(60)
  <2> QED BY <1>4, <2>1 DEF ElectionInv
<1>7. ASSUME NEW h \in handlers' PROVE HandlerOK(log', status', h)
  <2>1. h \in handlers /\ h.node # n
    BY <1>4
  <2>2. h.node \in Node /\ h \in Handler /\ status[h.node] = "open" /\ AllKnown(log, h.recovery.batch)
    BY <2>1, HandlerFields
  <2>3. AllKnown(log', h.recovery.batch)
    BY <1>1, <1>2, <2>2, AllKnownStays
  <2> QED BY <1>3, <2>1, <2>2, <2>3 DEF HandlerOK
<1>8. ASSUME NEW r \in InFlight(n) PROVE MessageOK(log, r)
  <2> DEFINE e == log[n][tick[n].next]
  <2>1. tick[n].phase = "sync" /\ tick[n].phase # "idle" /\ tick[n].call # NoNode
        /\ r = StateTransfer(n, tick[n].call, e) /\ tick[n].next <= tick[n].last
    BY <1>8 DEF InFlight
  <2>2. tick[n] \in Thread /\ tick[n].last \in 1..Len(log[n]) /\ tick[n].next \in 1..(tick[n].last + 1)
    BY <2>1, AtWork
  <2>3. tick[n].call \in Node
    BY <2>1, <2>2, ThreadFields
  <2>4. tick[n].next \in DOMAIN log[n] /\ e \in Entry
    BY <1>1, <2>1, <2>2, SMTT(60) DEF LogTypeOK
  <2>5. Known(log, e)
    BY <2>4 DEF Known
  <2> HIDE DEF e
  <2> QED BY <2>1, <2>3, <2>4, <2>5 DEF MessageOK, Message, StateTransfer
<1>9. ASSUME NEW r \in network' PROVE MessageOK(log', r)
  <2>1. MessageOK(log, r)
    BY <1>4, <1>8 DEF ElectionInv
  <2>2. r.type = "M_STATE_TRANSFER" => Known(log', r.entry)
    BY <1>1, <1>2, <2>1, KnownStays DEF MessageOK
  <2> QED BY <2>1, <2>2 DEF MessageOK
<1>10. ElectionInv'
  BY <1>5, <1>6, <1>7, <1>9 DEF ElectionInv
<1> QED BY <1>1, <1>10

\* Membership finds out or suspects something.
LEMMA MembershipMoves ==
  ASSUME TypeOK, EntryIsRead, AliveInv, ElectionInv, NEW n \in Node, NEW m \in Node,
         MembershipStep(n, m)
  PROVE  [CommitNext]_vars /\ ElectionInv'
<1>1. /\ status[n] = "open" /\ UNCHANGED <<logVars, leader, directory, commitVars>>
      /\ UNCHANGED <<term, tick, handlers, network>>
  BY DEF MembershipStep, Detect, Suspect, Running, electionVars
<1>2. alive[n] \in SUBSET (Node \ {n})
  BY DEF AliveInv
<1>3. PICK S \in SUBSET (Node \ {n}) : alive' = [alive EXCEPT ![n] = S]
  <2>1. CASE Detect(n, m)
    <3> DEFINE S == IF status[m] = "open" THEN alive[n] \cup {m} ELSE alive[n] \ {m}
    <3>1. S \in SUBSET (Node \ {n}) /\ alive' = [alive EXCEPT ![n] = S]
      BY <1>2, <2>1 DEF Detect
    <3> HIDE DEF S
    <3> QED BY <3>1
  <2>2. CASE Suspect(n, m)
    <3>1. alive[n] \ {m} \in SUBSET (Node \ {n}) /\ alive' = [alive EXCEPT ![n] = alive[n] \ {m}]
      BY <1>2, <2>2 DEF Suspect
    <3> QED BY <3>1
  <2> QED BY <2>1, <2>2 DEF MembershipStep
<1>4. CommitNext
  BY <1>1, <1>3, NewMembers
<1>5. LogTypeOK /\ [LogNext]_logVars /\ status' = status
  BY <1>1 DEF TypeOK, logVars
<1>6. term' \in [Node -> Nat] /\ tick' = tick /\ handlers' = handlers /\ network' = network
  BY <1>1 DEF ElectionInv
<1>7. ElectionInv'
  BY <1>5, <1>6, InvStays
<1> QED BY <1>4, <1>7

\* No step makes a node count itself among the others.
LEMMA AliveStep ==
  ASSUME AliveInv, TypeOK', [CommitNext]_vars
  PROVE  AliveInv'
<1>1. leader' \in [Node -> Node \cup {NoNode}] /\ alive' \in [Node -> SUBSET Node]
  BY DEF TypeOK
<1>2. CASE alive' = alive
  BY <1>1, <1>2 DEF AliveInv
<1>3. ASSUME NEW n \in Node, NEW S \in SUBSET (Node \ {n}), alive' = [alive EXCEPT ![n] = S]
      PROVE  AliveInv'
  BY <1>1, <1>3 DEF AliveInv
<1>4. ASSUME NEW n \in Node, Die(n) PROVE AliveInv'
  <2>1. alive' = [alive EXCEPT ![n] = {}] /\ {} \in SUBSET (Node \ {n})
    BY <1>4 DEF Die
  <2> QED BY <1>3, <2>1
<1>5. ASSUME NEW n \in Node, Upheaval(n) PROVE AliveInv'
  BY <1>3, <1>5 DEF Upheaval
<1>6. ASSUME NEW n \in Node, NEW m \in Node, Transfer(n, m) PROVE alive' = alive
  BY <1>6 DEF Transfer
<1>7. ASSUME NEW n \in Node, NEW t \in TxId,
             \/ SubmitNew(n, t) \/ Coordinate(n, t) \/ \E p \in Payload : SubmitAgain(n, t, p)
      PROVE  alive' = alive
  BY <1>7 DEF Coordinate, SubmitNew, Vote, VoteFails, CallFails, DecideCommit, ApplyHere,
              DecideFails, DecideAbort, ReadEnd, SubmitAgain, Call, Return
<1>8. ASSUME NEW r \in calls \cup applying, Handle(r) PROVE alive' = alive
  BY <1>8 DEF Handle, HandlePrepare, HandleCommit, ApplyCommit, RefuseCommit, ApplyLearned,
              HandleCommitWriteError, HandleAbort, Answer
<1>9. ASSUME NEW n \in Node, Restart(n) PROVE alive' = alive
  BY <1>9 DEF Restart
<1>10. CASE UNCHANGED vars
  BY <1>2, <1>10 DEF vars
<1> QED BY <1>2, <1>4, <1>5, <1>6, <1>7, <1>8, <1>9, <1>10 DEF CommitNext, ProtocolNext

\* Every step of the election is one of the commit protocol, or none.
LEMMA ElectionStep ==
  ASSUME TypeOK, EntryIsRead, AliveInv, ElectionInv, [ElectionNext]_allVars
  PROVE  [CommitNext]_vars /\ ElectionInv'
<1>1. ASSUME NEW n \in Node, TickThread(n) PROVE [CommitNext]_vars /\ ElectionInv'
  BY <1>1, TickThreadStep
<1>2. ASSUME NEW n \in Node, RestartNode(n) PROVE [CommitNext]_vars /\ ElectionInv'
  <2>1. ProtocolNext /\ Restart(n) /\ UNCHANGED <<term, tick, handlers, network>>
    BY <1>2 DEF RestartNode, ProtocolNext, electionVars
  <2> QED BY <2>1, ProtocolStep
<1>3. ASSUME NEW n \in Mortal, DieAndForget(n) PROVE [CommitNext]_vars /\ ElectionInv'
  <2>1. n \in Node
    BY ElectionBounds
  <2> QED BY <1>3, <2>1, DieStep
<1>4. ASSUME NEW h \in handlers, HandlerThread(h) PROVE [CommitNext]_vars /\ ElectionInv'
  BY <1>4, HandlerThreadStep
<1>5. ASSUME NEW r \in network, HandleRequest(r) PROVE [CommitNext]_vars /\ ElectionInv'
  BY <1>5, HandleRequestStep
<1>6. ASSUME NEW n \in Node, NEW m \in Node, MembershipStep(n, m)
      PROVE  [CommitNext]_vars /\ ElectionInv'
  BY <1>6, MembershipMoves
<1>7. ASSUME NEW n \in Clients, NEW t \in TxId, Submit(n, t) \/ CoordinateCommit(n, t)
      PROVE  [CommitNext]_vars /\ ElectionInv'
  <2>1. n \in Node /\ UNCHANGED <<term, tick, handlers, network>>
        /\ (SubmitNew(n, t) \/ Coordinate(n, t) \/ \E p \in Payload : SubmitAgain(n, t, p))
    BY <1>7, ElectionBounds DEF Submit, CoordinateCommit, electionVars
  <2>2. ProtocolNext
    BY <2>1 DEF ProtocolNext
  <2> QED BY <2>1, <2>2, ProtocolStep
<1>8. ASSUME NEW r \in calls \cup applying, HandleCommitRequest(r)
      PROVE  [CommitNext]_vars /\ ElectionInv'
  <2>1. ProtocolNext /\ Handle(r) /\ UNCHANGED <<term, tick, handlers, network>>
    BY <1>8 DEF HandleCommitRequest, ProtocolNext, electionVars
  <2> QED BY <2>1, ProtocolStep
<1>9. CASE UNCHANGED allVars
  <2>1. UNCHANGED <<vars, term, tick>> /\ handlers' = handlers /\ network' = network /\ LogTypeOK
    BY <1>9 DEF allVars, electionVars, TypeOK
  <2> QED BY <2>1, QuietStay
<1> QED BY <1>1, <1>2, <1>3, <1>4, <1>5, <1>6, <1>7, <1>8, <1>9 DEF ElectionNext

\* Nodes that have just joined, before or after their first election.
LEMMA ElectionStart == ElectionInit => CommitInit /\ AliveInv /\ ElectionInv
<1> SUFFICES ASSUME ElectionInit PROVE CommitInit /\ AliveInv /\ ElectionInv
  OBVIOUS
<1>1. Highest(Node) \in Node
  BY IdAssumption DEF Highest
<1>2. leader \in [Node -> Node \cup {NoNode}] /\ alive = [n \in Node |-> Node \ {n}]
  BY <1>1 DEF ElectionInit
<1>3. CommitInit /\ AliveInv
  BY <1>2 DEF ElectionInit, CommitInit, AliveInv
<1>4. term \in [Node -> Nat]
  BY SMTT(60) DEF ElectionInit
<1>5. tick = [n \in Node |-> Asleep] /\ handlers = {} /\ network = {}
  BY DEF ElectionInit
<1>6. tick \in [Node -> Thread] /\ \A n \in Node : ThreadOK(log, status, n, tick[n])
  BY <1>5, AsleepIs, AsleepOK
<1> QED BY <1>3, <1>4, <1>5, <1>6 DEF ElectionInv

\* The types of the commit protocol and the invariant of the election always hold.
LEMMA ElectionInvariance ==
  ElectionSpec => [](TypeOK /\ EntryIsRead /\ AliveInv /\ ElectionInv)
<1>1. ElectionInit => TypeOK /\ EntryIsRead /\ AliveInv /\ ElectionInv
  BY ElectionStart, CommitTypeInit
<1>2. TypeOK /\ EntryIsRead /\ AliveInv /\ ElectionInv /\ [ElectionNext]_allVars =>
        (TypeOK /\ EntryIsRead /\ AliveInv /\ ElectionInv)'
  <2> SUFFICES ASSUME TypeOK, EntryIsRead, AliveInv, ElectionInv, [ElectionNext]_allVars
               PROVE  TypeOK' /\ EntryIsRead' /\ AliveInv' /\ ElectionInv'
    OBVIOUS
  <2>1. [CommitNext]_vars /\ ElectionInv'
    BY ElectionStep
  <2>2. TypeOK' /\ EntryIsRead'
    BY <2>1, CommitTypeStep
  <2>3. AliveInv'
    BY <2>1, <2>2, AliveStep
  <2> QED BY <2>1, <2>2, <2>3
<1> QED BY <1>1, <1>2, PTL DEF ElectionSpec

\* The election, the state transfer and the suspicions of membership do to the
\* logs, coordinators and directories only what the commit protocol expects of any.
THEOREM ElectionImplementsCommit == ElectionSpec => CommitSpec
<1>1. ElectionInit => CommitInit
  BY ElectionStart
<1>2. TypeOK /\ EntryIsRead /\ AliveInv /\ ElectionInv /\ [ElectionNext]_allVars => [CommitNext]_vars
  BY ElectionStep
<1> QED BY <1>1, <1>2, ElectionInvariance, PTL DEF ElectionSpec, CommitSpec

\* So what the clients were told stays true through every change of the coordinator:
\* an acknowledged announcement is in the logs of all replicas it covered, nothing is
\* appended behind an entry that a kill left incomplete, and a running node offers
\* what its log has, except what one of its threads is about to apply and what the
\* directory refused.
THEOREM ElectionKeepsPromises ==
  ElectionSpec => [](AckedIsReplicated /\ DirectoryFollowsLog) /\ TornEntryIsCut
BY ElectionImplementsCommit, AckedReplicated, CommitImplementsLog, NothingBehindTornEntry,
   DirectoryAlwaysFollows, PTL

----------------------------------------------------------------------------
(* A follower catches up first *)

\* The thread h of M_COORDINATOR has fetched up to an index that its log has reached,
\* the logs being L; so has the entry that it has appended and not yet applied.
Reached(L, h) ==
  /\ h.recovery.cursor <= Len(L[h.node])
  /\ h.recovery.logged => /\ h.recovery.batch # <<>>
                          /\ Head(h.recovery.batch).index <= Len(L[h.node])

CursorInv == \A h \in handlers : Reached(log, h)

\* A node that has appended an entry, or had it, has reached its index.
LEMMA AppendedReaches ==
  ASSUME LogTypeOK, LogReplayable, NEW n \in Node, NEW e \in Entry, AppendReceived(n, e)
  PROVE  e.index <= Len(log'[n])
<1>1. AppendEntry(n, e) \/ (HasEntry(n, e) /\ UNCHANGED logVars)
  BY DEF AppendReceived
<1>2. log \in [Node -> Seq(Entry)] /\ log[n] \in Seq(Entry)
  BY DEF LogTypeOK
<1>3. CASE AppendEntry(n, e)
  <2>1. e.index = Len(log[n]) + 1 /\ log'[n] = Append(log[n], e)
    BY <1>2, <1>3 DEF AppendEntry, IsNext, LastIndex
  <2> QED BY <1>2, <2>1, SMTT(60)
<1>4. CASE HasEntry(n, e) /\ UNCHANGED logVars
  <2>1. PICK i \in DOMAIN log[n] : log[n][i] = e
    BY <1>4 DEF HasEntry
  <2>2. e.index = i /\ log' = log
    BY <1>4, <2>1 DEF LogReplayable, Replayable, logVars
  <2> QED BY <1>2, <2>1, <2>2, SMTT(60)
<1> QED BY <1>1, <1>3, <1>4

\* Which steps start, move or end such a thread.
LEMMA HandlersMove ==
  ASSUME [ElectionNext]_allVars
  PROVE  \/ handlers' = handlers
         \/ \E r \in network : HandleCoordinator(r)
         \/ \E h \in handlers : HandlerThread(h)
         \/ \E n \in Mortal : DieAndForget(n)
<1>1. ASSUME NEW n \in Node, TickThread(n) PROVE handlers' = handlers
  BY <1>1 DEF TickThread, Tick, CallElection, ElectionFails, AwaitCoordinator, RecoverFrom,
              FetchBatch, FetchFails, AppendFetched, ApplyFetched, PassOver, Suspend, Lead, Announce,
              Announced, SyncWith, SyncEntry, SyncDone, SyncFails
<1>2. ASSUME NEW r \in network, HandleRequest(r)
      PROVE  handlers' = handlers \/ HandleCoordinator(r)
  BY <1>2 DEF HandleRequest, HandleElection, RefuseCoordinator, HandleStateTransfer
<1>3. ASSUME NEW n, NEW m, MembershipStep(n, m) PROVE handlers' = handlers
  BY <1>3 DEF MembershipStep, Suspect, electionVars
<1>4. ASSUME NEW n, RestartNode(n) PROVE handlers' = handlers
  BY <1>4 DEF RestartNode, electionVars
<1>5. ASSUME NEW n, NEW t, Submit(n, t) \/ CoordinateCommit(n, t) PROVE handlers' = handlers
  BY <1>5 DEF Submit, CoordinateCommit, electionVars
<1>6. ASSUME NEW r, HandleCommitRequest(r) PROVE handlers' = handlers
  BY <1>6 DEF HandleCommitRequest, electionVars
<1>7. CASE UNCHANGED allVars
  BY <1>7 DEF allVars, electionVars
<1> QED BY <1>1, <1>2, <1>3, <1>4, <1>5, <1>6, <1>7 DEF ElectionNext

\* The thread h goes on as x: it has got a batch, or appended or applied its first entry.
Proceeds(h, x) ==
  \/ /\ h.recovery.batch = <<>>
     /\ x.recovery.cursor = h.recovery.cursor /\ x.recovery.logged = h.recovery.logged
  \/ /\ h.recovery.batch # <<>> /\ AppendReceived(h.node, Head(h.recovery.batch))
     /\ x.recovery.cursor = h.recovery.cursor /\ x.recovery.batch = h.recovery.batch
  \/ /\ h.recovery.batch # <<>> /\ h.recovery.logged
     /\ x.recovery.cursor = Head(h.recovery.batch).index /\ x.recovery.logged = FALSE

\* What a step of such a thread leads to.
LEMMA HandlerMoves ==
  ASSUME TypeOK, ElectionInv, NEW h \in handlers, HandlerThread(h)
  PROVE  \/ handlers' = handlers \ {h} /\ h.node \in unsynced'
         \/ handlers' = handlers \ {h} /\ h.recovery.cursor = LastIndex(h.src)
         \/ \E x : /\ handlers' = (handlers \ {h}) \cup {x} /\ x.node = h.node /\ x.src = h.src
                   /\ Proceeds(h, x)
<1> DEFINE q == h.recovery
<1>1. /\ h.node \in Node /\ h.src \in Node /\ q \in Recovery
      /\ h \in Handler /\ AllKnown(log, q.batch)
  BY HandlerFields
<1>2. LogTypeOK
  BY DEF TypeOK
<1>3. CASE NotSynced(h)
  BY <1>3 DEF NotSynced
<1>4. CASE FollowerFetch(h) /\ ~NotSynced(h)
  <2>1. PICK batch \in Batches(h.src, q.cursor) :
           handlers' = (handlers \ {h}) \cup
                   (IF batch = <<>> THEN {} ELSE {[h EXCEPT !.recovery.batch = batch]})
    BY <1>4 DEF FollowerFetch
  <2>2. CASE batch = <<>>
    <3>1. handlers' = handlers \ {h}
      BY <2>1, <2>2
    <3>2. q.cursor = LastIndex(h.src)
      <4> SUFFICES ASSUME q.cursor # LastIndex(h.src) PROVE FALSE
        OBVIOUS
      <4>1. PICK j \in (q.cursor + 1)..LastIndex(h.src) : batch = SubSeq(log[h.src], q.cursor + 1, j)
        BY <2>1 DEF Batches
      <4>2. q.cursor \in Nat
        BY <1>1, RecoveryFields
      <4>3. log[h.src] \in Seq(Entry)
        BY <1>1, <1>2 DEF LogTypeOK
      <4> DEFINE k == q.cursor
                 s == log[h.src]
      <4>4. s \in Seq(Entry) /\ k \in Nat /\ j \in (k + 1)..Len(s) /\ SubSeq(s, k + 1, j) = <<>>
        BY <2>2, <4>1, <4>2, <4>3 DEF LastIndex
      <4> HIDE DEF k, s
      <4> QED BY <4>4, SMTT(60)
    <3> QED BY <3>1, <3>2
  <2>3. CASE batch # <<>>
    <3> DEFINE x == [h EXCEPT !.recovery.batch = batch]
    <3>1. handlers' = (handlers \ {h}) \cup {x}
      BY <2>1, <2>3
    <3>2. /\ x.node = h.node /\ x.src = h.src /\ x.recovery.cursor = h.recovery.cursor
          /\ x.recovery.logged = h.recovery.logged
      BY <1>1 DEF Handler, Recovery
    <3>3. h.recovery.batch = <<>>
      BY <1>4 DEF FollowerFetch
    <3> HIDE DEF x
    <3>4. Proceeds(h, x)
      BY <3>2, <3>3 DEF Proceeds
    <3> QED BY <3>1, <3>2, <3>4
  <2> QED BY <2>2, <2>3
<1>5. CASE FollowerFetchFails(h)
  BY <1>5 DEF FollowerFetchFails, NotSynced
<1>6. CASE FollowerAppend(h) /\ ~NotSynced(h)
  <2> DEFINE x == [h EXCEPT !.recovery.logged = TRUE]
  <2>1. /\ h.recovery.batch # <<>> /\ AppendReceived(h.node, Head(h.recovery.batch))
        /\ handlers' = (handlers \ {h}) \cup {x}
    BY <1>6 DEF FollowerAppend
  <2>2. /\ x.node = h.node /\ x.src = h.src /\ x.recovery.cursor = h.recovery.cursor
        /\ x.recovery.batch = h.recovery.batch
    BY <1>1 DEF Handler, Recovery
  <2> HIDE DEF x
  <2>3. Proceeds(h, x)
    BY <2>1, <2>2 DEF Proceeds
  <2> QED BY <2>1, <2>2, <2>3
<1>7. CASE FollowerApply(h) /\ ~NotSynced(h)
  <2> DEFINE x == [h EXCEPT !.recovery = Advanced(q)]
  <2>1. q.batch # <<>> /\ q.logged /\ handlers' = (handlers \ {h}) \cup {x}
    BY <1>7 DEF FollowerApply
  <2>2. Advanced(q).cursor = Head(q.batch).index /\ Advanced(q).logged = FALSE
    BY <1>1, <2>1, AdvancedIs
  <2>3. x.node = h.node /\ x.src = h.src /\ x.recovery = Advanced(q)
    BY <1>1 DEF Handler
  <2> HIDE DEF x
  <2>4. Proceeds(h, x)
    BY <2>1, <2>2, <2>3 DEF Proceeds
  <2> QED BY <2>1, <2>3, <2>4
<1> QED BY <1>3, <1>4, <1>5, <1>6, <1>7 DEF HandlerThread

\* A step keeps the cursors of c4_recover_from_member within the logs.
LEMMA CursorStep ==
  ASSUME TypeOK, EntryIsRead, AliveInv, ElectionInv, LogReplayable, CursorInv, [ElectionNext]_allVars
  PROVE  CursorInv'
<1>1. [CommitNext]_vars
  BY ElectionStep
<1>2. [LogNext]_logVars /\ LogTypeOK
  BY <1>1, CommitTypeStep DEF TypeOK
<1> SUFFICES ASSUME NEW g \in handlers' PROVE Reached(log', g)
  BY DEF CursorInv
<1>3. ASSUME NEW h \in handlers PROVE h.node \in Node /\ h.recovery \in Recovery /\ Reached(log', h)
  <2>1. h.node \in Node /\ h.recovery \in Recovery
    BY HandlerFields
  <2>2. h.recovery.cursor \in Nat
    BY <2>1, RecoveryFields
  <2>3. /\ Len(log[h.node]) \in Nat /\ Len(log'[h.node]) \in Nat
        /\ Len(log[h.node]) <= Len(log'[h.node])
    BY <1>2, <2>1, LogsStay
  <2>4. ASSUME NEW k \in Nat, k <= Len(log[h.node]) PROVE k <= Len(log'[h.node])
    BY <2>3, <2>4, SMTT(60)
  <2>5. Reached(log, h)
    BY DEF CursorInv
  <2>6. h.recovery.batch # <<>> => Head(h.recovery.batch).index \in Nat
    BY <2>1, FirstIs
  <2>7. Reached(log', h)
    BY <2>2, <2>4, <2>5, <2>6 DEF Reached
  <2> QED BY <2>1, <2>7
<1>4. CASE g \in handlers
  BY <1>3, <1>4
<1>5. CASE g \notin handlers
  <2>1. ASSUME NEW r \in network, HandleCoordinator(r) PROVE Reached(log', g)
    <3>1. g = [node |-> r.dst, src |-> r.src, recovery |-> Recover(r.dst, r.src)] /\ log' = log
      BY <1>5, <2>1 DEF HandleCoordinator, logVars
    <3>2. r.dst \in Node /\ r.src \in Node
      BY MessageFields
    <3>3. Recover(r.dst, r.src).cursor = LastIndex(r.dst) /\ Recover(r.dst, r.src).logged = FALSE
      BY <1>2, <3>2, RecoverIs
    <3>4. g.recovery.cursor = Len(log[r.dst]) /\ g.recovery.logged = FALSE /\ g.node = r.dst
      BY <3>1, <3>3 DEF LastIndex
    <3>5. Len(log[r.dst]) <= Len(log[r.dst])
      BY <1>2, <3>2, SMTT(60) DEF LogTypeOK
    <3> QED BY <3>1, <3>4, <3>5 DEF Reached
  <2>2. ASSUME NEW h \in handlers, HandlerThread(h) PROVE Reached(log', g)
    <3>1. g.node = h.node /\ Proceeds(h, g)
      BY <1>5, <2>2, HandlerMoves
    <3>2. h.node \in Node /\ h.recovery \in Recovery /\ Reached(log', h)
      BY <1>3
    <3>3. CASE h.recovery.batch = <<>>
      BY <3>1, <3>2, <3>3 DEF Proceeds, Reached
    <3>4. CASE /\ h.recovery.batch # <<>> /\ AppendReceived(h.node, Head(h.recovery.batch))
               /\ g.recovery.cursor = h.recovery.cursor /\ g.recovery.batch = h.recovery.batch
      <4>1. Head(h.recovery.batch) \in Entry
        BY <3>2, <3>4, FirstIs
      <4>2. Head(h.recovery.batch).index <= Len(log'[h.node])
        BY <1>2, <3>2, <3>4, <4>1, AppendedReaches
      <4> QED BY <3>1, <3>2, <3>4, <4>2 DEF Reached
    <3>5. CASE /\ h.recovery.logged /\ g.recovery.logged = FALSE
               /\ g.recovery.cursor = Head(h.recovery.batch).index
      BY <3>1, <3>2, <3>5 DEF Reached
    <3> QED BY <3>1, <3>3, <3>4, <3>5 DEF Proceeds
  <2>3. ASSUME NEW n \in Mortal, DieAndForget(n) PROVE FALSE
    BY <1>5, <2>3 DEF DieAndForget
  <2> QED BY <1>5, <2>1, <2>2, <2>3, HandlersMove
<1> QED BY <1>4, <1>5

\* How the thread h may leave a step.
LEMMA CatchUpStep ==
  ASSUME TypeOK, EntryIsRead, AliveInv, ElectionInv, CursorInv, [ElectionNext]_allVars,
         NEW h \in handlers
  PROVE  \/ \E g \in handlers' : g.node = h.node /\ g.src = h.src
         \/ h.node \in unsynced' \/ status'[h.node] # "open"
         \/ LastIndex(h.node) >= LastIndex(h.src)
<1>1. CASE h \in handlers'
  BY <1>1
<1>2. CASE h \notin handlers'
  <2>1. ASSUME NEW r \in network, HandleCoordinator(r) PROVE FALSE
    BY <1>2, <2>1 DEF HandleCoordinator
  <2>2. ASSUME NEW n \in Mortal, DieAndForget(n) PROVE status'[h.node] # "open"
    <3>1. h.node = n
      BY <1>2, <2>2 DEF DieAndForget
    <3>2. status' = [status EXCEPT ![n] = "closed"]
      BY <2>2 DEF DieAndForget, Die, Crash, CrashInRecord, CrashInEntry, CrashInCommit, Stopped
    <3>3. n \in Node /\ status \in [Node -> {"open", "loading", "closed", "failed"}]
      BY ElectionBounds DEF TypeOK, LogTypeOK
    <3> QED BY <3>1, <3>2, <3>3
  <2>3. ASSUME NEW k \in handlers, HandlerThread(k)
        PROVE  \/ \E g \in handlers' : g.node = h.node /\ g.src = h.src
               \/ h.node \in unsynced'
               \/ LastIndex(h.node) >= LastIndex(h.src)
    <3>1. \/ handlers' = handlers \ {k} /\ k.node \in unsynced'
          \/ handlers' = handlers \ {k} /\ k.recovery.cursor = LastIndex(k.src)
          \/ \E x : handlers' = (handlers \ {k}) \cup {x} /\ x.node = k.node /\ x.src = k.src
      BY <2>3, HandlerMoves
    <3>2. h = k
      BY <1>2, <3>1
    <3>3. CASE h.recovery.cursor = LastIndex(h.src)
      <4>1. h.recovery.cursor <= LastIndex(h.node)
        BY DEF CursorInv, Reached, LastIndex
      <4>2. h.node \in Node /\ h.src \in Node
        BY HandlerFields
      <4>3. LastIndex(h.node) \in Nat /\ LastIndex(h.src) \in Nat
        BY <4>2, SMTT(60) DEF TypeOK, LogTypeOK, LastIndex
      <4>4. LastIndex(h.node) >= LastIndex(h.src)
        BY <3>3, <4>1, <4>3, SMTT(60)
      <4> QED BY <4>4
    <3> QED BY <3>1, <3>2, <3>3
  <2> QED BY <1>2, <2>1, <2>2, <2>3, HandlersMove
<1> QED BY <1>1, <1>2

\* A follower acknowledges M_COORDINATOR only when its log is as long as the
\* coordinator's, however batches, appends, crashes and other handlers interleave.
THEOREM FollowersCatchUp == ElectionSpec => CatchUpFirst
<1>1. ElectionInit => CursorInv
  BY DEF ElectionInit, CursorInv
<1>2. TypeOK /\ EntryIsRead /\ AliveInv /\ ElectionInv /\ LogReplayable /\ CursorInv
        /\ [ElectionNext]_allVars => CursorInv'
  BY CursorStep
<1>3. ElectionSpec => []LogReplayable
  BY ElectionImplementsCommit, CommitImplementsLog, LogAlwaysReplayable, PTL
<1>4. TypeOK /\ EntryIsRead /\ AliveInv /\ ElectionInv /\ CursorInv /\ [ElectionNext]_allVars =>
        [\A h \in handlers :
           \/ \E g \in handlers' : g.node = h.node /\ g.src = h.src
           \/ h.node \in unsynced' \/ ~Running(h.node)'
           \/ LastIndex(h.node) >= LastIndex(h.src)]_allVars
  <2> SUFFICES ASSUME TypeOK, EntryIsRead, AliveInv, ElectionInv, CursorInv,
                      [ElectionNext]_allVars, NEW h \in handlers
               PROVE  \/ \E g \in handlers' : g.node = h.node /\ g.src = h.src
                      \/ h.node \in unsynced' \/ ~Running(h.node)'
                      \/ LastIndex(h.node) >= LastIndex(h.src)
    OBVIOUS
  <2>1. status'[h.node] # "open" => ~Running(h.node)'
    BY DEF Running
  <2> QED BY <2>1, CatchUpStep
<1> QED BY <1>1, <1>2, <1>3, <1>4, ElectionInvariance, PTL DEF ElectionSpec, CatchUpFirst
=============================================================================
