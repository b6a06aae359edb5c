----------------------------- MODULE Heartbeat ------------------------------
(***************************************************************************)
(* The membership service of heartbeat.c: every node keeps a member table, *)
(* calls its neighbours (M_HEARTBEAT, or M_GOSSIP with a copy of its       *)
(* table), answers their calls, and judges them with a detector.  A Peer   *)
(* only talks to its home Super Peer, which it JOINs, LEAVEs, and JOINs    *)
(* again (with a new incarnation where needed) when it was given up.       *)
(*                                                                         *)
(* h[n] is the Heartbeat object of n and the two files it keeps:           *)
(*   up                 the process runs                                   *)
(*   epoch, ledger      node.incarnation and membership.bin                *)
(*   inc, seq           the incarnation and the sequence of n itself       *)
(*   table              the member table (n's own record is inc and seq)   *)
(*   needs              needs_reconnect                                    *)
(* job[n][m] is the control job of n for m; enqueue() admits one for each  *)
(* target at a time.  Everything between a lock and an unlock of the gate  *)
(* is one step.  A request stays in the network after its caller has given *)
(* it up (wait is FALSE then), so it may be handled late, even after the   *)
(* caller restarted; one that is never handled is lost.                    *)
(***************************************************************************)
EXTENDS Membership, FiniteSets, Functions

CONSTANTS MaxSequence,    \* UINT64_MAX of sequence
          MaxEpoch,       \* UINT64_MAX of node.incarnation
          WriteErrors,    \* whether writing the two files may fail
          MaxCalls,       \* bound: how many jobs n schedules for m, for pairs <<n, m>>
          Silent,         \* bound: pairs <<n, m>> where n may hear nothing from m for long
          MaxEvents       \* bound: jobs scheduled, crashes and exits, in all

ASSUME HeartbeatAssumption ==
  /\ MaxSequence \in Nat \ {0} /\ MaxEpoch \in Nat
  /\ WriteErrors \in BOOLEAN
  /\ MaxCalls \in [Node \X Node -> Nat] /\ Silent \subseteq Node \X Node
  /\ MaxEvents \in Nat

VARIABLES h, job, requests, calls, stops

vars == <<h, job, requests, calls, stops>>

EmptyTable == [m \in Node |-> NoMember]

Down == [up |-> FALSE, epoch |-> 0, ledger |-> EmptyTable, inc |-> 0, seq |-> 0,
         table |-> EmptyTable, needs |-> FALSE]

\* A message: the sender's incarnation and sequence, and the copies of a GOSSIP
\* (NoMember in the others).
Message(type, inc, seq, batch) == [type |-> type, inc |-> inc, seq |-> seq, batch |-> batch]
Error == Message("ERROR", 0, 0, NoMember)
Ack == Message("ACK", 0, 0, NoMember)

\* inc and seq of a job are those of its target when it was scheduled; answer is
\* the response that waits to be applied.
Idle == [phase |-> "idle", gossip |-> FALSE, inc |-> 0, seq |-> 0, answer |-> NoMember]

\* The Super Peers have been started for the first time and have discovered the
\* neighbours they will call (they have nobody to call before); the Peers are not
\* started yet.
FirstTable(n) ==
  [m \in Node |-> IF m \in SuperPeer \ {n} /\ MaxCalls[n, m] > 0 THEN set_member(n) ELSE NoMember]

Init ==
  /\ h = [n \in Node |-> IF n \in Peer THEN Down
                         ELSE [Down EXCEPT !.up = TRUE, !.epoch = 1, !.inc = 1, !.table = FirstTable(n)]]
  /\ job = [n \in Node |-> [m \in Node |-> Idle]]
  /\ requests = {}
  /\ calls = [l \in Node \X Node |-> 0] /\ stops = 0

-----------------------------------------------------------------------------
(***************************************************************************)
(* The local operations.  Each gives the set of its outcomes: the result   *)
(* and the object it leaves, s being the object it starts from.            *)
(***************************************************************************)
Outcome(ok, s) == [ok |-> ok, s |-> s]

\* Mutant of AdvanceEpoch: the file is not read.
AdvanceEpochBlind(s) ==
  IF s.inc >= MaxEpoch THEN {Outcome(FALSE, s)}
  ELSE {Outcome(TRUE, [s EXCEPT !.epoch = s.inc + 1, !.inc = s.inc + 1, !.seq = 0])}

\* advance_epoch.  When only the directory's fsync fails the file is already new.
AdvanceEpoch(s) ==
  LET old == IF s.epoch > s.inc THEN s.epoch ELSE s.inc
  IN  IF old >= MaxEpoch THEN {Outcome(FALSE, s)}
      ELSE {Outcome(TRUE, [s EXCEPT !.epoch = old + 1, !.inc = old + 1, !.seq = 0])} \cup
           (IF WriteErrors THEN {Outcome(FALSE, s), Outcome(FALSE, [s EXCEPT !.epoch = old + 1])}
            ELSE {})

\* heartbeat_checkpoint
Checkpoint(s) ==
  {Outcome(TRUE, [s EXCEPT !.ledger = Save(s.table)])} \cup
  (IF WriteErrors THEN {Outcome(FALSE, s)} ELSE {})

\* local_record: the next sequence, or a new incarnation when there is none.
LocalRecord(s) ==
  IF s.seq < MaxSequence THEN {Outcome(TRUE, [s EXCEPT !.seq = @ + 1])}
  ELSE {IF o.ok THEN Outcome(TRUE, [o.s EXCEPT !.seq = @ + 1]) ELSE o : o \in AdvanceEpoch(s)}

\* encode_packet, from the object local_record left.
Packet(n, s, gossip) ==
  IF ~ gossip THEN Message("HEARTBEAT", s.inc, s.seq, NoMember)
  ELSE Message("GOSSIP", s.inc, s.seq, [m \in Node |->
         IF m = n THEN [inc |-> s.inc, seq |-> s.seq, ver |-> 0, state |-> ALIVE, rep |-> n]
         ELSE IF s.table[m] # NoMember /\ s.table[m].inc > 0 THEN Wire(s.table[m])
         ELSE NoMember])

\* The batch is refused whole when a Peer's record does not come from its home.
Copy(b, m) == IF b = NoMember THEN NoMember ELSE b[m]
ValidBatch(b) == \A m \in Peer : Copy(b, m) # NoMember => b[m].rep = HomeOf(m)

\* The copies of a packet, merged into the table.
MergeBatch(T, n, b, S) ==
  [m \in Node |-> IF m \in S /\ Copy(b, m) # NoMember THEN Merge(T, n, m, b[m])[m] ELSE T[m]]

\* A copy that says this node is not ALIVE, at this incarnation: it is refuted.
Accused(n, s, b) == Copy(b, n) # NoMember /\ b[n].state # ALIVE /\ b[n].inc >= s.inc

\* After an attempt to take a new incarnation all copies are merged, or those before
\* the accusation.
Refute(n, s, b, tried) ==
  UNION {IF x.ok THEN Checkpoint(x.s)
         ELSE {Outcome(FALSE, [x.s EXCEPT !.table = MergeBatch(s.table, n, b, S)]) : S \in SUBSET (Node \ {n})} :
         x \in tried}

\* The part of apply_packet after the sender's own record was applied.
ApplyBatch(n, s, b) ==
  LET all == [s EXCEPT !.table = MergeBatch(s.table, n, b, Node \ {n})]
  IN  IF ~ Accused(n, s, b) THEN Checkpoint(all)
      ELSE Refute(n, s, b, AdvanceEpoch([all EXCEPT !.inc = b[n].inc]))

\* apply_packet: a packet p of src reaches n.
ApplyPacket(n, s, src, p) ==
  LET T == s.table
      again == /\ n \in Peer /\ src = HomeOf(n)
               /\ ~ Found(T, src) \/ p.inc > T[src].inc
      s1 == [s EXCEPT !.needs = @ \/ again]
      T2 == IF Found(T, src) THEN T ELSE Register(T, n, src, p.inc)
  IN  IF ~ ValidBatch(p.batch) THEN {Outcome(FALSE, s)}
      ELSE IF ~ Found(T, src) /\ (src \in Peer \/ ~ MayRegister(T, src, p.inc)) THEN {Outcome(FALSE, s1)}
      ELSE IF ~ FreshHeartbeat(T2, src, p.inc, p.seq) THEN {Outcome(FALSE, [s1 EXCEPT !.table = T2])}
      ELSE ApplyBatch(n, [s1 EXCEPT !.table = ApplyHeartbeat(T2, n, src, p.inc, p.seq)], p.batch)

-----------------------------------------------------------------------------
(* The scheduler and the control jobs: schedule(), execute_job() *)

Events == SumFunction(calls) + stops

SetJob(n, m, j) == job' = [job EXCEPT ![n][m] = j]

\* A tick of schedule() picks the target m; a Super Peer gossips with the first
\* three neighbours and sends the others a heartbeat.
Enqueue(n, m, g) ==
  /\ calls[n, m] < MaxCalls[n, m]
  /\ h[n].up /\ n # m /\ job[n][m].phase = "idle" /\ h[n].table[m] # NoMember
  /\ IF n \in Peer THEN m = HomeOf(n) /\ ~ g
     ELSE \/ h[n].table[m].mine /\ h[n].table[m].state = SUSPECT /\ ~ g
          \/ m \in SuperPeer /\ h[n].table[m].state < FAILED /\ (g \/ Cardinality(SuperPeer) > 4)
          \/ m \in SuperPeer /\ h[n].table[m].state >= FAILED /\ ~ g
  /\ Events < MaxEvents
  /\ SetJob(n, m, [Idle EXCEPT !.phase = "queued", !.gossip = g,
                               !.inc = h[n].table[m].inc, !.seq = h[n].table[m].seq])
  /\ calls' = [calls EXCEPT ![<<n, m>>] = @ + 1]
  /\ UNCHANGED <<h, requests, stops>>

Request(src, dst, p, wait) == [src |-> src, dst |-> dst, msg |-> p, wait |-> wait]

\* execute_job up to the call; without a packet there is no call.
Call(n, m) ==
  /\ h[n].up /\ job[n][m].phase = "queued"
  /\ \E o \in LocalRecord(h[n]) :
       /\ h' = [h EXCEPT ![n] = o.s]
       /\ IF o.ok
          THEN /\ requests' = requests \cup {Request(n, m, Packet(n, o.s, job[n][m].gossip), TRUE)}
               /\ SetJob(n, m, [job[n][m] EXCEPT !.phase = "sent"])
          ELSE SetJob(n, m, [job[n][m] EXCEPT !.phase = "failed"]) /\ UNCHANGED requests
  /\ UNCHANGED <<calls, stops>>

\* The requests that nobody waits for any more.
GivenUp(R) == {[r EXCEPT !.wait = FALSE] : r \in R}
Waiting(n, m) == {r \in requests : r.src = n /\ r.dst = m /\ r.wait}

\* The call fails: refused, cut, or not answered within the budget.
CallFails(n, m) ==
  /\ h[n].up /\ job[n][m].phase \in {"sent", "answered"}
  /\ SetJob(n, m, [job[n][m] EXCEPT !.phase = "failed", !.answer = NoMember])
  /\ requests' = (requests \ Waiting(n, m)) \cup GivenUp(Waiting(n, m))
  /\ UNCHANGED <<h, calls, stops>>

\* The response is applied; an M_ERROR starts a new incarnation.
Answered(n, m) ==
  /\ h[n].up /\ job[n][m].phase = "answered"
  /\ LET a == job[n][m].answer
     IN  \E o \in IF a.type = "ERROR" THEN AdvanceEpoch(h[n]) ELSE ApplyPacket(n, h[n], m, a) :
           /\ h' = [h EXCEPT ![n] = o.s]
           /\ SetJob(n, m, [job[n][m] EXCEPT !.answer = NoMember,
                !.phase = IF a.type = "ERROR" THEN "rejected" ELSE IF o.ok THEN "ok" ELSE "failed"])
  /\ UNCHANGED <<requests, calls, stops>>

\* The last section of execute_job: a failure counts as a probe (a second after the
\* one before), and a Peer may have to join again.
Conclude(n, m) ==
  /\ h[n].up /\ job[n][m].phase \in {"ok", "failed", "rejected"}
  /\ LET j == job[n][m]
         rejoin == n \in Peer /\ (j.phase # "ok" \/ h[n].needs)
     IN  /\ \E counted \in BOOLEAN :
              h' = [h EXCEPT ![n].table = IF j.phase # "ok" /\ counted
                                          THEN Probe(@, m, j.inc, j.seq) ELSE @]
         /\ SetJob(n, m, IF ~ rejoin THEN Idle
                         ELSE [Idle EXCEPT !.phase = IF j.phase = "failed" THEN "advance" ELSE "join"])
  /\ UNCHANGED <<requests, calls, stops>>

-----------------------------------------------------------------------------
(* JOIN and LEAVE of a Peer *)

\* A call that failed is tried again as a new incarnation.
AdvanceToJoin(n, m) ==
  /\ h[n].up /\ job[n][m].phase = "advance"
  /\ \E o \in AdvanceEpoch(h[n]) :
       /\ h' = [h EXCEPT ![n] = o.s]
       /\ SetJob(n, m, [Idle EXCEPT !.phase = IF o.ok THEN "join" ELSE "idle"])
  /\ UNCHANGED <<requests, calls, stops>>

\* join_superpeer; "start" is the JOIN of peer_service_run, which must succeed.
Join(n, m) ==
  /\ h[n].up /\ job[n][m].phase \in {"join", "start"}
  /\ requests' = requests \cup {Request(n, m, Message("JOIN", h[n].inc, 0, NoMember), TRUE)}
  /\ SetJob(n, m, [job[n][m] EXCEPT !.phase = IF @ = "join" THEN "joining" ELSE "starting"])
  /\ UNCHANGED <<h, calls, stops>>

Discovered(s, n, m) ==
  IF s.table[m] = NoMember THEN [s EXCEPT !.table = Register(s.table, n, m, 0)] ELSE s

\* The JOIN was acknowledged, and the catalogue announced or not.
Joined(n, m) ==
  /\ h[n].up /\ job[n][m].phase = "joining"
  /\ job[n][m].answer # NoMember /\ job[n][m].answer.type = "ACK"
  /\ h' = [h EXCEPT ![n] = Discovered(h[n], n, m)]
  /\ \E announced \in BOOLEAN :
       SetJob(n, m, [Idle EXCEPT !.phase = IF announced THEN "joined" ELSE "unjoined"])
  /\ UNCHANGED <<requests, calls, stops>>

JoinFails(n, m) ==
  /\ h[n].up /\ job[n][m].phase = "joining"
  /\ SetJob(n, m, [Idle EXCEPT !.phase = "unjoined"])
  /\ requests' = (requests \ Waiting(n, m)) \cup GivenUp(Waiting(n, m))
  /\ UNCHANGED <<h, calls, stops>>

\* execute_job stores the result of reconnect() under the gate, after it returned.
Reconnected(n, m) ==
  /\ h[n].up /\ job[n][m].phase \in {"joined", "unjoined"}
  /\ h' = [h EXCEPT ![n].needs = job[n][m].phase = "unjoined"]
  /\ SetJob(n, m, Idle)
  /\ UNCHANGED <<requests, calls, stops>>

-----------------------------------------------------------------------------
(* The server side: heartbeat_handle, register_join and the M_LEAVE branch *)

\* The answer reaches the job that waits for it, if there still is one.
Reply(r, a) ==
  /\ requests' = requests \ {r}
  /\ job' = IF ~ r.wait THEN job
            ELSE LET j == job[r.src][r.dst]
                 IN  [job EXCEPT ![r.src][r.dst] =
                       [j EXCEPT !.answer = a, !.phase = IF @ = "sent" THEN "answered" ELSE @]]

HandlePacket(r) ==
  /\ r.msg.type \in {"HEARTBEAT", "GOSSIP"} /\ h[r.dst].up
  /\ LET gossip == r.msg.type = "GOSSIP"
     IN  \E o \in ApplyPacket(r.dst, h[r.dst], r.src, r.msg) :
           IF ~ o.ok THEN h' = [h EXCEPT ![r.dst] = o.s] /\ Reply(r, Error)
           ELSE \E e \in LocalRecord(o.s) :
                  /\ h' = [h EXCEPT ![r.dst] = e.s]
                  /\ Reply(r, IF e.ok THEN Packet(r.dst, e.s, gossip) ELSE Error)
  /\ UNCHANGED <<calls, stops>>

\* Mutant of HandleJoin: the JOIN is acknowledged without a checkpoint.
HandleJoinUnsaved(r) ==
  /\ r.msg.type = "JOIN" /\ h[r.dst].up
  /\ LET s == h[r.dst]
     IN  IF ~ MayRegister(s.table, r.src, r.msg.inc) THEN Reply(r, Error) /\ UNCHANGED h
         ELSE /\ h' = [h EXCEPT ![r.dst].table = Register(@, r.dst, r.src, r.msg.inc)]
              /\ Reply(r, Ack)
  /\ UNCHANGED <<calls, stops>>

\* heartbeat_register keeps the registration when only the checkpoint fails.
HandleJoin(r) ==
  /\ r.msg.type = "JOIN" /\ h[r.dst].up
  /\ LET s == h[r.dst]
     IN  IF ~ MayRegister(s.table, r.src, r.msg.inc) THEN Reply(r, Error) /\ UNCHANGED h
         ELSE \E o \in Checkpoint([s EXCEPT !.table = Register(@, r.dst, r.src, r.msg.inc)]) :
                /\ h' = [h EXCEPT ![r.dst] = o.s]
                /\ Reply(r, IF o.ok THEN Ack ELSE Error)
  /\ UNCHANGED <<calls, stops>>

\* Mutant of MayLeave: the incarnation is not compared.
MayLeaveAny(T, m, inc) == Found(T, m)

\* A LEAVE must name the incarnation that is registered.
MayLeave(T, m, inc) == Found(T, m) /\ inc = T[m].inc

HandleLeave(r) ==
  /\ r.msg.type = "LEAVE" /\ h[r.dst].up
  /\ LET s == h[r.dst]
     IN  IF ~ MayLeave(s.table, r.src, r.msg.inc) THEN UNCHANGED h
         ELSE \E o \in Checkpoint([s EXCEPT !.table = Unregister(@, r.dst, r.src)]) :
                h' = [h EXCEPT ![r.dst] = o.s]
  /\ Reply(r, Error)
  /\ UNCHANGED <<calls, stops>>

-----------------------------------------------------------------------------
(* The detector's thread and discovery *)

\* evaluate(): one tick, and the ledger after it.
Evaluate(n) ==
  /\ h[n].up
  /\ \E o \in Checkpoint([h[n] EXCEPT !.table = Tick(@, n)]) : h' = [h EXCEPT ![n] = o.s]
  /\ UNCHANGED <<job, requests, calls, stops>>

\* Time passes without evidence of m at n.
Age(n, m) ==
  /\ h[n].up /\ h[n].table[m] # NoMember /\ h[n].table[m].age < 3
  /\ h' = [h EXCEPT ![n].table[m].age = @ + 1]
  /\ UNCHANGED <<job, requests, calls, stops>>

\* heartbeat_discover: a Super Peer that the Chord ring names is put in the table.
Discover(n, m) ==
  /\ n \in SuperPeer /\ m \in SuperPeer \ {n} /\ MaxCalls[n, m] > 0
  /\ h[n].up /\ h[n].table[m] = NoMember
  /\ h' = [h EXCEPT ![n] = Discovered(@, n, m)]
  /\ UNCHANGED <<job, requests, calls, stops>>

-----------------------------------------------------------------------------
(* Start, exit and crash of a process *)

\* heartbeat_create: a new incarnation, then the ledger; without it no start.
Start(n) ==
  /\ ~ h[n].up
  /\ \E o \in AdvanceEpoch(h[n]) :
       /\ h' = [h EXCEPT ![n] = IF o.ok THEN [o.s EXCEPT !.up = TRUE, !.table = Load(o.s.ledger, n)]
                                ELSE o.s]
       /\ job' = IF o.ok /\ n \in Peer THEN [job EXCEPT ![n][HomeOf(n)].phase = "start"] ELSE job
  /\ UNCHANGED <<requests, calls, stops>>

\* The first JOIN is acknowledged, the catalogue announced, and the jobs begin.
Started(n) ==
  /\ n \in Peer /\ h[n].up
  /\ LET j == job[n][HomeOf(n)]
     IN  /\ j.phase = "starting" /\ j.answer # NoMember /\ j.answer.type = "ACK"
  /\ h' = [h EXCEPT ![n] = Discovered(@, n, HomeOf(n))]
  /\ SetJob(n, HomeOf(n), Idle)
  /\ UNCHANGED <<requests, calls, stops>>

\* What is left of a process that ended: its files, and what it had sent.
Ended(s) == [Down EXCEPT !.epoch = s.epoch, !.ledger = s.ledger]

End(n, leave) ==
  /\ h' = [h EXCEPT ![n] = Ended(@)]
  /\ job' = [job EXCEPT ![n] = [m \in Node |-> Idle]]
  /\ requests' = {r \in requests : r.dst # n /\ r.src # n}
                   \cup GivenUp({r \in requests : r.src = n}) \cup leave

\* The first JOIN fails: the process ends without a LEAVE.
StartFails(n) ==
  /\ n \in Peer /\ h[n].up /\ job[n][HomeOf(n)].phase = "starting"
  /\ End(n, {})
  /\ UNCHANGED <<calls, stops>>

\* peer_service_run ends when no job runs any more; LEAVE is its last call.
Leave(n) ==
  /\ n \in Peer /\ h[n].up /\ Events < MaxEvents
  /\ \A m \in Node : job[n][m].phase = "idle"
  /\ End(n, {Request(n, HomeOf(n), Message("LEAVE", h[n].inc, 0, NoMember), FALSE)})
  /\ stops' = stops + 1
  /\ UNCHANGED calls

Crash(n) ==
  /\ h[n].up /\ Events < MaxEvents
  /\ End(n, {})
  /\ stops' = stops + 1
  /\ UNCHANGED calls

-----------------------------------------------------------------------------
Next ==
  \/ \E n, m \in Node :
       \/ \E g \in BOOLEAN : Enqueue(n, m, g)
       \/ Discover(n, m)
       \/ Call(n, m) \/ CallFails(n, m) \/ Answered(n, m) \/ Conclude(n, m)
       \/ AdvanceToJoin(n, m) \/ Join(n, m) \/ Joined(n, m) \/ JoinFails(n, m) \/ Reconnected(n, m)
  \/ \E l \in Silent : Age(l[1], l[2])
  \/ \E r \in requests : HandlePacket(r) \/ HandleJoin(r) \/ HandleLeave(r)
  \/ \E n \in Node : Evaluate(n) \/ Start(n) \/ Crash(n)
  \/ \E n \in Peer : Started(n) \/ StartFails(n) \/ Leave(n)

Spec == Init /\ [][Next]_vars

-----------------------------------------------------------------------------
(* Properties *)

\* The messages in flight, with who sent them.
Packets == {[src |-> r.src, msg |-> r.msg] : r \in requests}
           \cup {[src |-> l[2], msg |-> job[l[1]][l[2]].answer] :
                   l \in {k \in Node \X Node : job[k[1]][k[2]].answer # NoMember}}

NotAfter(a, b) == a.inc < b.inc \/ (a.inc = b.inc /\ a.seq <= b.seq)

\* What any node keeps, has on disk or has in flight about m.
Copies(m) ==
  {h[n].table[m] : n \in Node} \cup {h[n].ledger[m] : n \in Node} \cup {Copy(p.msg.batch, m) : p \in Packets}

\* No record of a node is ahead of the node: every incarnation in circulation is at
\* most the one in its node.incarnation file, and while it runs every (incarnation,
\* sequence) is at most its own.  So a restart, which takes the next incarnation,
\* is newer than everything said before it, whatever crashed or failed to be written.
NothingAheadOfItsNode ==
  \A m \in Node :
    /\ h[m].inc <= h[m].epoch
    /\ \A w \in Copies(m) \ {NoMember} :
         w.inc <= h[m].epoch /\ (h[m].up => NotAfter(w, h[m]))
    /\ \A p \in Packets : p.src = m => p.msg.inc <= h[m].epoch /\ (h[m].up => NotAfter(p.msg, h[m]))

\* What a Super Peer knows of another's Peer came from the Peer's home, so no batch
\* in flight is refused for a Peer's record.
GossipIsValid == \A p \in Packets : ValidBatch(p.msg.batch)

\* The home of a Peer is never behind the copies that others have of its record, also
\* after it restarted from its ledger.
HomeIsAhead ==
  ~ WriteErrors => \A p \in Peer, n \in SuperPeer :
    LET H == h[HomeOf(p)]
    IN  H.up /\ h[n].table[p] # NoMember
          => H.table[p] # NoMember /\ NotAfter(h[n].table[p], H.table[p])

Stays(n) == h[n].up /\ h'[n].up

MovesForward(r, q) ==
  r # NoMember => /\ q # NoMember /\ NotAfter(r, q)
                  /\ r.state = REMOVED => q.state = REMOVED \/ q.inc > r.inc

\* A record only moves forward, and a tombstone is only replaced by a later
\* incarnation: in the table while the process runs, and in the ledger for ever, also
\* over crashes, restarts and checkpoints that fail.
RecordsMoveForward ==
  [][\A n, m \in Node :
       /\ Stays(n) => MovesForward(h[n].table[m], h'[n].table[m])
       /\ MovesForward(h[n].ledger[m], h'[n].ledger[m])]_vars

\* The Chord integration admits a Super Peer that is ALIVE, has an incarnation and
\* was seen (refresh_chord_membership).
Admits(s, m) == s.table[m] # NoMember /\ s.table[m].state = ALIVE /\ s.table[m].inc > 0 /\ s.table[m].seen

\* A node applies a packet that m itself sent, of incarnation inc.
Direct(n, m, inc) ==
  \/ \E r \in requests \ requests' : r.src = m /\ r.dst = n /\ r.msg.inc = inc
  \/ job[n][m].phase = "answered" /\ job[n][m].answer.inc = inc /\ job'[n][m].phase # "answered"

\* An instance is admitted to the ring only by a packet of that instance itself: a
\* rumour that it is ALIVE does not inherit the evidence of another instance, or of
\* the time before it was suspected.
AdmittedByDirectEvidence ==
  [][\A n \in Node, m \in SuperPeer :
       /\ Stays(n) /\ Admits(h'[n], m)
       /\ ~ (Admits(h[n], m) /\ h[n].table[m].inc = h'[n].table[m].inc)
       => Direct(n, m, h'[n].table[m].inc)]_vars

\* A LEAVE that arrives late never removes the registration of the process that
\* runs now.
LateLeaveIsHarmless ==
  [][\A p \in Peer : \A r \in requests \ requests' :
       /\ r.msg.type = "LEAVE" /\ r.src = p /\ h[p].up /\ Stays(HomeOf(p))
       /\ h[HomeOf(p)].table[p] # NoMember /\ h[HomeOf(p)].table[p].inc = h[p].inc
       => h'[HomeOf(p)].table[p] = h[HomeOf(p)].table[p]]_vars
=============================================================================
