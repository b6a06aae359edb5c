-------------------------- MODULE HeartbeatProofs ---------------------------
(***************************************************************************)
(* Proofs about the membership service for any number of Super Peers and   *)
(* Peers, any number of calls, crashes and restarts, and with failing      *)
(* writes of both files.                                                   *)
(*                                                                         *)
(* Every change of a record in a member table is of one of three kinds:    *)
(* Kept (the detector, a probe, a LEAVE), Heard (evidence that comes from  *)
(* the node itself: JOIN, heartbeat, discovery) and Told (a copy out of a  *)
(* GOSSIP).  The first part shows it of every operation of the table, and  *)
(* what the kinds of change keep.                                          *)
(*                                                                         *)
(* The second part has the invariant of the membership service and says    *)
(* what its steps are: every step changes at most one Heartbeat object, by *)
(* changes of these kinds, or starts or ends its process, and every        *)
(* message that it adds was made from that object (StepIs).                *)
(*                                                                         *)
(* The third part proves the invariant and the action properties, of the   *)
(* kinds of change and of step, not of the actions.                        *)
(***************************************************************************)
EXTENDS Heartbeat, TLAPS

\* A step that names no prover is for Zenon, which gets up to a minute.
USE ZenonT(60)

----------------------------------------------------------------------------
(* Types *)

Table == [Node -> Member \cup {NoMember}]
Wires == [Node -> WireRecord \cup {NoMember}]

Object == [up : BOOLEAN, epoch : Nat, ledger : Wires, inc : Nat, seq : Nat,
           table : Table, needs : BOOLEAN]

Messages == [type : {"HEARTBEAT", "GOSSIP", "JOIN", "LEAVE", "ERROR", "ACK"},
             inc : Nat, seq : Nat, batch : Wires \cup {NoMember}]

Phases == {"idle", "queued", "sent", "answered", "ok", "failed", "rejected", "advance",
           "join", "joining", "joined", "unjoined", "start", "starting"}

Jobs == [phase : Phases, gossip : BOOLEAN, inc : Nat, seq : Nat, answer : Messages \cup {NoMember}]

Requests == [src : Node, dst : Node, msg : Messages, wait : BOOLEAN]

\* The records of a table, and those of a ledger or a batch, have the fields of
\* their types, and none is NoMember.
LEMMA RecordTypes ==
  /\ \A r \in Member : /\ r # NoMember /\ r.inc \in Nat /\ r.seq \in Nat /\ r.ver \in Nat
                       /\ r.state \in ALIVE..REMOVED /\ r.rep \in Node
                       /\ r.seen \in BOOLEAN /\ r.probes \in 0..2 /\ r.age \in 0..3 /\ r.mine \in BOOLEAN
  /\ \A w \in WireRecord : /\ w # NoMember /\ w.inc \in Nat /\ w.seq \in Nat /\ w.ver \in Nat
                           /\ w.state \in ALIVE..REMOVED /\ w.rep \in Node
<1>1. \A r \in Member : r # NoMember
  BY NoMemberAssumption
<1>2. \A w \in WireRecord : w # NoMember
  BY NoMemberAssumption
<1> QED BY <1>1, <1>2 DEF Member, WireRecord

\* Every entry of a table, a ledger or a batch is a record or NoMember.
LEMMA TableTypes ==
  /\ \A T \in Table, m \in Node : T[m] # NoMember => T[m] \in Member
  /\ \A L \in Wires, m \in Node : L[m] # NoMember => L[m] \in WireRecord
  /\ \A b \in Wires \cup {NoMember}, m \in Node :
       Copy(b, m) # NoMember => b # NoMember /\ b \in Wires /\ Copy(b, m) = b[m] /\ b[m] \in WireRecord
  BY DEF Table, Wires, Copy

\* The parts of an object.
LEMMA ObjectTypes ==
  \A s \in Object : /\ s.up \in BOOLEAN /\ s.epoch \in Nat /\ s.ledger \in Wires /\ s.inc \in Nat
                    /\ s.seq \in Nat /\ s.table \in Table /\ s.needs \in BOOLEAN
  BY DEF Object

----------------------------------------------------------------------------
(* The order of incarnations and sequences *)

\* A record or message w about a node is not ahead of the node's object s.
Behind(w, s) == w.inc <= s.epoch /\ (s.up => NotAfter(w, s))

\* t is a later state of the object s.
Later(s, t) ==
  /\ s.epoch <= t.epoch
  /\ t.up => (s.up /\ NotAfter(s, t)) \/ t.inc > s.epoch

\* What is not ahead of an object is not ahead of it later.
LEMMA BehindLater ==
  ASSUME NEW w, w.inc \in Nat, w.seq \in Nat, NEW s \in Object, NEW t \in Object,
         Behind(w, s), Later(s, t)
  PROVE  Behind(w, t)
<1>1. /\ s.epoch \in Nat /\ s.inc \in Nat /\ s.seq \in Nat
      /\ t.epoch \in Nat /\ t.inc \in Nat /\ t.seq \in Nat
  BY DEF Object
<1> QED BY <1>1, SMTT(60) DEF Behind, Later, NotAfter

TableOK(H, T) == \A m \in Node : T[m] # NoMember => Behind(T[m], H[m])

BatchOK(H, b) == \A m \in Node : Copy(b, m) # NoMember => Behind(Copy(b, m), H[m])

\* When one object moves to a later state, everything about it stays behind it.
LEMMA StaysBehind ==
  ASSUME NEW H \in [Node -> Object], NEW n \in Node, NEW s \in Object, Later(H[n], s),
         NEW G, G = [H EXCEPT ![n] = s]
  PROVE  /\ G \in [Node -> Object]
         /\ \A T \in Table \cup Wires : TableOK(H, T) => TableOK(G, T)
         /\ \A b \in Wires \cup {NoMember} : BatchOK(H, b) => BatchOK(G, b)
         /\ \A m \in Node, p \in Messages : Behind(p, H[m]) => Behind(p, G[m])
<1>1. G \in [Node -> Object]
  OBVIOUS
<1>2. ASSUME NEW m \in Node, NEW w, w.inc \in Nat, w.seq \in Nat, Behind(w, H[m])
      PROVE  Behind(w, G[m])
  <2>1. CASE m = n
    BY <1>2, <2>1, BehindLater
  <2>2. CASE m # n
    BY <1>2, <2>2
  <2> QED BY <2>1, <2>2
<1>3. ASSUME NEW T \in Table \cup Wires, TableOK(H, T) PROVE TableOK(G, T)
  <2>1. ASSUME NEW m \in Node, T[m] # NoMember PROVE T[m].inc \in Nat /\ T[m].seq \in Nat
    BY <2>1 DEF Table, Wires, Member, WireRecord
  <2> QED BY <1>2, <1>3, <2>1 DEF TableOK
<1>4. ASSUME NEW b \in Wires \cup {NoMember}, BatchOK(H, b) PROVE BatchOK(G, b)
  <2>1. ASSUME NEW m \in Node, Copy(b, m) # NoMember
        PROVE  Copy(b, m).inc \in Nat /\ Copy(b, m).seq \in Nat
    BY <2>1 DEF Wires, WireRecord, Copy
  <2> QED BY <1>2, <1>4, <2>1 DEF BatchOK
<1>5. ASSUME NEW m \in Node, NEW p \in Messages, Behind(p, H[m]) PROVE Behind(p, G[m])
  <2>1. p.inc \in Nat /\ p.seq \in Nat
    BY DEF Messages
  <2> QED BY <1>2, <1>5, <2>1
<1> QED BY <1>1, <1>3, <1>4, <1>5

\* t is s or a later state of a process that did not start or end in between.
Grows(s, t) ==
  /\ t \in Object /\ t.up = s.up /\ t.inc <= t.epoch /\ s.epoch <= t.epoch /\ NotAfter(s, t)

\* Growing is transitive, an object grows into itself, and what grew is later.
LEMMA GrowsTwice ==
  ASSUME NEW s \in Object, s.inc <= s.epoch
  PROVE  /\ Grows(s, s)
         /\ \A t : Grows(s, t) => Later(s, t)
         /\ \A t, u : Grows(s, t) /\ Grows(t, u) => Grows(s, u)
<1>1. \A t \in Object : t.epoch \in Nat /\ t.inc \in Nat /\ t.seq \in Nat /\ t.up \in BOOLEAN
  BY DEF Object
<1>2. Grows(s, s)
  BY <1>1, SMTT(60) DEF Grows, NotAfter
<1>3. \A t : Grows(s, t) => Later(s, t)
  BY <1>1 DEF Grows, Later
<1>4. ASSUME NEW t, NEW u, Grows(s, t), Grows(t, u) PROVE Grows(s, u)
  <2>1. t \in Object /\ u \in Object
    BY <1>4 DEF Grows
  <2> QED BY <1>1, <1>4, <2>1, SMTT(60) DEF Grows, NotAfter
<1> QED BY <1>2, <1>3, <1>4

----------------------------------------------------------------------------
(* The three kinds of change *)

\* q comes after r: not an earlier instance or sequence, and not the revival of
\* a tombstone of the same instance.
Forward(r, q) ==
  /\ NotAfter(r, q)
  /\ r.state = REMOVED => q.state = REMOVED \/ q.inc > r.inc

\* n is the one that reports about m: its home if it is a Peer.
Serves(n, m) == m \in Peer => Home[m] = n

\* The record of m at n goes from r to q on n's own account.
KeptRecord(n, m, r, q) ==
  \/ q = r
  \/ /\ r \in Member /\ q \in Member
     /\ q.inc = r.inc /\ q.seq = r.seq /\ q.seen = r.seen /\ q.mine = r.mine
     /\ q.state = ALIVE => r.state = ALIVE
     /\ r.state = REMOVED => q.state = REMOVED
     /\ q.rep = r.rep \/ (q.rep = n /\ (r.mine \/ Serves(n, m)))

\* The record of m at n goes from r to q because of a message of m itself.
HeardRecord(n, m, r, q, inc, seq) ==
  /\ q \in Member /\ q.inc = inc
  /\ q.seq = 0 \/ q.seq = seq \/ (r # NoMember /\ r.inc = inc /\ q.seq = r.seq)
  /\ r # NoMember => Forward(r, q)
  /\ q.rep = n \/ (r # NoMember /\ q.rep = r.rep)
  /\ q.mine => m \in SuperPeer \/ Serves(n, m) \/ (r # NoMember /\ r.mine)

\* The record of m at n goes from r to q because of a copy w that another sent.
ToldRecord(n, m, r, q, w) ==
  \/ q = r
  \/ /\ m # n /\ w # NoMember /\ q \in Member
     /\ q.inc = w.inc /\ q.seq = w.seq /\ q.rep = w.rep
     /\ r # NoMember => Forward(r, q) /\ (m \in Peer => Home[m] # n)
     /\ q.mine => m \in SuperPeer \/ (r # NoMember /\ r.mine)
     /\ q.state = ALIVE /\ q.seen => r # NoMember /\ r.seen /\ r.state = ALIVE /\ r.inc = q.inc

Kept(n, T, U) == U \in Table /\ \A m \in Node : KeptRecord(n, m, T[m], U[m])

Heard(n, T, U, m, inc, seq) ==
  /\ U \in Table /\ HeardRecord(n, m, T[m], U[m], inc, seq)
  /\ \A k \in Node \ {m} : U[k] = T[k]

Told(n, T, U, b) == U \in Table /\ \A m \in Node : ToldRecord(n, m, T[m], U[m], Copy(b, m))

TableForward(T, U) == \A m \in Node : T[m] # NoMember => U[m] # NoMember /\ Forward(T[m], U[m])

----------------------------------------------------------------------------
(* The operations of the member table are changes of these kinds *)

\* A table with one record replaced.
LEMMA UpdateIs ==
  ASSUME NEW T \in Table, NEW m \in Node, NEW q \in Member
  PROVE  /\ [T EXCEPT ![m] = q] \in Table
         /\ [T EXCEPT ![m] = q][m] = q
         /\ \A k \in Node \ {m} : [T EXCEPT ![m] = q][k] = T[k]
  BY DEF Table

\* A transition keeps everything but the state, the version and the reporter.
LEMMA TransitionIs ==
  ASSUME NEW r \in Member, NEW me \in Node, NEW st \in ALIVE..REMOVED
  PROVE  LET q == transition(r, me, st)
         IN  /\ q \in Member /\ q.inc = r.inc /\ q.seq = r.seq /\ q.state = st
             /\ q.age = r.age /\ q.probes = r.probes /\ q.seen = r.seen /\ q.mine = r.mine
             /\ q.rep = r.rep \/ q.rep = me
<1>1. CASE r.state = st
  BY <1>1 DEF transition
<1>2. CASE r.state # st
  <2>1. transition(r, me, st) = [r EXCEPT !.state = st, !.rep = me, !.ver = @ + 1]
    BY <1>2 DEF transition
  <2>2. r.ver + 1 \in Nat
    BY SMTT(60) DEF Member
  <2> QED BY <2>1, <2>2 DEF Member
<1> QED BY <1>1, <1>2

\* ALIVE is a state.
LEMMA AliveIs == ALIVE \in ALIVE..REMOVED /\ ALIVE # REMOVED
  BY SMTT(60) DEF ALIVE, REMOVED

\* membership_register, where it is allowed, is evidence from m itself.
LEMMA RegisterHeard ==
  ASSUME NEW T \in Table, NEW me \in Node, NEW m \in Node, NEW inc \in Nat, NEW seq,
         MayRegister(T, m, inc)
  PROVE  Heard(me, T, Register(T, me, m, inc), m, inc, seq)
<1>1. PICK r : r = IF T[m] = NoMember THEN set_member(me) ELSE T[m]
  OBVIOUS
<1>2. r \in Member
  BY <1>1, SMTT(60) DEF set_member, Member, Table, ALIVE, REMOVED
<1>3. PICK a : a = transition(r, me, ALIVE)
  OBVIOUS
<1>4. a \in Member /\ a.seq = r.seq /\ a.state = ALIVE
  BY <1>2, <1>3, AliveIs, TransitionIs
<1> DEFINE mine == m \in SuperPeer \/ HomeOf(m) = me
<1>5. mine \in BOOLEAN /\ (mine => m \in SuperPeer \/ Serves(me, m))
  BY DEF HomeOf, Serves
<1>6. PICK sq : sq = IF inc = r.inc THEN a.seq ELSE 0
  OBVIOUS
<1>7. sq \in Nat
  BY <1>4, <1>6 DEF Member
<1>8. PICK q : q = [a EXCEPT !.seq = sq, !.inc = inc, !.rep = me, !.age = 0,
                             !.seen = TRUE, !.probes = 0, !.mine = mine]
  OBVIOUS
<1>9. Register(T, me, m, inc) = [T EXCEPT ![m] = q]
  BY <1>1, <1>3, <1>6, <1>8 DEF Register
<1> HIDE DEF mine
<1>10. q \in Member /\ q.inc = inc /\ q.state = ALIVE /\ q.seq = sq /\ q.rep = me /\ q.mine = mine
  <2>1. 0 \in 0..3 /\ 0 \in 0..2 /\ TRUE \in BOOLEAN
    BY SMTT(60)
  <2> QED BY <1>4, <1>5, <1>7, <1>8, <2>1 DEF Member
<1>11. sq = 0 \/ (T[m] # NoMember /\ T[m].inc = inc /\ sq = T[m].seq)
  <2>1. CASE T[m] = NoMember
    <3>1. r.seq = 0
      BY <1>1, <2>1 DEF set_member
    <3> QED BY <1>4, <1>6, <2>1, <3>1
  <2>2. CASE T[m] # NoMember
    BY <1>1, <1>4, <1>6, <2>2
  <2> QED BY <2>1, <2>2
<1>12. ASSUME T[m] # NoMember PROVE Forward(T[m], q)
  <2>1. T[m].inc \in Nat /\ T[m].seq \in Nat /\ T[m].state \in ALIVE..REMOVED
    BY <1>12 DEF Table, Member
  <2>2. T[m].inc <= inc /\ (T[m].state = REMOVED => inc > T[m].inc)
    BY <1>12, <2>1, SMTT(60) DEF MayRegister, FAILED, REMOVED
  <2>3. T[m].inc = inc => sq = T[m].seq
    BY <1>1, <1>4, <1>6, <1>12
  <2> QED BY <1>10, <2>1, <2>2, <2>3, SMTT(60) DEF Forward, NotAfter
<1>13. HeardRecord(me, m, T[m], q, inc, seq)
  BY <1>5, <1>10, <1>11, <1>12 DEF HeardRecord
<1>14. Heard(me, T, [T EXCEPT ![m] = q], m, inc, seq)
  BY <1>10, <1>13, UpdateIs, SMTT(60) DEF Heard
<1> QED BY <1>9, <1>14

\* membership_heartbeat is evidence from m itself.
LEMMA HeartbeatHeard ==
  ASSUME NEW T \in Table, NEW me \in Node, NEW m \in Node, NEW inc \in Nat, NEW seq \in Nat,
         FreshHeartbeat(T, m, inc, seq)
  PROVE  Heard(me, T, ApplyHeartbeat(T, me, m, inc, seq), m, inc, seq)
<1>1. T[m] # NoMember /\ T[m] \in Member
  BY DEF FreshHeartbeat, Table
<1>2. PICK a : a = transition(T[m], me, ALIVE)
  OBVIOUS
<1>3. a \in Member /\ a.mine = T[m].mine /\ (a.rep = T[m].rep \/ a.rep = me)
  BY <1>1, <1>2, AliveIs, TransitionIs, SMTT(60)
<1>4. PICK q : q = [a EXCEPT !.inc = inc, !.seq = seq, !.age = 0, !.seen = TRUE, !.probes = 0]
  OBVIOUS
<1>5. q \in Member /\ q.inc = inc /\ q.seq = seq /\ q.mine = a.mine /\ q.rep = a.rep
  <2>1. 0 \in 0..3 /\ 0 \in 0..2 /\ TRUE \in BOOLEAN
    BY SMTT(60)
  <2> QED BY <1>3, <1>4, <2>1 DEF Member
<1>6. ApplyHeartbeat(T, me, m, inc, seq) = [T EXCEPT ![m] = q]
  BY <1>2, <1>4 DEF ApplyHeartbeat, Table
<1>7. Forward(T[m], q)
  <2>1. T[m].inc \in Nat /\ T[m].seq \in Nat
    BY <1>1 DEF Member
  <2>2. /\ inc >= T[m].inc
        /\ inc = T[m].inc => seq > T[m].seq /\ T[m].state # REMOVED
    BY SMTT(60) DEF FreshHeartbeat, FAILED, REMOVED
  <2> QED BY <1>5, <2>1, <2>2, SMTT(60) DEF Forward, NotAfter
<1>8. HeardRecord(me, m, T[m], q, inc, seq)
  BY <1>1, <1>3, <1>5, <1>7 DEF HeardRecord
<1>9. Heard(me, T, [T EXCEPT ![m] = q], m, inc, seq)
  BY <1>5, <1>8, UpdateIs, SMTT(60) DEF Heard
<1> QED BY <1>6, <1>9

\* A registration and then a heartbeat of the same message is evidence from m.
LEMMA HeardTwice ==
  ASSUME NEW T \in Table, NEW U, NEW V, NEW n \in Node, NEW m \in Node, NEW inc \in Nat, NEW seq \in Nat,
         Heard(n, T, U, m, inc, seq), Heard(n, U, V, m, inc, seq)
  PROVE  Heard(n, T, V, m, inc, seq)
<1>1. U[m] \in Member /\ V[m] \in Member /\ U[m] # NoMember
  BY RecordTypes DEF Heard, HeardRecord
<1>2. \A k \in Node \ {m} : V[k] = T[k]
  BY DEF Heard
<1>3. T[m] # NoMember => Forward(T[m], V[m])
  <2> SUFFICES ASSUME T[m] # NoMember PROVE Forward(T[m], V[m])
    OBVIOUS
  <2>1. T[m] \in Member
    BY TableTypes
  <2>2. Forward(T[m], U[m]) /\ Forward(U[m], V[m])
    BY <1>1 DEF Heard, HeardRecord
  <2> QED BY <1>1, <2>1, <2>2, RecordTypes, SMTT(60) DEF Forward, NotAfter
<1>4. V[m].seq = 0 \/ V[m].seq = seq \/ (T[m] # NoMember /\ T[m].inc = inc /\ V[m].seq = T[m].seq)
  BY DEF Heard, HeardRecord
<1>5. V[m].rep = n \/ (T[m] # NoMember /\ V[m].rep = T[m].rep)
  BY DEF Heard, HeardRecord
<1>6. V[m].mine => m \in SuperPeer \/ Serves(n, m) \/ (T[m] # NoMember /\ T[m].mine)
  BY DEF Heard, HeardRecord
<1>7. V[m].inc = inc /\ V \in Table
  BY DEF Heard, HeardRecord
<1> QED BY <1>1, <1>2, <1>3, <1>4, <1>5, <1>6, <1>7 DEF Heard, HeardRecord

\* A decoded record has what its copy says, and no evidence.
LEMMA DecodedIs ==
  ASSUME NEW w \in WireRecord, NEW mine \in BOOLEAN
  PROVE  LET q == Decoded(w, mine)
         IN  /\ q \in Member /\ q.inc = w.inc /\ q.seq = w.seq /\ q.state = w.state /\ q.rep = w.rep
             /\ q.mine = mine /\ q.seen = FALSE
<1>1. 0 \in 0..3 /\ 0 \in 0..2 /\ FALSE \in BOOLEAN
  BY SMTT(60)
<1> QED BY <1>1 DEF Decoded, Member, WireRecord

\* membership_merge takes a copy as it is told, and nothing of a Peer of its own.
LEMMA MergeTold ==
  ASSUME NEW T \in Table, NEW me \in Node, NEW m \in Node, NEW w \in WireRecord
  PROVE  ToldRecord(me, m, T[m], Merge(T, me, m, w)[m], w)
<1>1. w # NoMember /\ w.inc \in Nat /\ w.seq \in Nat /\ w.state \in ALIVE..REMOVED
  BY RecordTypes
<1>2. CASE T[m] = NoMember /\ m # me
  <2> DEFINE mine == m \in SuperPeer
  <2>1. mine \in BOOLEAN
    BY SMTT(60)
  <2>2. Merge(T, me, m, w)[m] = Decoded(w, mine)
    BY <1>2 DEF Merge, Table
  <2>3. mine => m \in SuperPeer
    OBVIOUS
  <2> HIDE DEF mine
  <2>4. PICK q \in Member : /\ q = Decoded(w, mine) /\ q.inc = w.inc /\ q.seq = w.seq /\ q.rep = w.rep
                            /\ q.mine = mine /\ q.seen = FALSE
    BY <2>1, DecodedIs
  <2> QED BY <1>1, <1>2, <2>2, <2>3, <2>4 DEF ToldRecord
<1>3. CASE T[m] # NoMember /\ m # me /\ TakesCopy(T[m], me, m, w)
  <2>1. T[m] \in Member /\ T[m].inc \in Nat /\ T[m].seq \in Nat /\ T[m].mine \in BOOLEAN /\ T[m].age \in 0..3
    BY <1>3, TableTypes, RecordTypes
  <2> DEFINE seen == T[m].seen /\ w.inc = T[m].inc /\ (T[m].state = ALIVE \/ w.state # ALIVE)
  <2>2. seen \in BOOLEAN
    OBVIOUS
  <2>3. Merge(T, me, m, w)[m] = [Decoded(w, T[m].mine) EXCEPT !.age = T[m].age, !.seen = seen]
    BY <1>3 DEF Merge, Table
  <2>4. seen /\ w.state = ALIVE => T[m].seen /\ T[m].state = ALIVE /\ T[m].inc = w.inc
    OBVIOUS
  <2> HIDE DEF seen
  <2>5. PICK q : q = [Decoded(w, T[m].mine) EXCEPT !.age = T[m].age, !.seen = seen]
    OBVIOUS
  <2>6. PICK d \in Member : /\ d = Decoded(w, T[m].mine) /\ d.inc = w.inc /\ d.seq = w.seq
                            /\ d.state = w.state /\ d.rep = w.rep /\ d.mine = T[m].mine
    BY <2>1, DecodedIs
  <2>7. /\ q \in Member /\ q.inc = w.inc /\ q.seq = w.seq /\ q.state = w.state
        /\ q.rep = w.rep /\ q.mine = T[m].mine /\ q.seen = seen
    BY <2>1, <2>2, <2>5, <2>6 DEF Member
  <2>8. /\ NotAfter(T[m], w) /\ (T[m].state = REMOVED => w.inc > T[m].inc)
        /\ m \in Peer => Home[m] # me
    BY <1>1, <1>3, <2>1, SMTT(60) DEF TakesCopy, Newer, NotAfter, HomeOf
  <2>9. Forward(T[m], q)
    BY <2>7, <2>8 DEF Forward, NotAfter
  <2>10. ToldRecord(me, m, T[m], q, w)
    BY <1>1, <1>3, <2>4, <2>7, <2>8, <2>9 DEF ToldRecord
  <2> QED BY <2>3, <2>5, <2>10
<1>4. CASE m = me \/ (T[m] # NoMember /\ ~TakesCopy(T[m], me, m, w))
  <2>1. Merge(T, me, m, w)[m] = T[m]
    BY <1>4 DEF Merge
  <2> QED BY <2>1 DEF ToldRecord
<1> QED BY <1>2, <1>3, <1>4

\* A table that changed nowhere was told nothing.
LEMMA ToldNothing ==
  ASSUME NEW T \in Table, NEW n, NEW b PROVE Told(n, T, T, b)
  BY DEF Told, ToldRecord

\* The copies of a packet are merged one by one.
LEMMA MergeBatchTold ==
  ASSUME NEW T \in Table, NEW n \in Node, NEW b \in Wires \cup {NoMember}, NEW S
  PROVE  Told(n, T, MergeBatch(T, n, b, S), b)
<1>1. PICK U : U = MergeBatch(T, n, b, S)
  OBVIOUS
<1>2. ASSUME NEW m \in Node
      PROVE  ToldRecord(n, m, T[m], U[m], Copy(b, m))
  <2>1. CASE m \in S /\ Copy(b, m) # NoMember
    <3>1. b[m] \in WireRecord /\ Copy(b, m) = b[m]
      BY <2>1, TableTypes
    <3>2. U[m] = Merge(T, n, m, b[m])[m]
      BY <1>1, <2>1 DEF MergeBatch
    <3>3. ToldRecord(n, m, T[m], Merge(T, n, m, b[m])[m], b[m])
      BY <3>1, MergeTold
    <3> QED BY <3>1, <3>2, <3>3
  <2>2. CASE ~(m \in S /\ Copy(b, m) # NoMember)
    <3>1. U[m] = T[m]
      BY <1>1, <2>2 DEF MergeBatch
    <3> QED BY <3>1 DEF ToldRecord
  <2> QED BY <2>1, <2>2
<1>3. U = [m \in Node |-> U[m]]
  BY <1>1 DEF MergeBatch
<1>4. \A m \in Node : T[m] \in Member \cup {NoMember}
  BY DEF Table
<1>5. \A m \in Node : U[m] \in Member \cup {NoMember}
  BY <1>2, <1>4 DEF ToldRecord
<1>6. U \in Table
  BY <1>3, <1>5 DEF Table
<1> QED BY <1>1, <1>2, <1>6 DEF Told

\* A table is kept by itself, and by a change of one record that is.
LEMMA KeptUpdate ==
  ASSUME NEW T \in Table, NEW n
  PROVE  /\ Kept(n, T, T)
         /\ \A m \in Node, q \in Member :
              KeptRecord(n, m, T[m], q) => Kept(n, T, [T EXCEPT ![m] = q])
<1>1. Kept(n, T, T)
  BY DEF Kept, KeptRecord
<1>2. ASSUME NEW m \in Node, NEW q \in Member, KeptRecord(n, m, T[m], q)
      PROVE  Kept(n, T, [T EXCEPT ![m] = q])
  <2>1. PICK U : U = [T EXCEPT ![m] = q]
    OBVIOUS
  <2>2. U \in Table /\ U[m] = q /\ \A k \in Node \ {m} : U[k] = T[k]
    BY <2>1 DEF Table
  <2>3. \A k \in Node : KeptRecord(n, k, T[k], U[k])
    BY <1>2, <2>2 DEF KeptRecord
  <2> QED BY <2>1, <2>2, <2>3 DEF Kept
<1> QED BY <1>1, <1>2

\* A failed probe only counts.
LEMMA ProbeKept ==
  ASSUME NEW T \in Table, NEW n, NEW m \in Node, NEW inc, NEW seq
  PROVE  Kept(n, T, Probe(T, m, inc, seq))
<1>1. CASE Probe(T, m, inc, seq) = T
  BY <1>1, KeptUpdate
<1>2. CASE Probe(T, m, inc, seq) # T
  <2>1. T[m] # NoMember /\ T[m].probes < 2 /\ Probe(T, m, inc, seq) = [T EXCEPT ![m].probes = @ + 1]
    BY <1>2 DEF Probe
  <2>2. T[m] \in Member /\ T[m].probes \in 0..2
    BY <2>1, TableTypes, RecordTypes
  <2>3. PICK q : q = [T[m] EXCEPT !.probes = @ + 1]
    OBVIOUS
  <2>4. T[m].probes + 1 \in 0..2
    BY <2>1, <2>2, SMTT(60)
  <2>5. /\ q \in Member /\ q.inc = T[m].inc /\ q.seq = T[m].seq /\ q.state = T[m].state
        /\ q.seen = T[m].seen /\ q.mine = T[m].mine /\ q.rep = T[m].rep
    BY <2>2, <2>3, <2>4 DEF Member
  <2>6. Probe(T, m, inc, seq) = [T EXCEPT ![m] = q]
    BY <2>1, <2>3 DEF Table
  <2>7. KeptRecord(n, m, T[m], q)
    BY <2>2, <2>5 DEF KeptRecord
  <2>8. Kept(n, T, [T EXCEPT ![m] = q])
    BY <2>5, <2>7, KeptUpdate
  <2> QED BY <2>6, <2>8
<1> QED BY <1>1, <1>2

\* Growing old is no evidence.
LEMMA AgeKept ==
  ASSUME NEW T \in Table, NEW n, NEW m \in Node, T[m] # NoMember, T[m].age < 3
  PROVE  Kept(n, T, [T EXCEPT ![m].age = @ + 1])
<1>1. T[m] \in Member /\ T[m].age \in 0..3
  BY TableTypes, RecordTypes
<1>2. PICK q : q = [T[m] EXCEPT !.age = @ + 1]
  OBVIOUS
<1>3. T[m].age + 1 \in 0..3
  BY <1>1, SMTT(60)
<1>4. /\ q \in Member /\ q.inc = T[m].inc /\ q.seq = T[m].seq /\ q.state = T[m].state
      /\ q.seen = T[m].seen /\ q.mine = T[m].mine /\ q.rep = T[m].rep
  BY <1>1, <1>2, <1>3 DEF Member
<1>5. [T EXCEPT ![m].age = @ + 1] = [T EXCEPT ![m] = q]
  BY <1>2 DEF Table
<1>6. KeptRecord(n, m, T[m], q)
  BY <1>1, <1>4 DEF KeptRecord
<1>7. Kept(n, T, [T EXCEPT ![m] = q])
  BY <1>4, <1>6, KeptUpdate
<1> QED BY <1>5, <1>7

\* The detector judges the records that are n's to judge, and never leaves REMOVED.
LEMMA TickKept ==
  ASSUME NEW T \in Table, NEW me \in Node
  PROVE  Kept(me, T, Tick(T, me))
<1>1. ASSUME NEW r \in Member
      PROVE  LET q == TickMember(r, me)
             IN  /\ q \in Member /\ q.inc = r.inc /\ q.seq = r.seq
                 /\ q.seen = r.seen /\ q.mine = r.mine
                 /\ q.state = ALIVE => r.state = ALIVE
                 /\ r.state = REMOVED => q.state = REMOVED
                 /\ q.rep = r.rep \/ q.rep = me
  <2>1. /\ SUSPECT \in ALIVE..REMOVED /\ FAILED \in ALIVE..REMOVED /\ REMOVED \in ALIVE..REMOVED
        /\ ALIVE # SUSPECT /\ ALIVE # FAILED /\ ALIVE # REMOVED /\ SUSPECT # REMOVED
    BY SMTT(60) DEF ALIVE, SUSPECT, FAILED, REMOVED
  <2>2. PICK a : a = IF r.state = ALIVE /\ r.age >= 1 THEN transition(r, me, SUSPECT) ELSE r
    OBVIOUS
  <2>3. /\ a \in Member /\ a.inc = r.inc /\ a.seq = r.seq /\ a.seen = r.seen /\ a.mine = r.mine
        /\ r.state = REMOVED => a.state = REMOVED
        /\ a.state = ALIVE => r.state = ALIVE
        /\ a.rep = r.rep \/ a.rep = me
    BY <2>1, <2>2, TransitionIs, SMTT(60)
  <2>4. PICK b : b = IF a.state = SUSPECT /\ a.age >= 2 /\ a.probes >= 2 THEN transition(a, me, FAILED) ELSE a
    OBVIOUS
  <2>5. /\ b \in Member /\ b.inc = r.inc /\ b.seq = r.seq /\ b.seen = r.seen /\ b.mine = r.mine
        /\ r.state = REMOVED => b.state = REMOVED
        /\ b.state = ALIVE => r.state = ALIVE
        /\ b.rep = r.rep \/ b.rep = me
    BY <2>1, <2>3, <2>4, TransitionIs, SMTT(60)
  <2>6. TickMember(r, me) = IF b.state = FAILED /\ b.age >= 3 THEN transition(b, me, REMOVED) ELSE b
    BY <2>2, <2>4 DEF TickMember
  <2> QED BY <2>1, <2>5, <2>6, TransitionIs, SMTT(60)
<1>2. PICK U : U = Tick(T, me)
  OBVIOUS
<1>3. U = [m \in Node |-> U[m]]
  BY <1>2 DEF Tick
<1>4. ASSUME NEW m \in Node PROVE KeptRecord(me, m, T[m], U[m])
  <2>1. CASE m # me /\ T[m] # NoMember /\ T[m].mine
    <3>1. U[m] = TickMember(T[m], me) /\ T[m] \in Member
      BY <1>2, <2>1, TableTypes DEF Tick
    <3>2. PICK q \in Member : /\ q = U[m] /\ q.inc = T[m].inc /\ q.seq = T[m].seq
                              /\ q.seen = T[m].seen /\ q.mine = T[m].mine
                              /\ q.state = ALIVE => T[m].state = ALIVE
                              /\ T[m].state = REMOVED => q.state = REMOVED
                              /\ q.rep = T[m].rep \/ q.rep = me
      BY <1>1, <3>1
    <3>3. KeptRecord(me, m, T[m], q)
      BY <2>1, <3>1, <3>2 DEF KeptRecord
    <3> QED BY <3>2, <3>3
  <2>2. CASE ~(m # me /\ T[m] # NoMember /\ T[m].mine)
    BY <1>2, <2>2 DEF Tick, KeptRecord
  <2> QED BY <2>1, <2>2
<1>5. \A m \in Node : T[m] \in Member \cup {NoMember}
  BY DEF Table
<1>6. \A m \in Node : U[m] \in Member \cup {NoMember}
  BY <1>4, <1>5 DEF KeptRecord
<1>7. U \in Table
  BY <1>3, <1>6 DEF Table
<1> QED BY <1>2, <1>4, <1>7 DEF Kept

\* An accepted LEAVE makes a tombstone.
LEMMA UnregisterKept ==
  ASSUME NEW T \in Table, NEW me \in Node, NEW m \in Node, T[m] # NoMember, Serves(me, m)
  PROVE  Kept(me, T, Unregister(T, me, m))
<1>1. T[m] \in Member /\ T[m].ver + 1 \in Nat
  BY SMTT(60) DEF Table, Member
<1>2. PICK q : q = [T[m] EXCEPT !.state = REMOVED, !.rep = me, !.ver = @ + 1]
  OBVIOUS
<1>3. REMOVED \in ALIVE..REMOVED
  BY SMTT(60) DEF ALIVE, REMOVED
<1>4. /\ q \in Member /\ q.inc = T[m].inc /\ q.seq = T[m].seq /\ q.state = REMOVED
      /\ q.seen = T[m].seen /\ q.mine = T[m].mine /\ q.rep = me
  BY <1>1, <1>2, <1>3 DEF Member
<1>5. Unregister(T, me, m) = [T EXCEPT ![m] = q]
  BY <1>2 DEF Unregister
<1>6. KeptRecord(me, m, T[m], q)
  BY <1>1, <1>4, AliveIs DEF KeptRecord
<1>7. Kept(me, T, [T EXCEPT ![m] = q])
  BY <1>4, <1>6, KeptUpdate
<1> QED BY <1>5, <1>7

\* The ledger is written with what the table says.
LEMMA SaveIs ==
  ASSUME NEW T \in Table
  PROVE  /\ Save(T) \in Wires
         /\ \A m \in Node : IF T[m] = NoMember THEN Save(T)[m] = NoMember
                            ELSE /\ Save(T)[m] # NoMember /\ Save(T)[m].inc = T[m].inc
                                 /\ Save(T)[m].seq = T[m].seq /\ Save(T)[m].state = T[m].state
                                 /\ Save(T)[m].rep = T[m].rep
<1>1. ASSUME NEW r \in Member
      PROVE  /\ Wire(r) \in WireRecord /\ Wire(r).inc = r.inc /\ Wire(r).seq = r.seq
             /\ Wire(r).state = r.state /\ Wire(r).rep = r.rep
  BY DEF Wire, Member, WireRecord
<1>2. \A m \in Node : T[m] \in Member \cup {NoMember}
  BY DEF Table
<1>3. \A m \in Node : Save(T)[m] = IF T[m] = NoMember THEN NoMember ELSE Wire(T[m])
  BY DEF Save
<1>4. Save(T) \in Wires
  BY <1>1, <1>2 DEF Save, Wires
<1> QED BY <1>1, <1>2, <1>3, <1>4, NoMemberAssumption, SMTT(60)

\* The ledger is read with what it says; a record of a Peer is the home's own.
LEMMA LoadIs ==
  ASSUME NEW L \in Wires, NEW me \in Node
  PROVE  /\ Load(L, me) \in Table
         /\ \A m \in Node : IF m = me \/ L[m] = NoMember THEN Load(L, me)[m] = NoMember
                            ELSE /\ Load(L, me)[m] # NoMember /\ Load(L, me)[m].inc = L[m].inc
                                 /\ Load(L, me)[m].seq = L[m].seq /\ Load(L, me)[m].state = L[m].state
                                 /\ Load(L, me)[m].rep = L[m].rep
                                 /\ Load(L, me)[m].mine => m \in SuperPeer \/ Serves(me, m)
<1>1. \A m \in Node : L[m] \in WireRecord \cup {NoMember}
  BY DEF Wires
<1>2. ASSUME NEW m \in Node
      PROVE  \/ (m = me \/ L[m] = NoMember) /\ Load(L, me)[m] = NoMember
             \/ /\ ~(m = me \/ L[m] = NoMember)
                /\ \E mine \in BOOLEAN : /\ Load(L, me)[m] = Decoded(L[m], mine)
                                         /\ mine => m \in SuperPeer \/ Serves(me, m)
  <2> DEFINE mine == m \in SuperPeer \/ HomeOf(m) = me
  <2>1. mine \in BOOLEAN /\ (mine => m \in SuperPeer \/ Serves(me, m))
    BY DEF HomeOf, Serves
  <2>2. Load(L, me)[m] = IF m = me \/ L[m] = NoMember THEN NoMember ELSE Decoded(L[m], mine)
    BY DEF Load
  <2> HIDE DEF mine
  <2> QED BY <2>1, <2>2
<1>3. Load(L, me) = [m \in Node |-> Load(L, me)[m]]
  BY DEF Load
<1>4. \A m \in Node : IF m = me \/ L[m] = NoMember THEN Load(L, me)[m] = NoMember
                      ELSE /\ Load(L, me)[m] \in Member /\ Load(L, me)[m].inc = L[m].inc
                           /\ Load(L, me)[m].seq = L[m].seq /\ Load(L, me)[m].state = L[m].state
                           /\ Load(L, me)[m].rep = L[m].rep
                           /\ Load(L, me)[m].mine => m \in SuperPeer \/ Serves(me, m)
  <2> SUFFICES ASSUME NEW m \in Node, ~(m = me \/ L[m] = NoMember)
               PROVE  /\ Load(L, me)[m] \in Member /\ Load(L, me)[m].inc = L[m].inc
                      /\ Load(L, me)[m].seq = L[m].seq /\ Load(L, me)[m].state = L[m].state
                      /\ Load(L, me)[m].rep = L[m].rep
                      /\ Load(L, me)[m].mine => m \in SuperPeer \/ Serves(me, m)
    BY <1>2
  <2>1. PICK mine \in BOOLEAN : /\ Load(L, me)[m] = Decoded(L[m], mine)
                                /\ mine => m \in SuperPeer \/ Serves(me, m)
    BY <1>2
  <2>2. L[m] \in WireRecord
    BY <1>1
  <2>3. PICK q \in Member : /\ q = Decoded(L[m], mine) /\ q.inc = L[m].inc /\ q.seq = L[m].seq
                            /\ q.state = L[m].state /\ q.rep = L[m].rep /\ q.mine = mine
    BY <2>2, DecodedIs
  <2> QED BY <2>1, <2>3
<1>5. Load(L, me) \in Table
  BY <1>3, <1>4 DEF Table
<1> QED BY <1>4, <1>5, NoMemberAssumption

----------------------------------------------------------------------------
(* What the kinds of change keep *)

\* A table is not before itself, and moving forward twice is moving forward.
LEMMA ForwardTwice ==
  ASSUME NEW T \in Table \cup Wires
  PROVE  /\ TableForward(T, T)
         /\ \A U, V \in Table : TableForward(T, U) /\ TableForward(U, V) => TableForward(T, V)
<1>1. \A U \in Table \cup Wires, m \in Node : U[m] # NoMember => U[m].inc \in Nat /\ U[m].seq \in Nat
  BY TableTypes, RecordTypes
<1>2. TableForward(T, T)
  BY <1>1, SMTT(60) DEF TableForward, Forward, NotAfter
<1>3. ASSUME NEW U \in Table, NEW V \in Table, TableForward(T, U), TableForward(U, V)
      PROVE  TableForward(T, V)
  <2> SUFFICES ASSUME NEW m \in Node, T[m] # NoMember PROVE V[m] # NoMember /\ Forward(T[m], V[m])
    BY DEF TableForward
  <2>1. U[m] # NoMember /\ Forward(T[m], U[m]) /\ V[m] # NoMember /\ Forward(U[m], V[m])
    BY <1>3 DEF TableForward
  <2>2. /\ T[m].inc \in Nat /\ T[m].seq \in Nat /\ U[m].inc \in Nat /\ U[m].seq \in Nat
        /\ V[m].inc \in Nat /\ V[m].seq \in Nat
    BY <1>1, <2>1
  <2> QED BY <2>1, <2>2, SMTT(60) DEF Forward, NotAfter
<1> QED BY <1>2, <1>3

\* No kind of change takes a record back.
LEMMA KindsForward ==
  ASSUME NEW T \in Table, NEW n, NEW U
  PROVE  /\ Kept(n, T, U) => TableForward(T, U)
         /\ \A m \in Node : \A inc, seq : Heard(n, T, U, m, inc, seq) => TableForward(T, U)
         /\ \A b : Told(n, T, U, b) => TableForward(T, U)
<1>1. ASSUME NEW k \in Node, T[k] # NoMember PROVE T[k] \in Member /\ T[k].inc \in Nat /\ T[k].seq \in Nat
  BY <1>1, TableTypes, RecordTypes
<1>2. ASSUME NEW k \in Node, T[k] # NoMember PROVE Forward(T[k], T[k])
  BY <1>1, <1>2, SMTT(60) DEF Forward, NotAfter
<1>3. ASSUME Kept(n, T, U) PROVE TableForward(T, U)
  <2> SUFFICES ASSUME NEW k \in Node, T[k] # NoMember PROVE U[k] # NoMember /\ Forward(T[k], U[k])
    BY DEF TableForward
  <2>1. KeptRecord(n, k, T[k], U[k])
    BY <1>3 DEF Kept
  <2> QED BY <1>1, <1>2, <2>1, RecordTypes DEF KeptRecord, Forward, NotAfter
<1>4. ASSUME NEW m \in Node, NEW inc, NEW seq, Heard(n, T, U, m, inc, seq) PROVE TableForward(T, U)
  <2> SUFFICES ASSUME NEW k \in Node, T[k] # NoMember PROVE U[k] # NoMember /\ Forward(T[k], U[k])
    BY DEF TableForward
  <2>1. CASE k = m
    BY <1>4, <2>1, RecordTypes DEF Heard, HeardRecord
  <2>2. CASE k # m
    BY <1>2, <1>4, <2>2 DEF Heard
  <2> QED BY <2>1, <2>2
<1>5. ASSUME NEW b, Told(n, T, U, b) PROVE TableForward(T, U)
  <2> SUFFICES ASSUME NEW k \in Node, T[k] # NoMember PROVE U[k] # NoMember /\ Forward(T[k], U[k])
    BY DEF TableForward
  <2>1. ToldRecord(n, k, T[k], U[k], Copy(b, k))
    BY <1>5 DEF Told
  <2> QED BY <1>2, <2>1, RecordTypes DEF ToldRecord
<1> QED BY <1>3, <1>4, <1>5

\* A node never gets a record of itself.
LEMMA KindsNoSelf ==
  ASSUME NEW T \in Table, NEW n \in Node, NEW U, T[n] = NoMember
  PROVE  /\ Kept(n, T, U) => U[n] = NoMember
         /\ \A m \in Node \ {n} : \A inc, seq : Heard(n, T, U, m, inc, seq) => U[n] = NoMember
         /\ \A b : Told(n, T, U, b) => U[n] = NoMember
<1>1. Kept(n, T, U) => KeptRecord(n, n, T[n], U[n])
  BY DEF Kept
<1>2. \A b : Told(n, T, U, b) => ToldRecord(n, n, T[n], U[n], Copy(b, n))
  BY DEF Told
<1>3. \A m \in Node \ {n} : \A inc, seq : Heard(n, T, U, m, inc, seq) => U[n] = T[n]
  BY DEF Heard
<1>4. Kept(n, T, U) => U[n] = NoMember
  BY <1>1, RecordTypes DEF KeptRecord
<1>5. \A b : Told(n, T, U, b) => U[n] = NoMember
  BY <1>2 DEF ToldRecord
<1> QED BY <1>3, <1>4, <1>5

\* Nothing in a table gets ahead of the node it is about, when the message was not.
LEMMA KindsBehind ==
  ASSUME NEW H \in [Node -> Object], NEW T \in Table, TableOK(H, T), NEW n, NEW U
  PROVE  /\ Kept(n, T, U) => TableOK(H, U)
         /\ \A m \in Node, p \in Messages :
              Heard(n, T, U, m, p.inc, p.seq) /\ Behind(p, H[m]) => TableOK(H, U)
         /\ \A b : Told(n, T, U, b) /\ BatchOK(H, b) => TableOK(H, U)
<1>1. ASSUME Kept(n, T, U) PROVE TableOK(H, U)
  <2> SUFFICES ASSUME NEW k \in Node, U[k] # NoMember PROVE Behind(U[k], H[k])
    BY DEF TableOK
  <2>1. KeptRecord(n, k, T[k], U[k])
    BY <1>1 DEF Kept
  <2>2. T[k] # NoMember /\ T[k].inc = U[k].inc /\ T[k].seq = U[k].seq
    BY <2>1, RecordTypes DEF KeptRecord
  <2> QED BY <2>2 DEF TableOK, Behind, NotAfter
<1>2. ASSUME NEW m \in Node, NEW p \in Messages, Heard(n, T, U, m, p.inc, p.seq), Behind(p, H[m])
      PROVE  TableOK(H, U)
  <2> SUFFICES ASSUME NEW k \in Node, U[k] # NoMember PROVE Behind(U[k], H[k])
    BY DEF TableOK
  <2>1. CASE k = m
    <3>1. /\ H[m].inc \in Nat /\ H[m].seq \in Nat /\ H[m].epoch \in Nat
          /\ p.inc \in Nat /\ p.seq \in Nat
      BY ObjectTypes DEF Messages
    <3>2. /\ U[m].inc = p.inc
          /\ U[m].seq = 0 \/ U[m].seq = p.seq \/ (T[m] # NoMember /\ T[m].inc = p.inc /\ U[m].seq = T[m].seq)
      BY <1>2 DEF Heard, HeardRecord
    <3>3. T[m] # NoMember => Behind(T[m], H[m])
      BY DEF TableOK
    <3> QED BY <1>2, <2>1, <3>1, <3>2, <3>3, SMTT(60) DEF Behind, NotAfter
  <2>2. CASE k # m
    BY <1>2, <2>2 DEF Heard, TableOK
  <2> QED BY <2>1, <2>2
<1>3. ASSUME NEW b, Told(n, T, U, b), BatchOK(H, b) PROVE TableOK(H, U)
  <2> SUFFICES ASSUME NEW k \in Node, U[k] # NoMember PROVE Behind(U[k], H[k])
    BY DEF TableOK
  <2>1. ToldRecord(n, k, T[k], U[k], Copy(b, k))
    BY <1>3 DEF Told
  <2>2. CASE U[k] = T[k]
    BY <2>2 DEF TableOK
  <2>3. CASE U[k] # T[k]
    <3>1. Copy(b, k) # NoMember /\ U[k].inc = Copy(b, k).inc /\ U[k].seq = Copy(b, k).seq
      BY <2>1, <2>3 DEF ToldRecord
    <3> QED BY <1>3, <3>1 DEF BatchOK, Behind, NotAfter
  <2> QED BY <2>2, <2>3
<1> QED BY <1>1, <1>2, <1>3

\* What n's table says of a Peer was reported by the Peer's home, and n only judges
\* its own Peers.
Reported(n, T) ==
  \A m \in Peer : T[m] # NoMember => T[m].rep = Home[m] /\ (T[m].mine => Home[m] = n)

\* Every change keeps the reporters of the Peers' records.
LEMMA KindsReported ==
  ASSUME NEW T \in Table, NEW n, NEW U, Reported(n, T)
  PROVE  /\ Kept(n, T, U) => Reported(n, U)
         /\ \A m \in Node : \A inc, seq :
              Heard(n, T, U, m, inc, seq) /\ Serves(n, m) => Reported(n, U)
         /\ \A b : Told(n, T, U, b) /\ ValidBatch(b) => Reported(n, U)
<1>1. \A k \in Peer : k \in Node /\ k \notin SuperPeer
  BY MembershipAssumption DEF Node
<1>2. ASSUME Kept(n, T, U) PROVE Reported(n, U)
  <2> SUFFICES ASSUME NEW k \in Peer, U[k] # NoMember
               PROVE  U[k].rep = Home[k] /\ (U[k].mine => Home[k] = n)
    BY DEF Reported
  <2>1. KeptRecord(n, k, T[k], U[k])
    BY <1>1, <1>2 DEF Kept
  <2>2. T[k] # NoMember
    BY <2>1, RecordTypes DEF KeptRecord
  <2>3. T[k].rep = Home[k] /\ (T[k].mine => Home[k] = n)
    BY <2>2 DEF Reported
  <2> QED BY <2>1, <2>3 DEF KeptRecord, Serves
<1>3. ASSUME NEW m \in Node, NEW inc, NEW seq, Heard(n, T, U, m, inc, seq), Serves(n, m)
      PROVE  Reported(n, U)
  <2> SUFFICES ASSUME NEW k \in Peer, U[k] # NoMember
               PROVE  U[k].rep = Home[k] /\ (U[k].mine => Home[k] = n)
    BY DEF Reported
  <2>1. CASE k = m
    <3>1. Home[k] = n
      BY <1>3, <2>1 DEF Serves
    <3>2. U[k].rep = n \/ (T[k] # NoMember /\ U[k].rep = T[k].rep)
      BY <1>3, <2>1 DEF Heard, HeardRecord
    <3> QED BY <3>1, <3>2 DEF Reported
  <2>2. CASE k # m
    BY <1>1, <1>3, <2>2 DEF Heard, Reported
  <2> QED BY <2>1, <2>2
<1>4. ASSUME NEW b, Told(n, T, U, b), ValidBatch(b) PROVE Reported(n, U)
  <2> SUFFICES ASSUME NEW k \in Peer, U[k] # NoMember
               PROVE  U[k].rep = Home[k] /\ (U[k].mine => Home[k] = n)
    BY DEF Reported
  <2>1. ToldRecord(n, k, T[k], U[k], Copy(b, k))
    BY <1>1, <1>4 DEF Told
  <2>2. CASE U[k] = T[k]
    BY <2>2 DEF Reported
  <2>3. CASE U[k] # T[k]
    <3>1. /\ Copy(b, k) # NoMember /\ U[k].rep = Copy(b, k).rep
          /\ U[k].mine => T[k] # NoMember /\ T[k].mine
      BY <1>1, <2>1, <2>3 DEF ToldRecord
    <3>2. Copy(b, k).rep = Home[k]
      BY <1>4, <3>1 DEF ValidBatch, Copy, HomeOf
    <3> QED BY <3>1, <3>2 DEF Reported
  <2> QED BY <2>2, <2>3
<1> QED BY <1>2, <1>3, <1>4

\* L holds a record of each Peer that is not before the one in T.
Covered(L, T) ==
  \A m \in Peer : T[m] # NoMember => L[m] # NoMember /\ NotAfter(T[m], L[m])

CoveredBatch(L, b) ==
  \A m \in Peer : Copy(b, m) # NoMember => L[m] # NoMember /\ NotAfter(Copy(b, m), L[m])

\* What a node keeps or is told stays covered.
LEMMA KindsCovered ==
  ASSUME NEW L, NEW T \in Table, Covered(L, T), NEW n, NEW U
  PROVE  /\ Kept(n, T, U) => Covered(L, U)
         /\ \A b : Told(n, T, U, b) /\ CoveredBatch(L, b) => Covered(L, U)
<1>1. \A k \in Peer : k \in Node
  BY DEF Node
<1>2. ASSUME Kept(n, T, U) PROVE Covered(L, U)
  <2> SUFFICES ASSUME NEW k \in Peer, U[k] # NoMember PROVE L[k] # NoMember /\ NotAfter(U[k], L[k])
    BY DEF Covered
  <2>1. KeptRecord(n, k, T[k], U[k])
    BY <1>1, <1>2 DEF Kept
  <2>2. T[k] # NoMember /\ T[k].inc = U[k].inc /\ T[k].seq = U[k].seq
    BY <2>1, RecordTypes DEF KeptRecord
  <2> QED BY <2>2 DEF Covered, NotAfter
<1>3. ASSUME NEW b, Told(n, T, U, b), CoveredBatch(L, b) PROVE Covered(L, U)
  <2> SUFFICES ASSUME NEW k \in Peer, U[k] # NoMember PROVE L[k] # NoMember /\ NotAfter(U[k], L[k])
    BY DEF Covered
  <2>1. ToldRecord(n, k, T[k], U[k], Copy(b, k))
    BY <1>1, <1>3 DEF Told
  <2>2. CASE U[k] = T[k]
    BY <2>2 DEF Covered
  <2>3. CASE U[k] # T[k]
    <3>1. Copy(b, k) # NoMember /\ U[k].inc = Copy(b, k).inc /\ U[k].seq = Copy(b, k).seq
      BY <2>1, <2>3 DEF ToldRecord
    <3> QED BY <1>3, <3>1 DEF CoveredBatch, NotAfter
  <2> QED BY <2>2, <2>3
<1> QED BY <1>2, <1>3

\* A record that the Chord integration admits.
Admitted(r) == r # NoMember /\ r.state = ALIVE /\ r.inc > 0 /\ r.seen

\* The table U admits k, and T admits the same instance of it.
AdmittedIn(U, k) == Admitted(U[k])
SameAdmitted(T, U, k) == Admitted(T[k]) /\ T[k].inc = U[k].inc

\* Only what is heard from the instance itself admits an instance.
LEMMA KindsAdmitted ==
  ASSUME NEW T \in Table, NEW n, NEW U, NEW k \in Node, AdmittedIn(U, k)
  PROVE  /\ Kept(n, T, U) => SameAdmitted(T, U, k)
         /\ \A m \in Node : \A inc, seq : Heard(n, T, U, m, inc, seq) =>
              SameAdmitted(T, U, k) \/ (k = m /\ U[k].inc = inc)
         /\ \A b : Told(n, T, U, b) => SameAdmitted(T, U, k)
<1>1. ASSUME Kept(n, T, U) PROVE SameAdmitted(T, U, k)
  <2>1. KeptRecord(n, k, T[k], U[k])
    BY <1>1 DEF Kept
  <2> QED BY <2>1, RecordTypes DEF KeptRecord, Admitted, AdmittedIn, SameAdmitted
<1>2. ASSUME NEW m \in Node, NEW inc, NEW seq, Heard(n, T, U, m, inc, seq)
      PROVE  SameAdmitted(T, U, k) \/ (k = m /\ U[k].inc = inc)
  BY <1>2 DEF Heard, HeardRecord, AdmittedIn, SameAdmitted
<1>3. ASSUME NEW b, Told(n, T, U, b) PROVE SameAdmitted(T, U, k)
  <2>1. ToldRecord(n, k, T[k], U[k], Copy(b, k))
    BY <1>3 DEF Told
  <2> QED BY <2>1 DEF ToldRecord, Admitted, AdmittedIn, SameAdmitted
<1> QED BY <1>1, <1>2, <1>3

----------------------------------------------------------------------------
(* The operations of the Heartbeat object *)

\* A new incarnation is later than everything on disk; a failed one changes at
\* most the file.
LEMMA AdvanceEpochIs ==
  ASSUME NEW s \in Object, s.inc <= s.epoch, NEW o \in AdvanceEpoch(s)
  PROVE  /\ Grows(s, o.s) /\ o.s.table = s.table /\ o.s.ledger = s.ledger
         /\ o.ok => o.s.inc > s.epoch
<1>1. s.epoch \in Nat /\ s.inc \in Nat /\ s.seq \in Nat /\ MaxEpoch \in Nat
  BY HeartbeatAssumption DEF Object
<1>2. PICK old \in Nat : old = s.epoch
  BY <1>1
<1>3. (IF s.epoch > s.inc THEN s.epoch ELSE s.inc) = old
  BY <1>1, <1>2, SMTT(60)
<1>4. \/ o = Outcome(FALSE, s)
      \/ o = Outcome(TRUE, [s EXCEPT !.epoch = old + 1, !.inc = old + 1, !.seq = 0])
      \/ o = Outcome(FALSE, [s EXCEPT !.epoch = old + 1])
  BY <1>3 DEF AdvanceEpoch
<1>5. CASE o = Outcome(FALSE, s)
  <2>1. o.s = s /\ o.ok = FALSE
    BY <1>5 DEF Outcome
  <2> QED BY <2>1, GrowsTwice
<1>6. CASE o = Outcome(TRUE, [s EXCEPT !.epoch = old + 1, !.inc = old + 1, !.seq = 0])
  <2>1. o.ok = TRUE /\ o.s = [s EXCEPT !.epoch = old + 1, !.inc = old + 1, !.seq = 0]
    BY <1>6 DEF Outcome
  <2>2. o.s \in Object
    <3>1. old + 1 \in Nat /\ 0 \in Nat
      BY <1>2, SMTT(60)
    <3> QED BY <2>1, <3>1 DEF Object
  <2>3. /\ o.s.epoch = old + 1 /\ o.s.inc = old + 1
        /\ o.s.table = s.table /\ o.s.ledger = s.ledger /\ o.s.up = s.up
    BY <2>1, SMTT(60) DEF Object
  <2> QED BY <1>1, <1>2, <2>1, <2>2, <2>3, SMTT(60) DEF Grows, NotAfter
<1>7. CASE o = Outcome(FALSE, [s EXCEPT !.epoch = old + 1])
  <2>1. o.ok = FALSE /\ o.s = [s EXCEPT !.epoch = old + 1]
    BY <1>7 DEF Outcome
  <2>2. o.s \in Object
    BY <2>1, SMTT(60) DEF Object
  <2>3. /\ o.s.epoch = old + 1 /\ o.s.inc = s.inc /\ o.s.seq = s.seq
        /\ o.s.table = s.table /\ o.s.ledger = s.ledger /\ o.s.up = s.up
    BY <2>1 DEF Object
  <2> QED BY <1>1, <1>2, <2>1, <2>2, <2>3, SMTT(60) DEF Grows, NotAfter
<1> QED BY <1>4, <1>5, <1>6, <1>7

\* The next sequence, or the first one of a new incarnation, is later.
LEMMA LocalRecordIs ==
  ASSUME NEW s \in Object, s.inc <= s.epoch, NEW o \in LocalRecord(s)
  PROVE  Grows(s, o.s) /\ o.s.table = s.table /\ o.s.ledger = s.ledger
<1>1. ASSUME NEW t \in Object, t.inc <= t.epoch, NEW u, u = [t EXCEPT !.seq = @ + 1]
      PROVE  Grows(t, u) /\ u.table = t.table /\ u.ledger = t.ledger
  <2>1. t.epoch \in Nat /\ t.inc \in Nat /\ t.seq \in Nat
    BY DEF Object
  <2>2. u \in Object
    BY <1>1, <2>1, SMTT(60) DEF Object
  <2>3. /\ u.epoch = t.epoch /\ u.inc = t.inc /\ u.seq = t.seq + 1
        /\ u.table = t.table /\ u.ledger = t.ledger /\ u.up = t.up
    BY <1>1 DEF Object
  <2> QED BY <1>1, <2>1, <2>2, <2>3, SMTT(60) DEF Grows, NotAfter
<1>2. CASE s.seq < MaxSequence
  <2>1. o.s = [s EXCEPT !.seq = @ + 1]
    BY <1>2, SMTT(60) DEF LocalRecord, Outcome
  <2> QED BY <1>1, <2>1
<1>3. CASE ~(s.seq < MaxSequence)
  <2>1. PICK a \in AdvanceEpoch(s) : o = IF a.ok THEN Outcome(TRUE, [a.s EXCEPT !.seq = @ + 1]) ELSE a
    BY <1>3 DEF LocalRecord
  <2>2. Grows(s, a.s) /\ a.s.table = s.table /\ a.s.ledger = s.ledger
    BY AdvanceEpochIs
  <2>3. CASE a.ok
    <3>1. o.s = [a.s EXCEPT !.seq = @ + 1]
      BY <2>1, <2>3 DEF Outcome
    <3>2. a.s \in Object /\ a.s.inc <= a.s.epoch
      BY <2>2 DEF Grows
    <3>3. Grows(a.s, o.s) /\ o.s.table = a.s.table /\ o.s.ledger = a.s.ledger
      BY <1>1, <3>1, <3>2
    <3>4. Grows(s, o.s)
      BY <2>2, <3>3, GrowsTwice
    <3> QED BY <2>2, <3>3, <3>4
  <2>4. CASE ~a.ok
    <3>1. o = a
      BY <2>1, <2>4
    <3> QED BY <2>2, <3>1
  <2> QED BY <2>3, <2>4
<1> QED BY <1>2, <1>3

\* A new table changes nothing else of the object.
LEMMA WithTable ==
  ASSUME NEW s \in Object, s.inc <= s.epoch, NEW U \in Table, NEW t, t = [s EXCEPT !.table = U]
  PROVE  /\ Grows(s, t) /\ t.table = U /\ t.ledger = s.ledger /\ t.epoch = s.epoch
         /\ t.inc = s.inc /\ t.seq = s.seq
<1>1. /\ t \in Object /\ t.table = U /\ t.ledger = s.ledger /\ t.epoch = s.epoch
      /\ t.inc = s.inc /\ t.seq = s.seq /\ t.up = s.up
  BY DEF Object
<1>2. s.epoch \in Nat /\ s.inc \in Nat /\ s.seq \in Nat
  BY DEF Object
<1> QED BY <1>1, <1>2, SMTT(60) DEF Grows, NotAfter

\* The ledger is written, or the write failed.
LEMMA CheckpointIs ==
  ASSUME NEW s \in Object, s.inc <= s.epoch, NEW o \in Checkpoint(s)
  PROVE  /\ Grows(s, o.s) /\ o.s.table = s.table
         /\ o.s.ledger = Save(o.s.table) \/ (o.s.ledger = s.ledger /\ WriteErrors)
<1>1. o.s = [s EXCEPT !.ledger = Save(s.table)] \/ (o.s = s /\ WriteErrors)
  BY SMTT(60) DEF Checkpoint, Outcome
<1>2. Save(s.table) \in Wires
  <2>1. s.table \in Table
    BY DEF Object
  <2> QED BY <2>1, SaveIs
<1>3. CASE o.s = s /\ WriteErrors
  BY <1>3, GrowsTwice
<1>4. CASE o.s = [s EXCEPT !.ledger = Save(s.table)]
  <2>1. /\ o.s \in Object /\ o.s.table = s.table /\ o.s.ledger = Save(s.table) /\ o.s.epoch = s.epoch
        /\ o.s.inc = s.inc /\ o.s.seq = s.seq /\ o.s.up = s.up
    BY <1>2, <1>4 DEF Object
  <2>2. s.epoch \in Nat /\ s.inc \in Nat /\ s.seq \in Nat
    BY DEF Object
  <2> QED BY <2>1, <2>2, SMTT(60) DEF Grows, NotAfter
<1> QED BY <1>1, <1>3, <1>4

\* The ledger holds the table again, or it is left alone: because its write failed,
\* or because no checkpoint was tried (unsaved).
Saved(s, t, unsaved) ==
  t.ledger = Save(t.table) \/ (t.ledger = s.ledger /\ (WriteErrors \/ unsaved))

\* The copies of a message, and the refutation of one that accuses n.
LEMMA ApplyBatchIs ==
  ASSUME NEW n \in Node, NEW s \in Object, s.inc <= s.epoch, NEW b \in Wires \cup {NoMember},
         Copy(b, n) # NoMember => b[n].inc <= s.inc, NEW o \in ApplyBatch(n, s, b)
  PROVE  Grows(s, o.s) /\ Told(n, s.table, o.s.table, b) /\ Saved(s, o.s, b # NoMember)
<1>1. s.table \in Table /\ s.inc \in Nat
  BY DEF Object
<1>2. \A S : MergeBatch(s.table, n, b, S) \in Table /\ Told(n, s.table, MergeBatch(s.table, n, b, S), b)
  BY <1>1, MergeBatchTold DEF Told
<1>3. PICK U \in Table : U = MergeBatch(s.table, n, b, Node \ {n}) /\ Told(n, s.table, U, b)
  BY <1>2
<1>4. PICK all : all = [s EXCEPT !.table = U]
  OBVIOUS
<1>5. /\ Grows(s, all) /\ all.table = U /\ all.ledger = s.ledger /\ all.epoch = s.epoch
      /\ all.inc = s.inc /\ all.seq = s.seq
  BY <1>4, WithTable, SMTT(60)
<1>6. all \in Object /\ all.inc <= all.epoch
  BY <1>5 DEF Grows
<1>7. CASE ~Accused(n, s, b)
  <2>1. o \in Checkpoint(all)
    BY <1>3, <1>4, <1>7 DEF ApplyBatch
  <2>2. /\ Grows(all, o.s) /\ o.s.table = U
        /\ o.s.ledger = Save(o.s.table) \/ (o.s.ledger = s.ledger /\ WriteErrors)
    BY <1>5, <1>6, <2>1, CheckpointIs
  <2>3. Grows(s, o.s)
    BY <1>5, <2>2, GrowsTwice, SMTT(60)
  <2> QED BY <1>3, <2>2, <2>3 DEF Saved
<1>8. CASE Accused(n, s, b)
  <2>1. b[n].inc = s.inc /\ b # NoMember
    <3>1. b # NoMember /\ b[n] \in WireRecord /\ b[n].inc >= s.inc /\ b[n].inc <= s.inc
      BY <1>8, TableTypes DEF Accused
    <3> QED BY <1>1, <3>1, RecordTypes, SMTT(60)
  <2>2. [all EXCEPT !.inc = b[n].inc] = all
    BY <1>5, <1>6, <2>1 DEF Object
  <2>3. o \in Refute(n, s, b, AdvanceEpoch(all))
    BY <1>3, <1>4, <1>8, <2>2 DEF ApplyBatch
  <2>4. PICK x \in AdvanceEpoch(all) :
          o \in IF x.ok THEN Checkpoint(x.s)
                ELSE {Outcome(FALSE, [x.s EXCEPT !.table = MergeBatch(s.table, n, b, S)]) :
                        S \in SUBSET (Node \ {n})}
    BY <2>3 DEF Refute
  <2>5. Grows(all, x.s) /\ x.s.table = U /\ x.s.ledger = s.ledger
    BY <1>5, <1>6, AdvanceEpochIs
  <2>6. x.s \in Object /\ x.s.inc <= x.s.epoch /\ Grows(s, x.s)
    BY <1>5, <2>5, GrowsTwice DEF Grows
  <2>7. CASE x.ok
    <3>1. o \in Checkpoint(x.s)
      BY <2>4, <2>7
    <3>2. /\ Grows(x.s, o.s) /\ o.s.table = U
          /\ o.s.ledger = Save(o.s.table) \/ (o.s.ledger = s.ledger /\ WriteErrors)
      BY <2>5, <2>6, <3>1, CheckpointIs
    <3>3. Grows(s, o.s)
      BY <2>6, <3>2, GrowsTwice
    <3> QED BY <1>3, <3>2, <3>3 DEF Saved
  <2>8. CASE ~x.ok
    <3>1. PICK S \in SUBSET (Node \ {n}) :
            o = Outcome(FALSE, [x.s EXCEPT !.table = MergeBatch(s.table, n, b, S)])
      BY <2>4, <2>8
    <3>2. PICK V \in Table : V = MergeBatch(s.table, n, b, S) /\ Told(n, s.table, V, b)
      BY <1>2
    <3>3. o.s = [x.s EXCEPT !.table = V]
      BY <3>1, <3>2 DEF Outcome
    <3>4. Grows(x.s, o.s) /\ o.s.table = V /\ o.s.ledger = s.ledger
      BY <2>5, <2>6, <3>3, WithTable, SMTT(60)
    <3>5. Grows(s, o.s)
      BY <2>6, <3>4, GrowsTwice
    <3> QED BY <2>1, <3>2, <3>4, <3>5 DEF Saved
  <2> QED BY <2>7, <2>8
<1> QED BY <1>7, <1>8

\* n takes the message p of m: it may hear of m, and be told of others.
Takes(n, s, t, m, p) ==
  \E T \in Table : /\ T = s.table \/ Heard(n, s.table, T, m, p.inc, p.seq)
                   /\ Told(n, T, t.table, p.batch)
                   /\ Saved(s, t, m \in SuperPeer \/ T = s.table)

\* apply_packet, whatever it answers.
LEMMA ApplyPacketIs ==
  ASSUME NEW n \in Node, NEW s \in Object, s.inc <= s.epoch, NEW m \in Node, NEW p \in Messages,
         p.batch # NoMember => m \in SuperPeer, Copy(p.batch, n) # NoMember => p.batch[n].inc <= s.inc,
         NEW o \in ApplyPacket(n, s, m, p)
  PROVE  Grows(s, o.s) /\ Takes(n, s, o.s, m, p)
<1>1. s.table \in Table /\ p.inc \in Nat /\ p.seq \in Nat /\ p.batch \in Wires \cup {NoMember} /\ s.needs \in BOOLEAN
  BY DEF Object, Messages
<1> DEFINE again == /\ n \in Peer /\ m = HomeOf(n)
                    /\ ~ Found(s.table, m) \/ p.inc > s.table[m].inc
<1>2. PICK needs : needs = (s.needs \/ again)
  OBVIOUS
<1>3. needs \in BOOLEAN
  BY <1>2
<1>4. PICK s1 : s1 = [s EXCEPT !.needs = needs]
  OBVIOUS
<1>5. PICK T2 : T2 = IF Found(s.table, m) THEN s.table ELSE Register(s.table, n, m, p.inc)
  OBVIOUS
<1>6. o \in IF ~ ValidBatch(p.batch) THEN {Outcome(FALSE, s)}
            ELSE IF ~ Found(s.table, m) /\ (m \in Peer \/ ~ MayRegister(s.table, m, p.inc)) THEN {Outcome(FALSE, s1)}
            ELSE IF ~ FreshHeartbeat(T2, m, p.inc, p.seq) THEN {Outcome(FALSE, [s1 EXCEPT !.table = T2])}
            ELSE ApplyBatch(n, [s1 EXCEPT !.table = ApplyHeartbeat(T2, n, m, p.inc, p.seq)], p.batch)
  BY <1>2, <1>4, <1>5 DEF ApplyPacket
<1> HIDE DEF again
<1>7. /\ s1 \in Object /\ s1.table = s.table /\ s1.ledger = s.ledger /\ s1.epoch = s.epoch
      /\ s1.inc = s.inc /\ s1.seq = s.seq /\ s1.up = s.up
  BY <1>3, <1>4 DEF Object
<1>8. Grows(s, s1) /\ Grows(s, s) /\ s1.inc <= s1.epoch
  BY <1>7, GrowsTwice DEF Grows, NotAfter, Object
<1>9. ASSUME NEW t, Grows(s, t), t.table = s.table, t.ledger = s.ledger
      PROVE  Takes(n, s, t, m, p)
  BY <1>1, <1>9, ToldNothing DEF Takes, Saved
<1>10. CASE ~ ValidBatch(p.batch)
  <2>1. o.s = s
    BY <1>6, <1>10, SMTT(60) DEF Outcome
  <2> QED BY <1>8, <1>9, <2>1
<1>11. CASE ValidBatch(p.batch) /\ ~ Found(s.table, m) /\ (m \in Peer \/ ~ MayRegister(s.table, m, p.inc))
  <2>1. o.s = s1
    BY <1>6, <1>11, SMTT(60) DEF Outcome
  <2> QED BY <1>7, <1>8, <1>9, <2>1
<1>12. CASE /\ ValidBatch(p.batch)
            /\ Found(s.table, m) \/ (m \notin Peer /\ MayRegister(s.table, m, p.inc))
  <2>1. T2 \in Table /\ (T2 = s.table \/ (m \in SuperPeer /\ Heard(n, s.table, T2, m, p.inc, p.seq)))
    <3>1. CASE Found(s.table, m)
      BY <1>1, <1>5, <3>1
    <3>2. CASE ~Found(s.table, m)
      <4>1. m \in SuperPeer /\ MayRegister(s.table, m, p.inc) /\ T2 = Register(s.table, n, m, p.inc)
        BY <1>5, <1>12, <3>2 DEF Node
      <4>2. Heard(n, s.table, T2, m, p.inc, p.seq)
        BY <1>1, <4>1, RegisterHeard
      <4> QED BY <4>1, <4>2 DEF Heard
    <3> QED BY <3>1, <3>2
  <2>2. CASE ~ FreshHeartbeat(T2, m, p.inc, p.seq)
    <3>1. o.s = [s1 EXCEPT !.table = T2]
      BY <1>6, <1>12, <2>2, SMTT(60) DEF Outcome
    <3>2. Grows(s1, o.s) /\ o.s.table = T2 /\ o.s.ledger = s.ledger
      BY <1>7, <1>8, <2>1, <3>1, WithTable, SMTT(60)
    <3>3. Grows(s, o.s)
      BY <1>8, <3>2, GrowsTwice
    <3> QED BY <2>1, <3>2, <3>3, ToldNothing DEF Takes, Saved
  <2>3. CASE FreshHeartbeat(T2, m, p.inc, p.seq)
    <3>1. PICK T : T = ApplyHeartbeat(T2, n, m, p.inc, p.seq)
      OBVIOUS
    <3>a. T2 \in Table /\ p.inc \in Nat /\ p.seq \in Nat
      BY <1>1, <2>1
    <3>b. Heard(n, T2, ApplyHeartbeat(T2, n, m, p.inc, p.seq), m, p.inc, p.seq)
      BY <2>3, <3>a, HeartbeatHeard
    <3>2. Heard(n, T2, T, m, p.inc, p.seq)
      BY <3>1, <3>b
    <3>3. T \in Table /\ Heard(n, s.table, T, m, p.inc, p.seq)
      BY <1>1, <2>1, <3>2, HeardTwice, SMTT(60) DEF Heard
    <3>4. PICK s2 : s2 = [s1 EXCEPT !.table = T]
      OBVIOUS
    <3>5. Grows(s1, s2) /\ s2.table = T /\ s2.ledger = s.ledger /\ s2.inc = s.inc
      BY <1>7, <1>8, <3>3, <3>4, WithTable, SMTT(60)
    <3>6. s2 \in Object /\ s2.inc <= s2.epoch
      BY <3>5 DEF Grows
    <3>7. o \in ApplyBatch(n, s2, p.batch)
      BY <1>6, <1>12, <2>3, <3>1, <3>4
    <3>8. Grows(s2, o.s) /\ Told(n, T, o.s.table, p.batch) /\ Saved(s2, o.s, p.batch # NoMember)
      BY <1>1, <3>5, <3>6, <3>7, ApplyBatchIs
    <3>9. Grows(s, o.s)
      BY <1>8, <3>5, <3>6, <3>8, GrowsTwice
    <3>10. Saved(s, o.s, m \in SuperPeer \/ T = s.table)
      BY <3>5, <3>8 DEF Saved
    <3> QED BY <3>3, <3>8, <3>9, <3>10 DEF Takes
  <2> QED BY <2>2, <2>3
<1> QED BY <1>10, <1>11, <1>12

----------------------------------------------------------------------------
(* The jobs and the requests *)

\* Who calls whom: a Peer and its home, or two Super Peers.
Linked(n, m) == n # m /\ Serves(n, m) /\ Serves(m, n)

\* A message that src may send to dst: only Super Peers gossip, with each other.
Fit(src, dst, p) ==
  /\ p \in Messages
  /\ p.batch # NoMember => src \in SuperPeer
  /\ p.type = "GOSSIP" => src \in SuperPeer /\ dst \in SuperPeer

\* A job that has got an answer which was not applied yet.
HasAnswer(j) == j.answer # NoMember \/ j.phase = "answered"

\* The phases of a Peer that joins its home.
JoinPhases == {"advance", "join", "joining", "joined", "unjoined", "start", "starting"}

GoodJob(n, m, j) ==
  /\ j \in Jobs
  /\ \/ j = Idle
     \/ /\ Linked(n, m)
        /\ j.phase \in JoinPhases => n \in Peer
        /\ j.gossip => n \in SuperPeer /\ m \in SuperPeer
        /\ HasAnswer(j) => Fit(m, n, j.answer)

GoodRequest(r) == r \in Requests /\ Linked(r.src, r.dst) /\ Fit(r.src, r.dst, r.msg)

Links ==
  /\ job \in [Node -> [Node -> Jobs]]
  /\ \A n, m \in Node : GoodJob(n, m, job[n][m])
  /\ \A r \in requests : GoodRequest(r)

\* The copies that n sends with a GOSSIP.
Gossip(n, s) == Packet(n, s, TRUE).batch

\* p is made from the object t of n: it is not ahead of n, and its copies are n's
\* own table.
Spoken(n, t, p) ==
  /\ Behind(p, t)
  /\ p.batch = NoMember \/ (n \in SuperPeer /\ p.batch = Gossip(n, t))
  /\ p.type = "LEAVE" => ~t.up

\* What is in flight after a step in which n's object became t was in flight, or n
\* has just said it.
RequestFlow(n, t) ==
  \A r \in requests' : \/ \E q \in requests : q.src = r.src /\ q.msg = r.msg /\ (r.wait => q.wait)
                       \/ r.src = n /\ Spoken(n, t, r.msg) /\ (r.wait => r.msg.type # "LEAVE")

AnswerFlow(n, t) ==
  \A k, l \in Node : HasAnswer(job'[k][l]) =>
    \/ HasAnswer(job[k][l]) /\ job'[k][l].answer = job[k][l].answer
    \/ l = n /\ Spoken(n, t, job'[k][l].answer)

Flow(n, t) == RequestFlow(n, t) /\ AnswerFlow(n, t)

\* The messages without copies.
LEMMA MessageIs ==
  ASSUME NEW type \in {"HEARTBEAT", "GOSSIP", "JOIN", "LEAVE", "ERROR", "ACK"},
         NEW inc \in Nat, NEW seq \in Nat, NEW b \in Wires \cup {NoMember}
  PROVE  LET p == Message(type, inc, seq, b)
         IN  p \in Messages /\ p.type = type /\ p.inc = inc /\ p.seq = seq /\ p.batch = b
  BY DEF Message, Messages

\* The copies b say of n what n is, and of the others what n's table says.
Mirrors(n, s, b) ==
  /\ b[n].inc = s.inc /\ b[n].seq = s.seq
  /\ \A m \in Node \ {n} : b[m] # NoMember =>
       /\ s.table[m] # NoMember /\ b[m].inc = s.table[m].inc
       /\ b[m].seq = s.table[m].seq /\ b[m].rep = s.table[m].rep

\* The copies of a GOSSIP.
LEMMA GossipIs ==
  ASSUME NEW n \in Node, NEW s \in Object, NEW b, b = Gossip(n, s)
  PROVE  b \in Wires /\ Packet(n, s, TRUE) = Message("GOSSIP", s.inc, s.seq, b) /\ Mirrors(n, s, b)
<1>1. s.inc \in Nat /\ s.seq \in Nat /\ s.table \in Table
  BY DEF Object
<1>2. /\ Packet(n, s, TRUE) = Message("GOSSIP", s.inc, s.seq, b)
      /\ b = [m \in Node |->
               IF m = n THEN [inc |-> s.inc, seq |-> s.seq, ver |-> 0, state |-> ALIVE, rep |-> n]
               ELSE IF s.table[m] # NoMember /\ s.table[m].inc > 0 THEN Wire(s.table[m])
               ELSE NoMember]
  BY DEF Packet, Message, Gossip
<1>3. \A r \in Member : /\ Wire(r) \in WireRecord /\ Wire(r).inc = r.inc /\ Wire(r).seq = r.seq
                        /\ Wire(r).rep = r.rep
  BY DEF Wire, Member, WireRecord
<1>4. /\ [inc |-> s.inc, seq |-> s.seq, ver |-> 0, state |-> ALIVE, rep |-> n] \in WireRecord
      /\ b[n].inc = s.inc /\ b[n].seq = s.seq
  <2>1. PICK r : r = [inc |-> s.inc, seq |-> s.seq, ver |-> 0, state |-> ALIVE, rep |-> n]
    OBVIOUS
  <2>2. r \in WireRecord /\ r.inc = s.inc /\ r.seq = s.seq
    BY <1>1, <2>1, AliveIs DEF WireRecord
  <2>3. b[n] = r
    BY <1>2, <2>1
  <2> QED BY <2>1, <2>2, <2>3
<1>5. \A m \in Node : s.table[m] # NoMember => s.table[m] \in Member
  BY <1>1, TableTypes
<1>6. ASSUME NEW m \in Node \ {n}, b[m] # NoMember
      PROVE  /\ s.table[m] # NoMember /\ b[m].inc = s.table[m].inc
             /\ b[m].seq = s.table[m].seq /\ b[m].rep = s.table[m].rep
  <2>1. s.table[m] # NoMember /\ b[m] = Wire(s.table[m])
    BY <1>2, <1>6
  <2> QED BY <1>3, <1>5, <2>1
<1>7. ASSUME NEW m \in Node PROVE b[m] \in WireRecord \cup {NoMember}
  BY <1>2, <1>3, <1>4, <1>5
<1>8. b \in Wires
  <2>1. b = [m \in Node |-> b[m]]
    BY <1>2
  <2> QED BY <1>7, <2>1 DEF Wires
<1>9. Mirrors(n, s, b)
  BY <1>4, <1>6 DEF Mirrors
<1> QED BY <1>2, <1>8, <1>9

\* A packet is a HEARTBEAT or a GOSSIP.
LEMMA PacketIs ==
  ASSUME NEW n \in Node, NEW s \in Object, NEW g \in BOOLEAN, NEW p, p = Packet(n, s, g)
  PROVE  /\ p \in Messages /\ p.inc = s.inc /\ p.seq = s.seq
         /\ p.type = IF g THEN "GOSSIP" ELSE "HEARTBEAT"
         /\ p.batch = IF g THEN Gossip(n, s) ELSE NoMember
<1>1. s.inc \in Nat /\ s.seq \in Nat
  BY DEF Object
<1>2. CASE ~g
  <2>1. p = Message("HEARTBEAT", s.inc, s.seq, NoMember)
    BY <1>2 DEF Packet
  <2>2. p \in Messages /\ p.type = "HEARTBEAT" /\ p.inc = s.inc /\ p.seq = s.seq /\ p.batch = NoMember
    BY <1>1, <2>1, MessageIs, SMTT(60)
  <2> QED BY <1>2, <2>2
<1>3. CASE g
  <2>1. PICK b : b = Gossip(n, s)
    OBVIOUS
  <2>2. b \in Wires /\ Packet(n, s, TRUE) = Message("GOSSIP", s.inc, s.seq, b)
    BY <2>1, GossipIs
  <2>3. p = Message("GOSSIP", s.inc, s.seq, b)
    BY <1>3, <2>2 DEF Packet
  <2>4. p \in Messages /\ p.type = "GOSSIP" /\ p.inc = s.inc /\ p.seq = s.seq /\ p.batch = b
    BY <1>1, <2>2, <2>3, MessageIs, SMTT(60)
  <2> QED BY <1>3, <2>1, <2>4
<1> QED BY <1>2, <1>3

\* The packet of a node after its local record.
LEMMA PacketSpoken ==
  ASSUME NEW n \in Node, NEW k \in Node, NEW s \in Object, s.inc <= s.epoch, NEW g \in BOOLEAN,
         g => n \in SuperPeer /\ k \in SuperPeer
  PROVE  /\ Fit(n, k, Packet(n, s, g)) /\ Spoken(n, s, Packet(n, s, g))
         /\ Packet(n, s, g).type # "LEAVE"
<1>1. s.inc \in Nat /\ s.seq \in Nat
  BY DEF Object
<1>2. PICK p : p = Packet(n, s, g)
  OBVIOUS
<1>3. /\ p \in Messages /\ p.inc = s.inc /\ p.seq = s.seq
      /\ p.type = IF g THEN "GOSSIP" ELSE "HEARTBEAT"
      /\ p.batch = IF g THEN Gossip(n, s) ELSE NoMember
  BY <1>2, PacketIs, SMTT(60)
<1>4. Behind(p, s)
  BY <1>1, <1>3, SMTT(60) DEF Behind, NotAfter
<1> QED BY <1>2, <1>3, <1>4 DEF Fit, Spoken

\* A message without copies whose incarnation is n's, or none.
LEMMA PlainSpoken ==
  ASSUME NEW n \in Node, NEW k \in Node, NEW t \in Object, NEW type \in {"JOIN", "LEAVE", "ERROR", "ACK"},
         NEW inc \in Nat, inc <= t.epoch, t.up => inc <= t.inc /\ type # "LEAVE"
  PROVE  LET p == Message(type, inc, 0, NoMember)
         IN  Fit(n, k, p) /\ Spoken(n, t, p)
<1>1. t.inc \in Nat /\ t.seq \in Nat
  BY DEF Object
<1>2. PICK p : p = Message(type, inc, 0, NoMember)
  OBVIOUS
<1>3. p \in Messages /\ p.type = type /\ p.inc = inc /\ p.seq = 0 /\ p.batch = NoMember
  BY <1>2, MessageIs, SMTT(60)
<1>4. Behind(p, t)
  BY <1>1, <1>3, SMTT(60) DEF Behind, NotAfter
<1>5. Fit(n, k, p) /\ Spoken(n, t, p)
  BY <1>3, <1>4 DEF Fit, Spoken
<1> QED BY <1>2, <1>5

\* An error or an acknowledgement, of anybody.
LEMMA ErrorSpoken ==
  ASSUME NEW n \in Node, NEW k \in Node, NEW t \in Object, NEW p \in {Error, Ack}
  PROVE  Fit(n, k, p) /\ Spoken(n, t, p)
<1>1. t.epoch \in Nat /\ t.inc \in Nat /\ 0 <= t.epoch /\ 0 <= t.inc
  BY SMTT(60) DEF Object
<1>2. CASE p = Error
  BY <1>1, <1>2, PlainSpoken DEF Error
<1>3. CASE p = Ack
  BY <1>1, <1>3, PlainSpoken DEF Ack
<1> QED BY <1>2, <1>3

----------------------------------------------------------------------------
(* The invariant *)

\* The ledger was reported by the homes, too.
ReportedBy(L) == \A m \in Peer : L[m] # NoMember => L[m].rep = Home[m]

\* The object s of n is right in a system whose objects are H.
ObjectOK(H, n, s) ==
  /\ s \in Object /\ s.inc <= s.epoch
  /\ s.table[n] = NoMember /\ s.ledger[n] = NoMember
  /\ TableOK(H, s.table) /\ TableOK(H, s.ledger)
  /\ Reported(n, s.table) /\ ReportedBy(s.ledger)
  /\ s.up => TableForward(s.ledger, s.table)

Objects == h \in [Node -> Object] /\ \A n \in Node : ObjectOK(h, n, h[n])

\* A message of src that is in flight.
SoundMessage(H, src, p) == Behind(p, H[src]) /\ BatchOK(H, p.batch) /\ ValidBatch(p.batch)

Sound ==
  /\ \A r \in requests : SoundMessage(h, r.src, r.msg)
  /\ \A n, m \in Node : HasAnswer(job[n][m]) => SoundMessage(h, m, job[n][m].answer)

\* A LEAVE is the last call of a process, which does not wait for it.
LeavesLast ==
  \A r \in requests : r.msg.type = "LEAVE" => ~r.wait /\ (h[r.src].up => r.msg.inc < h[r.src].inc)

\* What the ledger of its home has of each Peer; while no write fails it is never
\* behind what anybody else has, or has in flight.
HomeLedger(H) == [m \in Peer |-> H[Home[m]].ledger[m]]

HomeFirst ==
  ~WriteErrors =>
    /\ \A n \in Node : Covered(HomeLedger(h), h[n].table) /\ Covered(HomeLedger(h), h[n].ledger)
    /\ \A r \in requests : CoveredBatch(HomeLedger(h), r.msg.batch)
    /\ \A n, m \in Node : HasAnswer(job[n][m]) =>
         CoveredBatch(HomeLedger(h), job[n][m].answer.batch)

IInv == Links /\ Objects /\ Sound /\ LeavesLast /\ HomeFirst

----------------------------------------------------------------------------
(* The steps *)

\* In this step n takes the message p of m, off a request or off an answer.
Evidence(n, m, p) ==
  \/ \E r \in requests \ requests' : r.src = m /\ r.dst = n /\ r.msg = p
  \/ /\ job[n][m].phase = "answered" /\ job[n][m].answer = p /\ job'[n][m].phase # "answered"

\* The process of n starts: a new incarnation, and the table from the ledger.
Starts(n, s, t) ==
  /\ t \in Object /\ ~s.up /\ t.up /\ t.inc <= t.epoch /\ s.epoch < t.inc
  /\ t.ledger = s.ledger /\ t.table = Load(s.ledger, n)

\* The object of n changes, on its own account, by discovery or by a message.
Moves(n, s, t) ==
  /\ Grows(s, t) /\ (s.up \/ t.ledger = s.ledger)
  /\ \/ Kept(n, s.table, t.table) /\ Saved(s, t, TRUE)
     \/ t.ledger = s.ledger /\ \E m \in SuperPeer \ {n} : Heard(n, s.table, t.table, m, 0, 0)
     \/ \E m \in Node, p \in Messages : Evidence(n, m, p) /\ Takes(n, s, t, m, p)

\* What a step may do to the object of n.
Change(n, s, t) == Moves(n, s, t) \/ Starts(n, s, t) \/ t = Ended(s)

Step(n, t) == h' = [h EXCEPT ![n] = t] /\ Change(n, h[n], t) /\ Flow(n, t) /\ Links'

\* The idle job is good everywhere.
LEMMA IdleIs ==
  /\ \A n, m \in Node : GoodJob(n, m, Idle)
  /\ Idle \in Jobs /\ ~HasAnswer(Idle) /\ Idle.phase = "idle" /\ Idle.gossip = FALSE
<1>1. FALSE \in BOOLEAN /\ 0 \in Nat /\ "idle" \in Phases
  BY DEF Phases
<1>2. Idle \in Jobs
  BY <1>1 DEF Idle, Jobs
<1>3. Idle.answer = NoMember /\ Idle.phase = "idle" /\ Idle.gossip = FALSE
  BY DEF Idle
<1> QED BY <1>2, <1>3 DEF GoodJob, HasAnswer

\* j has no answer but the one that i has.
Inherits(j, i) == HasAnswer(j) => HasAnswer(i) /\ j.answer = i.answer

\* A job that is set to a good one without a new answer.
LEMMA SetJobIs ==
  ASSUME Links, NEW n \in Node, NEW m \in Node, NEW j, GoodJob(n, m, j), SetJob(n, m, j),
         Inherits(j, job[n][m])
  PROVE  /\ job' \in [Node -> [Node -> Jobs]] /\ \A k, l \in Node : GoodJob(k, l, job'[k][l])
         /\ job'[n][m] = j
         /\ \A k, t : AnswerFlow(k, t)
<1>1. job' = [job EXCEPT ![n] = [job[n] EXCEPT ![m] = j]] /\ j \in Jobs
  BY DEF SetJob, GoodJob
<1>2. job \in [Node -> [Node -> Jobs]]
  BY DEF Links
<1>3. [job[n] EXCEPT ![m] = j] \in [Node -> Jobs]
  BY <1>1, <1>2
<1>4. job' \in [Node -> [Node -> Jobs]]
  BY <1>1, <1>2, <1>3
<1>5. \A k, l \in Node : job'[k][l] = IF k = n /\ l = m THEN j ELSE job[k][l]
  BY <1>1, <1>2
<1>6. \A k, l \in Node : GoodJob(k, l, job'[k][l])
  BY <1>5 DEF Links
<1>7. ASSUME NEW k \in Node, NEW l \in Node PROVE Inherits(job'[k][l], job[k][l])
  <2>1. CASE k = n /\ l = m
    BY <1>5, <2>1
  <2>2. CASE ~(k = n /\ l = m)
    BY <1>5, <2>2 DEF Inherits
  <2> QED BY <2>1, <2>2
<1>8. \A k, t : AnswerFlow(k, t)
  BY <1>7 DEF AnswerFlow, Inherits
<1> QED BY <1>4, <1>5, <1>6, <1>8

\* A job that is not idle has a link.
LEMMA JobLinked ==
  ASSUME Links, NEW n \in Node, NEW m \in Node, job[n][m].phase # "idle"
  PROVE  Linked(n, m) /\ GoodJob(n, m, job[n][m])
<1>1. GoodJob(n, m, job[n][m])
  BY DEF Links
<1>2. job[n][m] # Idle
  BY IdleIs
<1> QED BY <1>1, <1>2 DEF GoodJob

\* A job that goes on to another phase, and keeps its answer or drops it.
LEMMA NextPhase ==
  ASSUME Links, NEW n \in Node, NEW m \in Node, job[n][m].phase # "idle",
         NEW q \in Jobs, q.phase # "answered", q.answer \in {NoMember, job[n][m].answer},
         q.gossip \in {FALSE, job[n][m].gossip},
         q.phase \in JoinPhases => n \in Peer \/ job[n][m].phase \in JoinPhases
  PROVE  GoodJob(n, m, q) /\ Inherits(q, job[n][m])
<1>1. PICK j : j = job[n][m]
  OBVIOUS
<1>2. Linked(n, m) /\ GoodJob(n, m, j)
  BY <1>1, JobLinked
<1>3. /\ j.phase \in JoinPhases => n \in Peer
      /\ j.gossip => n \in SuperPeer /\ m \in SuperPeer
      /\ HasAnswer(j) => Fit(m, n, j.answer)
  BY <1>2, IdleIs DEF GoodJob, JoinPhases
<1>4. Inherits(q, j)
  BY <1>1 DEF Inherits, HasAnswer
<1>5. GoodJob(n, m, q)
  BY <1>1, <1>2, <1>3, <1>4 DEF GoodJob, Inherits
<1> QED BY <1>1, <1>4, <1>5

\* The idle job with another phase.
LEMMA IdlePhase ==
  ASSUME NEW phase \in Phases, NEW q, q = [Idle EXCEPT !.phase = phase]
  PROVE  q \in Jobs /\ q.phase = phase /\ q.answer = NoMember /\ q.gossip = FALSE
<1>1. Idle \in Jobs
  BY IdleIs
<1>2. Idle.answer = NoMember /\ Idle.gossip = FALSE
  BY DEF Idle
<1> QED BY <1>1, <1>2 DEF Jobs

\* Requests that are dropped or given up.
LEMMA GivenUpIs ==
  ASSUME NEW R, R \subseteq requests, requests' \subseteq requests \cup GivenUp(R), Links
  PROVE  /\ \A r \in requests' : GoodRequest(r)
         /\ \A n, t : RequestFlow(n, t)
<1>1. ASSUME NEW r \in requests'
      PROVE  GoodRequest(r) /\ \E q \in requests : q.src = r.src /\ q.msg = r.msg /\ (r.wait => q.wait)
  <2>1. CASE r \in requests
    BY <2>1 DEF Links
  <2>2. CASE r \in GivenUp(R)
    <3>1. PICK q \in R : r = [q EXCEPT !.wait = FALSE]
      BY <2>2 DEF GivenUp
    <3>2. q \in requests /\ GoodRequest(q)
      BY <3>1 DEF Links
    <3>3. q \in Requests
      BY <3>2 DEF GoodRequest
    <3>4. r \in Requests /\ r.src = q.src /\ r.dst = q.dst /\ r.msg = q.msg /\ r.wait = FALSE
      BY <3>1, <3>3 DEF Requests
    <3> QED BY <3>2, <3>4 DEF GoodRequest
  <2> QED BY <2>1, <2>2
<1> QED BY <1>1 DEF RequestFlow

\* What the invariant says of one node, in one place.
LEMMA Here ==
  ASSUME IInv, NEW n \in Node
  PROVE  /\ Links /\ h \in [Node -> Object] /\ h[n] \in Object /\ h[n].inc <= h[n].epoch
         /\ h[n].table \in Table /\ h[n].ledger \in Wires
         /\ Grows(h[n], h[n]) /\ Kept(n, h[n].table, h[n].table) /\ Saved(h[n], h[n], TRUE)
         /\ h = [h EXCEPT ![n] = h[n]]
<1>1. Links /\ h \in [Node -> Object] /\ ObjectOK(h, n, h[n])
  BY DEF IInv, Objects
<1>2. h[n] \in Object /\ h[n].inc <= h[n].epoch
  BY <1>1 DEF ObjectOK
<1>3. h[n].table \in Table /\ h[n].ledger \in Wires
  BY <1>2, ObjectTypes
<1>4. Grows(h[n], h[n]) /\ Kept(n, h[n].table, h[n].table)
  BY <1>2, <1>3, GrowsTwice, KeptUpdate
<1>5. Saved(h[n], h[n], TRUE)
  BY DEF Saved
<1>6. h = [h EXCEPT ![n] = h[n]]
  BY <1>1
<1> QED BY <1>1, <1>2, <1>3, <1>4, <1>5, <1>6

\* A step of some node.
Stepped == \E n \in Node : \E t \in Object : Step(n, t)

\* A step that leaves the objects alone.
LEMMA NoChange ==
  ASSUME IInv, NEW n \in Node, h' = h, Flow(n, h[n]), Links'
  PROVE  Stepped
<1>1. Change(n, h[n], h[n]) /\ h[n] \in Object
  BY Here DEF Change, Moves
<1>2. h' = [h EXCEPT ![n] = h[n]]
  BY Here
<1> QED BY <1>1, <1>2 DEF Step, Stepped

\* A step of n on its own account.
LEMMA KeptStep ==
  ASSUME IInv, NEW n \in Node, NEW t, h' = [h EXCEPT ![n] = t], Grows(h[n], t),
         Kept(n, h[n].table, t.table), Saved(h[n], t, TRUE), h[n].up \/ t.ledger = h[n].ledger,
         Flow(n, t), Links'
  PROVE  Stepped
<1>1. Change(n, h[n], t) /\ t \in Object
  BY DEF Change, Moves, Grows
<1> QED BY <1>1 DEF Step, Stepped

\* Only a job changes, and it gets no new answer.
LEMMA JobStep ==
  ASSUME Links, NEW n \in Node, NEW m \in Node, NEW j, GoodJob(n, m, j), SetJob(n, m, j),
         Inherits(j, job[n][m]), requests' = requests
  PROVE  Links' /\ job'[n][m] = j /\ \A k, t : Flow(k, t)
<1>1. /\ job' \in [Node -> [Node -> Jobs]] /\ \A k, l \in Node : GoodJob(k, l, job'[k][l])
      /\ job'[n][m] = j
      /\ \A k, t : AnswerFlow(k, t)
  BY SetJobIs
<1>2. Links'
  BY <1>1 DEF Links
<1>3. \A k, t : RequestFlow(k, t)
  BY DEF RequestFlow
<1> QED BY <1>1, <1>2, <1>3 DEF Flow

\* Nothing is sent, answered or scheduled.
LEMMA SameLinks ==
  ASSUME Links, job' = job, requests' = requests
  PROVE  Links' /\ \A n, t : Flow(n, t)
  BY DEF Links, Flow, RequestFlow, AnswerFlow

\* schedule() admits a job for a neighbour.
LEMMA EnqueueStep ==
  ASSUME IInv, NEW n \in Node, NEW m \in Node, NEW g \in BOOLEAN, Enqueue(n, m, g)
  PROVE  Stepped
<1>1. Links /\ h[n].table \in Table /\ h[n].table[m] # NoMember /\ n # m
  BY Here DEF Enqueue
<1>2. h[n].table[m] \in Member
  BY <1>1, TableTypes
<1>3. h[n].table[m].inc \in Nat /\ h[n].table[m].seq \in Nat
  BY <1>2, RecordTypes
<1>4. PICK j : j = [Idle EXCEPT !.phase = "queued", !.gossip = g,
                                !.inc = h[n].table[m].inc, !.seq = h[n].table[m].seq]
  OBVIOUS
<1>5. j \in Jobs /\ j.gossip = g /\ ~HasAnswer(j) /\ j.phase = "queued"
  <2>1. Idle \in Jobs /\ ~HasAnswer(Idle) /\ "queued" \in Phases
    BY IdleIs DEF Phases
  <2>2. j \in Jobs
    BY <1>3, <1>4, <2>1 DEF Jobs
  <2>3. j.gossip = g /\ j.answer = Idle.answer /\ j.phase = "queued"
    BY <1>4, <2>1 DEF Jobs
  <2> QED BY <2>1, <2>2, <2>3 DEF HasAnswer
<1>6. \A k \in Peer : k \notin SuperPeer /\ Home[k] \in SuperPeer
  BY MembershipAssumption
<1>7. Reported(n, h[n].table)
  BY DEF IInv, Objects, ObjectOK
<1>8. Linked(n, m) /\ (g => n \in SuperPeer /\ m \in SuperPeer)
  <2>1. CASE n \in Peer
    <3>1. m = Home[n] /\ ~g
      BY <2>1 DEF Enqueue, HomeOf
    <3> QED BY <1>1, <1>6, <2>1, <3>1 DEF Linked, Serves
  <2>2. CASE n \notin Peer
    <3>1. \/ h[n].table[m].mine /\ ~g
          \/ m \in SuperPeer
      BY <2>2 DEF Enqueue
    <3>2. m \in Peer => Home[m] = n
      BY <1>1, <1>6, <1>7, <3>1 DEF Reported
    <3>3. n \in SuperPeer /\ (g => m \in SuperPeer)
      BY <2>2, <3>1 DEF Node
    <3> QED BY <1>1, <2>2, <3>2, <3>3 DEF Linked, Serves
  <2> QED BY <2>1, <2>2
<1>9. GoodJob(n, m, j) /\ Inherits(j, job[n][m])
  BY <1>5, <1>8 DEF GoodJob, Inherits, JoinPhases
<1>10. SetJob(n, m, j) /\ requests' = requests /\ h' = h
  BY <1>4 DEF Enqueue
<1>11. Links' /\ Flow(n, h[n])
  BY <1>1, <1>9, <1>10, JobStep
<1> QED BY <1>10, <1>11, NoChange

\* Discovery puts a Super Peer in the table that was not there.
LEMMA DiscoveredStep ==
  ASSUME IInv, NEW n \in Node, NEW m \in SuperPeer \ {n}, h' = [h EXCEPT ![n] = Discovered(h[n], n, m)],
         Links', \A k, t : Flow(k, t)
  PROVE  Stepped
<1>1. h[n] \in Object /\ h[n].inc <= h[n].epoch /\ h[n].table \in Table /\ m \in Node
  BY Here DEF Node
<1>2. CASE h[n].table[m] # NoMember
  <2>1. h' = h
    BY <1>2, Here DEF Discovered
  <2> QED BY <2>1, NoChange
<1>3. CASE h[n].table[m] = NoMember
  <2>1. PICK t : t = [h[n] EXCEPT !.table = Register(h[n].table, n, m, 0)]
    OBVIOUS
  <2>2. Heard(n, h[n].table, Register(h[n].table, n, m, 0), m, 0, 0)
    BY <1>1, <1>3, RegisterHeard DEF MayRegister
  <2>3. Register(h[n].table, n, m, 0) \in Table
    BY <2>2 DEF Heard
  <2>4. Grows(h[n], t) /\ t.table = Register(h[n].table, n, m, 0) /\ t.ledger = h[n].ledger
    BY <1>1, <2>1, <2>3, WithTable, SMTT(60)
  <2>5. Change(n, h[n], t) /\ t \in Object
    BY <2>2, <2>4 DEF Change, Moves, Grows
  <2>6. h' = [h EXCEPT ![n] = t]
    BY <1>3, <2>1 DEF Discovered
  <2> QED BY <2>5, <2>6 DEF Step, Stepped
<1> QED BY <1>2, <1>3

\* heartbeat_discover
LEMMA DiscoverStep ==
  ASSUME IInv, NEW n \in Node, NEW m \in Node, Discover(n, m)
  PROVE  Stepped
<1>1. m \in SuperPeer \ {n} /\ h' = [h EXCEPT ![n] = Discovered(h[n], n, m)]
  BY DEF Discover
<1>2. Links' /\ \A k, t : Flow(k, t)
  BY Here, SameLinks DEF Discover
<1> QED BY <1>1, <1>2, DiscoveredStep

\* A request is added that n has just said.
LEMMA SendStep ==
  ASSUME Links, NEW n \in Node, NEW m \in Node, NEW t, NEW p, NEW j, GoodJob(n, m, j), SetJob(n, m, j),
         Inherits(j, job[n][m]), Linked(n, m), Fit(n, m, p), Spoken(n, t, p), p.type # "LEAVE",
         requests' = requests \cup {Request(n, m, p, TRUE)}
  PROVE  Links' /\ Flow(n, t)
<1>1. /\ job' \in [Node -> [Node -> Jobs]] /\ \A k, l \in Node : GoodJob(k, l, job'[k][l])
      /\ AnswerFlow(n, t)
  BY SetJobIs
<1>2. PICK q : q = Request(n, m, p, TRUE)
  OBVIOUS
<1>3. q \in Requests /\ q.src = n /\ q.dst = m /\ q.msg = p
  BY <1>2 DEF Request, Requests, Fit
<1>4. GoodRequest(q)
  BY <1>3 DEF GoodRequest
<1>5. \A r \in requests' : GoodRequest(r)
  BY <1>2, <1>4 DEF Links
<1>6. RequestFlow(n, t)
  BY <1>2, <1>3 DEF RequestFlow
<1> QED BY <1>1, <1>5, <1>6 DEF Links, Flow

\* execute_job up to the call
LEMMA CallStep ==
  ASSUME IInv, NEW n \in Node, NEW m \in Node, Call(n, m)
  PROVE  Stepped
<1>1. Links /\ h[n] \in Object /\ h[n].inc <= h[n].epoch /\ h[n].table \in Table
  BY Here
<1>2. job[n][m].phase = "queued"
  BY DEF Call
<1>3. Linked(n, m) /\ GoodJob(n, m, job[n][m])
  BY <1>1, <1>2, JobLinked
<1>4. PICK o \in LocalRecord(h[n]) :
       /\ h' = [h EXCEPT ![n] = o.s]
       /\ IF o.ok
          THEN /\ requests' = requests \cup {Request(n, m, Packet(n, o.s, job[n][m].gossip), TRUE)}
               /\ SetJob(n, m, [job[n][m] EXCEPT !.phase = "sent"])
          ELSE SetJob(n, m, [job[n][m] EXCEPT !.phase = "failed"]) /\ UNCHANGED requests
  BY DEF Call
<1>5. Grows(h[n], o.s) /\ o.s.table = h[n].table /\ o.s.ledger = h[n].ledger
  BY <1>1, LocalRecordIs
<1>6. Kept(n, h[n].table, o.s.table) /\ Saved(h[n], o.s, TRUE)
  BY <1>5, Here DEF Saved
<1>7. o.s \in Object /\ o.s.inc <= o.s.epoch
  BY <1>5 DEF Grows
<1>8. CASE o.ok
  <2>1. PICK j : j = [job[n][m] EXCEPT !.phase = "sent"]
    OBVIOUS
  <2>2. j \in Jobs /\ j.phase = "sent" /\ j.answer = job[n][m].answer /\ j.gossip = job[n][m].gossip
    BY <1>3, <2>1 DEF GoodJob, Jobs, Phases
  <2>3. GoodJob(n, m, j) /\ Inherits(j, job[n][m])
    BY <1>1, <1>2, <2>2, NextPhase DEF JoinPhases
  <2>4. job[n][m].gossip \in BOOLEAN /\ (job[n][m].gossip => n \in SuperPeer /\ m \in SuperPeer)
    BY <1>3, IdleIs DEF GoodJob, Jobs
  <2>5. PICK p : p = Packet(n, o.s, job[n][m].gossip)
    OBVIOUS
  <2>6. Fit(n, m, p) /\ Spoken(n, o.s, p) /\ p.type # "LEAVE"
    BY <1>7, <2>4, <2>5, PacketSpoken
  <2>7. requests' = requests \cup {Request(n, m, p, TRUE)} /\ SetJob(n, m, j)
    BY <1>4, <1>8, <2>1, <2>5
  <2>8. Links' /\ Flow(n, o.s)
    BY <1>1, <1>3, <2>3, <2>6, <2>7, SendStep
  <2> QED BY <1>4, <1>5, <1>6, <2>8, KeptStep
<1>9. CASE ~o.ok
  <2>1. PICK j : j = [job[n][m] EXCEPT !.phase = "failed"]
    OBVIOUS
  <2>2. j \in Jobs /\ j.phase = "failed" /\ j.answer = job[n][m].answer /\ j.gossip = job[n][m].gossip
    BY <1>3, <2>1 DEF GoodJob, Jobs, Phases
  <2>3. GoodJob(n, m, j) /\ Inherits(j, job[n][m])
    BY <1>1, <1>2, <2>2, NextPhase DEF JoinPhases
  <2>4. SetJob(n, m, j) /\ requests' = requests
    BY <1>4, <1>9, <2>1
  <2>5. Links' /\ Flow(n, o.s)
    BY <1>1, <2>3, <2>4, JobStep
  <2> QED BY <1>4, <1>5, <1>6, <2>5, KeptStep
<1> QED BY <1>8, <1>9

\* The requests a job waited for are given up.
LEMMA GiveUpStep ==
  ASSUME IInv, NEW n \in Node, NEW m \in Node, NEW j, GoodJob(n, m, j), SetJob(n, m, j),
         Inherits(j, job[n][m]), h' = h,
         requests' = (requests \ Waiting(n, m)) \cup GivenUp(Waiting(n, m))
  PROVE  Stepped
<1>1. Links
  BY DEF IInv
<1>2. /\ job' \in [Node -> [Node -> Jobs]] /\ \A k, l \in Node : GoodJob(k, l, job'[k][l])
      /\ AnswerFlow(n, h[n])
  BY <1>1, SetJobIs
<1>3. Waiting(n, m) \subseteq requests /\ requests' \subseteq requests \cup GivenUp(Waiting(n, m))
  BY DEF Waiting
<1>4. (\A r \in requests' : GoodRequest(r)) /\ RequestFlow(n, h[n])
  BY <1>1, <1>3, GivenUpIs
<1>5. Links' /\ Flow(n, h[n])
  BY <1>2, <1>4 DEF Links, Flow
<1> QED BY <1>5, NoChange

\* The call fails.
LEMMA CallFailsStep ==
  ASSUME IInv, NEW n \in Node, NEW m \in Node, CallFails(n, m)
  PROVE  Stepped
<1>1. Links /\ job[n][m].phase # "idle" /\ job[n][m] \in Jobs
  BY Here DEF CallFails, Links, GoodJob
<1>2. PICK j : j = [job[n][m] EXCEPT !.phase = "failed", !.answer = NoMember]
  OBVIOUS
<1>3. j \in Jobs /\ j.phase = "failed" /\ j.answer = NoMember /\ j.gossip = job[n][m].gossip
  BY <1>1, <1>2 DEF Jobs, Phases
<1>4. GoodJob(n, m, j) /\ Inherits(j, job[n][m])
  BY <1>1, <1>3, NextPhase DEF JoinPhases
<1>5. SetJob(n, m, j) /\ h' = h /\ requests' = (requests \ Waiting(n, m)) \cup GivenUp(Waiting(n, m))
  BY <1>2 DEF CallFails
<1> QED BY <1>4, <1>5, GiveUpStep

\* The JOIN fails.
LEMMA JoinFailsStep ==
  ASSUME IInv, NEW n \in Node, NEW m \in Node, JoinFails(n, m)
  PROVE  Stepped
<1>1. Links /\ job[n][m].phase = "joining"
  BY Here DEF JoinFails
<1>2. PICK j : j = [Idle EXCEPT !.phase = "unjoined"]
  OBVIOUS
<1>3. j \in Jobs /\ j.phase = "unjoined" /\ j.answer = NoMember /\ j.gossip = FALSE
  BY <1>2, IdlePhase DEF Phases
<1>4. GoodJob(n, m, j) /\ Inherits(j, job[n][m])
  BY <1>1, <1>3, NextPhase DEF JoinPhases
<1>5. SetJob(n, m, j) /\ h' = h /\ requests' = (requests \ Waiting(n, m)) \cup GivenUp(Waiting(n, m))
  BY <1>2 DEF JoinFails
<1> QED BY <1>4, <1>5, GiveUpStep

\* What an answer that was not applied yet, or a request, says of the node that gets it.
LEMMA NotAheadOfMe ==
  ASSUME IInv, NEW n \in Node, h[n].up, NEW m \in Node, NEW p \in Messages, SoundMessage(h, m, p)
  PROVE  Copy(p.batch, n) # NoMember => p.batch[n].inc <= h[n].inc
<1> SUFFICES ASSUME Copy(p.batch, n) # NoMember PROVE p.batch[n].inc <= h[n].inc
  OBVIOUS
<1>1. p.batch \in Wires \cup {NoMember}
  BY DEF Messages
<1>2. Copy(p.batch, n) = p.batch[n] /\ p.batch[n] \in WireRecord
  BY <1>1, TableTypes
<1>3. Behind(p.batch[n], h[n])
  BY <1>2 DEF SoundMessage, BatchOK
<1>4. p.batch[n].inc \in Nat /\ h[n].inc \in Nat
  BY <1>2, Here, RecordTypes, ObjectTypes
<1> QED BY <1>3, <1>4, SMTT(60) DEF Behind, NotAfter

\* The response is applied.
LEMMA AnsweredStep ==
  ASSUME IInv, NEW n \in Node, NEW m \in Node, Answered(n, m)
  PROVE  Stepped
<1>1. Links /\ h[n] \in Object /\ h[n].inc <= h[n].epoch /\ h[n].table \in Table /\ h[n].up
  BY Here DEF Answered
<1>2. job[n][m].phase = "answered" /\ HasAnswer(job[n][m])
  BY DEF Answered, HasAnswer
<1>3. Linked(n, m) /\ GoodJob(n, m, job[n][m])
  BY <1>1, <1>2, JobLinked
<1>4. PICK a : a = job[n][m].answer
  OBVIOUS
<1>5. Fit(m, n, a) /\ a \in Messages
  BY <1>2, <1>3, <1>4, IdleIs DEF GoodJob, Fit
<1>6. PICK o \in IF a.type = "ERROR" THEN AdvanceEpoch(h[n]) ELSE ApplyPacket(n, h[n], m, a) :
           /\ h' = [h EXCEPT ![n] = o.s]
           /\ SetJob(n, m, [job[n][m] EXCEPT !.answer = NoMember,
                !.phase = IF a.type = "ERROR" THEN "rejected" ELSE IF o.ok THEN "ok" ELSE "failed"])
  BY <1>4 DEF Answered
<1>7. PICK phase : phase = IF a.type = "ERROR" THEN "rejected" ELSE IF o.ok THEN "ok" ELSE "failed"
  OBVIOUS
<1>8. phase \in Phases \ {"answered"} /\ phase \notin JoinPhases
  BY <1>7 DEF Phases, JoinPhases
<1>9. PICK j : j = [job[n][m] EXCEPT !.phase = phase, !.answer = NoMember]
  OBVIOUS
<1>10. GoodJob(n, m, j) /\ Inherits(j, job[n][m]) /\ j.phase = phase
  <2>1. j \in Jobs /\ j.phase = phase /\ j.answer = NoMember /\ j.gossip = job[n][m].gossip
    BY <1>3, <1>8, <1>9 DEF GoodJob, Jobs
  <2> QED BY <1>1, <1>2, <1>8, <2>1, NextPhase
<1>11. SetJob(n, m, j) /\ requests' = requests
  <2>1. job[n][m] \in Jobs
    BY <1>3 DEF GoodJob
  <2>2. j = [job[n][m] EXCEPT !.answer = NoMember, !.phase = phase]
    BY <1>9, <2>1 DEF Jobs
  <2>3. requests' = requests
    BY DEF Answered
  <2> QED BY <1>6, <1>7, <2>2, <2>3
<1>12. Links' /\ job'[n][m] = j /\ Flow(n, o.s)
  BY <1>1, <1>10, <1>11, JobStep
<1>13. CASE a.type = "ERROR"
  <2>1. Grows(h[n], o.s) /\ o.s.table = h[n].table /\ o.s.ledger = h[n].ledger
    BY <1>1, <1>6, <1>13, AdvanceEpochIs
  <2>2. Kept(n, h[n].table, o.s.table) /\ Saved(h[n], o.s, TRUE)
    BY <2>1, Here DEF Saved
  <2> QED BY <1>6, <1>12, <2>1, <2>2, KeptStep
<1>14. CASE a.type # "ERROR"
  <2>1. SoundMessage(h, m, a)
    BY <1>2, <1>4 DEF IInv, Sound
  <2>2. Copy(a.batch, n) # NoMember => a.batch[n].inc <= h[n].inc
    BY <1>1, <1>5, <2>1, NotAheadOfMe
  <2>3. a.batch # NoMember => m \in SuperPeer
    BY <1>5 DEF Fit
  <2>4. o \in ApplyPacket(n, h[n], m, a)
    BY <1>6, <1>14
  <2>5. Grows(h[n], o.s) /\ Takes(n, h[n], o.s, m, a)
    BY <1>1, <1>5, <2>2, <2>3, <2>4, ApplyPacketIs
  <2>6. Evidence(n, m, a)
    BY <1>2, <1>4, <1>8, <1>10, <1>12 DEF Evidence
  <2>7. Change(n, h[n], o.s) /\ o.s \in Object
    BY <1>1, <1>5, <2>5, <2>6 DEF Change, Moves, Grows
  <2> QED BY <1>6, <1>12, <2>7 DEF Step, Stepped
<1> QED BY <1>13, <1>14

\* A new table, on n's own account and without a checkpoint.
LEMMA TableStep ==
  ASSUME IInv, NEW n \in Node, NEW U, Kept(n, h[n].table, U), h' = [h EXCEPT ![n].table = U],
         Links', \A t : Flow(n, t)
  PROVE  Stepped
<1>1. h \in [Node -> Object] /\ h[n] \in Object /\ h[n].inc <= h[n].epoch /\ U \in Table
  BY Here DEF Kept
<1>2. PICK t : t = [h[n] EXCEPT !.table = U]
  OBVIOUS
<1>3. Grows(h[n], t) /\ t.table = U /\ t.ledger = h[n].ledger
  BY <1>1, <1>2, WithTable, SMTT(60)
<1>4. h' = [h EXCEPT ![n] = t]
  BY <1>2
<1> QED BY <1>3, <1>4, KeptStep DEF Saved

\* The last section of execute_job
LEMMA ConcludeStep ==
  ASSUME IInv, NEW n \in Node, NEW m \in Node, Conclude(n, m)
  PROVE  Stepped
<1>1. Links /\ job[n][m].phase # "idle" /\ h[n].table \in Table
  BY Here DEF Conclude
<1>2. PICK j : j = job[n][m]
  OBVIOUS
<1> DEFINE rejoin == n \in Peer /\ (j.phase # "ok" \/ h[n].needs)
           phase == IF j.phase = "failed" THEN "advance" ELSE "join"
           i == IF ~ rejoin THEN Idle ELSE [Idle EXCEPT !.phase = phase]
<1>3. /\ \E counted \in BOOLEAN :
           h' = [h EXCEPT ![n].table = IF j.phase # "ok" /\ counted
                                       THEN Probe(@, m, j.inc, j.seq) ELSE @]
      /\ SetJob(n, m, i) /\ requests' = requests
  BY <1>2 DEF Conclude
<1>4. phase \in Phases \ {"answered"}
  BY DEF Phases
<1>5. GoodJob(n, m, i) /\ Inherits(i, job[n][m])
  <2>1. CASE rejoin
    <3> HIDE DEF phase
    <3>1. i = [Idle EXCEPT !.phase = phase]
      BY <2>1
    <3> HIDE DEF i
    <3>2. i \in Jobs /\ i.phase = phase /\ i.answer = NoMember /\ i.gossip = FALSE
      BY <1>4, <3>1, IdlePhase
    <3>3. n \in Peer
      BY <2>1
    <3> HIDE DEF rejoin
    <3> QED BY <1>1, <1>4, <3>2, <3>3, NextPhase
  <2>2. CASE ~rejoin
    <3>1. i = Idle
      BY <2>2
    <3> QED BY <3>1, IdleIs DEF Inherits
  <2> QED BY <2>1, <2>2
<1> HIDE DEF i
<1>6. Links' /\ \A t : Flow(n, t)
  BY <1>1, <1>3, <1>5, JobStep
<1>7. PICK U : /\ U = h[n].table \/ U = Probe(h[n].table, m, j.inc, j.seq)
               /\ h' = [h EXCEPT ![n].table = U]
  BY <1>3
<1>8. Kept(n, h[n].table, U)
  BY <1>1, <1>7, ProbeKept, KeptUpdate, SMTT(60)
<1> QED BY <1>6, <1>7, <1>8, TableStep

\* Time passes.
LEMMA AgeStep ==
  ASSUME IInv, NEW n \in Node, NEW m \in Node, Age(n, m)
  PROVE  Stepped
<1>1. Links /\ h \in [Node -> Object] /\ h[n].table \in Table /\ h[n].table[m] # NoMember /\ h[n].table[m].age < 3
  BY Here DEF Age
<1>2. PICK U : U = [h[n].table EXCEPT ![m].age = @ + 1]
  OBVIOUS
<1>3. Kept(n, h[n].table, U)
  BY <1>1, <1>2, AgeKept
<1>4. h' = [h EXCEPT ![n].table = U]
  BY <1>2 DEF Age
<1>5. Links' /\ \A t : Flow(n, t)
  BY <1>1, SameLinks DEF Age
<1> QED BY <1>3, <1>4, <1>5, TableStep

\* A step of the object and of one job that goes on without an answer.
LEMMA QuietJob ==
  ASSUME Links, NEW n \in Node, NEW m \in Node, job[n][m].phase # "idle",
         NEW phase \in Phases \ {"answered"}, n \in Peer \/ job[n][m].phase \in JoinPhases, NEW j, j = Idle \/ j = [Idle EXCEPT !.phase = phase],
         SetJob(n, m, j), requests' = requests
  PROVE  Links' /\ \A k, t : Flow(k, t)
<1>1. CASE j = Idle
  <2>1. GoodJob(n, m, j) /\ Inherits(j, job[n][m])
    BY <1>1, IdleIs DEF Inherits
  <2> QED BY <2>1, JobStep
<1>2. CASE j = [Idle EXCEPT !.phase = phase]
  <2>1. j \in Jobs /\ j.phase = phase /\ j.answer = NoMember /\ j.gossip = FALSE
    BY <1>2, IdlePhase
  <2>2. GoodJob(n, m, j) /\ Inherits(j, job[n][m])
    BY <2>1, NextPhase
  <2> QED BY <2>2, JobStep
<1> QED BY <1>1, <1>2

\* A new incarnation before a JOIN.
LEMMA AdvanceToJoinStep ==
  ASSUME IInv, NEW n \in Node, NEW m \in Node, AdvanceToJoin(n, m)
  PROVE  Stepped
<1>1. Links /\ h[n] \in Object /\ h[n].inc <= h[n].epoch /\ job[n][m].phase = "advance"
  BY Here DEF AdvanceToJoin
<1>2. PICK o \in AdvanceEpoch(h[n]) :
        /\ h' = [h EXCEPT ![n] = o.s]
        /\ SetJob(n, m, [Idle EXCEPT !.phase = IF o.ok THEN "join" ELSE "idle"])
  BY DEF AdvanceToJoin
<1>3. PICK phase : phase = IF o.ok THEN "join" ELSE "idle"
  OBVIOUS
<1>4. phase \in Phases \ {"answered"}
  BY <1>3 DEF Phases
<1>5. PICK j : j = [Idle EXCEPT !.phase = phase]
  OBVIOUS
<1>6. SetJob(n, m, j) /\ requests' = requests
  BY <1>2, <1>3, <1>5 DEF AdvanceToJoin
<1>7. Links' /\ Flow(n, o.s)
  BY <1>1, <1>4, <1>5, <1>6, QuietJob DEF JoinPhases
<1>8. Grows(h[n], o.s) /\ o.s.table = h[n].table /\ o.s.ledger = h[n].ledger
  BY <1>1, AdvanceEpochIs
<1>9. Kept(n, h[n].table, o.s.table) /\ Saved(h[n], o.s, TRUE)
  BY <1>8, Here DEF Saved
<1> QED BY <1>2, <1>7, <1>8, <1>9, KeptStep

\* join_superpeer
LEMMA JoinStep ==
  ASSUME IInv, NEW n \in Node, NEW m \in Node, Join(n, m)
  PROVE  Stepped
<1>1. /\ Links /\ h[n] \in Object /\ h[n].inc <= h[n].epoch /\ job[n][m].phase \in {"join", "start"}
      /\ h[n].up /\ h' = h /\ job[n][m] \in Jobs
  BY Here DEF Join, Links, GoodJob
<1>2. Linked(n, m)
  BY <1>1, JobLinked
<1>3. PICK j : j = [job[n][m] EXCEPT !.phase = IF @ = "join" THEN "joining" ELSE "starting"]
  OBVIOUS
<1>4. j \in Jobs /\ j.phase # "answered" /\ j.answer = job[n][m].answer /\ j.gossip = job[n][m].gossip
  <2>1. PICK phase \in Phases : /\ phase = IF job[n][m].phase = "join" THEN "joining" ELSE "starting"
                                /\ phase # "answered"
    BY DEF Phases
  <2>2. j = [job[n][m] EXCEPT !.phase = phase]
    BY <1>1, <1>3, <2>1 DEF Jobs
  <2> QED BY <1>1, <2>1, <2>2 DEF Jobs
<1>5. GoodJob(n, m, j) /\ Inherits(j, job[n][m])
  BY <1>1, <1>4, NextPhase DEF JoinPhases
<1>6. PICK p : p = Message("JOIN", h[n].inc, 0, NoMember)
  OBVIOUS
<1>7. h[n].inc \in Nat /\ h[n].inc <= h[n].inc
  BY <1>1, ObjectTypes, SMTT(60)
<1>8. Fit(n, m, p) /\ Spoken(n, h[n], p)
  BY <1>1, <1>6, <1>7, PlainSpoken
<1>9. p.type # "LEAVE"
  BY <1>6 DEF Message
<1>10. SetJob(n, m, j) /\ requests' = requests \cup {Request(n, m, p, TRUE)}
  BY <1>3, <1>6 DEF Join
<1>11. Links' /\ Flow(n, h[n])
  BY <1>1, <1>2, <1>5, <1>8, <1>9, <1>10, SendStep
<1> QED BY <1>1, <1>11, NoChange

\* A Peer's only calls are to its home.
LEMMA CallsHome ==
  ASSUME NEW n \in Peer
  PROVE  HomeOf(n) \in SuperPeer \ {n} /\ HomeOf(n) \in Node /\ n \in Node /\ Linked(n, HomeOf(n))
<1>1. Home[n] \in SuperPeer /\ SuperPeer \cap Peer = {} /\ HomeOf(n) = Home[n]
  BY MembershipAssumption DEF HomeOf
<1> QED BY <1>1 DEF Linked, Serves, Node

\* The JOIN was acknowledged.
LEMMA JoinedStep ==
  ASSUME IInv, NEW n \in Node, NEW m \in Node, Joined(n, m)
  PROVE  Stepped
<1>1. Links /\ job[n][m].phase = "joining" /\ h' = [h EXCEPT ![n] = Discovered(h[n], n, m)]
  BY Here DEF Joined
<1>2. PICK announced \in BOOLEAN : SetJob(n, m, [Idle EXCEPT !.phase = IF announced THEN "joined" ELSE "unjoined"])
  BY DEF Joined
<1>3. PICK phase : phase = IF announced THEN "joined" ELSE "unjoined"
  OBVIOUS
<1>4. phase \in Phases \ {"answered"}
  BY <1>3 DEF Phases
<1>5. PICK j : j = [Idle EXCEPT !.phase = phase]
  OBVIOUS
<1>6. SetJob(n, m, j) /\ requests' = requests
  BY <1>2, <1>3, <1>5 DEF Joined
<1>7. Links' /\ \A k, t : Flow(k, t)
  BY <1>1, <1>4, <1>5, <1>6, QuietJob DEF JoinPhases
<1>8. Linked(n, m) /\ n \in Peer
  BY <1>1, IdleIs, JobLinked DEF GoodJob, JoinPhases
<1>9. m \in SuperPeer \ {n}
  BY <1>8, CallsHome DEF Linked, Serves, HomeOf
<1> QED BY <1>1, <1>7, <1>9, DiscoveredStep

\* The first JOIN was acknowledged.
LEMMA StartedStep ==
  ASSUME IInv, NEW n \in Peer, Started(n)
  PROVE  Stepped
<1>1. PICK m \in SuperPeer \ {n} : m = HomeOf(n) /\ m \in Node /\ n \in Node
  BY CallsHome
<1>2. /\ Links /\ job[n][m].phase = "starting" /\ h' = [h EXCEPT ![n] = Discovered(h[n], n, m)]
      /\ SetJob(n, m, Idle) /\ requests' = requests
  BY <1>1, Here DEF Started
<1>3. GoodJob(n, m, Idle) /\ Inherits(Idle, job[n][m])
  BY <1>1, IdleIs DEF Inherits
<1>4. Links' /\ \A k, t : Flow(k, t)
  BY <1>1, <1>2, <1>3, JobStep
<1> QED BY <1>1, <1>2, <1>4, DiscoveredStep

\* execute_job stores the result of reconnect().
LEMMA ReconnectedStep ==
  ASSUME IInv, NEW n \in Node, NEW m \in Node, Reconnected(n, m)
  PROVE  Stepped
<1>1. Links /\ h \in [Node -> Object] /\ h[n] \in Object /\ h[n].inc <= h[n].epoch
  BY Here
<1>2. PICK needs \in BOOLEAN : needs = (job[n][m].phase = "unjoined")
  OBVIOUS
<1>3. PICK t : t = [h[n] EXCEPT !.needs = needs]
  OBVIOUS
<1>4. /\ t \in Object /\ t.table = h[n].table /\ t.ledger = h[n].ledger /\ t.epoch = h[n].epoch
      /\ t.inc = h[n].inc /\ t.seq = h[n].seq /\ t.up = h[n].up
  BY <1>1, <1>3 DEF Object
<1>5. Grows(h[n], t)
  BY <1>1, <1>4, ObjectTypes, SMTT(60) DEF Grows, NotAfter
<1>6. Kept(n, h[n].table, t.table) /\ Saved(h[n], t, TRUE)
  BY <1>4, Here DEF Saved
<1>7. h' = [h EXCEPT ![n] = t]
  <2>1. h' = [h EXCEPT ![n].needs = needs]
    BY <1>2 DEF Reconnected
  <2> QED BY <1>3, <2>1
<1>8. GoodJob(n, m, Idle) /\ Inherits(Idle, job[n][m])
  BY IdleIs DEF Inherits
<1>9. SetJob(n, m, Idle) /\ requests' = requests
  BY DEF Reconnected
<1>10. Links' /\ Flow(n, t)
  BY <1>1, <1>8, <1>9, JobStep
<1> QED BY <1>4, <1>5, <1>6, <1>7, <1>10, KeptStep

\* A change on n's own account and then a checkpoint.
LEMMA SavedStep ==
  ASSUME IInv, NEW n \in Node, h[n].up, NEW U, Kept(n, h[n].table, U), NEW s, s = [h[n] EXCEPT !.table = U],
         NEW o \in Checkpoint(s), h' = [h EXCEPT ![n] = o.s], Links', Flow(n, o.s)
  PROVE  Stepped
<1>1. h[n] \in Object /\ h[n].inc <= h[n].epoch /\ U \in Table
  BY Here DEF Kept
<1>2. Grows(h[n], s) /\ s.table = U /\ s.ledger = h[n].ledger
  BY <1>1, WithTable, SMTT(60)
<1>3. s \in Object /\ s.inc <= s.epoch
  BY <1>2 DEF Grows
<1>4. /\ Grows(s, o.s) /\ o.s.table = U
      /\ o.s.ledger = Save(o.s.table) \/ (o.s.ledger = h[n].ledger /\ WriteErrors)
  BY <1>2, <1>3, CheckpointIs
<1>5. Grows(h[n], o.s)
  BY <1>1, <1>2, <1>4, GrowsTwice, SMTT(60)
<1>6. Saved(h[n], o.s, TRUE)
  BY <1>4 DEF Saved
<1> QED BY <1>4, <1>5, <1>6, KeptStep

\* evaluate()
LEMMA EvaluateStep ==
  ASSUME IInv, NEW n \in Node, Evaluate(n)
  PROVE  Stepped
<1>1. PICK U : U = Tick(h[n].table, n)
  OBVIOUS
<1>2. Kept(n, h[n].table, U)
  BY <1>1, Here, TickKept
<1>3. PICK s : s = [h[n] EXCEPT !.table = U]
  OBVIOUS
<1>4. s = [h[n] EXCEPT !.table = Tick(@, n)]
  BY <1>1, <1>3, Here DEF Object
<1>5. PICK o \in Checkpoint(s) : h' = [h EXCEPT ![n] = o.s]
  BY <1>4 DEF Evaluate
<1>6. h[n].up /\ Links' /\ Flow(n, o.s)
  BY Here, SameLinks DEF Evaluate
<1> QED BY <1>2, <1>3, <1>5, <1>6, SavedStep

\* The answer to a request reaches the job that waits for it.
LEMMA ReplyIs ==
  ASSUME Links, NEW r \in requests, NEW a, NEW t, Fit(r.dst, r.src, a), Spoken(r.dst, t, a), Reply(r, a)
  PROVE  Links' /\ Flow(r.dst, t) /\ r \in requests \ requests'
<1>1. GoodRequest(r) /\ requests' = requests \ {r}
  BY DEF Links, Reply
<1>2. PICK n \in Node, m \in Node : n = r.src /\ m = r.dst /\ Linked(n, m)
  BY <1>1 DEF GoodRequest, Requests
<1>3. (\A q \in requests' : GoodRequest(q)) /\ RequestFlow(m, t)
  BY <1>1 DEF Links, RequestFlow
<1>4. CASE ~r.wait
  <2>1. job' = job
    BY <1>4 DEF Reply
  <2>2. AnswerFlow(m, t)
    BY <2>1 DEF AnswerFlow
  <2> QED BY <1>1, <1>2, <1>3, <2>1, <2>2 DEF Links, Flow
<1>5. CASE r.wait
  <2>1. PICK j : j = job[n][m]
    OBVIOUS
  <2>2. PICK i : i = [j EXCEPT !.answer = a, !.phase = IF @ = "sent" THEN "answered" ELSE @]
    OBVIOUS
  <2>3. job' = [job EXCEPT ![n][m] = i]
    BY <1>2, <1>5, <2>1, <2>2 DEF Reply
  <2>4. j \in Jobs /\ GoodJob(n, m, j) /\ job \in [Node -> [Node -> Jobs]] /\ a \in Messages
    BY <2>1 DEF Links, Fit, GoodJob
  <2>5. i \in Jobs /\ i.answer = a /\ i.gossip = j.gossip /\ i.phase \in {j.phase, "answered"}
    <3>1. PICK phase \in Phases : phase = IF j.phase = "sent" THEN "answered" ELSE j.phase
      BY <2>4 DEF Phases, Jobs
    <3>2. i = [j EXCEPT !.answer = a, !.phase = phase]
      BY <2>2, <2>4, <3>1 DEF Jobs
    <3> QED BY <2>4, <3>1, <3>2 DEF Jobs
  <2>6. GoodJob(n, m, i)
    <3>1. /\ j.gossip => n \in SuperPeer /\ m \in SuperPeer
          /\ j.phase \in JoinPhases => n \in Peer
      BY <2>4, IdleIs DEF GoodJob, JoinPhases
    <3>2. "answered" \notin JoinPhases
      BY DEF JoinPhases
    <3> QED BY <1>2, <2>5, <3>1, <3>2 DEF GoodJob
  <2>7. /\ job' \in [Node -> [Node -> Jobs]]
        /\ \A k, l \in Node : job'[k][l] = IF k = n /\ l = m THEN i ELSE job[k][l]
    <3>1. job' = [job EXCEPT ![n] = [job[n] EXCEPT ![m] = i]]
      BY <2>3
    <3>2. [job[n] EXCEPT ![m] = i] \in [Node -> Jobs]
      BY <2>4, <2>5
    <3> QED BY <2>4, <3>1, <3>2
  <2>8. Links'
    BY <1>3, <2>6, <2>7 DEF Links
  <2>9. AnswerFlow(m, t)
    BY <1>2, <2>5, <2>7, SMTT(60) DEF AnswerFlow
  <2> QED BY <1>1, <1>2, <1>3, <2>8, <2>9 DEF Flow
<1> QED BY <1>4, <1>5

\* A request is between linked nodes and fits them.
LEMMA RequestIs ==
  ASSUME IInv, NEW r \in requests
  PROVE  /\ r.src \in Node /\ r.dst \in Node /\ r.msg \in Messages
         /\ Linked(r.src, r.dst) /\ Fit(r.src, r.dst, r.msg) /\ SoundMessage(h, r.src, r.msg)
<1>1. GoodRequest(r) /\ SoundMessage(h, r.src, r.msg)
  BY DEF IInv, Links, Sound
<1> QED BY <1>1 DEF GoodRequest, Requests

\* n takes the message of a request, and answers it.
LEMMA TakesStep ==
  ASSUME IInv, NEW r \in requests, NEW n, n = r.dst, h[n].up, NEW t, h' = [h EXCEPT ![n] = t],
         Grows(h[n], t), Takes(n, h[n], t, r.src, r.msg), NEW a, Fit(n, r.src, a), Spoken(n, t, a), Reply(r, a)
  PROVE  Stepped
<1>1. Links' /\ Flow(n, t) /\ r \in requests \ requests'
  BY ReplyIs DEF IInv
<1>2. n \in Node /\ r.src \in Node /\ r.msg \in Messages
  BY RequestIs
<1>3. Evidence(n, r.src, r.msg)
  BY <1>1 DEF Evidence
<1>4. Change(n, h[n], t) /\ t \in Object
  BY <1>2, <1>3 DEF Change, Moves, Grows
<1> QED BY <1>1, <1>2, <1>4 DEF Step, Stepped

\* heartbeat_handle
LEMMA HandlePacketStep ==
  ASSUME IInv, NEW r \in requests, HandlePacket(r)
  PROVE  Stepped
<1>1. /\ r.src \in Node /\ r.dst \in Node /\ r.msg \in Messages
      /\ Fit(r.src, r.dst, r.msg) /\ SoundMessage(h, r.src, r.msg)
  BY RequestIs
<1>2. PICK n \in Node : n = r.dst
  BY <1>1
<1>3. PICK m \in Node, p \in Messages : m = r.src /\ p = r.msg
  BY <1>1
<1>4. h[n] \in Object /\ h[n].inc <= h[n].epoch /\ h[n].up
  BY <1>2, Here DEF HandlePacket
<1>5. PICK g \in BOOLEAN : g = (r.msg.type = "GOSSIP")
  OBVIOUS
<1>6. PICK o \in ApplyPacket(n, h[n], m, p) :
        IF ~ o.ok THEN h' = [h EXCEPT ![n] = o.s] /\ Reply(r, Error)
        ELSE \E e \in LocalRecord(o.s) :
               /\ h' = [h EXCEPT ![n] = e.s]
               /\ Reply(r, IF e.ok THEN Packet(n, e.s, g) ELSE Error)
  BY <1>2, <1>3, <1>5 DEF HandlePacket
<1>7. Copy(p.batch, n) # NoMember => p.batch[n].inc <= h[n].inc
  BY <1>1, <1>3, <1>4, NotAheadOfMe
<1>8. p.batch # NoMember => m \in SuperPeer
  BY <1>1, <1>3 DEF Fit
<1>9. Grows(h[n], o.s) /\ Takes(n, h[n], o.s, m, p)
  BY <1>4, <1>7, <1>8, ApplyPacketIs
<1>10. o.s \in Object /\ o.s.inc <= o.s.epoch
  BY <1>9 DEF Grows
<1>11. CASE ~o.ok
  <2>1. Fit(n, r.src, Error) /\ Spoken(n, o.s, Error)
    BY <1>1, <1>10, ErrorSpoken
  <2> QED BY <1>2, <1>3, <1>4, <1>6, <1>9, <1>11, <2>1, TakesStep
<1>12. CASE o.ok
  <2>1. PICK e \in LocalRecord(o.s) : /\ h' = [h EXCEPT ![n] = e.s]
                                      /\ Reply(r, IF e.ok THEN Packet(n, e.s, g) ELSE Error)
    BY <1>6, <1>12
  <2>2. Grows(o.s, e.s) /\ e.s.table = o.s.table /\ e.s.ledger = o.s.ledger
    BY <1>10, LocalRecordIs
  <2>3. Grows(h[n], e.s) /\ Takes(n, h[n], e.s, m, p)
    BY <1>4, <1>9, <2>2, GrowsTwice DEF Takes, Saved
  <2>4. e.s \in Object /\ e.s.inc <= e.s.epoch
    BY <2>2 DEF Grows
  <2>5. PICK a : a = IF e.ok THEN Packet(n, e.s, g) ELSE Error
    OBVIOUS
  <2>6. Fit(n, m, a) /\ Spoken(n, e.s, a)
    <3>1. CASE e.ok
      <4>1. g => n \in SuperPeer /\ m \in SuperPeer
        BY <1>1, <1>2, <1>3, <1>5 DEF Fit
      <4>2. a = Packet(n, e.s, g)
        BY <2>5, <3>1
      <4> QED BY <2>4, <4>1, <4>2, PacketSpoken
    <3>2. CASE ~e.ok
      BY <2>4, <2>5, <3>2, ErrorSpoken
    <3> QED BY <3>1, <3>2
  <2>7. Reply(r, a)
    BY <2>1, <2>5
  <2> QED BY <1>2, <1>3, <1>4, <2>1, <2>3, <2>6, <2>7, TakesStep
<1> QED BY <1>11, <1>12

\* A request is refused, and nothing changes.
LEMMA RefuseStep ==
  ASSUME IInv, NEW r \in requests, h' = h, Reply(r, Error)
  PROVE  Stepped
<1>1. r.dst \in Node /\ r.src \in Node
  BY RequestIs
<1>2. h[r.dst] \in Object
  BY <1>1, Here
<1>3. Fit(r.dst, r.src, Error) /\ Spoken(r.dst, h[r.dst], Error)
  BY <1>1, <1>2, ErrorSpoken
<1>4. Links' /\ Flow(r.dst, h[r.dst])
  BY <1>3, ReplyIs DEF IInv
<1> QED BY <1>1, <1>4, NoChange

\* register_join
LEMMA HandleJoinStep ==
  ASSUME IInv, NEW r \in requests, HandleJoin(r)
  PROVE  Stepped
<1>1. r.src \in Node /\ r.dst \in Node /\ r.msg \in Messages
  BY RequestIs
<1>2. PICK n \in Node : n = r.dst
  BY <1>1
<1>3. PICK m \in Node, p \in Messages : m = r.src /\ p = r.msg
  BY <1>1
<1>4. h[n] \in Object /\ h[n].inc <= h[n].epoch /\ h[n].table \in Table /\ h[n].up
  BY <1>2, Here DEF HandleJoin
<1>5. CASE ~MayRegister(h[n].table, m, p.inc)
  <2>1. h' = h /\ Reply(r, Error)
    BY <1>2, <1>3, <1>5 DEF HandleJoin
  <2> QED BY <2>1, RefuseStep
<1>6. CASE MayRegister(h[n].table, m, p.inc)
  <2>1. PICK U : U = Register(h[n].table, n, m, p.inc)
    OBVIOUS
  <2>2. p.inc \in Nat /\ p.seq \in Nat
    BY DEF Messages
  <2>3. Heard(n, h[n].table, U, m, p.inc, p.seq) /\ U \in Table
    <3>1. Heard(n, h[n].table, U, m, p.inc, p.seq)
      BY <1>4, <1>6, <2>1, <2>2, RegisterHeard
    <3> QED BY <3>1 DEF Heard
  <2>4. PICK s : s = [h[n] EXCEPT !.table = U]
    OBVIOUS
  <2>5. s = [h[n] EXCEPT !.table = Register(@, n, m, p.inc)]
    BY <1>4, <2>1, <2>4 DEF Object
  <2>6. PICK o \in Checkpoint(s) : h' = [h EXCEPT ![n] = o.s] /\ Reply(r, IF o.ok THEN Ack ELSE Error)
    BY <1>2, <1>3, <1>6, <2>5 DEF HandleJoin
  <2>7. Grows(h[n], s) /\ s.table = U /\ s.ledger = h[n].ledger
    BY <1>4, <2>3, <2>4, WithTable, SMTT(60)
  <2>8. s \in Object /\ s.inc <= s.epoch
    BY <2>7 DEF Grows
  <2>9. /\ Grows(s, o.s) /\ o.s.table = U
        /\ o.s.ledger = Save(o.s.table) \/ (o.s.ledger = h[n].ledger /\ WriteErrors)
    BY <2>7, <2>8, CheckpointIs
  <2>10. Grows(h[n], o.s) /\ o.s \in Object
    BY <1>4, <2>7, <2>9, GrowsTwice DEF Grows
  <2>11. Told(n, U, o.s.table, p.batch)
    BY <2>3, <2>9, ToldNothing
  <2>12. Takes(n, h[n], o.s, m, p)
    BY <2>3, <2>9, <2>11 DEF Takes, Saved
  <2>13. PICK a \in {Error, Ack} : a = IF o.ok THEN Ack ELSE Error
    OBVIOUS
  <2>14. Fit(n, m, a) /\ Spoken(n, o.s, a)
    BY <2>10, ErrorSpoken
  <2>15. Reply(r, a)
    BY <2>6, <2>13
  <2> QED BY <1>2, <1>3, <1>4, <2>6, <2>10, <2>12, <2>14, <2>15, TakesStep
<1> QED BY <1>5, <1>6

\* The M_LEAVE branch
LEMMA HandleLeaveStep ==
  ASSUME IInv, NEW r \in requests, HandleLeave(r)
  PROVE  Stepped
<1>1. r.src \in Node /\ r.dst \in Node /\ Linked(r.src, r.dst)
  BY RequestIs
<1>2. PICK n \in Node, m \in Node : n = r.dst /\ m = r.src
  BY <1>1
<1>3. h[n] \in Object /\ h[n].table \in Table /\ h[n].up
  BY <1>2, Here DEF HandleLeave
<1>4. Reply(r, Error)
  BY DEF HandleLeave
<1>5. CASE ~MayLeave(h[n].table, m, r.msg.inc)
  <2>1. h' = h
    BY <1>2, <1>5 DEF HandleLeave
  <2> QED BY <1>4, <2>1, RefuseStep
<1>6. CASE MayLeave(h[n].table, m, r.msg.inc)
  <2>1. PICK U : U = Unregister(h[n].table, n, m)
    OBVIOUS
  <2>2. h[n].table[m] # NoMember /\ Serves(n, m)
    BY <1>1, <1>2, <1>6 DEF MayLeave, Found, Linked
  <2>3. Kept(n, h[n].table, U) /\ U \in Table
    BY <1>3, <2>1, <2>2, UnregisterKept DEF Kept
  <2>4. PICK s : s = [h[n] EXCEPT !.table = U]
    OBVIOUS
  <2>5. s = [h[n] EXCEPT !.table = Unregister(@, n, m)]
    BY <1>3, <2>1, <2>4 DEF Object
  <2>6. PICK o \in Checkpoint(s) : h' = [h EXCEPT ![n] = o.s]
    BY <1>2, <1>6, <2>5 DEF HandleLeave
  <2>7. s \in Object /\ s.inc <= s.epoch
    BY <1>2, <2>3, <2>4, Here, WithTable DEF Grows
  <2>8. o.s \in Object
    BY <2>7, CheckpointIs DEF Grows
  <2>9. Fit(n, m, Error) /\ Spoken(n, o.s, Error)
    BY <2>8, ErrorSpoken
  <2>10. Links' /\ Flow(n, o.s)
    BY <1>2, <1>4, <2>9, ReplyIs DEF IInv
  <2> QED BY <1>3, <2>3, <2>4, <2>6, <2>10, SavedStep
<1> QED BY <1>5, <1>6

\* heartbeat_create
LEMMA StartStep ==
  ASSUME IInv, NEW n \in Node, Start(n)
  PROVE  Stepped
<1>1. Links /\ h[n] \in Object /\ h[n].inc <= h[n].epoch /\ h[n].ledger \in Wires /\ ~h[n].up
  BY Here DEF Start
<1>2. PICK o \in AdvanceEpoch(h[n]) :
       /\ h' = [h EXCEPT ![n] = IF o.ok THEN [o.s EXCEPT !.up = TRUE, !.table = Load(o.s.ledger, n)]
                                ELSE o.s]
       /\ job' = IF o.ok /\ n \in Peer THEN [job EXCEPT ![n][HomeOf(n)].phase = "start"] ELSE job
  BY DEF Start
<1>3. /\ Grows(h[n], o.s) /\ o.s.table = h[n].table /\ o.s.ledger = h[n].ledger
      /\ o.ok => o.s.inc > h[n].epoch
  BY <1>1, AdvanceEpochIs
<1>4. o.s \in Object /\ o.s.inc <= o.s.epoch
  BY <1>3 DEF Grows
<1>5. Links' /\ \A t : Flow(n, t)
  <2>1. CASE ~(o.ok /\ n \in Peer)
    <3>1. job' = job /\ requests' = requests
      BY <1>2, <2>1 DEF Start
    <3> QED BY <1>1, <3>1, SameLinks
  <2>2. CASE o.ok /\ n \in Peer
    <3>1. PICK m \in Node : m = HomeOf(n) /\ Linked(n, m)
      BY <2>2, CallsHome
    <3>2. PICK j : j = [job[n][m] EXCEPT !.phase = "start"]
      OBVIOUS
    <3>3. GoodJob(n, m, job[n][m]) /\ job \in [Node -> [Node -> Jobs]] /\ job[n][m] \in Jobs
      BY <1>1 DEF Links, GoodJob
    <3>4. SetJob(n, m, j) /\ requests' = requests
      <4>1. job' = [job EXCEPT ![n][m].phase = "start"]
        BY <1>2, <2>2, <3>1
      <4>2. job' = [job EXCEPT ![n][m] = j]
        BY <3>2, <3>3, <4>1
      <4> QED BY <4>2 DEF SetJob, Start
    <3>5. j \in Jobs /\ j.phase = "start" /\ j.answer = job[n][m].answer /\ j.gossip = job[n][m].gossip
      BY <3>2, <3>3 DEF Jobs, Phases
    <3>6. Inherits(j, job[n][m])
      BY <3>5 DEF Inherits, HasAnswer
    <3>7. GoodJob(n, m, j)
      <4>1. /\ job[n][m].gossip => n \in SuperPeer /\ m \in SuperPeer
            /\ HasAnswer(job[n][m]) => Fit(m, n, job[n][m].answer)
        BY <3>3, IdleIs DEF GoodJob
      <4> QED BY <2>2, <3>1, <3>5, <3>6, <4>1 DEF GoodJob, Inherits
    <3> QED BY <1>1, <3>4, <3>6, <3>7, JobStep
  <2> QED BY <2>1, <2>2
<1>6. CASE ~o.ok
  <2>1. h' = [h EXCEPT ![n] = o.s]
    BY <1>2, <1>6
  <2>2. Kept(n, h[n].table, o.s.table) /\ Saved(h[n], o.s, TRUE)
    BY <1>3, Here DEF Saved
  <2> QED BY <1>3, <1>5, <2>1, <2>2, KeptStep
<1>7. CASE o.ok
  <2>1. PICK U : U = Load(h[n].ledger, n)
    OBVIOUS
  <2>2. U \in Table /\ TRUE \in BOOLEAN
    BY <1>1, <2>1, LoadIs
  <2>3. PICK t : t = [o.s EXCEPT !.up = TRUE, !.table = U]
    OBVIOUS
  <2>4. /\ t \in Object /\ t.up = TRUE /\ t.inc = o.s.inc /\ t.epoch = o.s.epoch
        /\ t.ledger = o.s.ledger /\ t.table = U
    BY <1>4, <2>2, <2>3 DEF Object
  <2>5. h[n].epoch < t.inc
    <3>1. h[n].epoch \in Nat /\ o.s.inc \in Nat
      BY <1>1, <1>4, ObjectTypes
    <3> QED BY <1>3, <1>7, <2>4, <3>1
  <2>6. Starts(n, h[n], t)
    BY <1>1, <1>3, <1>4, <2>1, <2>4, <2>5 DEF Starts
  <2>7. h' = [h EXCEPT ![n] = t]
    BY <1>2, <1>3, <1>7, <2>1, <2>3
  <2>8. Change(n, h[n], t)
    BY <2>6 DEF Change
  <2> QED BY <1>5, <2>4, <2>7, <2>8 DEF Step, Stepped
<1> QED BY <1>6, <1>7

\* What is left of a process that ended.
LEMMA EndedIs ==
  ASSUME NEW s \in Object
  PROVE  /\ Ended(s) \in Object /\ ~Ended(s).up /\ Ended(s).epoch = s.epoch /\ Ended(s).ledger = s.ledger
         /\ Ended(s).inc = 0 /\ Ended(s).table = EmptyTable /\ EmptyTable \in Table /\ EmptyTable \in Wires
<1>1. EmptyTable \in Table /\ EmptyTable \in Wires
  BY DEF EmptyTable, Table, Wires
<1>2. 0 \in Nat /\ FALSE \in BOOLEAN
  OBVIOUS
<1>3. Down \in Object
  BY <1>1, <1>2 DEF Down, Object
<1>4. ~Down.up /\ Down.inc = 0 /\ Down.table = EmptyTable
  BY DEF Down
<1>5. PICK t : t = Ended(s)
  OBVIOUS
<1>6. s.epoch \in Nat /\ s.ledger \in Wires
  BY ObjectTypes
<1>7. /\ t \in Object /\ t.epoch = s.epoch /\ t.ledger = s.ledger /\ t.up = Down.up
      /\ t.inc = Down.inc /\ t.table = Down.table
  BY <1>3, <1>5, <1>6 DEF Ended, Object
<1> QED BY <1>1, <1>4, <1>5, <1>7

\* A process ends; its last message is a LEAVE or there is none.
LEMMA EndStep ==
  ASSUME IInv, NEW n \in Node, NEW leave, End(n, leave),
         leave = {} \/ (n \in Peer /\ leave = {Request(n, HomeOf(n), Message("LEAVE", h[n].inc, 0, NoMember), FALSE)})
  PROVE  Stepped
<1>1. Links /\ h[n] \in Object /\ h[n].inc <= h[n].epoch
  BY Here
<1>2. PICK t : t = Ended(h[n])
  OBVIOUS
<1>3. t \in Object /\ ~t.up /\ t.epoch = h[n].epoch
  BY <1>1, <1>2, EndedIs
<1>4. h' = [h EXCEPT ![n] = t] /\ Change(n, h[n], t)
  BY <1>2 DEF End, Change
<1>5. job \in [Node -> [Node -> Jobs]]
  BY <1>1 DEF Links
<1>6. /\ job' \in [Node -> [Node -> Jobs]]
      /\ \A k, l \in Node : job'[k][l] = IF k = n THEN Idle ELSE job[k][l]
  BY <1>5, IdleIs DEF End
<1>7. (\A k, l \in Node : GoodJob(k, l, job'[k][l])) /\ AnswerFlow(n, t)
  BY <1>1, <1>6, IdleIs DEF Links, AnswerFlow
<1>8. ASSUME NEW r \in requests'
      PROVE  /\ GoodRequest(r)
             /\ \/ \E q \in requests : q.src = r.src /\ q.msg = r.msg /\ (r.wait => q.wait)
                \/ r.src = n /\ Spoken(n, t, r.msg) /\ (r.wait => r.msg.type # "LEAVE")
  <2>1. PICK R : R = {q \in requests : q.src = n}
    OBVIOUS
  <2>2. r \in requests \/ r \in GivenUp(R) \/ r \in leave
    BY <1>8, <2>1 DEF End
  <2>3. CASE r \in requests
    BY <1>1, <2>3 DEF Links
  <2>4. CASE r \in GivenUp(R)
    <3>1. PICK q \in R : r = [q EXCEPT !.wait = FALSE]
      BY <2>4 DEF GivenUp
    <3>2. q \in requests /\ GoodRequest(q)
      BY <1>1, <2>1, <3>1 DEF Links
    <3>3. q \in Requests
      BY <3>2 DEF GoodRequest
    <3>4. r \in Requests /\ r.src = q.src /\ r.dst = q.dst /\ r.msg = q.msg /\ r.wait = FALSE
      BY <3>1, <3>3 DEF Requests
    <3> QED BY <3>2, <3>4 DEF GoodRequest
  <2>5. CASE r \in leave
    <3>1. PICK p : p = Message("LEAVE", h[n].inc, 0, NoMember)
      OBVIOUS
    <3>2. n \in Peer /\ r = Request(n, HomeOf(n), p, FALSE)
      BY <2>5, <3>1
    <3>3. HomeOf(n) \in Node /\ Linked(n, HomeOf(n))
      BY <3>2, CallsHome
    <3>4. h[n].inc \in Nat
      BY <1>1, ObjectTypes
    <3>5. Fit(n, HomeOf(n), p) /\ Spoken(n, t, p)
      BY <1>1, <1>3, <3>1, <3>3, <3>4, PlainSpoken
    <3>6. r \in Requests /\ r.src = n /\ r.dst = HomeOf(n) /\ r.msg = p /\ r.wait = FALSE
      BY <3>2, <3>3, <3>5 DEF Request, Requests, Fit
    <3> QED BY <3>3, <3>5, <3>6 DEF GoodRequest
  <2> QED BY <2>2, <2>3, <2>4, <2>5
<1>9. Links'
  BY <1>6, <1>7, <1>8 DEF Links
<1>10. Flow(n, t)
  BY <1>7, <1>8 DEF Flow, RequestFlow
<1> QED BY <1>3, <1>4, <1>9, <1>10 DEF Step, Stepped

\* Every step of the system is a step of one node of the kinds above, or changes nothing.
LEMMA StepIs ==
  ASSUME IInv, [Next]_vars
  PROVE  Stepped \/ UNCHANGED vars
<1>1. ASSUME NEW n \in Node, NEW m \in Node, \E g \in BOOLEAN : Enqueue(n, m, g) PROVE Stepped
  BY <1>1, EnqueueStep
<1>2. ASSUME NEW n \in Node, NEW m \in Node,
             \/ Discover(n, m) \/ Call(n, m) \/ CallFails(n, m) \/ Answered(n, m) \/ Conclude(n, m)
             \/ AdvanceToJoin(n, m) \/ Join(n, m) \/ Joined(n, m) \/ JoinFails(n, m) \/ Reconnected(n, m)
      PROVE  Stepped
  BY <1>2, DiscoverStep, CallStep, CallFailsStep, AnsweredStep, ConcludeStep, AdvanceToJoinStep,
     JoinStep, JoinedStep, JoinFailsStep, ReconnectedStep
<1>3. ASSUME NEW l \in Silent, Age(l[1], l[2]) PROVE Stepped
  <2>1. l[1] \in Node /\ l[2] \in Node
    BY HeartbeatAssumption
  <2> QED BY <1>3, <2>1, AgeStep
<1>4. ASSUME NEW r \in requests, HandlePacket(r) \/ HandleJoin(r) \/ HandleLeave(r) PROVE Stepped
  BY <1>4, HandlePacketStep, HandleJoinStep, HandleLeaveStep
<1>5. ASSUME NEW n \in Node, Evaluate(n) \/ Start(n) \/ Crash(n) PROVE Stepped
  <2>1. CASE Crash(n)
    BY <2>1, EndStep DEF Crash
  <2> QED BY <1>5, <2>1, EvaluateStep, StartStep
<1>6. ASSUME NEW n \in Peer, Started(n) \/ StartFails(n) \/ Leave(n) PROVE Stepped
  <2>1. n \in Node
    BY DEF Node
  <2>2. CASE StartFails(n)
    BY <2>1, <2>2, EndStep DEF StartFails
  <2>3. CASE Leave(n)
    BY <2>1, <2>3, EndStep DEF Leave
  <2> QED BY <1>6, <2>2, <2>3, StartedStep
<1> QED BY <1>1, <1>2, <1>3, <1>4, <1>5, <1>6 DEF Next

----------------------------------------------------------------------------
(* A step keeps the invariant *)

\* A message that a node takes was in flight.
LEMMA EvidenceIs ==
  ASSUME IInv, NEW n \in Node, NEW m \in Node, NEW p \in Messages, Evidence(n, m, p)
  PROVE  /\ Linked(n, m) /\ SoundMessage(h, m, p) /\ p.batch \in Wires \cup {NoMember}
         /\ ~WriteErrors => CoveredBatch(HomeLedger(h), p.batch)
<1>1. p.batch \in Wires \cup {NoMember}
  BY DEF Messages
<1>2. CASE \E r \in requests : r.src = m /\ r.dst = n /\ r.msg = p
  <2>1. PICK r \in requests : r.src = m /\ r.dst = n /\ r.msg = p
    BY <1>2
  <2>2. Linked(m, n) /\ SoundMessage(h, m, p)
    BY <2>1, RequestIs
  <2>3. ~WriteErrors => CoveredBatch(HomeLedger(h), p.batch)
    BY <2>1 DEF IInv, HomeFirst
  <2> QED BY <1>1, <2>2, <2>3 DEF Linked
<1>3. CASE job[n][m].phase = "answered" /\ job[n][m].answer = p
  <2>1. HasAnswer(job[n][m]) /\ job[n][m].phase # "idle"
    BY <1>3 DEF HasAnswer
  <2>2. Linked(n, m)
    BY <2>1, JobLinked DEF IInv
  <2>3. SoundMessage(h, m, p)
    BY <1>3, <2>1 DEF IInv, Sound
  <2>4. ~WriteErrors => CoveredBatch(HomeLedger(h), p.batch)
    BY <1>3, <2>1 DEF IInv, HomeFirst
  <2> QED BY <1>1, <2>2, <2>3, <2>4
<1> QED BY <1>2, <1>3 DEF Evidence

\* The node's own incarnation is not ahead of it, also when it is none.
LEMMA NothingHeard ==
  ASSUME NEW s \in Object
  PROVE  LET p == Message("ERROR", 0, 0, NoMember)
         IN  p \in Messages /\ p.inc = 0 /\ p.seq = 0 /\ Behind(p, s)
<1>1. PICK p : p = Message("ERROR", 0, 0, NoMember)
  OBVIOUS
<1>2. p \in Messages /\ p.inc = 0 /\ p.seq = 0
  BY <1>1, MessageIs, SMTT(60)
<1>3. Behind(p, s)
  BY <1>2, ObjectTypes, SMTT(60) DEF Behind, NotAfter
<1> QED BY <1>1, <1>2, <1>3

\* The table after a change is right, and not before the one it replaces.
LEMMA MovesTable ==
  ASSUME IInv, NEW n \in Node, NEW t, Moves(n, h[n], t)
  PROVE  /\ t.table \in Table /\ TableOK(h, t.table) /\ Reported(n, t.table) /\ t.table[n] = NoMember
         /\ TableForward(h[n].table, t.table)
<1>1. h \in [Node -> Object] /\ h[n] \in Object /\ h[n].table \in Table
  BY Here
<1>2. TableOK(h, h[n].table) /\ Reported(n, h[n].table) /\ h[n].table[n] = NoMember
  BY DEF IInv, Objects, ObjectOK
<1>3. t \in Object /\ t.table \in Table
  BY ObjectTypes DEF Moves, Grows
<1>4. CASE Kept(n, h[n].table, t.table)
  BY <1>1, <1>2, <1>3, <1>4, KindsBehind, KindsReported, KindsNoSelf, KindsForward
<1>5. ASSUME NEW m \in Node \ {n}, NEW p \in Messages, NEW T \in Table, Heard(n, h[n].table, T, m, p.inc, p.seq),
             Behind(p, h[m]), Serves(n, m)
      PROVE  /\ TableOK(h, T) /\ Reported(n, T) /\ T[n] = NoMember
             /\ TableForward(h[n].table, T)
  <2>1. TableOK(h, T)
    BY <1>1, <1>2, <1>5, KindsBehind
  <2>2. Reported(n, T)
    BY <1>1, <1>2, <1>5, KindsReported
  <2>3. T[n] = NoMember
    BY <1>1, <1>2, <1>5, KindsNoSelf
  <2>4. TableForward(h[n].table, T)
    BY <1>1, <1>5, KindsForward
  <2> QED BY <2>1, <2>2, <2>3, <2>4
<1>6. CASE \E m \in SuperPeer \ {n} : Heard(n, h[n].table, t.table, m, 0, 0)
  <2>1. PICK m \in SuperPeer \ {n} : Heard(n, h[n].table, t.table, m, 0, 0)
    BY <1>6
  <2>2. m \in Node \ {n} /\ Serves(n, m)
    BY MembershipAssumption DEF Node, Serves
  <2>3. PICK p \in Messages : p.inc = 0 /\ p.seq = 0 /\ Behind(p, h[m])
    <3>1. h[m] \in Object
      BY <1>1, <2>2
    <3> QED BY <3>1, NothingHeard
  <2> QED BY <1>3, <1>5, <2>1, <2>2, <2>3
<1>7. CASE \E m \in Node, p \in Messages : Evidence(n, m, p) /\ Takes(n, h[n], t, m, p)
  <2>1. PICK m \in Node, p \in Messages : Evidence(n, m, p) /\ Takes(n, h[n], t, m, p)
    BY <1>7
  <2>2. Linked(n, m) /\ SoundMessage(h, m, p)
    BY <2>1, EvidenceIs
  <2>3. PICK T \in Table : /\ T = h[n].table \/ Heard(n, h[n].table, T, m, p.inc, p.seq)
                           /\ Told(n, T, t.table, p.batch)
    BY <2>1 DEF Takes
  <2>4. m \in Node \ {n} /\ Serves(n, m) /\ Behind(p, h[m]) /\ BatchOK(h, p.batch) /\ ValidBatch(p.batch)
    BY <2>2 DEF Linked, SoundMessage
  <2>5. TableOK(h, T) /\ Reported(n, T) /\ T[n] = NoMember /\ TableForward(h[n].table, T)
    BY <1>1, <1>2, <1>5, <2>3, <2>4, ForwardTwice
  <2>6. TableOK(h, t.table)
    BY <1>1, <2>3, <2>4, <2>5, KindsBehind
  <2>7. Reported(n, t.table)
    BY <2>3, <2>4, <2>5, KindsReported
  <2>8. t.table[n] = NoMember
    BY <2>3, <2>5, KindsNoSelf
  <2>9. TableForward(T, t.table)
    BY <2>3, KindsForward
  <2>10. TableForward(h[n].table, t.table)
    BY <1>1, <1>3, <2>5, <2>9, ForwardTwice
  <2> QED BY <1>3, <2>6, <2>7, <2>8, <2>10
<1> QED BY <1>4, <1>6, <1>7 DEF Moves

\* A ledger that was just written says what the table says.
LEMMA SavedLedger ==
  ASSUME NEW T \in Table
  PROVE  /\ Save(T) \in Wires /\ TableForward(Save(T), T)
         /\ \A n \in Node : T[n] = NoMember => Save(T)[n] = NoMember
         /\ \A n : Reported(n, T) => ReportedBy(Save(T))
         /\ \A H : TableOK(H, T) => TableOK(H, Save(T))
         /\ \A L : TableForward(L, T) => TableForward(L, Save(T))
         /\ \A L : Covered(L, T) => Covered(L, Save(T))
<1>1. PICK S \in Wires : S = Save(T)
  BY SaveIs
<1>2. ASSUME NEW m \in Node
      PROVE  IF T[m] = NoMember THEN S[m] = NoMember
             ELSE /\ S[m] # NoMember /\ S[m].inc = T[m].inc /\ S[m].seq = T[m].seq
                  /\ S[m].state = T[m].state /\ S[m].rep = T[m].rep
  BY <1>1, SaveIs
<1>3. \A m \in Node : T[m] # NoMember => T[m].inc \in Nat /\ T[m].seq \in Nat
  BY TableTypes, RecordTypes
<1>4. TableForward(S, T)
  BY <1>2, <1>3, SMTT(60) DEF TableForward, Forward, NotAfter
<1>5. \A n \in Node : T[n] = NoMember => S[n] = NoMember
  BY <1>2
<1>6. ASSUME NEW n, Reported(n, T) PROVE ReportedBy(S)
  BY <1>2, <1>6 DEF Reported, ReportedBy, Node
<1>7. ASSUME NEW H, TableOK(H, T) PROVE TableOK(H, S)
  BY <1>2, <1>7 DEF TableOK, Behind, NotAfter
<1>8. ASSUME NEW L, TableForward(L, T) PROVE TableForward(L, S)
  BY <1>2, <1>8, SMTT(60) DEF TableForward, Forward, NotAfter
<1>9. ASSUME NEW L, Covered(L, T) PROVE Covered(L, S)
  BY <1>2, <1>9 DEF Covered, NotAfter, Node
<1> QED BY <1>1, <1>4, <1>5, <1>6, <1>7, <1>8, <1>9

\* A table that was loaded from a ledger says what the ledger says.
LEMMA LoadedTable ==
  ASSUME NEW L \in Wires, NEW n \in Node, L[n] = NoMember
  PROVE  LET T == Load(L, n)
         IN  /\ T \in Table /\ TableForward(L, T) /\ T[n] = NoMember
             /\ ReportedBy(L) => Reported(n, T)
             /\ \A H : TableOK(H, L) => TableOK(H, T)
             /\ \A K : Covered(K, L) => Covered(K, T)
<1>1. PICK T \in Table : T = Load(L, n)
  BY LoadIs
<1>2. ASSUME NEW m \in Node
      PROVE  IF L[m] = NoMember THEN T[m] = NoMember
             ELSE /\ T[m] # NoMember /\ T[m].inc = L[m].inc /\ T[m].seq = L[m].seq
                  /\ T[m].state = L[m].state /\ T[m].rep = L[m].rep
                  /\ T[m].mine => m \in SuperPeer \/ Serves(n, m)
  BY <1>1, LoadIs, SMTT(60)
<1>3. \A m \in Node : L[m] # NoMember => L[m].inc \in Nat /\ L[m].seq \in Nat
  BY TableTypes, RecordTypes
<1>4. TableForward(L, T)
  BY <1>2, <1>3, SMTT(60) DEF TableForward, Forward, NotAfter
<1>5. T[n] = NoMember
  BY <1>2
<1>6. ASSUME ReportedBy(L) PROVE Reported(n, T)
  <2>1. \A m \in Peer : m \in Node /\ m \notin SuperPeer
    BY MembershipAssumption DEF Node
  <2> QED BY <1>2, <1>6, <2>1 DEF Reported, ReportedBy, Serves
<1>7. ASSUME NEW H, TableOK(H, L) PROVE TableOK(H, T)
  BY <1>2, <1>7 DEF TableOK, Behind, NotAfter
<1>8. ASSUME NEW K, Covered(K, L) PROVE Covered(K, T)
  BY <1>2, <1>8 DEF Covered, NotAfter, Node
<1> QED BY <1>1, <1>4, <1>5, <1>6, <1>7, <1>8

\* An object that changes is right again, later than it was, and its ledger too.
LEMMA ChangeIs ==
  ASSUME IInv, NEW n \in Node, NEW t, Change(n, h[n], t)
  PROVE  Later(h[n], t) /\ ObjectOK(h, n, t) /\ TableForward(h[n].ledger, t.ledger)
<1>1. h[n] \in Object /\ ObjectOK(h, n, h[n]) /\ h[n].table \in Table /\ h[n].ledger \in Wires
  BY Here DEF IInv, Objects
<1>2. /\ h[n].inc <= h[n].epoch /\ TableOK(h, h[n].ledger) /\ ReportedBy(h[n].ledger) /\ h[n].ledger[n] = NoMember
      /\ h[n].up => TableForward(h[n].ledger, h[n].table)
  BY <1>1 DEF ObjectOK
<1>3. TableForward(h[n].ledger, h[n].ledger)
  BY <1>1, ForwardTwice
<1>4. CASE Moves(n, h[n], t)
  <2>1. /\ t.table \in Table /\ TableOK(h, t.table) /\ Reported(n, t.table) /\ t.table[n] = NoMember
        /\ TableForward(h[n].table, t.table)
    BY <1>4, MovesTable
  <2>2. Grows(h[n], t) /\ (h[n].up \/ t.ledger = h[n].ledger)
    BY <1>4 DEF Moves
  <2>3. Later(h[n], t)
    BY <1>1, <1>2, <2>2, GrowsTwice
  <2>4. t \in Object /\ t.inc <= t.epoch /\ t.up = h[n].up
    BY <2>2 DEF Grows
  <2>5. h[n].up => TableForward(h[n].ledger, t.table)
    BY <1>1, <1>2, <2>1, ForwardTwice, SMTT(60)
  <2>6. t.ledger = h[n].ledger \/ t.ledger = Save(t.table)
    BY <1>4 DEF Moves, Saved, Takes
  <2>7. CASE t.ledger = h[n].ledger
    <3>1. ObjectOK(h, n, t)
      BY <1>2, <2>1, <2>4, <2>5, <2>7 DEF ObjectOK
    <3> QED BY <1>3, <2>3, <2>7, <3>1
  <2>8. CASE h[n].up /\ t.ledger = Save(t.table)
    <3>1. /\ TableForward(t.ledger, t.table) /\ t.ledger[n] = NoMember /\ ReportedBy(t.ledger)
          /\ TableOK(h, t.ledger) /\ TableForward(h[n].ledger, t.ledger)
      BY <2>1, <2>5, <2>8, SavedLedger
    <3>2. ObjectOK(h, n, t)
      BY <2>1, <2>4, <3>1 DEF ObjectOK
    <3> QED BY <2>3, <3>1, <3>2
  <2> QED BY <2>2, <2>6, <2>7, <2>8
<1>5. CASE Starts(n, h[n], t)
  <2>1. /\ t \in Object /\ t.inc <= t.epoch /\ h[n].epoch < t.inc
        /\ t.ledger = h[n].ledger /\ t.table = Load(h[n].ledger, n)
    BY <1>5 DEF Starts
  <2>2. /\ TableForward(t.ledger, t.table) /\ t.table[n] = NoMember /\ Reported(n, t.table)
        /\ TableOK(h, t.table)
    BY <1>1, <1>2, <2>1, LoadedTable
  <2>3. h[n].epoch \in Nat /\ t.inc \in Nat /\ t.epoch \in Nat
    BY <1>1, <2>1, ObjectTypes
  <2>4. Later(h[n], t)
    BY <2>1, <2>3, SMTT(60) DEF Later
  <2>5. ObjectOK(h, n, t)
    BY <1>2, <2>1, <2>2 DEF ObjectOK
  <2> QED BY <1>3, <2>1, <2>4, <2>5
<1>6. CASE t = Ended(h[n])
  <2>1. /\ t \in Object /\ ~t.up /\ t.epoch = h[n].epoch /\ t.ledger = h[n].ledger
        /\ t.inc = 0 /\ t.table = EmptyTable
    BY <1>1, <1>6, EndedIs
  <2>2. h[n].epoch \in Nat
    BY <1>1, ObjectTypes
  <2>3. \A m \in Node : t.table[m] = NoMember
    BY <2>1 DEF EmptyTable
  <2>4. Later(h[n], t)
    BY <2>1, <2>2, SMTT(60) DEF Later
  <2>5. TableOK(h, t.table) /\ Reported(n, t.table)
    BY <2>3 DEF TableOK, Reported, Node
  <2>6. ObjectOK(h, n, t)
    BY <1>2, <2>1, <2>2, <2>3, <2>5, SMTT(60) DEF ObjectOK
  <2> QED BY <1>3, <2>1, <2>4, <2>6
<1> QED BY <1>4, <1>5, <1>6 DEF Change

\* The objects are right after a step.
LEMMA ObjectsStep ==
  ASSUME IInv, NEW n \in Node, NEW t \in Object, Step(n, t)
  PROVE  Objects' /\ h'[n] = t /\ \A k \in Node \ {n} : h'[k] = h[k]
<1>1. h \in [Node -> Object] /\ h' = [h EXCEPT ![n] = t] /\ Change(n, h[n], t)
  BY DEF IInv, Objects, Step
<1>2. Later(h[n], t) /\ ObjectOK(h, n, t)
  BY <1>1, ChangeIs
<1>3. h'[n] = t /\ \A k \in Node \ {n} : h'[k] = h[k]
  BY <1>1
<1>4. /\ h' \in [Node -> Object]
      /\ \A T \in Table \cup Wires : TableOK(h, T) => TableOK(h', T)
  BY <1>1, <1>2, StaysBehind
<1>5. ASSUME NEW k \in Node PROVE ObjectOK(h', k, h'[k])
  <2>1. ObjectOK(h, k, h'[k])
    BY <1>2, <1>3 DEF IInv, Objects
  <2>2. h'[k].table \in Table /\ h'[k].ledger \in Wires
    BY <1>4, ObjectTypes
  <2>3. TableOK(h', h'[k].table) /\ TableOK(h', h'[k].ledger)
    BY <1>4, <2>1, <2>2 DEF ObjectOK
  <2> QED BY <2>1, <2>3 DEF ObjectOK
<1> QED BY <1>3, <1>4, <1>5 DEF Objects

\* What a node says is not ahead of anybody, and no copy of a Peer is refused for it.
LEMMA SpokenSound ==
  ASSUME NEW H \in [Node -> Object], NEW n \in Node, ObjectOK(H, n, H[n]), NEW p \in Messages,
         Spoken(n, H[n], p)
  PROVE  SoundMessage(H, n, p)
<1>1. PICK t \in Object : t = H[n]
  OBVIOUS
<1>2. /\ t.inc <= t.epoch /\ TableOK(H, t.table) /\ Reported(n, t.table)
      /\ t.inc \in Nat /\ t.seq \in Nat /\ Behind(p, t)
  BY <1>1, ObjectTypes DEF ObjectOK, Spoken
<1>3. CASE p.batch = NoMember
  BY <1>1, <1>2, <1>3 DEF SoundMessage, BatchOK, ValidBatch, Copy
<1>4. CASE n \in SuperPeer /\ p.batch = Gossip(n, t)
  <2>1. PICK b : b = p.batch
    OBVIOUS
  <2>2. Mirrors(n, t, b)
    BY <1>4, <2>1, GossipIs
  <2>3. ASSUME NEW m \in Node, b[m] # NoMember PROVE Behind(b[m], H[m])
    <3>1. CASE m = n
      BY <1>1, <1>2, <2>2, <3>1, SMTT(60) DEF Behind, NotAfter, Mirrors
    <3>2. CASE m # n
      <4>1. t.table[m] # NoMember /\ b[m].inc = t.table[m].inc /\ b[m].seq = t.table[m].seq
        BY <2>2, <2>3, <3>2 DEF Mirrors
      <4> QED BY <1>2, <4>1 DEF TableOK, Behind, NotAfter
    <3> QED BY <3>1, <3>2
  <2>4. BatchOK(H, b)
    BY <2>3 DEF BatchOK, Copy
  <2>5. ASSUME NEW m \in Peer, b[m] # NoMember PROVE b[m].rep = HomeOf(m)
    <3>1. m \in Node \ {n}
      BY <1>4, MembershipAssumption DEF Node
    <3>2. t.table[m] # NoMember /\ b[m].rep = t.table[m].rep
      BY <2>2, <2>5, <3>1 DEF Mirrors
    <3> QED BY <1>2, <3>2 DEF Reported, HomeOf
  <2>6. ValidBatch(b)
    BY <2>5 DEF ValidBatch, Copy
  <2> QED BY <1>1, <1>2, <2>1, <2>4, <2>6 DEF SoundMessage
<1> QED BY <1>1, <1>3, <1>4 DEF Spoken

\* A message is still sound after a step.
LEMMA StaysSound ==
  ASSUME IInv, NEW n \in Node, NEW t \in Object, Step(n, t),
         NEW m \in Node, NEW p \in Messages, SoundMessage(h, m, p)
  PROVE  SoundMessage(h', m, p)
<1>1. h \in [Node -> Object] /\ h' = [h EXCEPT ![n] = t] /\ Later(h[n], t)
  BY ChangeIs DEF IInv, Objects, Step
<1>2. p.batch \in Wires \cup {NoMember}
  BY DEF Messages
<1>3. Behind(p, h'[m]) /\ BatchOK(h', p.batch)
  BY <1>1, <1>2, StaysBehind DEF SoundMessage
<1> QED BY <1>3 DEF SoundMessage

\* What is in flight after a step is sound.
LEMMA SoundStep ==
  ASSUME IInv, NEW n \in Node, NEW t \in Object, Step(n, t)
  PROVE  Sound'
<1>1. Objects' /\ h'[n] = t /\ Links' /\ RequestFlow(n, t) /\ AnswerFlow(n, t)
  BY ObjectsStep DEF Step, Flow
<1>2. h' \in [Node -> Object] /\ ObjectOK(h', n, h'[n])
  BY <1>1 DEF Objects
<1>3. ASSUME NEW r \in requests' PROVE SoundMessage(h', r.src, r.msg)
  <2>1. r.src \in Node /\ r.msg \in Messages
    BY <1>1 DEF Links, GoodRequest, Requests
  <2>2. CASE \E q \in requests : q.src = r.src /\ q.msg = r.msg
    <3>1. SoundMessage(h, r.src, r.msg)
      BY <2>2, RequestIs
    <3> QED BY <2>1, <3>1, StaysSound
  <2>3. CASE r.src = n /\ Spoken(n, t, r.msg)
    BY <1>1, <1>2, <2>1, <2>3, SpokenSound
  <2> QED BY <1>1, <2>2, <2>3 DEF RequestFlow
<1>4. ASSUME NEW k \in Node, NEW l \in Node, HasAnswer(job'[k][l]) PROVE SoundMessage(h', l, job'[k][l].answer)
  <2>1. job'[k][l].answer \in Messages
    <3>1. GoodJob(k, l, job'[k][l])
      BY <1>1 DEF Links
    <3> QED BY <1>4, <3>1, IdleIs DEF GoodJob, Fit
  <2>2. CASE HasAnswer(job[k][l]) /\ job'[k][l].answer = job[k][l].answer
    <3>1. SoundMessage(h, l, job'[k][l].answer)
      BY <2>2 DEF IInv, Sound
    <3> QED BY <2>1, <3>1, StaysSound
  <2>3. CASE l = n /\ Spoken(n, t, job'[k][l].answer)
    BY <1>1, <1>2, <2>1, <2>3, SpokenSound
  <2> QED BY <1>1, <1>4, <2>2, <2>3 DEF AnswerFlow
<1>5. (\A k, l \in Node : HasAnswer(job[k][l]) => SoundMessage(h, l, job[k][l].answer))'
  BY <1>4
<1> QED BY <1>3, <1>5 DEF Sound

\* The process that runs is later than every LEAVE of the same node in flight.
LEMMA LeavesStep ==
  ASSUME IInv, NEW n \in Node, NEW t \in Object, Step(n, t)
  PROVE  LeavesLast'
<1>1. h'[n] = t /\ (\A k \in Node \ {n} : h'[k] = h[k]) /\ Links' /\ RequestFlow(n, t) /\ Change(n, h[n], t)
  BY ObjectsStep DEF Step, Flow
<1>2. h[n] \in Object /\ t \in Object
  BY Here
<1>3. /\ h[n].inc \in Nat /\ h[n].epoch \in Nat /\ h[n].seq \in Nat
      /\ t.inc \in Nat /\ t.epoch \in Nat /\ t.seq \in Nat
  BY <1>2, ObjectTypes
<1>4. ASSUME NEW r \in requests', r.msg.type = "LEAVE"
      PROVE  ~r.wait /\ (h'[r.src].up => r.msg.inc < h'[r.src].inc)
  <2>1. r.src \in Node /\ r.msg.inc \in Nat
    BY <1>1 DEF Links, GoodRequest, Requests, Messages
  <2>2. CASE r.src = n /\ Spoken(n, t, r.msg) /\ (r.wait => r.msg.type # "LEAVE")
    BY <1>1, <1>4, <2>2 DEF Spoken
  <2>3. CASE \E q \in requests : q.src = r.src /\ q.msg = r.msg /\ (r.wait => q.wait)
    <3>1. PICK q \in requests : q.src = r.src /\ q.msg = r.msg /\ (r.wait => q.wait)
      BY <2>3
    <3>2. ~r.wait /\ (h[r.src].up => r.msg.inc < h[r.src].inc)
      BY <1>4, <3>1 DEF IInv, LeavesLast
    <3>3. Behind(r.msg, h[r.src])
      BY <3>1, RequestIs DEF SoundMessage
    <3>4. CASE r.src # n
      BY <1>1, <2>1, <3>2, <3>4
    <3>5. CASE r.src = n
      <4>1. CASE Moves(n, h[n], t)
        BY <1>1, <1>3, <2>1, <3>2, <3>5, <4>1, SMTT(60) DEF Moves, Grows, NotAfter
      <4>2. CASE Starts(n, h[n], t)
        BY <1>1, <1>3, <2>1, <3>2, <3>3, <3>5, <4>2, SMTT(60) DEF Starts, Behind
      <4>3. CASE t = Ended(h[n])
        BY <1>1, <1>2, <3>2, <3>5, <4>3, EndedIs, SMTT(60)
      <4> QED BY <1>1, <4>1, <4>2, <4>3 DEF Change
    <3> QED BY <3>4, <3>5
  <2> QED BY <1>1, <2>2, <2>3 DEF RequestFlow
<1> QED BY <1>4 DEF LeavesLast

\* The ledger K has everything that L has, or later records.
Ahead(L, K) ==
  \A m \in Peer : L[m] # NoMember => L[m] \in WireRecord /\ K[m] \in WireRecord /\ NotAfter(L[m], K[m])

\* What is covered stays covered when the ledgers of the homes move forward.
LEMMA CoveredForward ==
  ASSUME NEW L, NEW K, Ahead(L, K)
  PROVE  /\ \A T \in Table \cup Wires : Covered(L, T) => Covered(K, T)
         /\ \A b \in Wires \cup {NoMember} : CoveredBatch(L, b) => CoveredBatch(K, b)
<1>1. \A m \in Peer : m \in Node
  BY DEF Node
<1>2. ASSUME NEW m \in Peer, L[m] # NoMember
      PROVE  /\ L[m].inc \in Nat /\ L[m].seq \in Nat /\ K[m].inc \in Nat /\ K[m].seq \in Nat
             /\ K[m] # NoMember /\ NotAfter(L[m], K[m])
  BY <1>2, RecordTypes DEF Ahead
<1>3. ASSUME NEW m \in Peer, NEW w, w.inc \in Nat, w.seq \in Nat, L[m] # NoMember, NotAfter(w, L[m])
      PROVE  K[m] # NoMember /\ NotAfter(w, K[m])
  BY <1>2, <1>3, SMTT(60) DEF NotAfter
<1>4. ASSUME NEW T \in Table \cup Wires, Covered(L, T) PROVE Covered(K, T)
  <2>1. \A m \in Peer : T[m] # NoMember => T[m].inc \in Nat /\ T[m].seq \in Nat
    BY <1>1, TableTypes, RecordTypes
  <2> QED BY <1>3, <1>4, <2>1 DEF Covered
<1>5. ASSUME NEW b \in Wires \cup {NoMember}, CoveredBatch(L, b) PROVE CoveredBatch(K, b)
  <2>1. \A m \in Peer : Copy(b, m) # NoMember => Copy(b, m).inc \in Nat /\ Copy(b, m).seq \in Nat
    BY <1>1, TableTypes, RecordTypes, SMTT(60)
  <2> QED BY <1>3, <1>5, <2>1 DEF CoveredBatch
<1> QED BY <1>4, <1>5

\* The home's part of the ledgers.
LEMMA HomeLedgerIs ==
  ASSUME NEW H, NEW m \in Peer
  PROVE  HomeLedger(H)[m] = H[Home[m]].ledger[m] /\ Home[m] \in Node /\ m \in Node
  BY MembershipAssumption DEF HomeLedger, Node

\* A step never takes a ledger back.
LEMMA LedgersForward ==
  ASSUME IInv, NEW n \in Node, NEW t \in Object, Step(n, t)
  PROVE  Ahead(HomeLedger(h), HomeLedger(h')) /\ \A k \in Node : TableForward(h[k].ledger, h'[k].ledger)
<1>1. h'[n] = t /\ (\A k \in Node \ {n} : h'[k] = h[k]) /\ h' \in [Node -> Object] /\ h \in [Node -> Object]
  BY ObjectsStep DEF Objects, IInv
<1>2. \A k \in Node : h[k].ledger \in Wires /\ h'[k].ledger \in Wires
  BY <1>1, ObjectTypes
<1>3. ASSUME NEW k \in Node PROVE TableForward(h[k].ledger, h'[k].ledger)
  <2>1. CASE k = n
    BY <1>1, <2>1, ChangeIs DEF Step
  <2>2. CASE k # n
    BY <1>1, <1>2, <2>2, ForwardTwice
  <2> QED BY <2>1, <2>2
<1>4. ASSUME NEW m \in Peer, HomeLedger(h)[m] # NoMember
      PROVE  /\ HomeLedger(h)[m] \in WireRecord /\ HomeLedger(h')[m] \in WireRecord
             /\ NotAfter(HomeLedger(h)[m], HomeLedger(h')[m])
  <2>1. PICK k \in Node : k = Home[m] /\ HomeLedger(h)[m] = h[k].ledger[m] /\ m \in Node
    BY HomeLedgerIs
  <2>2. HomeLedger(h')[m] = h'[k].ledger[m]
    BY <2>1, HomeLedgerIs
  <2>3. h'[k].ledger[m] # NoMember /\ NotAfter(h[k].ledger[m], h'[k].ledger[m])
    BY <1>3, <1>4, <2>1 DEF TableForward, Forward
  <2>4. h[k].ledger[m] \in WireRecord /\ h'[k].ledger[m] \in WireRecord
    BY <1>2, <1>4, <2>1, <2>3, TableTypes
  <2> QED BY <2>1, <2>2, <2>3, <2>4
<1> QED BY <1>3, <1>4 DEF Ahead

\* After a step the homes' ledgers cover the table that changed.
LEMMA HomeTable ==
  ASSUME IInv, ~WriteErrors, NEW n \in Node, NEW t \in Object, Step(n, t)
  PROVE  Covered(HomeLedger(h'), t.table)
<1>1. PICK L, K : L = HomeLedger(h) /\ K = HomeLedger(h') /\ Ahead(L, K)
  BY LedgersForward
<1>2. /\ h[n].table \in Table /\ h[n].ledger \in Wires /\ t.table \in Table /\ h'[n] = t
      /\ Covered(L, h[n].table) /\ Covered(L, h[n].ledger) /\ h[n].ledger[n] = NoMember
  BY <1>1, Here, ObjectTypes, ObjectsStep DEF IInv, HomeFirst, Objects, ObjectOK
<1>3. ASSUME Covered(L, t.table) PROVE Covered(K, t.table)
  BY <1>1, <1>2, <1>3, CoveredForward
<1>4. \A m \in Peer : m \in Node /\ m \notin SuperPeer
  BY MembershipAssumption DEF Node
<1>5. CASE Moves(n, h[n], t)
  <2>1. CASE Kept(n, h[n].table, t.table)
    <3>1. Covered(L, t.table)
      BY <1>2, <2>1, KindsCovered
    <3> QED BY <1>1, <1>3, <3>1
  <2>2. CASE \E m \in SuperPeer \ {n} : Heard(n, h[n].table, t.table, m, 0, 0)
    <3>1. Covered(L, t.table)
      BY <1>2, <1>4, <2>2 DEF Covered, Heard
    <3> QED BY <1>1, <1>3, <3>1
  <2>3. ASSUME NEW m \in Node, NEW p \in Messages, Evidence(n, m, p), Takes(n, h[n], t, m, p)
        PROVE  Covered(K, t.table)
    <3>1. Linked(n, m) /\ CoveredBatch(L, p.batch)
      BY <1>1, <2>3, EvidenceIs
    <3>2. PICK T \in Table : /\ T = h[n].table \/ Heard(n, h[n].table, T, m, p.inc, p.seq)
                             /\ Told(n, T, t.table, p.batch)
                             /\ Saved(h[n], t, m \in SuperPeer \/ T = h[n].table)
      BY <2>3 DEF Takes
    <3>3. CASE m \in SuperPeer \/ T = h[n].table
      <4>1. Covered(L, T)
        BY <1>2, <1>4, <3>2, <3>3 DEF Covered, Heard
      <4> QED BY <1>3, <3>1, <3>2, <4>1, KindsCovered
    <3>4. CASE ~(m \in SuperPeer \/ T = h[n].table)
      <4>1. m \in Peer /\ Home[m] = n
        BY <3>1, <3>4 DEF Node, Linked, Serves
      <4>2. t.ledger = Save(t.table)
        BY <3>2, <3>4 DEF Saved
      <4>3. ASSUME t.table[m] # NoMember PROVE K[m] # NoMember /\ NotAfter(t.table[m], K[m])
        <5>1. K[m] = Save(t.table)[m]
          BY <1>1, <1>2, <4>1, <4>2, HomeLedgerIs
        <5>2. K[m] # NoMember /\ K[m].inc = t.table[m].inc /\ K[m].seq = t.table[m].seq
          BY <1>2, <4>3, <5>1, SaveIs, SMTT(60)
        <5>3. t.table[m].inc \in Nat /\ t.table[m].seq \in Nat
          BY <1>2, <4>3, TableTypes, RecordTypes
        <5> QED BY <5>2, <5>3, SMTT(60) DEF NotAfter
      <4>4. ASSUME NEW k \in Peer \ {m}, t.table[k] # NoMember PROVE L[k] # NoMember /\ NotAfter(t.table[k], L[k])
        <5>1. T[k] = h[n].table[k] /\ ToldRecord(n, k, T[k], t.table[k], Copy(p.batch, k))
          BY <1>4, <3>2, <3>4 DEF Heard, Told
        <5>2. CASE t.table[k] = T[k]
          BY <1>2, <4>4, <5>1, <5>2 DEF Covered
        <5>3. CASE t.table[k] # T[k]
          <6>1. /\ Copy(p.batch, k) # NoMember /\ t.table[k].inc = Copy(p.batch, k).inc
                /\ t.table[k].seq = Copy(p.batch, k).seq
            BY <5>1, <5>3 DEF ToldRecord
          <6> QED BY <3>1, <6>1 DEF CoveredBatch, NotAfter
        <5> QED BY <5>2, <5>3
      <4>5. ASSUME NEW k \in Peer \ {m}, t.table[k] # NoMember PROVE K[k] # NoMember /\ NotAfter(t.table[k], K[k])
        <5>1. L[k] # NoMember /\ NotAfter(t.table[k], L[k])
          BY <4>4, <4>5
        <5>2. L[k] \in WireRecord /\ K[k] \in WireRecord /\ NotAfter(L[k], K[k])
          BY <1>1, <5>1 DEF Ahead
        <5>3. t.table[k].inc \in Nat /\ t.table[k].seq \in Nat
          BY <1>2, <1>4, <4>5, TableTypes, RecordTypes
        <5> QED BY <5>1, <5>2, <5>3, RecordTypes, SMTT(60) DEF NotAfter
      <4> QED BY <4>3, <4>5 DEF Covered
    <3> QED BY <3>3, <3>4
  <2> QED BY <1>1, <1>5, <2>1, <2>2, <2>3 DEF Moves
<1>6. CASE Starts(n, h[n], t)
  <2>1. Covered(L, t.table)
    BY <1>2, <1>6, LoadedTable DEF Starts
  <2> QED BY <1>1, <1>3, <2>1
<1>7. CASE t = Ended(h[n])
  <2>1. \A m \in Node : t.table[m] = NoMember
    <3>1. t.table = EmptyTable
      BY <1>7, Here, EndedIs
    <3> QED BY <3>1 DEF EmptyTable
  <2> QED BY <1>4, <2>1 DEF Covered
<1> QED BY <1>1, <1>5, <1>6, <1>7 DEF Step, Change

\* What a node says of a Peer its home has, when the node's table is covered.
LEMMA SpokenCovered ==
  ASSUME NEW L, NEW n \in Node, NEW t \in Object, Covered(L, t.table), NEW p, Spoken(n, t, p)
  PROVE  CoveredBatch(L, p.batch)
<1>1. CASE p.batch = NoMember
  BY <1>1 DEF CoveredBatch, Copy
<1>2. CASE n \in SuperPeer /\ p.batch = Gossip(n, t)
  <2>1. PICK b : b = p.batch
    OBVIOUS
  <2>2. Mirrors(n, t, b)
    BY <1>2, <2>1, GossipIs
  <2>3. ASSUME NEW m \in Peer, b[m] # NoMember PROVE L[m] # NoMember /\ NotAfter(b[m], L[m])
    <3>1. m \in Node \ {n}
      BY <1>2, MembershipAssumption DEF Node
    <3>2. t.table[m] # NoMember /\ b[m].inc = t.table[m].inc /\ b[m].seq = t.table[m].seq
      BY <2>2, <2>3, <3>1 DEF Mirrors
    <3> QED BY <3>2 DEF Covered, NotAfter
  <2> QED BY <2>1, <2>3 DEF CoveredBatch, Copy
<1> QED BY <1>1, <1>2 DEF Spoken

\* The homes' ledgers are still first after a step.
LEMMA HomeStep ==
  ASSUME IInv, NEW n \in Node, NEW t \in Object, Step(n, t)
  PROVE  HomeFirst'
<1> SUFFICES ASSUME ~WriteErrors
             PROVE  /\ \A k \in Node : Covered(HomeLedger(h'), h'[k].table) /\ Covered(HomeLedger(h'), h'[k].ledger)
                    /\ \A r \in requests' : CoveredBatch(HomeLedger(h'), r.msg.batch)
                    /\ \A k, l \in Node : HasAnswer(job'[k][l]) =>
                         CoveredBatch(HomeLedger(h'), job'[k][l].answer.batch)
  BY DEF HomeFirst
<1>1. PICK L, K : L = HomeLedger(h) /\ K = HomeLedger(h') /\ Ahead(L, K)
  BY LedgersForward
<1>2. /\ Objects' /\ h'[n] = t /\ Links' /\ RequestFlow(n, t) /\ AnswerFlow(n, t) /\ Change(n, h[n], t)
      /\ \A k \in Node \ {n} : h'[k] = h[k]
  BY ObjectsStep DEF Step, Flow
<1>3. /\ \A T \in Table \cup Wires : Covered(L, T) => Covered(K, T)
      /\ \A b \in Wires \cup {NoMember} : CoveredBatch(L, b) => CoveredBatch(K, b)
  BY <1>1, CoveredForward
<1>4. /\ \A k \in Node : Covered(L, h[k].table) /\ Covered(L, h[k].ledger)
      /\ \A r \in requests : CoveredBatch(L, r.msg.batch)
      /\ \A k, l \in Node : HasAnswer(job[k][l]) => CoveredBatch(L, job[k][l].answer.batch)
  BY <1>1 DEF IInv, HomeFirst
<1>5. \A k \in Node : h[k].table \in Table /\ h[k].ledger \in Wires
  BY Here
<1>6. Covered(K, t.table) /\ t.table \in Table
  BY <1>1, HomeTable, ObjectTypes
<1>7. Covered(K, t.ledger)
  <2>1. t.ledger = h[n].ledger \/ t.ledger = Save(t.table)
    BY <1>2, Here, EndedIs DEF Change, Moves, Starts, Takes, Saved
  <2>2. CASE t.ledger = h[n].ledger
    BY <1>3, <1>4, <1>5, <2>2
  <2>3. CASE t.ledger = Save(t.table)
    BY <1>6, <2>3, SavedLedger
  <2> QED BY <2>1, <2>2, <2>3
<1>8. ASSUME NEW k \in Node PROVE Covered(K, h'[k].table) /\ Covered(K, h'[k].ledger)
  <2>1. CASE k = n
    BY <1>2, <1>6, <1>7, <2>1
  <2>2. CASE k # n
    BY <1>2, <1>3, <1>4, <1>5, <2>2
  <2> QED BY <2>1, <2>2
<1>9. ASSUME NEW p \in Messages, Spoken(n, t, p) PROVE CoveredBatch(K, p.batch)
  BY <1>6, <1>9, SpokenCovered
<1>10. \A p \in Messages : p.batch \in Wires \cup {NoMember}
  BY DEF Messages
<1>11. ASSUME NEW r \in requests' PROVE CoveredBatch(K, r.msg.batch)
  <2>1. r.msg \in Messages
    BY <1>2 DEF Links, GoodRequest, Requests
  <2>2. CASE \E q \in requests : q.msg = r.msg
    BY <1>3, <1>4, <1>10, <2>1, <2>2
  <2>3. CASE Spoken(n, t, r.msg)
    BY <1>9, <2>1, <2>3
  <2> QED BY <1>2, <2>2, <2>3 DEF RequestFlow
<1>12. ASSUME NEW k \in Node, NEW l \in Node, HasAnswer(job'[k][l]) PROVE CoveredBatch(K, job'[k][l].answer.batch)
  <2>1. job'[k][l].answer \in Messages
    <3>1. GoodJob(k, l, job'[k][l])
      BY <1>2 DEF Links
    <3> QED BY <1>12, <3>1, IdleIs DEF GoodJob, Fit
  <2>2. CASE HasAnswer(job[k][l]) /\ job'[k][l].answer = job[k][l].answer
    BY <1>3, <1>4, <1>10, <2>1, <2>2
  <2>3. CASE Spoken(n, t, job'[k][l].answer)
    BY <1>9, <2>1, <2>3
  <2> QED BY <1>2, <1>12, <2>2, <2>3 DEF AnswerFlow
<1> QED BY <1>1, <1>8, <1>11, <1>12

----------------------------------------------------------------------------
(* The invariant holds *)

\* The first objects.
LEMMA FirstObject ==
  ASSUME Init, NEW n \in Node
  PROVE  /\ h[n] \in Object /\ ObjectOK(h, n, h[n])
         /\ \A m \in Node : h[n].ledger[m] = NoMember /\ (h[n].table[m] # NoMember => m \in SuperPeer)
<1>1. 0 \in Nat /\ 1 \in Nat /\ TRUE \in BOOLEAN /\ FALSE \in BOOLEAN /\ 0 \in 0..3 /\ 0 \in 0..2
  BY SMTT(60)
<1>2. EmptyTable \in Table /\ EmptyTable \in Wires /\ \A m \in Node : EmptyTable[m] = NoMember
  BY DEF EmptyTable, Table, Wires
<1>3. set_member(n) \in Member
  BY <1>1 DEF set_member, Member, ALIVE, REMOVED
<1>4. set_member(n).inc = 0 /\ set_member(n).seq = 0
  BY DEF set_member
<1>5. PICK F : F = FirstTable(n)
  OBVIOUS
<1>6. F = [m \in Node |-> IF m \in SuperPeer \ {n} /\ MaxCalls[n, m] > 0 THEN set_member(n) ELSE NoMember]
  BY <1>5 DEF FirstTable
<1>7. F \in Table
  BY <1>3, <1>6 DEF Table
<1>8. \A m \in Node : F[m] # NoMember => m \in SuperPeer \ {n} /\ F[m].inc = 0 /\ F[m].seq = 0
  BY <1>4, <1>6
<1>9. Down \in Object /\ ~Down.up /\ Down.inc = 0 /\ Down.epoch = 0 /\ Down.table = EmptyTable /\ Down.ledger = EmptyTable
  <2>1. Down \in Object
    BY <1>1, <1>2 DEF Down, Object
  <2> QED BY <2>1 DEF Down
<1>10. \A m \in Node : h[m] = IF m \in Peer THEN Down
                              ELSE [Down EXCEPT !.up = TRUE, !.epoch = 1, !.inc = 1, !.table = FirstTable(m)]
  BY DEF Init
<1>11. \A m \in SuperPeer : h[m].up /\ h[m].epoch = 1 /\ h[m].inc = 1
  <2> TAKE m \in SuperPeer
  <2>1. PICK G : G = FirstTable(m)
    OBVIOUS
  <2>2. m \in Node \ Peer
    BY MembershipAssumption DEF Node
  <2>3. h[m] = [Down EXCEPT !.up = TRUE, !.epoch = 1, !.inc = 1, !.table = G]
    BY <1>10, <2>1, <2>2
  <2> QED BY <2>3 DEF Down
<1>12. CASE n \in Peer
  <2>1. h[n] = Down
    BY <1>10, <1>12
  <2>2. TableOK(h, EmptyTable) /\ Reported(n, EmptyTable) /\ ReportedBy(EmptyTable)
    BY <1>2 DEF TableOK, Reported, ReportedBy, Node
  <2>3. ObjectOK(h, n, Down)
    BY <1>2, <1>9, <2>2, SMTT(60) DEF ObjectOK
  <2> QED BY <1>2, <1>9, <2>1, <2>3
<1>13. CASE n \notin Peer
  <2>1. PICK s : s = h[n]
    OBVIOUS
  <2>2. s = [Down EXCEPT !.up = TRUE, !.epoch = 1, !.inc = 1, !.table = F]
    BY <1>5, <1>10, <1>13, <2>1
  <2>3. s.up /\ s.inc = 1 /\ s.epoch = 1 /\ s.table = F /\ s.ledger = EmptyTable
    BY <2>2 DEF Down
  <2>4. s \in Object
    BY <1>1, <1>7, <1>9, <2>2 DEF Object
  <2>5. \A m \in SuperPeer : m \notin Peer
    BY MembershipAssumption
  <2>6. TableOK(h, F)
    BY <1>8, <1>11, SMTT(60) DEF TableOK, Behind, NotAfter
  <2>7. Reported(n, F)
    BY <1>8, <2>5, MembershipAssumption DEF Reported, Node
  <2>8. TableOK(h, EmptyTable) /\ ReportedBy(EmptyTable) /\ TableForward(EmptyTable, F)
    BY <1>2 DEF TableOK, ReportedBy, TableForward, Forward, Node
  <2>9. F[n] = NoMember
    BY <1>8
  <2> QED BY <1>2, <1>8, <2>1, <2>3, <2>4, <2>6, <2>7, <2>8, <2>9, SMTT(60) DEF ObjectOK
<1> QED BY <1>12, <1>13

LEMMA InitIInv ==
  ASSUME Init
  PROVE  IInv
<1>1. h \in [Node -> Object]
  <2>1. \A n \in Node : h[n] \in Object
    BY FirstObject
  <2>2. h = [n \in Node |-> h[n]]
    BY DEF Init
  <2> QED BY <2>1, <2>2
<1>2. Objects
  BY <1>1, FirstObject DEF Objects
<1>3. requests = {} /\ job = [n \in Node |-> [m \in Node |-> Idle]]
  BY DEF Init
<1>4. \A n, m \in Node : job[n][m] = Idle
  BY <1>3
<1>5. job \in [Node -> [Node -> Jobs]]
  BY <1>3, IdleIs
<1>6. Links
  BY <1>3, <1>4, <1>5, IdleIs DEF Links
<1>7. Sound /\ LeavesLast
  BY <1>3, <1>4, IdleIs DEF Sound, LeavesLast
<1>8. ASSUME NEW L, NEW n \in Node PROVE Covered(L, h[n].table) /\ Covered(L, h[n].ledger)
  BY FirstObject, MembershipAssumption DEF Covered, Node
<1>9. HomeFirst
  BY <1>3, <1>4, <1>8, IdleIs DEF HomeFirst
<1> QED BY <1>2, <1>6, <1>7, <1>9 DEF IInv

\* No step breaks the invariant.
LEMMA NextIInv ==
  ASSUME IInv, [Next]_vars
  PROVE  IInv'
<1>1. CASE Stepped
  <2>1. PICK n \in Node, t \in Object : Step(n, t)
    BY <1>1 DEF Stepped
  <2>2. Links' /\ Objects' /\ Sound' /\ LeavesLast' /\ HomeFirst'
    BY <2>1, ObjectsStep, SoundStep, LeavesStep, HomeStep DEF Step
  <2> QED BY <2>2 DEF IInv
<1>2. CASE UNCHANGED vars
  <2>1. h' = h /\ job' = job /\ requests' = requests
    BY <1>2 DEF vars
  <2>2. Links' /\ Objects' /\ Sound' /\ LeavesLast' /\ HomeFirst'
    BY <2>1 DEF IInv, Links, Objects, Sound, LeavesLast, HomeFirst
  <2> QED BY <2>2 DEF IInv
<1> QED BY <1>1, <1>2, StepIs

----------------------------------------------------------------------------
(* The theorems *)

\* The invariant of the membership service: every record and every message is behind
\* the node it is about, the ledgers are behind the tables, a Peer's record was
\* reported by its home, a LEAVE is of an earlier process, and the home's ledger
\* covers what the others have of its Peers.
THEOREM Invariance == Spec => []IInv
<1>1. Init => IInv
  BY InitIInv
<1>2. IInv /\ [Next]_vars => IInv'
  BY NextIInv
<1> QED BY <1>1, <1>2, PTL DEF Spec

\* Where a message in flight is: a request, or an answer of a job.
LEMMA PacketsAre ==
  ASSUME IInv, NEW p \in Packets
  PROVE  p.src \in Node /\ SoundMessage(h, p.src, p.msg)
<1>1. CASE \E r \in requests : p = [src |-> r.src, msg |-> r.msg]
  <2>1. PICK r \in requests : p = [src |-> r.src, msg |-> r.msg]
    BY <1>1
  <2>2. p.src = r.src /\ p.msg = r.msg
    BY <2>1
  <2> QED BY <2>2, RequestIs
<1>2. CASE \E l \in Node \X Node : /\ p = [src |-> l[2], msg |-> job[l[1]][l[2]].answer]
                                   /\ job[l[1]][l[2]].answer # NoMember
  <2>1. PICK n \in Node, m \in Node : p = [src |-> m, msg |-> job[n][m].answer] /\ job[n][m].answer # NoMember
    BY <1>2
  <2>2. p.src = m /\ p.msg = job[n][m].answer
    BY <2>1
  <2>3. SoundMessage(h, m, job[n][m].answer)
    BY <2>1 DEF IInv, Sound, HasAnswer
  <2> QED BY <2>2, <2>3
<1> QED BY <1>1, <1>2 DEF Packets

\* heartbeat_create takes the incarnation after the one in node.incarnation: no record
\* of a node, in any table, ledger or message, is ahead of that file, and none is
\* ahead of the process while it runs.  For every number of nodes, with every write
\* of both files failing or not.
THEOREM NothingAhead == Spec => []NothingAheadOfItsNode
<1>1. ASSUME IInv PROVE NothingAheadOfItsNode
  <2> SUFFICES ASSUME NEW m \in Node
               PROVE  /\ h[m].inc <= h[m].epoch
                      /\ \A w \in Copies(m) \ {NoMember} : Behind(w, h[m])
                      /\ \A p \in Packets : p.src = m => Behind(p.msg, h[m])
    BY DEF NothingAheadOfItsNode, Behind
  <2>1. \A n \in Node : ObjectOK(h, n, h[n])
    BY <1>1 DEF IInv, Objects
  <2>2. ASSUME NEW w \in Copies(m) \ {NoMember} PROVE Behind(w, h[m])
    <3>1. CASE \E n \in Node : w = h[n].table[m] \/ w = h[n].ledger[m]
      BY <2>1, <2>2, <3>1, SMTT(60) DEF ObjectOK, TableOK
    <3>2. CASE \E p \in Packets : w = Copy(p.msg.batch, m)
      BY <1>1, <2>2, <3>2, PacketsAre DEF SoundMessage, BatchOK
    <3> QED BY <3>1, <3>2 DEF Copies
  <2>3. \A p \in Packets : p.src = m => Behind(p.msg, h[m])
    BY <1>1, PacketsAre DEF SoundMessage
  <2> QED BY <2>1, <2>2, <2>3 DEF ObjectOK
<1> QED BY <1>1, Invariance, PTL

\* apply_packet refuses a batch with a Peer's record that its home did not report: no
\* batch that a node sends is refused for it.
THEOREM ValidGossip == Spec => []GossipIsValid
<1>1. IInv => GossipIsValid
  BY PacketsAre DEF GossipIsValid, SoundMessage
<1> QED BY <1>1, Invariance, PTL

\* The home of a Peer has the last word about it, also when it restarted from the
\* ledger it wrote before it acknowledged the JOIN or the heartbeat.
THEOREM HomeAhead == Spec => []HomeIsAhead
<1>1. ASSUME IInv PROVE HomeIsAhead
  <2> SUFFICES ASSUME ~WriteErrors, NEW p \in Peer, NEW n \in SuperPeer,
                      h[HomeOf(p)].up, h[n].table[p] # NoMember
               PROVE  h[HomeOf(p)].table[p] # NoMember /\ NotAfter(h[n].table[p], h[HomeOf(p)].table[p])
    BY DEF HomeIsAhead
  <2>1. PICK m \in Node : m = Home[p] /\ HomeLedger(h)[p] = h[m].ledger[p] /\ p \in Node /\ n \in Node
    BY HomeLedgerIs DEF Node
  <2>2. HomeOf(p) = m
    BY <2>1 DEF HomeOf
  <2>3. h[m].ledger[p] # NoMember /\ NotAfter(h[n].table[p], h[m].ledger[p])
    BY <1>1, <2>1 DEF IInv, HomeFirst, Covered
  <2>4. h[m].table[p] # NoMember /\ NotAfter(h[m].ledger[p], h[m].table[p])
    BY <1>1, <2>1, <2>2, <2>3 DEF IInv, Objects, ObjectOK, TableForward, Forward
  <2>5. h[n].table \in Table /\ h[m].table \in Table /\ h[m].ledger \in Wires
    BY <1>1, <2>1, Here
  <2>6. /\ h[n].table[p].inc \in Nat /\ h[n].table[p].seq \in Nat
        /\ h[m].table[p].inc \in Nat /\ h[m].table[p].seq \in Nat
        /\ h[m].ledger[p].inc \in Nat /\ h[m].ledger[p].seq \in Nat
    BY <2>1, <2>3, <2>4, <2>5, TableTypes, RecordTypes
  <2>7. ASSUME NEW a, NEW b, NEW c, a.inc \in Nat, a.seq \in Nat, b.inc \in Nat, b.seq \in Nat,
               c.inc \in Nat, c.seq \in Nat, NotAfter(a, b), NotAfter(b, c)
        PROVE  NotAfter(a, c)
    BY <2>7, SMTT(60) DEF NotAfter
  <2>8. NotAfter(h[n].table[p], h[m].table[p])
    BY <2>3, <2>4, <2>6, <2>7
  <2> QED BY <2>2, <2>4, <2>8
<1> QED BY <1>1, Invariance, PTL

\* A process that runs before and after a step was not started or ended in it.
LEMMA StaysMoves ==
  ASSUME IInv, [Next]_vars, NEW n \in Node, Stays(n), h'[n] # h[n]
  PROVE  Moves(n, h[n], h'[n])
<1>1. PICK k \in Node, t \in Object : Step(k, t)
  BY StepIs DEF Stepped, vars
<1>2. k = n /\ t = h'[n] /\ Change(n, h[n], t)
  BY <1>1, ObjectsStep DEF Step
<1>3. ~Ended(h[n]).up
  BY Here, EndedIs
<1> QED BY <1>2, <1>3 DEF Change, Starts, Stays

\* membership_register, membership_heartbeat, membership_merge, the detector and
\* heartbeat_checkpoint never take a record back or revive a tombstone.
THEOREM MoveForward == Spec => RecordsMoveForward
<1>1. ASSUME IInv, [Next]_vars, NEW n \in Node, NEW m \in Node
      PROVE  /\ Stays(n) => MovesForward(h[n].table[m], h'[n].table[m])
             /\ MovesForward(h[n].ledger[m], h'[n].ledger[m])
  <2>1. h[n].table \in Table /\ h[n].ledger \in Wires
    BY <1>1, Here
  <2>2. TableForward(h[n].table, h[n].table) /\ TableForward(h[n].ledger, h[n].ledger)
    BY <2>1, ForwardTwice
  <2>3. ASSUME Stays(n) PROVE TableForward(h[n].table, h'[n].table)
    BY <1>1, <2>2, <2>3, StaysMoves, MovesTable
  <2>4. TableForward(h[n].ledger, h'[n].ledger)
    <3>1. CASE Stepped
      BY <1>1, <3>1, LedgersForward DEF Stepped
    <3>2. CASE UNCHANGED vars
      BY <2>2, <3>2 DEF vars
    <3> QED BY <1>1, <3>1, <3>2, StepIs
  <2> QED BY <2>3, <2>4 DEF TableForward, Forward, MovesForward
<1>2. IInv /\ [Next]_vars =>
        [\A n, m \in Node :
           /\ Stays(n) => MovesForward(h[n].table[m], h'[n].table[m])
           /\ MovesForward(h[n].ledger[m], h'[n].ledger[m])]_vars
  BY <1>1
<1> QED BY <1>2, Invariance, PTL DEF Spec, RecordsMoveForward

\* refresh_chord_membership admits an instance that was seen: membership_merge gives
\* no record that mark, so the instance itself has been heard.
THEOREM AdmittedDirectly == Spec => AdmittedByDirectEvidence
<1>1. ASSUME IInv, [Next]_vars, NEW n \in Node, NEW m \in SuperPeer, Stays(n), Admits(h'[n], m),
             ~(Admits(h[n], m) /\ h[n].table[m].inc = h'[n].table[m].inc)
      PROVE  Direct(n, m, h'[n].table[m].inc)
  <2>1. PICK S, U : S \in Table /\ S = h[n].table /\ U = h'[n].table /\ m \in Node
    BY <1>1, Here DEF Node
  <2>2. AdmittedIn(U, m) /\ ~SameAdmitted(S, U, m)
    BY <1>1, <2>1 DEF Admits, Admitted, AdmittedIn, SameAdmitted
  <2>3. Moves(n, h[n], h'[n])
    <3>1. h'[n] # h[n]
      BY <1>1
    <3> QED BY <1>1, <3>1, StaysMoves
  <2>4. ~Kept(n, S, U)
    BY <2>1, <2>2, KindsAdmitted
  <2>5. ASSUME NEW k \in SuperPeer \ {n}, Heard(n, S, U, k, 0, 0) PROVE FALSE
    <3>1. k \in Node
      BY DEF Node
    <3>2. U[m].inc = 0
      BY <2>1, <2>2, <2>5, <3>1, KindsAdmitted
    <3> QED BY <2>2, <3>2, SMTT(60) DEF AdmittedIn, Admitted
  <2>6. PICK k \in Node, p \in Messages : Evidence(n, k, p) /\ Takes(n, h[n], h'[n], k, p)
    BY <2>1, <2>3, <2>4, <2>5 DEF Moves
  <2>7. PICK T \in Table : (T = S \/ Heard(n, S, T, k, p.inc, p.seq)) /\ Told(n, T, U, p.batch)
    BY <2>1, <2>6 DEF Takes
  <2>8. SameAdmitted(T, U, m)
    BY <2>1, <2>2, <2>7, KindsAdmitted
  <2>9. AdmittedIn(T, m) /\ T[m].inc = U[m].inc /\ ~SameAdmitted(S, T, m) /\ T # S
    BY <2>2, <2>8 DEF AdmittedIn, SameAdmitted
  <2>10. m = k /\ T[m].inc = p.inc
    BY <2>1, <2>7, <2>9, KindsAdmitted
  <2>11. Direct(n, m, p.inc)
    BY <2>6, <2>10 DEF Evidence, Direct
  <2> QED BY <2>1, <2>9, <2>10, <2>11
<1>2. IInv /\ [Next]_vars =>
        [\A n \in Node, m \in SuperPeer :
           /\ Stays(n) /\ Admits(h'[n], m)
           /\ ~ (Admits(h[n], m) /\ h[n].table[m].inc = h'[n].table[m].inc)
           => Direct(n, m, h'[n].table[m].inc)]_vars
  BY <1>1
<1> QED BY <1>2, Invariance, PTL DEF Spec, AdmittedByDirectEvidence

\* The steps in which a LEAVE ends its way.
LEMMA LeaveTaken ==
  ASSUME IInv, Next, NEW r \in requests \ requests', r.msg.type = "LEAVE"
  PROVE  HandleLeave(r) \/ \E n \in Node : h' = [h EXCEPT ![n] = Ended(@)]
<1>1. ~r.wait
  BY DEF IInv, LeavesLast
<1>2. \A n, m \in Node : r \notin Waiting(n, m)
  BY <1>1 DEF Waiting
<1>3. ASSUME NEW n \in Node, NEW m \in Node,
             \/ \E g \in BOOLEAN : Enqueue(n, m, g)
             \/ Discover(n, m) \/ Call(n, m) \/ CallFails(n, m) \/ Answered(n, m) \/ Conclude(n, m)
             \/ AdvanceToJoin(n, m) \/ Join(n, m) \/ Joined(n, m) \/ JoinFails(n, m) \/ Reconnected(n, m)
      PROVE  FALSE
  <2>1. CASE (\E g \in BOOLEAN : Enqueue(n, m, g)) \/ Discover(n, m) \/ Answered(n, m) \/ Conclude(n, m)
    BY <2>1 DEF Enqueue, Discover, Answered, Conclude
  <2>2. CASE AdvanceToJoin(n, m) \/ Joined(n, m) \/ Reconnected(n, m)
    BY <2>2 DEF AdvanceToJoin, Joined, Reconnected
  <2>3. CASE Call(n, m)
    <3>1. requests \subseteq requests'
      BY <2>3 DEF Call
    <3> QED BY <3>1
  <2>4. CASE Join(n, m)
    <3>1. requests \subseteq requests'
      BY <2>4 DEF Join
    <3> QED BY <3>1
  <2>5. CASE CallFails(n, m) \/ JoinFails(n, m)
    BY <1>2, <2>5 DEF CallFails, JoinFails
  <2> QED BY <1>3, <2>1, <2>2, <2>3, <2>4, <2>5
<1>4. ASSUME NEW l \in Silent, Age(l[1], l[2]) PROVE FALSE
  BY <1>4 DEF Age
<1>5. ASSUME NEW q \in requests, HandlePacket(q) \/ HandleJoin(q) \/ HandleLeave(q) PROVE HandleLeave(r)
  <2>1. requests' = requests \ {q}
    BY <1>5 DEF HandlePacket, HandleJoin, HandleLeave, Reply
  <2>2. q = r
    BY <2>1
  <2> QED BY <1>5, <2>2 DEF HandlePacket, HandleJoin
<1>6. ASSUME NEW n \in Node, Evaluate(n) \/ Start(n) PROVE FALSE
  BY <1>6 DEF Evaluate, Start
<1>7. ASSUME NEW n \in Node, Crash(n) \/ StartFails(n) \/ Leave(n) PROVE h' = [h EXCEPT ![n] = Ended(@)]
  BY <1>7 DEF Crash, StartFails, Leave, End
<1>8. ASSUME NEW n \in Peer, Started(n) PROVE FALSE
  BY <1>8 DEF Started
<1>9. \A n \in Peer : n \in Node
  BY DEF Node
<1> QED BY <1>3, <1>4, <1>5, <1>6, <1>7, <1>8, <1>9 DEF Next

\* The LEAVE names the incarnation of the process that sent it; the process that runs
\* now has a later one, which the M_LEAVE branch does not remove.
THEOREM LateLeave == Spec => LateLeaveIsHarmless
<1>1. ASSUME IInv, [Next]_vars, NEW p \in Peer, NEW r \in requests \ requests', r.msg.type = "LEAVE",
             r.src = p, h[p].up, Stays(HomeOf(p)), h[HomeOf(p)].table[p] # NoMember,
             h[HomeOf(p)].table[p].inc = h[p].inc
      PROVE  h'[HomeOf(p)].table[p] = h[HomeOf(p)].table[p]
  <2>1. Next
    BY <1>1 DEF vars
  <2>2. PICK m \in Node : m = HomeOf(p) /\ m = Home[p] /\ p \in Node
    BY HomeLedgerIs DEF HomeOf
  <2>3. r.dst = m /\ r.msg.inc < h[p].inc /\ r.msg.inc \in Nat /\ h[p].inc \in Nat
    <3>1. Linked(p, r.dst) /\ r.msg \in Messages
      BY <1>1, RequestIs
    <3>2. r.msg.inc < h[p].inc
      BY <1>1 DEF IInv, LeavesLast
    <3>3. h[p] \in Object
      BY <1>1, <2>2, Here
    <3> QED BY <2>2, <3>1, <3>2, <3>3 DEF Linked, Serves, Messages, Object
  <2>4. CASE HandleLeave(r)
    <3>1. ~MayLeave(h[m].table, p, r.msg.inc)
      BY <1>1, <2>2, <2>3, SMTT(60) DEF MayLeave
    <3> QED BY <1>1, <2>2, <2>3, <2>4, <3>1 DEF HandleLeave
  <2>5. ASSUME NEW n \in Node, h' = [h EXCEPT ![n] = Ended(@)] PROVE h'[m] = h[m]
    <3>1. h \in [Node -> Object] /\ ~Ended(h[n]).up
      BY <1>1, Here, EndedIs
    <3> QED BY <1>1, <2>2, <2>5, <3>1 DEF Stays
  <2> QED BY <1>1, <2>1, <2>2, <2>4, <2>5, LeaveTaken
<1>2. IInv /\ [Next]_vars =>
        [\A p \in Peer : \A r \in requests \ requests' :
           /\ r.msg.type = "LEAVE" /\ r.src = p /\ h[p].up /\ Stays(HomeOf(p))
           /\ h[HomeOf(p)].table[p] # NoMember /\ h[HomeOf(p)].table[p].inc = h[p].inc
           => h'[HomeOf(p)].table[p] = h[HomeOf(p)].table[p]]_vars
  BY <1>1
<1> QED BY <1>2, Invariance, PTL DEF Spec, LateLeaveIsHarmless
=============================================================================
