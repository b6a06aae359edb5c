----------------------------- MODULE Membership -----------------------------
(***************************************************************************)
(* The member table of membership.c.  A table is a function from nodes to  *)
(* records, NoMember where the node is not in the vector.  The operators   *)
(* below are the table's operations: each gives the table (or the record)  *)
(* that the C function leaves behind.  The state machine that calls them   *)
(* is module Heartbeat.                                                    *)
(*                                                                         *)
(* A record keeps what the decisions of the code depend on:                *)
(*   inc, seq, ver  incarnation, sequence and version                      *)
(*   state          ALIVE, SUSPECT, FAILED or REMOVED, in the code's order *)
(*   rep            reporter                                               *)
(*   seen           last_seen # 0: direct evidence of this instance        *)
(*   probes         failed_probes                                          *)
(*   age            how old observed_ms is: 0 is recent, 1, 2 and 3 are at *)
(*                  least suspect_ms, failed_ms and removed_ms             *)
(*   mine           local_registration                                     *)
(* A node's role and home do not change, so they are not in the record.    *)
(***************************************************************************)
EXTENDS Naturals

CONSTANTS SuperPeer, Peer,   \* NodeIDs, which the code compares: numbers
          Home,              \* the Super Peer each Peer is configured with
          NoMember

ASSUME MembershipAssumption ==
  /\ SuperPeer \subseteq Nat /\ Peer \subseteq Nat
  /\ SuperPeer \cap Peer = {}
  /\ Home \in [Peer -> SuperPeer]

Node == SuperPeer \cup Peer

ALIVE == 0
SUSPECT == 1
FAILED == 2
REMOVED == 3

HomeOf(m) == IF m \in Peer THEN Home[m] ELSE m

\* A record as gossip and the ledger carry it.
WireRecord == [inc : Nat, seq : Nat, ver : Nat, state : ALIVE..REMOVED, rep : Node]

Member == [inc : Nat, seq : Nat, ver : Nat, state : ALIVE..REMOVED, rep : Node,
           seen : BOOLEAN, probes : 0..2, age : 0..3, mine : BOOLEAN]

ASSUME NoMemberAssumption == NoMember \notin Member /\ NoMember \notin WireRecord

Wire(r) == [inc |-> r.inc, seq |-> r.seq, ver |-> r.ver, state |-> r.state, rep |-> r.rep]

\* A decoded record: what the wire does not carry is zero.
Decoded(w, mine) == [inc |-> w.inc, seq |-> w.seq, ver |-> w.ver, state |-> w.state,
                     rep |-> w.rep, seen |-> FALSE, probes |-> 0, age |-> 0, mine |-> mine]

set_member(me) == [inc |-> 0, seq |-> 0, ver |-> 0, state |-> ALIVE, rep |-> me,
                   seen |-> TRUE, probes |-> 0, age |-> 0, mine |-> TRUE]

transition(r, me, st) ==
  IF r.state = st THEN r
  ELSE [r EXCEPT !.state = st, !.rep = me, !.ver = @ + 1]

\* superpeer_find_member: a tombstone is not found.
Found(T, m) == T[m] # NoMember /\ T[m].state # REMOVED

-----------------------------------------------------------------------------
(* membership_register *)

\* Mutant of MayRegister: an earlier incarnation may register again.
MayRegisterEarlier(T, m, inc) ==
  T[m] # NoMember => ~ (T[m].state >= FAILED /\ inc <= T[m].inc)

MayRegister(T, m, inc) ==
  T[m] # NoMember => ~ (inc < T[m].inc \/ (T[m].state >= FAILED /\ inc <= T[m].inc))

Register(T, me, m, inc) ==
  LET r == IF T[m] = NoMember THEN set_member(me) ELSE T[m]
  IN  [T EXCEPT ![m] = [transition(r, me, ALIVE) EXCEPT
         !.seq = IF inc = r.inc THEN @ ELSE 0, !.inc = inc, !.rep = me, !.age = 0,
         !.seen = TRUE, !.probes = 0, !.mine = m \in SuperPeer \/ HomeOf(m) = me]]

-----------------------------------------------------------------------------
(* membership_heartbeat: evidence that comes from the node itself. *)

FreshHeartbeat(T, m, inc, seq) ==
  /\ T[m] # NoMember
  /\ inc >= T[m].inc
  /\ inc = T[m].inc => seq > T[m].seq /\ T[m].state < FAILED

ApplyHeartbeat(T, me, m, inc, seq) ==
  [T EXCEPT ![m] = [transition(@, me, ALIVE) EXCEPT
     !.inc = inc, !.seq = seq, !.age = 0, !.seen = TRUE, !.probes = 0]]

-----------------------------------------------------------------------------
(* membership_merge: a copy of the record that another node keeps. *)

\* The order of records: incarnation, sequence, state, version, reporter.
Newer(w, r) ==
  \/ w.inc > r.inc
  \/ /\ w.inc = r.inc
     /\ \/ w.seq > r.seq
        \/ /\ w.seq = r.seq
           /\ \/ w.state > r.state
              \/ /\ w.state = r.state
                 /\ w.ver > r.ver \/ (w.ver = r.ver /\ w.rep > r.rep)

TakesCopy(r, me, m, w) ==
  /\ Newer(w, r)
  /\ r.state = REMOVED => w.inc > r.inc
  /\ m \in Peer => HomeOf(m) # me

\* Mutant of Merge: the transition, and its reporter, come after the copy.
MergeReports(T, me, m, w) ==
  IF m = me THEN T
  ELSE [T EXCEPT ![m] = [Decoded(w, m \in SuperPeer) EXCEPT !.rep = me]]

\* Mutant of Merge: the copy inherits the evidence of the record it replaces.
MergeKeepsSeen(T, me, m, w) ==
  IF m = me THEN T
  ELSE IF T[m] = NoMember THEN [T EXCEPT ![m] = Decoded(w, m \in SuperPeer)]
  ELSE IF ~ TakesCopy(T[m], me, m, w) THEN T
  ELSE [T EXCEPT ![m] = [Decoded(w, @.mine) EXCEPT !.age = T[m].age, !.seen = T[m].seen]]

Merge(T, me, m, w) ==
  IF m = me THEN T
  ELSE IF T[m] = NoMember THEN [T EXCEPT ![m] = Decoded(w, m \in SuperPeer)]
  ELSE IF ~ TakesCopy(T[m], me, m, w) THEN T
  ELSE [T EXCEPT ![m] =
         [Decoded(w, @.mine) EXCEPT
            !.age = T[m].age,
            !.seen = T[m].seen /\ w.inc = T[m].inc /\ (T[m].state = ALIVE \/ w.state # ALIVE)]]

-----------------------------------------------------------------------------
(* The detector *)

\* membership_probe, called with what the job copied when it was scheduled.  That
\* a second has passed since the last probe is the caller's choice.
Probe(T, m, inc, seq) ==
  IF T[m] # NoMember /\ T[m].inc = inc /\ T[m].seq = seq /\ T[m].state = SUSPECT /\ T[m].probes < 2
  THEN [T EXCEPT ![m].probes = @ + 1]
  ELSE T

\* membership_tick for one record; one call may take several transitions.
TickMember(r, me) ==
  LET a == IF r.state = ALIVE /\ r.age >= 1 THEN transition(r, me, SUSPECT) ELSE r
      b == IF a.state = SUSPECT /\ a.age >= 2 /\ a.probes >= 2 THEN transition(a, me, FAILED) ELSE a
  IN  IF b.state = FAILED /\ b.age >= 3 THEN transition(b, me, REMOVED) ELSE b

Tick(T, me) ==
  [m \in Node |-> IF m # me /\ T[m] # NoMember /\ T[m].mine THEN TickMember(T[m], me) ELSE T[m]]

\* superpeer_unregister_node, which every LEAVE that is accepted calls.
Unregister(T, me, m) ==
  [T EXCEPT ![m] = [@ EXCEPT !.state = REMOVED, !.rep = me, !.ver = T[m].ver + 1]]

-----------------------------------------------------------------------------
(* The ledger *)

Save(T) == [m \in Node |-> IF T[m] = NoMember THEN NoMember ELSE Wire(T[m])]

Load(L, me) ==
  [m \in Node |-> IF m = me \/ L[m] = NoMember THEN NoMember
                  ELSE Decoded(L[m], m \in SuperPeer \/ HomeOf(m) = me)]
=============================================================================
