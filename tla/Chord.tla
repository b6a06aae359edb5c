------------------------------- MODULE Chord --------------------------------
(***************************************************************************)
(* The Chord ring of the Super Peers (chord.c, chord_network.c) and its    *)
(* coupling to the membership table (membership_failure and                *)
(* refresh_chord_membership in superpeer.c).                               *)
(*                                                                         *)
(* NodeIDs are the numbers below 2^Bits (256 bits in the code).  chord[n]  *)
(* is the Chord object of n: successor, predecessor, fingers, and bad, the *)
(* list of unavailable nodes.  task[n] is what the main thread of n is     *)
(* doing: joining the ring, or one chord_network_maintain, which calls     *)
(* other nodes and uses what it heard in a later step.  The calls of the   *)
(* others are answered meanwhile, and the heartbeat thread may have a node *)
(* forgotten at any moment.                                                *)
(*                                                                         *)
(* member[n][m] is what matters here of n's membership record of m: "none" *)
(* (unknown), "new" (discovered, not heard of), "alive" (ALIVE by direct   *)
(* evidence), "suspect", "failed".  How it changes is Heartbeat's subject; *)
(* here n may hear of m whenever m runs and one of them knows the other,   *)
(* and misses it when it does not run, or by a false alarm.                *)
(***************************************************************************)
EXTENDS Naturals, FiniteSets

CONSTANTS Bits,        \* CHORD_FINGER_COUNT
          Node,        \* the NodeIDs of the Super Peers
          Bootstrap,   \* --chord-host of the others
          NoNode,
          MinRing,     \* the size of the ring at the beginning, at least
          CallErrors,  \* whether a running node may be missed: failed calls, false alarms
          MaxChanges,  \* bound on the crashes, the starts and these
          MaxTasks     \* bound on the threads that are maintaining the ring at a time

Id == 0 .. 2^Bits - 1
Finger == 0 .. Bits - 1

ASSUME ChordAssumption ==
  /\ Bits \in Nat \ {0} /\ Node \subseteq Id /\ Bootstrap \in Node /\ NoNode \notin Node
  /\ CallErrors \in BOOLEAN /\ MinRing \in Nat \ {0} /\ MaxChanges \in Nat /\ MaxTasks \in Nat

\* The arithmetic of powers, which the proofs rest on and the provers do not know.
ASSUME PowersOfTwo == 2^0 = 1 /\ \A i \in Finger : 2^(i + 1) = 2 * 2^i

VARIABLES up, chord, task, member, changes

vars == <<up, chord, task, member, changes>>

-----------------------------------------------------------------------------
(* The circle of identifiers *)

\* chord_id_add_power
AddPower(n, i) == (n + 2^i) % 2^Bits

\* chord_interval_open_closed and chord_interval_open_open
OpenClosed(a, b, x) == IF a < b THEN a < x /\ x <= b ELSE a = b \/ a < x \/ x <= b

OpenOpen(a, b, x) == IF a = b THEN x # a ELSE IF a < b THEN a < x /\ x < b ELSE a < x \/ x < b

\* The first node of S after x on the circle, x itself if it is in S; the owner of
\* the key x in a ring of S.
From(x, S) == CHOOSE m \in S : \A k \in S : (m - x + 2^Bits) % 2^Bits <= (k - x + 2^Bits) % 2^Bits

After(n, S) == IF S \ {n} = {} THEN n ELSE From(n, S \ {n})

-----------------------------------------------------------------------------
(* The operations on the Chord object c of n *)

\* chord_create
Alone(n) == [succ |-> n, pred |-> NoNode, finger |-> [i \in Finger |-> n], bad |-> {}]

\* chord_set_successor, and chord_set_finger
SetSuccessor(c, m) == IF m \in c.bad THEN c ELSE [c EXCEPT !.succ = m, !.finger[0] = m]

\* Mutant of SetFinger: a finger is set without a look at the unavailable nodes.
SetFingerBlind(c, i, m) == IF i = 0 THEN SetSuccessor(c, m) ELSE [c EXCEPT !.finger[i] = m]

SetFinger(c, i, m) ==
  IF i = 0 THEN SetSuccessor(c, m) ELSE IF m \in c.bad THEN c ELSE [c EXCEPT !.finger[i] = m]

\* Mutant of Notify: a predecessor that is known is never replaced.
NotifyOnce(c, n, m) ==
  IF m \notin c.bad /\ m # n /\ c.pred = NoNode THEN [c EXCEPT !.pred = m] ELSE c

\* chord_notify: n hears that m takes n for its successor.
Notify(c, n, m) ==
  IF m \notin c.bad /\ m # n /\ (c.pred = NoNode \/ OpenOpen(c.pred, n, m)) THEN [c EXCEPT !.pred = m] ELSE c

\* chord_consider_predecessor: m may be a nearer successor.
ConsiderPredecessor(c, n, m) ==
  IF m \notin c.bad /\ m # n /\ (c.succ = n \/ OpenOpen(n, c.succ, m)) THEN SetSuccessor(c, m) ELSE c

\* chord_forget of each node in S
Forget(c, n, S) ==
  [succ |-> IF c.succ \in S THEN n ELSE c.succ,
   pred |-> IF c.pred \in S THEN NoNode ELSE c.pred,
   finger |-> [i \in Finger |-> IF c.finger[i] \in S THEN n ELSE c.finger[i]],
   bad |-> c.bad \cup S]

\* chord_allow and chord_repair of the nodes that are ALIVE by direct evidence.
Allow(c, S) == [c EXCEPT !.bad = @ \ S]

\* Mutant of Repair: the smallest identifier is taken.
RepairSmallest(c, n, S) ==
  LET T == S \ c.bad
      m == IF T = {} THEN n ELSE CHOOSE k \in T : \A j \in T : k <= j
  IN [c EXCEPT !.succ = m, !.finger[0] = m]

Repair(c, n, S) == LET m == After(n, S \ c.bad) IN [c EXCEPT !.succ = m, !.finger[0] = m]

\* Mutant of Route: the interval up to the successor does not wrap around.
RouteNoWrap(c, n, key) ==
  IF key = n THEN [next |-> n, complete |-> TRUE]
  ELSE IF c.succ = n \/ (n < key /\ key <= c.succ) THEN [next |-> c.succ, complete |-> TRUE]
  ELSE LET near == {i \in Finger : c.finger[i] # n /\ OpenOpen(n, key, c.finger[i])} IN
       [next |-> IF near = {} THEN c.succ ELSE c.finger[CHOOSE i \in near : \A j \in near : j <= i],
        complete |-> FALSE]

\* chord_route: the owner of key, or the farthest finger that precedes it.
Route(c, n, key) ==
  IF key = n THEN [next |-> n, complete |-> TRUE]
  ELSE IF c.succ = n \/ OpenClosed(n, c.succ, key) THEN [next |-> c.succ, complete |-> TRUE]
  ELSE LET near == {i \in Finger : c.finger[i] # n /\ OpenOpen(n, key, c.finger[i])} IN
       [next |-> IF near = {} THEN c.succ ELSE c.finger[CHOOSE i \in near : \A j \in near : j <= i],
        complete |-> FALSE]

-----------------------------------------------------------------------------
(* The threads *)

\* finger is the next finger to be set; peer the node to be called, or the node that
\* was found; key, visited: the lookup in progress.
Task == [phase : {"down", "join", "refresh", "idle", "pred", "consider", "notify", "find", "owner"},
         finger : Finger, peer : Node \cup {NoNode}, joined : BOOLEAN, key : Id, visited : SUBSET Node]

\* The task of a node that starts; the bootstrap has nobody to join.
FirstTask == [phase |-> "join", finger |-> 0, peer |-> NoNode, joined |-> FALSE, key |-> 0, visited |-> {}]

Joined == [FirstTask EXCEPT !.phase = "refresh", !.joined = TRUE]

Starting(n) == IF n = Bootstrap THEN Joined ELSE FirstTask

\* The references of a ring of the nodes S.
IdealRing(n, S) ==
  [succ |-> After(n, S),
   pred |-> IF S = {n} THEN NoNode ELSE CHOOSE p \in S \ {n} : After(p, S) = n,
   finger |-> [i \in Finger |-> From(AddPower(n, i), S)],
   bad |-> {}]

\* A ring of the bootstrap and some of the nodes, in which everybody knows everybody; the
\* others have never run.
Init ==
  \E S \in {T \in SUBSET Node : Bootstrap \in T /\ Cardinality(T) >= MinRing} :
    /\ up = [n \in Node |-> n \in S]
    /\ chord = [n \in Node |-> IF n \in S THEN IdealRing(n, S) ELSE Alone(n)]
    /\ task = [n \in Node |-> IF n \in S THEN Joined ELSE [FirstTask EXCEPT !.phase = "down"]]
    /\ member = [n \in Node |-> [m \in Node |-> IF {n, m} \subseteq S /\ n # m THEN "alive" ELSE "none"]]
    /\ changes = 0

Running == {n \in Node : up[n]}

Change == changes < MaxChanges /\ changes' = changes + 1

\* m is called and answers, or does not: it does not run, or the call fails.
Reached(m) == up[m] /\ UNCHANGED changes
Missed(m) == IF up[m] THEN CallErrors /\ Change ELSE UNCHANGED changes

SetTask(n, t) == task' = [task EXCEPT ![n] = t]

\* The end of chord_network_maintain, successful or not: the next finger is next.  There
\* is a refresh before every round of the fingers (in the code, of 16 of them).
Done(t) == [t EXCEPT !.phase = IF t.finger = Bits - 1 THEN "refresh" ELSE "idle",
                     !.finger = (@ + 1) % Bits, !.peer = NoNode, !.key = 0, !.visited = {}]

\* The end of a lookup: of chord_network_join it will be tried again.
Failed(t) == IF t.joined THEN Done(t) ELSE FirstTask

Lookup(t, key, first) == [t EXCEPT !.phase = "find", !.peer = first, !.key = key, !.visited = {}]

Busy == {n \in Node : task[n].phase \notin {"down", "join", "refresh", "idle"}}

\* chord_network_join: the lookup of n's own identifier starts at the bootstrap.  When
\* that does not answer, n will try again.
Join(n) ==
  /\ task[n].phase = "join" /\ Cardinality(Busy) < MaxTasks
  /\ \/ Reached(Bootstrap) /\ SetTask(n, Lookup(task[n], n, Bootstrap))
     \/ Missed(Bootstrap) /\ UNCHANGED task
  /\ UNCHANGED <<up, chord, member>>

\* chord_network_maintain of a node with a successor, of one without.
Stabilize(n) ==
  /\ task[n].phase = "idle" /\ Cardinality(Busy) < MaxTasks
  /\ IF chord[n].succ # n
     THEN /\ SetTask(n, [task[n] EXCEPT !.phase = "pred", !.peer = chord[n].succ])
          /\ UNCHANGED chord
     ELSE /\ chord' = [chord EXCEPT ![n] = IF @.pred = NoNode THEN @ ELSE ConsiderPredecessor(@, n, @.pred)]
          /\ SetTask(n, Lookup(task[n], AddPower(n, task[n].finger), n))
  /\ UNCHANGED <<up, member, changes>>

\* The successor answers with its predecessor.
AskPredecessor(n) ==
  /\ task[n].phase = "pred" /\ Reached(task[n].peer)
  /\ SetTask(n, [task[n] EXCEPT !.phase = "consider", !.peer = chord[task[n].peer].pred])
  /\ UNCHANGED <<up, chord, member>>

\* The answer is looked at, and the successor that results is to be notified.
Consider(n) ==
  /\ task[n].phase = "consider"
  /\ LET c == IF task[n].peer = NoNode THEN chord[n] ELSE ConsiderPredecessor(chord[n], n, task[n].peer) IN
     /\ chord' = [chord EXCEPT ![n] = c]
     /\ SetTask(n, [task[n] EXCEPT !.phase = "notify", !.peer = c.succ])
  /\ UNCHANGED <<up, member, changes>>

\* The successor handles M_CHORD_NOTIFY; it answers with an error when it has
\* forgotten n.
NotifySuccessor(n) ==
  /\ task[n].phase = "notify" /\ Reached(task[n].peer)
  /\ LET m == task[n].peer IN
     /\ chord' = [chord EXCEPT ![m] = Notify(@, m, n)]
     /\ SetTask(n, IF n \in chord[m].bad THEN Done(task[n])
                   ELSE Lookup(task[n], AddPower(n, task[n].finger), n))
  /\ UNCHANGED <<up, member>>

CallFails(n) ==
  /\ task[n].phase \in {"pred", "notify"} /\ Missed(task[n].peer)
  /\ SetTask(n, Done(task[n]))
  /\ UNCHANGED <<up, chord, member>>

\* find_from: the limit on the hops is reached, or a node is visited again.
Loops(t) == t.peer \in t.visited \/ Cardinality(t.visited) > Bits

FindLoops(n) ==
  /\ task[n].phase = "find" /\ Loops(task[n])
  /\ SetTask(n, Failed(task[n]))
  /\ UNCHANGED <<up, chord, member, changes>>

\* One hop: peer (n itself, or another node that answers) says how to go on.
FindHop(n) ==
  /\ task[n].phase = "find" /\ ~Loops(task[n]) /\ Reached(task[n].peer)
  /\ LET m == task[n].peer
         r == Route(chord[m], m, task[n].key)
         t == [task[n] EXCEPT !.visited = @ \cup {m}, !.peer = r.next]
     IN SetTask(n, IF r.complete THEN [t EXCEPT !.phase = "owner"]
                   ELSE IF r.next = m THEN Failed(t)
                   ELSE t)
  /\ UNCHANGED <<up, chord, member>>

\* peer does not answer: another finger that was not visited, or none.
FindElsewhere(n) ==
  /\ task[n].phase = "find" /\ ~Loops(task[n]) /\ task[n].peer # n /\ Missed(task[n].peer)
  /\ LET t == [task[n] EXCEPT !.visited = @ \cup {task[n].peer}]
         others == {i \in Finger : chord[n].finger[i] \notin t.visited \cup {n}}
     IN SetTask(n, IF others = {} THEN Failed(t)
                   ELSE [t EXCEPT !.peer = chord[n].finger[CHOOSE i \in others : \A j \in others : j <= i]])
  /\ UNCHANGED <<up, chord, member>>

\* The owner is asked for its identity, unless it is n.  If it does not answer, it is the
\* next hop; else it becomes a finger, or the successor of a node that joins.  (A join
\* that finds its successor unavailable is tried again.)
OwnerMissed(n) ==
  /\ task[n].phase = "owner" /\ Missed(task[n].peer) /\ task[n].peer # n
  /\ SetTask(n, [task[n] EXCEPT !.phase = "find"])
  /\ UNCHANGED <<up, chord, member>>

SetFound(n) ==
  /\ task[n].phase = "owner" /\ Reached(task[n].peer)
  /\ LET t == task[n] IN
     IF t.joined
     THEN /\ chord' = [chord EXCEPT ![n] = SetFinger(@, t.finger, t.peer)]
          /\ SetTask(n, Done(t))
     ELSE /\ chord' = [chord EXCEPT ![n] = SetSuccessor(@, t.peer)]
          /\ SetTask(n, IF t.peer \in chord[n].bad THEN FirstTask ELSE Joined)
  /\ UNCHANGED <<up, member>>

-----------------------------------------------------------------------------
(* Membership *)

\* One calls the other: the heartbeat threads start after the join.
Hear(n, m) ==
  /\ n # m /\ up[n] /\ up[m] /\ member[n][m] # "alive"
  /\ (task[n].joined /\ member[n][m] # "none") \/ (task[m].joined /\ member[m][n] # "none")
  /\ member' = [member EXCEPT ![n][m] = "alive"]
  /\ UNCHANGED <<up, chord, task, changes>>

\* m was not heard of for a while.
Suspect(n, m) ==
  /\ task[n].joined /\ n # m /\ member[n][m] \in {"new", "alive"} /\ Missed(m)
  /\ member' = [member EXCEPT ![n][m] = "suspect"]
  /\ UNCHANGED <<up, chord, task>>

\* membership_failure, called by the detector.
Fail(n, m) ==
  /\ task[n].joined /\ n # m /\ member[n][m] = "suspect"
  /\ member' = [member EXCEPT ![n][m] = "failed"]
  /\ chord' = [chord EXCEPT ![n] = Forget(@, n, {m})]
  /\ UNCHANGED <<up, task, changes>>

\* The record of m is replaced by the copy of a Super Peer that gave m up (it is newer:
\* n has heard nothing of m since); membership_failure is not called.
Rumour(n, m) ==
  /\ up[n] /\ n # m /\ member[n][m] \in {"new", "alive", "suspect"} /\ Missed(m)
  /\ \E k \in Node \ {n} : up[k] /\ member[k][m] = "failed" /\ (member[n][k] # "none" \/ member[k][n] # "none")
  /\ member' = [member EXCEPT ![n][m] = "failed"]
  /\ UNCHANGED <<up, chord, task>>

\* refresh_chord_membership, in the main loop: discover the neighbours, forget the FAILED
\* (again), allow the ALIVE and choose the successor among them.
Refresh(n) ==
  /\ task[n].phase = "refresh"
  /\ SetTask(n, [task[n] EXCEPT !.phase = "idle"])
  /\ LET c == chord[n]
         refs == {c.succ, c.pred} \cup {c.finger[i] : i \in Finger}
         known == [m \in Node |-> IF m \in refs \ {n} /\ member[n][m] = "none" THEN "new" ELSE member[n][m]]
         alive == {m \in Node : known[m] = "alive"}
         allowed == Allow(Forget(c, n, {m \in Node : known[m] = "failed"}), alive)
     IN /\ member' = [member EXCEPT ![n] = known]
        /\ chord' = [chord EXCEPT ![n] = IF alive # {} \/ (c.succ # n /\ known[c.succ] \in {"suspect", "failed"})
                                         THEN Repair(allowed, n, alive) ELSE allowed]
  /\ UNCHANGED <<up, changes>>

\* n stops, and starts again with the records of its ledger, which may not yet have
\* those it has just discovered.  (The last node that runs does not stop.)
Crash(n) ==
  /\ up[n] /\ Running # {n} /\ Change
  /\ up' = [up EXCEPT ![n] = FALSE]
  /\ chord' = [chord EXCEPT ![n] = Alone(n)]
  /\ task' = [task EXCEPT ![n] = [FirstTask EXCEPT !.phase = "down"]]
  /\ \E lost \in SUBSET {m \in Node : member[n][m] = "new"} :
       member' = [member EXCEPT ![n] = [m \in Node |-> IF m \in lost THEN "none"
                                                      ELSE IF @[m] = "alive" THEN "new" ELSE @[m]]]

Start(n) ==
  /\ ~up[n] /\ Change
  /\ up' = [up EXCEPT ![n] = TRUE]
  /\ task' = [task EXCEPT ![n] = Starting(n)]
  /\ UNCHANGED <<chord, member>>

\* The main thread of n
MainStep(n) ==
  \/ Join(n) \/ Refresh(n) \/ Stabilize(n) \/ AskPredecessor(n) \/ Consider(n) \/ NotifySuccessor(n) \/ CallFails(n)
  \/ FindLoops(n) \/ FindHop(n) \/ FindElsewhere(n) \/ OwnerMissed(n) \/ SetFound(n)

Next ==
  \/ \E n \in Node : MainStep(n) \/ Crash(n) \/ Start(n)
  \/ \E n, m \in Node : Hear(n, m) \/ Suspect(n, m) \/ Fail(n, m) \/ Rumour(n, m)

Spec == Init /\ [][Next]_vars

\* The main thread of a node runs, whatever the others do (MaxTasks is a bound of the
\* model).  A node that runs and is
\* known is heard of in the end, one that does not run is given up in the end.
FairSpec ==
  /\ Spec
  /\ \A n \in Node : SF_vars(MainStep(n))
  /\ WF_vars(\E n, m \in Node : Hear(n, m) \/ Suspect(n, m) \/ Fail(n, m))

-----------------------------------------------------------------------------
(* Properties *)

\* No answer that arrives late (of a predecessor, of a lookup, of chord_notify) brings
\* back a node that chord_forget removed and chord_allow has not admitted again.
NoForgottenReference ==
  \A n \in Node : LET c == chord[n] IN
    c.bad \cap ({c.succ, c.pred} \cup {c.finger[i] : i \in Finger}) = {}

\* As long as nothing stops, starts or fails, stabilisation, notifications, lookups
\* and repairs leave a ring that is complete as it is.
RingStays == [][changes' = 0 => \A n \in Running : chord'[n] = chord[n]]_vars

\* In such a ring find_from finds the owner of the key, from every node and within
\* its limit on hops: it does not fail, and does not stop at another node.
LookupsFindOwner ==
  changes = 0 => \A n \in Running :
    /\ task[n].phase = "find" => ~Loops(task[n])
    /\ task[n].phase = "owner" => task[n].peer = From(task[n].key, Running)

\* No group of the nodes S knows none of the rest and is known to none of it.
Linked(S) ==
  \A T \in SUBSET S \ {{}, S} : \E n \in T, m \in S \ T : member[n][m] # "none" \/ member[m][n] # "none"

\* Whatever was lost with the nodes that stopped, if the bootstrap runs in the end and
\* the membership tables still link the nodes that have joined, then all that run have
\* joined and form one complete ring: every successor, predecessor and finger is right.
RingForms ==
  <>[](up[Bootstrap] /\ Linked({n \in Running : task[n].joined})) =>
  <>[](\A n \in Running : task[n].joined /\ [chord[n] EXCEPT !.bad = {}] = IdealRing(n, Running))
=============================================================================
