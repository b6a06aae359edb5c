---------------------------- MODULE ChordProofs -----------------------------
(***************************************************************************)
(* Proofs about the Chord ring, for any number of bits and any set of      *)
(* Super Peers: no late answer brings a forgotten node back, a complete    *)
(* ring stays as it is while nothing stops, starts or fails, and in such a *)
(* ring every lookup finds the owner of its key within Bits hops.          *)
(*                                                                         *)
(* The last one is the argument for Chord's lookup: the distance to the    *)
(* last node before the key halves with every hop.  It needs neither       *)
(* induction on the hops nor logarithms: the number of nodes visited is    *)
(* part of the state, and Nears relates it to the distance that is left.   *)
(***************************************************************************)
EXTENDS Chord, FiniteSetTheorems, WellFoundedInduction, TLAPS

\* A step that names no prover is for Zenon, which gets up to a minute.
USE ZenonT(60)

----------------------------------------------------------------------------
(* The invariants *)

Chords == [succ : Node, pred : Node \cup {NoNode}, finger : [Finger -> Node], bad : SUBSET Node]

\* The Chord object c of n refers to no node that it takes for unavailable, and never takes
\* n for unavailable.
Sound(n, c) ==
  /\ c \in Chords /\ n \notin c.bad
  /\ \A m \in c.bad : c.succ # m /\ c.pred # m /\ \A i \in Finger : c.finger[i] # m

ObjectInv == chord \in [Node -> Chords] /\ \A n \in Node : Sound(n, chord[n])

\* A task that calls another node, or goes on to, knows which.
TaskOK(t) == t \in Task /\ (t.phase \in {"pred", "notify", "find", "owner"} => t.peer \in Node)

TaskInv == task \in [Node -> Task] /\ \A n \in Node : TaskOK(task[n])

Members == {"none", "new", "alive", "suspect", "failed"}

\* A node is no member of its own table.
MemberInv == member \in [Node -> [Node -> Members]] /\ \A n \in Node : member[n][n] = "none"

SoundInv == up \in [Node -> BOOLEAN] /\ changes \in Nat /\ ObjectInv /\ TaskInv /\ MemberInv

\* The identifiers from x to m, and those between m and key.
Gap(x, m) == (m - x + 2^Bits) % 2^Bits
Between(m, key) == (key - m - 1 + 2^Bits) % 2^Bits

\* A lookup that has asked the nodes it visited is nearer to the key than all of them,
\* and its distance to the last node before the key has halved with each of them.
Nears(t, S) ==
  /\ t.visited \subseteq S /\ IsFiniteSet(t.visited) /\ Cardinality(t.visited) <= Bits
  /\ \A v \in t.visited : Between(t.peer, t.key) < Between(v, t.key)
  /\ \A p \in S : Between(t.peer, t.key) - Between(p, t.key) < 2^(Bits - Cardinality(t.visited))

\* What a node in a complete ring of the nodes S is doing.
QuietTask(n, t, S) ==
  /\ t.joined /\ t.phase \in {"refresh", "idle", "pred", "consider", "notify", "find", "owner"}
  /\ t.phase \in {"pred", "notify"} => t.peer = After(n, S)
  /\ t.phase = "consider" => t.peer \in S \cup {NoNode}
  /\ t.phase \in {"find", "owner"} => t.key = AddPower(n, t.finger)
  /\ t.phase = "find" => t.peer \in S /\ Nears(t, S)
  /\ t.phase = "owner" => t.peer = From(t.key, S)

\* The ring of the nodes S is complete, and nothing has happened to it.
Quiet(S) ==
  /\ S \subseteq Node /\ S # {}
  /\ \A n \in S : /\ up[n] /\ chord[n] = IdealRing(n, S) /\ QuietTask(n, task[n], S)
                  /\ \A m \in Node : member[n][m] = IF m \in S \ {n} THEN "alive" ELSE "none"
  /\ \A n \in Node \ S : ~up[n] /\ task[n].phase = "down" /\ \A m \in Node : member[n][m] = "none"

QuietInv == changes = 0 => \E S \in SUBSET Node : Quiet(S)

----------------------------------------------------------------------------
(* The circle of identifiers *)

\* Every set of numbers has a smallest one: the loops of chord.c that look for the
\* nearest node, or for the last finger, find one.
LEMMA Smallest ==
  ASSUME NEW T, T \subseteq Nat, T # {}
  PROVE  \E x \in T : \A y \in T : x <= y
<1> DEFINE R == {ss \in Nat \X Nat : ss[1] < ss[2]}
<1>1. IsWellFoundedOn(R, Nat)
  BY NatLessThanWellFounded, SMT DEF OpToRel
<1>2. \A x, y \in Nat : y < x => <<y, x>> \in R
  BY SMT
<1> HIDE DEF R
<1>3. PICK x \in T : \A y \in T : ~(<<y, x>> \in R)
  BY <1>1, WFMin
<1>4. \A y \in T : ~(y < x)
  BY <1>2, <1>3
<1>5. \A y \in T : x \in Nat /\ y \in Nat
  BY <1>3
<1>6. \A y \in T : x <= y
  BY <1>4, <1>5, SMTT(60)
<1> QED
  BY <1>3, <1>6

\* Powers of two are positive, and grow: chord_id_add_power(n, i) is farther from n for
\* a larger i.
LEMMA Powers ==
  /\ \A i \in 0 .. Bits : 2^i \in Nat \ {0}
  /\ \A i, j \in 0 .. Bits : i < j => 2 * 2^i <= 2^j
<1>0. Bits \in Nat \ {0} /\ 2^0 = 1 /\ \A i \in 0 .. Bits - 1 : 2^(i + 1) = 2 * 2^i
  BY ChordAssumption, PowersOfTwo DEF Finger
<1>n. 0 .. Bits \subseteq Nat /\ 2^0 \in Nat \ {0}
  BY <1>0, SMTT(60)
<1>1. ASSUME NEW k \in 0 .. Bits, ~(2^k \in Nat \ {0})
      PROVE  FALSE
  <2> DEFINE T == {i \in 0 .. Bits : ~(2^i \in Nat \ {0})}
  <2>1. T \subseteq Nat /\ T # {}
    BY <1>n, <1>1
  <2>2. PICK x \in T : \A y \in T : x <= y
    BY <2>1, Smallest
  <2>3. x # 0
    BY <1>n, <2>2
  <2>4. x - 1 \in 0 .. Bits - 1 /\ x - 1 \in 0 .. Bits /\ ~(x <= x - 1) /\ x = (x - 1) + 1
    BY <1>0, <2>2, <2>3, SMTT(60)
  <2>5. 2^(x - 1) \in Nat \ {0}
    BY <2>2, <2>4
  <2>6. 2^x = 2 * 2^(x - 1)
    BY <1>0, <2>4
  <2>7. 2^x \in Nat \ {0}
    BY <2>5, <2>6, SMTT(60)
  <2> QED
    BY <2>2, <2>7
<1>2. ASSUME NEW i \in 0 .. Bits, NEW k \in 0 .. Bits, i < k, ~(2 * 2^i <= 2^k)
      PROVE  FALSE
  <2> DEFINE T == {j \in 0 .. Bits : i < j /\ ~(2 * 2^i <= 2^j)}
  <2>1. T \subseteq Nat /\ T # {}
    BY <1>n, <1>2
  <2>2. PICK x \in T : \A y \in T : x <= y
    BY <2>1, Smallest
  <2>3. x - 1 \in 0 .. Bits - 1 /\ x - 1 \in 0 .. Bits /\ ~(x <= x - 1) /\ x = (x - 1) + 1 /\ i <= x - 1
    BY <1>0, <2>2, SMTT(60)
  <2>4. 2^x = 2 * 2^(x - 1)
    BY <1>0, <2>3
  <2>5. x - 1 = i \/ 2 * 2^i <= 2^(x - 1)
    <3>1. CASE i < x - 1
      BY <2>2, <2>3, <3>1
    <3>2. CASE ~(i < x - 1)
      BY <1>0, <2>3, <3>2, SMTT(60)
    <3> QED
      BY <3>1, <3>2
  <2>6. 2^(x - 1) \in Nat /\ 2^i \in Nat
    BY <1>1, <2>3
  <2>7. 2 * 2^i <= 2^x
    BY <2>4, <2>5, <2>6, SMTT(60)
  <2> QED
    BY <2>2, <2>7
<1> QED
  BY <1>1, <1>2

\* The size of the circle.
LEMMA Circle ==
  /\ 2^Bits \in Nat /\ 2^Bits >= 2
  /\ \A x : x \in Id <=> x \in Nat /\ x < 2^Bits
  /\ Node \subseteq Id
<1>1. Bits \in Nat \ {0} /\ Node \subseteq Id /\ 2^0 = 1
  BY ChordAssumption, PowersOfTwo
<1>2. Bits \in 0 .. Bits /\ 0 \in 0 .. Bits /\ 0 < Bits
  BY <1>1, SMTT(60)
<1>3. 2^Bits \in Nat \ {0} /\ 2 * 2^0 <= 2^Bits
  BY <1>2, Powers
<1>4. 2^Bits \in Nat /\ 2^Bits >= 2
  BY <1>1, <1>3, SMTT(60)
<1>5. \A x : x \in 0 .. 2^Bits - 1 <=> x \in Nat /\ x < 2^Bits
  BY <1>4, SMTT(60)
<1> QED
  BY <1>1, <1>4, <1>5 DEF Id

\* How far it is from one identifier to another, without the remainder.
LEMMA Gaps ==
  ASSUME NEW x \in Id, NEW m \in Id
  PROVE  Gap(x, m) = IF x <= m THEN m - x ELSE m - x + 2^Bits
<1> DEFINE M == 2^Bits
<1>1. M \in Nat /\ M >= 2 /\ x \in Nat /\ x < M /\ m \in Nat /\ m < M
  BY Circle
<1> HIDE DEF M
<1>2. (m - x + M) % M = IF x <= m THEN m - x ELSE m - x + M
  BY <1>1, SMTT(60)
<1> QED
  BY <1>2 DEF M, Gap

\* How many identifiers lie between a node and a key, without the remainder.
LEMMA Betweens ==
  ASSUME NEW m \in Id, NEW key \in Id
  PROVE  Between(m, key) = IF m < key THEN key - m - 1 ELSE key - m - 1 + 2^Bits
<1> DEFINE M == 2^Bits
<1>1. M \in Nat /\ M >= 2 /\ key \in Nat /\ key < M /\ m \in Nat /\ m < M
  BY Circle
<1> HIDE DEF M
<1>2. (key - m - 1 + M) % M = IF m < key THEN key - m - 1 ELSE key - m - 1 + M
  BY <1>1, SMTT(60)
<1> QED
  BY <1>2 DEF M, Between

\* chord_id_add_power, without the remainder; the start of a finger is an identifier.
LEMMA AddsPower ==
  ASSUME NEW n \in Id, NEW i \in Finger
  PROVE  /\ AddPower(n, i) = IF n + 2^i < 2^Bits THEN n + 2^i ELSE n + 2^i - 2^Bits
         /\ AddPower(n, i) \in Id
         /\ 2^i \in Nat \ {0} /\ 2 * 2^i <= 2^Bits
<1> DEFINE M == 2^Bits
<1>1. M \in Nat /\ M >= 2 /\ n \in Nat /\ n < M
  BY Circle
<1>2. i \in 0 .. Bits /\ Bits \in 0 .. Bits /\ i < Bits
  BY ChordAssumption, SMTT(60) DEF Finger
<1>3. 2^i \in Nat \ {0} /\ 2 * 2^i <= M
  BY <1>2, Powers
<1> HIDE DEF M
<1> DEFINE w == 2^i
<1>4. w \in Nat /\ w > 0 /\ 2 * w <= M
  BY <1>3, SMTT(60)
<1> HIDE DEF w
<1>5. (n + w) % M = IF n + w < M THEN n + w ELSE n + w - M
  BY <1>1, <1>4, SMTT(60)
<1>6. (n + w) % M \in Nat /\ (n + w) % M < M
  BY <1>1, <1>4, SMTT(60)
<1> QED
  BY <1>3, <1>5, <1>6, Circle DEF w, M, AddPower

\* The node nearest after an identifier exists ...
LEMMA Nearest ==
  ASSUME NEW x \in Id, NEW S, S \subseteq Id, S # {}
  PROVE  From(x, S) \in S /\ \A k \in S : Gap(x, From(x, S)) <= Gap(x, k)
<1> DEFINE T == {Gap(x, k) : k \in S}
<1>1. \A k \in S : Gap(x, k) \in Nat
  <2> TAKE k \in S
  <2>1. k \in Id
    OBVIOUS
  <2>2. Gap(x, k) = IF x <= k THEN k - x ELSE k - x + 2^Bits
    BY <2>1, Gaps
  <2>3. 2^Bits \in Nat /\ x \in Nat /\ x < 2^Bits /\ k \in Nat /\ k < 2^Bits
    BY <2>1, Circle
  <2> QED
    BY <2>2, <2>3, SMTT(60)
<1>2. PICK g \in T : \A h \in T : g <= h
  <2>1. T \subseteq Nat /\ T # {}
    BY <1>1
  <2> QED
    BY <2>1, Smallest
<1>3. \E m \in S : \A k \in S : Gap(x, m) <= Gap(x, k)
  BY <1>2
<1> QED
  BY <1>3 DEF From, Gap

\* ... and is the only one.
LEMMA NearestIs ==
  ASSUME NEW x \in Id, NEW S, S \subseteq Id, NEW m \in S, \A k \in S : Gap(x, m) <= Gap(x, k)
  PROVE  From(x, S) = m
<1> DEFINE f == From(x, S)
<1>1. f \in S /\ Gap(x, f) <= Gap(x, m) /\ Gap(x, m) <= Gap(x, f)
  BY Nearest
<1>2. f \in Id /\ m \in Id
  BY <1>1
<1> HIDE DEF f
<1>3. /\ Gap(x, f) = IF x <= f THEN f - x ELSE f - x + 2^Bits
      /\ Gap(x, m) = IF x <= m THEN m - x ELSE m - x + 2^Bits
  BY <1>2, Gaps
<1>4. 2^Bits \in Nat /\ x \in Nat /\ x < 2^Bits /\ f \in Nat /\ f < 2^Bits /\ m \in Nat /\ m < 2^Bits
  BY <1>2, Circle
<1>5. f = m
  BY <1>1, <1>3, <1>4, SMTT(60)
<1> QED
  BY <1>5 DEF f

\* The successor that chord_repair computes: the nearest of the other nodes.
LEMMA Nexts ==
  ASSUME NEW n \in Id, NEW S, S \subseteq Id
  PROVE  /\ S \ {n} = {} => After(n, S) = n
         /\ S \ {n} # {} => /\ After(n, S) \in S \ {n}
                            /\ \A k \in S \ {n} : Gap(n, After(n, S)) <= Gap(n, k)
<1>1. S \ {n} \subseteq Id
  OBVIOUS
<1>2. ASSUME S \ {n} # {}
      PROVE  /\ From(n, S \ {n}) \in S \ {n}
             /\ \A k \in S \ {n} : Gap(n, From(n, S \ {n})) <= Gap(n, k)
  BY <1>1, <1>2, Nearest
<1> QED
  BY <1>2 DEF After

\* No node is between a node and its successor: chord_consider_predecessor finds none.
LEMMA NoneNearer ==
  ASSUME NEW n \in Id, NEW S, S \subseteq Id, NEW p \in S, p # n
  PROVE  ~OpenOpen(n, After(n, S), p)
<1> DEFINE s == After(n, S)
<1>1. s \in S /\ s # n /\ Gap(n, s) <= Gap(n, p)
  BY Nexts
<1>2. s \in Id /\ p \in Id
  BY <1>1
<1> HIDE DEF s
<1>3. /\ Gap(n, s) = IF n <= s THEN s - n ELSE s - n + 2^Bits
      /\ Gap(n, p) = IF n <= p THEN p - n ELSE p - n + 2^Bits
  BY <1>2, Gaps
<1>4. 2^Bits \in Nat /\ n \in Nat /\ n < 2^Bits /\ s \in Nat /\ s < 2^Bits /\ p \in Nat /\ p < 2^Bits
  BY <1>2, Circle
<1>5. ~OpenOpen(n, s, p)
  BY <1>1, <1>3, <1>4, SMTT(60) DEF OpenOpen
<1> QED
  BY <1>5 DEF s

\* A node owns its own identifier, and its successor the keys up to it: where chord_route
\* stops is right.
LEMMA OwnsItself ==
  ASSUME NEW S, S \subseteq Id, NEW n \in S
  PROVE  From(n, S) = n
<1>1. ASSUME NEW k \in S
      PROVE  Gap(n, n) <= Gap(n, k)
  <2>1. n \in Id /\ k \in Id
    OBVIOUS
  <2>2. /\ Gap(n, k) = IF n <= k THEN k - n ELSE k - n + 2^Bits
        /\ Gap(n, n) = IF n <= n THEN n - n ELSE n - n + 2^Bits
    BY <2>1, Gaps
  <2>3. 2^Bits \in Nat /\ n \in Nat /\ n < 2^Bits /\ k \in Nat /\ k < 2^Bits
    BY <2>1, Circle
  <2> QED
    BY <2>2, <2>3, SMTT(60)
<1> QED
  BY <1>1, NearestIs

\* A key after a node, and not after its successor, belongs to the successor: the interval
\* that chord_route tests is the right one, also where it wraps around.
LEMMA SuccessorOwns ==
  ASSUME NEW S, S \subseteq Id, NEW n \in S, NEW key \in Id, key # n,
         After(n, S) = n \/ OpenClosed(n, After(n, S), key)
  PROVE  From(key, S) = After(n, S)
<1> DEFINE s == After(n, S)
<1>1. s \in S /\ \A k \in S : k = n \/ (s # n /\ Gap(n, s) <= Gap(n, k))
  BY Nexts
<1>2. n \in Id /\ s \in Id
  BY <1>1
<1>3. s = n \/ OpenClosed(n, s, key)
  OBVIOUS
<1> HIDE DEF s
<1>4. ASSUME NEW k \in S
      PROVE  Gap(key, s) <= Gap(key, k)
  <2>1. k \in Id /\ (k = n \/ (s # n /\ Gap(n, s) <= Gap(n, k)))
    BY <1>1
  <2>2. /\ Gap(n, k) = IF n <= k THEN k - n ELSE k - n + 2^Bits
        /\ Gap(n, s) = IF n <= s THEN s - n ELSE s - n + 2^Bits
        /\ Gap(key, k) = IF key <= k THEN k - key ELSE k - key + 2^Bits
        /\ Gap(key, s) = IF key <= s THEN s - key ELSE s - key + 2^Bits
    BY <1>2, <2>1, Gaps
  <2>3. /\ 2^Bits \in Nat /\ n \in Nat /\ n < 2^Bits /\ k \in Nat /\ k < 2^Bits
        /\ s \in Nat /\ s < 2^Bits /\ key \in Nat /\ key < 2^Bits
    BY <1>2, <2>1, Circle
  <2>4. CASE k = n
    <3>1. s = n \/ OpenClosed(n, s, key)
      BY <1>3
    <3> QED
      BY <2>2, <2>3, <2>4, <3>1, SMTT(60) DEF OpenClosed
  <2>5. CASE s # n /\ Gap(n, s) <= Gap(n, k)
    BY <1>3, <2>2, <2>3, <2>5, SMTT(60) DEF OpenClosed
  <2> QED
    BY <2>1, <2>4, <2>5
<1>5. From(key, S) = s
  BY <1>1, <1>4, NearestIs
<1> QED
  BY <1>5 DEF s

\* The first finger is the successor, as chord_set_successor keeps it.
LEMMA FirstFinger ==
  ASSUME NEW S, S \subseteq Id, NEW n \in S
  PROVE  From(AddPower(n, 0), S) = After(n, S)
<1> DEFINE s == After(n, S)
           x == AddPower(n, 0)
<1>1. s \in S /\ \A k \in S : k = n \/ (s # n /\ Gap(n, s) <= Gap(n, k))
  BY Nexts
<1>2. 0 \in Finger /\ 2^0 = 1
  BY ChordAssumption, PowersOfTwo, SMTT(60) DEF Finger
<1>3. x = (IF n + 1 < 2^Bits THEN n + 1 ELSE n + 1 - 2^Bits) /\ x \in Id
  BY <1>2, AddsPower
<1>4. n \in Id /\ s \in Id
  BY <1>1
<1> HIDE DEF s, x
<1>5. ASSUME NEW k \in S
      PROVE  Gap(x, s) <= Gap(x, k)
  <2>1. k \in Id /\ (k = n \/ (s # n /\ Gap(n, s) <= Gap(n, k)))
    BY <1>1
  <2>2. /\ Gap(n, k) = IF n <= k THEN k - n ELSE k - n + 2^Bits
        /\ Gap(n, s) = IF n <= s THEN s - n ELSE s - n + 2^Bits
        /\ Gap(x, k) = IF x <= k THEN k - x ELSE k - x + 2^Bits
        /\ Gap(x, s) = IF x <= s THEN s - x ELSE s - x + 2^Bits
    BY <1>3, <1>4, <2>1, Gaps
  <2>3. /\ 2^Bits \in Nat /\ 2^Bits >= 2 /\ n \in Nat /\ n < 2^Bits /\ k \in Nat /\ k < 2^Bits
        /\ s \in Nat /\ s < 2^Bits
    BY <1>4, <2>1, Circle
  <2> QED
    BY <1>3, <2>1, <2>2, <2>3, SMTT(60)
<1>6. From(x, S) = s
  BY <1>1, <1>3, <1>5, NearestIs
<1> QED
  BY <1>6 DEF s, x

\* In a ring of more than one node every node is the successor of another.
LEMMA PredecessorExists ==
  ASSUME NEW S, S \subseteq Id, NEW n \in S, S # {n}
  PROVE  \E p \in S \ {n} : After(p, S) = n
<1> DEFINE T == {Gap(k, n) : k \in S \ {n}}
<1>1. n \in Id /\ \A k \in S : k \in Id
  OBVIOUS
<1>2. \A k, m \in S : /\ Gap(k, m) = IF k <= m THEN m - k ELSE m - k + 2^Bits
                      /\ k \in Nat /\ k < 2^Bits /\ m \in Nat /\ m < 2^Bits /\ 2^Bits \in Nat
  BY <1>1, Gaps, Circle
<1>3. \A k, m \in S : Gap(k, m) \in Nat
  BY <1>2, SMTT(60)
<1>4. PICK g \in T : \A h \in T : g <= h
  <2>1. T \subseteq Nat /\ T # {}
    BY <1>3
  <2> QED
    BY <2>1, Smallest
<1>5. PICK p \in S \ {n} : \A k \in S \ {n} : Gap(p, n) <= Gap(k, n)
  BY <1>4
<1>6. ASSUME NEW k \in S \ {p}
      PROVE  Gap(p, n) <= Gap(p, k)
  <2>1. k = n \/ Gap(p, n) <= Gap(k, n)
    BY <1>5
  <2>2. k \in S /\ k # p /\ p \in S
    OBVIOUS
  <2> QED
    BY <1>2, <2>1, <2>2, SMTT(60)
<1>7. S \ {p} \subseteq Id /\ n \in S \ {p} /\ p \in Id
  BY <1>5
<1>8. From(p, S \ {p}) = n
  BY <1>6, <1>7, NearestIs
<1> QED
  BY <1>5, <1>7, <1>8 DEF After

\* A set of fingers has a last one.
LEMMA LastFinger ==
  ASSUME NEW F, F \subseteq Finger, F # {}
  PROVE  \E i \in F : \A j \in F : j <= i
<1> DEFINE T == {Bits - i : i \in F}
<1>1. \A i \in F : i \in 0 .. Bits - 1
  BY DEF Finger
<1>2. Bits \in Nat
  BY ChordAssumption
<1>3. \A i \in F : Bits - i \in Nat
  BY <1>1, <1>2, SMTT(60)
<1>4. PICK g \in T : \A h \in T : g <= h
  <2>1. T \subseteq Nat /\ T # {}
    BY <1>3
  <2> QED
    BY <2>1, Smallest
<1>5. PICK i \in F : \A j \in F : Bits - i <= Bits - j
  BY <1>4
<1>6. \A j \in F : j <= i
  BY <1>1, <1>2, <1>5, SMTT(60)
<1> QED
  BY <1>6

\* The fingers of m before the key in a complete ring of the nodes S; chord_route takes
\* the last one.
Preceding(m, key, S) == {i \in Finger : From(AddPower(m, i), S) # m /\ OpenOpen(m, key, From(AddPower(m, i), S))}

\* When the successor does not own the key, the first finger precedes the key: chord_route
\* always finds a finger.
LEMMA PrecedingExists ==
  ASSUME NEW S, S \subseteq Id, NEW m \in S, NEW key \in Id, key # m,
         After(m, S) # m, ~OpenClosed(m, After(m, S), key)
  PROVE  0 \in Preceding(m, key, S)
<1> DEFINE s == After(m, S)
<1>1. s \in S
  BY Nexts
<1>2. m \in Id /\ s \in Id /\ s # m /\ ~OpenClosed(m, s, key)
  BY <1>1
<1>3. 0 \in Finger
  BY ChordAssumption, SMTT(60) DEF Finger
<1>4. From(AddPower(m, 0), S) = s
  BY FirstFinger
<1> HIDE DEF s
<1>5. /\ 2^Bits \in Nat /\ m \in Nat /\ m < 2^Bits /\ s \in Nat /\ s < 2^Bits
      /\ key \in Nat /\ key < 2^Bits
  BY <1>2, Circle
<1>6. OpenOpen(m, key, s)
  BY <1>2, <1>5, SMTT(60) DEF OpenOpen, OpenClosed
<1> QED
  BY <1>2, <1>3, <1>4, <1>6 DEF Preceding

\* A finger i that precedes the key is nearer to it, by at least 2^i.
LEMMA FingerNears ==
  ASSUME NEW S, S \subseteq Id, NEW m \in S, NEW key \in Id, key # m, NEW i \in Preceding(m, key, S)
  PROVE  LET f == From(AddPower(m, i), S) IN
         f \in S /\ f # m /\ Between(f, key) < Between(m, key) /\ Between(f, key) <= Between(m, key) - 2^i
<1> DEFINE x == AddPower(m, i)
           f == From(x, S)
           w == 2^i
<1>1. i \in Finger /\ f # m /\ OpenOpen(m, key, f)
  BY DEF Preceding
<1>2. m \in Id /\ S # {}
  OBVIOUS
<1>3. /\ x = (IF m + w < 2^Bits THEN m + w ELSE m + w - 2^Bits) /\ x \in Id
      /\ w \in Nat \ {0} /\ 2 * w <= 2^Bits
  BY <1>1, <1>2, AddsPower
<1>4. f \in S /\ Gap(x, f) <= Gap(x, m)
  BY <1>2, <1>3, Nearest
<1> HIDE DEF x, f, w
<1>5. f \in Id
  BY <1>4
<1>6. /\ Gap(x, f) = IF x <= f THEN f - x ELSE f - x + 2^Bits
      /\ Gap(x, m) = IF x <= m THEN m - x ELSE m - x + 2^Bits
      /\ Between(f, key) = IF f < key THEN key - f - 1 ELSE key - f - 1 + 2^Bits
      /\ Between(m, key) = IF m < key THEN key - m - 1 ELSE key - m - 1 + 2^Bits
  BY <1>2, <1>3, <1>5, Gaps, Betweens
<1>7. /\ 2^Bits \in Nat /\ m \in Nat /\ m < 2^Bits /\ f \in Nat /\ f < 2^Bits
      /\ key \in Nat /\ key < 2^Bits /\ x \in Nat /\ x < 2^Bits
  BY <1>2, <1>3, <1>5, Circle
<1>8. Between(f, key) < Between(m, key) /\ Between(f, key) <= Between(m, key) - w
  BY <1>1, <1>3, <1>4, <1>6, <1>7, SMTT(60) DEF OpenOpen
<1> QED
  BY <1>1, <1>4, <1>8 DEF x, f, w

\* A node that is before the key, and no nearer to m than 2^i, makes the finger i precede
\* the key.
LEMMA FarNodeShows ==
  ASSUME NEW S, S \subseteq Id, NEW m \in S, NEW key \in Id, key # m, NEW i \in Finger,
         NEW p \in S, 2^i <= Between(m, key) - Between(p, key)
  PROVE  i \in Preceding(m, key, S)
<1> DEFINE x == AddPower(m, i)
           f == From(x, S)
           w == 2^i
<1>1. w <= Between(m, key) - Between(p, key)
  OBVIOUS
<1>2. m \in Id /\ p \in Id /\ S # {}
  OBVIOUS
<1>3. /\ x = (IF m + w < 2^Bits THEN m + w ELSE m + w - 2^Bits) /\ x \in Id
      /\ w \in Nat \ {0} /\ 2 * w <= 2^Bits
  BY <1>2, AddsPower
<1>4. f \in S /\ Gap(x, f) <= Gap(x, p)
  BY <1>2, <1>3, Nearest
<1> HIDE DEF x, f, w
<1>5. f \in Id
  BY <1>4
<1>6. /\ Gap(x, f) = IF x <= f THEN f - x ELSE f - x + 2^Bits
      /\ Gap(x, p) = IF x <= p THEN p - x ELSE p - x + 2^Bits
      /\ Between(p, key) = IF p < key THEN key - p - 1 ELSE key - p - 1 + 2^Bits
      /\ Between(m, key) = IF m < key THEN key - m - 1 ELSE key - m - 1 + 2^Bits
  BY <1>2, <1>3, <1>5, Gaps, Betweens
<1>7. /\ 2^Bits \in Nat /\ m \in Nat /\ m < 2^Bits /\ f \in Nat /\ f < 2^Bits /\ p \in Nat /\ p < 2^Bits
      /\ key \in Nat /\ key < 2^Bits /\ x \in Nat /\ x < 2^Bits
  BY <1>2, <1>3, <1>5, Circle
<1>8. f # m /\ OpenOpen(m, key, f)
  BY <1>1, <1>3, <1>4, <1>6, <1>7, SMTT(60) DEF OpenOpen
<1> QED
  BY <1>8 DEF x, f, Preceding

\* The last finger that precedes the key halves the distance: with less than 2^k to any
\* node before the key, the next hop has less than 2^(k-1).
LEMMA Halves ==
  ASSUME NEW S, S \subseteq Id, NEW m \in S, NEW key \in Id, key # m,
         After(m, S) # m, ~OpenClosed(m, After(m, S), key),
         NEW i \in Preceding(m, key, S), \A j \in Preceding(m, key, S) : j <= i,
         NEW k \in 0 .. Bits, \A p \in S : Between(m, key) - Between(p, key) < 2^k
  PROVE  LET f == From(AddPower(m, i), S) IN
         k # 0 /\ \A p \in S : Between(f, key) - Between(p, key) < 2^(k - 1)
<1> DEFINE f == From(AddPower(m, i), S)
<1>1. f \in S /\ Between(f, key) < Between(m, key) /\ Between(f, key) <= Between(m, key) - 2^i
  BY FingerNears
<1>2. \A p \in S : Between(p, key) \in Int
  <2> TAKE p \in S
  <2>1. p \in Id
    OBVIOUS
  <2>2. Between(p, key) = IF p < key THEN key - p - 1 ELSE key - p - 1 + 2^Bits
    BY <2>1, Betweens
  <2>3. 2^Bits \in Nat /\ p \in Nat /\ key \in Nat
    BY <2>1, Circle
  <2> QED
    BY <2>2, <2>3, SMTT(60)
<1>3. i \in Finger
  BY DEF Preceding
<1> DEFINE B(p) == Between(p, key)
<1> HIDE DEF f, B
<1>4. B(f) \in Int /\ B(m) \in Int /\ B(f) < B(m) /\ B(f) <= B(m) - 2^i /\ B(m) - B(f) < 2^k
  BY <1>1, <1>2 DEF B
<1>5. k # 0
  <2>1. CASE k = 0
    <3>1. 2^k = 1
      BY <2>1, PowersOfTwo
    <3> QED
      BY <1>4, <3>1, SMTT(60)
  <2> QED
    BY <2>1
<1>6. k - 1 \in Finger /\ k - 1 \in 0 .. Bits /\ k - 1 + 1 = k /\ i \in 0 .. Bits /\ i \in Nat /\ k \in Nat
  BY <1>3, <1>5, ChordAssumption, SMTT(60) DEF Finger
<1>7. 2^k = 2 * 2^(k - 1) /\ 2^(k - 1) \in Nat /\ 2^i \in Nat
  BY <1>6, PowersOfTwo, Powers
<1>8. ASSUME NEW p \in S
      PROVE  B(f) - B(p) < 2^(k - 1)
  <2>1. B(p) \in Int /\ B(m) - B(p) < 2^k
    BY <1>2 DEF B
  <2>2. CASE k - 1 \in Preceding(m, key, S)
    <3>1. k - 1 <= i
      BY <2>2
    <3>2. k - 1 = i \/ k - 1 < i
      BY <1>6, <3>1, SMTT(60)
    <3>3. k - 1 = i \/ 2 * 2^(k - 1) <= 2^i
      BY <1>6, <3>2, Powers
    <3>4. 2^(k - 1) <= 2^i
      BY <1>7, <3>3, SMTT(60)
    <3> QED
      BY <1>4, <1>7, <2>1, <3>4, SMTT(60)
  <2>3. CASE k - 1 \notin Preceding(m, key, S)
    <3>1. ~(2^(k - 1) <= B(m) - B(p))
      BY <1>6, <2>3, FarNodeShows DEF B
    <3> QED
      BY <1>4, <1>7, <2>1, <3>1, SMTT(60)
  <2> QED
    BY <2>2, <2>3
<1> QED
  BY <1>5, <1>8 DEF f, B

\* What chord_route answers in a complete ring of the nodes S: the owner of the key, or
\* the last finger that precedes it.
LEMMA RouteInRing ==
  ASSUME NEW S, S \subseteq Id, NEW m \in S, NEW key \in Id
  PROVE  LET r == Route(IdealRing(m, S), m, key) IN
         \/ r.complete /\ r.next = From(key, S)
         \/ /\ ~r.complete /\ key # m /\ After(m, S) # m /\ ~OpenClosed(m, After(m, S), key)
            /\ \E i \in Preceding(m, key, S) :
                 r.next = From(AddPower(m, i), S) /\ \A j \in Preceding(m, key, S) : j <= i
<1> DEFINE c == IdealRing(m, S)
           near == {i \in Finger : c.finger[i] # m /\ OpenOpen(m, key, c.finger[i])}
           last == CHOOSE i \in near : \A j \in near : j <= i
<1>1. c.succ = After(m, S) /\ \A i \in Finger : c.finger[i] = From(AddPower(m, i), S)
  BY SMTT(60) DEF IdealRing
<1>2. near = Preceding(m, key, S)
  BY <1>1 DEF Preceding
<1> HIDE DEF c
<1>3. CASE key = m
  <2>1. Route(c, m, key) = [next |-> m, complete |-> TRUE]
    BY <1>3 DEF Route
  <2>2. Route(c, m, key).next = m /\ Route(c, m, key).complete
    BY <2>1, SMTT(60)
  <2> QED
    BY <1>3, <2>2, OwnsItself DEF c
<1>4. CASE key # m /\ (c.succ = m \/ OpenClosed(m, c.succ, key))
  <2>1. Route(c, m, key) = [next |-> c.succ, complete |-> TRUE]
    BY <1>4 DEF Route
  <2>2. Route(c, m, key).next = c.succ /\ Route(c, m, key).complete
    BY <2>1, SMTT(60)
  <2>3. From(key, S) = After(m, S)
    BY <1>1, <1>4, SuccessorOwns
  <2> QED
    BY <1>1, <2>2, <2>3 DEF c
<1>5. CASE key # m /\ ~(c.succ = m \/ OpenClosed(m, c.succ, key))
  <2>1. 0 \in near
    BY <1>1, <1>2, <1>5, PrecedingExists
  <2>2. \E i \in near : \A j \in near : j <= i
    BY <2>1, LastFinger
  <2>3. last \in near /\ \A j \in near : j <= last
    BY <2>2
  <2>4. Route(c, m, key) = [next |-> c.finger[last], complete |-> FALSE]
    BY <1>5, <2>1 DEF Route
  <2> HIDE DEF last
  <2>5. Route(c, m, key).next = c.finger[last] /\ ~Route(c, m, key).complete
    BY <2>4, SMTT(60)
  <2>6. c.finger[last] = From(AddPower(m, last), S)
    BY <1>1, <2>3
  <2> QED
    BY <1>1, <1>2, <1>5, <2>3, <2>5, <2>6 DEF c
<1> QED
  BY <1>3, <1>4, <1>5

----------------------------------------------------------------------------
(* The operations on a Chord object keep it sound *)

\* The constants, and the finger that comes after one.
LEMMA Assumed ==
  /\ Bits \in Nat \ {0} /\ Bootstrap \in Node /\ NoNode \notin Node /\ 0 \in Finger /\ 0 \in Id
  /\ \A i \in Finger : (i + 1) % Bits \in Finger
<1>1. Bits \in Nat \ {0} /\ Bootstrap \in Node /\ NoNode \notin Node
  BY ChordAssumption
<1>2. 0 \in Finger /\ \A i \in Finger : (i + 1) % Bits \in Finger
  BY <1>1, SMTT(60) DEF Finger
<1>3. 0 < 2^Bits /\ 0 \in Nat
  BY Circle, SMTT(60)
<1> QED
  BY <1>1, <1>2, <1>3, Circle

\* chord_create
LEMMA AloneSound ==
  ASSUME NEW n \in Node
  PROVE  Sound(n, Alone(n))
BY SMTT(60) DEF Sound, Chords, Alone

\* The successor and the first finger change together.
LEMMA SuccessorSound ==
  ASSUME NEW n \in Node, NEW c, Sound(n, c), NEW m \in Node, m \notin c.bad
  PROVE  Sound(n, [c EXCEPT !.succ = m, !.finger[0] = m])
<1> DEFINE d == [c EXCEPT !.succ = m, !.finger[0] = m]
<1>1. c \in Chords /\ 0 \in Finger
  BY Assumed DEF Sound
<1>2. /\ d \in Chords /\ d.succ = m /\ d.pred = c.pred /\ d.bad = c.bad
      /\ d.finger = [c.finger EXCEPT ![0] = m]
  BY <1>1 DEF Chords
<1> HIDE DEF d
<1>3. \A i \in Finger : d.finger[i] = IF i = 0 THEN m ELSE c.finger[i]
  <2>1. c.finger \in [Finger -> Node]
    BY <1>1 DEF Chords
  <2> QED
    BY <1>2, <2>1, SMTT(60)
<1>4. Sound(n, d)
  BY <1>2, <1>3 DEF Sound
<1> QED
  BY <1>4 DEF d

\* chord_set_successor refuses a node that is unavailable.
LEMMA SetSuccessorSound ==
  ASSUME NEW n \in Node, NEW c, Sound(n, c), NEW m \in Node
  PROVE  Sound(n, SetSuccessor(c, m))
BY SuccessorSound DEF SetSuccessor

\* chord_set_finger refuses a node that is unavailable.
LEMMA SetFingerSound ==
  ASSUME NEW n \in Node, NEW c, Sound(n, c), NEW m \in Node, NEW i \in Finger
  PROVE  Sound(n, SetFinger(c, i, m))
<1> DEFINE d == [c EXCEPT !.finger[i] = m]
<1>1. c \in Chords
  BY DEF Sound
<1>2. /\ d \in Chords /\ d.succ = c.succ /\ d.pred = c.pred /\ d.bad = c.bad
      /\ d.finger = [c.finger EXCEPT ![i] = m]
  BY <1>1 DEF Chords
<1>3. \A j \in Finger : d.finger[j] = IF i = j THEN m ELSE c.finger[j]
  <2>1. c.finger \in [Finger -> Node]
    BY <1>1 DEF Chords
  <2> QED
    BY <1>2, <2>1
<1> HIDE DEF d
<1>4. m \notin c.bad => Sound(n, d)
  BY <1>2, <1>3 DEF Sound
<1> QED
  BY <1>4, SetSuccessorSound DEF SetFinger, d

\* chord_notify refuses a predecessor that is unavailable.
LEMMA NotifySound ==
  ASSUME NEW n \in Node, NEW c, Sound(n, c), NEW m \in Node
  PROVE  Sound(n, Notify(c, n, m))
<1> DEFINE d == [c EXCEPT !.pred = m]
<1>1. c \in Chords
  BY DEF Sound
<1>2. d \in Chords /\ d.succ = c.succ /\ d.pred = m /\ d.bad = c.bad /\ d.finger = c.finger
  BY <1>1 DEF Chords
<1> HIDE DEF d
<1>3. m \notin c.bad => Sound(n, d)
  BY <1>2 DEF Sound
<1> QED
  BY <1>3 DEF Notify, d

\* chord_consider_predecessor refuses a successor that is unavailable.
LEMMA ConsiderSound ==
  ASSUME NEW n \in Node, NEW c, Sound(n, c), NEW m \in Node
  PROVE  Sound(n, ConsiderPredecessor(c, n, m))
BY SetSuccessorSound DEF ConsiderPredecessor

\* chord_forget removes a node from the successor, the predecessor and all the fingers.
LEMMA ForgetSound ==
  ASSUME NEW n \in Node, NEW c, Sound(n, c), NEW S \in SUBSET Node, n \notin S
  PROVE  Sound(n, Forget(c, n, S))
<1> DEFINE d == Forget(c, n, S)
<1>1. /\ c.succ \in Node /\ c.pred \in Node \cup {NoNode} /\ c.finger \in [Finger -> Node]
      /\ c.bad \in SUBSET Node /\ NoNode \notin Node
  BY Assumed DEF Sound, Chords
<1>2. /\ d.succ = (IF c.succ \in S THEN n ELSE c.succ)
      /\ d.pred = (IF c.pred \in S THEN NoNode ELSE c.pred)
      /\ d.finger = [i \in Finger |-> IF c.finger[i] \in S THEN n ELSE c.finger[i]]
      /\ d.bad = c.bad \cup S
  BY SMTT(60) DEF Forget
<1>3. d \in Chords
  BY <1>1 DEF Chords, Forget
<1> HIDE DEF d
<1>4. \A i \in Finger : d.finger[i] = IF c.finger[i] \in S THEN n ELSE c.finger[i]
  BY <1>2
<1>5. ASSUME NEW m \in d.bad
      PROVE  d.succ # m /\ d.pred # m /\ \A i \in Finger : d.finger[i] # m
  <2>1. m \in Node /\ m # n /\ m # NoNode /\ (m \in c.bad \/ m \in S)
    BY <1>1, <1>2 DEF Sound
  <2>2. m \in c.bad => c.succ # m /\ c.pred # m /\ \A i \in Finger : c.finger[i] # m
    BY DEF Sound
  <2>3. d.succ # m
    BY <1>2, <2>1, <2>2
  <2>4. d.pred # m
    BY <1>2, <2>1, <2>2
  <2>5. \A i \in Finger : d.finger[i] # m
    BY <1>4, <2>1, <2>2
  <2> QED
    BY <2>3, <2>4, <2>5
<1>6. n \notin d.bad
  BY <1>2 DEF Sound
<1>7. Sound(n, d)
  BY <1>3, <1>5, <1>6 DEF Sound
<1> QED
  BY <1>7 DEF d

\* chord_allow only shortens the list of unavailable nodes.
LEMMA AllowSound ==
  ASSUME NEW n \in Node, NEW c, Sound(n, c), NEW S
  PROVE  Sound(n, Allow(c, S))
<1> DEFINE d == Allow(c, S)
<1>1. c \in Chords
  BY DEF Sound
<1>2. /\ d \in Chords /\ d.succ = c.succ /\ d.pred = c.pred /\ d.bad = c.bad \ S
      /\ d.finger = c.finger
  BY <1>1 DEF Chords, Allow
<1> HIDE DEF d
<1>3. Sound(n, d)
  BY <1>2 DEF Sound
<1> QED
  BY <1>3 DEF d

\* chord_repair chooses the node itself, or one that is not unavailable.
LEMMA RepairSound ==
  ASSUME NEW n \in Node, NEW c, Sound(n, c), NEW S \in SUBSET Node
  PROVE  Sound(n, Repair(c, n, S))
<1> DEFINE m == After(n, S \ c.bad)
<1>1. n \in Id /\ S \ c.bad \subseteq Id
  BY Circle
<1>2. m = n \/ m \in S \ c.bad
  BY <1>1, Nexts
<1>3. m \in Node /\ m \notin c.bad
  BY <1>2 DEF Sound
<1> HIDE DEF m
<1>4. Sound(n, [c EXCEPT !.succ = m, !.finger[0] = m])
  BY <1>3, SuccessorSound
<1> QED
  BY <1>4 DEF Repair, m

\* The objects of a complete ring are sound.
LEMMA IdealSound ==
  ASSUME NEW S \in SUBSET Node, NEW n \in S
  PROVE  Sound(n, IdealRing(n, S))
<1> DEFINE c == IdealRing(n, S)
<1>1. n \in Id /\ S \subseteq Id /\ S # {}
  BY Circle
<1>2. After(n, S) \in Node
  BY <1>1, Nexts
<1>3. S = {n} \/ (CHOOSE p \in S \ {n} : After(p, S) = n) \in Node
  BY <1>1, PredecessorExists
<1>4. \A i \in Finger : From(AddPower(n, i), S) \in Node
  BY <1>1, AddsPower, Nearest
<1>5. c \in Chords /\ c.bad = {}
  BY <1>2, <1>3, <1>4, SMTT(60) DEF IdealRing, Chords
<1> HIDE DEF c
<1>6. Sound(n, c)
  BY <1>5 DEF Sound
<1> QED
  BY <1>6 DEF c

----------------------------------------------------------------------------
(* The tasks *)

\* The tasks of a node that starts, that has joined, that is down.
LEMMA FirstOK == TaskOK(FirstTask) /\ TaskOK(Joined) /\ TaskOK([FirstTask EXCEPT !.phase = "down"])
<1>1. 0 \in Finger /\ 0 \in Id
  BY Assumed
<1>2. FirstTask \in Task /\ FirstTask.phase = "join" /\ FirstTask.peer = NoNode
  BY <1>1, SMTT(60) DEF FirstTask, Task
<1>3. Joined \in Task /\ Joined.phase = "refresh"
  BY <1>2 DEF Joined, Task
<1>4. [FirstTask EXCEPT !.phase = "down"] \in Task /\ [FirstTask EXCEPT !.phase = "down"].phase = "down"
  BY <1>2 DEF Task
<1> QED
  BY <1>2, <1>3, <1>4 DEF TaskOK

\* What the end of chord_network_maintain leaves.
LEMMA DoneIs ==
  ASSUME NEW t \in Task
  PROVE  /\ Done(t) \in Task /\ Done(t).joined = t.joined
         /\ Done(t).phase \in {"refresh", "idle"}
<1> DEFINE ph == IF t.finger = Bits - 1 THEN "refresh" ELSE "idle"
           fi == (t.finger + 1) % Bits
<1>1. t.finger \in Finger
  BY DEF Task
<1>2. fi \in Finger /\ 0 \in Id /\ ph \in {"refresh", "idle"}
  BY <1>1, Assumed
<1>3. Done(t) = [t EXCEPT !.phase = ph, !.finger = fi, !.peer = NoNode, !.key = 0, !.visited = {}]
  BY DEF Done
<1> HIDE DEF ph, fi
<1> DEFINE d == [t EXCEPT !.phase = ph, !.finger = fi, !.peer = NoNode, !.key = 0, !.visited = {}]
<1>4. d \in Task /\ d.joined = t.joined /\ d.phase = ph
  BY <1>2 DEF Task
<1> QED
  BY <1>2, <1>3, <1>4

\* The end of chord_network_maintain and the failure of a lookup leave a proper task.
LEMMA DoneOK ==
  ASSUME NEW t, TaskOK(t)
  PROVE  TaskOK(Done(t)) /\ TaskOK(Failed(t))
<1>1. TaskOK(Done(t))
  <2>1. t \in Task
    BY DEF TaskOK
  <2>2. Done(t) \in Task /\ Done(t).phase \in {"refresh", "idle"}
    BY <2>1, DoneIs
  <2>3. Done(t).phase \notin {"pred", "notify", "find", "owner"}
    BY <2>2
  <2> QED
    BY <2>2, <2>3 DEF TaskOK
<1> QED
  BY <1>1, FirstOK DEF Failed

\* find_from begins: the first node is to be asked, none has been.
LEMMA LookupIs ==
  ASSUME NEW t \in Task, NEW key \in Id, NEW first \in Node
  PROVE  /\ Lookup(t, key, first) \in Task
         /\ Lookup(t, key, first).phase = "find" /\ Lookup(t, key, first).peer = first
         /\ Lookup(t, key, first).key = key /\ Lookup(t, key, first).visited = {}
         /\ Lookup(t, key, first).finger = t.finger /\ Lookup(t, key, first).joined = t.joined
BY DEF Lookup, Task

\* A lookup that begins at a node is a proper task.
LEMMA LookupOK ==
  ASSUME NEW t, TaskOK(t), NEW key \in Id, NEW first \in Node
  PROVE  TaskOK(Lookup(t, key, first))
<1>1. t \in Task
  BY DEF TaskOK
<1>2. Lookup(t, key, first) \in Task /\ Lookup(t, key, first).peer = first
  BY <1>1, LookupIs, SMTT(60)
<1> QED
  BY <1>2 DEF TaskOK

\* The task goes on to its next call, with the node it is for.
LEMMA MovesOn ==
  ASSUME NEW t, TaskOK(t), NEW m \in Node \cup {NoNode},
         NEW ph \in {"idle", "pred", "consider", "notify", "find", "owner"}, ph \in {"idle", "consider"} \/ m \in Node
  PROVE  /\ TaskOK([t EXCEPT !.phase = ph, !.peer = m])
         /\ ph = "idle" => TaskOK([t EXCEPT !.phase = ph])
<1>1. t \in Task
  BY DEF TaskOK
<1> DEFINE d == [t EXCEPT !.phase = ph, !.peer = m]
           e == [t EXCEPT !.phase = ph]
<1>2. d \in Task /\ d.phase = ph /\ d.peer = m /\ e \in Task /\ e.phase = ph
  BY <1>1 DEF Task
<1> HIDE DEF d, e
<1>3. TaskOK(d) /\ (ph = "idle" => TaskOK(e))
  BY <1>2 DEF TaskOK
<1> QED
  BY <1>3 DEF d, e

\* A step of the main thread of n sets its task, and its Chord object or that of a node
\* that it calls.
LEMMA TaskStep ==
  ASSUME TaskInv, NEW n \in Node, NEW e, TaskOK(e), SetTask(n, e)
  PROVE  TaskInv'
<1>1. e \in Task /\ task \in [Node -> Task]
  BY DEF TaskOK, TaskInv
<1>2. task' \in [Node -> Task] /\ \A m \in Node : task'[m] = IF m = n THEN e ELSE task[m]
  BY <1>1 DEF SetTask
<1>3. \A m \in Node : TaskOK(task'[m])
  BY <1>2 DEF TaskInv
<1> QED
  BY <1>2, <1>3 DEF TaskInv, TaskOK

\* A step that replaces a Chord object by a sound one keeps them all sound.
LEMMA ObjectStep ==
  ASSUME ObjectInv, NEW n \in Node, NEW e, Sound(n, e), chord' = [chord EXCEPT ![n] = e]
  PROVE  ObjectInv'
<1>1. e \in Chords /\ chord \in [Node -> Chords]
  BY DEF Sound, ObjectInv
<1>2. chord' \in [Node -> Chords] /\ \A m \in Node : chord'[m] = IF m = n THEN e ELSE chord[m]
  BY <1>1
<1>3. \A m \in Node : Sound(m, chord'[m])
  BY <1>2 DEF ObjectInv
<1> QED
  BY <1>2, <1>3 DEF ObjectInv, Sound

\* A step that writes the record of another node keeps the tables in shape.
LEMMA MemberStep ==
  ASSUME MemberInv, NEW n \in Node, NEW m \in Node, n # m, NEW v \in Members,
         member' = [member EXCEPT ![n][m] = v]
  PROVE  MemberInv'
<1>1. member \in [Node -> [Node -> Members]]
  BY DEF MemberInv
<1>2. member[n] \in [Node -> Members]
  BY <1>1
<1> DEFINE r == [member[n] EXCEPT ![m] = v]
<1>3. r \in [Node -> Members] /\ r[n] = member[n][n]
  BY <1>2
<1>4. member' = [member EXCEPT ![n] = r]
  OBVIOUS
<1> HIDE DEF r
<1>5. member' \in [Node -> [Node -> Members]] /\ \A k \in Node : member'[k] = IF k = n THEN r ELSE member[k]
  BY <1>1, <1>3, <1>4
<1> QED
  BY <1>3, <1>5 DEF MemberInv

\* So does one that replaces a table, and has no record of the node itself in it.
LEMMA MembersStep ==
  ASSUME MemberInv, NEW n \in Node, NEW r \in [Node -> Members], r[n] = "none",
         member' = [member EXCEPT ![n] = r]
  PROVE  MemberInv'
<1>1. member \in [Node -> [Node -> Members]]
  BY DEF MemberInv
<1>2. member' \in [Node -> [Node -> Members]] /\ \A k \in Node : member'[k] = IF k = n THEN r ELSE member[k]
  BY <1>1
<1> QED
  BY <1>2 DEF MemberInv

\* A call, answered or not, counts at most one change.
LEMMA CallStep ==
  ASSUME SoundInv, NEW m, Reached(m) \/ Missed(m)
  PROVE  changes' \in Nat
BY SMTT(60) DEF SoundInv, Reached, Missed, Change

\* chord_route answers with a node.
LEMMA RouteNode ==
  ASSUME NEW c \in Chords, NEW m \in Node, NEW key
  PROVE  Route(c, m, key).next \in Node
<1> DEFINE near == {i \in Finger : c.finger[i] # m /\ OpenOpen(m, key, c.finger[i])}
           last == CHOOSE i \in near : \A j \in near : j <= i
           far == IF near = {} THEN c.succ ELSE c.finger[last]
<1>1. c.succ \in Node /\ c.finger \in [Finger -> Node]
  BY DEF Chords
<1>2. near # {} => last \in Finger
  BY LastFinger
<1>3. far \in Node
  BY <1>1, <1>2
<1>4. \/ Route(c, m, key) = [next |-> m, complete |-> TRUE]
      \/ Route(c, m, key) = [next |-> c.succ, complete |-> TRUE]
      \/ Route(c, m, key) = [next |-> far, complete |-> FALSE]
  BY DEF Route
<1> HIDE DEF far
<1> QED
  BY <1>1, <1>3, <1>4, SMTT(60)

\* find_from has asked m, and p is next.
LEMMA VisitIs ==
  ASSUME NEW t \in Task, NEW m \in Node, NEW p \in Node
  PROVE  LET e == [t EXCEPT !.visited = @ \cup {m}, !.peer = p] IN
         /\ e \in Task /\ e.phase = t.phase /\ e.peer = p /\ e.visited = t.visited \cup {m}
         /\ e.key = t.key /\ e.finger = t.finger /\ e.joined = t.joined
BY DEF Task

\* chord_network_join
LEMMA JoinSound == ASSUME SoundInv, NEW n \in Node, Join(n) PROVE SoundInv'
<1>1. changes' \in Nat
  BY CallStep DEF Join
<1>2. TaskInv'
  <2>1. TaskOK(Lookup(task[n], n, Bootstrap))
    BY LookupOK, Circle, Assumed DEF SoundInv, TaskInv
  <2>2. CASE SetTask(n, Lookup(task[n], n, Bootstrap))
    BY <2>1, <2>2, TaskStep DEF SoundInv
  <2>3. CASE UNCHANGED task
    BY <2>3 DEF SoundInv, TaskInv, TaskOK
  <2> QED
    BY <2>2, <2>3 DEF Join
<1> QED
  BY <1>1, <1>2 DEF Join, SoundInv, ObjectInv, Sound, MemberInv

\* chord_network_maintain, up to its first call
LEMMA StabilizeSound == ASSUME SoundInv, NEW n \in Node, Stabilize(n) PROVE SoundInv'
<1>1. TaskOK(task[n]) /\ Sound(n, chord[n]) /\ chord[n].succ \in Node /\ chord[n].pred \in Node \cup {NoNode}
  BY DEF SoundInv, TaskInv, ObjectInv, Sound, Chords
<1>2. CASE chord[n].succ # n
  <2>1. TaskOK([task[n] EXCEPT !.phase = "pred", !.peer = chord[n].succ])
    BY <1>1, MovesOn
  <2>2. TaskInv'
    BY <1>2, <2>1, TaskStep DEF SoundInv, Stabilize
  <2> QED
    BY <1>2, <2>2 DEF Stabilize, SoundInv, ObjectInv, Sound, MemberInv
<1>3. CASE chord[n].succ = n
  <2>1. task[n].finger \in Finger /\ n \in Id
    BY <1>1, Circle DEF TaskOK, Task
  <2>2. TaskOK(Lookup(task[n], AddPower(n, task[n].finger), n))
    BY <1>1, <2>1, LookupOK, AddsPower
  <2>3. TaskInv'
    BY <1>3, <2>2, TaskStep DEF SoundInv, Stabilize
  <2> DEFINE e == IF chord[n].pred = NoNode THEN chord[n] ELSE ConsiderPredecessor(chord[n], n, chord[n].pred)
  <2>4. Sound(n, e)
    BY <1>1, ConsiderSound
  <2>5. chord' = [chord EXCEPT ![n] = e]
    BY <1>3 DEF Stabilize
  <2> HIDE DEF e
  <2>6. ObjectInv'
    BY <2>4, <2>5, ObjectStep DEF SoundInv
  <2> QED
    BY <2>3, <2>6 DEF Stabilize, SoundInv, MemberInv
<1> QED
  BY <1>2, <1>3

\* chord_network_maintain: the predecessor of the successor
LEMMA AskPredecessorSound == ASSUME SoundInv, NEW n \in Node, AskPredecessor(n) PROVE SoundInv'
<1>1. changes' \in Nat
  BY CallStep DEF AskPredecessor
<1>2. TaskOK(task[n]) /\ task[n].peer \in Node
  BY DEF SoundInv, TaskInv, TaskOK, AskPredecessor
<1>3. chord[task[n].peer].pred \in Node \cup {NoNode}
  BY <1>2 DEF SoundInv, ObjectInv, Chords
<1>4. TaskOK([task[n] EXCEPT !.phase = "consider", !.peer = chord[task[n].peer].pred])
  BY <1>2, <1>3, MovesOn
<1>5. TaskInv'
  BY <1>4, TaskStep DEF SoundInv, AskPredecessor
<1> QED
  BY <1>1, <1>5 DEF AskPredecessor, SoundInv, ObjectInv, Sound, MemberInv

\* chord_consider_predecessor, with an answer that may be old
LEMMA ConsiderStepSound == ASSUME SoundInv, NEW n \in Node, Consider(n) PROVE SoundInv'
<1> DEFINE c == IF task[n].peer = NoNode THEN chord[n] ELSE ConsiderPredecessor(chord[n], n, task[n].peer)
<1>1. TaskOK(task[n]) /\ Sound(n, chord[n]) /\ task[n].peer \in Node \cup {NoNode}
  BY DEF SoundInv, TaskInv, TaskOK, Task, ObjectInv
<1>2. Sound(n, c)
  BY <1>1, ConsiderSound
<1>3. c.succ \in Node
  BY <1>2 DEF Sound, Chords
<1>4. chord' = [chord EXCEPT ![n] = c] /\ SetTask(n, [task[n] EXCEPT !.phase = "notify", !.peer = c.succ])
  BY DEF Consider
<1> HIDE DEF c
<1>5. TaskOK([task[n] EXCEPT !.phase = "notify", !.peer = c.succ])
  BY <1>1, <1>3, MovesOn
<1>6. TaskInv'
  BY <1>4, <1>5, TaskStep DEF SoundInv
<1>7. ObjectInv'
  BY <1>2, <1>4, ObjectStep DEF SoundInv
<1> QED
  BY <1>6, <1>7 DEF Consider, SoundInv, MemberInv

\* chord_notify, at the successor
LEMMA NotifyStepSound == ASSUME SoundInv, NEW n \in Node, NotifySuccessor(n) PROVE SoundInv'
<1> DEFINE m == task[n].peer
<1>1. changes' \in Nat
  BY CallStep DEF NotifySuccessor
<1>2. TaskOK(task[n]) /\ m \in Node /\ task[n].finger \in Finger /\ n \in Id
  BY Circle DEF SoundInv, TaskInv, TaskOK, Task, NotifySuccessor
<1>3. Sound(m, chord[m])
  BY <1>2 DEF SoundInv, ObjectInv
<1>4. Sound(m, Notify(chord[m], m, n))
  BY <1>2, <1>3, NotifySound
<1>5. chord' = [chord EXCEPT ![m] = Notify(chord[m], m, n)]
  BY DEF NotifySuccessor
<1>6. ObjectInv'
  BY <1>2, <1>4, <1>5, ObjectStep DEF SoundInv
<1>7. TaskOK(Done(task[n])) /\ TaskOK(Lookup(task[n], AddPower(n, task[n].finger), n))
  BY <1>2, DoneOK, LookupOK, AddsPower
<1>8. TaskInv'
  BY <1>7, TaskStep DEF SoundInv, NotifySuccessor
<1> QED
  BY <1>1, <1>6, <1>8 DEF NotifySuccessor, SoundInv, MemberInv

\* A call of chord_network_maintain that fails
LEMMA CallFailsSound == ASSUME SoundInv, NEW n \in Node, CallFails(n) PROVE SoundInv'
<1>1. changes' \in Nat
  BY CallStep DEF CallFails
<1>2. TaskOK(task[n])
  BY DEF SoundInv, TaskInv
<1>3. TaskInv'
  BY <1>2, DoneOK, TaskStep DEF SoundInv, CallFails
<1> QED
  BY <1>1, <1>3 DEF CallFails, SoundInv, ObjectInv, Sound, MemberInv

\* The steps of find_from
LEMMA FindLoopsSound == ASSUME SoundInv, NEW n \in Node, FindLoops(n) PROVE SoundInv'
<1>1. TaskOK(task[n])
  BY DEF SoundInv, TaskInv
<1>2. TaskInv'
  BY <1>1, DoneOK, TaskStep DEF SoundInv, FindLoops
<1> QED
  BY <1>2 DEF FindLoops, SoundInv, ObjectInv, Sound, MemberInv

\* A lookup that goes on to a node, or ends with one, is a proper task.
LEMMA VisitOK ==
  ASSUME NEW t, TaskOK(t), NEW m \in Node, NEW p \in Node
  PROVE  LET e == [t EXCEPT !.visited = @ \cup {m}, !.peer = p] IN
         TaskOK(e) /\ TaskOK([e EXCEPT !.phase = "owner"])
<1> DEFINE e == [t EXCEPT !.visited = @ \cup {m}, !.peer = p]
           o == [e EXCEPT !.phase = "owner"]
<1>1. t \in Task
  BY DEF TaskOK
<1>2. e \in Task /\ e.peer = p
  BY <1>1, VisitIs
<1> HIDE DEF e
<1>3. o \in Task /\ o.peer = p
  BY <1>2 DEF Task
<1> HIDE DEF o
<1>4. TaskOK(e) /\ TaskOK(o)
  BY <1>2, <1>3 DEF TaskOK
<1> QED
  BY <1>4 DEF e, o

\* find_from: a node answers.
LEMMA FindHopSound == ASSUME SoundInv, NEW n \in Node, FindHop(n) PROVE SoundInv'
<1> DEFINE m == task[n].peer
           r == Route(chord[m], m, task[n].key)
           t == [task[n] EXCEPT !.visited = @ \cup {m}, !.peer = r.next]
<1>1. changes' \in Nat
  BY CallStep DEF FindHop
<1>2. TaskOK(task[n]) /\ m \in Node
  BY DEF SoundInv, TaskInv, TaskOK, FindHop
<1>3. chord[m] \in Chords
  BY <1>2 DEF SoundInv, ObjectInv
<1>4. r.next \in Node
  BY <1>2, <1>3, RouteNode
<1>5. TaskOK(t) /\ TaskOK([t EXCEPT !.phase = "owner"])
  BY <1>2, <1>4, VisitOK
<1>6. \/ SetTask(n, [t EXCEPT !.phase = "owner"])
      \/ SetTask(n, Failed(t))
      \/ SetTask(n, t)
  BY DEF FindHop
<1> HIDE DEF t
<1>7. TaskInv'
  BY <1>5, <1>6, DoneOK, TaskStep DEF SoundInv
<1> QED
  BY <1>1, <1>7 DEF FindHop, SoundInv, ObjectInv, Sound, MemberInv

\* find_from: a node does not answer, and another finger is tried.
LEMMA FindElsewhereSound == ASSUME SoundInv, NEW n \in Node, FindElsewhere(n) PROVE SoundInv'
<1> DEFINE m == task[n].peer
           t == [task[n] EXCEPT !.visited = @ \cup {m}]
           others == {i \in Finger : chord[n].finger[i] \notin t.visited \cup {n}}
           last == CHOOSE i \in others : \A j \in others : j <= i
           p == chord[n].finger[last]
           u == [t EXCEPT !.peer = p]
<1>1. changes' \in Nat
  BY CallStep DEF FindElsewhere
<1>2. TaskOK(task[n]) /\ m \in Node /\ task[n] \in Task
  BY DEF SoundInv, TaskInv, TaskOK, FindElsewhere
<1>3. others # {} => last \in Finger
  <2> HIDE DEF t
  <2> QED
    BY LastFinger
<1>4. others # {} => p \in Node
  <2>1. chord[n].finger \in [Finger -> Node]
    BY DEF SoundInv, ObjectInv, Chords
  <2> HIDE DEF last, others
  <2> QED
    BY <1>3, <2>1
<1>5. t \in Task /\ t.phase = task[n].phase /\ t.peer = m
  BY <1>2 DEF Task
<1>6. TaskOK(t)
  <2> HIDE DEF t, m
  <2> QED
    BY <1>2, <1>5 DEF TaskOK
<1>7. \/ SetTask(n, Failed(t))
      \/ others # {} /\ SetTask(n, u)
  BY DEF FindElsewhere
<1> HIDE DEF t, others, p, last
<1>8. others # {} => u \in Task /\ u.peer = p
  BY <1>4, <1>5 DEF Task
<1> HIDE DEF u
<1>9. others # {} => TaskOK(u)
  BY <1>4, <1>8 DEF TaskOK
<1>10. TaskInv'
  BY <1>6, <1>7, <1>9, DoneOK, TaskStep DEF SoundInv
<1> QED
  BY <1>1, <1>10 DEF FindElsewhere, SoundInv, ObjectInv, Sound, MemberInv

\* find_from: the owner does not answer.
LEMMA OwnerMissedSound == ASSUME SoundInv, NEW n \in Node, OwnerMissed(n) PROVE SoundInv'
<1> DEFINE e == [task[n] EXCEPT !.phase = "find"]
<1>1. changes' \in Nat
  BY CallStep DEF OwnerMissed
<1>2. task[n] \in Task /\ task[n].peer \in Node
  BY DEF SoundInv, TaskInv, TaskOK, OwnerMissed
<1>3. e \in Task /\ e.peer = task[n].peer
  BY <1>2 DEF Task
<1>4. SetTask(n, e)
  BY DEF OwnerMissed
<1> HIDE DEF e
<1>5. TaskOK(e)
  BY <1>2, <1>3 DEF TaskOK
<1>6. TaskInv'
  BY <1>4, <1>5, TaskStep DEF SoundInv
<1> QED
  BY <1>1, <1>6 DEF OwnerMissed, SoundInv, ObjectInv, Sound, MemberInv

\* The end of a lookup: chord_set_finger and chord_set_successor, with what was found
LEMMA SetFoundSound == ASSUME SoundInv, NEW n \in Node, SetFound(n) PROVE SoundInv'
<1> DEFINE t == task[n]
<1>1. changes' \in Nat
  BY CallStep DEF SetFound
<1>2. TaskOK(t) /\ t.peer \in Node /\ t.finger \in Finger /\ Sound(n, chord[n])
  BY DEF SoundInv, TaskInv, TaskOK, Task, ObjectInv, SetFound
<1>3. TaskInv'
  <2>1. SetTask(n, Done(t)) \/ SetTask(n, FirstTask) \/ SetTask(n, Joined)
    BY DEF SetFound
  <2> QED
    BY <1>2, <2>1, DoneOK, FirstOK, TaskStep DEF SoundInv
<1>4. Sound(n, SetFinger(chord[n], t.finger, t.peer)) /\ Sound(n, SetSuccessor(chord[n], t.peer))
  BY <1>2, SetFingerSound, SetSuccessorSound
<1>5. \/ chord' = [chord EXCEPT ![n] = SetFinger(chord[n], t.finger, t.peer)]
      \/ chord' = [chord EXCEPT ![n] = SetSuccessor(chord[n], t.peer)]
  BY DEF SetFound
<1>6. ObjectInv'
  BY <1>4, <1>5, ObjectStep DEF SoundInv
<1> QED
  BY <1>1, <1>3, <1>6 DEF SetFound, SoundInv, MemberInv

\* The table is written by the heartbeat threads; membership_failure also forgets.
LEMMA TableSound ==
  ASSUME SoundInv, NEW n \in Node, NEW m \in Node, Hear(n, m) \/ Suspect(n, m) \/ Fail(n, m) \/ Rumour(n, m)
  PROVE  SoundInv'
<1>1. MemberInv'
  <2>1. n # m /\ \E v \in {"alive", "suspect", "failed"} : member' = [member EXCEPT ![n][m] = v]
    BY DEF Hear, Suspect, Fail, Rumour
  <2>2. PICK v \in {"alive", "suspect", "failed"} : member' = [member EXCEPT ![n][m] = v]
    BY <2>1
  <2>3. v \in Members
    BY DEF Members
  <2> QED
    BY <2>1, <2>2, <2>3, MemberStep DEF SoundInv
<1>2. changes' \in Nat
  <2>1. UNCHANGED changes \/ Missed(m)
    BY DEF Hear, Suspect, Fail, Rumour
  <2> QED
    BY <2>1, CallStep DEF SoundInv
<1>3. ObjectInv'
  <2>1. CASE Fail(n, m)
    <3>1. Sound(n, chord[n]) /\ {m} \in SUBSET Node /\ n \notin {m}
      BY <2>1 DEF Fail, SoundInv, ObjectInv
    <3>2. Sound(n, Forget(chord[n], n, {m}))
      BY <3>1, ForgetSound
    <3>3. chord' = [chord EXCEPT ![n] = Forget(chord[n], n, {m})]
      BY <2>1 DEF Fail
    <3> QED
      BY <3>2, <3>3, ObjectStep DEF SoundInv
  <2>2. CASE UNCHANGED chord
    BY <2>2 DEF SoundInv, ObjectInv, Sound
  <2> QED
    BY <2>1, <2>2 DEF Hear, Suspect, Rumour
<1>4. UNCHANGED <<up, task>>
  BY DEF Hear, Suspect, Fail, Rumour
<1> QED
  BY <1>1, <1>2, <1>3, <1>4 DEF SoundInv, TaskInv, TaskOK

\* refresh_chord_membership
LEMMA RefreshSound == ASSUME SoundInv, NEW n \in Node, Refresh(n) PROVE SoundInv'
<1> DEFINE c == chord[n]
           refs == {c.succ, c.pred} \cup {c.finger[i] : i \in Finger}
           known == [m \in Node |-> IF m \in refs \ {n} /\ member[n][m] = "none" THEN "new" ELSE member[n][m]]
           alive == {m \in Node : known[m] = "alive"}
           failed == {m \in Node : known[m] = "failed"}
           allowed == Allow(Forget(c, n, failed), alive)
           repaired == IF alive # {} \/ (c.succ # n /\ known[c.succ] \in {"suspect", "failed"})
                       THEN Repair(allowed, n, alive) ELSE allowed
<1>1. Sound(n, c) /\ TaskOK(task[n]) /\ member[n] \in [Node -> Members] /\ member[n][n] = "none"
  BY DEF SoundInv, ObjectInv, TaskInv, MemberInv
<1>2. /\ SetTask(n, [task[n] EXCEPT !.phase = "idle"])
      /\ member' = [member EXCEPT ![n] = known]
      /\ chord' = [chord EXCEPT ![n] = repaired]
      /\ UNCHANGED <<up, changes>>
  BY DEF Refresh
<1> HIDE DEF c, refs
<1>3. known \in [Node -> Members] /\ known[n] = "none"
  <2>1. \A m \in Node : member[n][m] \in Members
    BY <1>1
  <2>2. "new" \in Members
    BY DEF Members
  <2> QED
    BY <1>1, <2>1, <2>2
<1> HIDE DEF known
<1>4. MemberInv'
  BY <1>2, <1>3, MembersStep DEF SoundInv
<1>5. failed \in SUBSET Node /\ n \notin failed /\ alive \in SUBSET Node
  BY <1>3
<1> HIDE DEF failed, alive
<1>6. Sound(n, allowed)
  BY <1>1, <1>5, ForgetSound, AllowSound
<1> HIDE DEF allowed
<1>7. Sound(n, repaired)
  BY <1>5, <1>6, RepairSound
<1> HIDE DEF repaired
<1>8. ObjectInv'
  BY <1>2, <1>7, ObjectStep DEF SoundInv
<1>9. TaskInv'
  <2>1. TaskOK([task[n] EXCEPT !.phase = "idle"])
    BY <1>1, MovesOn
  <2> QED
    BY <1>2, <2>1, TaskStep DEF SoundInv
<1> QED
  BY <1>2, <1>4, <1>8, <1>9 DEF SoundInv

\* A node stops: its Chord object is lost, its table is what the ledger has.
LEMMA CrashSound == ASSUME SoundInv, NEW n \in Node, Crash(n) PROVE SoundInv'
<1>1. changes' \in Nat
  BY SMTT(60) DEF SoundInv, Crash, Change
<1>2. up' \in [Node -> BOOLEAN]
  BY DEF SoundInv, Crash
<1>3. ObjectInv'
  BY AloneSound, ObjectStep DEF SoundInv, Crash
<1>4. TaskInv'
  BY FirstOK, TaskStep DEF SoundInv, Crash, SetTask
<1>5. MemberInv'
  <2> DEFINE r(lost) == [m \in Node |-> IF m \in lost THEN "none" ELSE IF member[n][m] = "alive" THEN "new" ELSE member[n][m]]
  <2>1. PICK lost \in SUBSET {m \in Node : member[n][m] = "new"} : member' = [member EXCEPT ![n] = r(lost)]
    BY DEF Crash
  <2>2. \A m \in Node : member[n][m] \in Members
    BY DEF SoundInv, MemberInv
  <2>3. "none" \in Members /\ "new" \in Members /\ member[n][n] = "none"
    BY DEF Members, SoundInv, MemberInv
  <2>4. r(lost) \in [Node -> Members] /\ r(lost)[n] = "none"
    BY <2>2, <2>3
  <2> HIDE DEF r
  <2> QED
    BY <2>1, <2>4, MembersStep DEF SoundInv
<1> QED
  BY <1>1, <1>2, <1>3, <1>4, <1>5 DEF SoundInv

\* A node starts, with chord_create.
LEMMA StartSound == ASSUME SoundInv, NEW n \in Node, Start(n) PROVE SoundInv'
<1>1. changes' \in Nat
  BY SMTT(60) DEF SoundInv, Start, Change
<1>2. up' \in [Node -> BOOLEAN]
  BY DEF SoundInv, Start
<1>3. TaskInv'
  BY FirstOK, TaskStep DEF SoundInv, Start, SetTask, Starting
<1> QED
  BY <1>1, <1>2, <1>3 DEF SoundInv, Start, ObjectInv, Sound, MemberInv

\* The ring of the beginning is sound.
LEMMA SoundInit == Init => SoundInv
<1> SUFFICES ASSUME Init PROVE SoundInv
  OBVIOUS
<1>1. PICK S \in SUBSET Node :
        /\ up = [n \in Node |-> n \in S]
        /\ chord = [n \in Node |-> IF n \in S THEN IdealRing(n, S) ELSE Alone(n)]
        /\ task = [n \in Node |-> IF n \in S THEN Joined ELSE [FirstTask EXCEPT !.phase = "down"]]
        /\ member = [n \in Node |-> [m \in Node |-> IF {n, m} \subseteq S /\ n # m THEN "alive" ELSE "none"]]
        /\ changes = 0
  BY DEF Init
<1>2. up \in [Node -> BOOLEAN]
  BY <1>1, SMTT(60)
<1>3. changes \in Nat
  BY <1>1, SMTT(60)
<1>4. ObjectInv
  <2>1. \A n \in Node : Sound(n, chord[n])
    BY <1>1, IdealSound, AloneSound
  <2>2. \A n \in Node : chord[n] \in Chords
    BY <2>1 DEF Sound
  <2> QED
    BY <1>1, <2>1, <2>2 DEF ObjectInv
<1>5. TaskInv
  <2>1. \A n \in Node : TaskOK(task[n])
    BY <1>1, FirstOK
  <2>2. \A n \in Node : task[n] \in Task
    BY <2>1 DEF TaskOK
  <2> QED
    BY <1>1, <2>1, <2>2 DEF TaskInv
<1>6. MemberInv
  <2>1. "alive" \in Members /\ "none" \in Members
    BY DEF Members
  <2>2. \A n \in Node : [m \in Node |-> IF {n, m} \subseteq S /\ n # m THEN "alive" ELSE "none"] \in [Node -> Members]
    BY <2>1
  <2>3. member \in [Node -> [Node -> Members]]
    BY <1>1, <2>2
  <2>4. \A n \in Node : member[n][n] = "none"
    BY <1>1
  <2> QED
    BY <2>3, <2>4 DEF MemberInv
<1> QED
  BY <1>2, <1>3, <1>4, <1>5, <1>6 DEF SoundInv

\* Every step of every thread keeps the Chord objects sound.
LEMMA SoundStep == SoundInv /\ [Next]_vars => SoundInv'
<1> SUFFICES ASSUME SoundInv, [Next]_vars PROVE SoundInv'
  OBVIOUS
<1>1. CASE UNCHANGED vars
  BY <1>1 DEF vars, SoundInv, ObjectInv, TaskInv, MemberInv, Sound, TaskOK
<1>2. ASSUME NEW n \in Node, MainStep(n)
      PROVE  SoundInv'
  BY <1>2, JoinSound, RefreshSound, StabilizeSound, AskPredecessorSound, ConsiderStepSound, NotifyStepSound,
     CallFailsSound, FindLoopsSound, FindHopSound, FindElsewhereSound, OwnerMissedSound, SetFoundSound DEF MainStep
<1> QED
  BY <1>1, <1>2, CrashSound, StartSound, TableSound DEF Next

----------------------------------------------------------------------------
(* A complete ring *)

\* The successor in a ring is a node of the ring, and another one unless there is none.
LEMMA InRing ==
  ASSUME NEW S \in SUBSET Node, NEW n \in S
  PROVE  After(n, S) \in S /\ (After(n, S) = n => S = {n})
<1>1. n \in Id /\ S \subseteq Id
  BY Circle
<1>2. CASE S \ {n} = {}
  <2>1. After(n, S) = n
    BY <1>1, <1>2, Nexts
  <2>2. S = {n}
    BY <1>2
  <2> QED
    BY <2>1, <2>2
<1>3. CASE S \ {n} # {}
  <2>1. After(n, S) \in S \ {n}
    BY <1>1, <1>3, Nexts
  <2> QED
    BY <2>1
<1> QED
  BY <1>2, <1>3

\* The references of a node in a complete ring: the successor, and no node unavailable ...
LEMMA Ideal ==
  ASSUME NEW S \in SUBSET Node, NEW n \in S
  PROVE  IdealRing(n, S) \in Chords /\ IdealRing(n, S).succ = After(n, S) /\ IdealRing(n, S).bad = {}
<1>1. IdealRing(n, S).succ = After(n, S) /\ IdealRing(n, S).bad = {}
  BY SMTT(60) DEF IdealRing
<1>2. IdealRing(n, S) \in Chords
  BY IdealSound DEF Sound
<1> QED
  BY <1>1, <1>2

\* ... the predecessor, which is none for a single node and the node before it otherwise ...
LEMMA IdealPredecessor ==
  ASSUME NEW S \in SUBSET Node, NEW n \in S
  PROVE  \/ S = {n} /\ IdealRing(n, S).pred = NoNode
         \/ S # {n} /\ IdealRing(n, S).pred \in S \ {n} /\ After(IdealRing(n, S).pred, S) = n
<1> DEFINE p == CHOOSE q \in S \ {n} : After(q, S) = n
<1>1. S # {n} => p \in S \ {n} /\ After(p, S) = n
  BY Circle, PredecessorExists
<1> HIDE DEF p
<1>2. IdealRing(n, S) = [succ |-> After(n, S), pred |-> IF S = {n} THEN NoNode ELSE p,
                         finger |-> [i \in Finger |-> From(AddPower(n, i), S)], bad |-> {}]
  BY DEF IdealRing, p
<1>3. IdealRing(n, S).pred = IF S = {n} THEN NoNode ELSE p
  BY <1>2, SMTT(60)
<1> QED
  BY <1>1, <1>3

\* ... and the fingers, the owners of the identifiers they start at.
LEMMA IdealFingers ==
  ASSUME NEW S \in SUBSET Node, NEW n \in S, NEW i \in Finger
  PROVE  IdealRing(n, S).finger[i] = From(AddPower(n, i), S) /\ From(AddPower(n, i), S) \in S
<1>1. n \in Id /\ S \subseteq Id /\ S # {}
  BY Circle
<1>2. From(AddPower(n, i), S) \in S
  BY <1>1, AddsPower, Nearest
<1>3. IdealRing(n, S).finger = [j \in Finger |-> From(AddPower(n, j), S)]
  BY SMTT(60) DEF IdealRing
<1> QED
  BY <1>2, <1>3

\* Setting the references to what they are changes nothing.
LEMMA SetSame ==
  ASSUME NEW c \in Chords
  PROVE  /\ c.succ = c.finger[0] => [c EXCEPT !.succ = c.succ, !.finger[0] = c.succ] = c
         /\ \A i \in Finger : [c EXCEPT !.finger[i] = c.finger[i]] = c
<1>1. c.finger \in [Finger -> Node] /\ 0 \in Finger
  BY Assumed DEF Chords
<1>2. \A i \in Finger : [c.finger EXCEPT ![i] = c.finger[i]] = c.finger
  BY <1>1
<1> DEFINE g == c.finger
<1>3. \A f : f = g => [c EXCEPT !.succ = c.succ, !.finger = f] = c
  BY DEF Chords
<1>4. \A f : f = g => [c EXCEPT !.finger = f] = c
  BY DEF Chords
<1> QED
  BY <1>1, <1>2, <1>3, <1>4

\* chord_consider_predecessor finds no nearer successor in a complete ring.
LEMMA ConsiderSame ==
  ASSUME NEW S \in SUBSET Node, NEW n \in S, NEW p \in S
  PROVE  ConsiderPredecessor(IdealRing(n, S), n, p) = IdealRing(n, S)
<1> DEFINE c == IdealRing(n, S)
<1>1. c.succ = After(n, S) /\ (After(n, S) = n => S = {n})
  BY Ideal, InRing
<1>2. n \in Id /\ S \subseteq Id
  BY Circle
<1>3. ASSUME p # n
      PROVE  ~OpenOpen(n, c.succ, p) /\ c.succ # n
  <2>1. ~OpenOpen(n, After(n, S), p)
    BY <1>2, <1>3, NoneNearer
  <2>2. S # {n}
    BY <1>3
  <2>3. c.succ # n
    BY <1>1, <2>2
  <2> HIDE DEF c
  <2> QED
    BY <1>1, <2>1, <2>3
<1> HIDE DEF c
<1>4. ConsiderPredecessor(c, n, p) = c
  BY <1>3 DEF ConsiderPredecessor
<1> QED
  BY <1>4 DEF c

\* chord_notify finds no nearer predecessor in a complete ring.
LEMMA NotifySame ==
  ASSUME NEW S \in SUBSET Node, NEW m \in S, NEW n \in S
  PROVE  Notify(IdealRing(m, S), m, n) = IdealRing(m, S)
<1> DEFINE c == IdealRing(m, S)
<1>1. S # {m} => c.pred \in S /\ c.pred # m /\ After(c.pred, S) = m
  BY IdealPredecessor
<1>2. ASSUME n # m
      PROVE  ~(c.pred = NoNode \/ OpenOpen(c.pred, m, n))
  <2>1. c.pred \in S /\ c.pred # m /\ After(c.pred, S) = m
    BY <1>1, <1>2
  <2>2. c.pred \in Id /\ S \subseteq Id /\ n \in Id /\ m \in Id
    BY <2>1, Circle
  <2>3. c.pred # NoNode
    BY <2>1, Assumed
  <2> DEFINE p == c.pred
  <2>4. p # n => ~OpenOpen(p, m, n)
    BY <2>1, <2>2, NoneNearer
  <2> HIDE DEF p
  <2>5. p = n => ~OpenOpen(p, m, n)
    <3>1. m \in Nat /\ n \in Nat
      BY <2>2, Circle
    <3> QED
      BY <1>2, <3>1, SMTT(60) DEF OpenOpen
  <2> QED
    BY <2>3, <2>4, <2>5 DEF p
<1> HIDE DEF c
<1>3. Notify(c, m, n) = c
  BY <1>2 DEF Notify
<1> QED
  BY <1>3 DEF c

\* chord_set_finger with the owner of a finger's start changes nothing.
LEMMA FoundSame ==
  ASSUME NEW S \in SUBSET Node, NEW n \in S, NEW i \in Finger
  PROVE  SetFinger(IdealRing(n, S), i, From(AddPower(n, i), S)) = IdealRing(n, S)
<1> DEFINE c == IdealRing(n, S)
           x == From(AddPower(n, i), S)
<1>1. c \in Chords /\ c.succ = After(n, S) /\ c.bad = {} /\ \A j \in Finger : c.finger[j] = From(AddPower(n, j), S)
  <2>1. c \in Chords /\ c.succ = After(n, S) /\ c.bad = {}
    BY Ideal
  <2>2. \A j \in Finger : c.finger[j] = From(AddPower(n, j), S)
    BY IdealFingers
  <2> QED
    BY <2>1, <2>2
<1>2. n \in Id /\ S \subseteq Id /\ 0 \in Finger
  BY Circle, Assumed
<1>3. c.succ = c.finger[0] /\ c.finger[i] = x
  BY <1>1, <1>2, FirstFinger
<1> HIDE DEF c, x
<1>4. i = 0 => [c EXCEPT !.succ = x, !.finger[0] = x] = c
  BY <1>1, <1>3, SetSame
<1>5. [c EXCEPT !.finger[i] = x] = c
  BY <1>1, <1>3, SetSame
<1>6. SetFinger(c, i, x) = c
  BY <1>1, <1>4, <1>5 DEF SetFinger, SetSuccessor
<1> QED
  BY <1>6 DEF c, x

\* chord_repair chooses the successor that the ring has, when all its nodes are ALIVE.
LEMMA RepairSame ==
  ASSUME NEW S \in SUBSET Node, NEW n \in S
  PROVE  Repair(IdealRing(n, S), n, S \ {n}) = IdealRing(n, S)
<1> DEFINE c == IdealRing(n, S)
<1>1. c \in Chords /\ c.succ = After(n, S) /\ c.bad = {} /\ \A j \in Finger : c.finger[j] = From(AddPower(n, j), S)
  <2>1. c \in Chords /\ c.succ = After(n, S) /\ c.bad = {}
    BY Ideal
  <2>2. \A j \in Finger : c.finger[j] = From(AddPower(n, j), S)
    BY IdealFingers
  <2> QED
    BY <2>1, <2>2
<1>2. n \in Id /\ S \subseteq Id /\ 0 \in Finger
  BY Circle, Assumed
<1>3. c.succ = c.finger[0]
  BY <1>1, <1>2, FirstFinger
<1>4. (S \ {n}) \ c.bad = S \ {n} /\ (S \ {n}) \ {n} = S \ {n}
  BY <1>1
<1>5. After(n, (S \ {n}) \ c.bad) = c.succ
  BY <1>1, <1>4 DEF After
<1> HIDE DEF c
<1>6. Repair(c, n, S \ {n}) = c
  BY <1>1, <1>3, <1>5, SetSame DEF Repair
<1> QED
  BY <1>6 DEF c

\* Nothing is forgotten, and nothing was unavailable: chord_forget and chord_allow change
\* nothing.
LEMMA ForgetNone ==
  ASSUME NEW c \in Chords, NEW n, c.bad = {}, NEW S
  PROVE  Allow(Forget(c, n, {}), S) = c
<1>1. c.finger \in [Finger -> Node] /\ c = [succ |-> c.succ, pred |-> c.pred, finger |-> c.finger, bad |-> c.bad]
  BY DEF Chords
<1>2. [i \in Finger |-> c.finger[i]] = c.finger
  BY <1>1
<1>3. Forget(c, n, {}) = [succ |-> c.succ, pred |-> c.pred, finger |-> [i \in Finger |-> c.finger[i]], bad |-> {}]
  BY DEF Forget
<1>4. Forget(c, n, {}) = c
  BY <1>1, <1>2, <1>3
<1>5. [c EXCEPT !.bad = {}] = c /\ c.bad \ S = {}
  BY DEF Chords
<1> QED
  BY <1>4, <1>5 DEF Allow

\* The distance of any two nodes to a key differs by less than the circle.
LEMMA BetweenInt ==
  ASSUME NEW m \in Id, NEW p \in Id, NEW key \in Id
  PROVE  Between(m, key) \in Int /\ Between(m, key) - Between(p, key) < 2^Bits
<1>1. /\ Between(m, key) = IF m < key THEN key - m - 1 ELSE key - m - 1 + 2^Bits
      /\ Between(p, key) = IF p < key THEN key - p - 1 ELSE key - p - 1 + 2^Bits
  BY Betweens
<1>2. 2^Bits \in Nat /\ m \in Nat /\ m < 2^Bits /\ p \in Nat /\ p < 2^Bits /\ key \in Nat /\ key < 2^Bits
  BY Circle
<1> QED
  BY <1>1, <1>2, SMTT(60)

\* After chord_network_maintain a task waits for the next one.
LEMMA QuietDone ==
  ASSUME NEW S, NEW n, NEW t \in Task, t.joined
  PROVE  QuietTask(n, Done(t), S)
<1>1. Done(t).joined /\ Done(t).phase \in {"refresh", "idle"}
  BY DoneIs
<1> DEFINE ph == Done(t).phase
<1>2. /\ ph \in {"refresh", "idle", "pred", "consider", "notify", "find", "owner"}
      /\ ph \notin {"pred", "notify"} /\ ph # "consider" /\ ph \notin {"find", "owner"}
      /\ ph # "find" /\ ph # "owner"
  BY <1>1
<1> HIDE DEF ph
<1> QED
  BY <1>1, <1>2 DEF QuietTask, ph

\* A lookup begins.
LEMMA QuietLookup ==
  ASSUME NEW S \in SUBSET Node, NEW n \in S, NEW t \in Task, t.joined
  PROVE  QuietTask(n, Lookup(t, AddPower(n, t.finger), n), S)
<1> DEFINE key == AddPower(n, t.finger)
           d == Lookup(t, key, n)
<1>1. n \in Id /\ S \subseteq Id /\ t.finger \in Finger
  BY Circle DEF Task
<1>2. key \in Id
  BY <1>1, AddsPower
<1>3. d.phase = "find" /\ d.peer = n /\ d.key = key /\ d.visited = {} /\ d.finger = t.finger /\ d.joined
  BY <1>2, LookupIs, SMTT(60)
<1> HIDE DEF d, key
<1>4. IsFiniteSet({}) /\ Cardinality({}) = 0 /\ 0 <= Bits /\ Bits - 0 = Bits
  <2>1. IsFiniteSet({}) /\ Cardinality({}) = 0
    BY FS_EmptySet
  <2>2. 0 <= Bits /\ Bits - 0 = Bits
    BY Assumed, SMTT(60)
  <2> QED
    BY <2>1, <2>2
<1>5. \A p \in S : Between(n, key) - Between(p, key) < 2^Bits
  BY <1>1, <1>2, BetweenInt
<1>6. Nears(d, S)
  BY <1>3, <1>4, <1>5 DEF Nears
<1>7. QuietTask(n, d, S)
  BY <1>3, <1>6 DEF QuietTask, key
<1> QED
  BY <1>7 DEF d, key

\* A lookup goes on: it has the owner, or another node that is nearer.
LEMMA QuietHop ==
  ASSUME NEW S \in SUBSET Node, NEW n \in S, NEW t \in Task, QuietTask(n, t, S), t.phase = "find",
         NEW r, r = Route(IdealRing(t.peer, S), t.peer, t.key)
  PROVE  LET e == [t EXCEPT !.visited = @ \cup {t.peer}, !.peer = r.next] IN
         \/ r.complete /\ QuietTask(n, [e EXCEPT !.phase = "owner"], S)
         \/ ~r.complete /\ r.next # t.peer /\ QuietTask(n, e, S)
<1> DEFINE m == t.peer
           key == t.key
           e == [t EXCEPT !.visited = @ \cup {m}, !.peer = r.next]
           o == [e EXCEPT !.phase = "owner"]
           f(i) == From(AddPower(m, i), S)
<1>1. t.joined /\ m \in S /\ Nears(t, S) /\ key = AddPower(n, t.finger)
  BY DEF QuietTask
<1>2. key \in Id /\ m \in Id /\ S \subseteq Id /\ m \in Node
  BY <1>1, Circle DEF Task
<1>3. \/ r.complete /\ r.next = From(key, S)
      \/ /\ ~r.complete /\ key # m /\ After(m, S) # m /\ ~OpenClosed(m, After(m, S), key)
         /\ \E i \in Preceding(m, key, S) : r.next = f(i) /\ \A j \in Preceding(m, key, S) : j <= i
  BY <1>1, <1>2, RouteInRing
<1>4. r.next \in Node
  <2>1. From(key, S) \in S
    BY <1>1, <1>2, Nearest
  <2>2. key # m => \A i \in Preceding(m, key, S) : f(i) \in S
    BY <1>1, <1>2, FingerNears
  <2> QED
    BY <1>3, <2>1, <2>2
<1>5. /\ e \in Task /\ e.phase = "find" /\ e.peer = r.next /\ e.visited = t.visited \cup {m}
      /\ e.key = key /\ e.finger = t.finger /\ e.joined
  <2>1. /\ e \in Task /\ e.phase = t.phase /\ e.peer = r.next /\ e.visited = t.visited \cup {m}
        /\ e.key = t.key /\ e.finger = t.finger /\ e.joined = t.joined
    BY <1>2, <1>4 DEF Task
  <2> QED
    BY <1>1, <2>1
<1> HIDE DEF e
<1>6. o.phase = "owner" /\ o.peer = r.next /\ o.key = key /\ o.finger = t.finger /\ o.joined
  BY <1>5 DEF Task
<1> HIDE DEF o
<1>7. CASE r.complete /\ r.next = From(key, S)
  <2>1. QuietTask(n, o, S)
    BY <1>1, <1>6, <1>7 DEF QuietTask
  <2> QED
    BY <1>7, <2>1 DEF e, o
<1>8. CASE /\ ~r.complete /\ key # m /\ After(m, S) # m /\ ~OpenClosed(m, After(m, S), key)
           /\ \E i \in Preceding(m, key, S) : r.next = f(i) /\ \A j \in Preceding(m, key, S) : j <= i
  <2>1. PICK i \in Preceding(m, key, S) : r.next = f(i) /\ \A j \in Preceding(m, key, S) : j <= i
    BY <1>8
  <2>2. r.next \in S /\ r.next # m /\ Between(r.next, key) < Between(m, key)
    BY <1>1, <1>2, <1>8, <2>1, FingerNears
  <2> DEFINE V == t.visited
             k == Bits - Cardinality(V)
  <2>3. /\ V \subseteq S /\ IsFiniteSet(V) /\ Cardinality(V) <= Bits
        /\ \A v \in V : Between(m, key) < Between(v, key)
        /\ \A p \in S : Between(m, key) - Between(p, key) < 2^k
    BY <1>1 DEF Nears
  <2>4. Cardinality(V) \in Nat /\ Bits \in Nat
    BY <2>3, FS_CardinalityType, Assumed
  <2>5. k \in 0 .. Bits
    BY <2>3, <2>4, SMTT(60)
  <2>6. k # 0 /\ \A p \in S : Between(f(i), key) - Between(p, key) < 2^(k - 1)
    <3> HIDE DEF k
    <3> QED
      BY <1>1, <1>2, <1>8, <2>1, <2>3, <2>5, Halves
  <2>7. \A p \in S : Between(p, key) \in Int
    BY <1>2, BetweenInt
  <2>8. m \notin V
    <3>1. Between(m, key) \in Int
      BY <1>1, <2>7
    <3>2. ~(Between(m, key) < Between(m, key))
      BY <3>1, SMTT(60)
    <3> QED
      BY <2>3, <3>2
  <2> DEFINE W == V \cup {m}
  <2>9. IsFiniteSet(W) /\ Cardinality(W) = Cardinality(V) + 1
    BY <2>3, <2>8, FS_AddElement
  <2>10. Cardinality(W) <= Bits /\ Bits - Cardinality(W) = k - 1
    BY <2>4, <2>5, <2>6, <2>9, SMTT(60)
  <2>11. \A v \in W : Between(r.next, key) < Between(v, key)
    <3> TAKE v \in W
    <3>1. CASE v = m
      BY <2>2, <3>1
    <3>2. CASE v \in V
      <4>1. Between(m, key) < Between(v, key) /\ v \in S
        BY <2>3, <3>2
      <4>2. Between(m, key) \in Int /\ Between(v, key) \in Int /\ Between(r.next, key) \in Int
        BY <1>1, <2>2, <2>7, <4>1
      <4> QED
        BY <2>2, <4>1, <4>2, SMTT(60)
    <3> QED
      BY <3>1, <3>2
  <2>12. W \subseteq S
    BY <1>1, <2>3
  <2>13. \A p \in S : Between(r.next, key) - Between(p, key) < 2^(Bits - Cardinality(W))
    BY <2>1, <2>6, <2>10
  <2> HIDE DEF k, V, W
  <2>14. e.visited = W
    BY <1>5 DEF V, W
  <2>15. Nears(e, S)
    BY <1>5, <2>9, <2>10, <2>11, <2>12, <2>13, <2>14 DEF Nears
  <2>16. QuietTask(n, e, S)
    BY <1>1, <1>5, <2>2, <2>15 DEF QuietTask
  <2> QED
    BY <1>8, <2>2, <2>16 DEF e, o
<1> QED
  BY <1>3, <1>7, <1>8

\* As long as nothing changes, the nodes of a complete ring reach each other.
LEMMA QuietCall ==
  ASSUME NEW S, Quiet(S), changes = 0, changes' = 0, NEW m, Missed(m)
  PROVE  m \notin S
<1>1. ~Change
  BY SMTT(60) DEF Change
<1> QED
  BY <1>1 DEF Missed, Quiet

\* In a complete ring, a main thread that does anything is that of a node of the ring.
LEMMA QuietMain ==
  ASSUME SoundInv, NEW S, Quiet(S), NEW n \in Node, task[n].phase # "down"
  PROVE  /\ S \in SUBSET Node /\ n \in S /\ up[n] /\ chord[n] = IdealRing(n, S)
         /\ task[n] \in Task /\ QuietTask(n, task[n], S) /\ task[n].joined
BY DEF Quiet, QuietTask, SoundInv, TaskInv

\* What a step of the main thread of n does to a complete ring: only its task changes.
QuietChange(n, e, S) == SetTask(n, e) /\ QuietTask(n, e, S) /\ chord' = chord /\ member' = member

\* A step that sets the Chord object of m to what it is changes nothing.
LEMMA SameObject ==
  ASSUME SoundInv, NEW m \in Node, chord' = [chord EXCEPT ![m] = chord[m]]
  PROVE  chord' = chord
<1>1. chord \in [Node -> Chords]
  BY DEF SoundInv, ObjectInv
<1> QED
  BY <1>1

\* chord_network_maintain begins, in a complete ring.
LEMMA QuietStabilize ==
  ASSUME SoundInv, NEW S, Quiet(S), NEW n \in Node, Stabilize(n)
  PROVE  \E e : QuietChange(n, e, S)
<1>1. task[n].phase # "down"
  BY DEF Stabilize
<1>2. /\ S \in SUBSET Node /\ n \in S /\ chord[n] = IdealRing(n, S) /\ task[n] \in Task
      /\ QuietTask(n, task[n], S) /\ task[n].joined
  BY <1>1, QuietMain
<1>3. chord[n].succ = After(n, S)
  BY <1>2, Ideal
<1>4. CASE chord[n].succ # n
  <2> DEFINE e == [task[n] EXCEPT !.phase = "pred", !.peer = chord[n].succ]
  <2>1. SetTask(n, e) /\ chord' = chord /\ member' = member
    BY <1>4 DEF Stabilize
  <2>2. e.phase = "pred" /\ e.peer = chord[n].succ /\ e.joined = task[n].joined
    BY <1>2 DEF Task
  <2> HIDE DEF e
  <2>3. QuietTask(n, e, S)
    BY <1>2, <1>3, <2>2 DEF QuietTask
  <2> QED
    BY <2>1, <2>3 DEF QuietChange
<1>5. CASE chord[n].succ = n
  <2>1. chord[n].pred = NoNode
    <3>1. S = {n}
      BY <1>2, <1>3, <1>5, InRing
    <3> QED
      BY <1>2, <3>1, IdealPredecessor
  <2>2. chord' = [chord EXCEPT ![n] = chord[n]]
    BY <1>5, <2>1 DEF Stabilize
  <2>3. chord' = chord
    BY <2>2, SameObject
  <2>4. SetTask(n, Lookup(task[n], AddPower(n, task[n].finger), n)) /\ member' = member
    BY <1>5 DEF Stabilize
  <2>5. QuietTask(n, Lookup(task[n], AddPower(n, task[n].finger), n), S)
    BY <1>2, QuietLookup
  <2> QED
    BY <2>3, <2>4, <2>5 DEF QuietChange
<1> QED
  BY <1>4, <1>5

\* The successor of a node in a complete ring answers with a node of the ring.
LEMMA QuietAsk ==
  ASSUME SoundInv, NEW S, Quiet(S), NEW n \in Node, AskPredecessor(n)
  PROVE  \E e : QuietChange(n, e, S)
<1> DEFINE m == task[n].peer
           e == [task[n] EXCEPT !.phase = "consider", !.peer = chord[m].pred]
<1>1. task[n].phase = "pred"
  BY DEF AskPredecessor
<1>2. S \in SUBSET Node /\ n \in S /\ task[n] \in Task /\ QuietTask(n, task[n], S) /\ task[n].joined
  BY <1>1, QuietMain
<1>3. m = After(n, S)
  BY <1>1, <1>2 DEF QuietTask
<1>4. m \in S
  BY <1>2, <1>3, InRing
<1>5. chord[m] = IdealRing(m, S)
  BY <1>4 DEF Quiet
<1>6. chord[m].pred \in S \cup {NoNode}
  <2>1. IdealRing(m, S).pred \in S \cup {NoNode}
    <3> HIDE DEF m
    <3> QED
      BY <1>2, <1>4, IdealPredecessor
  <2> QED
    BY <1>5, <2>1
<1>7. SetTask(n, e) /\ chord' = chord /\ member' = member
  BY DEF AskPredecessor
<1>8. e.phase = "consider" /\ e.peer = chord[m].pred /\ e.joined = task[n].joined
  BY <1>2 DEF Task
<1> HIDE DEF e
<1>9. QuietTask(n, e, S)
  BY <1>2, <1>6, <1>8 DEF QuietTask
<1> QED
  BY <1>7, <1>9 DEF QuietChange

\* The answer does not change the successor.
LEMMA QuietConsider ==
  ASSUME SoundInv, NEW S, Quiet(S), NEW n \in Node, Consider(n)
  PROVE  \E e : QuietChange(n, e, S)
<1> DEFINE c == IF task[n].peer = NoNode THEN chord[n] ELSE ConsiderPredecessor(chord[n], n, task[n].peer)
           e == [task[n] EXCEPT !.phase = "notify", !.peer = c.succ]
<1>1. task[n].phase = "consider"
  BY DEF Consider
<1>2. /\ S \in SUBSET Node /\ n \in S /\ chord[n] = IdealRing(n, S) /\ task[n] \in Task
      /\ QuietTask(n, task[n], S) /\ task[n].joined
  BY <1>1, QuietMain
<1>3. task[n].peer \in S \cup {NoNode}
  BY <1>1, <1>2 DEF QuietTask
<1>4. c = chord[n]
  BY <1>2, <1>3, ConsiderSame
<1>5. SetTask(n, e) /\ chord' = [chord EXCEPT ![n] = c] /\ member' = member
  BY DEF Consider
<1> HIDE DEF c
<1>6. chord' = chord
  BY <1>4, <1>5, SameObject
<1>7. c.succ = After(n, S)
  BY <1>2, <1>4, Ideal
<1>8. e.phase = "notify" /\ e.peer = c.succ /\ e.joined = task[n].joined
  BY <1>2 DEF Task
<1> HIDE DEF e
<1>9. QuietTask(n, e, S)
  BY <1>2, <1>7, <1>8 DEF QuietTask
<1> QED
  BY <1>5, <1>6, <1>9 DEF QuietChange

\* chord_notify at the successor does not change its predecessor.
LEMMA QuietNotify ==
  ASSUME SoundInv, NEW S, Quiet(S), NEW n \in Node, NotifySuccessor(n)
  PROVE  \E e : QuietChange(n, e, S)
<1> DEFINE m == task[n].peer
<1>1. task[n].phase = "notify"
  BY DEF NotifySuccessor
<1>2. S \in SUBSET Node /\ n \in S /\ task[n] \in Task /\ QuietTask(n, task[n], S) /\ task[n].joined
  BY <1>1, QuietMain
<1>3. m = After(n, S)
  BY <1>1, <1>2 DEF QuietTask
<1>4. m \in S /\ m \in Node
  BY <1>2, <1>3, InRing
<1>5. chord[m] = IdealRing(m, S)
  BY <1>4 DEF Quiet
<1>6. chord[m].bad = {}
  BY <1>2, <1>4, <1>5, Ideal
<1>7. Notify(chord[m], m, n) = chord[m]
  BY <1>2, <1>4, <1>5, NotifySame
<1>8. chord' = [chord EXCEPT ![m] = Notify(chord[m], m, n)] /\ member' = member
  BY DEF NotifySuccessor
<1>9. chord' = chord
  BY <1>4, <1>7, <1>8, SameObject
<1>10. SetTask(n, Lookup(task[n], AddPower(n, task[n].finger), n))
  BY <1>6 DEF NotifySuccessor
<1>11. QuietTask(n, Lookup(task[n], AddPower(n, task[n].finger), n), S)
  BY <1>2, QuietLookup
<1> QED
  BY <1>8, <1>9, <1>10, <1>11 DEF QuietChange

\* No lookup in a complete ring comes to a node again, or to the limit on hops.
LEMMA QuietLoops ==
  ASSUME SoundInv, NEW S, Quiet(S), NEW n \in Node, task[n].phase = "find"
  PROVE  ~Loops(task[n])
<1> DEFINE t == task[n]
<1>1. S \in SUBSET Node /\ t \in Task /\ QuietTask(n, t, S)
  BY QuietMain
<1>2. t.peer \in S /\ Nears(t, S) /\ t.key \in Id
  BY <1>1 DEF QuietTask, Task
<1>3. t.peer \in Id
  BY <1>1, <1>2, Circle
<1>4. Between(t.peer, t.key) \in Int
  BY <1>2, <1>3, BetweenInt
<1>5. ~(Between(t.peer, t.key) < Between(t.peer, t.key))
  BY <1>4, SMTT(60)
<1>6. t.peer \notin t.visited
  BY <1>2, <1>5 DEF Nears
<1>7. IsFiniteSet(t.visited) /\ Cardinality(t.visited) <= Bits
  BY <1>2 DEF Nears
<1>8. Cardinality(t.visited) \in Nat /\ Bits \in Nat
  BY <1>7, FS_CardinalityType, Assumed
<1>9. ~(Cardinality(t.visited) > Bits)
  BY <1>7, <1>8, SMTT(60)
<1> QED
  BY <1>6, <1>9 DEF Loops

\* A hop of find_from in a complete ring goes on or has the owner; it never gives up.
LEMMA QuietFindHop ==
  ASSUME SoundInv, NEW S, Quiet(S), NEW n \in Node, FindHop(n)
  PROVE  \E e : QuietChange(n, e, S)
<1> DEFINE m == task[n].peer
           r == Route(chord[m], m, task[n].key)
           t == [task[n] EXCEPT !.visited = @ \cup {m}, !.peer = r.next]
           o == [t EXCEPT !.phase = "owner"]
<1>1. task[n].phase = "find"
  BY DEF FindHop
<1>2. S \in SUBSET Node /\ n \in S /\ task[n] \in Task /\ QuietTask(n, task[n], S)
  BY <1>1, QuietMain
<1>3. m \in S
  BY <1>1, <1>2 DEF QuietTask
<1>4. chord[m] = IdealRing(m, S)
  BY <1>3 DEF Quiet
<1>5. \/ r.complete /\ QuietTask(n, o, S)
      \/ ~r.complete /\ r.next # m /\ QuietTask(n, t, S)
  <2>1. r = Route(IdealRing(m, S), m, task[n].key)
    BY <1>4
  <2> HIDE DEF r
  <2> QED
    BY <1>1, <1>2, <2>1, QuietHop
<1>6. /\ SetTask(n, IF r.complete THEN o ELSE IF r.next = m THEN Failed(t) ELSE t)
      /\ chord' = chord /\ member' = member
  BY DEF FindHop
<1> HIDE DEF r, t, o, m
<1> QED
  BY <1>5, <1>6 DEF QuietChange

\* The owner that was found is the finger already.
LEMMA QuietFound ==
  ASSUME SoundInv, NEW S, Quiet(S), NEW n \in Node, SetFound(n)
  PROVE  \E e : QuietChange(n, e, S)
<1> DEFINE t == task[n]
<1>1. t.phase = "owner"
  BY DEF SetFound
<1>2. S \in SUBSET Node /\ n \in S /\ chord[n] = IdealRing(n, S) /\ t \in Task /\ QuietTask(n, t, S) /\ t.joined
  BY <1>1, QuietMain
<1>3. t.peer = From(AddPower(n, t.finger), S) /\ t.finger \in Finger
  BY <1>1, <1>2 DEF QuietTask, Task
<1>4. SetFinger(chord[n], t.finger, t.peer) = chord[n]
  BY <1>2, <1>3, FoundSame
<1>5. chord' = [chord EXCEPT ![n] = SetFinger(chord[n], t.finger, t.peer)] /\ SetTask(n, Done(t)) /\ member' = member
  BY <1>2 DEF SetFound
<1>6. chord' = chord
  BY <1>4, <1>5, SameObject
<1>7. QuietTask(n, Done(t), S)
  BY <1>2, QuietDone
<1> QED
  BY <1>5, <1>6, <1>7 DEF QuietChange

\* refresh_chord_membership in a complete ring, all of whose nodes are ALIVE, changes
\* neither the table nor the references.
LEMMA QuietRefresh ==
  ASSUME SoundInv, NEW S, Quiet(S), NEW n \in Node, Refresh(n)
  PROVE  \E e : QuietChange(n, e, S)
<1> DEFINE c == chord[n]
           refs == {c.succ, c.pred} \cup {c.finger[i] : i \in Finger}
           known == [m \in Node |-> IF m \in refs \ {n} /\ member[n][m] = "none" THEN "new" ELSE member[n][m]]
           alive == {m \in Node : known[m] = "alive"}
           failed == {m \in Node : known[m] = "failed"}
           allowed == Allow(Forget(c, n, failed), alive)
           mends == alive # {} \/ (c.succ # n /\ known[c.succ] \in {"suspect", "failed"})
           repaired == IF mends THEN Repair(allowed, n, alive) ELSE allowed
           e == [task[n] EXCEPT !.phase = "idle"]
<1>1. task[n].phase = "refresh"
  BY DEF Refresh
<1>2. S \in SUBSET Node /\ n \in S /\ c = IdealRing(n, S) /\ task[n] \in Task /\ QuietTask(n, task[n], S) /\ task[n].joined
  BY <1>1, QuietMain
<1>3. /\ SetTask(n, e) /\ member' = [member EXCEPT ![n] = known] /\ chord' = [chord EXCEPT ![n] = repaired]
  BY DEF Refresh
<1>4. \A m \in Node : member[n][m] = IF m \in S \ {n} THEN "alive" ELSE "none"
  BY <1>2 DEF Quiet
<1>5. \A m \in Node : m \in refs => m \in S
  <2>1. c.succ \in S
    <3>1. c.succ = After(n, S)
      BY <1>2, Ideal
    <3> QED
      BY <1>2, <3>1, InRing
  <2>2. c.pred \in S \cup {NoNode}
    <3>1. IdealRing(n, S).pred \in S \cup {NoNode}
      BY <1>2, IdealPredecessor
    <3> QED
      BY <1>2, <3>1
  <2>3. \A i \in Finger : c.finger[i] \in S
    <3>1. \A i \in Finger : IdealRing(n, S).finger[i] \in S
      BY <1>2, IdealFingers
    <3> QED
      BY <1>2, <3>1
  <2> HIDE DEF c
  <2> QED
    BY <2>1, <2>2, <2>3, Assumed
<1> HIDE DEF refs
<1>6. member \in [Node -> [Node -> Members]] /\ member[n] \in [Node -> Members]
  BY DEF SoundInv, MemberInv
<1>7. \A m \in Node : known[m] = member[n][m]
  <2>1. "alive" # "none"
    OBVIOUS
  <2> QED
    BY <1>4, <1>5, <2>1
<1>8. known = member[n]
  BY <1>6, <1>7
<1> HIDE DEF known
<1>9. member' = member
  BY <1>3, <1>6, <1>8
<1>10. alive = S \ {n} /\ failed = {}
  BY <1>2, <1>4, <1>7
<1>11. allowed = c
  <2>1. c \in Chords /\ c.bad = {}
    BY <1>2, Ideal
  <2> HIDE DEF c, alive
  <2> QED
    BY <1>10, <2>1, ForgetNone
<1> HIDE DEF mends, allowed, alive
<1>12. repaired = c
  BY <1>2, <1>10, <1>11, RepairSame
<1> HIDE DEF repaired
<1>13. chord' = chord
  BY <1>3, <1>12, SameObject
<1>14. e.phase = "idle" /\ e.joined = task[n].joined
  BY <1>2 DEF Task
<1> HIDE DEF e
<1>15. QuietTask(n, e, S)
  BY <1>2, <1>14 DEF QuietTask
<1> QED
  BY <1>3, <1>9, <1>13, <1>15 DEF QuietChange

\* No other step happens to a complete ring without a change.
LEMMA QuietOther ==
  ASSUME SoundInv, NEW S, Quiet(S), changes = 0, changes' = 0, NEW n \in Node
  PROVE  /\ ~Join(n) /\ ~CallFails(n) /\ ~FindLoops(n) /\ ~FindElsewhere(n) /\ ~OwnerMissed(n)
         /\ ~Crash(n) /\ ~Start(n)
         /\ \A m \in Node : ~Hear(n, m) /\ ~Suspect(n, m) /\ ~Fail(n, m) /\ ~Rumour(n, m)
<1>1. ~Change
  BY SMTT(60) DEF Change
<1>2. ~Crash(n) /\ ~Start(n)
  BY <1>1 DEF Crash, Start
<1>3. S \in SUBSET Node
  BY DEF Quiet
<1>4. ~Join(n)
  <2>1. task[n].phase # "join"
    <3>1. CASE n \in S
      BY <3>1 DEF Quiet, QuietTask
    <3>2. CASE n \notin S
      BY <3>2 DEF Quiet
    <3> QED
      BY <3>1, <3>2
  <2> QED
    BY <2>1 DEF Join
<1>5. ASSUME task[n].phase \in {"pred", "notify", "find", "owner"}
      PROVE  task[n].peer \in S
  <2>1. task[n].phase # "down"
    BY <1>5
  <2>2. n \in S /\ task[n] \in Task /\ QuietTask(n, task[n], S)
    BY <2>1, QuietMain
  <2>3. CASE task[n].phase \in {"pred", "notify"}
    <3>1. task[n].peer = After(n, S)
      BY <2>2, <2>3 DEF QuietTask
    <3>2. After(n, S) \in S
      BY <1>3, <2>2, InRing
    <3> QED
      BY <3>1, <3>2
  <2>4. CASE task[n].phase = "find"
    BY <2>2, <2>4 DEF QuietTask
  <2>5. CASE task[n].phase = "owner"
    <3>1. task[n].peer = From(task[n].key, S) /\ task[n].key \in Id
      BY <2>2, <2>5 DEF QuietTask, Task
    <3>2. S \subseteq Id
      BY <1>3, Circle
    <3>3. S # {}
      BY DEF Quiet
    <3> QED
      BY <3>1, <3>2, <3>3, Nearest
  <2> QED
    BY <1>5, <2>3, <2>4, <2>5
<1>6. ~CallFails(n) /\ ~FindElsewhere(n) /\ ~OwnerMissed(n)
  <2>1. CASE task[n].phase \in {"pred", "notify", "find", "owner"}
    <3>1. ~Missed(task[n].peer)
      BY <1>5, <2>1, QuietCall
    <3> QED
      BY <3>1 DEF CallFails, FindElsewhere, OwnerMissed
  <2>2. CASE task[n].phase \notin {"pred", "notify", "find", "owner"}
    BY <2>2 DEF CallFails, FindElsewhere, OwnerMissed
  <2> QED
    BY <2>1, <2>2
<1>7. ~FindLoops(n)
  BY QuietLoops DEF FindLoops
<1>8. \A k, m \in Node : member[k][m] = IF k \in S /\ m \in S \ {k} THEN "alive" ELSE "none"
  <2> TAKE k, m \in Node
  <2>1. CASE k \in S
    BY <2>1 DEF Quiet
  <2>2. CASE k \notin S
    BY <2>2 DEF Quiet
  <2> QED
    BY <2>1, <2>2
<1>9. ASSUME NEW m \in Node
      PROVE  ~Hear(n, m) /\ ~Suspect(n, m) /\ ~Fail(n, m) /\ ~Rumour(n, m)
  <2>1. ~Hear(n, m)
    <3>1. SUFFICES ASSUME n # m, up[n], up[m], member[n][m] # "alive" PROVE FALSE
      BY DEF Hear
    <3>2. n \in S /\ m \in S
      BY <3>1 DEF Quiet
    <3> QED
      BY <1>8, <3>1, <3>2
  <2>2. ~Suspect(n, m)
    <3>1. SUFFICES ASSUME member[n][m] \in {"new", "alive"}, Missed(m) PROVE FALSE
      BY DEF Suspect
    <3>2. m \in S
      BY <1>8, <3>1
    <3> QED
      BY <3>1, <3>2, QuietCall
  <2>3. ~Fail(n, m)
    <3>1. member[n][m] # "suspect"
      BY <1>8
    <3> QED
      BY <3>1 DEF Fail
  <2>4. ~Rumour(n, m)
    <3>1. \A k \in Node : member[k][m] # "failed"
      BY <1>8
    <3> QED
      BY <3>1 DEF Rumour
  <2> QED
    BY <2>1, <2>2, <2>3, <2>4
<1> QED
  BY <1>2, <1>4, <1>6, <1>7, <1>9

\* The primes of Quiet are those of the variables.
LEMMA QuietPrime ==
  ASSUME NEW S \in SUBSET Node, S # {},
         \A k \in S : /\ up'[k] /\ chord'[k] = IdealRing(k, S) /\ QuietTask(k, task'[k], S)
                      /\ \A m \in Node : member'[k][m] = IF m \in S \ {k} THEN "alive" ELSE "none",
         \A k \in Node \ S : ~up'[k] /\ task'[k].phase = "down" /\ \A m \in Node : member'[k][m] = "none"
  PROVE  Quiet(S)'
<1>1. ASSUME NEW k \in S
      PROVE  QuietTask(k, task[k], S)'
  <2>1. QuietTask(k, task'[k], S)
    OBVIOUS
  <2> QED
    BY <2>1 DEF QuietTask, Nears, Between, From, AddPower
<1>2. \A k \in S : /\ up'[k] /\ chord'[k] = IdealRing(k, S) /\ QuietTask(k, task[k], S)'
                   /\ \A m \in Node : member'[k][m] = IF m \in S \ {k} THEN "alive" ELSE "none"
  BY <1>1
<1> QED
  BY <1>2 DEF Quiet

\* A step without a change leaves a complete ring complete, and all but a task as it was.
LEMMA QuietNext ==
  ASSUME SoundInv, NEW S, Quiet(S), changes = 0, changes' = 0, Next
  PROVE  Quiet(S)' /\ UNCHANGED <<up, chord, member>>
<1>1. PICK n \in Node : MainStep(n)
  BY QuietOther DEF Next
<1>2. \/ Refresh(n) \/ Stabilize(n) \/ AskPredecessor(n) \/ Consider(n) \/ NotifySuccessor(n)
      \/ FindHop(n) \/ SetFound(n)
  BY <1>1, QuietOther DEF MainStep
<1>3. \E e : QuietChange(n, e, S)
  BY <1>2, QuietRefresh, QuietStabilize, QuietAsk, QuietConsider, QuietNotify, QuietFindHop, QuietFound
<1>4. PICK e : QuietChange(n, e, S)
  BY <1>3
<1>5. up' = up
  BY <1>2 DEF Refresh, Stabilize, AskPredecessor, Consider, NotifySuccessor, FindHop, SetFound
<1>6. task[n].phase # "down"
  BY <1>2 DEF Refresh, Stabilize, AskPredecessor, Consider, NotifySuccessor, FindHop, SetFound
<1>7. n \in S
  BY <1>6 DEF Quiet
<1>8. \A m \in Node : task'[m] = IF m = n THEN e ELSE task[m]
  <2>1. task \in [Node -> Task] /\ task' = [task EXCEPT ![n] = e]
    BY <1>4 DEF SoundInv, TaskInv, QuietChange, SetTask
  <2> QED
    BY <2>1
<1>9. chord' = chord /\ member' = member /\ QuietTask(n, e, S)
  BY <1>4 DEF QuietChange
<1>10. S \subseteq Node /\ S # {}
  BY DEF Quiet
<1>11. ASSUME NEW k \in S
       PROVE  /\ up'[k] /\ chord'[k] = IdealRing(k, S) /\ QuietTask(k, task'[k], S)
              /\ \A m \in Node : member'[k][m] = IF m \in S \ {k} THEN "alive" ELSE "none"
  <2>1. QuietTask(k, task'[k], S)
    BY <1>8, <1>9, <1>10 DEF Quiet
  <2> QED
    BY <1>5, <1>9, <2>1 DEF Quiet
<1>12. ASSUME NEW k \in Node \ S
       PROVE  ~up'[k] /\ task'[k].phase = "down" /\ \A m \in Node : member'[k][m] = "none"
  <2>1. task'[k] = task[k]
    BY <1>7, <1>8
  <2>2. ~up[k] /\ task[k].phase = "down" /\ \A m \in Node : member[k][m] = "none"
    BY DEF Quiet
  <2> QED
    BY <1>5, <1>9, <2>1, <2>2
<1>13. Quiet(S)'
  BY <1>10, <1>11, <1>12, QuietPrime
<1> QED
  BY <1>5, <1>9, <1>13

\* The ring of the beginning is complete.
LEMMA QuietInit == Init => QuietInv
<1> SUFFICES ASSUME Init PROVE \E S \in SUBSET Node : Quiet(S)
  BY DEF QuietInv
<1>1. PICK S \in SUBSET Node :
        /\ Bootstrap \in S
        /\ up = [n \in Node |-> n \in S]
        /\ chord = [n \in Node |-> IF n \in S THEN IdealRing(n, S) ELSE Alone(n)]
        /\ task = [n \in Node |-> IF n \in S THEN Joined ELSE [FirstTask EXCEPT !.phase = "down"]]
        /\ member = [n \in Node |-> [m \in Node |-> IF {n, m} \subseteq S /\ n # m THEN "alive" ELSE "none"]]
  BY DEF Init
<1>3. FirstTask \in Task
  BY FirstOK DEF TaskOK
<1>4. Joined.phase = "refresh" /\ Joined.joined /\ [FirstTask EXCEPT !.phase = "down"].phase = "down"
  BY <1>3 DEF Joined, Task
<1>5. \A n : QuietTask(n, Joined, S)
  BY <1>4 DEF QuietTask
<1>6. ASSUME NEW n \in S
      PROVE  /\ up[n] /\ chord[n] = IdealRing(n, S) /\ QuietTask(n, task[n], S)
             /\ \A m \in Node : member[n][m] = IF m \in S \ {n} THEN "alive" ELSE "none"
  <2>1. n \in Node
    OBVIOUS
  <2>2. up[n] /\ chord[n] = IdealRing(n, S) /\ task[n] = Joined
    BY <1>1, <2>1
  <2>3. \A m \in Node : member[n][m] = IF m \in S \ {n} THEN "alive" ELSE "none"
    BY <1>1, <2>1
  <2> QED
    BY <1>5, <2>2, <2>3
<1>7. ASSUME NEW n \in Node \ S
      PROVE  ~up[n] /\ task[n].phase = "down" /\ \A m \in Node : member[n][m] = "none"
  <2>1. ~up[n] /\ task[n] = [FirstTask EXCEPT !.phase = "down"]
    BY <1>1
  <2>2. \A m \in Node : member[n][m] = "none"
    BY <1>1
  <2> QED
    BY <1>4, <2>1, <2>2
<1>8. Quiet(S)
  BY <1>1, <1>6, <1>7 DEF Quiet
<1> QED
  BY <1>8

\* A complete ring stays so until something stops, starts or fails.
LEMMA QuietStep ==
  ASSUME SoundInv, QuietInv, [Next]_vars
  PROVE  QuietInv' /\ (changes' = 0 => UNCHANGED <<up, chord, member>>)
<1>1. CASE UNCHANGED vars
  <2>1. UNCHANGED <<up, chord, task, member, changes>>
    BY <1>1 DEF vars
  <2>2. ASSUME NEW S \in SUBSET Node, Quiet(S)
        PROVE  Quiet(S)'
    <3>1. S # {}
      BY <2>2 DEF Quiet
    <3>2. \A k \in S : /\ up'[k] /\ chord'[k] = IdealRing(k, S) /\ QuietTask(k, task'[k], S)
                       /\ \A m \in Node : member'[k][m] = IF m \in S \ {k} THEN "alive" ELSE "none"
      BY <2>1, <2>2 DEF Quiet
    <3>3. \A k \in Node \ S : ~up'[k] /\ task'[k].phase = "down" /\ \A m \in Node : member'[k][m] = "none"
      BY <2>1, <2>2 DEF Quiet
    <3> QED
      BY <3>1, <3>2, <3>3, QuietPrime
  <2> QED
    BY <2>1, <2>2 DEF QuietInv
<1>2. CASE Next
  <2>1. SUFFICES ASSUME changes' = 0
                 PROVE  (\E S \in SUBSET Node : Quiet(S)') /\ UNCHANGED <<up, chord, member>>
    BY DEF QuietInv
  <2>2. changes = 0
    <3>1. changes \in Nat /\ (changes' = changes \/ changes' = changes + 1)
      BY <1>2 DEF SoundInv, Next, MainStep, Join, Refresh, Stabilize, AskPredecessor, Consider, NotifySuccessor,
         CallFails, FindLoops, FindHop, FindElsewhere, OwnerMissed, SetFound, Crash, Start, Hear, Suspect, Fail,
         Rumour, Reached, Missed, Change
    <3> QED
      BY <2>1, <3>1, SMTT(60)
  <2>3. PICK S \in SUBSET Node : Quiet(S)
    BY <2>2 DEF QuietInv
  <2>4. Quiet(S)' /\ UNCHANGED <<up, chord, member>>
    BY <1>2, <2>1, <2>2, <2>3, QuietNext
  <2> QED
    BY <2>4
<1> QED
  BY <1>1, <1>2

----------------------------------------------------------------------------
(* The theorems *)

\* The inductive invariant: every Chord object is sound, and as long as nothing has
\* stopped, started or failed the ring is complete and every task finds it so.
THEOREM ChordInvariance == Spec => [](SoundInv /\ QuietInv)
<1>1. Init => SoundInv /\ QuietInv
  BY SoundInit, QuietInit
<1>2. SoundInv /\ QuietInv /\ [Next]_vars => (SoundInv /\ QuietInv)'
  BY SoundStep, QuietStep
<1> QED
  BY <1>1, <1>2, PTL DEF Spec

\* No late answer brings back a node that chord_forget removed, in a ring of any nodes.
THEOREM ForgottenStay == Spec => []NoForgottenReference
<1>1. SoundInv => NoForgottenReference
  <2> SUFFICES ASSUME SoundInv, NEW n \in Node, NEW m \in chord[n].bad
               PROVE  m \notin {chord[n].succ, chord[n].pred} \cup {chord[n].finger[i] : i \in Finger}
    BY DEF NoForgottenReference
  <2>1. chord[n].succ # m /\ chord[n].pred # m /\ \A i \in Finger : chord[n].finger[i] # m
    BY DEF SoundInv, ObjectInv, Sound
  <2> QED
    BY <2>1
<1> QED
  BY <1>1, ChordInvariance, PTL

\* chord_network_maintain and refresh_chord_membership leave a complete ring alone.
THEOREM RingLeftAlone == Spec => RingStays
<1>1. SoundInv /\ QuietInv /\ [Next]_vars => [changes' = 0 => \A n \in Running : chord'[n] = chord[n]]_vars
  BY QuietStep
<1> QED
  BY <1>1, ChordInvariance, PTL DEF Spec, RingStays

\* In a complete ring of any size find_from finds the owner of every key, and its limit on
\* the hops is never reached.
THEOREM OwnersFound == Spec => []LookupsFindOwner
<1>1. SoundInv /\ QuietInv => LookupsFindOwner
  <2> SUFFICES ASSUME SoundInv, QuietInv, changes = 0, NEW n \in Running
               PROVE  /\ task[n].phase = "find" => ~Loops(task[n])
                      /\ task[n].phase = "owner" => task[n].peer = From(task[n].key, Running)
    BY DEF LookupsFindOwner
  <2>1. PICK S \in SUBSET Node : Quiet(S)
    BY DEF QuietInv
  <2>2. Running = S /\ n \in Node /\ n \in S
    BY <2>1 DEF Quiet, Running
  <2>3. task[n].phase = "find" => ~Loops(task[n])
    BY <2>1, <2>2, QuietLoops
  <2>4. QuietTask(n, task[n], S)
    BY <2>1, <2>2 DEF Quiet
  <2> QED
    BY <2>2, <2>3, <2>4 DEF QuietTask
<1> QED
  BY <1>1, ChordInvariance, PTL
=============================================================================
