----------------------- MODULE ConcurrentServerProofs -----------------------
(***************************************************************************)
(* Proofs about the thread-pool server for any number of workers, any size *)
(* of the ring and any set of descriptors.                                 *)
(***************************************************************************)
EXTENDS ConcurrentServer, SequenceTheorems, TLAPS

\* A step that names no prover is for Zenon, which gets up to a minute.
USE ZenonT(60)

----------------------------------------------------------------------------
(* The ring *)

\* A step past the end of the ring comes back to its beginning.
LEMMA Wraps ==
  ASSUME NEW x \in Nat, x < Size + Size
  PROVE  x % Size = IF x < Size THEN x ELSE x - Size
<1>1. Size \in Nat /\ Size > 0
  BY ServerAssumption, SMTT(60)
<1> QED BY <1>1, SMTT(60)

RingTypeOK ==
  /\ queue \in [0..(Size - 1) -> Fd \cup {NoFd}]
  /\ head \in 0..(Size - 1)
  /\ count \in 0..Size

\* The slots of the ring, without the modulus.
LEMMA SlotIs ==
  ASSUME RingTypeOK, NEW i \in 0..Size
  PROVE  /\ Slot(i) = IF head + i < Size THEN head + i ELSE head + i - Size
         /\ Slot(i) \in 0..(Size - 1)
<1>1. /\ Size \in Nat /\ Size > 0 /\ head \in Nat /\ head < Size /\ i \in Nat /\ i <= Size
      /\ head + i \in Nat /\ head + i < Size + Size
  BY ServerAssumption, SMTT(60) DEF RingTypeOK
<1>2. Slot(i) = IF head + i < Size THEN head + i ELSE head + i - Size
  BY <1>1, Wraps, SMTT(60) DEF Slot
<1> QED BY <1>1, <1>2, SMTT(60)

\* Different offsets are different slots.
LEMMA SlotsDiffer ==
  ASSUME RingTypeOK, NEW i \in 0..Size, NEW j \in 0..Size, i < j, j < Size
  PROVE  Slot(i) # Slot(j)
<1>1. Size \in Nat /\ head \in 0..(Size - 1)
  BY ServerAssumption DEF RingTypeOK
<1>2. /\ Slot(i) = IF head + i < Size THEN head + i ELSE head + i - Size
      /\ Slot(j) = IF head + j < Size THEN head + j ELSE head + j - Size
  BY SlotIs
<1> QED BY <1>1, <1>2, SMTT(60)

\* The slots in use are slots.
LEMMA QueuedSlots ==
  ASSUME RingTypeOK
  PROVE  /\ Queued \subseteq 0..(Size - 1)
         /\ count # 0 => head \in Queued /\ Slot(0) = head
         /\ count < Size => Slot(count) \notin Queued /\ Slot(count) \in 0..(Size - 1)
<1>1. Size \in Nat /\ Size > 0 /\ head \in 0..(Size - 1) /\ count \in 0..Size
  BY ServerAssumption, SMTT(60) DEF RingTypeOK
<1>2. \A i \in 0..(count - 1) : i \in 0..Size /\ i < count
  BY <1>1, SMTT(60)
<1>3. Queued \subseteq 0..(Size - 1)
  BY <1>2, SlotIs DEF Queued
<1>4. 0 \in 0..Size /\ Slot(0) = head
  BY <1>1, SlotIs, SMTT(60)
<1>5. ASSUME count # 0 PROVE head \in Queued
  <2>1. 0 \in 0..(count - 1)
    BY <1>1, <1>5, SMTT(60)
  <2> QED BY <1>4, <2>1 DEF Queued
<1>6. ASSUME count < Size PROVE Slot(count) \notin Queued /\ Slot(count) \in 0..(Size - 1)
  <2>1. ASSUME NEW i \in 0..(count - 1), Slot(i) = Slot(count) PROVE FALSE
    BY <1>1, <1>2, <1>6, <2>1, SlotsDiffer
  <2>2. Slot(count) \in 0..(Size - 1)
    BY <1>1, SlotIs
  <2> QED BY <2>1, <2>2 DEF Queued
<1> QED BY <1>3, <1>4, <1>5, <1>6

\* Taking the oldest connection frees its slot.
LEMMA TakeRing ==
  ASSUME RingTypeOK, count # 0, head' = (head + 1) % Size, count' = count - 1, queue' = queue
  PROVE  /\ RingTypeOK' /\ Queued' = Queued \ {head}
         /\ \A i \in 0..(count - 2) : Slot(i)' = Slot(i + 1)
<1>1. Size \in Nat /\ Size > 0 /\ head \in 0..(Size - 1) /\ count \in 1..Size
  BY ServerAssumption, SMTT(60) DEF RingTypeOK
<1>2. head' = Slot(1) /\ 1 \in 0..Size
  BY <1>1, SMTT(60) DEF Slot
<1>3. /\ head' = IF head + 1 < Size THEN head + 1 ELSE head + 1 - Size
      /\ head' \in 0..(Size - 1)
  BY <1>2, SlotIs
<1>4. RingTypeOK'
  BY <1>1, <1>3, SMTT(60) DEF RingTypeOK
<1>5. ASSUME NEW i \in 0..(count - 2) PROVE Slot(i)' = Slot(i + 1)
  <2>1. i \in 0..Size /\ i + 1 \in 0..Size
    BY <1>1, SMTT(60)
  <2>2. Slot(i + 1) = IF head + (i + 1) < Size THEN head + (i + 1) ELSE head + (i + 1) - Size
    BY <2>1, SlotIs
  <2>3. /\ head' + i \in Nat /\ head' + i < Size + Size
        /\ Slot(i)' = (head' + i) % Size
    BY <1>1, <1>3, <2>1, SMTT(60) DEF Slot
  <2>4. PICK y \in Nat : y = head' + i
    BY <2>3
  <2>5. y % Size = IF y < Size THEN y ELSE y - Size
    BY <2>3, <2>4, Wraps
  <2>6. Slot(i)' = y % Size
    BY <2>3, <2>4
  <2>7. Slot(i + 1) = IF y < Size THEN y ELSE y - Size
    BY <1>1, <1>3, <2>1, <2>2, <2>4, SMTT(60)
  <2> QED BY <2>5, <2>6, <2>7
<1>6. Queued' = {Slot(i + 1) : i \in 0..(count - 2)}
  <2>1. count' - 1 = count - 2
    BY <1>1, SMTT(60)
  <2>2. Queued' = {Slot(i)' : i \in 0..(count' - 1)}
    BY DEF Queued, Slot
  <2> QED BY <1>5, <2>1, <2>2
<1>7. ASSUME NEW i \in 0..(count - 2) PROVE Slot(i + 1) \in Queued /\ Slot(i + 1) # head
  <2>1. i + 1 \in 0..(count - 1) /\ 0 \in 0..Size /\ i + 1 \in 0..Size
    BY <1>1, SMTT(60)
  <2>2. Slot(0) = head
    BY <1>1, QueuedSlots
  <2>3. Slot(0) # Slot(i + 1)
    BY <1>1, <2>1, SlotsDiffer, SMTT(60)
  <2> QED BY <2>1, <2>2, <2>3 DEF Queued
<1>8. ASSUME NEW j \in 0..(count - 1), Slot(j) # head
      PROVE  \E i \in 0..(count - 2) : Slot(j) = Slot(i + 1)
  <2>1. j # 0
    BY <1>1, <1>8, QueuedSlots
  <2>2. j - 1 \in 0..(count - 2) /\ (j - 1) + 1 = j
    BY <1>1, <2>1, SMTT(60)
  <2> QED BY <2>2
<1>9. Queued' = Queued \ {head}
  BY <1>6, <1>7, <1>8 DEF Queued
<1> QED BY <1>4, <1>5, <1>9

\* Queueing a connection uses one more slot.
LEMMA EnqueueRing ==
  ASSUME RingTypeOK, count < Size, NEW f \in Fd, head' = head, count' = count + 1,
         queue' = [queue EXCEPT ![Slot(count)] = f]
  PROVE  /\ RingTypeOK' /\ Queued' = Queued \cup {Slot(count)}
         /\ queue'[Slot(count)] = f /\ \A i \in Queued : queue'[i] = queue[i]
<1>1. Size \in Nat /\ Size > 0 /\ head \in 0..(Size - 1) /\ count \in 0..(Size - 1)
  BY ServerAssumption, SMTT(60) DEF RingTypeOK
<1>2. /\ Queued \subseteq 0..(Size - 1)
      /\ Slot(count) \notin Queued /\ Slot(count) \in 0..(Size - 1)
  BY QueuedSlots
<1>3. queue \in [0..(Size - 1) -> Fd \cup {NoFd}]
  BY DEF RingTypeOK
<1>4. RingTypeOK'
  BY <1>1, <1>2, <1>3, SMTT(60) DEF RingTypeOK
<1>5. queue'[Slot(count)] = f /\ \A i \in Queued : queue'[i] = queue[i]
  BY <1>2, <1>3
<1>6. Queued' = {Slot(i) : i \in 0..count}
  <2>1. count' - 1 = count
    BY <1>1, SMTT(60)
  <2> QED BY <2>1 DEF Queued, Slot
<1>7. 0..count = 0..(count - 1) \cup {count}
  BY <1>1, SMTT(60)
<1>8. Queued' = Queued \cup {Slot(count)}
  BY <1>6, <1>7 DEF Queued
<1> QED BY <1>4, <1>5, <1>8

----------------------------------------------------------------------------
(* Every descriptor has one holder *)

Serving(w) == worker[w] \in {"handle", "done"}

ServerTypeOK ==
  /\ RingTypeOK
  /\ main \in {"create", "unwind", "failed", "run", "stopped", "joining", "destroyed"}
  /\ acceptor \in {"none", "accept", "got", "end", "returned"}
  /\ got \in Fd \cup {NoFd}
  /\ worker \in [Worker -> {"new", "lock", "wait", "handle", "done", "exit"}]
  /\ fd \in [Worker -> Fd \cup {NoFd}]
  /\ active \in [Worker -> Fd \cup {NoFd}]
  /\ stopping \in BOOLEAN
  /\ open \subseteq Fd

\* The accepting thread, the ring and the workers hold open descriptors, no two
\* of them the same.
Apart ==
  /\ acceptor = "got" => /\ got \in open
                         /\ \A i \in Queued : queue[i] # got
                         /\ \A w \in Worker : Serving(w) => fd[w] # got
  /\ \A i \in Queued : /\ queue[i] \in open
                       /\ \A j \in Queued : queue[i] = queue[j] => i = j
                       /\ \A w \in Worker : Serving(w) => fd[w] # queue[i]
  /\ \A w \in Worker : Serving(w) =>
        /\ fd[w] \in open
        /\ \A v \in Worker : Serving(v) /\ fd[v] = fd[w] => v = w

Held(f) ==
  \/ acceptor = "got" /\ got = f
  \/ \E i \in Queued : queue[i] = f
  \/ \E w \in Worker : Serving(w) /\ fd[w] = f

\* What the main thread has done, and what it leaves to the others.
MainInv ==
  /\ main \in {"create", "unwind", "failed"} =>
        acceptor = "none" /\ count = 0 /\ \A w \in Worker : ~Serving(w)
  /\ main \in {"joining", "destroyed"} => acceptor = "returned" /\ count = 0 /\ stopping
  /\ main = "destroyed" => \A w \in Worker : worker[w] = "exit"

\* active[w] is the connection that w serves, and a stop has shut it down.
ActiveInv ==
  /\ \A w \in Worker : active[w] = IF Serving(w) THEN fd[w] ELSE NoFd
  /\ stopping => \A w \in Worker : worker[w] = "handle" => fd[w] \in shut

ServerInv ==
  /\ ServerTypeOK
  /\ Apart
  /\ \A f \in open : Held(f)
  /\ MainInv
  /\ ActiveInv

\* The pool before it runs.
LEMMA ServerInit == Init => ServerInv
<1> SUFFICES ASSUME Init PROVE ServerInv
  OBVIOUS
<1>1. ServerTypeOK
  <2>1. RingTypeOK
    BY ServerAssumption, SMTT(60) DEF Init, RingTypeOK
  <2>2. stopping \in BOOLEAN
    BY DEF Init
  <2> QED BY <2>1, <2>2 DEF Init, ServerTypeOK
<1>2. Queued = {} /\ \A w \in Worker : ~Serving(w)
  BY SMTT(60) DEF Init, Queued, Serving
<1> QED BY <1>1, <1>2 DEF Init, ServerInv, Apart, MainInv, ActiveInv

\* A step that lets workers sleep, wake, start or exit changes nothing else.
LEMMA QuietStep ==
  ASSUME ServerInv, worker' \in [Worker -> {"new", "lock", "wait", "handle", "done", "exit"}],
         \A w \in Worker : worker'[w] = worker[w] \/ (~Serving(w) /\ ~Serving(w)'),
         main' = main, main = "destroyed" => worker' = worker,
         UNCHANGED <<acceptor, got, fd, active, stopping, ring, open, shut>>
  PROVE  ServerInv'
<1>1. \A w \in Worker : /\ Serving(w)' <=> Serving(w)
                        /\ worker'[w] = "handle" => worker[w] = "handle"
  BY DEF Serving
<1>2. Queued' = Queued /\ queue' = queue /\ head' = head /\ count' = count
  BY DEF ring, Queued, Slot
<1>3. ServerTypeOK'
  BY <1>2 DEF ServerInv, ServerTypeOK, RingTypeOK
<1>4. Apart'
  BY <1>1, <1>2, SMTT(60) DEF ServerInv, Apart
<1>5. \A f \in open' : Held(f)'
  BY <1>1, <1>2 DEF ServerInv, Held
<1>6. MainInv'
  BY <1>1, <1>2 DEF ServerInv, MainInv
<1>7. ActiveInv'
  BY <1>1 DEF ServerInv, ActiveInv
<1> QED BY <1>3, <1>4, <1>5, <1>6, <1>7 DEF ServerInv

\* A worker that takes a connection holds what the ring held.
LEMMA TakeKeeps ==
  ASSUME ServerInv, NEW w \in Worker, Take(w)
  PROVE  ServerInv'
<1>1. /\ worker[w] = "lock" /\ ~stopping /\ count # 0 /\ stopping' = stopping
      /\ worker' = [worker EXCEPT ![w] = "handle"]
      /\ fd' = [fd EXCEPT ![w] = queue[head]] /\ active' = [active EXCEPT ![w] = queue[head]]
      /\ head' = (head + 1) % Size /\ count' = count - 1
      /\ UNCHANGED <<main, acceptor, got, queue, open, shut>>
  BY DEF Take
<1>2. ServerTypeOK /\ RingTypeOK /\ Apart /\ MainInv /\ ActiveInv /\ \A f \in open : Held(f)
  BY DEF ServerInv, ServerTypeOK
<1>3. RingTypeOK' /\ Queued' = Queued \ {head}
  BY <1>1, <1>2, TakeRing
<1>4. head \in Queued /\ head \in 0..(Size - 1)
  BY <1>1, <1>2, QueuedSlots
<1>5. queue[head] \in open /\ queue[head] \in Fd /\ \A i \in Queued : i # head => queue[i] # queue[head]
  BY <1>2, <1>4 DEF Apart, ServerTypeOK
<1>6. ServerTypeOK'
  BY <1>1, <1>2, <1>3, <1>5 DEF ServerTypeOK
<1>7. /\ ~Serving(w) /\ Serving(w)' /\ fd'[w] = queue[head] /\ active'[w] = queue[head]
      /\ \A v \in Worker : v # w => /\ fd'[v] = fd[v] /\ active'[v] = active[v]
                                    /\ Serving(v)' <=> Serving(v)
  BY <1>1, <1>2 DEF ServerTypeOK, Serving
<1>8. Apart'
  BY <1>1, <1>2, <1>3, <1>4, <1>5, <1>7, SMTT(60) DEF Apart
<1>9. \A f \in open' : Held(f)'
  BY <1>1, <1>2, <1>3, <1>4, <1>7, SMTT(60) DEF Held
<1>10. MainInv'
  BY <1>1, <1>2 DEF MainInv
<1>11. ActiveInv'
  BY <1>1, <1>2, <1>7 DEF ActiveInv
<1> QED BY <1>6, <1>8, <1>9, <1>10, <1>11 DEF ServerInv

\* A worker that closes its connection closes nobody else's.
LEMMA FinishKeeps ==
  ASSUME ServerInv, NEW w \in Worker, Finish(w)
  PROVE  ServerInv'
<1>1. /\ worker[w] = "done" /\ worker' = [worker EXCEPT ![w] = "lock"]
      /\ active' = [active EXCEPT ![w] = NoFd]
      /\ open' = open \ {fd[w]} /\ shut' = shut \ {fd[w]}
      /\ UNCHANGED <<main, acceptor, got, fd, stopping, queue, head, count>>
  BY DEF Finish, ring
<1>2. ServerTypeOK /\ RingTypeOK /\ Apart /\ MainInv /\ ActiveInv /\ \A f \in open : Held(f)
  BY DEF ServerInv, ServerTypeOK
<1>3. RingTypeOK' /\ Queued' = Queued
  BY <1>1, <1>2 DEF RingTypeOK, Queued, Slot
<1>4. ServerTypeOK'
  BY <1>1, <1>2, <1>3 DEF ServerTypeOK
<1>5. /\ Serving(w) /\ ~Serving(w)' /\ active'[w] = NoFd
      /\ \A v \in Worker : v # w => /\ active'[v] = active[v]
                                    /\ Serving(v)' <=> Serving(v)
                                    /\ worker'[v] = worker[v]
  BY <1>1, <1>2 DEF ServerTypeOK, Serving
<1>6. Apart'
  BY <1>1, <1>2, <1>3, <1>5, SMTT(60) DEF Apart
<1>7. \A f \in open' : Held(f)'
  BY <1>1, <1>2, <1>3, <1>5 DEF Held
<1>8. MainInv'
  BY <1>1, <1>2, <1>5 DEF MainInv
<1>9. ActiveInv'
  <2>1. \A v \in Worker : active'[v] = IF Serving(v)' THEN fd'[v] ELSE NoFd
    BY <1>1, <1>2, <1>5 DEF ActiveInv
  <2>2. ASSUME stopping', NEW v \in Worker, worker'[v] = "handle" PROVE fd'[v] \in shut'
    <3>1. v # w /\ worker[v] = "handle" /\ Serving(v)
      BY <1>5, <2>2 DEF Serving
    <3>2. fd[v] \in shut /\ fd[v] # fd[w]
      BY <1>1, <1>2, <1>5, <2>2, <3>1 DEF ActiveInv, Apart
    <3> QED BY <1>1, <3>2
  <2> QED BY <2>1, <2>2 DEF ActiveInv
<1> QED BY <1>4, <1>6, <1>7, <1>8, <1>9 DEF ServerInv

\* A handler that returns leaves its connection to its worker.
LEMMA HandlerKeeps ==
  ASSUME ServerInv, NEW w \in Worker, HandlerReturns(w)
  PROVE  ServerInv'
<1>1. /\ worker[w] = "handle" /\ worker' = [worker EXCEPT ![w] = "done"]
      /\ UNCHANGED <<main, acceptor, got, fd, active, stopping, queue, head, count, open, shut>>
  BY DEF HandlerReturns, ring
<1>2. ServerTypeOK /\ RingTypeOK /\ Apart /\ MainInv /\ ActiveInv /\ \A f \in open : Held(f)
  BY DEF ServerInv, ServerTypeOK
<1>3. RingTypeOK' /\ Queued' = Queued
  BY <1>1, <1>2 DEF RingTypeOK, Queued, Slot
<1>4. ServerTypeOK'
  BY <1>1, <1>2, <1>3 DEF ServerTypeOK
<1>5. \A v \in Worker : /\ Serving(v)' <=> Serving(v)
                        /\ worker'[v] = "handle" => worker[v] = "handle"
  BY <1>1, <1>2 DEF ServerTypeOK, Serving
<1>6. Apart' /\ \A f \in open' : Held(f)'
  BY <1>1, <1>2, <1>3, <1>5 DEF Apart, Held
<1>7. MainInv'
  BY <1>1, <1>2, <1>5 DEF MainInv
<1>8. ActiveInv'
  BY <1>1, <1>2, <1>5 DEF ActiveInv
<1> QED BY <1>4, <1>6, <1>7, <1>8 DEF ServerInv

\* A stop closes what is queued, and shuts down what is being served.
LEMMA StopKeeps ==
  ASSUME ServerInv, RunEnds \/ MainStop \/ Destroy
  PROVE  ServerInv'
<1>1. /\ StopAll /\ UNCHANGED <<got, fd, active>>
      /\ \/ acceptor = "end" /\ acceptor' = "returned" /\ main' = main
         \/ acceptor' = acceptor /\ main = "run" /\ main' = "stopped"
         \/ acceptor' = acceptor /\ main = "stopped" /\ acceptor = "returned" /\ main' = "joining"
  BY DEF RunEnds, MainStop, Destroy
<1>2. /\ stopping' = TRUE /\ head' = Slot(count) /\ count' = 0 /\ queue' = queue
      /\ open' = open \ {queue[i] : i \in Queued}
      /\ shut' = shut \cup {active[w] : w \in {v \in Worker : active[v] # NoFd}}
      /\ worker' = [w \in Worker |-> IF worker[w] = "wait" THEN "lock" ELSE worker[w]]
  BY <1>1 DEF StopAll, Broadcast
<1>3. ServerTypeOK /\ RingTypeOK /\ Apart /\ MainInv /\ ActiveInv /\ \A f \in open : Held(f)
  BY DEF ServerInv, ServerTypeOK
<1>4. RingTypeOK'
  <2>1. count \in 0..Size /\ Size \in Nat
    BY <1>3, ServerAssumption DEF RingTypeOK
  <2>2. head' \in 0..(Size - 1)
    BY <1>2, <1>3, <2>1, SlotIs
  <2> QED BY <1>2, <1>3, <2>1, <2>2, SMTT(60) DEF RingTypeOK
<1>5. Queued' = {}
  <2>1. 0..(count' - 1) = {}
    BY <1>2, SMTT(60)
  <2> QED BY <2>1 DEF Queued
<1>6. ServerTypeOK'
  <2>1. worker' \in [Worker -> {"new", "lock", "wait", "handle", "done", "exit"}]
    BY <1>2, <1>3 DEF ServerTypeOK
  <2>2. stopping' \in BOOLEAN
    BY <1>2
  <2> QED BY <1>1, <1>2, <1>3, <1>4, <2>1, <2>2 DEF ServerTypeOK
<1>7. \A w \in Worker : /\ Serving(w)' <=> Serving(w)
                        /\ worker'[w] = "handle" <=> worker[w] = "handle"
                        /\ worker[w] = "exit" => worker'[w] = "exit"
  BY <1>2 DEF Serving
<1>8. acceptor' = "got" <=> acceptor = "got"
  BY <1>1
<1>9. Apart'
  BY <1>1, <1>2, <1>3, <1>5, <1>7, <1>8 DEF Apart
<1>10. \A f \in open' : Held(f)'
  BY <1>1, <1>2, <1>3, <1>5, <1>7, <1>8 DEF Held
<1>11. MainInv'
  BY <1>1, <1>2, <1>3, <1>7 DEF MainInv
<1>12. ActiveInv'
  <2>1. \A v \in Worker : active'[v] = IF Serving(v)' THEN fd'[v] ELSE NoFd
    BY <1>1, <1>3, <1>7 DEF ActiveInv
  <2>2. ASSUME NEW v \in Worker, worker'[v] = "handle" PROVE fd'[v] \in shut'
    <3>1. Serving(v)
      BY <1>7, <2>2 DEF Serving
    <3>2. active[v] = fd[v] /\ fd[v] \in Fd
      BY <1>3, <3>1 DEF ActiveInv, Apart, ServerTypeOK
    <3>3. fd[v] \in {active[u] : u \in {x \in Worker : active[x] # NoFd}}
      BY <3>2, ServerAssumption
    <3> QED BY <1>1, <1>2, <3>3
  <2> QED BY <2>1, <2>2 DEF ActiveInv
<1> QED BY <1>6, <1>9, <1>10, <1>11, <1>12 DEF ServerInv

\* A new connection is one that nobody holds.
LEMMA AcceptKeeps ==
  ASSUME ServerInv, NEW f \in Fd, Accept(f)
  PROVE  ServerInv'
<1>1. /\ acceptor = "accept" /\ f \notin open /\ open' = open \cup {f} /\ got' = f /\ acceptor' = "got"
      /\ UNCHANGED <<main, worker, fd, active, stopping, queue, head, count, shut>>
  BY DEF Accept, ring
<1>2. ServerTypeOK /\ RingTypeOK /\ Apart /\ MainInv /\ ActiveInv /\ \A g \in open : Held(g)
  BY DEF ServerInv, ServerTypeOK
<1>3. RingTypeOK' /\ Queued' = Queued
  BY <1>1, <1>2 DEF RingTypeOK, Queued, Slot
<1>4. ServerTypeOK'
  BY <1>1, <1>2, <1>3 DEF ServerTypeOK
<1>5. \A v \in Worker : Serving(v)' <=> Serving(v)
  BY <1>1 DEF Serving
<1>6. Apart'
  BY <1>1, <1>2, <1>3, <1>5 DEF Apart
<1>7. \A g \in open' : Held(g)'
  BY <1>1, <1>2, <1>3, <1>5 DEF Held
<1>8. MainInv'
  BY <1>1, <1>2, <1>5 DEF MainInv
<1>9. ActiveInv'
  BY <1>1, <1>2, <1>5 DEF ActiveInv
<1> QED BY <1>4, <1>6, <1>7, <1>8, <1>9 DEF ServerInv

\* A connection that cannot be queued is closed by the accepting thread.
LEMMA RejectKeeps ==
  ASSUME ServerInv, Reject
  PROVE  ServerInv'
<1>1. /\ acceptor = "got" /\ open' = open \ {got} /\ got' = NoFd
      /\ acceptor' \in {"end", "accept"}
      /\ UNCHANGED <<main, worker, fd, active, stopping, queue, head, count, shut>>
  BY DEF Reject, ring
<1>2. ServerTypeOK /\ RingTypeOK /\ Apart /\ MainInv /\ ActiveInv /\ \A g \in open : Held(g)
  BY DEF ServerInv, ServerTypeOK
<1>3. RingTypeOK' /\ Queued' = Queued
  BY <1>1, <1>2 DEF RingTypeOK, Queued, Slot
<1>4. ServerTypeOK'
  BY <1>1, <1>2, <1>3 DEF ServerTypeOK
<1>5. \A v \in Worker : Serving(v)' <=> Serving(v)
  BY <1>1 DEF Serving
<1>6. Apart'
  BY <1>1, <1>2, <1>3, <1>5 DEF Apart
<1>7. \A g \in open' : Held(g)'
  BY <1>1, <1>2, <1>3, <1>5 DEF Held
<1>8. MainInv'
  BY <1>1, <1>2, <1>5 DEF MainInv
<1>9. ActiveInv'
  BY <1>1, <1>2, <1>5 DEF ActiveInv
<1> QED BY <1>4, <1>6, <1>7, <1>8, <1>9 DEF ServerInv

\* A queued connection passes from the accepting thread to the ring.
LEMMA EnqueueKeeps ==
  ASSUME ServerInv, Enqueue
  PROVE  ServerInv'
<1>1. /\ acceptor = "got" /\ ~stopping /\ count < Size /\ stopping' = stopping
      /\ queue' = [queue EXCEPT ![Slot(count)] = got] /\ count' = count + 1 /\ head' = head
      /\ Signal /\ got' = NoFd /\ acceptor' = "accept"
      /\ UNCHANGED <<main, fd, active, open, shut>>
  BY DEF Enqueue
<1>2. ServerTypeOK /\ RingTypeOK /\ Apart /\ MainInv /\ ActiveInv /\ \A g \in open : Held(g)
  BY DEF ServerInv, ServerTypeOK
<1>3. got \in open /\ got \in Fd
  BY <1>1, <1>2 DEF Apart, ServerTypeOK
<1>4. /\ RingTypeOK' /\ Queued' = Queued \cup {Slot(count)}
      /\ queue'[Slot(count)] = got /\ \A i \in Queued : queue'[i] = queue[i]
  BY <1>1, <1>2, <1>3, EnqueueRing
<1>5. Slot(count) \notin Queued
  BY <1>1, <1>2, QueuedSlots
<1>6. /\ worker' \in [Worker -> {"new", "lock", "wait", "handle", "done", "exit"}]
      /\ \A v \in Worker : /\ Serving(v)' <=> Serving(v)
                           /\ worker'[v] = "handle" => worker[v] = "handle"
  BY <1>1, <1>2 DEF Signal, ServerTypeOK, Serving
<1>7. ServerTypeOK'
  BY <1>1, <1>2, <1>4, <1>6 DEF ServerTypeOK
<1>8. Apart'
  BY <1>1, <1>2, <1>3, <1>4, <1>5, <1>6, SMTT(60) DEF Apart
<1>9. \A g \in open' : Held(g)'
  BY <1>1, <1>2, <1>4, <1>6, SMTT(60) DEF Held
<1>10. MainInv'
  BY <1>1, <1>2 DEF MainInv
<1>11. ActiveInv'
  BY <1>1, <1>2, <1>6 DEF ActiveInv
<1> QED BY <1>7, <1>8, <1>9, <1>10, <1>11 DEF ServerInv

\* The main thread creates and joins threads while nobody serves a connection.
LEMMA MainKeeps ==
  ASSUME ServerInv, Created \/ CreateFails \/ Unwound \/ Destroyed \/ AcceptFails
  PROVE  ServerInv'
<1>1. /\ UNCHANGED <<got, fd, active, queue, head, count, open, shut>>
      /\ acceptor # "got" /\ acceptor' # "got"
  BY DEF ServerInv, MainInv, Created, CreateFails, Unwound, Destroyed, AcceptFails, ring
<1>2. ServerTypeOK /\ RingTypeOK /\ Apart /\ MainInv /\ ActiveInv /\ \A g \in open : Held(g)
  BY DEF ServerInv, ServerTypeOK
<1>3. RingTypeOK' /\ Queued' = Queued
  BY <1>1, <1>2 DEF RingTypeOK, Queued, Slot
<1>4. \A v \in Worker : /\ Serving(v)' <=> Serving(v)
                        /\ worker'[v] = "handle" <=> worker[v] = "handle"
                        /\ worker[v] \in {"new", "exit"} => worker'[v] = worker[v]
  BY DEF Created, CreateFails, Unwound, Destroyed, AcceptFails, Broadcast, Serving
<1>5. stopping' \in BOOLEAN
  BY <1>2 DEF Created, CreateFails, Unwound, Destroyed, AcceptFails, ServerTypeOK
<1>6. ServerTypeOK'
  <2>1. worker' \in [Worker -> {"new", "lock", "wait", "handle", "done", "exit"}]
    BY <1>2 DEF Created, CreateFails, Unwound, Destroyed, AcceptFails, Broadcast, ServerTypeOK
  <2>2. /\ main' \in {"create", "unwind", "failed", "run", "stopped", "joining", "destroyed"}
        /\ acceptor' \in {"none", "accept", "got", "end", "returned"}
    BY <1>2 DEF Created, CreateFails, Unwound, Destroyed, AcceptFails, ServerTypeOK
  <2> QED BY <1>1, <1>2, <1>3, <1>5, <2>1, <2>2 DEF ServerTypeOK
<1>7. Apart' /\ \A g \in open' : Held(g)'
  BY <1>1, <1>2, <1>3, <1>4 DEF Apart, Held
<1>8. MainInv'
  BY <1>1, <1>2, <1>4 DEF Created, CreateFails, Unwound, Destroyed, AcceptFails, MainInv, ServerTypeOK
<1>9. ActiveInv'
  BY <1>1, <1>2, <1>4, SMTT(60) DEF Created, CreateFails, Unwound, Destroyed, AcceptFails, MainInv, ActiveInv, Serving
<1> QED BY <1>6, <1>7, <1>8, <1>9 DEF ServerInv

\* Every step of every thread keeps the invariant.
LEMMA ServerStep == ServerInv /\ [Next]_vars => ServerInv'
<1> SUFFICES ASSUME ServerInv, [Next]_vars PROVE ServerInv'
  OBVIOUS
<1>1. ASSUME NEW w \in Worker, StartWorker(w) \/ Exit(w) \/ Wait(w) \/ Wake(w) PROVE ServerInv'
  <2>1. /\ worker' \in [Worker -> {"new", "lock", "wait", "handle", "done", "exit"}]
        /\ \A v \in Worker : worker'[v] = worker[v] \/ (~Serving(v) /\ ~Serving(v)')
    BY <1>1 DEF StartWorker, Exit, Wait, Wake, ServerInv, ServerTypeOK, Serving
  <2>2. main' = main /\ UNCHANGED <<acceptor, got, fd, active, stopping, ring, open, shut>>
    BY <1>1 DEF StartWorker, Exit, Wait, Wake
  <2>3. main # "destroyed"
    BY <1>1 DEF StartWorker, Exit, Wait, Wake, ServerInv, MainInv
  <2> QED BY <2>1, <2>2, <2>3, QuietStep
<1>2. ASSUME UNCHANGED vars PROVE ServerInv'
  <2>1. /\ worker' = worker /\ main' = main
        /\ UNCHANGED <<acceptor, got, fd, active, stopping, ring, open, shut>>
    BY <1>2 DEF vars
  <2> QED BY <2>1, QuietStep DEF ServerInv, ServerTypeOK
<1>3. \/ \E w \in Worker : \/ StartWorker(w) \/ Exit(w) \/ Wait(w) \/ Wake(w)
                           \/ Take(w) \/ Finish(w) \/ HandlerReturns(w)
      \/ RunEnds \/ MainStop \/ Destroy
      \/ Created \/ CreateFails \/ Unwound \/ Destroyed \/ AcceptFails
      \/ Enqueue \/ Reject \/ \E f \in Fd : Accept(f)
      \/ UNCHANGED vars
  BY DEF Next, WorkerStep, AcceptorStep, MainStep, Over
<1> QED BY <1>1, <1>2, <1>3, TakeKeeps, FinishKeeps, HandlerKeeps, StopKeeps, MainKeeps,
           EnqueueKeeps, RejectKeeps, AcceptKeeps

\* The invariant of the pool holds in every state.
LEMMA ServerInvariant == Spec => []ServerInv
  BY ServerInit, ServerStep, PTL DEF Spec

\* The holders of OneHolder are the accepting thread, the ring and the workers.
LEMMA HoldersAre ==
  /\ \A h \in Holders : \/ h = <<"acceptor", 0>> /\ acceptor = "got" /\ Holds(h) = got
                        \/ \E i \in Queued : h = <<"queue", i>> /\ Holds(h) = queue[i]
                        \/ \E w \in Worker : h = <<"worker", w>> /\ Serving(w) /\ Holds(h) = fd[w]
  /\ acceptor = "got" => <<"acceptor", 0>> \in Holders /\ Holds(<<"acceptor", 0>>) = got
  /\ \A i \in Queued : <<"queue", i>> \in Holders /\ Holds(<<"queue", i>>) = queue[i]
  /\ \A w \in Worker : Serving(w) => <<"worker", w>> \in Holders /\ Holds(<<"worker", w>>) = fd[w]
<1>1. /\ Holds(<<"acceptor", 0>>) = got
      /\ \A i : Holds(<<"queue", i>>) = queue[i]
      /\ \A w : Holds(<<"worker", w>>) = fd[w]
  BY DEF Holds
<1> QED BY <1>1 DEF Holders, Serving

\* The invariant is what OneHolder needs.
LEMMA InvOneHolder == ServerInv => OneHolder
<1> SUFFICES ASSUME ServerInv PROVE OneHolder
  OBVIOUS
<1>1. Apart /\ (\A f \in open : Held(f)) /\ MainInv
  BY DEF ServerInv
<1>2. \A h \in Holders : Holds(h) \in open
  BY <1>1, HoldersAre, SMTT(60) DEF Apart
<1>3. \A f \in open : \E h \in Holders : f = Holds(h)
  BY <1>1, HoldersAre DEF Held
<1>4. \A g, h \in Holders : Holds(g) = Holds(h) => g = h
  BY <1>1, HoldersAre, SMTT(60) DEF Apart
<1>5. ASSUME main \in {"destroyed", "failed"} PROVE open = {}
  <2>1. count = 0 /\ acceptor # "got" /\ \A w \in Worker : ~Serving(w)
    BY <1>1, <1>5 DEF MainInv, Serving
  <2>2. Queued = {}
    BY <2>1, SMTT(60) DEF Queued
  <2> QED BY <1>1, <2>1, <2>2 DEF Held
<1> QED BY <1>2, <1>3, <1>4, <1>5, SMTT(60) DEF OneHolder

\* For any number of workers, any size of the ring and any descriptors: an open
\* connection has exactly one holder, nobody holds a closed one, and none is left
\* when concurrent_server_destroy returns or concurrent_server_create fails.
THEOREM OneHolderAlways == Spec => []OneHolder
  BY ServerInvariant, InvOneHolder, PTL

\* What concurrent_server_stop shuts down is what the workers serve, and after
\* it no worker handles a connection that was not shut down.
THEOREM StopAlwaysReaches == Spec => []StopReachesHandlers
<1>1. ServerInv => StopReachesHandlers
  BY DEF ServerInv, Apart, ActiveInv, StopReachesHandlers
<1> QED BY <1>1, ServerInvariant, PTL

----------------------------------------------------------------------------
(* The ring is a queue *)

\* The connections in the ring, oldest first: what the ring implements.
Contents == [i \in 1..count |-> queue[Slot(i - 1)]]

\* The contents are a sequence of descriptors or empty slots.
LEMMA ContentsType ==
  ASSUME RingTypeOK
  PROVE  Contents \in Seq(Fd \cup {NoFd}) /\ Len(Contents) = count
<1>1. count \in Nat /\ count <= Size /\ Size \in Nat /\ queue \in [0..(Size - 1) -> Fd \cup {NoFd}]
  BY ServerAssumption, SMTT(60) DEF RingTypeOK
<1>2. ASSUME NEW i \in 1..count PROVE queue[Slot(i - 1)] \in Fd \cup {NoFd}
  <2>1. i - 1 \in 0..Size
    BY <1>1, SMTT(60)
  <2>2. Slot(i - 1) \in 0..(Size - 1)
    BY <2>1, SlotIs
  <2> QED BY <1>1, <2>2
<1>3. Contents \in [1..count -> Fd \cup {NoFd}]
  BY <1>2 DEF Contents
<1> QED BY <1>1, <1>3, SMTT(60)

\* A worker takes the first connection.
LEMMA TakeIsTail ==
  ASSUME RingTypeOK, count # 0, head' = (head + 1) % Size, count' = count - 1, queue' = queue
  PROVE  Contents # <<>> /\ Contents' = Tail(Contents)
<1>1. count \in Nat /\ count > 0 /\ count' \in Nat
  BY SMTT(60) DEF RingTypeOK
<1>2. Contents \in Seq(Fd \cup {NoFd}) /\ Len(Contents) = count
  BY ContentsType
<1>3. \A i \in 0..(count - 2) : Slot(i)' = Slot(i + 1)
  BY TakeRing
<1>4. Contents' = [i \in 1..(count - 1) |-> queue[Slot(i - 1)']]
  BY DEF Contents, Slot
<1>5. ASSUME NEW i \in 1..(count - 1) PROVE queue[Slot(i - 1)'] = Contents[i + 1]
  <2>1. i - 1 \in 0..(count - 2) /\ i + 1 \in 1..count /\ (i - 1) + 1 = (i + 1) - 1
    BY <1>1, SMTT(60)
  <2>2. Slot(i - 1)' = Slot((i - 1) + 1)
    BY <1>3, <2>1
  <2>3. Contents[i + 1] = queue[Slot((i + 1) - 1)]
    BY <2>1 DEF Contents
  <2>4. Slot((i - 1) + 1) = Slot((i + 1) - 1)
    BY <2>1
  <2> QED BY <2>2, <2>3, <2>4
<1>6. Contents # <<>>
  BY <1>1, <1>2, SMTT(60)
<1>7. /\ Tail(Contents) \in Seq(Fd \cup {NoFd}) /\ Len(Tail(Contents)) = count - 1
      /\ \A i \in 1..(count - 1) : Tail(Contents)[i] = Contents[i + 1]
  BY <1>2, <1>6, HeadTailProperties
<1>8. \A i \in 1..(count - 1) : Contents'[i] = Tail(Contents)[i]
  BY <1>4, <1>5, <1>7
<1>9. Contents' \in Seq(Fd \cup {NoFd}) /\ Len(Contents') = count - 1
  <2>1. \A i \in 1..(count - 1) : Contents[i + 1] \in Fd \cup {NoFd}
    BY <1>1, <1>2, SMTT(60)
  <2>2. Contents' \in [1..(count - 1) -> Fd \cup {NoFd}]
    BY <1>4, <1>5, <2>1
  <2> QED BY <1>1, <2>2, SMTT(60)
<1>10. Contents' = Tail(Contents)
  BY <1>7, <1>8, <1>9, SeqEqual
<1> QED BY <1>6, <1>10

\* The accepting thread adds a connection at the end.
LEMMA EnqueueIsAppend ==
  ASSUME RingTypeOK, count < Size, NEW f \in Fd, head' = head, count' = count + 1,
         queue' = [queue EXCEPT ![Slot(count)] = f]
  PROVE  Len(Contents) < Size /\ Contents' = Append(Contents, f)
<1>1. count \in Nat /\ count' \in Nat
  BY SMTT(60) DEF RingTypeOK
<1>2. Contents \in Seq(Fd \cup {NoFd}) /\ Len(Contents) = count
  BY ContentsType
<1>3. queue'[Slot(count)] = f /\ \A i \in Queued : queue'[i] = queue[i]
  BY EnqueueRing
<1>4. Contents' = [i \in 1..(count + 1) |-> queue'[Slot(i - 1)]]
  BY SMTT(60) DEF Contents, Slot
<1>5. ASSUME NEW i \in 1..count PROVE queue'[Slot(i - 1)] = Contents[i]
  <2>1. i - 1 \in 0..(count - 1)
    BY <1>1, SMTT(60)
  <2>2. Slot(i - 1) \in Queued
    BY <2>1 DEF Queued
  <2> QED BY <1>3, <2>2 DEF Contents
<1>6. (count + 1) - 1 = count
  BY <1>1, SMTT(60)
<1>7. queue'[Slot((count + 1) - 1)] = f
  BY <1>3, <1>6
<1>8. /\ Append(Contents, f) \in Seq(Fd \cup {NoFd}) /\ Len(Append(Contents, f)) = count + 1
      /\ \A i \in 1..count : Append(Contents, f)[i] = Contents[i]
      /\ Append(Contents, f)[count + 1] = f
  BY <1>2, AppendProperties, SMTT(60)
<1>9. ASSUME NEW i \in 1..(count + 1)
      PROVE  queue'[Slot(i - 1)] = Append(Contents, f)[i]
  <2>1. CASE i = count + 1
    BY <1>7, <1>8, <2>1
  <2>2. CASE i # count + 1
    <3>1. i \in 1..count
      BY <1>1, <2>2, SMTT(60)
    <3> QED BY <1>5, <1>8, <3>1
  <2> QED BY <2>1, <2>2
<1>10. Contents' \in Seq(Fd \cup {NoFd}) /\ Len(Contents') = count + 1
  <2>1. \A i \in 1..(count + 1) : Append(Contents, f)[i] \in Fd \cup {NoFd}
    BY <1>1, <1>8, SMTT(60)
  <2>2. Contents' \in [1..(count + 1) -> Fd \cup {NoFd}]
    BY <1>4, <1>9, <2>1
  <2> QED BY <1>1, <2>2, SMTT(60)
<1>11. \A i \in 1..(count + 1) : Contents'[i] = Append(Contents, f)[i]
  BY <1>4, <1>9
<1>12. Contents' = Append(Contents, f)
  BY <1>8, <1>10, <1>11, SeqEqual
<1> QED BY <1>2, <1>12

\* The ring implements a first-in first-out queue, whatever its size: the
\* indices that worker_run and concurrent_server_run compute modulo SERVER_QUEUE
\* neither lose, repeat nor reorder a connection.
THEOREM RingAlwaysFifo == Spec => RingIsFifo
<1>1. Init => Contents = <<>>
  <2>1. Init => count = 0
    BY DEF Init
  <2> QED BY <2>1, SMTT(60) DEF Contents
<1>2. ServerInv /\ [Next]_vars => [Fifo!FifoNext]_Contents
  <2> SUFFICES ASSUME ServerInv, [Next]_vars
      PROVE  \/ \E x \in Fd : Len(Contents) < Size /\ Contents' = Append(Contents, x)
             \/ Contents # <<>> /\ Contents' = Tail(Contents)
             \/ Contents' = <<>>
             \/ Contents' = Contents
    BY DEF Fifo!FifoNext, Fifo!Put, Fifo!Get, Fifo!Clear, Contents
  <2>1. RingTypeOK /\ Apart /\ ServerTypeOK
    BY DEF ServerInv, ServerTypeOK
  <2>2. CASE \E w \in Worker : Take(w)
    BY <2>1, <2>2, TakeIsTail DEF Take
  <2>3. CASE Enqueue
    <3>1. got \in Fd
      BY <2>1, <2>3 DEF Enqueue, Apart, ServerTypeOK
    <3> QED BY <2>1, <2>3, <3>1, EnqueueIsAppend DEF Enqueue
  <2>4. CASE StopAll
    <3>1. count' = 0
      BY <2>4 DEF StopAll
    <3> QED BY <3>1, SMTT(60) DEF Contents
  <2>5. CASE UNCHANGED ring
    BY <2>5 DEF ring, Contents, Slot
  <2>6. (\E w \in Worker : Take(w)) \/ Enqueue \/ StopAll \/ UNCHANGED ring
    BY DEF Next, WorkerStep, AcceptorStep, MainStep, Over, vars, StartWorker, Exit, Wait, Wake,
           HandlerReturns, Finish, RunEnds, MainStop, Destroy, Created, CreateFails, Unwound,
           Destroyed, AcceptFails, Reject, Accept
  <2> QED BY <2>2, <2>3, <2>4, <2>5, <2>6
<1> QED BY <1>1, <1>2, ServerInvariant, PTL DEF Spec, RingIsFifo, Fifo!FifoSpec, Fifo!FifoInit, Contents

=============================================================================
