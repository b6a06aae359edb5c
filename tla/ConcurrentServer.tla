-------------------------- MODULE ConcurrentServer --------------------------
(***************************************************************************)
(* The thread pool that serves the connections of a Peer or Super Peer     *)
(* (concurrent_server.c): an accepting thread fills a ring of descriptors, *)
(* workers take them from it, and the main thread stops and destroys the   *)
(* pool while both are running.                                            *)
(*                                                                         *)
(* A step is a critical section of the pool's mutex or what a thread does  *)
(* between two of them.  Descriptors are numbers that the system uses      *)
(* again as soon as they are closed.  A condition variable may wake a      *)
(* waiter without a signal.  A handler is the external code that serves    *)
(* one connection: it returns at any time, and certainly after its         *)
(* connection was shut down.                                               *)
(***************************************************************************)
EXTENDS Naturals, FiniteSets

CONSTANTS Worker,  \* SERVER_WORKERS threads
          Size,    \* SERVER_QUEUE
          Fd,      \* descriptors of connections
          NoFd     \* -1

ASSUME ServerAssumption == Size \in Nat \ {0} /\ NoFd \notin Fd

VARIABLES main,      \* what the main thread does with the pool
          acceptor,  \* where concurrent_server_run is
          got,       \* the descriptor it has just accepted
          worker,    \* where each worker_run is
          fd,        \* its local variable fd
          active,    \* server->active
          stopping,
          queue, head, count,
          listening, \* the listening socket was not shut down
          open,      \* the connections whose descriptor is open
          shut       \* the open connections that were shut down

ring == <<queue, head, count>>

vars == <<main, acceptor, got, worker, fd, active, stopping, ring, listening, open, shut>>

Init ==
  /\ main = "create" /\ acceptor = "none" /\ got = NoFd
  /\ worker = [w \in Worker |-> "new"]
  /\ fd = [w \in Worker |-> NoFd]
  /\ active = [w \in Worker |-> NoFd]
  /\ stopping = FALSE
  /\ queue = [i \in 0..(Size - 1) |-> NoFd] /\ head = 0 /\ count = 0
  /\ listening = TRUE /\ open = {} /\ shut = {}

\* pthread_cond_broadcast
Broadcast == worker' = [w \in Worker |-> IF worker[w] = "wait" THEN "lock" ELSE worker[w]]

\* The slots of the ring in use, oldest first.
Slot(i) == (head + i) % Size

Queued == {Slot(i) : i \in 0..(count - 1)}

----------------------------------------------------------------------------
(* concurrent_server_create *)

StartWorker(w) ==
  /\ main = "create" /\ worker[w] = "new"
  /\ worker' = [worker EXCEPT ![w] = "lock"]
  /\ UNCHANGED <<main, acceptor, got, fd, active, stopping, ring, listening, open, shut>>

\* All workers run: the accepting thread starts.
Created ==
  /\ main = "create" /\ \A w \in Worker : worker[w] # "new"
  /\ main' = "run" /\ acceptor' = "accept"
  /\ UNCHANGED <<got, worker, fd, active, stopping, ring, listening, open, shut>>

\* A thread cannot be created: stop the ones that were.
CreateFails ==
  /\ main = "create" /\ \E w \in Worker : worker[w] = "new"
  /\ main' = "unwind" /\ stopping' = TRUE /\ Broadcast
  /\ UNCHANGED <<acceptor, got, fd, active, ring, listening, open, shut>>

Unwound ==
  /\ main = "unwind" /\ \A w \in Worker : worker[w] \in {"new", "exit"}
  /\ main' = "failed"
  /\ UNCHANGED <<acceptor, got, worker, fd, active, stopping, ring, listening, open, shut>>

----------------------------------------------------------------------------
(* worker_run *)

Exit(w) ==
  /\ worker[w] = "lock" /\ stopping
  /\ worker' = [worker EXCEPT ![w] = "exit"]
  /\ UNCHANGED <<main, acceptor, got, fd, active, stopping, ring, listening, open, shut>>

Wait(w) ==
  /\ worker[w] = "lock" /\ ~stopping /\ count = 0
  /\ worker' = [worker EXCEPT ![w] = "wait"]
  /\ UNCHANGED <<main, acceptor, got, fd, active, stopping, ring, listening, open, shut>>

\* A wakeup without a signal.
Wake(w) ==
  /\ worker[w] = "wait"
  /\ worker' = [worker EXCEPT ![w] = "lock"]
  /\ UNCHANGED <<main, acceptor, got, fd, active, stopping, ring, listening, open, shut>>

\* Mutant of Take: the descriptor is recorded by the handler, later.
TakeUnrecorded(w) ==
  /\ worker[w] = "lock" /\ ~stopping /\ count # 0
  /\ worker' = [worker EXCEPT ![w] = "handle"]
  /\ fd' = [fd EXCEPT ![w] = queue[head]]
  /\ head' = (head + 1) % Size /\ count' = count - 1
  /\ UNCHANGED <<main, acceptor, got, active, stopping, queue, listening, open, shut>>

\* Mutant of Take: the newest connection is served first.
TakeNewest(w) ==
  /\ worker[w] = "lock" /\ ~stopping /\ count # 0
  /\ worker' = [worker EXCEPT ![w] = "handle"]
  /\ fd' = [fd EXCEPT ![w] = queue[Slot(count - 1)]]
  /\ active' = [active EXCEPT ![w] = queue[Slot(count - 1)]]
  /\ count' = count - 1
  /\ UNCHANGED <<main, acceptor, got, stopping, queue, head, listening, open, shut>>

Take(w) ==
  /\ worker[w] = "lock" /\ ~stopping /\ count # 0
  /\ worker' = [worker EXCEPT ![w] = "handle"]
  /\ fd' = [fd EXCEPT ![w] = queue[head]]
  /\ active' = [active EXCEPT ![w] = queue[head]]
  /\ head' = (head + 1) % Size /\ count' = count - 1
  /\ UNCHANGED <<main, acceptor, got, stopping, queue, listening, open, shut>>

HandlerReturns(w) ==
  /\ worker[w] = "handle"
  /\ worker' = [worker EXCEPT ![w] = "done"]
  /\ UNCHANGED <<main, acceptor, got, fd, active, stopping, ring, listening, open, shut>>

Finish(w) ==
  /\ worker[w] = "done"
  /\ worker' = [worker EXCEPT ![w] = "lock"]
  /\ active' = [active EXCEPT ![w] = NoFd]
  /\ open' = open \ {fd[w]} /\ shut' = shut \ {fd[w]}
  /\ UNCHANGED <<main, acceptor, got, fd, stopping, ring, listening>>

----------------------------------------------------------------------------
(* concurrent_server_stop: one critical section *)

\* Mutant of StopAll: the sleeping workers are not woken.
StopAllSilent ==
  /\ stopping' = TRUE /\ listening' = FALSE
  /\ shut' = shut \cup {active[w] : w \in {v \in Worker : active[v] # NoFd}}
  /\ open' = open \ {queue[i] : i \in Queued}
  /\ head' = Slot(count) /\ count' = 0
  /\ UNCHANGED <<worker, queue>>

StopAll ==
  /\ stopping' = TRUE /\ listening' = FALSE
  /\ shut' = shut \cup {active[w] : w \in {v \in Worker : active[v] # NoFd}}
  /\ open' = open \ {queue[i] : i \in Queued}
  /\ head' = Slot(count) /\ count' = 0
  /\ Broadcast
  /\ UNCHANGED queue

----------------------------------------------------------------------------
(* concurrent_server_run *)

Accept(f) ==
  /\ acceptor = "accept" /\ listening
  /\ f \notin open
  /\ open' = open \cup {f} /\ got' = f /\ acceptor' = "got"
  /\ UNCHANGED <<main, worker, fd, active, stopping, ring, listening, shut>>

\* accept fails: the socket was shut down, or the process is out of descriptors.
AcceptFails ==
  /\ acceptor = "accept"
  /\ acceptor' = "end"
  /\ UNCHANGED <<main, got, worker, fd, active, stopping, ring, listening, open, shut>>

\* pthread_cond_signal: one of the waiters, if there is one, wakes up.
Signal ==
  \/ \E w \in Worker : worker[w] = "wait" /\ worker' = [worker EXCEPT ![w] = "lock"]
  \/ (\A w \in Worker : worker[w] # "wait") /\ UNCHANGED worker

\* Mutant of Enqueue: a worker is only woken when the queue was not empty.
EnqueueSilent ==
  /\ acceptor = "got" /\ ~stopping /\ count < Size
  /\ queue' = [queue EXCEPT ![Slot(count)] = got] /\ count' = count + 1
  /\ IF count # 0 THEN Signal ELSE UNCHANGED worker
  /\ got' = NoFd /\ acceptor' = "accept"
  /\ UNCHANGED <<main, fd, active, stopping, head, listening, open, shut>>

Enqueue ==
  /\ acceptor = "got" /\ ~stopping /\ count < Size
  /\ queue' = [queue EXCEPT ![Slot(count)] = got] /\ count' = count + 1
  /\ Signal
  /\ got' = NoFd /\ acceptor' = "accept"
  /\ UNCHANGED <<main, fd, active, stopping, head, listening, open, shut>>

\* Mutant of Reject: a connection that is not queued is forgotten.
RejectOpen ==
  /\ acceptor = "got" /\ (stopping \/ count = Size)
  /\ got' = NoFd
  /\ acceptor' = IF stopping THEN "end" ELSE "accept"
  /\ UNCHANGED <<main, worker, fd, active, stopping, ring, listening, open, shut>>

\* The pool is stopping, or the ring is full.
Reject ==
  /\ acceptor = "got" /\ (stopping \/ count = Size)
  /\ open' = open \ {got} /\ got' = NoFd
  /\ acceptor' = IF stopping THEN "end" ELSE "accept"
  /\ UNCHANGED <<main, worker, fd, active, stopping, ring, listening, shut>>

RunEnds ==
  /\ acceptor = "end"
  /\ StopAll
  /\ acceptor' = "returned"
  /\ UNCHANGED <<main, got, fd, active>>

----------------------------------------------------------------------------
(* The main thread: stop, join the accepting thread, destroy *)

MainStop ==
  /\ main = "run"
  /\ StopAll
  /\ main' = "stopped"
  /\ UNCHANGED <<acceptor, got, fd, active>>

\* The accepting thread is joined; destroy begins with another stop.
Destroy ==
  /\ main = "stopped" /\ acceptor = "returned"
  /\ StopAll
  /\ main' = "joining"
  /\ UNCHANGED <<acceptor, got, fd, active>>

Destroyed ==
  /\ main = "joining" /\ \A w \in Worker : worker[w] = "exit"
  /\ main' = "destroyed"
  /\ UNCHANGED <<acceptor, got, worker, fd, active, stopping, ring, listening, open, shut>>

----------------------------------------------------------------------------

WorkerStep(w) == Exit(w) \/ Wait(w) \/ Take(w) \/ Finish(w)

AcceptorStep == AcceptFails \/ Enqueue \/ Reject \/ RunEnds

MainStep == Created \/ Unwound \/ Destroy \/ Destroyed

\* The server is not asked to stop again once it is destroyed or never started.
Over == main \in {"destroyed", "failed"} /\ UNCHANGED vars

Next ==
  \/ \E w \in Worker : StartWorker(w) \/ WorkerStep(w) \/ Wake(w) \/ HandlerReturns(w)
  \/ CreateFails \/ MainStop \/ MainStep
  \/ AcceptorStep \/ \E f \in Fd : Accept(f)
  \/ Over

Spec == Init /\ [][Next]_vars

\* The threads are scheduled, accept fails once the socket is shut down, and a
\* handler returns once its connection is shut down (recv returns 0).
Fairness ==
  /\ \A w \in Worker : /\ WF_vars(WorkerStep(w))
                       /\ WF_vars(HandlerReturns(w) /\ fd[w] \in shut)
  /\ WF_vars(MainStep) /\ WF_vars(Enqueue \/ Reject \/ RunEnds)
  /\ WF_vars(AcceptFails /\ ~listening)

FairSpec == Spec /\ Fairness

----------------------------------------------------------------------------
(* Properties *)

\* Who is responsible for a descriptor.
Holders ==
  (IF acceptor = "got" THEN {<<"acceptor", 0>>} ELSE {})
  \cup {<<"queue", i>> : i \in Queued}
  \cup {<<"worker", w>> : w \in {v \in Worker : worker[v] \in {"handle", "done"}}}

Holds(h) == CASE h[1] = "acceptor" -> got
              [] h[1] = "queue" -> queue[h[2]]
              [] h[1] = "worker" -> fd[h[2]]

\* Every open connection is in exactly one pair of hands, and nobody holds a
\* closed descriptor: none leaks, none is closed twice, and no thread uses a
\* number the system has given to another connection, whoever stops the pool.
\* When destroy returns, and when create fails, none is left open.
OneHolder ==
  /\ open = {Holds(h) : h \in Holders}
  /\ \A g, h \in Holders : Holds(g) = Holds(h) => g = h
  /\ main \in {"destroyed", "failed"} => open = {}

\* What stop shuts down is what the workers serve: active[w] is the open
\* connection of w, and no connection is served on after a stop without having
\* been shut down.
StopReachesHandlers ==
  /\ \A w \in Worker : active[w] # NoFd => active[w] = fd[w] /\ active[w] \in open
  /\ stopping => \A w \in Worker : worker[w] = "handle" => fd[w] \in shut

\* The ring is a first-in first-out queue of at most SERVER_QUEUE connections.
Fifo == INSTANCE BoundedFifo
          WITH Item <- Fd, fifo <- [i \in 1..count |-> queue[Slot(i - 1)]]

RingIsFifo == Fifo!FifoSpec

\* Once the main thread has stopped the pool, destroy returns: no worker is left
\* sleeping, and no handler or accept blocks for ever. A create that could not
\* start every thread returns as well, after joining those it had started.
ShutdownEnds == /\ (main = "stopped") ~> (main = "destroyed")
                /\ (main = "unwind") ~> (main = "failed")

\* A queued connection is served in the end, unless the handlers of all workers
\* are busy at the same time.
QueueIsServed ==
  \A f \in Fd : (\E i \in Queued : queue[i] = f) ~>
     \/ \A i \in Queued : queue[i] # f
     \/ \A w \in Worker : worker[w] = "handle"

=============================================================================
