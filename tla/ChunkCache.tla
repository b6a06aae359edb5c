----------------------------- MODULE ChunkCache -----------------------------
(***************************************************************************)
(* Reading chunks through the LFU cache of storage.c, on top of Storage:   *)
(* storage_read_chunk_internal, cache_store_locked, cache_evict_one_locked *)
(* and storage_set_cache_capacity.                                         *)
(*                                                                         *)
(* A read looks the chunk up under the mutex of the storage; when it is    *)
(* not cached the mutex is released, the file is read, and the mutex taken *)
(* again to keep a copy.  Meanwhile other threads read, keep and evict,    *)
(* and the capacity may be changed.  The cache is the list of the source,  *)
(* newest first; it is lost with the process.                              *)
(*                                                                         *)
(* The counters of hits, misses and evictions are only reported and are    *)
(* left out; frequency and cache_clock stop at Limit.                      *)
(***************************************************************************)
EXTENDS Storage, Sequences

LOCAL INSTANCE SequencesExt

CONSTANTS Reader,      \* threads that serve DOWNLOAD_REQ and LOOKUP
          Capacities,  \* the capacities that storage_set_cache_capacity sets
          Limit        \* UINT64_MAX

ASSUME CacheAssumption == Capacities \subseteq Nat /\ Limit \in Nat \ {0}

VARIABLES cache,       \* the CacheEntry list
          capacity,    \* capacity_bytes
          used,        \* used_bytes
          clock,       \* cache_clock
          reader       \* reader[r]: the read that thread r is at

cacheVars == <<cache, capacity, used, clock, reader>>

NoRead == [phase |-> "idle"]

Increment(value) == IF value < Limit THEN value + 1 ELSE value

\* cache_find_locked
Find(d, i) == {k \in DOMAIN cache : cache[k].doc = d /\ cache[k].chunk = i}

----------------------------------------------------------------------------
(* Eviction *)

Before(x, y) == x.frequency < y.frequency \/ (x.frequency = y.frequency /\ x.last < y.last)

\* Mutant of Victim: the least recently used entry, whatever its frequency.
VictimLRU(c) == CHOOSE k \in DOMAIN c : \A j \in DOMAIN c : c[k].last <= c[j].last

\* The first of the entries that no other is before.
Victim(c) ==
  CHOOSE k \in DOMAIN c : /\ \A j \in DOMAIN c : ~Before(c[j], c[k])
                          /\ \A j \in 1..(k - 1) : Before(c[k], c[j])

\* Entries are evicted until the rest fits into limit.
RECURSIVE EvictTo(_, _, _)
EvictTo(c, bytes, limit) ==
  IF bytes <= limit \/ c = <<>> THEN [cache |-> c, used |-> bytes]
  ELSE EvictTo(RemoveAt(c, Victim(c)), bytes - c[Victim(c)].size, limit)

----------------------------------------------------------------------------
(* Reads *)

Finished(d) == up /\ mem[d] # NoDoc /\ mem[d].state = FINISHED

ReadHit(r, d, i) ==
  /\ reader[r] = NoRead /\ Finished(d)
  /\ \E k \in Find(d, i) :
        cache' = [cache EXCEPT ![k].frequency = Increment(@), ![k].last = Increment(clock)]
  /\ clock' = Increment(clock)
  /\ UNCHANGED <<vars, capacity, used, reader>>

ReadMiss(r, d, i) ==
  /\ reader[r] = NoRead /\ Finished(d) /\ Find(d, i) = {}
  /\ reader' = [reader EXCEPT ![r] = [phase |-> "file", doc |-> d, chunk |-> i,
                                      record |-> mem[d].chunks[i]]]
  /\ UNCHANGED <<vars, cache, capacity, used, clock>>

\* The file is read without the mutex; that may fail.
ReadFile(r) ==
  /\ reader[r].phase = "file"
  /\ LET dir == disk[reader[r].doc].objects IN
     \/ /\ dir # NoDir /\ dir.files[reader[r].chunk] # NoChunk
        /\ reader' = [reader EXCEPT ![r] = [phase |-> "keep", doc |-> @.doc, chunk |-> @.chunk,
                                            record |-> @.record,
                                            data |-> dir.files[reader[r].chunk]]]
     \/ reader' = [reader EXCEPT ![r] = NoRead]
  /\ UNCHANGED <<vars, cache, capacity, used, clock>>

\* The others are evicted as needed; then the chunk of the read q is put in front,
\* unless there is no memory for it.
With(q) ==
  LET size == Size[q.record]
      rest == EvictTo(cache, used, capacity - size)
  IN  \/ /\ cache' = <<[doc |-> q.doc, chunk |-> q.chunk, data |-> q.data, size |-> size,
                        frequency |-> 1, last |-> Increment(clock)]>> \o rest.cache
         /\ used' = rest.used + size
         /\ clock' = Increment(clock)
      \/ cache' = rest.cache /\ used' = rest.used /\ UNCHANGED clock

\* Mutant of KeepCopy: the cache is not searched again.
KeepCopyBlind(q) ==
  IF capacity = 0 \/ Size[q.record] > capacity THEN UNCHANGED <<cache, used, clock>> ELSE With(q)

\* cache_store_locked.  Another thread may have kept a copy of the chunk since the
\* cache was searched.
KeepCopy(q) ==
  IF capacity = 0 \/ Size[q.record] > capacity \/ Find(q.doc, q.chunk) # {}
  THEN UNCHANGED <<cache, used, clock>> ELSE With(q)

ReadDone(r) ==
  /\ reader[r].phase = "keep"
  /\ KeepCopy(reader[r])
  /\ reader' = [reader EXCEPT ![r] = NoRead]
  /\ UNCHANGED <<vars, capacity>>

\* storage_set_cache_capacity
SetCapacity(bytes) ==
  /\ up /\ bytes # capacity
  /\ capacity' = bytes
  /\ LET rest == EvictTo(cache, used, bytes) IN cache' = rest.cache /\ used' = rest.used
  /\ UNCHANGED <<vars, clock, reader>>

----------------------------------------------------------------------------

CacheInit ==
  /\ Init
  /\ cache = <<>> /\ capacity \in Capacities /\ used = 0 /\ clock = 0
  /\ reader = [r \in Reader |-> NoRead]

\* A step of the storage; a process that ends loses the cache.
StorageStep ==
  /\ Next
  /\ IF up' THEN UNCHANGED cacheVars
     ELSE /\ cache' = <<>> /\ used' = 0 /\ clock' = 0
          /\ reader' = [r \in Reader |-> NoRead]
          /\ UNCHANGED capacity

CacheNext ==
  \/ StorageStep
  \/ \E r \in Reader : ReadFile(r) \/ ReadDone(r)
  \/ \E r \in Reader, d \in Doc, i \in Chunk : ReadHit(r, d, i) \/ ReadMiss(r, d, i)
  \/ \E bytes \in Capacities : SetCapacity(bytes)

CacheSpec == CacheInit /\ [][CacheNext]_<<vars, cacheVars>> /\ Fairness

----------------------------------------------------------------------------
(* Properties *)

\* However reads of the same chunk, evictions and changes of the capacity
\* interleave, a chunk is cached once, used_bytes is the size of what is cached and
\* within the capacity, and what a hit returns is the file of a FINISHED document.
CacheIsSound ==
  /\ \A j, k \in DOMAIN cache : j # k => <<cache[j].doc, cache[j].chunk>> # <<cache[k].doc, cache[k].chunk>>
  /\ used = FoldSeq(LAMBDA e, sum : e.size + sum, 0, cache)
  /\ used <= capacity
  /\ \A k \in DOMAIN cache : LET e == cache[k] IN
        Finished(e.doc) /\ e.data = Good /\ disk[e.doc].objects.files[e.chunk] = e.data

\* An entry that is evicted is used no more often than any that stays, and if as
\* often, not more recently.
LeastUsedEvicted ==
  [][up' => \A x, y \in {cache[k] : k \in DOMAIN cache} :
        /\ \A k \in DOMAIN cache' : <<cache'[k].doc, cache'[k].chunk>> # <<x.doc, x.chunk>>
        /\ \E k \in DOMAIN cache' : <<cache'[k].doc, cache'[k].chunk>> = <<y.doc, y.chunk>>
        => ~Before(y, x)]_cacheVars

=============================================================================
