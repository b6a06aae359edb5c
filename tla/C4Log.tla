------------------------------- MODULE C4Log -------------------------------
(***************************************************************************)
(* The durable operation log of a Super Peer and its transaction journal   *)
(* (c4_log.c).  A node keeps two files: the log of committed entries, and  *)
(* a journal of PREPARE, COMMIT and ABORT records.  Every public operation *)
(* runs under the log's mutex, so an operation is one action.  A process   *)
(* may be killed at any time, also between the two writes of a commit or   *)
(* in the middle of a journal record or of an entry, and reopens its files *)
(* when it comes back: reopening cuts an incomplete entry off the log and  *)
(* replays the journal one record at a time.                               *)
(*                                                                         *)
(* Everything is indexed by the node, so that C4Commit and C4Election can  *)
(* use these actions as the steps of their handlers.                       *)
(*                                                                         *)
(* Abstractions: an entry's checksum is a function of its other fields and *)
(* is left out; what a failing write has written is truncated away, and    *)
(* the truncation succeeds (its result is not looked at), so it changes    *)
(* nothing (except the second write of a commit); memory does not run out. *)
(***************************************************************************)
EXTENDS Naturals, Sequences

CONSTANTS Node,      \* the Super Peers
          TxId,      \* transaction identifiers
          Payload,   \* announced operations
          Index,     \* the log indices and versions in use
          NoEntry    \* the zeroed entry of a transaction known only by its id

\* index and version of a stored entry are never zero (c4_log.c:444)
ASSUME IndexAssumption == Index \subseteq Nat \ {0}

Entry == [index : Index, version : Index, txid : TxId, payload : Payload]

ASSUME NoEntryAssumption == NoEntry \notin Entry

VARIABLES status,    \* "open", "loading" (c4_log_open running), "closed", "failed"
          log,       \* the complete entries of the log file, also the table in memory
          journal,   \* the complete records of the journal file
          torn,      \* which of the two files end in an incomplete entry or record
          txns,      \* the transaction table in memory
          pos        \* the journal record c4_log_open is at

logVars == <<status, log, journal, torn, txns, pos>>

\* The entry of an aborted transaction that was never prepared is zeroed.
Txn == [state : {"PREPARED", "COMMITTED", "ABORTED"}, entry : Entry]
       \cup [state : {"UNKNOWN", "ABORTED"}, entry : {NoEntry}]

Unknown == [state |-> "UNKNOWN", entry |-> NoEntry]

NoTransactions == [t \in TxId |-> Unknown]

PrepareRecord(e) == [type |-> "PREPARE", txid |-> e.txid, entry |-> e]

DecisionRecord(type, t) == [type |-> type, txid |-> t, entry |-> NoEntry]

Record == {PrepareRecord(e) : e \in Entry}
          \cup {DecisionRecord(type, t) : type \in {"COMMIT", "ABORT"}, t \in TxId}

----------------------------------------------------------------------------
(* The log *)

LastIndex(n) == Len(log[n])

LastVersion(n) == IF log[n] = <<>> THEN 0 ELSE log[n][Len(log[n])].version

HasEntry(n, e) == \E i \in DOMAIN log[n] : log[n][i] = e

HasTxId(n, t) == \E i \in DOMAIN log[n] : log[n][i].txid = t

\* Mutant of IsNext: a transaction may be appended twice.
IsNextTwice(n, e) == e.index = LastIndex(n) + 1 /\ e.version = LastVersion(n) + 1

\* Mutant of IsNext: entries are appended in the order of arrival.
IsNextUnordered(n, e) == ~HasTxId(n, e.txid)

\* The entry is new and is exactly the next one.
IsNext(n, e) ==
  /\ ~HasTxId(n, e.txid)
  /\ e.index = LastIndex(n) + 1
  /\ e.version = LastVersion(n) + 1

\* append_locked returns 0.
AppendAccepts(n, e) == HasEntry(n, e) \/ IsNext(n, e)

LogWith(n, e) == IF IsNext(n, e) THEN Append(log[n], e) ELSE log[n]

\* What the read loop of c4_log_open requires of the log file.
Replayable(s) ==
  \A i \in DOMAIN s :
     /\ s[i].index = i
     /\ s[i].version = IF i = 1 THEN 1 ELSE s[i - 1].version + 1
     /\ \A j \in 1..(i - 1) : s[j].txid # s[i].txid

----------------------------------------------------------------------------
(* The transaction table *)

\* Prepared transactions that still reserve an index past the end of the log.
Pending(n) == {t \in TxId : /\ txns[n][t].state = "PREPARED"
                            /\ txns[n][t].entry.index > LastIndex(n)}

\* Mutant of Expected: reserved indices are forgotten.
ExpectedUnreserved(n, e) == e.index = LastIndex(n) + 1 /\ e.version = LastVersion(n) + 1

\* The index and version a new PREPARE must carry: the next ones after the
\* log, or after the highest reserved index.
Expected(n, e) ==
  \/ /\ Pending(n) = {}
     /\ e.index = LastIndex(n) + 1
     /\ e.version = LastVersion(n) + 1
  \/ \E t \in Pending(n) :
        /\ \A u \in Pending(n) : txns[n][u].entry.index <= txns[n][t].entry.index
        /\ e.index = txns[n][t].entry.index + 1
        /\ e.version = txns[n][t].entry.version + 1

\* Mutant of IsNewPrepare: the tombstone of an aborted transaction is ignored.
IsNewPrepareAgain(n, e) == txns[n][e.txid].state \in {"UNKNOWN", "ABORTED"} /\ Expected(n, e)

IsNewPrepare(n, e) == txns[n][e.txid].state = "UNKNOWN" /\ Expected(n, e)

\* c4_log_prepare returns 0: the vote is new, or repeats one already given.
PrepareAccepts(n, e) ==
  \/ IsNewPrepare(n, e)
  \/ txns[n][e.txid].state \in {"PREPARED", "COMMITTED"} /\ txns[n][e.txid].entry = e

\* The transaction is one c4_log_commit acts on.
Committable(n, t) == txns[n][t].state \in {"PREPARED", "COMMITTED"}

\* c4_log_commit returns 0.
CommitAccepts(n, t) == Committable(n, t) /\ AppendAccepts(n, txns[n][t].entry)

\* The transaction is one c4_log_abort changes.
Abortable(n, t) == txns[n][t].state \in {"UNKNOWN", "PREPARED"}

\* The journal and the table after COMMIT t.
JournalCommit(n, t) ==
  /\ journal' = IF txns[n][t].state = "PREPARED"
                THEN [journal EXCEPT ![n] = Append(@, DecisionRecord("COMMIT", t))]
                ELSE journal
  /\ txns' = [txns EXCEPT ![n][t] = [state |-> "COMMITTED", entry |-> @.entry]]

----------------------------------------------------------------------------
(* Operations of an open log.  A refused call changes nothing. *)

Prepare(n, e) ==
  /\ status[n] = "open"
  /\ IsNewPrepare(n, e)
  /\ journal' = [journal EXCEPT ![n] = Append(@, PrepareRecord(e))]
  /\ txns' = [txns EXCEPT ![n][e.txid] = [state |-> "PREPARED", entry |-> e]]
  /\ UNCHANGED <<status, log, torn, pos>>

\* The decision stays journalled when the log refuses the entry.
Commit(n, t) ==
  /\ status[n] = "open"
  /\ Committable(n, t)
  /\ JournalCommit(n, t)
  /\ log' = [log EXCEPT ![n] = LogWith(n, txns[n][t].entry)]
  /\ UNCHANGED <<status, torn, pos>>

\* The second write of a commit fails: the decision is journalled, and the
\* entry is not in the log.
CommitWriteError(n, t) ==
  /\ status[n] = "open"
  /\ Committable(n, t)
  /\ IsNext(n, txns[n][t].entry)
  /\ JournalCommit(n, t)
  /\ UNCHANGED <<status, log, torn, pos>>

Abort(n, t) ==
  /\ status[n] = "open"
  /\ Abortable(n, t)
  /\ journal' = [journal EXCEPT ![n] = Append(@, DecisionRecord("ABORT", t))]
  /\ txns' = [txns EXCEPT ![n][t] = [state |-> "ABORTED", entry |-> @.entry]]
  /\ UNCHANGED <<status, log, torn, pos>>

\* An entry received from another replica; the table is not consulted.
AppendEntry(n, e) ==
  /\ status[n] = "open"
  /\ IsNext(n, e)
  /\ log' = [log EXCEPT ![n] = Append(@, e)]
  /\ UNCHANGED <<status, journal, torn, txns, pos>>

----------------------------------------------------------------------------
(* The process is killed *)

Stopped(n) ==
  /\ status' = [status EXCEPT ![n] = "closed"]
  /\ txns' = [txns EXCEPT ![n] = NoTransactions]
  /\ pos' = [pos EXCEPT ![n] = 1]

Crash(n) ==
  /\ status[n] \in {"open", "loading"}
  /\ Stopped(n)
  /\ UNCHANGED <<log, journal, torn>>

\* Killed in a commit, when the decision is journalled and the entry is not yet,
\* or not completely, written.
CrashInCommit(n, t) ==
  /\ status[n] = "open"
  /\ txns[n][t].state = "PREPARED"
  /\ journal' = [journal EXCEPT ![n] = Append(@, DecisionRecord("COMMIT", t))]
  /\ \E tail \in SUBSET {"log"} : torn' = [torn EXCEPT ![n] = @ \cup tail]
  /\ Stopped(n)
  /\ UNCHANGED log

\* Killed while a journal record is being written.
CrashInRecord(n) ==
  /\ status[n] = "open"
  /\ torn' = [torn EXCEPT ![n] = @ \cup {"journal"}]
  /\ Stopped(n)
  /\ UNCHANGED <<log, journal>>

\* Killed while an entry is being written, by an operation or by c4_log_open.
CrashInEntry(n) ==
  /\ status[n] \in {"open", "loading"}
  /\ torn' = [torn EXCEPT ![n] = @ \cup {"log"}]
  /\ Stopped(n)
  /\ UNCHANGED <<log, journal>>

----------------------------------------------------------------------------
(* c4_log_open: the log is read in one step, the journal record by record. *)

\* Mutant of Open: the file is not truncated behind its last complete entry.
OpenUncut(n) ==
  /\ status[n] \in {"closed", "failed"}
  /\ status' = [status EXCEPT ![n] = IF Replayable(log[n]) THEN "loading" ELSE "failed"]
  /\ pos' = [pos EXCEPT ![n] = 1]
  /\ UNCHANGED <<log, journal, torn, txns>>

\* An incomplete entry at the end of the file, which only an interrupted append
\* leaves, is cut off.
Open(n) ==
  /\ status[n] \in {"closed", "failed"}
  /\ IF Replayable(log[n])
     THEN /\ status' = [status EXCEPT ![n] = "loading"]
          /\ torn' = [torn EXCEPT ![n] = @ \ {"log"}]
     ELSE status' = [status EXCEPT ![n] = "failed"] /\ UNCHANGED torn
  /\ pos' = [pos EXCEPT ![n] = 1]
  /\ UNCHANGED <<log, journal, txns>>

AtRecord(n, type) ==
  /\ status[n] = "loading"
  /\ pos[n] <= Len(journal[n])
  /\ journal[n][pos[n]].type = type

\* c4_log_open frees what it has read and returns an error.
LoadFails(n) ==
  /\ status' = [status EXCEPT ![n] = "failed"]
  /\ txns' = [txns EXCEPT ![n] = NoTransactions]
  /\ UNCHANGED <<log, journal, torn, pos>>

\* c4_log_open goes on to the next record, having set transaction t.
Loaded(n, t, st, e) ==
  /\ txns' = [txns EXCEPT ![n][t] = [state |-> st, entry |-> e]]
  /\ pos' = [pos EXCEPT ![n] = @ + 1]
  /\ UNCHANGED <<status, journal, torn>>

LoadPrepare(n) ==
  /\ AtRecord(n, "PREPARE")
  /\ LET e == journal[n][pos[n]].entry IN
     IF /\ txns[n][e.txid].state = "UNKNOWN"
        /\ IF HasTxId(n, e.txid) THEN HasEntry(n, e) ELSE Expected(n, e)
     THEN Loaded(n, e.txid, "PREPARED", e) /\ UNCHANGED log
     ELSE LoadFails(n)

\* Mutant of LoadCommit: an interrupted commit is not finished.
LoadCommitNoRedo(n) ==
  /\ AtRecord(n, "COMMIT")
  /\ LET t == journal[n][pos[n]].txid IN
     IF txns[n][t].state = "PREPARED" /\ HasEntry(n, txns[n][t].entry)
     THEN Loaded(n, t, "COMMITTED", txns[n][t].entry) /\ UNCHANGED log
     ELSE LoadFails(n)

\* A durable COMMIT whose entry is missing from the log is appended here.
LoadCommit(n) ==
  /\ AtRecord(n, "COMMIT")
  /\ LET t == journal[n][pos[n]].txid IN
     IF txns[n][t].state = "PREPARED" /\ AppendAccepts(n, txns[n][t].entry)
     THEN /\ Loaded(n, t, "COMMITTED", txns[n][t].entry)
          /\ log' = [log EXCEPT ![n] = LogWith(n, txns[n][t].entry)]
     ELSE LoadFails(n)

\* Mutant of LoadAbort: the tombstone is not loaded.
LoadAbortSkipped(n) ==
  /\ AtRecord(n, "ABORT")
  /\ pos' = [pos EXCEPT ![n] = @ + 1]
  /\ UNCHANGED <<status, log, journal, torn, txns>>

LoadAbort(n) ==
  /\ AtRecord(n, "ABORT")
  /\ LET t == journal[n][pos[n]].txid IN
     IF txns[n][t].state # "COMMITTED"
     THEN Loaded(n, t, "ABORTED", txns[n][t].entry) /\ UNCHANGED log
     ELSE LoadFails(n)

\* The end of the journal; an incomplete record there is an error.
LoadEnd(n) ==
  /\ status[n] = "loading"
  /\ pos[n] > Len(journal[n])
  /\ IF "journal" \in torn[n] THEN LoadFails(n)
     ELSE /\ status' = [status EXCEPT ![n] = "open"]
          /\ UNCHANGED <<log, journal, torn, txns, pos>>

----------------------------------------------------------------------------

\* A new node: both files are created empty.
LogInit ==
  /\ status = [n \in Node |-> "open"]
  /\ log = [n \in Node |-> <<>>]
  /\ journal = [n \in Node |-> <<>>]
  /\ torn = [n \in Node |-> {}]
  /\ txns = [n \in Node |-> NoTransactions]
  /\ pos = [n \in Node |-> 1]

Operation(n) ==
  \/ \E e \in Entry : Prepare(n, e) \/ AppendEntry(n, e)
  \/ \E t \in TxId : Commit(n, t) \/ CommitWriteError(n, t) \/ Abort(n, t)

Kill(n) ==
  \/ Crash(n)
  \/ \E t \in TxId : CrashInCommit(n, t)
  \/ CrashInRecord(n)
  \/ CrashInEntry(n)

Load(n) == LoadPrepare(n) \/ LoadCommit(n) \/ LoadAbort(n) \/ LoadEnd(n)

LogNext == \E n \in Node : Operation(n) \/ Kill(n) \/ Open(n) \/ Load(n)

LogSpec == LogInit /\ [][LogNext]_logVars

----------------------------------------------------------------------------
(* Properties *)

\* The types of the two files and of the table (c4_log.c:24-46).
LogTypeOK ==
  /\ status \in [Node -> {"open", "loading", "closed", "failed"}]
  /\ log \in [Node -> Seq(Entry)]
  /\ journal \in [Node -> Seq(Record)]
  /\ torn \in [Node -> SUBSET {"log", "journal"}]
  /\ txns \in [Node -> [TxId -> Txn]]
  /\ pos \in [Node -> Nat \ {0}]

\* Whatever mixture of commits, transfers, crashes and recoveries produced it,
\* a log file passes every check of the read loop of c4_log_open: indices and
\* versions count up from 1, and no transaction is in it twice.
LogReplayable == \A n \in Node : Replayable(log[n])

OneVoteOneDecision(j) ==
  \A i \in DOMAIN j :
     /\ \A h \in 1..(i - 1) : j[h].txid = j[i].txid =>
           j[h].type = "PREPARE" /\ j[i].type # "PREPARE"
     /\ j[i].type = "COMMIT" =>
           \E h \in 1..(i - 1) : j[h].type = "PREPARE" /\ j[h].txid = j[i].txid

\* A journal holds at most one PREPARE and one decision of a transaction, the
\* vote first, and a COMMIT only after a vote: a PREPARE that arrives after the
\* ABORT is refused, also by a node that restarted in between, so load_journal
\* never stops at a record because of its type.
JournalGrammar == \A n \in Node : OneVoteOneDecision(journal[n])

RecordIn(j, k, type, t) == \E i \in 1..k : j[i].type = type /\ j[i].txid = t

\* The table is what the first k records of the journal tell.
Tells(j, k, table) ==
  \A t \in TxId :
     /\ table[t].state = "COMMITTED" <=> RecordIn(j, k, "COMMIT", t)
     /\ table[t].state = "ABORTED" <=> RecordIn(j, k, "ABORT", t)
     /\ table[t].state = "UNKNOWN" <=> \A i \in 1..k : j[i].txid # t
     /\ table[t].state \in {"PREPARED", "COMMITTED"} =>
           \E i \in 1..k : j[i] = PrepareRecord(table[t].entry) /\ j[i].txid = t

\* The table of a running node is the one its journal tells, so a crash and a
\* successful reopen lose no vote and no decision (load_journal).
TableMatchesJournal ==
  \A n \in Node : status[n] = "open" => Tells(journal[n], Len(journal[n]), txns[n])

\* Two votes that still wait for their decision never reserve the same index.
ReservedOnce ==
  \A n \in Node : \A t, u \in Pending(n) :
     t # u => txns[n][t].entry.index # txns[n][u].entry.index

\* No entry is ever written behind an incomplete one: when a process is killed
\* in append_locked, c4_log_open cuts its part of an entry off before load_journal
\* or any operation appends again, so what is appended later can be read back.
TornEntryIsCut ==
  [][\A n \in Node : log'[n] # log[n] => "log" \notin torn[n]]_logVars

\* Nothing in the journal is out of step with the log: a vote that is not in
\* the log reserves an index past its end, a vote that is in the log is there
\* as voted, and only the last record may be a COMMIT the log does not have.
InStep(n) ==
  /\ "journal" \notin torn[n]
  /\ \A i \in DOMAIN journal[n] : journal[n][i].type = "PREPARE" =>
        LET e == journal[n][i].entry IN
        IF HasTxId(n, e.txid) THEN HasEntry(n, e) ELSE e.index > LastIndex(n)
  /\ \A i \in DOMAIN journal[n] :
        (journal[n][i].type = "COMMIT" /\ ~HasTxId(n, journal[n][i].txid)) =>
           /\ i = Len(journal[n])
           /\ \E j \in DOMAIN journal[n] :
                 /\ journal[n][j].type = "PREPARE"
                 /\ journal[n][j].txid = journal[n][i].txid
                 /\ journal[n][j].entry.index = LastIndex(n) + 1

\* c4_log_open succeeds on every pair of files that are in step; in particular
\* it finishes a commit that was interrupted between its two writes.
InStepReopens == \A n \in Node : status[n] = "failed" => ~InStep(n)

\* c4_log_open never stops at a durable COMMIT that is missing from the log.
DurableCommitsReopen ==
  \A n \in Node : (status[n] = "failed" /\ pos[n] <= Len(journal[n])) =>
     journal[n][pos[n]].type # "COMMIT"

=============================================================================
