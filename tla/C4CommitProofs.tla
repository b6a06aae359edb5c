--------------------------- MODULE C4CommitProofs ---------------------------
(***************************************************************************)
(* Proofs about C4Log and C4Commit, for any number of Super Peers,         *)
(* transactions, payloads, indices and faults, and for every behaviour of  *)
(* election, membership and state transfer.                                *)
(*                                                                         *)
(* The first part is about the logs alone.  The inductive invariant adds   *)
(* to the checked properties what the table holds while c4_log_open is     *)
(* half-way through the journal, and that every vote in the journal took   *)
(* the next index when it was given.                                       *)
(*                                                                         *)
(* The second part shows that every step of C4Commit is a step of the logs *)
(* of C4Log or leaves them alone, so that the first part holds there too.  *)
(* Its inductive invariant says of every submission which votes and which  *)
(* entries are on disk for the answers it has got.                         *)
(*                                                                         *)
(* The third part is about the directory of a running Super Peer: it holds *)
(* exactly what is committed in the log, but for the entries a thread is   *)
(* just about to apply and those the metadata refuses.  That is inductive  *)
(* together with DueIsReady and LearnedIsLogged: what such a thread is     *)
(* going to apply is still in the log, and in the table if it was voted    *)
(* on, when it gets to it.                                                 *)
(***************************************************************************)
EXTENDS C4Commit, TLAPS

\* A step that names no prover is for Zenon, which gets up to a minute.
USE ZenonT(60)

----------------------------------------------------------------------------
(* Type correctness *)

\* The fields of a journal record.
LEMMA RecordTypes ==
  ASSUME NEW r \in Record
  PROVE  /\ r.txid \in TxId
         /\ r.type \in {"PREPARE", "COMMIT", "ABORT"}
         /\ r.type = "PREPARE" => r.entry \in Entry /\ r = PrepareRecord(r.entry)
         /\ r.type # "PREPARE" => r = DecisionRecord(r.type, r.txid)
BY SMTT(60) DEF Record, PrepareRecord, DecisionRecord, Entry

\* The fields of a transaction in the table, and what a decision makes of it.
LEMMA TxnTypes ==
  ASSUME LogTypeOK, NEW n \in Node, NEW t \in TxId
  PROVE  /\ txns[n][t] \in Txn
         /\ txns[n][t].state \in {"UNKNOWN", "PREPARED", "COMMITTED", "ABORTED"}
         /\ txns[n][t].state \in {"PREPARED", "COMMITTED"} => txns[n][t].entry \in Entry
         /\ [state |-> "ABORTED", entry |-> txns[n][t].entry] \in Txn
         /\ txns[n][t].state \in {"PREPARED", "COMMITTED"} =>
               [state |-> "COMMITTED", entry |-> txns[n][t].entry] \in Txn
<1>1. txns[n][t] \in Txn
  BY DEF LogTypeOK
<1> QED BY <1>1 DEF Txn

\* append_locked keeps a sequence of entries.
LEMMA LogWithType ==
  ASSUME LogTypeOK, NEW n \in Node, NEW e \in Entry
  PROVE  LogWith(n, e) \in Seq(Entry)
BY SMTT(60) DEF LogTypeOK, LogWith

\* The empty table is a table.
LEMMA NoTransactionsType == NoTransactions \in [TxId -> Txn]
BY DEF NoTransactions, Unknown, Txn

\* A record that is being loaded is a record of the journal.
LEMMA AtRecordTypes ==
  ASSUME LogTypeOK, NEW n \in Node, NEW type, AtRecord(n, type), NEW r, r = journal[n][pos[n]]
  PROVE  /\ r \in Record /\ r.type = type /\ r.txid \in TxId
         /\ status[n] = "loading" /\ pos[n] \in Nat /\ pos[n] <= Len(journal[n])
<1>1. journal[n] \in Seq(Record) /\ pos[n] \in Nat \ {0}
  BY DEF LogTypeOK
<1>2. status[n] = "loading" /\ pos[n] <= Len(journal[n]) /\ r.type = type
  BY DEF AtRecord
<1>3. r \in Record
  BY <1>1, <1>2, SMTT(60)
<1> QED BY <1>1, <1>2, <1>3, RecordTypes

\* What loading a PREPARE record does.
LEMMA LoadPrepareEffect ==
  ASSUME NEW n \in Node, LoadPrepare(n), NEW r, r = journal[n][pos[n]]
  PROVE  \/ LoadFails(n)
         \/ /\ txns[n][r.entry.txid].state = "UNKNOWN"
            /\ Loaded(n, r.entry.txid, "PREPARED", r.entry)
            /\ log' = log
BY DEF LoadPrepare

\* What loading a COMMIT record does.
LEMMA LoadCommitEffect ==
  ASSUME NEW n \in Node, LoadCommit(n), NEW r, r = journal[n][pos[n]]
  PROVE  \/ LoadFails(n)
         \/ /\ txns[n][r.txid].state = "PREPARED"
            /\ Loaded(n, r.txid, "COMMITTED", txns[n][r.txid].entry)
            /\ log' = [log EXCEPT ![n] = LogWith(n, txns[n][r.txid].entry)]
BY DEF LoadCommit

\* What loading an ABORT record does.
LEMMA LoadAbortEffect ==
  ASSUME NEW n \in Node, LoadAbort(n), NEW r, r = journal[n][pos[n]]
  PROVE  \/ LoadFails(n)
         \/ /\ txns[n][r.txid].state # "COMMITTED"
            /\ Loaded(n, r.txid, "ABORTED", txns[n][r.txid].entry)
            /\ log' = log
BY DEF LoadAbort

\* Setting a transaction keeps the type of the tables.
LEMMA TableTypes ==
  ASSUME LogTypeOK, NEW n \in Node, NEW t \in TxId, NEW x \in Txn
  PROVE  [txns EXCEPT ![n][t] = x] \in [Node -> [TxId -> Txn]]
<1>1. txns \in [Node -> [TxId -> Txn]]
  BY DEF LogTypeOK
<1>2. [txns[n] EXCEPT ![t] = x] \in [TxId -> Txn]
  BY <1>1
<1> QED BY <1>1, <1>2

\* Appending a record keeps the type of the journals.
LEMMA JournalTypes ==
  ASSUME LogTypeOK, NEW n \in Node, NEW r \in Record
  PROVE  [journal EXCEPT ![n] = Append(@, r)] \in [Node -> Seq(Record)]
<1>1. journal \in [Node -> Seq(Record)]
  BY DEF LogTypeOK
<1>2. Append(journal[n], r) \in Seq(Record)
  BY <1>1, SMTT(60)
<1> QED BY <1>1, <1>2

\* The record of a decision is a record.
LEMMA DecisionType ==
  ASSUME NEW t \in TxId
  PROVE  DecisionRecord("COMMIT", t) \in Record /\ DecisionRecord("ABORT", t) \in Record
BY SMTT(60) DEF Record

\* A step that keeps the types of log, journal and table, and the others, keeps the types.
LEMMA TypesTogether ==
  ASSUME LogTypeOK, log' \in [Node -> Seq(Entry)], journal' \in [Node -> Seq(Record)],
         txns' \in [Node -> [TxId -> Txn]], UNCHANGED <<status, torn, pos>>
  PROVE  LogTypeOK'
BY DEF LogTypeOK

\* The types one by one.
LEMMA TypesApart ==
  ASSUME LogTypeOK
  PROVE  /\ log \in [Node -> Seq(Entry)] /\ journal \in [Node -> Seq(Record)]
         /\ txns \in [Node -> [TxId -> Txn]]
BY DEF LogTypeOK

\* Loading a record keeps the types.
LEMMA LoadedTypes ==
  ASSUME LogTypeOK, NEW n \in Node, NEW t \in TxId, NEW st, NEW e,
         [state |-> st, entry |-> e] \in Txn, Loaded(n, t, st, e),
         log' \in [Node -> Seq(Entry)]
  PROVE  LogTypeOK'
<1>1. txns' = [txns EXCEPT ![n][t] = [state |-> st, entry |-> e]]
  BY DEF Loaded
<1>2. txns' \in [Node -> [TxId -> Txn]]
  BY <1>1, TableTypes
<1>3. /\ pos' = [pos EXCEPT ![n] = pos[n] + 1]
      /\ status' = status /\ journal' = journal /\ torn' = torn
  BY DEF Loaded
<1> QED BY <1>2, <1>3, SMTT(60) DEF LogTypeOK

\* Marking or cutting the ends of a node's files keeps the type of the marks.
LEMMA TornTypes ==
  ASSUME LogTypeOK, NEW n \in Node, NEW tail \in SUBSET {"log", "journal"}
  PROVE  /\ [torn EXCEPT ![n] = torn[n] \cup tail] \in [Node -> SUBSET {"log", "journal"}]
         /\ [torn EXCEPT ![n] = torn[n] \ tail] \in [Node -> SUBSET {"log", "journal"}]
<1>1. torn \in [Node -> SUBSET {"log", "journal"}]
  BY DEF LogTypeOK
<1>2. torn[n] \cup tail \in SUBSET {"log", "journal"} /\ torn[n] \ tail \in SUBSET {"log", "journal"}
  BY <1>1
<1> QED BY <1>1, <1>2

\* Two empty files have their types.
LEMMA LogTypeInit == LogInit => LogTypeOK
BY NoTransactionsType, SMTT(60) DEF LogInit, LogTypeOK

\* Every step of a log keeps the types.
LEMMA LogTypeStep == LogTypeOK /\ [LogNext]_logVars => LogTypeOK'
<1> SUFFICES ASSUME LogTypeOK, [LogNext]_logVars PROVE LogTypeOK'
  OBVIOUS
<1>1. ASSUME NEW n \in Node, NEW e \in Entry, Prepare(n, e) PROVE LogTypeOK'
  <2>1. PrepareRecord(e) \in Record
    BY SMTT(60) DEF Record
  <2>2. [state |-> "PREPARED", entry |-> e] \in Txn /\ e.txid \in TxId
    BY DEF Txn, Entry
  <2>3. journal' \in [Node -> Seq(Record)]
    BY <1>1, <2>1, JournalTypes DEF Prepare
  <2>4. txns' \in [Node -> [TxId -> Txn]]
    BY <1>1, <2>2, TableTypes DEF Prepare
  <2> QED BY <1>1, <2>3, <2>4, TypesTogether, TypesApart DEF Prepare
<1>2. ASSUME NEW n \in Node, NEW e \in Entry, AppendEntry(n, e) PROVE LogTypeOK'
  BY <1>2, SMTT(60) DEF AppendEntry, LogTypeOK
<1>3. ASSUME NEW n \in Node, NEW t \in TxId, Committable(n, t), JournalCommit(n, t)
      PROVE  journal' \in [Node -> Seq(Record)] /\ txns' \in [Node -> [TxId -> Txn]]
  <2>1. [state |-> "COMMITTED", entry |-> txns[n][t].entry] \in Txn
    BY <1>3, TxnTypes DEF Committable
  <2>2. txns' \in [Node -> [TxId -> Txn]]
    BY <1>3, <2>1, TableTypes DEF JournalCommit
  <2>3. journal' \in [Node -> Seq(Record)]
    BY <1>3, DecisionType, JournalTypes, TypesApart DEF JournalCommit
  <2> QED BY <2>2, <2>3
<1>4. ASSUME NEW n \in Node, NEW t \in TxId, Commit(n, t) PROVE LogTypeOK'
  <2>1. /\ Committable(n, t) /\ JournalCommit(n, t)
        /\ log' = [log EXCEPT ![n] = LogWith(n, txns[n][t].entry)]
        /\ UNCHANGED <<status, torn, pos>>
    BY <1>4 DEF Commit
  <2>2. txns[n][t].entry \in Entry
    BY <2>1, TxnTypes DEF Committable
  <2>3. LogWith(n, txns[n][t].entry) \in Seq(Entry)
    BY <2>2, LogWithType
  <2>4. log' \in [Node -> Seq(Entry)]
    BY <2>1, <2>3, TypesApart
  <2> QED BY <1>3, <2>1, <2>4, TypesTogether
<1>5. ASSUME NEW n \in Node, NEW t \in TxId, CommitWriteError(n, t) PROVE LogTypeOK'
  <2>1. Committable(n, t) /\ JournalCommit(n, t) /\ UNCHANGED <<status, log, torn, pos>>
    BY <1>5 DEF CommitWriteError
  <2> QED BY <1>3, <2>1, TypesTogether, TypesApart
<1>6. ASSUME NEW n \in Node, NEW t \in TxId, Abort(n, t) PROVE LogTypeOK'
  <2>1. /\ journal' = [journal EXCEPT ![n] = Append(@, DecisionRecord("ABORT", t))]
        /\ txns' = [txns EXCEPT ![n][t] = [state |-> "ABORTED", entry |-> @.entry]]
        /\ UNCHANGED <<status, log, torn, pos>>
    BY <1>6 DEF Abort
  <2>2. [state |-> "ABORTED", entry |-> txns[n][t].entry] \in Txn
    BY TxnTypes
  <2>3. txns' \in [Node -> [TxId -> Txn]]
    BY <2>1, <2>2, TableTypes
  <2>4. journal' \in [Node -> Seq(Record)]
    BY <2>1, DecisionType, JournalTypes
  <2> QED BY <2>1, <2>3, <2>4, TypesTogether, TypesApart
<1>7. ASSUME NEW n \in Node, Stopped(n), log' = log, journal' \in [Node -> Seq(Record)],
             torn' \in [Node -> SUBSET {"log", "journal"}]
      PROVE  LogTypeOK'
  BY <1>7, NoTransactionsType, SMTT(60) DEF Stopped, LogTypeOK
<1>8. ASSUME NEW n \in Node, NEW t \in TxId, CrashInCommit(n, t) PROVE LogTypeOK'
  <2>1. /\ journal' = [journal EXCEPT ![n] = Append(@, DecisionRecord("COMMIT", t))]
        /\ Stopped(n) /\ log' = log
    BY <1>8 DEF CrashInCommit
  <2>2. journal' \in [Node -> Seq(Record)]
    BY <2>1, DecisionType, JournalTypes
  <2>3. torn' \in [Node -> SUBSET {"log", "journal"}]
    <3>1. PICK tail \in SUBSET {"log"} : torn' = [torn EXCEPT ![n] = torn[n] \cup tail]
      BY <1>8 DEF CrashInCommit
    <3> QED BY <3>1, TornTypes
  <2> QED BY <1>7, <2>1, <2>2, <2>3
<1>9. ASSUME NEW n \in Node, Crash(n) \/ CrashInRecord(n) \/ CrashInEntry(n) PROVE LogTypeOK'
  <2>1. Stopped(n) /\ log' = log /\ journal' = journal
    BY <1>9 DEF Crash, CrashInRecord, CrashInEntry
  <2>2. torn' \in [Node -> SUBSET {"log", "journal"}]
    <3>1. PICK tail \in SUBSET {"log", "journal"} : torn' = torn \/ torn' = [torn EXCEPT ![n] = torn[n] \cup tail]
      BY <1>9 DEF Crash, CrashInRecord, CrashInEntry
    <3>2. torn \in [Node -> SUBSET {"log", "journal"}]
      BY DEF LogTypeOK
    <3> QED BY <3>1, <3>2, TornTypes
  <2> QED BY <1>7, <2>1, <2>2, TypesApart
<1>10. ASSUME NEW n \in Node, Open(n) PROVE LogTypeOK'
  <2>1. torn' \in [Node -> SUBSET {"log", "journal"}]
    <3>1. torn' = torn \/ torn' = [torn EXCEPT ![n] = torn[n] \ {"log"}]
      BY <1>10 DEF Open
    <3>2. torn \in [Node -> SUBSET {"log", "journal"}] /\ {"log"} \in SUBSET {"log", "journal"}
      BY DEF LogTypeOK
    <3> QED BY <3>1, <3>2, TornTypes
  <2>2. status' \in [Node -> {"open", "loading", "closed", "failed"}]
    BY <1>10 DEF Open, LogTypeOK
  <2>3. pos' \in [Node -> Nat \ {0}]
    BY <1>10, SMTT(60) DEF Open, LogTypeOK
  <2> QED BY <1>10, <2>1, <2>2, <2>3 DEF Open, LogTypeOK
<1>11. ASSUME NEW n \in Node, LoadFails(n) PROVE LogTypeOK'
  BY <1>11, NoTransactionsType DEF LoadFails, LogTypeOK
<1>12. ASSUME NEW n \in Node, LoadPrepare(n) PROVE LogTypeOK'
  <2>1. PICK r : r = journal[n][pos[n]]
    OBVIOUS
  <2>2. AtRecord(n, "PREPARE")
    BY <1>12 DEF LoadPrepare
  <2>3. r \in Record /\ r.type = "PREPARE"
    BY <2>1, <2>2, AtRecordTypes, SMTT(60)
  <2>a. LoadFails(n) \/ (Loaded(n, r.entry.txid, "PREPARED", r.entry) /\ log' = log)
    BY <1>12, <2>1, LoadPrepareEffect
  <2>4. r.entry \in Entry /\ r.entry.txid \in TxId
    BY <2>3, RecordTypes DEF Entry
  <2>5. [state |-> "PREPARED", entry |-> r.entry] \in Txn
    BY <2>4 DEF Txn
  <2>6. CASE LoadFails(n)
    BY <1>11, <2>6
  <2>7. CASE Loaded(n, r.entry.txid, "PREPARED", r.entry) /\ log' = log
    BY <2>4, <2>5, <2>7, LoadedTypes, TypesApart
  <2> QED BY <2>a, <2>6, <2>7
<1>13. ASSUME NEW n \in Node, LoadCommit(n) PROVE LogTypeOK'
  <2>1. PICK r : r = journal[n][pos[n]]
    OBVIOUS
  <2>2. AtRecord(n, "COMMIT")
    BY <1>13 DEF LoadCommit
  <2>3. r.txid \in TxId
    BY <2>1, <2>2, AtRecordTypes
  <2>a. \/ LoadFails(n)
        \/ /\ txns[n][r.txid].state = "PREPARED"
           /\ Loaded(n, r.txid, "COMMITTED", txns[n][r.txid].entry)
           /\ log' = [log EXCEPT ![n] = LogWith(n, txns[n][r.txid].entry)]
    BY <1>13, <2>1, LoadCommitEffect, SMTT(60)
  <2>4. CASE LoadFails(n)
    BY <1>11, <2>4
  <2>5. CASE ~LoadFails(n)
    <3>1. /\ txns[n][r.txid].entry \in Entry
          /\ [state |-> "COMMITTED", entry |-> txns[n][r.txid].entry] \in Txn
      BY <2>a, <2>3, <2>5, TxnTypes
    <3>2. LogWith(n, txns[n][r.txid].entry) \in Seq(Entry)
      BY <3>1, LogWithType
    <3>3. log' \in [Node -> Seq(Entry)]
      BY <2>a, <2>5, <3>2, TypesApart
    <3> QED BY <2>a, <2>3, <2>5, <3>1, <3>3, LoadedTypes
  <2> QED BY <2>4, <2>5
<1>14. ASSUME NEW n \in Node, LoadAbort(n) PROVE LogTypeOK'
  <2>1. PICK r : r = journal[n][pos[n]]
    OBVIOUS
  <2>2. AtRecord(n, "ABORT")
    BY <1>14 DEF LoadAbort
  <2>3. r.txid \in TxId
    BY <2>1, <2>2, AtRecordTypes
  <2>a. LoadFails(n) \/ (Loaded(n, r.txid, "ABORTED", txns[n][r.txid].entry) /\ log' = log)
    BY <1>14, <2>1, LoadAbortEffect
  <2>4. [state |-> "ABORTED", entry |-> txns[n][r.txid].entry] \in Txn
    BY <2>3, TxnTypes
  <2>5. CASE LoadFails(n)
    BY <1>11, <2>5
  <2>6. CASE Loaded(n, r.txid, "ABORTED", txns[n][r.txid].entry) /\ log' = log
    BY <2>3, <2>4, <2>6, LoadedTypes, TypesApart
  <2> QED BY <2>a, <2>5, <2>6
<1>15. ASSUME NEW n \in Node, LoadEnd(n) PROVE LogTypeOK'
  <2>1. CASE "journal" \in torn[n]
    BY <1>11, <1>15, <2>1 DEF LoadEnd
  <2>2. CASE "journal" \notin torn[n]
    BY <1>15, <2>2 DEF LoadEnd, LogTypeOK
  <2> QED BY <2>1, <2>2
<1>16. CASE UNCHANGED logVars
  BY <1>16 DEF logVars, LogTypeOK
<1> QED
  BY <1>1, <1>2, <1>4, <1>5, <1>6, <1>8, <1>9, <1>10, <1>12, <1>13, <1>14, <1>15, <1>16
     DEF LogNext, Operation, Kill, Load

\* The types of c4_log.c's files and table are kept by every step.
THEOREM LogTypeCorrect == LogSpec => []LogTypeOK
BY LogTypeInit, LogTypeStep, PTL DEF LogSpec

----------------------------------------------------------------------------
(* The log *)

\* A log that is replayable stays so when the next entry is appended.
LEMMA AppendReplayable ==
  ASSUME NEW s \in Seq(Entry), NEW e \in Entry, Replayable(s),
         \A i \in DOMAIN s : s[i].txid # e.txid,
         e.index = Len(s) + 1,
         e.version = (IF s = <<>> THEN 0 ELSE s[Len(s)].version) + 1
  PROVE  Replayable(Append(s, e))
<1> DEFINE a == Append(s, e)
<1>1. /\ a \in Seq(Entry) /\ Len(a) = Len(s) + 1 /\ Len(s) \in Nat
      /\ \A i \in 1..Len(s) : a[i] = s[i]
      /\ a[Len(s) + 1] = e
      /\ DOMAIN a = 1..(Len(s) + 1) /\ DOMAIN s = 1..Len(s)
  BY SMTT(60)
<1> HIDE DEF a
<1>2. ASSUME NEW i \in DOMAIN a
      PROVE  /\ a[i].index = i
             /\ a[i].version = IF i = 1 THEN 1 ELSE a[i - 1].version + 1
             /\ \A j \in 1..(i - 1) : a[j].txid # a[i].txid
  <2>1. CASE i \in 1..Len(s)
    <3>1. i # 1 => i - 1 \in 1..Len(s)
      BY <1>1, <2>1, SMTT(60)
    <3>2. \A j \in 1..(i - 1) : j \in 1..Len(s)
      BY <1>1, <2>1, SMTT(60)
    <3> QED BY <1>1, <2>1, <3>1, <3>2, SMTT(60) DEF Replayable
  <2>2. CASE i = Len(s) + 1
    <3>1. a[i].index = i /\ \A j \in 1..(i - 1) : a[j].txid # a[i].txid
      BY <1>1, <2>2, SMTT(60)
    <3>2. CASE s = <<>>
      BY <1>1, <2>2, <3>1, <3>2, SMTT(60)
    <3>3. CASE s # <<>>
      <4>1. Len(s) \in 1..Len(s) /\ i # 1 /\ i - 1 = Len(s)
        BY <1>1, <2>2, <3>3, SMTT(60)
      <4> QED BY <1>1, <2>2, <3>1, <3>3, <4>1
    <3> QED BY <3>2, <3>3
  <2> QED BY <1>1, <2>1, <2>2, SMTT(60)
<1> QED BY <1>2 DEF Replayable, a

\* A step changes a log, if at all, by appending the next entry.
LEMMA LogStep ==
  ASSUME LogTypeOK, [LogNext]_logVars, NEW m \in Node
  PROVE  \/ log'[m] = log[m]
         \/ \E e \in Entry : IsNext(m, e) /\ log'[m] = Append(log[m], e)
<1> USE DEF LogTypeOK
<1>1. ASSUME NEW n \in Node, NEW t \in TxId, Commit(n, t)
      PROVE  log'[m] = log[m] \/ \E e \in Entry : IsNext(m, e) /\ log'[m] = Append(log[m], e)
  BY <1>1, TxnTypes DEF Commit, Committable, LogWith
<1>2. ASSUME NEW n \in Node, LoadCommit(n)
      PROVE  log'[m] = log[m] \/ \E e \in Entry : IsNext(m, e) /\ log'[m] = Append(log[m], e)
  <2>1. PICK r : r = journal[n][pos[n]]
    OBVIOUS
  <2>2. AtRecord(n, "COMMIT")
    BY <1>2 DEF LoadCommit
  <2>3. CASE LoadFails(n)
    BY <2>3 DEF LoadFails
  <2>a. \/ LoadFails(n)
        \/ /\ txns[n][r.txid].state = "PREPARED"
           /\ log' = [log EXCEPT ![n] = LogWith(n, txns[n][r.txid].entry)]
    BY <1>2, <2>1, LoadCommitEffect
  <2>4. CASE ~LoadFails(n)
    <3>1. r.txid \in TxId
      BY <2>1, <2>2, AtRecordTypes
    <3>2. txns[n][r.txid].entry \in Entry
      BY <2>a, <2>4, <3>1, TxnTypes
    <3> QED BY <2>a, <2>4, <3>2 DEF LogWith
  <2> QED BY <2>3, <2>4
<1>3. ASSUME NEW n \in Node,
             \/ \E e \in Entry : Prepare(n, e)
             \/ \E t \in TxId : CommitWriteError(n, t) \/ Abort(n, t) \/ CrashInCommit(n, t)
             \/ Crash(n) \/ CrashInRecord(n) \/ CrashInEntry(n) \/ Open(n)
             \/ LoadPrepare(n) \/ LoadAbort(n) \/ LoadEnd(n)
      PROVE  log' = log
  BY <1>3 DEF Prepare, CommitWriteError, Abort, CrashInCommit, Crash, CrashInRecord, CrashInEntry, Open,
              LoadPrepare, LoadAbort, LoadEnd, LoadFails
<1>4. ASSUME NEW n \in Node, NEW e \in Entry, AppendEntry(n, e)
      PROVE  log'[m] = log[m] \/ \E d \in Entry : IsNext(m, d) /\ log'[m] = Append(log[m], d)
  BY <1>4 DEF AppendEntry
<1>5. CASE UNCHANGED logVars
  BY <1>5 DEF logVars
<1> QED BY <1>1, <1>2, <1>3, <1>4, <1>5 DEF LogNext, Operation, Kill, Load

\* Every step keeps the logs replayable.
LEMMA LogReplayableStep == LogTypeOK /\ LogReplayable /\ [LogNext]_logVars => LogReplayable'
<1> SUFFICES ASSUME LogTypeOK, LogReplayable, [LogNext]_logVars, NEW n \in Node
             PROVE  Replayable(log'[n])
  BY DEF LogReplayable, Replayable
<1>1. log[n] \in Seq(Entry) /\ Replayable(log[n])
  BY DEF LogTypeOK, LogReplayable
<1>2. ASSUME NEW e \in Entry, IsNext(n, e) PROVE Replayable(Append(log[n], e))
  BY <1>1, <1>2, AppendReplayable DEF IsNext, HasTxId, LastIndex, LastVersion
<1> QED BY <1>1, <1>2, LogStep

\* Whatever commits, transfers, crashes and recoveries a node goes through, the
\* read loop of c4_log_open accepts its log file.
THEOREM LogAlwaysReplayable == LogSpec => []LogReplayable
<1>1. LogInit => LogReplayable
  BY SMTT(60) DEF LogInit, LogReplayable, Replayable
<1> QED BY <1>1, LogReplayableStep, LogTypeCorrect, PTL DEF LogSpec

\* What a running process knows of its log file: c4_log_open has cut it.
FileIsCut == \A n \in Node : status[n] \in {"open", "loading"} => "log" \notin torn[n]

\* A log is appended to by a process that runs.
LEMMA AppenderRuns ==
  ASSUME LogTypeOK, [LogNext]_logVars, NEW m \in Node, log'[m] # log[m]
  PROVE  status[m] \in {"open", "loading"}
<1> USE DEF LogTypeOK
<1>1. ASSUME NEW n \in Node, Operation(n), n = m PROVE status[m] = "open"
  BY <1>1 DEF Operation, Prepare, AppendEntry, Commit, CommitWriteError, Abort
<1>2. ASSUME NEW n \in Node, Load(n), n = m PROVE status[m] = "loading"
  BY <1>2 DEF Load, LoadPrepare, LoadCommit, LoadAbort, LoadEnd, AtRecord
<1>3. ASSUME NEW n \in Node, n # m, Operation(n) \/ Load(n) PROVE log'[m] = log[m]
  BY <1>3 DEF Operation, Prepare, AppendEntry, Commit, CommitWriteError, Abort,
              Load, LoadPrepare, LoadCommit, LoadAbort, LoadEnd, LoadFails
<1>4. ASSUME NEW n \in Node, Kill(n) \/ Open(n) PROVE log'[m] = log[m]
  BY <1>4 DEF Kill, Crash, CrashInCommit, CrashInRecord, CrashInEntry, Open
<1> QED BY <1>1, <1>2, <1>3, <1>4 DEF LogNext, logVars

\* A process that stops leaves the files of the others alone, and does not run.
LEMMA StoppedIsCut ==
  ASSUME LogTypeOK, FileIsCut, NEW n \in Node, Stopped(n),
         \A m \in Node \ {n} : torn'[m] = torn[m]
  PROVE  FileIsCut'
<1>1. \A m \in Node \ {n} : status'[m] = status[m]
  BY DEF Stopped, LogTypeOK
<1>2. status'[n] = "closed"
  BY DEF Stopped, LogTypeOK
<1> QED BY <1>1, <1>2 DEF FileIsCut

\* Every step keeps the file of a running process cut.
LEMMA FileIsCutStep == LogTypeOK /\ LogReplayable /\ FileIsCut /\ [LogNext]_logVars => FileIsCut'
<1> SUFFICES ASSUME LogTypeOK, LogReplayable, FileIsCut, [LogNext]_logVars PROVE FileIsCut'
  OBVIOUS
<1>1. ASSUME NEW n \in Node, Operation(n) PROVE UNCHANGED <<status, torn>>
  BY <1>1 DEF Operation, Prepare, AppendEntry, Commit, CommitWriteError, Abort
<1>2. ASSUME NEW n \in Node, Kill(n) PROVE FileIsCut'
  <2>1. Stopped(n)
    BY <1>2 DEF Kill, Crash, CrashInCommit, CrashInRecord, CrashInEntry
  <2>2. \A m \in Node \ {n} : torn'[m] = torn[m]
    BY <1>2 DEF Kill, Crash, CrashInCommit, CrashInRecord, CrashInEntry, LogTypeOK
  <2> QED BY <2>1, <2>2, StoppedIsCut
<1>3. ASSUME NEW n \in Node, Open(n) PROVE FileIsCut'
  <2>1. /\ status' = [status EXCEPT ![n] = "loading"]
        /\ torn' = [torn EXCEPT ![n] = torn[n] \ {"log"}]
    BY <1>3 DEF Open, LogReplayable
  <2>2. "log" \notin torn'[n] /\ \A m \in Node \ {n} : status'[m] = status[m] /\ torn'[m] = torn[m]
    BY <2>1 DEF LogTypeOK
  <2> QED BY <2>2 DEF FileIsCut
<1>4. ASSUME NEW n \in Node, Load(n) PROVE FileIsCut'
  <2>1. /\ status[n] = "loading" /\ torn' = torn
        /\ \A m \in Node \ {n} : status'[m] = status[m]
    BY <1>4 DEF Load, LoadPrepare, LoadCommit, LoadAbort, LoadEnd, AtRecord, Loaded, LoadFails, LogTypeOK
  <2> QED BY <2>1 DEF FileIsCut
<1> QED BY <1>1, <1>2, <1>3, <1>4 DEF LogNext, logVars, FileIsCut

\* No entry is written behind an incomplete one, wherever in append_locked, in a commit or in
\* c4_log_open itself the process was killed, and however often.
THEOREM NothingBehindTornEntry == LogSpec => TornEntryIsCut
<1>1. LogInit => FileIsCut
  BY DEF LogInit, FileIsCut
<1>2. LogTypeOK /\ FileIsCut /\ [LogNext]_logVars =>
        [\A n \in Node : log'[n] # log[n] => "log" \notin torn[n]]_logVars
  BY AppenderRuns DEF FileIsCut
<1> QED BY <1>1, <1>2, FileIsCutStep, LogTypeCorrect, LogAlwaysReplayable, PTL DEF LogSpec, TornEntryIsCut

----------------------------------------------------------------------------
(* The journal and the table *)

\* A table in which the transaction of record r may take that record.
Takes(table, r) ==
  /\ r.type = "PREPARE" => table[r.txid].state = "UNKNOWN"
  /\ r.type = "COMMIT" => table[r.txid].state = "PREPARED"
  /\ r.type = "ABORT" => table[r.txid].state \in {"UNKNOWN", "PREPARED"}

\* What record r makes of the table.
With(table, r) ==
  [table EXCEPT ![r.txid] =
     CASE r.type = "PREPARE" -> [state |-> "PREPARED", entry |-> r.entry]
       [] r.type = "COMMIT" -> [state |-> "COMMITTED", entry |-> @.entry]
       [] r.type = "ABORT" -> [state |-> "ABORTED", entry |-> @.entry]]

\* The cases of With.
LEMMA WithIs ==
  ASSUME NEW table, NEW r
  PROVE  /\ r.type = "PREPARE" =>
              With(table, r) = [table EXCEPT ![r.txid] = [state |-> "PREPARED", entry |-> r.entry]]
         /\ r.type = "COMMIT" =>
              With(table, r) = [table EXCEPT ![r.txid] = [state |-> "COMMITTED", entry |-> @.entry]]
         /\ r.type = "ABORT" =>
              With(table, r) = [table EXCEPT ![r.txid] = [state |-> "ABORTED", entry |-> @.entry]]
BY DEF With

\* Taking one more record keeps the table what the records tell.
LEMMA TellsNext ==
  ASSUME NEW j \in Seq(Record), NEW k \in Nat, k + 1 <= Len(j),
         NEW table \in [TxId -> Txn], Tells(j, k, table), Takes(table, j[k + 1])
  PROVE  Tells(j, k + 1, With(table, j[k + 1]))
<1> DEFINE r == j[k + 1]
           new == With(table, r)
<1>1. r \in Record /\ r.txid \in TxId /\ r.type \in {"PREPARE", "COMMIT", "ABORT"}
  BY RecordTypes, SMTT(60)
<1>2. r.type = "PREPARE" => r = PrepareRecord(r.entry)
  BY <1>1, RecordTypes
<1>3. 1..(k + 1) = (1..k) \cup {k + 1}
  BY SMTT(60)
<1>4. /\ \A t \in TxId \ {r.txid} : new[t] = table[t]
      /\ r.type = "PREPARE" => new[r.txid] = [state |-> "PREPARED", entry |-> r.entry]
      /\ r.type = "COMMIT" => new[r.txid] = [state |-> "COMMITTED", entry |-> table[r.txid].entry]
      /\ r.type = "ABORT" => new[r.txid] = [state |-> "ABORTED", entry |-> table[r.txid].entry]
  BY <1>1 DEF With
<1>5. ASSUME NEW t \in TxId, NEW type \in {"COMMIT", "ABORT"}
      PROVE  RecordIn(j, k + 1, type, t) <=>
               (RecordIn(j, k, type, t) \/ (r.type = type /\ r.txid = t))
  BY <1>3 DEF RecordIn
<1>6. ASSUME NEW t \in TxId
      PROVE  (\A i \in 1..(k + 1) : j[i].txid # t) <=>
               ((\A i \in 1..k : j[i].txid # t) /\ r.txid # t)
  BY <1>3
<1> HIDE DEF r, new
<1>7. ASSUME NEW t \in TxId, t # r.txid
      PROVE  /\ new[t].state = "COMMITTED" <=> RecordIn(j, k + 1, "COMMIT", t)
             /\ new[t].state = "ABORTED" <=> RecordIn(j, k + 1, "ABORT", t)
             /\ new[t].state = "UNKNOWN" <=> \A i \in 1..(k + 1) : j[i].txid # t
             /\ new[t].state \in {"PREPARED", "COMMITTED"} =>
                  \E i \in 1..(k + 1) : j[i] = PrepareRecord(new[t].entry) /\ j[i].txid = t
  BY <1>3, <1>4, <1>5, <1>6, <1>7, SMTT(60) DEF Tells
<1>8. /\ new[r.txid].state = "COMMITTED" <=> RecordIn(j, k + 1, "COMMIT", r.txid)
      /\ new[r.txid].state = "ABORTED" <=> RecordIn(j, k + 1, "ABORT", r.txid)
      /\ new[r.txid].state = "UNKNOWN" <=> \A i \in 1..(k + 1) : j[i].txid # r.txid
      /\ new[r.txid].state \in {"PREPARED", "COMMITTED"} =>
           \E i \in 1..(k + 1) : j[i] = PrepareRecord(new[r.txid].entry) /\ j[i].txid = r.txid
  <2>1. ~RecordIn(j, k, "COMMIT", r.txid) /\ ~RecordIn(j, k, "ABORT", r.txid)
    BY <1>1 DEF Tells, Takes, r
  <2>2. CASE r.type = "PREPARE"
    <3>1. j[k + 1] = PrepareRecord(new[r.txid].entry) /\ j[k + 1].txid = r.txid
      BY <1>2, <1>4, <2>2, SMTT(60) DEF r
    <3> QED BY <1>1, <1>3, <1>4, <1>5, <1>6, <2>1, <2>2, <3>1, SMTT(60)
  <2>3. CASE r.type = "COMMIT"
    <3>1. table[r.txid].state = "PREPARED"
      BY <2>3 DEF Takes, r
    <3>2. \E i \in 1..k : j[i] = PrepareRecord(table[r.txid].entry) /\ j[i].txid = r.txid
      BY <1>1, <3>1 DEF Tells
    <3> QED BY <1>1, <1>3, <1>4, <1>5, <1>6, <2>1, <2>3, <3>2, SMTT(60)
  <2>4. CASE r.type = "ABORT"
    BY <1>1, <1>4, <1>5, <1>6, <2>1, <2>4, SMTT(60)
  <2> QED BY <1>1, <2>2, <2>3, <2>4
<1> QED BY <1>7, <1>8, SMTT(60) DEF Tells, new, r

\* Records past the first k do not change what the first k tell.
LEMMA TellsPrefix ==
  ASSUME NEW j \in Seq(Record), NEW r \in Record, NEW k \in 0..Len(j),
         NEW table \in [TxId -> Txn]
  PROVE  Tells(Append(j, r), k, table) <=> Tells(j, k, table)
<1>1. \A i \in 1..k : Append(j, r)[i] = j[i]
  BY SMTT(60)
<1> QED BY <1>1, SMTT(60) DEF Tells, RecordIn

\* A record the table takes keeps the grammar of the journal.
LEMMA GrammarNext ==
  ASSUME NEW j \in Seq(Record), NEW r \in Record, NEW table \in [TxId -> Txn],
         Tells(j, Len(j), table), Takes(table, r), OneVoteOneDecision(j)
  PROVE  OneVoteOneDecision(Append(j, r))
<1> DEFINE a == Append(j, r)
<1>1. /\ Len(j) \in Nat /\ DOMAIN a = 1..(Len(j) + 1) /\ DOMAIN j = 1..Len(j)
      /\ \A i \in 1..Len(j) : a[i] = j[i]
      /\ a[Len(j) + 1] = r
  BY SMTT(60)
<1>2. r.txid \in TxId /\ r.type \in {"PREPARE", "COMMIT", "ABORT"}
  BY RecordTypes
<1>3. ASSUME NEW h \in 1..Len(j), j[h].txid = r.txid
      PROVE  j[h].type = "PREPARE" /\ r.type # "PREPARE"
  <2>1. j[h] \in Record /\ j[h].type \in {"PREPARE", "COMMIT", "ABORT"}
    BY RecordTypes, SMTT(60)
  <2>2. table[r.txid].state # "UNKNOWN"
    BY <1>2, <1>3 DEF Tells
  <2>3. table[r.txid].state = "PREPARED" /\ r.type # "PREPARE"
    BY <1>2, <2>2 DEF Takes
  <2>4. ~RecordIn(j, Len(j), "COMMIT", r.txid) /\ ~RecordIn(j, Len(j), "ABORT", r.txid)
    BY <1>2, <2>3 DEF Tells
  <2> QED BY <1>3, <2>1, <2>3, <2>4 DEF RecordIn
<1>4. r.type = "COMMIT" => \E h \in 1..Len(j) : j[h].type = "PREPARE" /\ j[h].txid = r.txid
  <2> SUFFICES ASSUME r.type = "COMMIT"
               PROVE  \E h \in 1..Len(j) : j[h].type = "PREPARE" /\ j[h].txid = r.txid
    OBVIOUS
  <2>1. table[r.txid].state = "PREPARED"
    BY DEF Takes
  <2>2. PICK h \in 1..Len(j) : j[h] = PrepareRecord(table[r.txid].entry) /\ j[h].txid = r.txid
    BY <1>2, <2>1 DEF Tells
  <2> QED BY <2>2, SMTT(60) DEF PrepareRecord
<1> HIDE DEF a
<1>5. ASSUME NEW i \in DOMAIN a
      PROVE  /\ \A h \in 1..(i - 1) : a[h].txid = a[i].txid =>
                   a[h].type = "PREPARE" /\ a[i].type # "PREPARE"
             /\ a[i].type = "COMMIT" =>
                   \E h \in 1..(i - 1) : a[h].type = "PREPARE" /\ a[h].txid = a[i].txid
  <2>1. CASE i \in 1..Len(j)
    <3>1. \A h \in 1..(i - 1) : h \in 1..Len(j)
      BY <1>1, <2>1, SMTT(60)
    <3> QED BY <1>1, <2>1, <3>1, SMTT(60) DEF OneVoteOneDecision
  <2>2. CASE i = Len(j) + 1
    <3>1. 1..(i - 1) = 1..Len(j)
      BY <1>1, <2>2, SMTT(60)
    <3> QED BY <1>1, <1>3, <1>4, <2>2, <3>1
  <2> QED BY <1>1, <2>1, <2>2, SMTT(60)
<1> QED BY <1>5 DEF OneVoteOneDecision, a

\* The inductive invariant: while a journal is being loaded, the table is what
\* the records before pos tell; a node that is not running has no table.
TableInv ==
  \A n \in Node :
     /\ status[n] = "open" => Tells(journal[n], Len(journal[n]), txns[n])
     /\ status[n] = "loading" => /\ pos[n] <= Len(journal[n]) + 1
                                 /\ Tells(journal[n], pos[n] - 1, txns[n])
     /\ status[n] \in {"closed", "failed"} => txns[n] = NoTransactions

JournalInv == TableInv /\ JournalGrammar

\* The effect of an operation that writes record r.
Writes(n, r) ==
  /\ journal' = [journal EXCEPT ![n] = Append(@, r)]
  /\ txns' = [txns EXCEPT ![n] = With(@, r)]
  /\ UNCHANGED <<status, pos>>

\* The effect of loading the record at pos.
Loads(n) ==
  /\ txns' = [txns EXCEPT ![n] = With(@, journal[n][pos[n]])]
  /\ pos' = [pos EXCEPT ![n] = @ + 1]
  /\ UNCHANGED <<status, journal>>

\* An operation that writes a record the table takes keeps the invariant.
LEMMA WritesKeeps ==
  ASSUME LogTypeOK, JournalInv, NEW n \in Node, NEW r \in Record, status[n] = "open",
         Takes(txns[n], r), Writes(n, r), LogTypeOK'
  PROVE  JournalInv'
<1> DEFINE j == journal[n]
           a == Append(j, r)
<1>1. /\ j \in Seq(Record) /\ a \in Seq(Record) /\ txns[n] \in [TxId -> Txn]
      /\ Len(j) \in Nat /\ Len(a) = Len(j) + 1 /\ a[Len(j) + 1] = r
  BY SMTT(60) DEF LogTypeOK
<1>2. Tells(j, Len(j), txns[n]) /\ OneVoteOneDecision(j)
  BY DEF JournalInv, TableInv, JournalGrammar
<1>3. Tells(a, Len(j), txns[n])
  BY <1>1, <1>2, TellsPrefix, SMTT(60)
<1>4. Tells(a, Len(j) + 1, With(txns[n], r))
  <2> HIDE DEF j, a
  <2>1. Len(j) + 1 <= Len(a) /\ Takes(txns[n], a[Len(j) + 1])
    BY <1>1, SMTT(60)
  <2>2. Tells(a, Len(j) + 1, With(txns[n], a[Len(j) + 1]))
    BY <1>1, <1>3, <2>1, TellsNext
  <2> QED BY <1>1, <2>2
<1>5. OneVoteOneDecision(a)
  BY <1>1, <1>2, GrammarNext
<1>6. /\ journal'[n] = a /\ txns'[n] = With(txns[n], r) /\ status' = status /\ pos' = pos
      /\ \A m \in Node \ {n} : journal'[m] = journal[m] /\ txns'[m] = txns[m]
  BY SMTT(60) DEF Writes, LogTypeOK
<1> HIDE DEF j, a
<1>7. JournalGrammar'
  <2> SUFFICES ASSUME NEW m \in Node PROVE OneVoteOneDecision(journal'[m])
    BY DEF JournalGrammar
  <2> QED BY <1>5, <1>6 DEF JournalInv, JournalGrammar
<1>8. Tells(journal'[n], Len(journal'[n]), txns'[n])
  BY <1>1, <1>4, <1>6
<1>9. TableInv'
  <2> SUFFICES ASSUME NEW m \in Node
               PROVE  /\ status'[m] = "open" => Tells(journal'[m], Len(journal'[m]), txns'[m])
                      /\ status'[m] = "loading" => /\ pos'[m] <= Len(journal'[m]) + 1
                                                  /\ Tells(journal'[m], pos'[m] - 1, txns'[m])
                      /\ status'[m] \in {"closed", "failed"} => txns'[m] = NoTransactions
    BY DEF TableInv
  <2>1. CASE m = n
    BY <1>6, <1>8, <2>1
  <2>2. CASE m # n
    BY <1>6, <2>2 DEF JournalInv, TableInv
  <2> QED BY <2>1, <2>2
<1> QED BY <1>7, <1>9 DEF JournalInv

\* Loading a record the table takes keeps the invariant.
LEMMA LoadsKeeps ==
  ASSUME LogTypeOK, JournalInv, NEW n \in Node, status[n] = "loading",
         pos[n] <= Len(journal[n]), Takes(txns[n], journal[n][pos[n]]), Loads(n)
  PROVE  JournalInv'
<1> DEFINE k == pos[n] - 1
<1>1. /\ journal[n] \in Seq(Record) /\ txns[n] \in [TxId -> Txn] /\ pos[n] \in Nat \ {0}
      /\ k \in Nat /\ k + 1 = pos[n] /\ Len(journal[n]) \in Nat
  BY SMTT(60) DEF LogTypeOK
<1>2. Tells(journal[n], k, txns[n])
  BY DEF JournalInv, TableInv
<1>3. Tells(journal[n], k + 1, With(txns[n], journal[n][k + 1]))
  BY <1>1, <1>2, TellsNext
<1>4. /\ pos'[n] = pos[n] + 1 /\ txns'[n] = With(txns[n], journal[n][pos[n]])
      /\ journal' = journal /\ status' = status
      /\ \A m \in Node \ {n} : pos'[m] = pos[m] /\ txns'[m] = txns[m]
  BY DEF Loads, LogTypeOK
<1> HIDE DEF k
<1>5. JournalGrammar'
  BY <1>4 DEF JournalInv, JournalGrammar
<1>6. pos'[n] - 1 = k + 1 /\ pos'[n] <= Len(journal'[n]) + 1
  BY <1>1, <1>4, SMTT(60)
<1>7. Tells(journal'[n], pos'[n] - 1, txns'[n])
  BY <1>1, <1>3, <1>4, <1>6
<1>8. TableInv'
  <2> SUFFICES ASSUME NEW m \in Node
               PROVE  /\ status'[m] = "open" => Tells(journal'[m], Len(journal'[m]), txns'[m])
                      /\ status'[m] = "loading" => /\ pos'[m] <= Len(journal'[m]) + 1
                                                  /\ Tells(journal'[m], pos'[m] - 1, txns'[m])
                      /\ status'[m] \in {"closed", "failed"} => txns'[m] = NoTransactions
    BY DEF TableInv
  <2>1. CASE m = n
    BY <1>4, <1>6, <1>7, <2>1
  <2>2. CASE m # n
    BY <1>4, <2>2 DEF JournalInv, TableInv
  <2> QED BY <2>1, <2>2
<1> QED BY <1>5, <1>8 DEF JournalInv

\* The process ends, or c4_log_open gives up.
Ends(n) ==
  /\ \E st \in {"closed", "failed"} : status' = [status EXCEPT ![n] = st]
  /\ txns' = [txns EXCEPT ![n] = NoTransactions]
  /\ \A m \in Node \ {n} : journal'[m] = journal[m] /\ pos'[m] = pos[m]

\* A process that ends keeps the invariant if its journal keeps the grammar.
LEMMA EndsKeeps ==
  ASSUME LogTypeOK, JournalInv, NEW n \in Node, Ends(n), OneVoteOneDecision(journal'[n])
  PROVE  JournalInv'
<1>1. /\ status'[n] \in {"closed", "failed"} /\ txns'[n] = NoTransactions
      /\ \A m \in Node \ {n} : /\ journal'[m] = journal[m] /\ pos'[m] = pos[m]
                               /\ txns'[m] = txns[m] /\ status'[m] = status[m]
  BY DEF Ends, LogTypeOK
<1>2. JournalGrammar'
  <2> SUFFICES ASSUME NEW m \in Node PROVE OneVoteOneDecision(journal'[m])
    BY DEF JournalGrammar
  <2> QED BY <1>1 DEF JournalInv, JournalGrammar
<1>3. TableInv'
  <2> SUFFICES ASSUME NEW m \in Node
               PROVE  /\ status'[m] = "open" => Tells(journal'[m], Len(journal'[m]), txns'[m])
                      /\ status'[m] = "loading" => /\ pos'[m] <= Len(journal'[m]) + 1
                                                  /\ Tells(journal'[m], pos'[m] - 1, txns'[m])
                      /\ status'[m] \in {"closed", "failed"} => txns'[m] = NoTransactions
    BY DEF TableInv
  <2>1. CASE m = n
    BY <1>1, <2>1
  <2>2. CASE m # n
    BY <1>1, <2>2 DEF JournalInv, TableInv
  <2> QED BY <2>1, <2>2
<1> QED BY <1>2, <1>3 DEF JournalInv

\* A step that leaves journal and table alone keeps the invariant.
LEMMA SameKeeps ==
  ASSUME JournalInv, journal' = journal, status' = status, pos' = pos, txns' = txns
  PROVE  JournalInv'
BY DEF JournalInv, TableInv, JournalGrammar

\* Every step of a log keeps the invariant, one case per action.
LEMMA JournalInvStep ==
  ASSUME LogTypeOK, JournalInv, [LogNext]_logVars, LogTypeOK'
  PROVE  JournalInv'
<1>1. ASSUME NEW n \in Node, NEW e \in Entry, Prepare(n, e) PROVE JournalInv'
  <2> DEFINE r == PrepareRecord(e)
  <2>1. r \in Record /\ r.txid = e.txid /\ r.type = "PREPARE" /\ r.entry = e
    BY SMTT(60) DEF Record, PrepareRecord
  <2>2. Takes(txns[n], r) /\ status[n] = "open"
    BY <1>1, <2>1 DEF Prepare, IsNewPrepare, Takes
  <2>3. Writes(n, r)
    BY <1>1, <2>1 DEF Prepare, Writes, With, LogTypeOK
  <2> QED BY <2>1, <2>2, <2>3, WritesKeeps
<1>2. ASSUME NEW n \in Node, NEW t \in TxId, status[n] = "open", Committable(n, t),
             JournalCommit(n, t), UNCHANGED <<status, pos>>
      PROVE  JournalInv'
  <2> DEFINE r == DecisionRecord("COMMIT", t)
  <2>1. r \in Record /\ r.txid = t /\ r.type = "COMMIT"
    BY SMTT(60) DEF Record, DecisionRecord
  <2>2. CASE txns[n][t].state = "PREPARED"
    <3>1. Takes(txns[n], r)
      BY <2>1, <2>2 DEF Takes
    <3>2. Writes(n, r)
      BY <1>2, <2>1, <2>2 DEF JournalCommit, Writes, With, LogTypeOK
    <3> QED BY <1>2, <2>1, <3>1, <3>2, WritesKeeps
  <2>3. CASE txns[n][t].state = "COMMITTED"
    <3>1. journal' = journal /\ status' = status /\ pos' = pos
      BY <1>2, <2>3 DEF JournalCommit
    <3>2. txns[n][t] \in Txn
      BY TxnTypes
    <3>3. [state |-> "COMMITTED", entry |-> txns[n][t].entry] = txns[n][t]
      BY <2>3, <3>2 DEF Txn
    <3>4. txns' = txns
      BY <1>2, <3>3, SMTT(60) DEF JournalCommit, LogTypeOK
    <3> QED BY <3>1, <3>4, SameKeeps
  <2> QED BY <1>2, <2>2, <2>3 DEF Committable
<1>3. ASSUME NEW n \in Node, NEW t \in TxId, Commit(n, t) \/ CommitWriteError(n, t) PROVE JournalInv'
  BY <1>2, <1>3 DEF Commit, CommitWriteError
<1>4. ASSUME NEW n \in Node, NEW t \in TxId, Abort(n, t) PROVE JournalInv'
  <2> DEFINE r == DecisionRecord("ABORT", t)
  <2>1. r \in Record /\ r.txid = t /\ r.type = "ABORT"
    BY SMTT(60) DEF Record, DecisionRecord
  <2>2. Takes(txns[n], r) /\ status[n] = "open"
    BY <1>4, <2>1 DEF Abort, Abortable, Takes
  <2>3. Writes(n, r)
    BY <1>4, <2>1 DEF Abort, Writes, With, LogTypeOK
  <2> QED BY <2>1, <2>2, <2>3, WritesKeeps
<1>5. ASSUME NEW n \in Node, NEW e \in Entry, AppendEntry(n, e) PROVE JournalInv'
  BY <1>5, SameKeeps DEF AppendEntry
<1>6. ASSUME NEW n \in Node, Crash(n) \/ CrashInRecord(n) \/ CrashInEntry(n) \/ LoadFails(n) PROVE JournalInv'
  <2>1. Ends(n) /\ journal' = journal
    BY <1>6, SMTT(60) DEF Crash, CrashInRecord, CrashInEntry, LoadFails, Stopped, Ends, LogTypeOK
  <2> QED BY <2>1, EndsKeeps DEF JournalInv, JournalGrammar
<1>7. ASSUME NEW n \in Node, NEW t \in TxId, CrashInCommit(n, t) PROVE JournalInv'
  <2> DEFINE r == DecisionRecord("COMMIT", t)
  <2>1. r \in Record /\ r.txid = t /\ r.type = "COMMIT"
    BY SMTT(60) DEF Record, DecisionRecord
  <2>2. Ends(n) /\ journal'[n] = Append(journal[n], r)
    BY <1>7, SMTT(60) DEF CrashInCommit, Stopped, Ends, LogTypeOK
  <2>3. /\ journal[n] \in Seq(Record) /\ txns[n] \in [TxId -> Txn]
        /\ Tells(journal[n], Len(journal[n]), txns[n]) /\ OneVoteOneDecision(journal[n])
    BY <1>7 DEF CrashInCommit, LogTypeOK, JournalInv, TableInv, JournalGrammar
  <2>4. Takes(txns[n], r)
    BY <1>7, <2>1 DEF CrashInCommit, Takes
  <2> QED BY <2>1, <2>2, <2>3, <2>4, GrammarNext, EndsKeeps
<1>8. ASSUME NEW n \in Node, Open(n) PROVE JournalInv'
  <2>1. CASE status'[n] = "failed"
    <3>1. Ends(n) /\ journal' = journal
      BY <1>8, <2>1 DEF Open, Ends, LogTypeOK, JournalInv, TableInv
    <3> QED BY <3>1, EndsKeeps DEF JournalInv, JournalGrammar
  <2>2. CASE status'[n] = "loading"
    <3>1. /\ pos'[n] = 1 /\ txns'[n] = NoTransactions /\ journal' = journal
          /\ \A m \in Node \ {n} : pos'[m] = pos[m] /\ txns'[m] = txns[m] /\ status'[m] = status[m]
      BY <1>8, <2>2 DEF Open, LogTypeOK, JournalInv, TableInv
    <3>2. Tells(journal[n], 0, NoTransactions)
      BY SMTT(60) DEF Tells, RecordIn, NoTransactions, Unknown
    <3>3. Len(journal[n]) \in Nat
      BY SMTT(60) DEF LogTypeOK
    <3>4. JournalGrammar'
      BY <3>1 DEF JournalInv, JournalGrammar
    <3>5. TableInv'
      <4> SUFFICES ASSUME NEW m \in Node
                   PROVE  /\ status'[m] = "open" => Tells(journal'[m], Len(journal'[m]), txns'[m])
                          /\ status'[m] = "loading" => /\ pos'[m] <= Len(journal'[m]) + 1
                                                      /\ Tells(journal'[m], pos'[m] - 1, txns'[m])
                          /\ status'[m] \in {"closed", "failed"} => txns'[m] = NoTransactions
        BY DEF TableInv
      <4>1. CASE m = n
        BY <2>2, <3>1, <3>2, <3>3, <4>1, SMTT(60)
      <4>2. CASE m # n
        BY <3>1, <4>2 DEF JournalInv, TableInv
      <4> QED BY <4>1, <4>2
    <3> QED BY <3>4, <3>5 DEF JournalInv
  <2> QED BY <1>8, <2>1, <2>2 DEF Open, LogTypeOK
<1>9. ASSUME NEW n \in Node, LoadPrepare(n) PROVE JournalInv'
  <2>1. PICK r : r = journal[n][pos[n]]
    OBVIOUS
  <2>2. AtRecord(n, "PREPARE")
    BY <1>9 DEF LoadPrepare
  <2>3. r \in Record /\ r.type = "PREPARE" /\ status[n] = "loading" /\ pos[n] <= Len(journal[n])
    BY <2>1, <2>2, AtRecordTypes, SMTT(60)
  <2>a. \/ LoadFails(n)
        \/ /\ txns[n][r.entry.txid].state = "UNKNOWN"
           /\ Loaded(n, r.entry.txid, "PREPARED", r.entry)
    BY <1>9, <2>1, LoadPrepareEffect
  <2>4. r.txid = r.entry.txid
    BY <2>3, RecordTypes, SMTT(60) DEF PrepareRecord
  <2>5. CASE LoadFails(n)
    BY <1>6, <2>5
  <2>6. CASE ~LoadFails(n)
    <3>1. Takes(txns[n], r)
      BY <2>a, <2>3, <2>4, <2>6 DEF Takes
    <3>2. With(txns[n], r) = [txns[n] EXCEPT ![r.txid] = [state |-> "PREPARED", entry |-> r.entry]]
      BY <2>3, WithIs
    <3>3. Loads(n)
      BY <2>1, <2>a, <2>4, <2>6, <3>2 DEF Loads, Loaded
    <3> QED BY <2>1, <2>3, <3>1, <3>3, LoadsKeeps
  <2> QED BY <2>5, <2>6
<1>10. ASSUME NEW n \in Node, LoadCommit(n) PROVE JournalInv'
  <2>1. PICK r : r = journal[n][pos[n]]
    OBVIOUS
  <2>2. AtRecord(n, "COMMIT")
    BY <1>10 DEF LoadCommit
  <2>3. r \in Record /\ r.type = "COMMIT" /\ status[n] = "loading" /\ pos[n] <= Len(journal[n])
    BY <2>1, <2>2, AtRecordTypes, SMTT(60)
  <2>a. \/ LoadFails(n)
        \/ /\ txns[n][r.txid].state = "PREPARED"
           /\ Loaded(n, r.txid, "COMMITTED", txns[n][r.txid].entry)
    BY <1>10, <2>1, LoadCommitEffect
  <2>4. CASE LoadFails(n)
    BY <1>6, <2>4
  <2>5. CASE ~LoadFails(n)
    <3>1. Takes(txns[n], r)
      BY <2>a, <2>3, <2>5 DEF Takes
    <3>2. With(txns[n], r) =
            [txns[n] EXCEPT ![r.txid] = [state |-> "COMMITTED", entry |-> txns[n][r.txid].entry]]
      BY <2>3, WithIs
    <3>3. Loads(n)
      BY <2>1, <2>a, <2>5, <3>2 DEF Loads, Loaded
    <3> QED BY <2>1, <2>3, <3>1, <3>3, LoadsKeeps
  <2> QED BY <2>4, <2>5
<1>11. ASSUME NEW n \in Node, LoadAbort(n) PROVE JournalInv'
  <2>1. PICK r : r = journal[n][pos[n]]
    OBVIOUS
  <2>2. AtRecord(n, "ABORT")
    BY <1>11 DEF LoadAbort
  <2>3. /\ r \in Record /\ r.type = "ABORT" /\ r.txid \in TxId
        /\ status[n] = "loading" /\ pos[n] <= Len(journal[n])
    BY <2>1, <2>2, AtRecordTypes, SMTT(60)
  <2>a. \/ LoadFails(n)
        \/ /\ txns[n][r.txid].state # "COMMITTED"
           /\ Loaded(n, r.txid, "ABORTED", txns[n][r.txid].entry)
    BY <1>11, <2>1, LoadAbortEffect
  <2>4. CASE LoadFails(n)
    BY <1>6, <2>4
  <2>5. CASE ~LoadFails(n)
    <3>1. txns[n][r.txid].state # "ABORTED"
      <4>1. OneVoteOneDecision(journal[n]) /\ Tells(journal[n], pos[n] - 1, txns[n])
        BY <2>3 DEF JournalInv, JournalGrammar, TableInv
      <4>2. pos[n] \in DOMAIN journal[n]
        BY <2>3, SMTT(60) DEF LogTypeOK
      <4>3. \A i \in 1..(pos[n] - 1) : journal[n][i].txid = r.txid => journal[n][i].type = "PREPARE"
        BY <2>1, <4>1, <4>2 DEF OneVoteOneDecision
      <4>4. ~RecordIn(journal[n], pos[n] - 1, "ABORT", r.txid)
        BY <4>3 DEF RecordIn
      <4> QED BY <2>3, <4>1, <4>4 DEF Tells
    <3>2. txns[n][r.txid].state \in {"UNKNOWN", "PREPARED"}
      BY <2>a, <2>3, <2>5, <3>1, TxnTypes
    <3>3. Takes(txns[n], r)
      BY <2>3, <3>2 DEF Takes
    <3>4. With(txns[n], r) =
            [txns[n] EXCEPT ![r.txid] = [state |-> "ABORTED", entry |-> txns[n][r.txid].entry]]
      BY <2>3, WithIs
    <3>5. Loads(n)
      BY <2>1, <2>a, <2>5, <3>4 DEF Loads, Loaded
    <3> QED BY <2>1, <2>3, <3>3, <3>5, LoadsKeeps
  <2> QED BY <2>4, <2>5
<1>12. ASSUME NEW n \in Node, LoadEnd(n) PROVE JournalInv'
  <2>1. CASE "journal" \in torn[n]
    BY <1>6, <1>12, <2>1 DEF LoadEnd
  <2>2. CASE "journal" \notin torn[n]
    <3>1. /\ status'[n] = "open" /\ status[n] = "loading" /\ pos[n] - 1 = Len(journal[n])
          /\ journal' = journal /\ txns' = txns /\ pos' = pos
          /\ \A m \in Node \ {n} : status'[m] = status[m]
      BY <1>12, <2>2, SMTT(60) DEF LoadEnd, LogTypeOK, JournalInv, TableInv
    <3>2. JournalGrammar'
      BY <3>1 DEF JournalInv, JournalGrammar
    <3>3. TableInv'
      <4> SUFFICES ASSUME NEW m \in Node
                   PROVE  /\ status'[m] = "open" => Tells(journal'[m], Len(journal'[m]), txns'[m])
                          /\ status'[m] = "loading" => /\ pos'[m] <= Len(journal'[m]) + 1
                                                      /\ Tells(journal'[m], pos'[m] - 1, txns'[m])
                          /\ status'[m] \in {"closed", "failed"} => txns'[m] = NoTransactions
        BY DEF TableInv
      <4>1. CASE m = n
        BY <3>1, <4>1 DEF JournalInv, TableInv
      <4>2. CASE m # n
        BY <3>1, <4>2 DEF JournalInv, TableInv
      <4> QED BY <4>1, <4>2
    <3> QED BY <3>2, <3>3 DEF JournalInv
  <2> QED BY <2>1, <2>2
<1>13. CASE UNCHANGED logVars
  BY <1>13, SameKeeps DEF logVars
<1> QED
  BY <1>1, <1>3, <1>4, <1>5, <1>6, <1>7, <1>8, <1>9, <1>10, <1>11, <1>12, <1>13
     DEF LogNext, Operation, Kill, Load

\* The journal keeps one vote and one decision per transaction, and a running
\* node's table is the one its journal tells, whatever crashes and reopens.
LEMMA JournalCorrect == LogSpec => [](JournalGrammar /\ TableMatchesJournal)
<1>1. LogInit => JournalInv
  BY SMTT(60) DEF LogInit, JournalInv, TableInv, JournalGrammar, OneVoteOneDecision, Tells, RecordIn,
         NoTransactions, Unknown
<1>2. LogTypeOK /\ JournalInv /\ [LogNext]_logVars => JournalInv'
  BY JournalInvStep, LogTypeStep
<1>3. JournalInv => JournalGrammar /\ TableMatchesJournal
  BY DEF JournalInv, TableInv, TableMatchesJournal
<1> QED BY <1>1, <1>2, <1>3, LogTypeCorrect, PTL DEF LogSpec

\* Whatever is appended, and whatever crashes and reopens come between, every
\* journal has at most one vote and one decision per transaction, no vote after
\* the decision and no COMMIT without a vote, so that no record's type makes
\* load_journal() stop.
THEOREM JournalKeepsGrammar == LogSpec => []JournalGrammar
BY JournalCorrect, PTL

\* The table of a running node is the one that load_journal() would build from
\* the node's journal.
THEOREM TableAlwaysMatches == LogSpec => []TableMatchesJournal
BY JournalCorrect, PTL

----------------------------------------------------------------------------
(* Reserved indices, and opening files that are in step *)

\* The vote at i is not decided by the first k records of the journal.
Undecided(j, k, i) ==
  /\ i \in 1..k /\ j[i].type = "PREPARE"
  /\ \A h \in 1..k : j[h].txid = j[i].txid => j[h].type = "PREPARE"

\* The entry e takes the next index after a log of length l and the votes that the
\* first k records leave undecided.
Reserves(j, k, l, e) ==
  /\ l < e.index
  /\ \A i \in 1..k : Undecided(j, k, i) /\ l < j[i].entry.index => j[i].entry.index < e.index
  /\ \/ e.index = l + 1
     \/ \E i \in 1..k : Undecided(j, k, i) /\ l < j[i].entry.index /\ e.index = j[i].entry.index + 1

\* Every vote was the next one for the length the log had then; versions are indices.
VoteInv ==
  \A n \in Node :
    /\ \A i \in DOMAIN log[n] : log[n][i].version = i
    /\ \A i \in DOMAIN journal[n] : journal[n][i].type = "PREPARE" =>
         /\ journal[n][i].entry.version = journal[n][i].entry.index
         /\ \E l \in 0..Len(log[n]) : Reserves(journal[n], i - 1, l, journal[n][i].entry)

\* A transaction of the table is PREPARED exactly when its vote is undecided, and
\* then the table has the entry that was voted for.
LEMMA Votes ==
  ASSUME NEW j \in Seq(Record), NEW k \in 0..Len(j), NEW table \in [TxId -> Txn],
         Tells(j, k, table), OneVoteOneDecision(j)
  PROVE  /\ \A t \in TxId : table[t].state = "PREPARED" =>
               \E i \in 1..k : Undecided(j, k, i) /\ j[i].txid = t /\ j[i].entry = table[t].entry
         /\ \A i \in 1..k : Undecided(j, k, i) =>
               /\ j[i].txid \in TxId /\ table[j[i].txid].state = "PREPARED"
               /\ table[j[i].txid].entry = j[i].entry
<1>1. \A i \in 1..k : /\ i \in DOMAIN j /\ j[i] \in Record /\ j[i].txid \in TxId
                      /\ j[i].type \in {"PREPARE", "COMMIT", "ABORT"}
  BY RecordTypes, SMTT(60)
<1>2. ASSUME NEW t \in TxId, table[t].state = "PREPARED"
      PROVE  \E i \in 1..k : Undecided(j, k, i) /\ j[i].txid = t /\ j[i].entry = table[t].entry
  <2>1. PICK i \in 1..k : j[i] = PrepareRecord(table[t].entry) /\ j[i].txid = t
    BY <1>2 DEF Tells
  <2>2. j[i].type = "PREPARE" /\ j[i].entry = table[t].entry
    BY <2>1, SMTT(60) DEF PrepareRecord
  <2>3. ~RecordIn(j, k, "COMMIT", t) /\ ~RecordIn(j, k, "ABORT", t)
    BY <1>2 DEF Tells
  <2>4. \A h \in 1..k : j[h].txid = t => j[h].type = "PREPARE"
    BY <1>1, <2>3 DEF RecordIn
  <2> QED BY <2>1, <2>2, <2>4 DEF Undecided
<1>3. ASSUME NEW i \in 1..k, Undecided(j, k, i)
      PROVE  /\ j[i].txid \in TxId /\ table[j[i].txid].state = "PREPARED"
             /\ table[j[i].txid].entry = j[i].entry
  <2>1. PICK t \in TxId : t = j[i].txid
    BY <1>1
  <2>2. ~RecordIn(j, k, "COMMIT", t) /\ ~RecordIn(j, k, "ABORT", t)
    BY <1>3, <2>1 DEF Undecided, RecordIn
  <2>3. table[t].state \notin {"UNKNOWN", "COMMITTED", "ABORTED"}
    BY <2>1, <2>2 DEF Tells
  <2>4. table[t] \in Txn
    OBVIOUS
  <2>5. table[t].state = "PREPARED"
    BY <2>3, <2>4 DEF Txn
  <2>6. PICK h \in 1..k : j[h] = PrepareRecord(table[t].entry) /\ j[h].txid = t
    BY <2>5 DEF Tells
  <2>7. j[h].type = "PREPARE" /\ j[h].entry = table[t].entry /\ j[i].type = "PREPARE"
    BY <1>3, <2>6, SMTT(60) DEF PrepareRecord, Undecided
  <2>8. ~(h < i) /\ ~(i < h)
    <3>1. h < i => h \in 1..(i - 1)
      BY SMTT(60)
    <3>2. i < h => i \in 1..(h - 1)
      BY SMTT(60)
    <3> QED BY <1>1, <2>1, <2>6, <2>7, <3>1, <3>2 DEF OneVoteOneDecision
  <2>9. h = i
    BY <2>8, SMTT(60)
  <2> QED BY <2>1, <2>5, <2>7, <2>9
<1> QED BY <1>2, <1>3

\* What a node's files and table are, at the k records its table has taken.
LEMMA TableIs ==
  ASSUME LogTypeOK, JournalInv, VoteInv, NEW n \in Node, NEW k \in 0..Len(journal[n]),
         Tells(journal[n], k, txns[n])
  PROVE  /\ journal[n] \in Seq(Record) /\ Len(log[n]) \in Nat /\ LastVersion(n) = Len(log[n])
         /\ \A t \in Pending(n) : \E i \in 1..k :
              /\ Undecided(journal[n], k, i) /\ journal[n][i].txid = t
              /\ journal[n][i].entry = txns[n][t].entry
         /\ \A i \in 1..k : Undecided(journal[n], k, i) =>
              /\ journal[n][i].entry.index \in Nat
              /\ journal[n][i].entry.version = journal[n][i].entry.index
              /\ journal[n][i].entry = txns[n][journal[n][i].txid].entry
              /\ Len(log[n]) < journal[n][i].entry.index => journal[n][i].txid \in Pending(n)
<1>1. /\ journal[n] \in Seq(Record) /\ log[n] \in Seq(Entry) /\ txns[n] \in [TxId -> Txn]
      /\ OneVoteOneDecision(journal[n])
  BY DEF LogTypeOK, JournalInv, JournalGrammar
<1>2. LastVersion(n) = Len(log[n])
  <2>1. log[n] # <<>> => Len(log[n]) \in DOMAIN log[n]
    BY <1>1, SMTT(60)
  <2> QED BY <1>1, <2>1 DEF LastVersion, VoteInv
<1>3. \A t \in Pending(n) : \E i \in 1..k :
         /\ Undecided(journal[n], k, i) /\ journal[n][i].txid = t
         /\ journal[n][i].entry = txns[n][t].entry
  BY <1>1, Votes, SMTT(60) DEF Pending
<1>4. ASSUME NEW i \in 1..k, Undecided(journal[n], k, i)
      PROVE  /\ journal[n][i].entry.index \in Nat
             /\ journal[n][i].entry.version = journal[n][i].entry.index
             /\ journal[n][i].entry = txns[n][journal[n][i].txid].entry
             /\ Len(log[n]) < journal[n][i].entry.index => journal[n][i].txid \in Pending(n)
  <2>1. /\ journal[n][i].txid \in TxId /\ txns[n][journal[n][i].txid].state = "PREPARED"
        /\ txns[n][journal[n][i].txid].entry = journal[n][i].entry
    BY <1>1, <1>4, Votes, SMTT(60)
  <2>2. i \in DOMAIN journal[n] /\ journal[n][i].type = "PREPARE" /\ journal[n][i] \in Record
    BY <1>1, <1>4, SMTT(60) DEF Undecided
  <2>3. journal[n][i].entry \in Entry
    BY <2>2, RecordTypes
  <2>4. journal[n][i].entry.index \in Nat
    BY <2>3, IndexAssumption DEF Entry
  <2>5. journal[n][i].entry.version = journal[n][i].entry.index
    BY <2>2 DEF VoteInv
  <2> QED BY <1>1, <2>1, <2>4, <2>5 DEF Pending, LastIndex
<1> QED BY <1>1, <1>2, <1>3, <1>4, SMTT(60)

\* A vote c4_log_prepare accepts is the next one after the log and the journal.
LEMMA ExpectedReserves ==
  ASSUME LogTypeOK, JournalInv, VoteInv, NEW n \in Node, NEW k \in 0..Len(journal[n]),
         Tells(journal[n], k, txns[n]), NEW e \in Entry, Expected(n, e)
  PROVE  e.version = e.index /\ Reserves(journal[n], k, Len(log[n]), e)
<1> DEFINE j == journal[n]
           len == Len(log[n])
<1>1. /\ len \in Nat /\ LastVersion(n) = len
      /\ \A t \in Pending(n) : \E i \in 1..k :
           Undecided(j, k, i) /\ j[i].txid = t /\ j[i].entry = txns[n][t].entry
      /\ \A i \in 1..k : Undecided(j, k, i) =>
           /\ j[i].entry.index \in Nat /\ j[i].entry.version = j[i].entry.index
           /\ j[i].entry = txns[n][j[i].txid].entry
           /\ len < j[i].entry.index => j[i].txid \in Pending(n)
  BY TableIs, SMTT(60)
<1>2. LastIndex(n) = len
  BY DEF LastIndex
<1> HIDE DEF j, len
<1>3. CASE /\ Pending(n) = {}
           /\ e.index = LastIndex(n) + 1
           /\ e.version = LastVersion(n) + 1
  BY <1>1, <1>2, <1>3, SMTT(60) DEF Reserves, j, len
<1>4. ASSUME NEW t \in Pending(n),
             \A u \in Pending(n) : txns[n][u].entry.index <= txns[n][t].entry.index,
             e.index = txns[n][t].entry.index + 1,
             e.version = txns[n][t].entry.version + 1
      PROVE  e.version = e.index /\ Reserves(j, k, len, e)
  <2>1. PICK i \in 1..k : Undecided(j, k, i) /\ j[i].txid = t /\ j[i].entry = txns[n][t].entry
    BY <1>1
  <2>2. j[i].entry.index \in Nat /\ j[i].entry.version = j[i].entry.index /\ len < j[i].entry.index
    BY <1>1, <1>2, <2>1 DEF Pending
  <2>3. \A h \in 1..k : Undecided(j, k, h) /\ len < j[h].entry.index =>
          j[h].entry.index <= j[i].entry.index
    BY <1>1, <1>4, <2>1
  <2>4. e.index = j[i].entry.index + 1 /\ e.version = j[i].entry.version + 1
    BY <1>4, <2>1
  <2>5. len < e.index /\ e.version = e.index /\ j[i].entry.index < e.index
    BY <1>1, <2>2, <2>4, SMTT(60)
  <2>6. \A h \in 1..k : Undecided(j, k, h) /\ len < j[h].entry.index => j[h].entry.index < e.index
    <3> TAKE h \in 1..k
    <3>1. Undecided(j, k, h) => j[h].entry.index \in Nat
      BY <1>1
    <3> QED BY <2>2, <2>3, <2>4, <3>1, SMTT(60)
  <2>7. \E h \in 1..k : Undecided(j, k, h) /\ len < j[h].entry.index /\ e.index = j[h].entry.index + 1
    BY <2>1, <2>2, <2>4
  <2> QED BY <2>5, <2>6, <2>7 DEF Reserves
<1> QED BY <1>3, <1>4 DEF Expected, j, len

\* A vote that was the next one for a shorter log, and that the log has not passed,
\* is the one load_journal expects.
LEMMA ReservesExpected ==
  ASSUME LogTypeOK, JournalInv, VoteInv, NEW n \in Node, NEW k \in 0..Len(journal[n]),
         Tells(journal[n], k, txns[n]), NEW e \in Entry, e.version = e.index,
         NEW l \in 0..Len(log[n]), Reserves(journal[n], k, l, e), e.index > LastIndex(n)
  PROVE  Expected(n, e)
<1> DEFINE j == journal[n]
           len == Len(log[n])
<1>1. /\ len \in Nat /\ LastVersion(n) = len
      /\ \A t \in Pending(n) : \E i \in 1..k :
           Undecided(j, k, i) /\ j[i].txid = t /\ j[i].entry = txns[n][t].entry
      /\ \A i \in 1..k : Undecided(j, k, i) =>
           /\ j[i].entry.index \in Nat /\ j[i].entry.version = j[i].entry.index
           /\ j[i].entry = txns[n][j[i].txid].entry
           /\ len < j[i].entry.index => j[i].txid \in Pending(n)
  BY TableIs, SMTT(60)
<1>2. LastIndex(n) = len /\ l \in Nat /\ l <= len
  BY <1>1, SMTT(60) DEF LastIndex
<1>3. e.index \in Nat /\ len < e.index /\ Reserves(j, k, l, e)
  BY <1>2, IndexAssumption DEF Entry
<1> HIDE DEF j, len
<1>4. \A t \in Pending(n) : /\ txns[n][t].entry.index \in Nat
                            /\ len < txns[n][t].entry.index /\ txns[n][t].entry.index < e.index
  <2> SUFFICES ASSUME NEW t \in Pending(n)
               PROVE  /\ txns[n][t].entry.index \in Nat
                      /\ len < txns[n][t].entry.index /\ txns[n][t].entry.index < e.index
    OBVIOUS
  <2>1. PICK i \in 1..k : Undecided(j, k, i) /\ j[i].txid = t /\ j[i].entry = txns[n][t].entry
    BY <1>1
  <2>2. j[i].entry.index \in Nat /\ len < j[i].entry.index
    BY <1>1, <1>2, <2>1 DEF Pending
  <2>3. l < j[i].entry.index
    BY <1>1, <1>2, <2>2, SMTT(60)
  <2> QED BY <1>3, <2>1, <2>2, <2>3 DEF Reserves
<1>5. CASE e.index = len + 1
  <2>1. Pending(n) = {}
    BY <1>1, <1>3, <1>4, <1>5, SMTT(60)
  <2> QED BY <1>1, <1>2, <1>5, <2>1 DEF Expected
<1>6. CASE e.index # len + 1
  <2>1. e.index # l + 1
    BY <1>1, <1>2, <1>3, <1>6, SMTT(60)
  <2>2. PICK i \in 1..k : Undecided(j, k, i) /\ e.index = j[i].entry.index + 1
    BY <1>3, <2>1 DEF Reserves
  <2>3. /\ j[i].entry.index \in Nat /\ j[i].entry.version = j[i].entry.index
        /\ len < j[i].entry.index
    BY <1>1, <1>3, <1>6, <2>2, SMTT(60)
  <2>4. PICK t \in Pending(n) : t = j[i].txid /\ txns[n][t].entry = j[i].entry
    BY <1>1, <2>2, <2>3
  <2>5. \A u \in Pending(n) : txns[n][u].entry.index <= txns[n][t].entry.index
    BY <1>3, <1>4, <2>2, <2>3, <2>4, SMTT(60)
  <2>6. e.index = txns[n][t].entry.index + 1 /\ e.version = txns[n][t].entry.version + 1
    BY <2>2, <2>3, <2>4
  <2> QED BY <2>5, <2>6 DEF Expected
<1> QED BY <1>5, <1>6

\* A record written later does not change whether an earlier vote was the next one.
LEMMA ReservesPrefix ==
  ASSUME NEW j \in Seq(Record), NEW r \in Record, NEW k \in 0..Len(j), NEW l, NEW e,
         Reserves(j, k, l, e)
  PROVE  Reserves(Append(j, r), k, l, e)
<1>1. PICK a : a = Append(j, r)
  OBVIOUS
<1>2. \A i \in 1..k : a[i] = j[i]
  BY <1>1, SMTT(60)
<1>3. \A i \in 1..k : Undecided(a, k, i) <=> Undecided(j, k, i)
  BY <1>2 DEF Undecided
<1>4. Reserves(a, k, l, e)
  BY <1>2, <1>3 DEF Reserves
<1> QED BY <1>1, <1>4

\* A step changes a journal, if at all, by appending one record; a vote is appended
\* only when the log is open and expects it.
LEMMA JournalGrows ==
  ASSUME LogTypeOK, [LogNext]_logVars, NEW m \in Node
  PROVE  \/ journal'[m] = journal[m]
         \/ \E r \in Record : r.type # "PREPARE" /\ journal'[m] = Append(journal[m], r)
         \/ \E e \in Entry : /\ status[m] = "open" /\ Expected(m, e)
                             /\ journal'[m] = Append(journal[m], PrepareRecord(e))
<1> DEFINE Goal == \/ journal'[m] = journal[m]
                   \/ \E r \in Record : r.type # "PREPARE" /\ journal'[m] = Append(journal[m], r)
                   \/ \E e \in Entry : /\ status[m] = "open" /\ Expected(m, e)
                                       /\ journal'[m] = Append(journal[m], PrepareRecord(e))
<1>0. journal \in [Node -> Seq(Record)]
  BY DEF LogTypeOK
<1>1. ASSUME NEW n \in Node, NEW e \in Entry, Prepare(n, e) PROVE Goal
  <2>1. /\ status[n] = "open" /\ Expected(n, e)
        /\ journal' = [journal EXCEPT ![n] = Append(@, PrepareRecord(e))]
    BY <1>1 DEF Prepare, IsNewPrepare
  <2>2. CASE m = n
    BY <1>0, <2>1, <2>2
  <2>3. CASE m # n
    BY <1>0, <2>1, <2>3
  <2> QED BY <2>2, <2>3
<1>2. ASSUME NEW n \in Node, NEW r \in Record, r.type # "PREPARE",
             \/ journal' = [journal EXCEPT ![n] = Append(@, r)]
             \/ journal' = journal
      PROVE  Goal
  <2>1. journal'[m] = journal[m] \/ journal'[m] = Append(journal[m], r)
    BY <1>0, <1>2
  <2> QED BY <1>2, <2>1
<1>3. ASSUME NEW n \in Node, NEW t \in TxId,
             Commit(n, t) \/ CommitWriteError(n, t) \/ CrashInCommit(n, t)
      PROVE  Goal
  <2>1. PICK r \in Record : r = DecisionRecord("COMMIT", t)
    BY DecisionType
  <2>2. r.type # "PREPARE"
    BY <2>1 DEF DecisionRecord
  <2>3. journal' = [journal EXCEPT ![n] = Append(@, r)] \/ journal' = journal
    BY <1>3, <2>1 DEF Commit, CommitWriteError, CrashInCommit, JournalCommit
  <2> QED BY <1>2, <2>2, <2>3
<1>4. ASSUME NEW n \in Node, NEW t \in TxId, Abort(n, t) PROVE Goal
  <2>1. PICK r \in Record : r = DecisionRecord("ABORT", t)
    BY DecisionType
  <2>2. r.type # "PREPARE"
    BY <2>1 DEF DecisionRecord
  <2>3. journal' = [journal EXCEPT ![n] = Append(@, r)]
    BY <1>4, <2>1 DEF Abort
  <2> QED BY <1>2, <2>2, <2>3
<1>5. ASSUME NEW n \in Node,
             \/ \E e \in Entry : AppendEntry(n, e)
             \/ Crash(n) \/ CrashInRecord(n) \/ CrashInEntry(n) \/ Open(n) \/ Load(n)
      PROVE  journal' = journal
  BY <1>5 DEF AppendEntry, Crash, CrashInRecord, CrashInEntry, Open, Load, LoadPrepare, LoadCommit,
                     LoadAbort, LoadEnd, LoadFails, Loaded
<1>6. CASE UNCHANGED logVars
  BY <1>6 DEF logVars
<1> HIDE DEF Goal
<1>7. Goal
  BY <1>1, <1>3, <1>4, <1>5, <1>6 DEF LogNext, Operation, Kill, Goal
<1> QED BY <1>7 DEF Goal

\* Every step keeps the votes in order.
LEMMA VoteInvStep ==
  ASSUME LogTypeOK, JournalInv, VoteInv, [LogNext]_logVars
  PROVE  VoteInv'
<1> SUFFICES ASSUME NEW n \in Node
             PROVE  /\ \A i \in DOMAIN log'[n] : log'[n][i].version = i
                    /\ \A i \in DOMAIN journal'[n] : journal'[n][i].type = "PREPARE" =>
                         /\ journal'[n][i].entry.version = journal'[n][i].entry.index
                         /\ \E l \in 0..Len(log'[n]) :
                              Reserves(journal'[n], i - 1, l, journal'[n][i].entry)
  BY DEF VoteInv
<1>1. /\ journal[n] \in Seq(Record) /\ log[n] \in Seq(Entry)
      /\ \A i \in DOMAIN log[n] : log[n][i].version = i
      /\ \A i \in DOMAIN journal[n] : journal[n][i].type = "PREPARE" =>
           /\ journal[n][i].entry.version = journal[n][i].entry.index
           /\ \E l \in 0..Len(log[n]) : Reserves(journal[n], i - 1, l, journal[n][i].entry)
  BY DEF LogTypeOK, VoteInv
<1>2. (\A i \in DOMAIN log'[n] : log'[n][i].version = i) /\ 0..Len(log[n]) \subseteq 0..Len(log'[n])
  <2>1. CASE log'[n] = log[n]
    BY <1>1, <2>1
  <2>2. ASSUME NEW e \in Entry, IsNext(n, e), log'[n] = Append(log[n], e)
        PROVE  /\ \A i \in DOMAIN log'[n] : log'[n][i].version = i
               /\ 0..Len(log[n]) \subseteq 0..Len(log'[n])
    <3>1. e.version = Len(log[n]) + 1
      <4>1. log[n] # <<>> => Len(log[n]) \in DOMAIN log[n]
        BY <1>1, SMTT(60)
      <4>2. LastVersion(n) = Len(log[n])
        BY <1>1, <4>1 DEF LastVersion
      <4> QED BY <2>2, <4>2 DEF IsNext
    <3>2. /\ Len(log[n]) \in Nat /\ Len(log'[n]) = Len(log[n]) + 1
          /\ DOMAIN log[n] = 1..Len(log[n]) /\ DOMAIN log'[n] = 1..(Len(log[n]) + 1)
          /\ \A i \in 1..Len(log[n]) : log'[n][i] = log[n][i]
          /\ log'[n][Len(log[n]) + 1] = e
      BY <1>1, <2>2, SMTT(60)
    <3>3. ASSUME NEW i \in DOMAIN log'[n] PROVE log'[n][i].version = i
      <4>1. CASE i \in 1..Len(log[n])
        BY <1>1, <3>2, <4>1
      <4>2. CASE i = Len(log[n]) + 1
        BY <3>1, <3>2, <4>2
      <4> QED BY <3>2, <4>1, <4>2, SMTT(60)
    <3>4. 0..Len(log[n]) \subseteq 0..Len(log'[n])
      BY <3>2, SMTT(60)
    <3> QED BY <3>3, <3>4
  <2> QED BY <2>1, <2>2, LogStep
<1>3. ASSUME NEW i \in DOMAIN journal[n], journal[n][i].type = "PREPARE"
      PROVE  /\ journal[n][i].entry.version = journal[n][i].entry.index
             /\ \E l \in 0..Len(log'[n]) : Reserves(journal[n], i - 1, l, journal[n][i].entry)
  BY <1>1, <1>2, <1>3
<1>4. CASE journal'[n] = journal[n]
  BY <1>2, <1>3, <1>4
<1>5. ASSUME NEW r \in Record, journal'[n] = Append(journal[n], r),
             NEW i \in DOMAIN journal[n], journal[n][i].type = "PREPARE"
      PROVE  \E l \in 0..Len(log'[n]) : Reserves(journal'[n], i - 1, l, journal[n][i].entry)
  <2>1. PICK l \in 0..Len(log'[n]) : Reserves(journal[n], i - 1, l, journal[n][i].entry)
    BY <1>3, <1>5
  <2>2. i - 1 \in 0..Len(journal[n])
    BY <1>1, SMTT(60)
  <2>3. PICK e : e = journal[n][i].entry
    OBVIOUS
  <2>4. Reserves(journal'[n], i - 1, l, e)
    BY <1>1, <1>5, <2>1, <2>2, <2>3, ReservesPrefix
  <2> QED BY <2>3, <2>4
<1>6. ASSUME NEW r \in Record, journal'[n] = Append(journal[n], r)
      PROVE  /\ Len(journal[n]) \in Nat /\ DOMAIN journal[n] = 1..Len(journal[n])
             /\ DOMAIN journal'[n] = 1..(Len(journal[n]) + 1)
             /\ \A i \in 1..Len(journal[n]) : journal'[n][i] = journal[n][i]
             /\ journal'[n][Len(journal[n]) + 1] = r
  BY <1>1, <1>6, SMTT(60)
<1>7. ASSUME NEW r \in Record, r.type # "PREPARE", journal'[n] = Append(journal[n], r)
      PROVE  \A i \in DOMAIN journal'[n] : journal'[n][i].type = "PREPARE" =>
               /\ journal'[n][i].entry.version = journal'[n][i].entry.index
               /\ \E l \in 0..Len(log'[n]) : Reserves(journal'[n], i - 1, l, journal'[n][i].entry)
  <2> SUFFICES ASSUME NEW i \in DOMAIN journal'[n], journal'[n][i].type = "PREPARE"
               PROVE  /\ journal'[n][i].entry.version = journal'[n][i].entry.index
                      /\ \E l \in 0..Len(log'[n]) :
                           Reserves(journal'[n], i - 1, l, journal'[n][i].entry)
    OBVIOUS
  <2>1. i \in DOMAIN journal[n] /\ journal'[n][i] = journal[n][i]
    BY <1>6, <1>7, SMTT(60)
  <2> QED BY <1>3, <1>5, <1>7, <2>1
<1>8. ASSUME NEW e \in Entry, status[n] = "open", Expected(n, e),
             journal'[n] = Append(journal[n], PrepareRecord(e))
      PROVE  \A i \in DOMAIN journal'[n] : journal'[n][i].type = "PREPARE" =>
               /\ journal'[n][i].entry.version = journal'[n][i].entry.index
               /\ \E l \in 0..Len(log'[n]) : Reserves(journal'[n], i - 1, l, journal'[n][i].entry)
  <2>a. PrepareRecord(e) \in Record /\ PrepareRecord(e).entry = e
    BY SMTT(60) DEF Record, PrepareRecord
  <2>1. PICK r \in Record : r = PrepareRecord(e) /\ r.entry = e
    BY <2>a
  <2>2. journal'[n] = Append(journal[n], r)
    BY <1>8, <2>1
  <2> SUFFICES ASSUME NEW i \in DOMAIN journal'[n], journal'[n][i].type = "PREPARE"
               PROVE  /\ journal'[n][i].entry.version = journal'[n][i].entry.index
                      /\ \E l \in 0..Len(log'[n]) :
                           Reserves(journal'[n], i - 1, l, journal'[n][i].entry)
    OBVIOUS
  <2>3. CASE i \in DOMAIN journal[n]
    <3>1. journal'[n][i] = journal[n][i]
      BY <1>6, <2>2, <2>3
    <3> QED BY <1>3, <1>5, <2>2, <2>3, <3>1
  <2>4. CASE i = Len(journal[n]) + 1
    <3>1. Len(journal[n]) \in 0..Len(journal[n]) /\ Len(log[n]) \in 0..Len(log[n])
      BY <1>1, SMTT(60)
    <3>2. Tells(journal[n], Len(journal[n]), txns[n])
      BY <1>8 DEF JournalInv, TableInv
    <3>3. e.version = e.index /\ Reserves(journal[n], Len(journal[n]), Len(log[n]), e)
      BY <1>8, <3>1, <3>2, ExpectedReserves
    <3>4. Reserves(journal'[n], Len(journal[n]), Len(log[n]), e)
      BY <1>1, <2>2, <3>1, <3>3, ReservesPrefix
    <3>5. i - 1 = Len(journal[n]) /\ journal'[n][i] = r
      BY <1>6, <2>2, <2>4, SMTT(60)
    <3>6. Len(log[n]) \in 0..Len(log'[n])
      BY <1>2, <3>1
    <3> QED BY <2>1, <3>3, <3>4, <3>5, <3>6
  <2> QED BY <1>6, <2>2, <2>3, <2>4, SMTT(60)
<1> QED BY <1>2, <1>4, <1>7, <1>8, JournalGrows

\* c4_log_open does not give up while it loads files that are in step.
LEMMA InStepLoads ==
  ASSUME LogTypeOK, JournalInv, VoteInv, NEW n \in Node, Load(n), LoadFails(n), InStep(n)
  PROVE  FALSE
<1>1. /\ status \in [Node -> {"open", "loading", "closed", "failed"}]
      /\ journal[n] \in Seq(Record) /\ pos[n] \in Nat \ {0} /\ log[n] \in Seq(Entry)
      /\ OneVoteOneDecision(journal[n])
  BY DEF LogTypeOK, JournalInv, JournalGrammar
<1>2. status'[n] = "failed"
  BY <1>1 DEF LoadFails
<1>3. status[n] = "loading" /\ Tells(journal[n], pos[n] - 1, txns[n])
  <2>1. status[n] = "loading"
    BY DEF Load, LoadPrepare, LoadCommit, LoadAbort, LoadEnd, AtRecord
  <2> QED BY <2>1 DEF JournalInv, TableInv
<1>4. \A t, st, e : ~Loaded(n, t, st, e)
  BY <1>2, <1>3 DEF Loaded
<1>5. CASE LoadEnd(n)
  <2>1. "journal" \notin torn[n]
    BY DEF InStep
  <2>2. status'[n] = "open"
    BY <1>1, <1>5, <2>1 DEF LoadEnd
  <2> QED BY <1>2, <2>2
<1>6. ASSUME pos[n] <= Len(journal[n])
      PROVE  /\ pos[n] \in DOMAIN journal[n] /\ pos[n] - 1 \in 0..Len(journal[n])
             /\ \A h \in 1..(pos[n] - 1) : h \in DOMAIN journal[n]
             /\ journal[n][pos[n]] \in Record /\ journal[n][pos[n]].txid \in TxId
  BY <1>1, <1>6, RecordTypes, SMTT(60)
<1>7. ASSUME LoadPrepare(n) PROVE FALSE
  <2>1. PICK r : r = journal[n][pos[n]]
    OBVIOUS
  <2>2. pos[n] <= Len(journal[n]) /\ r.type = "PREPARE"
    BY <1>7, <2>1 DEF LoadPrepare, AtRecord
  <2>3. r \in Record /\ r.txid \in TxId
    BY <1>6, <2>1, <2>2
  <2>4. r.entry \in Entry /\ r.txid = r.entry.txid
    BY <2>2, <2>3, RecordTypes, SMTT(60) DEF PrepareRecord
  <2>5. PICK e \in Entry : e = r.entry
    BY <2>4
  <2>6. ~(/\ txns[n][e.txid].state = "UNKNOWN"
          /\ IF HasTxId(n, e.txid) THEN HasEntry(n, e) ELSE Expected(n, e))
    BY <1>4, <1>7, <2>1, <2>5 DEF LoadPrepare
  <2>7. \A i \in 1..(pos[n] - 1) : journal[n][i].txid # r.txid
    BY <1>1, <1>6, <2>1, <2>2 DEF OneVoteOneDecision
  <2>8. txns[n][e.txid].state = "UNKNOWN"
    BY <1>3, <2>3, <2>4, <2>5, <2>7, SMTT(60) DEF Tells
  <2>9. IF HasTxId(n, e.txid) THEN HasEntry(n, e) ELSE e.index > LastIndex(n)
    BY <1>6, <2>1, <2>2, <2>5 DEF InStep
  <2>10. ~HasTxId(n, e.txid) /\ ~Expected(n, e) /\ e.index > LastIndex(n)
    BY <2>6, <2>8, <2>9
  <2>11. /\ e.version = e.index
         /\ \E l \in 0..Len(log[n]) : Reserves(journal[n], pos[n] - 1, l, e)
    BY <1>6, <2>1, <2>2, <2>5 DEF VoteInv
  <2> QED BY <1>3, <1>6, <2>2, <2>10, <2>11, ReservesExpected
<1>8. ASSUME LoadCommit(n) PROVE FALSE
  <2>1. PICK r : r = journal[n][pos[n]]
    OBVIOUS
  <2>2. pos[n] <= Len(journal[n]) /\ r.type = "COMMIT"
    BY <1>8, <2>1 DEF LoadCommit, AtRecord
  <2>3. PICK t \in TxId : t = r.txid
    BY <1>6, <2>1, <2>2
  <2>4. ~(txns[n][t].state = "PREPARED" /\ AppendAccepts(n, txns[n][t].entry))
    BY <1>4, <1>8, <2>1, <2>3 DEF LoadCommit
  <2>5. PICK h \in 1..(pos[n] - 1) : journal[n][h].type = "PREPARE" /\ journal[n][h].txid = t
    BY <1>1, <1>6, <2>1, <2>2, <2>3 DEF OneVoteOneDecision
  <2>6. \A i \in 1..(pos[n] - 1) : journal[n][i].txid = t => journal[n][i].type = "PREPARE"
    BY <1>1, <1>6, <2>1, <2>2, <2>3 DEF OneVoteOneDecision
  <2>7. Undecided(journal[n], pos[n] - 1, h)
    BY <2>5, <2>6 DEF Undecided
  <2>8. txns[n][t].state = "PREPARED" /\ txns[n][t].entry = journal[n][h].entry
    <3>1. txns[n] \in [TxId -> Txn]
      BY DEF LogTypeOK
    <3>2. PICK k \in 0..Len(journal[n]) : k = pos[n] - 1
      BY <1>6, <2>2
    <3>a. Tells(journal[n], k, txns[n])
      BY <1>3, <3>2
    <3>3. \A i \in 1..k : Undecided(journal[n], k, i) =>
            /\ txns[n][journal[n][i].txid].state = "PREPARED"
            /\ txns[n][journal[n][i].txid].entry = journal[n][i].entry
      BY <1>1, <3>1, <3>a, Votes, SMTT(60)
    <3> QED BY <2>5, <2>7, <3>2, <3>3
  <2>9. h \in DOMAIN journal[n] /\ journal[n][h] \in Record
    BY <1>1, <1>6, <2>2, SMTT(60)
  <2>10. journal[n][h].entry \in Entry /\ journal[n][h].entry.txid = t
    BY <2>5, <2>9, RecordTypes, SMTT(60) DEF PrepareRecord
  <2>11. PICK e \in Entry : e = journal[n][h].entry
    BY <2>10
  <2>12. ~HasEntry(n, e) /\ ~IsNext(n, e)
    BY <2>4, <2>8, <2>11 DEF AppendAccepts
  <2>13. ~HasTxId(n, t)
    BY <2>5, <2>9, <2>10, <2>11, <2>12 DEF InStep
  <2>14. PICK g \in DOMAIN journal[n] : /\ journal[n][g].type = "PREPARE" /\ journal[n][g].txid = t
                                        /\ journal[n][g].entry.index = LastIndex(n) + 1
    BY <1>6, <2>1, <2>2, <2>3, <2>13 DEF InStep
  <2>15. g = h
    <3>1. g \in Nat /\ h \in Nat /\ (g < h => g \in 1..(h - 1)) /\ (h < g => h \in 1..(g - 1))
      BY <1>1, <2>9, SMTT(60)
    <3>2. ~(g < h) /\ ~(h < g)
      BY <1>1, <2>5, <2>9, <2>14, <3>1 DEF OneVoteOneDecision
    <3> QED BY <3>1, <3>2, SMTT(60)
  <2>16. LastVersion(n) = Len(log[n])
    BY <1>3, <1>6, <2>2, TableIs
  <2>17. e.version = e.index
    BY <2>5, <2>9, <2>11 DEF VoteInv
  <2>18. e.index = LastIndex(n) + 1 /\ e.version = LastVersion(n) + 1 /\ e.txid = t
    BY <2>10, <2>11, <2>14, <2>15, <2>16, <2>17 DEF LastIndex
  <2> QED BY <2>12, <2>13, <2>18 DEF IsNext
<1>9. ASSUME LoadAbort(n) PROVE FALSE
  <2>1. PICK r : r = journal[n][pos[n]]
    OBVIOUS
  <2>2. pos[n] <= Len(journal[n]) /\ r.type = "ABORT"
    BY <1>9, <2>1 DEF LoadAbort, AtRecord
  <2>3. PICK t \in TxId : t = r.txid
    BY <1>6, <2>1, <2>2
  <2>4. txns[n][t].state = "COMMITTED"
    BY <1>4, <1>9, <2>1, <2>3 DEF LoadAbort
  <2>5. PICK i \in 1..(pos[n] - 1) : journal[n][i].type = "COMMIT" /\ journal[n][i].txid = t
    BY <1>3, <2>4 DEF Tells, RecordIn
  <2> QED BY <1>1, <1>6, <2>1, <2>2, <2>3, <2>5 DEF OneVoteOneDecision
<1> QED BY <1>5, <1>7, <1>8, <1>9 DEF Load

\* A step that fails is c4_log_open's; a node that has failed keeps its files.
LEMMA FailedStep ==
  ASSUME LogTypeOK, LogReplayable, [LogNext]_logVars, NEW m \in Node, status'[m] = "failed"
  PROVE  /\ log'[m] = log[m] /\ journal'[m] = journal[m] /\ torn'[m] = torn[m]
         /\ status[m] = "failed" \/ (Load(m) /\ LoadFails(m))
<1> USE DEF LogTypeOK
<1>1. ASSUME NEW n \in Node, NEW e \in Entry, Prepare(n, e) \/ AppendEntry(n, e)
      PROVE  status[m] = "failed" /\ log'[m] = log[m] /\ journal'[m] = journal[m] /\ torn'[m] = torn[m]
  BY <1>1 DEF Prepare, AppendEntry
<1>2. ASSUME NEW n \in Node, NEW t \in TxId, Commit(n, t) \/ CommitWriteError(n, t) \/ Abort(n, t)
      PROVE  status[m] = "failed" /\ log'[m] = log[m] /\ journal'[m] = journal[m] /\ torn'[m] = torn[m]
  BY <1>2 DEF Commit, CommitWriteError, Abort, JournalCommit
<1>3. ASSUME NEW n \in Node, \/ Crash(n) \/ CrashInRecord(n) \/ CrashInEntry(n)
                             \/ \E t \in TxId : CrashInCommit(n, t)
      PROVE  status[m] = "failed" /\ log'[m] = log[m] /\ journal'[m] = journal[m] /\ torn'[m] = torn[m]
  BY <1>3 DEF Crash, CrashInRecord, CrashInEntry, CrashInCommit, Stopped
<1>4. ASSUME NEW n \in Node, Open(n)
      PROVE  status[m] = "failed" /\ log'[m] = log[m] /\ journal'[m] = journal[m] /\ torn'[m] = torn[m]
  BY <1>4 DEF Open, LogReplayable
<1>5. ASSUME NEW n \in Node, Load(n), LoadFails(n)
      PROVE  /\ log' = log /\ journal' = journal /\ torn' = torn
             /\ status[m] = "failed" \/ (Load(m) /\ LoadFails(m))
  BY <1>5 DEF LoadFails
<1>6. ASSUME NEW n \in Node, Load(n), ~LoadFails(n)
      PROVE  status[m] = "failed" /\ log'[m] = log[m] /\ journal'[m] = journal[m] /\ torn'[m] = torn[m]
  <2>1. /\ status[n] = "loading" /\ journal' = journal /\ torn' = torn
        /\ status' = status \/ status' = [status EXCEPT ![n] = "open"]
        /\ log' = log \/ \E x : log' = [log EXCEPT ![n] = x]
    BY <1>6 DEF Load, LoadPrepare, LoadCommit, LoadAbort, LoadEnd, AtRecord, Loaded
  <2>2. status[m] = "failed" /\ m # n
    BY <2>1
  <2> QED BY <2>1, <2>2
<1>7. CASE UNCHANGED logVars
  BY <1>7 DEF logVars
<1> QED BY <1>1, <1>2, <1>3, <1>4, <1>5, <1>6, <1>7 DEF LogNext, Operation, Kill

\* A failed open left files that are out of step.
LEMMA InStepReopensStep ==
  ASSUME LogTypeOK, LogReplayable, JournalInv, VoteInv, InStepReopens, [LogNext]_logVars
  PROVE  InStepReopens'
<1> SUFFICES ASSUME NEW n \in Node, status'[n] = "failed", InStep(n)' PROVE FALSE
  BY DEF InStepReopens
<1>1. /\ log'[n] = log[n] /\ journal'[n] = journal[n] /\ torn'[n] = torn[n]
      /\ status[n] = "failed" \/ (Load(n) /\ LoadFails(n))
  BY FailedStep
<1>2. InStep(n)
  <2>1. /\ \A t : HasTxId(n, t)' <=> HasTxId(n, t)
        /\ \A e : HasEntry(n, e)' <=> HasEntry(n, e)
        /\ LastIndex(n)' = LastIndex(n)
    BY <1>1 DEF HasTxId, HasEntry, LastIndex
  <2>2. ASSUME NEW i \in DOMAIN journal[n], journal[n][i].type = "PREPARE"
        PROVE  LET e == journal[n][i].entry IN
               IF HasTxId(n, e.txid) THEN HasEntry(n, e) ELSE e.index > LastIndex(n)
    <3>1. PICK e : e = journal[n][i].entry
      OBVIOUS
    <3>2. IF HasTxId(n, e.txid)' THEN HasEntry(n, e)' ELSE e.index > LastIndex(n)'
      BY <1>1, <2>2, <3>1 DEF InStep
    <3> QED BY <2>1, <3>1, <3>2
  <2>3. ASSUME NEW i \in DOMAIN journal[n], journal[n][i].type = "COMMIT",
               ~HasTxId(n, journal[n][i].txid)
        PROVE  /\ i = Len(journal[n])
               /\ \E h \in DOMAIN journal[n] :
                     /\ journal[n][h].type = "PREPARE" /\ journal[n][h].txid = journal[n][i].txid
                     /\ journal[n][h].entry.index = LastIndex(n) + 1
    <3>1. \A t : \A h \in DOMAIN journal[n] :
             journal[n][h].type = "COMMIT" /\ journal[n][h].txid = t /\ ~HasTxId(n, t)' =>
               /\ h = Len(journal[n])
               /\ \E g \in DOMAIN journal[n] :
                     /\ journal[n][g].type = "PREPARE" /\ journal[n][g].txid = t
                     /\ journal[n][g].entry.index = LastIndex(n)' + 1
      BY <1>1, SMTT(60) DEF InStep
    <3>2. PICK x : x = journal[n][i].txid
      OBVIOUS
    <3>3. ~HasTxId(n, x)'
      BY <2>1, <2>3, <3>2
    <3>4. /\ i = Len(journal[n])
          /\ \E g \in DOMAIN journal[n] :
                /\ journal[n][g].type = "PREPARE" /\ journal[n][g].txid = x
                /\ journal[n][g].entry.index = LastIndex(n)' + 1
      BY <2>3, <3>1, <3>2, <3>3
    <3> QED BY <2>1, <3>2, <3>4
  <2> QED BY <1>1, <2>2, <2>3 DEF InStep
<1> QED BY <1>1, <1>2, InStepLoads DEF InStepReopens

\* Two undecided votes past the log have different indices: the later one was the
\* next one after the earlier.
LEMMA VotesApart ==
  ASSUME LogTypeOK, JournalInv, VoteInv
  PROVE  ReservedOnce
<1> SUFFICES ASSUME NEW n \in Node, NEW t \in Pending(n), NEW u \in Pending(n), t # u
             PROVE  txns[n][t].entry.index # txns[n][u].entry.index
  BY DEF ReservedOnce
<1>1. t \in TxId /\ txns[n][t].state = "PREPARED"
  BY DEF Pending
<1>2. status[n] \in {"open", "loading", "closed", "failed"} /\ journal[n] \in Seq(Record)
  BY DEF LogTypeOK
<1>3. txns[n] # NoTransactions
  BY <1>1, SMTT(60) DEF NoTransactions, Unknown
<1>4. PICK k \in 0..Len(journal[n]) : Tells(journal[n], k, txns[n])
  <2>1. CASE status[n] = "open"
    BY <1>2, <2>1, SMTT(60) DEF JournalInv, TableInv
  <2>2. CASE status[n] = "loading"
    <3>1. Tells(journal[n], pos[n] - 1, txns[n]) /\ pos[n] - 1 \in 0..Len(journal[n])
      BY <1>2, <2>2, SMTT(60) DEF JournalInv, TableInv, LogTypeOK
    <3> QED BY <3>1
  <2> QED BY <1>2, <1>3, <2>1, <2>2 DEF JournalInv, TableInv
<1> DEFINE j == journal[n]
<1>11. /\ Len(log[n]) \in Nat
      /\ \A x \in Pending(n) : \E i \in 1..k :
           Undecided(j, k, i) /\ j[i].txid = x /\ j[i].entry = txns[n][x].entry
      /\ \A h \in 1..k : Undecided(j, k, h) => j[h].entry.index \in Nat
  BY <1>4, TableIs
<1>5. ASSUME NEW i \in 1..k, NEW h \in 1..(i - 1), Undecided(j, k, i), Undecided(j, k, h),
             Len(log[n]) < j[h].entry.index
      PROVE  j[h].entry.index # j[i].entry.index
  <2>1. i \in DOMAIN j /\ j[i].type = "PREPARE"
    BY <1>2, <1>5, SMTT(60) DEF Undecided
  <2>2. PICK l \in 0..Len(log[n]) : Reserves(j, i - 1, l, j[i].entry)
    BY <2>1 DEF VoteInv
  <2>3. Undecided(j, i - 1, h)
    BY <1>5, SMTT(60) DEF Undecided
  <2>4. j[h].entry.index \in Nat /\ j[i].entry.index \in Nat /\ Len(log[n]) \in Nat
    <3>1. h \in 1..k
      BY <1>5, SMTT(60)
    <3> QED BY <1>5, <1>11, <3>1
  <2>5. l < j[h].entry.index
    <3>1. ASSUME NEW a \in Nat, NEW b \in Nat, a < b PROVE \A c \in 0..a : c < b
      BY <3>1, SMTT(60)
    <3> QED BY <1>5, <2>4, <3>1
  <2>6. j[h].entry.index < j[i].entry.index
    BY <2>2, <2>3, <2>5 DEF Reserves
  <2>7. \A a, b \in Nat : a < b => a # b
    BY SMTT(60)
  <2> QED BY <2>4, <2>6, <2>7
<1>6. PICK i \in 1..k : Undecided(j, k, i) /\ j[i].txid = t /\ j[i].entry = txns[n][t].entry
  BY <1>11
<1>7. PICK h \in 1..k : Undecided(j, k, h) /\ j[h].txid = u /\ j[h].entry = txns[n][u].entry
  BY <1>11
<1>8. Len(log[n]) < j[i].entry.index /\ Len(log[n]) < j[h].entry.index
  <2>1. j[h].entry.index \in Nat /\ j[i].entry.index \in Nat /\ Len(log[n]) \in Nat
    BY <1>6, <1>7, <1>11
  <2> QED BY <1>6, <1>7, <2>1 DEF Pending, LastIndex
<1>9. i # h
  BY <1>6, <1>7
<1>10. h \in 1..(i - 1) \/ i \in 1..(h - 1)
  BY <1>9, SMTT(60)
<1> HIDE DEF j
<1> QED BY <1>5, <1>6, <1>7, <1>8, <1>10

\* The votes of new nodes, and of every node after any steps, are in order.
LEMMA VotesInOrder == LogSpec => [](LogTypeOK /\ LogReplayable /\ JournalInv /\ VoteInv)
<1>1. LogInit => JournalInv /\ VoteInv
  <2> SUFFICES ASSUME LogInit, NEW n \in Node
               PROVE  /\ Tells(journal[n], 0, txns[n]) /\ status[n] = "open" /\ Len(journal[n]) = 0
                      /\ DOMAIN journal[n] = {} /\ DOMAIN log[n] = {}
    BY DEF JournalInv, TableInv, JournalGrammar, OneVoteOneDecision, VoteInv
  <2>1. /\ status[n] = "open" /\ journal[n] = <<>> /\ log[n] = <<>>
        /\ \A t \in TxId : txns[n][t].state = "UNKNOWN"
    BY DEF LogInit, NoTransactions, Unknown
  <2>2. DOMAIN <<>> = {} /\ Len(<<>>) = 0 /\ 1..0 = {}
    BY SMTT(60)
  <2>3. Tells(journal[n], 0, txns[n])
    BY <2>1, <2>2 DEF Tells, RecordIn
  <2> QED BY <2>1, <2>2, <2>3
<1>2. LogTypeOK /\ JournalInv /\ VoteInv /\ [LogNext]_logVars => JournalInv' /\ VoteInv'
  BY JournalInvStep, LogTypeStep, VoteInvStep
<1> QED BY <1>1, <1>2, LogTypeCorrect, LogAlwaysReplayable, PTL DEF LogSpec

\* expected_prepare never gives two undecided votes the same index, also when some
\* of the votes were reloaded after a crash.
THEOREM IndexReservedOnce == LogSpec => []ReservedOnce
BY VotesInOrder, VotesApart, PTL

\* c4_log_open fails only on files that are out of step: it reopens every log and
\* journal of a node killed at any time whose two files agree, and finishes the commit
\* that was interrupted between its two writes.
THEOREM OpenSucceedsInStep == LogSpec => []InStepReopens
<1>1. LogInit => InStepReopens
  BY DEF LogInit, InStepReopens
<1>2. /\ LogTypeOK /\ LogReplayable /\ JournalInv /\ VoteInv /\ InStepReopens
      /\ [LogNext]_logVars
      => InStepReopens'
  BY InStepReopensStep
<1> QED BY <1>1, <1>2, VotesInOrder, PTL DEF LogSpec

----------------------------------------------------------------------------
(* Submissions and requests *)

\* The fields of a submission.
LEMMA SubmissionFields ==
  ASSUME NEW s \in Submission
  PROVE  /\ s.phase \in Phase /\ s.todo \in SUBSET Node /\ s.sent \in SUBSET Node
         /\ s.call \in Node \cup {NoNode} /\ s.ok \in BOOLEAN
         /\ s.entry \in Entry \cup {NoEntry}
BY DEF Submission

\* No submission.
LEMMA IdleIs == Idle \in Submission /\ Idle.phase = "idle"
BY DEF Idle, Submission, Phase

\* A phase that starts with the replicas S.
LEMMA StartedIs ==
  ASSUME NEW phase \in Phase, NEW S \in SUBSET Node, NEW x, x = Started(phase, S)
  PROVE  /\ x \in Submission
         /\ x.phase = phase /\ x.todo = S /\ x.sent = {} /\ x.call = NoNode /\ x.ok = TRUE
BY DEF Started, Idle, Submission

\* A submission that calls m.
LEMMA CallingIs ==
  ASSUME NEW s \in Submission, NEW m \in Node, NEW x, x = Calling(s, m)
  PROVE  /\ x \in Submission
         /\ x.phase = s.phase /\ x.todo = s.todo \ {m} /\ x.sent = s.sent \cup {m}
         /\ x.call = m /\ x.ok = s.ok /\ x.entry = s.entry
BY DEF Calling, Submission

\* A submission that got its answer.
LEMMA AnsweredIs ==
  ASSUME NEW s \in Submission, NEW ok \in BOOLEAN, NEW x, x = Answered(s, ok)
  PROVE  /\ x \in Submission
         /\ x.phase = s.phase /\ x.todo = s.todo /\ x.sent = s.sent
         /\ x.call = NoNode /\ x.entry = s.entry
         /\ x.ok => s.ok /\ (ok \/ s.phase = "abort")
<1>1. (s.ok /\ (ok \/ s.phase = "abort")) \in BOOLEAN
  OBVIOUS
<1> DEFINE v == s.ok /\ (ok \/ s.phase = "abort")
<1>2. x = [s EXCEPT !.call = NoNode, !.ok = v]
  BY DEF Answered
<1> HIDE DEF v
<1>3. v \in BOOLEAN
  BY <1>1 DEF v
<1>4. /\ x \in Submission
      /\ x.phase = s.phase /\ x.todo = s.todo /\ x.sent = s.sent
      /\ x.call = NoNode /\ x.entry = s.entry /\ x.ok = v
  BY <1>2, <1>3 DEF Submission
<1> QED BY <1>4 DEF v

\* A submission that enters another phase as it is.
LEMMA PhaseIs ==
  ASSUME NEW s \in Submission, NEW phase \in Phase, NEW x, x = [s EXCEPT !.phase = phase]
  PROVE  /\ x \in Submission
         /\ x.phase = phase /\ x.todo = s.todo /\ x.sent = s.sent /\ x.call = s.call
         /\ x.ok = s.ok /\ x.entry = s.entry
BY DEF Submission

\* The fields of a request.
LEMMA RequestFields ==
  ASSUME NEW r \in Request
  PROVE  /\ r.src \in Node /\ r.dst \in Node /\ r.txid \in TxId
         /\ r.type \in {"M_PREPARE", "M_COMMIT", "M_ABORT"}
         /\ r.type = "M_PREPARE" => r.entry \in Entry
BY DEF Request

\* The fields of a transfer that is to be applied.
LEMMA LearnerFields ==
  ASSUME NEW r \in Learner
  PROVE  /\ r.type = "M_STATE_TRANSFER" /\ r.dst \in Node
         /\ r.entry \in Entry /\ r.txid = r.entry.txid /\ r.txid \in TxId
<1>1. PICK n \in Node, e \in Entry : r = Learned(n, e)
  BY SMTT(60) DEF Learner
<1>2. r.type = "M_STATE_TRANSFER" /\ r.dst = n /\ r.txid = e.txid /\ r.entry = e
  BY <1>1 DEF Learned
<1>3. e.txid \in TxId
  BY DEF Entry
<1> QED BY <1>2, <1>3

\* What a handler works on is a request, or a transfer that is to be applied.
LEMMA HandledIs ==
  ASSUME TypeOK, NEW r \in calls \cup applying
  PROVE  /\ r.dst \in Node /\ r.txid \in TxId
         /\ r.type # "M_STATE_TRANSFER" => r \in Request
         /\ r.type = "M_STATE_TRANSFER" => r \in Learner
         /\ r.type = "M_PREPARE" => r.entry \in Entry
<1>1. r \in Request \/ r \in Learner
  BY DEF TypeOK
<1>2. CASE r \in Request
  <2>1. /\ r.dst \in Node /\ r.txid \in TxId
        /\ r.type \in {"M_PREPARE", "M_COMMIT", "M_ABORT"}
        /\ r.type = "M_PREPARE" => r.entry \in Entry
    BY <1>2, RequestFields
  <2> QED BY <1>2, <2>1
<1>3. CASE r \in Learner
  <2>1. r.type = "M_STATE_TRANSFER" /\ r.dst \in Node /\ r.txid \in TxId
    BY <1>3, LearnerFields
  <2> QED BY <1>3, <2>1
<1> QED BY <1>1, <1>2, <1>3

\* A handler of a request, or the second half of a transfer.
Serve(r) ==
  /\ r.type # "M_STATE_TRANSFER"
  /\ \/ HandlePrepare(r) \/ HandleCommit(r) \/ ApplyCommit(r) \/ RefuseCommit(r)
     \/ HandleCommitWriteError(r) \/ HandleAbort(r)

LEMMA HandleIs == ASSUME NEW r, Handle(r) PROVE ApplyLearned(r) \/ Serve(r)
BY DEF Handle, Serve, HandlePrepare, HandleCommit, ApplyCommit, RefuseCommit, HandleCommitWriteError,
       HandleAbort

\* What a submission sets, and that it leaves the others as they are.
LEMMA SetIs ==
  ASSUME submission \in [Node -> [TxId -> Submission]], NEW n \in Node, NEW t \in TxId,
         NEW x \in Submission, submission' = [submission EXCEPT ![n][t] = x]
  PROVE  /\ submission' \in [Node -> [TxId -> Submission]]
         /\ submission'[n][t] = x
         /\ \A m \in Node, u \in TxId :
               m # n \/ u # t => submission'[m][u] = submission[m][u]
<1>1. [submission[n] EXCEPT ![t] = x] \in [TxId -> Submission]
  OBVIOUS
<1> QED BY <1>1

\* A submission of t that votes has read its entry.
HasRead(t, s) == s.phase \in {"vote", "prepare"} => s.entry \in Entry /\ s.entry.txid = t

EntryIsRead == \A n \in Node, t \in TxId : HasRead(t, submission[n][t])

\* What a submission sends is a request.
LEMMA RequestToType ==
  ASSUME TypeOK, EntryIsRead, NEW n \in Node, NEW t \in TxId, NEW m \in Node
  PROVE  RequestTo(n, t, m) \in Request
<1>1. submission[n][t].phase = "prepare" => submission[n][t].entry \in Entry
  BY DEF EntryIsRead, HasRead
<1>2. CASE submission[n][t].phase = "prepare"
  BY <1>1, <1>2 DEF RequestTo, Request
<1>3. CASE submission[n][t].phase # "prepare"
  BY <1>3 DEF RequestTo, Request
<1> QED BY <1>2, <1>3

\* An awaited request names the phase of its submission.
LEMMA AwaitedPhase ==
  ASSUME NEW r, Awaited(r), NEW s, s = submission[r.src][r.txid]
  PROVE  /\ s.call = r.dst
         /\ r.type = "M_PREPARE" <=> s.phase = "prepare"
         /\ r.type = "M_ABORT" <=> s.phase = "abort"
<1>1. /\ s.call = r.dst
      /\ r.type = RequestTo(r.src, r.txid, r.dst).type
  BY DEF Awaited
<1>2. RequestTo(r.src, r.txid, r.dst).type
        = IF s.phase = "prepare" THEN "M_PREPARE"
          ELSE IF s.phase = "abort" THEN "M_ABORT" ELSE "M_COMMIT"
  BY DEF RequestTo
<1> QED BY <1>1, <1>2

----------------------------------------------------------------------------
(* Steps of the logs *)

\* Every step of the protocol is a step of the logs, or leaves them alone.
LEMMA CommitStepIsLogStep ==
  ASSUME TypeOK, EntryIsRead, CommitNext
  PROVE  LogNext \/ UNCHANGED logVars
<1>1. ASSUME NEW n \in Node, NEW e \in Entry, Prepare(n, e) \/ AppendEntry(n, e) PROVE LogNext
  BY <1>1 DEF LogNext, Operation
<1>2. ASSUME NEW n \in Node, NEW t \in TxId, Commit(n, t) \/ CommitWriteError(n, t) \/ Abort(n, t)
      PROVE  LogNext
  BY <1>2 DEF LogNext, Operation
<1>3. ASSUME NEW n \in Node,
             \/ Crash(n) \/ CrashInRecord(n) \/ CrashInEntry(n) \/ Open(n) \/ Load(n)
             \/ \E t \in TxId : CrashInCommit(n, t)
      PROVE  LogNext
  BY <1>3 DEF LogNext, Kill
<1>4. ASSUME NEW n \in Node, NEW t \in TxId,
             \/ SubmitNew(n, t) \/ VoteFails(n, t) \/ CallFails(n, t) \/ ApplyHere(n, t)
             \/ Return(n, t)
             \/ \E p \in Payload : SubmitAgain(n, t, p) \/ ReadEnd(n, t, p)
             \/ \E m \in Node : Call(n, t, m)
      PROVE  UNCHANGED logVars
  BY <1>4 DEF SubmitNew, VoteFails, CallFails, ApplyHere, Return, SubmitAgain, ReadEnd, Call
<1>5. ASSUME NEW n \in Node, NEW t \in TxId, Vote(n, t) PROVE LogNext \/ UNCHANGED logVars
  <2>1. submission[n][t].entry \in Entry
    BY <1>5 DEF Vote, EntryIsRead, HasRead
  <2>2. Prepare(n, submission[n][t].entry) \/ UNCHANGED logVars
    BY <1>5 DEF Vote
  <2> QED BY <1>1, <2>1, <2>2
<1>6. ASSUME NEW n \in Node, NEW t \in TxId,
             DecideCommit(n, t) \/ DecideFails(n, t) \/ DecideAbort(n, t)
      PROVE  LogNext \/ UNCHANGED logVars
  BY <1>2, <1>6 DEF DecideCommit, DecideFails, DecideAbort
<1>7. ASSUME NEW r \in calls \cup applying, Handle(r) PROVE LogNext \/ UNCHANGED logVars
  <2>1. /\ r.dst \in Node /\ r.txid \in TxId
        /\ r.type = "M_PREPARE" => r.entry \in Entry
    BY HandledIs
  <2>2. CASE HandlePrepare(r)
    BY <1>1, <2>1, <2>2 DEF HandlePrepare
  <2>3. CASE HandleCommit(r) \/ RefuseCommit(r) \/ HandleCommitWriteError(r) \/ HandleAbort(r)
    BY <1>2, <2>1, <2>3 DEF HandleCommit, RefuseCommit, HandleCommitWriteError, HandleAbort
  <2>4. CASE ApplyCommit(r) \/ ApplyLearned(r)
    BY <2>4 DEF ApplyCommit, ApplyLearned
  <2> QED BY <1>7, <2>2, <2>3, <2>4 DEF Handle
<1>8. ASSUME NEW n \in Node, Die(n) \/ Restart(n) PROVE LogNext
  BY <1>3, <1>8 DEF Die, Restart
<1>9. ASSUME NEW n \in Node, NEW m \in Node, Transfer(n, m) PROVE LogNext \/ UNCHANGED logVars
  <2>1. PICK i \in DOMAIN log[m] : AppendEntry(n, log[m][i]) \/ UNCHANGED logVars
    BY <1>9 DEF Transfer
  <2>2. log[m][i] \in Entry
    BY <2>1, SMTT(60) DEF TypeOK, LogTypeOK
  <2> QED BY <1>1, <2>1, <2>2
<1>10. ASSUME NEW n \in Node, Upheaval(n) PROVE UNCHANGED logVars
  BY <1>10 DEF Upheaval
<1> QED
  BY <1>4, <1>5, <1>6, <1>7, <1>8, <1>9, <1>10 DEF CommitNext, ProtocolNext, Coordinate

----------------------------------------------------------------------------
(* Type correctness *)

\* A submission that sets x keeps the types.
LEMMA SetTypes ==
  ASSUME TypeOK, EntryIsRead, NEW n \in Node, NEW t \in TxId, NEW x \in Submission,
         HasRead(t, x),
         submission' = [submission EXCEPT ![n][t] = x]
  PROVE  submission' \in [Node -> [TxId -> Submission]] /\ EntryIsRead'
<1>1. submission \in [Node -> [TxId -> Submission]]
  BY DEF TypeOK
<1>2. /\ submission' \in [Node -> [TxId -> Submission]]
      /\ submission'[n][t] = x
      /\ \A m \in Node, u \in TxId : m # n \/ u # t => submission'[m][u] = submission[m][u]
  BY <1>1, SetIs, SMTT(60)
<1>3. EntryIsRead'
  BY <1>2 DEF EntryIsRead
<1> QED BY <1>2, <1>3

\* An answer keeps the types.
LEMMA AnswerTypes ==
  ASSUME TypeOK, EntryIsRead, NEW r \in Request, NEW ok \in BOOLEAN, Answer(r, ok)
  PROVE  /\ submission' \in [Node -> [TxId -> Submission]] /\ EntryIsRead'
         /\ leader' = leader /\ alive' = alive /\ acked' = acked
<1> DEFINE s == submission[r.src][r.txid]
<1>1. r.src \in Node /\ r.txid \in TxId
  BY RequestFields
<1>2. submission \in [Node -> [TxId -> Submission]] /\ s \in Submission
  BY <1>1 DEF TypeOK
<1>3. HasRead(r.txid, s)
  BY <1>1 DEF EntryIsRead
<1>4. leader' = leader /\ alive' = alive /\ acked' = acked
  BY DEF Answer
<1>5. CASE submission' = submission
  BY <1>2, <1>4, <1>5 DEF EntryIsRead
<1>6. CASE submission' = [submission EXCEPT ![r.src][r.txid] = Answered(s, ok)]
  <2>1. PICK x : x = Answered(s, ok)
    OBVIOUS
  <2>2. x \in Submission /\ x.phase = s.phase /\ x.entry = s.entry
    BY <1>2, <2>1, AnsweredIs, SMTT(60)
  <2>3. HasRead(r.txid, x)
    BY <1>3, <2>2 DEF HasRead
  <2> QED BY <1>1, <1>4, <1>6, <2>1, <2>2, <2>3, SetTypes
<1> QED BY <1>5, <1>6 DEF Answer

\* The types of the variables besides the logs and the submissions.
OthersTypeOK ==
  /\ leader \in [Node -> Node \cup {NoNode}]
  /\ alive \in [Node -> SUBSET Node]
  /\ calls \subseteq Request /\ applying \subseteq Request \cup Learner
  /\ directory \in [Node -> SUBSET (Entry \cup {NoEntry})]
  /\ acked \in [TxId -> SUBSET Node]
  /\ faults \in 0..MaxFaults

\* The entry of a transaction, if it has one.
LEMMA TxnEntryType ==
  ASSUME LogTypeOK, NEW n \in Node, NEW t \in TxId
  PROVE  txns[n][t].entry \in Entry \cup {NoEntry}
<1>1. txns[n][t] \in Txn
  BY TxnTypes
<1> QED BY <1>1 DEF Txn

\* A failing write is counted up to its bound.
LEMMA WriteFailsType ==
  ASSUME faults \in 0..MaxFaults, NEW what, WriteFails(what)
  PROVE  faults' \in 0..MaxFaults
BY BoundAssumption, SMTT(60) DEF WriteFails

\* The submissions have their types after every step of a coordinator.
LEMMA CoordinatorSubmissions ==
  ASSUME TypeOK, EntryIsRead, NEW n \in Node, NEW t \in TxId,
         \/ SubmitNew(n, t) \/ Coordinate(n, t) \/ \E p \in Payload : SubmitAgain(n, t, p)
  PROVE  submission' \in [Node -> [TxId -> Submission]] /\ EntryIsRead'
<1> DEFINE s == submission[n][t]
           Good == submission' \in [Node -> [TxId -> Submission]] /\ EntryIsRead'
<1>1. s \in Submission /\ alive[n] \in SUBSET Node
  BY DEF TypeOK
<1>2. HasRead(t, s)
  BY DEF EntryIsRead
<1>3. ASSUME NEW x \in Submission, HasRead(t, x),
             submission' = [submission EXCEPT ![n][t] = x]
      PROVE  Good
  BY <1>3, SetTypes
<1>4. ASSUME NEW phase \in Phase \ {"vote", "prepare"}, NEW S \in SUBSET Node,
             submission' = [submission EXCEPT ![n][t] = Started(phase, S)]
      PROVE  Good
  <2>1. PICK x : x = Started(phase, S)
    OBVIOUS
  <2>2. x \in Submission /\ x.phase = phase
    BY <2>1, StartedIs
  <2> QED BY <1>3, <1>4, <2>1, <2>2 DEF HasRead
<1>5. ASSUME submission' = [submission EXCEPT ![n][t] = Idle] PROVE Good
  BY <1>3, <1>5, IdleIs DEF HasRead
<1>6. "read" \in Phase /\ "resend" \in Phase /\ "commit" \in Phase /\ "abort" \in Phase
      /\ "prepare" \in Phase /\ "apply" \in Phase /\ "vote" \in Phase
  BY DEF Phase
<1>7. CASE SubmitNew(n, t) \/ \E p \in Payload : SubmitAgain(n, t, p)
  <2>1. \/ submission' = [submission EXCEPT ![n][t] = Started("read", alive[n])]
        \/ submission' = [submission EXCEPT ![n][t] = Started("resend", alive[n])]
    BY <1>7 DEF SubmitNew, SubmitAgain
  <2> QED BY <1>1, <1>4, <1>6, <2>1
<1>8. CASE \E p \in Payload : ReadEnd(n, t, p)
  <2>1. PICK p \in Payload : ReadEnd(n, t, p)
    BY <1>8
  <2>2. PICK e : e = NextEntry(n, t, p)
    OBVIOUS
  <2>3. e \in Entry
    BY <2>1, <2>2 DEF ReadEnd
  <2>4. PICK x : x = [s EXCEPT !.phase = "vote", !.entry = e]
    OBVIOUS
  <2>a. e.txid = t
    BY <2>2 DEF NextEntry
  <2>5. x \in Submission /\ x.entry = e
    BY <1>1, <1>6, <2>3, <2>4 DEF Submission
  <2>6. submission' = [submission EXCEPT ![n][t] = x]
    BY <2>1, <2>2, <2>4 DEF ReadEnd
  <2> QED BY <1>3, <2>a, <2>3, <2>5, <2>6 DEF HasRead
<1>9. CASE Vote(n, t)
  <2>1. PICK x : x = [s EXCEPT !.phase = "prepare"]
    OBVIOUS
  <2>2. x \in Submission /\ x.entry = s.entry
    BY <1>1, <1>6, <2>1, PhaseIs, SMTT(60)
  <2>3. s.phase = "vote" /\ submission' = [submission EXCEPT ![n][t] = x]
    BY <1>9, <2>1 DEF Vote
  <2> QED BY <1>2, <1>3, <2>2, <2>3 DEF HasRead
<1>10. CASE VoteFails(n, t) \/ DecideFails(n, t) \/ Return(n, t)
  BY <1>5, <1>10 DEF VoteFails, DecideFails, Return
<1>11. CASE \E m \in Node : Call(n, t, m)
  <2>1. PICK m \in Node : submission' = [submission EXCEPT ![n][t] = Calling(s, m)]
    BY <1>11 DEF Call
  <2>2. PICK x : x = Calling(s, m)
    OBVIOUS
  <2>3. x \in Submission /\ x.phase = s.phase /\ x.entry = s.entry
    BY <1>1, <2>2, CallingIs, SMTT(60)
  <2> QED BY <1>2, <1>3, <2>1, <2>2, <2>3 DEF HasRead
<1>12. CASE CallFails(n, t)
  <2>1. PICK x : x = Answered(s, FALSE)
    OBVIOUS
  <2>2. x \in Submission /\ x.phase = s.phase /\ x.entry = s.entry
    BY <1>1, <2>1, AnsweredIs
  <2>3. submission' = [submission EXCEPT ![n][t] = x]
    BY <1>12, <2>1 DEF CallFails
  <2> QED BY <1>2, <1>3, <2>2, <2>3 DEF HasRead
<1>13. CASE DecideCommit(n, t)
  <2>1. PICK x : x = [s EXCEPT !.phase = "apply"]
    OBVIOUS
  <2>2. x \in Submission /\ x.phase = "apply"
    BY <1>1, <1>6, <2>1, PhaseIs
  <2>3. submission' = [submission EXCEPT ![n][t] = x]
    BY <1>13, <2>1 DEF DecideCommit
  <2> QED BY <1>3, <2>2, <2>3 DEF HasRead
<1>14. CASE ApplyHere(n, t) \/ DecideAbort(n, t)
  <2>1. \/ submission' = [submission EXCEPT ![n][t] = Started("commit", s.sent)]
        \/ submission' = [submission EXCEPT ![n][t] = Started("abort", s.sent)]
        \/ submission' = [submission EXCEPT ![n][t] = Idle]
    BY <1>14 DEF ApplyHere, DecideAbort
  <2>2. s.sent \in SUBSET Node
    BY <1>1, SubmissionFields
  <2> QED BY <1>4, <1>5, <1>6, <2>1, <2>2
<1> QED
  BY <1>7, <1>8, <1>9, <1>10, <1>11, <1>12, <1>13, <1>14 DEF Coordinate

\* The submissions have their types after every step.
LEMMA SubmissionTypeStep ==
  ASSUME TypeOK, EntryIsRead, CommitNext
  PROVE  submission' \in [Node -> [TxId -> Submission]] /\ EntryIsRead'
<1> DEFINE Good == submission' \in [Node -> [TxId -> Submission]] /\ EntryIsRead'
<1>1. ASSUME submission' = submission PROVE Good
  BY <1>1 DEF TypeOK, EntryIsRead
<1>2. ASSUME NEW r \in calls \cup applying, Handle(r) PROVE Good
  <2>1. CASE ApplyLearned(r)
    BY <1>1, <2>1 DEF ApplyLearned
  <2>2. CASE Serve(r)
    <3>1. r \in Request
      BY <2>2, HandledIs DEF Serve
    <3>2. submission' = submission \/ \E ok \in BOOLEAN : Answer(r, ok)
      BY <2>2 DEF Serve, HandlePrepare, HandleCommit, ApplyCommit, RefuseCommit,
                  HandleCommitWriteError, HandleAbort, Applicable
    <3> QED BY <1>1, <3>1, <3>2, AnswerTypes
  <2> QED BY <1>2, <2>1, <2>2, HandleIs
<1>3. ASSUME NEW n \in Node, Die(n) PROVE Good
  <2>1. submission' = [submission EXCEPT ![n] = [t \in TxId |-> Idle]]
    BY <1>3 DEF Die
  <2>2. submission' \in [Node -> [TxId -> Submission]]
    BY <2>1, IdleIs DEF TypeOK
  <2>3. ASSUME NEW m \in Node, NEW t \in TxId
        PROVE  submission'[m][t] = Idle \/ submission'[m][t] = submission[m][t]
    BY <2>1 DEF TypeOK
  <2> QED BY <2>2, <2>3, IdleIs, SMTT(60) DEF EntryIsRead, HasRead
<1>4. ASSUME NEW n \in Node,
             Restart(n) \/ Upheaval(n) \/ \E m \in Node : Transfer(n, m)
      PROVE  Good
  BY <1>1, <1>4 DEF Restart, Upheaval, Transfer, commitVars
<1> QED
  BY <1>2, <1>3, <1>4, CoordinatorSubmissions DEF CommitNext, ProtocolNext

\* The other variables have their types after every step.
LEMMA OthersTypeStep ==
  ASSUME TypeOK, EntryIsRead, CommitNext
  PROVE  OthersTypeOK'
<1>1. OthersTypeOK /\ LogTypeOK /\ submission \in [Node -> [TxId -> Submission]]
  BY DEF TypeOK, OthersTypeOK
<1>2. ASSUME UNCHANGED <<leader, alive, calls, applying, directory, acked>>,
             faults' \in 0..MaxFaults
      PROVE  OthersTypeOK'
  BY <1>1, <1>2 DEF OthersTypeOK
<1>3. faults \in 0..MaxFaults /\ \A what : WriteFails(what) => faults' \in 0..MaxFaults
  BY <1>1, WriteFailsType DEF OthersTypeOK
<1>4. ASSUME NEW n \in Node, NEW t \in TxId,
             \/ SubmitNew(n, t) \/ Vote(n, t) \/ VoteFails(n, t) \/ CallFails(n, t)
             \/ DecideCommit(n, t) \/ DecideFails(n, t) \/ DecideAbort(n, t)
             \/ \E p \in Payload : ReadEnd(n, t, p) \/ SubmitAgain(n, t, p)
      PROVE  OthersTypeOK'
  <2>1. UNCHANGED <<leader, alive, calls, applying, directory, acked>>
    BY <1>4 DEF SubmitNew, Vote, VoteFails, CallFails, DecideCommit, DecideFails,
                       DecideAbort, ReadEnd, SubmitAgain
  <2>2. faults' = faults \/ \E what : WriteFails(what)
    BY <1>4 DEF SubmitNew, Vote, VoteFails, CallFails, DecideCommit, DecideFails,
                       DecideAbort, ReadEnd, SubmitAgain
  <2> QED BY <1>2, <1>3, <2>1, <2>2
<1>5. ASSUME NEW n \in Node, NEW t \in TxId, NEW m \in Node, Call(n, t, m) PROVE OthersTypeOK'
  <2>1. /\ UNCHANGED <<leader, alive, applying, directory, acked, faults>>
        /\ calls' = calls \/ calls' = calls \cup {RequestTo(n, t, m)}
    BY <1>5 DEF Call
  <2> QED BY <1>1, <2>1, RequestToType, SMTT(60) DEF OthersTypeOK
<1>6. ASSUME NEW n \in Node, NEW e, directory' = Applied(n, e), e \in Entry \cup {NoEntry}
      PROVE  directory' \in [Node -> SUBSET (Entry \cup {NoEntry})]
  <2>1. directory' = directory \/ directory' = [directory EXCEPT ![n] = @ \cup {e}]
    BY <1>6 DEF Applied
  <2>2. directory \in [Node -> SUBSET (Entry \cup {NoEntry})]
    BY <1>1 DEF OthersTypeOK
  <2>3. directory[n] \cup {e} \in SUBSET (Entry \cup {NoEntry})
    BY <1>6, <2>2
  <2> QED BY <2>1, <2>2, <2>3
<1>7. ASSUME NEW n \in Node, NEW t \in TxId, ApplyHere(n, t) PROVE OthersTypeOK'
  <2>1. /\ UNCHANGED <<leader, alive, calls, applying, acked, faults>>
        /\ directory' = Applied(n, txns[n][t].entry)
    BY <1>7 DEF ApplyHere
  <2>2. directory' \in [Node -> SUBSET (Entry \cup {NoEntry})]
    BY <1>1, <1>6, <2>1, TxnEntryType
  <2> QED BY <1>1, <2>1, <2>2 DEF OthersTypeOK
<1>8. ASSUME NEW n \in Node, NEW t \in TxId, Return(n, t) PROVE OthersTypeOK'
  <2>1. /\ UNCHANGED <<leader, alive, calls, applying, directory, faults>>
        /\ \/ acked' = acked
           \/ acked' = [acked EXCEPT ![t] = @ \cup submission[n][t].sent \cup {n}]
    BY <1>8 DEF Return
  <2>2. submission[n][t].sent \in SUBSET Node
    BY <1>1, SubmissionFields, SMTT(60)
  <2> QED BY <1>1, <2>1, <2>2, SMTT(60) DEF OthersTypeOK
<1>9. ASSUME NEW r \in calls \cup applying, Handle(r) PROVE OthersTypeOK'
  <2>1. /\ r.dst \in Node /\ r.txid \in TxId
        /\ r.type # "M_STATE_TRANSFER" => r \in Request
        /\ r.type = "M_STATE_TRANSFER" => r \in Learner
    BY HandledIs
  <2>2. CASE ApplyLearned(r)
    <3>1. /\ UNCHANGED <<leader, alive, calls, acked, faults>> /\ applying' = applying \ {r}
          /\ r.type = "M_STATE_TRANSFER" /\ directory' = Applied(r.dst, r.entry)
      BY <2>2 DEF ApplyLearned
    <3>2. r.entry \in Entry
      BY <2>1, <3>1, LearnerFields
    <3>3. directory' \in [Node -> SUBSET (Entry \cup {NoEntry})]
      BY <1>6, <2>1, <3>1, <3>2
    <3> QED BY <1>1, <3>1, <3>3 DEF OthersTypeOK
  <2>3. CASE Serve(r)
    <3>1. r \in Request /\ txns[r.dst][r.txid].entry \in Entry \cup {NoEntry}
      BY <1>1, <2>1, <2>3, TxnEntryType DEF Serve
    <3>2. UNCHANGED <<leader, alive, acked>>
      BY <2>3 DEF Serve, HandlePrepare, HandleCommit, ApplyCommit, RefuseCommit,
                  HandleCommitWriteError, HandleAbort, Answer
    <3>3. /\ calls' = calls \/ calls' = calls \ {r}
          /\ applying' = applying \/ applying' = applying \ {r} \/ applying' = applying \cup {r}
      BY <2>3 DEF Serve, HandlePrepare, HandleCommit, ApplyCommit, RefuseCommit,
                  HandleCommitWriteError, HandleAbort
    <3>4. faults' = faults \/ \E what : WriteFails(what)
      BY <2>3 DEF Serve, HandlePrepare, HandleCommit, ApplyCommit, RefuseCommit,
                  HandleCommitWriteError, HandleAbort
    <3>5. directory' = directory \/ directory' = Applied(r.dst, txns[r.dst][r.txid].entry)
      BY <2>3 DEF Serve, HandlePrepare, HandleCommit, ApplyCommit, RefuseCommit,
                  HandleCommitWriteError, HandleAbort
    <3>6. directory' \in [Node -> SUBSET (Entry \cup {NoEntry})]
      BY <1>1, <1>6, <2>1, <3>1, <3>5 DEF OthersTypeOK
    <3>7. faults' \in 0..MaxFaults
      BY <1>3, <3>4
    <3> QED BY <1>1, <3>1, <3>2, <3>3, <3>6, <3>7 DEF OthersTypeOK
  <2> QED BY <1>9, <2>2, <2>3, HandleIs
<1>10. ASSUME NEW n \in Node, Die(n) PROVE OthersTypeOK'
  <2>1. faults' \in 0..MaxFaults
    BY <1>3, <1>10, BoundAssumption, SMTT(60) DEF Die
  <2>2. leader' \in [Node -> Node \cup {NoNode}] /\ alive' \in [Node -> SUBSET Node]
    BY <1>1, <1>10 DEF Die, OthersTypeOK
  <2>3. /\ calls' \subseteq calls /\ applying' \subseteq applying /\ acked' = acked
        /\ directory' = [directory EXCEPT ![n] = {}]
    BY <1>10 DEF Die
  <2> QED BY <1>1, <2>1, <2>2, <2>3 DEF OthersTypeOK
<1>11. ASSUME NEW n \in Node, Restart(n) PROVE OthersTypeOK'
  <2>1. /\ UNCHANGED <<leader, alive, calls, applying, acked, faults>>
        /\ directory' = directory \/ directory' = [directory EXCEPT ![n] = Entries(log[n])]
    BY <1>11 DEF Restart, commitVars
  <2>2. Entries(log[n]) \subseteq Entry
    BY <1>1, SMTT(60) DEF Entries, LogTypeOK
  <2> QED BY <1>1, <2>1, <2>2, SMTT(60) DEF OthersTypeOK
<1>12. ASSUME NEW n \in Node, NEW m \in Node, Transfer(n, m) PROVE OthersTypeOK'
  <2>1. UNCHANGED <<leader, alive, calls, directory, acked, faults>>
    BY <1>12 DEF Transfer
  <2>2. PICK i \in DOMAIN log[m] : applying' = applying \cup {Learned(n, log[m][i])}
    BY <1>12 DEF Transfer
  <2>3. log[m][i] \in Entry
    BY <1>1, <2>2, SMTT(60) DEF LogTypeOK
  <2>4. Learned(n, log[m][i]) \in Learner
    BY <2>3, SMTT(60) DEF Learner
  <2> QED BY <1>1, <2>1, <2>2, <2>4 DEF OthersTypeOK
<1>13. ASSUME NEW n \in Node, Upheaval(n) PROVE OthersTypeOK'
  BY <1>1, <1>13, SMTT(60) DEF Upheaval, OthersTypeOK, commitVars
<1> QED
  BY <1>4, <1>5, <1>7, <1>8, <1>9, <1>10, <1>11, <1>12, <1>13
     DEF CommitNext, ProtocolNext, Coordinate

\* Every step keeps the types.
LEMMA CommitTypeStep ==
  ASSUME TypeOK, EntryIsRead, [CommitNext]_vars
  PROVE  TypeOK' /\ EntryIsRead' /\ [LogNext]_logVars
<1>1. CASE CommitNext
  <2>1. [LogNext]_logVars
    BY <1>1, CommitStepIsLogStep
  <2>2. LogTypeOK'
    BY <2>1, LogTypeStep DEF TypeOK
  <2> QED BY <1>1, <2>1, <2>2, SubmissionTypeStep, OthersTypeStep DEF TypeOK, OthersTypeOK
<1>2. CASE UNCHANGED vars
  BY <1>2 DEF vars, TypeOK, LogTypeOK, EntryIsRead, logVars
<1> QED BY <1>1, <1>2

\* Initially everything has its type.
LEMMA CommitTypeInit == CommitInit => TypeOK /\ EntryIsRead
<1> SUFFICES ASSUME CommitInit PROVE TypeOK /\ EntryIsRead
  OBVIOUS
<1>1. LogTypeOK
  BY LogTypeInit DEF CommitInit, NothingSubmitted
<1>2. submission = [n \in Node |-> [t \in TxId |-> Idle]]
  BY DEF CommitInit, NothingSubmitted
<1>3. submission \in [Node -> [TxId -> Submission]] /\ EntryIsRead
  BY <1>2, IdleIs DEF EntryIsRead, HasRead
<1>4. OthersTypeOK
  BY BoundAssumption, SMTT(60) DEF CommitInit, NothingSubmitted, OthersTypeOK
<1> QED BY <1>1, <1>3, <1>4 DEF TypeOK, OthersTypeOK

\* Submissions, requests, directories and logs keep their types.
THEOREM CommitTypeCorrect == CommitSpec => []TypeOK
BY CommitTypeInit, CommitTypeStep, PTL DEF CommitSpec

\* Whatever the coordinators, replicas and state transfers do to a log is one
\* of the operations of c4_log.c: the theorems about C4Log hold of the logs
\* of the running protocol.
THEOREM CommitImplementsLog == CommitSpec => LogSpec
<1>1. CommitInit => LogInit
  BY DEF CommitInit, NothingSubmitted
<1> QED BY <1>1, CommitTypeInit, CommitTypeStep, PTL DEF CommitSpec, LogSpec


----------------------------------------------------------------------------
(* Votes and replicas *)

\* t is in the log of n, the logs being L.
InLog(L, n, t) == \E i \in DOMAIN L[n] : L[n][i].txid = t

\* The vote of n on t is on disk, the journals being J.
Voted(J, n, t) == RecordIn(J[n], Len(J[n]), "PREPARE", t)

\* A step changes a journal, if at all, by appending a record.
LEMMA JournalStep ==
  ASSUME LogTypeOK, [LogNext]_logVars, NEW m \in Node
  PROVE  journal'[m] = journal[m] \/ \E r \in Record : journal'[m] = Append(journal[m], r)
<1>1. journal \in [Node -> Seq(Record)]
  BY DEF LogTypeOK
<1>2. ASSUME NEW n \in Node, NEW r \in Record, journal' = [journal EXCEPT ![n] = Append(@, r)]
      PROVE  journal'[m] = journal[m] \/ \E x \in Record : journal'[m] = Append(journal[m], x)
  BY <1>1, <1>2
<1>3. ASSUME NEW n \in Node, NEW e \in Entry, Prepare(n, e)
      PROVE  journal' = [journal EXCEPT ![n] = Append(@, PrepareRecord(e))]
             /\ PrepareRecord(e) \in Record
  BY <1>3, SMTT(60) DEF Prepare, Record
<1>4. ASSUME NEW n \in Node, NEW t \in TxId,
             Commit(n, t) \/ CommitWriteError(n, t) \/ Abort(n, t) \/ CrashInCommit(n, t)
      PROVE  \/ journal' = journal
             \/ \E type \in {"COMMIT", "ABORT"} :
                   journal' = [journal EXCEPT ![n] = Append(@, DecisionRecord(type, t))]
  BY <1>4 DEF Commit, CommitWriteError, JournalCommit, Abort, CrashInCommit
<1>5. \A t \in TxId, type \in {"COMMIT", "ABORT"} : DecisionRecord(type, t) \in Record
  BY DecisionType
<1>6. ASSUME NEW n \in Node,
             \/ \E e \in Entry : AppendEntry(n, e)
             \/ Crash(n) \/ CrashInRecord(n) \/ CrashInEntry(n) \/ Open(n)
             \/ LoadPrepare(n) \/ LoadCommit(n) \/ LoadAbort(n) \/ LoadEnd(n)
      PROVE  journal' = journal
  BY <1>6 DEF AppendEntry, Crash, CrashInRecord, CrashInEntry, Open, LoadPrepare, LoadCommit, LoadAbort,
                     LoadEnd, LoadFails, Loaded
<1>7. CASE UNCHANGED logVars
  BY <1>7 DEF logVars
<1> QED BY <1>2, <1>3, <1>4, <1>5, <1>6, <1>7 DEF LogNext, Operation, Kill, Load

\* What is in a log, and what has been voted, stays so.
LEMMA LogAndVotesStay ==
  ASSUME LogTypeOK, [LogNext]_logVars, NEW n \in Node, NEW t
  PROVE  /\ InLog(log, n, t) => InLog(log', n, t)
         /\ Voted(journal, n, t) => Voted(journal', n, t)
<1>1. log[n] \in Seq(Entry) /\ journal[n] \in Seq(Record)
  BY DEF LogTypeOK
<1>2. log'[n] = log[n] \/ \E e \in Entry : log'[n] = Append(log[n], e)
  BY LogStep
<1>3. journal'[n] = journal[n] \/ \E r \in Record : journal'[n] = Append(journal[n], r)
  BY JournalStep
<1>4. InLog(log, n, t) => InLog(log', n, t)
  BY <1>1, <1>2, SMTT(60) DEF InLog
<1>5. Voted(journal, n, t) => Voted(journal', n, t)
  BY <1>1, <1>3, SMTT(60) DEF Voted, RecordIn
<1> QED BY <1>4, <1>5

\* A transaction in the table of a running node carries its own entry, and the
\* vote on it is on disk.
LEMMA TableEntry ==
  ASSUME LogTypeOK, TableMatchesJournal, NEW n \in Node, NEW t \in TxId, status[n] = "open",
         txns[n][t].state \in {"PREPARED", "COMMITTED"}
  PROVE  /\ txns[n][t].entry \in Entry /\ txns[n][t].entry.txid = t
         /\ Voted(journal, n, t)
<1>1. txns[n][t].entry \in Entry
  BY TxnTypes
<1>2. Tells(journal[n], Len(journal[n]), txns[n])
  BY DEF TableMatchesJournal
<1>3. PICK i \in 1..Len(journal[n]) :
         journal[n][i] = PrepareRecord(txns[n][t].entry) /\ journal[n][i].txid = t
  BY <1>2 DEF Tells
<1>4. /\ PrepareRecord(txns[n][t].entry).txid = txns[n][t].entry.txid
      /\ PrepareRecord(txns[n][t].entry).type = "PREPARE"
  BY DEF PrepareRecord
<1>5. txns[n][t].entry.txid = t
  BY <1>3, <1>4
<1>6. Voted(journal, n, t)
  BY <1>3, <1>4 DEF Voted, RecordIn
<1> QED BY <1>1, <1>5, <1>6

\* A commit that succeeds leaves its transaction in the log.
LEMMA CommitLogs ==
  ASSUME LogTypeOK, TableMatchesJournal, NEW n \in Node, NEW t \in TxId,
         CommitAccepts(n, t), Commit(n, t)
  PROVE  InLog(log', n, t)
<1>1. PICK e : e = txns[n][t].entry
  OBVIOUS
<1>2. /\ status[n] = "open" /\ Committable(n, t) /\ AppendAccepts(n, e)
      /\ log' = [log EXCEPT ![n] = LogWith(n, e)]
  BY <1>1 DEF CommitAccepts, Commit
<1>3. e \in Entry /\ e.txid = t
  BY <1>1, <1>2, TableEntry DEF Committable
<1>4. log \in [Node -> Seq(Entry)]
  BY DEF LogTypeOK
<1>5. log'[n] = LogWith(n, e)
  BY <1>2, <1>4
<1>6. CASE IsNext(n, e)
  <2>1. log'[n] = Append(log[n], e)
    BY <1>5, <1>6 DEF LogWith
  <2>2. Len(log[n]) + 1 \in DOMAIN log'[n] /\ log'[n][Len(log[n]) + 1] = e
    BY <1>3, <1>4, <2>1, SMTT(60)
  <2> QED BY <1>3, <2>2 DEF InLog
<1>7. CASE ~IsNext(n, e)
  <2>1. log'[n] = log[n] /\ HasEntry(n, e)
    BY <1>2, <1>5, <1>7 DEF LogWith, AppendAccepts
  <2> QED BY <1>3, <2>1 DEF InLog, HasEntry
<1> QED BY <1>6, <1>7

\* A vote that is given is on disk.
LEMMA PrepareVotes ==
  ASSUME LogTypeOK, TableMatchesJournal, NEW n \in Node, NEW e \in Entry,
         PrepareAccepts(n, e), status[n] = "open",
         IF IsNewPrepare(n, e) THEN Prepare(n, e) ELSE UNCHANGED logVars
  PROVE  Voted(journal', n, e.txid)
<1>1. e.txid \in TxId
  BY DEF Entry
<1>2. journal[n] \in Seq(Record) /\ journal \in [Node -> Seq(Record)]
  BY DEF LogTypeOK
<1>3. CASE IsNewPrepare(n, e)
  <2>1. journal' = [journal EXCEPT ![n] = Append(@, PrepareRecord(e))]
    BY <1>3 DEF Prepare
  <2>2. PrepareRecord(e).type = "PREPARE" /\ PrepareRecord(e).txid = e.txid
    BY DEF PrepareRecord
  <2>3. journal'[n] = Append(journal[n], PrepareRecord(e))
    BY <1>2, <2>1
  <2>4. /\ Len(journal'[n]) = Len(journal[n]) + 1 /\ Len(journal[n]) \in Nat
        /\ journal'[n][Len(journal'[n])] = PrepareRecord(e)
    BY <1>2, <2>3, SMTT(60)
  <2> QED BY <2>2, <2>4, SMTT(60) DEF Voted, RecordIn
<1>4. CASE ~IsNewPrepare(n, e)
  <2>1. /\ txns[n][e.txid].state \in {"PREPARED", "COMMITTED"}
        /\ journal' = journal
    BY <1>4 DEF PrepareAccepts, logVars
  <2> QED BY <1>1, <2>1, TableEntry
<1> QED BY <1>3, <1>4

\* What is known of a submission s of t on n.  While it prepares, whoever
\* answered has voted; once it is committed here, whoever confirmed has it.
SubmissionInv(L, J, n, t, s) ==
  /\ s.phase \in {"read", "vote"} => s.sent = {}
  /\ s.phase = "prepare" /\ s.ok => \A m \in s.sent : m = s.call \/ Voted(J, m, t)
  /\ s.phase = "apply" => \A m \in s.sent : Voted(J, m, t)
  /\ s.phase = "commit" => \A m \in s.sent \cup s.todo : Voted(J, m, t)
  /\ s.phase \in {"apply", "commit", "resend"} => InLog(L, n, t)
  /\ s.phase \in {"commit", "resend"} /\ s.ok => \A m \in s.sent : m = s.call \/ InLog(L, m, t)

SubmissionsInv ==
  \A n \in Node, t \in TxId : SubmissionInv(log, journal, n, t, submission[n][t])

ApplyingInv == \A r \in applying : r.type = "M_COMMIT" => InLog(log, r.dst, r.txid)

AckedInv == \A t \in TxId : \A n \in acked[t] : InLog(log, n, t)

\* A submission that does not move keeps what is known of it.
LEMMA SubmissionStays ==
  ASSUME LogTypeOK, [LogNext]_logVars, NEW n \in Node, NEW t \in TxId, NEW s \in Submission,
         SubmissionInv(log, journal, n, t, s)
  PROVE  SubmissionInv(log', journal', n, t, s)
<1>1. \A m \in Node : /\ InLog(log, m, t) => InLog(log', m, t)
                      /\ Voted(journal, m, t) => Voted(journal', m, t)
  BY LogAndVotesStay
<1>2. s.sent \subseteq Node /\ s.todo \subseteq Node
  BY SubmissionFields
<1> QED BY <1>1, <1>2 DEF SubmissionInv

\* It is enough to look at the submission that moves.
LEMMA SubmissionMoves ==
  ASSUME TypeOK, SubmissionsInv, [LogNext]_logVars, NEW n \in Node, NEW t \in TxId,
         NEW x \in Submission, SubmissionInv(log', journal', n, t, x),
         submission' = [submission EXCEPT ![n][t] = x]
  PROVE  SubmissionsInv'
<1>1. submission \in [Node -> [TxId -> Submission]] /\ LogTypeOK
  BY DEF TypeOK
<1>2. /\ submission'[n][t] = x
      /\ \A m \in Node, u \in TxId : m # n \/ u # t => submission'[m][u] = submission[m][u]
  BY <1>1, SetIs, SMTT(60)
<1> SUFFICES ASSUME NEW m \in Node, NEW u \in TxId
             PROVE  SubmissionInv(log', journal', m, u, submission'[m][u])
  BY DEF SubmissionsInv
<1>3. CASE m = n /\ u = t
  BY <1>2, <1>3
<1>4. CASE m # n \/ u # t
  <2>1. submission[m][u] \in Submission /\ SubmissionInv(log, journal, m, u, submission[m][u])
    BY <1>1 DEF SubmissionsInv
  <2>2. SubmissionInv(log', journal', m, u, submission[m][u])
    BY <1>1, <2>1, SubmissionStays
  <2> QED BY <1>2, <1>4, <2>2
<1> QED BY <1>3, <1>4

\* Nor does a step that moves no submission disturb them.
LEMMA SubmissionsStay ==
  ASSUME TypeOK, SubmissionsInv, [LogNext]_logVars, submission' = submission
  PROVE  SubmissionsInv'
<1>1. submission \in [Node -> [TxId -> Submission]] /\ LogTypeOK
  BY DEF TypeOK
<1> SUFFICES ASSUME NEW m \in Node, NEW u \in TxId
             PROVE  SubmissionInv(log', journal', m, u, submission[m][u])
  BY DEF SubmissionsInv
<1>2. submission[m][u] \in Submission /\ SubmissionInv(log, journal, m, u, submission[m][u])
  BY <1>1 DEF SubmissionsInv
<1> QED BY <1>1, <1>2, SubmissionStays

\* An answer says that the vote, or the entry, is on the replica's disk.
LEMMA AnswerKeeps ==
  ASSUME TypeOK, SubmissionsInv, [LogNext]_logVars, NEW r \in Request, NEW ok \in BOOLEAN,
         Answer(r, ok),
         Awaited(r) /\ ok /\ r.type = "M_PREPARE" => Voted(journal', r.dst, r.txid),
         Awaited(r) /\ ok /\ r.type = "M_COMMIT" => InLog(log', r.dst, r.txid)
  PROVE  SubmissionsInv'
<1>1. CASE ~Awaited(r)
  BY <1>1, SubmissionsStay DEF Answer
<1>2. CASE Awaited(r)
  <2>1. PICK s : s = submission[r.src][r.txid]
    OBVIOUS
  <2>2. PICK x : x = Answered(s, ok)
    OBVIOUS
  <2>3. /\ r.src \in Node /\ r.dst \in Node /\ r.txid \in TxId
        /\ r.type \in {"M_PREPARE", "M_COMMIT", "M_ABORT"}
    BY RequestFields
  <2>4. submission \in [Node -> [TxId -> Submission]] /\ LogTypeOK /\ s \in Submission
    BY <2>1, <2>3 DEF TypeOK
  <2>5. /\ s.call = r.dst
        /\ r.type = "M_PREPARE" <=> s.phase = "prepare"
        /\ r.type = "M_ABORT" <=> s.phase = "abort"
    BY <1>2, <2>1, AwaitedPhase
  <2>6. /\ x \in Submission /\ x.phase = s.phase /\ x.todo = s.todo /\ x.sent = s.sent
        /\ x.ok => s.ok /\ (ok \/ s.phase = "abort")
    BY <2>2, <2>4, AnsweredIs
  <2>7. SubmissionInv(log, journal, r.src, r.txid, s)
    BY <2>1, <2>3 DEF SubmissionsInv
  <2>8. SubmissionInv(log', journal', r.src, r.txid, s)
    BY <2>3, <2>4, <2>7, SubmissionStays
  <2>9. SubmissionInv(log', journal', r.src, r.txid, x)
    <3>1. s.phase = "prepare" /\ x.ok => s.ok /\ Voted(journal', r.dst, r.txid)
      BY <1>2, <2>5, <2>6
    <3>2. s.phase \in {"commit", "resend"} /\ x.ok => s.ok /\ InLog(log', r.dst, r.txid)
      BY <1>2, <2>3, <2>5, <2>6
    <3> QED BY <2>5, <2>6, <2>8, <3>1, <3>2 DEF SubmissionInv
  <2>10. submission' = [submission EXCEPT ![r.src][r.txid] = x]
    BY <1>2, <2>1, <2>2 DEF Answer
  <2> QED BY <2>3, <2>6, <2>9, <2>10, SubmissionMoves
<1> QED BY <1>1, <1>2

\* What has to be known to start a phase.
LEMMA StartedKeeps ==
  ASSUME NEW L, NEW J, NEW n, NEW t, NEW phase \in Phase, NEW S \in SUBSET Node,
         phase \in {"read", "abort", "commit", "resend"},
         phase \in {"commit", "resend"} => InLog(L, n, t),
         phase = "commit" => \A m \in S : Voted(J, m, t)
  PROVE  Started(phase, S) \in Submission /\ SubmissionInv(L, J, n, t, Started(phase, S))
<1>1. PICK x : x = Started(phase, S)
  OBVIOUS
<1>2. x \in Submission /\ x.phase = phase /\ x.todo = S /\ x.sent = {}
  BY <1>1 DEF Started, Idle, Submission
<1>3. SubmissionInv(L, J, n, t, x)
  BY <1>2 DEF SubmissionInv
<1> QED BY <1>1, <1>2, <1>3

\* Every step of a coordinator keeps what is known of the submissions.
LEMMA CoordinatorKeeps ==
  ASSUME TypeOK, EntryIsRead, TableMatchesJournal, SubmissionsInv, [LogNext]_logVars,
         NEW n \in Node, NEW t \in TxId,
         \/ SubmitNew(n, t) \/ Coordinate(n, t) \/ \E p \in Payload : SubmitAgain(n, t, p)
  PROVE  SubmissionsInv'
<1>1. PICK s : s = submission[n][t]
  OBVIOUS
<1>2. s \in Submission /\ LogTypeOK /\ alive[n] \in SUBSET Node
  BY <1>1 DEF TypeOK
<1>3. SubmissionInv(log, journal, n, t, s) /\ SubmissionInv(log', journal', n, t, s)
  BY <1>1, <1>2, SubmissionStays DEF SubmissionsInv
<1>4. /\ s.sent \in SUBSET Node /\ s.todo \in SUBSET Node /\ s.call \in Node \cup {NoNode}
      /\ NoNode \notin Node
  BY <1>2, SubmissionFields, NodeAssumption
<1>5. ASSUME NEW x \in Submission, SubmissionInv(log', journal', n, t, x),
             submission' = [submission EXCEPT ![n][t] = x]
      PROVE  SubmissionsInv'
  BY <1>5, SubmissionMoves
<1>6. ASSUME NEW phase \in Phase, NEW S \in SUBSET Node,
             phase \in {"read", "abort", "commit", "resend"},
             phase \in {"commit", "resend"} => InLog(log', n, t),
             phase = "commit" => \A m \in S : Voted(journal', m, t),
             submission' = [submission EXCEPT ![n][t] = Started(phase, S)]
      PROVE  SubmissionsInv'
  <2>1. Started(phase, S) \in Submission /\ SubmissionInv(log', journal', n, t, Started(phase, S))
    BY <1>6, StartedKeeps
  <2> QED BY <1>5, <1>6, <2>1
<1>7. ASSUME submission' = [submission EXCEPT ![n][t] = Idle] PROVE SubmissionsInv'
  <2>1. SubmissionInv(log', journal', n, t, Idle)
    BY IdleIs DEF SubmissionInv
  <2> QED BY <1>5, <1>7, <2>1, IdleIs
<1>8. {"read", "vote", "prepare", "apply", "commit", "abort", "resend"} \subseteq Phase
  BY DEF Phase
<1>9. CASE SubmitNew(n, t)
  <2>1. submission' = [submission EXCEPT ![n][t] = Started("read", alive[n])]
    BY <1>9 DEF SubmitNew
  <2> QED BY <1>2, <1>6, <1>8, <2>1
<1>10. CASE \E p \in Payload : SubmitAgain(n, t, p)
  <2>1. submission' = [submission EXCEPT ![n][t] = Started("resend", alive[n])]
    BY <1>10 DEF SubmitAgain
  <2>2. InLog(log, n, t)
    BY <1>10 DEF SubmitAgain, InLog
  <2>3. InLog(log', n, t)
    BY <1>2, <2>2, LogAndVotesStay
  <2> QED BY <1>2, <1>6, <1>8, <2>1, <2>3
<1>11. CASE \E p \in Payload : ReadEnd(n, t, p)
  <2>1. PICK p \in Payload : ReadEnd(n, t, p)
    BY <1>11
  <2>2. PICK e : e = NextEntry(n, t, p)
    OBVIOUS
  <2>3. e \in Entry /\ s.phase = "read"
    BY <1>1, <2>1, <2>2 DEF ReadEnd
  <2>4. PICK x : x = [s EXCEPT !.phase = "vote", !.entry = e]
    OBVIOUS
  <2>5. x \in Submission /\ x.phase = "vote" /\ x.sent = s.sent
    BY <1>2, <1>8, <2>3, <2>4 DEF Submission
  <2>6. submission' = [submission EXCEPT ![n][t] = x]
    BY <1>1, <2>1, <2>2, <2>4 DEF ReadEnd
  <2>7. SubmissionInv(log', journal', n, t, x)
    BY <1>3, <2>3, <2>5 DEF SubmissionInv
  <2> QED BY <1>5, <2>5, <2>6, <2>7
<1>12. CASE Vote(n, t)
  <2>1. PICK x : x = [s EXCEPT !.phase = "prepare"]
    OBVIOUS
  <2>2. x \in Submission /\ x.phase = "prepare" /\ x.sent = s.sent
    BY <1>2, <1>8, <2>1, PhaseIs, SMTT(60)
  <2>3. s.phase = "vote" /\ submission' = [submission EXCEPT ![n][t] = x]
    BY <1>1, <1>12, <2>1 DEF Vote
  <2>4. SubmissionInv(log', journal', n, t, x)
    BY <1>3, <2>2, <2>3 DEF SubmissionInv
  <2> QED BY <1>5, <2>2, <2>3, <2>4
<1>13. CASE VoteFails(n, t) \/ DecideFails(n, t) \/ Return(n, t)
  BY <1>7, <1>13 DEF VoteFails, DecideFails, Return
<1>14. CASE \E m \in Node : Call(n, t, m)
  <2>1. PICK m \in Node :
           /\ submission' = [submission EXCEPT ![n][t] = Calling(s, m)]
           /\ s.phase \in {"prepare", "commit", "abort", "resend"}
           /\ s.call = NoNode /\ m \in s.todo
    BY <1>1, <1>14 DEF Call
  <2>2. PICK x : x = Calling(s, m)
    OBVIOUS
  <2>3. /\ x \in Submission /\ x.phase = s.phase /\ x.todo = s.todo \ {m}
        /\ x.sent = s.sent \cup {m} /\ x.call = m /\ x.ok = s.ok
    BY <1>2, <2>2, CallingIs, SMTT(60)
  <2>4. \A k \in s.sent : k # s.call
    BY <1>4, <2>1
  <2>5. SubmissionInv(log', journal', n, t, x)
    BY <1>3, <2>1, <2>3, <2>4 DEF SubmissionInv
  <2> QED BY <1>5, <2>1, <2>2, <2>3, <2>5
<1>15. CASE CallFails(n, t)
  <2>1. PICK x : x = Answered(s, FALSE)
    OBVIOUS
  <2>2. /\ x \in Submission /\ x.phase = s.phase /\ x.todo = s.todo /\ x.sent = s.sent
        /\ x.ok => s.phase = "abort"
    BY <1>2, <2>1, AnsweredIs
  <2>3. submission' = [submission EXCEPT ![n][t] = x]
    BY <1>1, <1>15, <2>1 DEF CallFails
  <2>4. SubmissionInv(log', journal', n, t, x)
    BY <1>3, <2>2 DEF SubmissionInv
  <2> QED BY <1>5, <2>2, <2>3, <2>4
<1>16. CASE DecideCommit(n, t)
  <2>1. PICK x : x = [s EXCEPT !.phase = "apply"]
    OBVIOUS
  <2>2. x \in Submission /\ x.phase = "apply" /\ x.sent = s.sent
    BY <1>2, <1>8, <2>1, PhaseIs, SMTT(60)
  <2>3. /\ submission' = [submission EXCEPT ![n][t] = x]
        /\ s.phase = "prepare" /\ s.ok /\ s.call = NoNode
        /\ CommitAccepts(n, t) /\ Commit(n, t)
    BY <1>1, <1>16, <2>1 DEF DecideCommit, AllCalled
  <2>4. InLog(log', n, t)
    BY <1>2, <2>3, CommitLogs
  <2>5. \A m \in s.sent : Voted(journal', m, t)
    BY <1>3, <1>4, <2>3 DEF SubmissionInv
  <2>6. SubmissionInv(log', journal', n, t, x)
    BY <2>2, <2>4, <2>5 DEF SubmissionInv
  <2> QED BY <1>5, <2>2, <2>3, <2>6
<1>17. CASE ApplyHere(n, t)
  <2>1. /\ s.phase = "apply"
        /\ \/ submission' = [submission EXCEPT ![n][t] = Started("commit", s.sent)]
           \/ submission' = [submission EXCEPT ![n][t] = Idle]
    BY <1>1, <1>17 DEF ApplyHere
  <2>2. InLog(log', n, t) /\ \A m \in s.sent : Voted(journal', m, t)
    BY <1>3, <2>1 DEF SubmissionInv
  <2> QED BY <1>4, <1>6, <1>7, <1>8, <2>1, <2>2
<1>18. CASE DecideAbort(n, t)
  <2>1. submission' = [submission EXCEPT ![n][t] = Started("abort", s.sent)]
    BY <1>1, <1>18 DEF DecideAbort
  <2> QED BY <1>4, <1>6, <1>8, <2>1
<1> QED
  BY <1>9, <1>10, <1>11, <1>12, <1>13, <1>14, <1>15, <1>16, <1>17, <1>18 DEF Coordinate

\* Every step keeps what is known of the submissions.
LEMMA SubmissionsStep ==
  ASSUME TypeOK, EntryIsRead, TableMatchesJournal, SubmissionsInv, ApplyingInv, CommitNext
  PROVE  SubmissionsInv'
<1>1. [LogNext]_logVars /\ LogTypeOK
  BY CommitStepIsLogStep DEF TypeOK
<1>2. ASSUME submission' = submission PROVE SubmissionsInv'
  BY <1>1, <1>2, SubmissionsStay
<1>3. ASSUME NEW r \in calls \cup applying, Serve(r) PROVE SubmissionsInv'
  <2>a. r.type # "M_STATE_TRANSFER"
    BY <1>3 DEF Serve
  <2>b. r \in Request /\ (r.type = "M_PREPARE" => r.entry \in Entry)
    BY <2>a, HandledIs
  <2>1. /\ r \in Request /\ r.src \in Node /\ r.dst \in Node /\ r.txid \in TxId
        /\ r.type = "M_PREPARE" => r.entry \in Entry
    BY <2>b, RequestFields
  <2>2. CASE HandleCommit(r)
    BY <1>2, <2>2 DEF HandleCommit
  <2>3. ASSUME NEW ok \in BOOLEAN, Answer(r, ok),
               Awaited(r) /\ ok /\ r.type = "M_PREPARE" => Voted(journal', r.dst, r.txid),
               Awaited(r) /\ ok /\ r.type = "M_COMMIT" => InLog(log', r.dst, r.txid)
        PROVE  SubmissionsInv'
    BY <1>1, <2>1, <2>3, AnswerKeeps
  <2>4. CASE RefuseCommit(r) \/ HandleCommitWriteError(r)
    <3>1. Answer(r, FALSE)
      BY <2>4 DEF RefuseCommit, HandleCommitWriteError
    <3> QED BY <2>3, <3>1
  <2>5. CASE HandleAbort(r)
    <3>1. r.type = "M_ABORT" /\ \E ok \in BOOLEAN : Answer(r, ok)
      BY <2>5 DEF HandleAbort
    <3> QED BY <2>3, <3>1
  <2>6. CASE ApplyCommit(r)
    <3>1. r \in applying /\ log' = log /\ \E ok \in BOOLEAN : Answer(r, ok)
      BY <2>6 DEF ApplyCommit, logVars, Applicable
    <3>3. r.type = "M_COMMIT"
      BY <2>6 DEF ApplyCommit
    <3>2. InLog(log', r.dst, r.txid)
      BY <3>1, <3>3 DEF ApplyingInv, InLog
    <3> QED BY <2>3, <3>1, <3>2, <3>3
  <2>7. CASE HandlePrepare(r)
    <3>1. PICK ok \in BOOLEAN : /\ Answer(r, ok)
                                /\ ok => FromLeader(r) /\ PrepareAccepts(r.dst, r.entry)
      BY <2>7 DEF HandlePrepare
    <3>2. /\ r.type = "M_PREPARE" /\ status[r.dst] = "open"
          /\ ok => IF IsNewPrepare(r.dst, r.entry) THEN Prepare(r.dst, r.entry)
                                                   ELSE UNCHANGED logVars
      BY <2>7, <3>1 DEF HandlePrepare
    <3>3. ok => Voted(journal', r.dst, r.entry.txid)
      BY <1>1, <2>1, <3>1, <3>2, PrepareVotes
    <3>4. Awaited(r) => r.entry.txid = r.txid
      <4>1. SUFFICES ASSUME Awaited(r) PROVE r.entry.txid = r.txid
        OBVIOUS
      <4>2. submission[r.src][r.txid].phase = "prepare"
        BY <3>2, <4>1, AwaitedPhase
      <4>3. r.entry = submission[r.src][r.txid].entry
        BY <4>1, <4>2, SMTT(60) DEF Awaited, RequestTo
      <4> QED BY <2>1, <4>2, <4>3, SMTT(60) DEF EntryIsRead, HasRead
    <3> QED BY <2>3, <3>1, <3>2, <3>3, <3>4
  <2> QED BY <1>3, <2>2, <2>4, <2>5, <2>6, <2>7 DEF Serve
<1>4. ASSUME NEW n \in Node, Die(n) PROVE SubmissionsInv'
  <2>1. submission' = [submission EXCEPT ![n] = [t \in TxId |-> Idle]]
    BY <1>4 DEF Die
  <2>2. SUFFICES ASSUME NEW m \in Node, NEW u \in TxId
                 PROVE  SubmissionInv(log', journal', m, u, submission'[m][u])
    BY DEF SubmissionsInv
  <2>3. submission'[m][u] = Idle \/ submission'[m][u] = submission[m][u]
    BY <2>1 DEF TypeOK
  <2>4. SubmissionInv(log', journal', m, u, Idle)
    BY IdleIs DEF SubmissionInv
  <2>5. submission[m][u] \in Submission /\ SubmissionInv(log, journal, m, u, submission[m][u])
    BY DEF SubmissionsInv, TypeOK
  <2>6. SubmissionInv(log', journal', m, u, submission[m][u])
    BY <1>1, <2>5, SubmissionStays
  <2> QED BY <2>3, <2>4, <2>6
<1>5. ASSUME NEW n \in Node,
             Restart(n) \/ Upheaval(n) \/ \E m \in Node : Transfer(n, m)
      PROVE  SubmissionsInv'
  BY <1>2, <1>5 DEF Restart, Upheaval, Transfer, commitVars
<1>6. ASSUME NEW r \in calls \cup applying, Handle(r) PROVE SubmissionsInv'
  <2>1. CASE ApplyLearned(r)
    BY <1>2, <2>1 DEF ApplyLearned
  <2> QED BY <1>3, <1>6, <2>1, HandleIs
<1> QED
  BY <1>1, <1>4, <1>5, <1>6, CoordinatorKeeps DEF CommitNext, ProtocolNext

\* Every step keeps the entries that are being applied, and those that were
\* confirmed to a client, in the logs.
LEMMA ApplyingAndAckedStep ==
  ASSUME TypeOK, EntryIsRead, TableMatchesJournal, SubmissionsInv, ApplyingInv, AckedInv,
         CommitNext
  PROVE  ApplyingInv' /\ AckedInv'
<1>1. [LogNext]_logVars /\ LogTypeOK
  BY CommitStepIsLogStep DEF TypeOK
<1>2. /\ \A n \in Node, t \in TxId : InLog(log, n, t) => InLog(log', n, t)
      /\ acked \in [TxId -> SUBSET Node]
  BY <1>1, LogAndVotesStay DEF TypeOK
<1>a. \A r \in applying : r.dst \in Node /\ r.txid \in TxId
  BY HandledIs
<1>3. \A r \in applying : r.type = "M_COMMIT" => InLog(log', r.dst, r.txid)
  BY <1>2, <1>a DEF ApplyingInv
<1>4. \A t \in TxId : \A n \in acked[t] : InLog(log', n, t)
  BY <1>2 DEF AckedInv
<1>5. ASSUME applying' \subseteq applying PROVE ApplyingInv'
  BY <1>3, <1>5 DEF ApplyingInv
<1>6. ASSUME acked' = acked PROVE AckedInv'
  BY <1>4, <1>6 DEF AckedInv
<1>7. ASSUME NEW n \in Node, NEW t \in TxId, Return(n, t) PROVE ApplyingInv' /\ AckedInv'
  <2>1. PICK s : s = submission[n][t]
    OBVIOUS
  <2>2. /\ s.phase \in {"commit", "abort", "resend"} /\ s.call = NoNode /\ applying' = applying
        /\ \/ acked' = acked
           \/ /\ s.phase # "abort" /\ s.ok
              /\ acked' = [acked EXCEPT ![t] = @ \cup s.sent \cup {n}]
    BY <1>7, <2>1 DEF Return, AllCalled
  <2>3. CASE acked' = acked
    BY <1>5, <1>6, <2>2, <2>3
  <2>4. CASE acked' # acked
    <3>1. s \in Submission /\ SubmissionInv(log, journal, n, t, s)
      BY <2>1 DEF TypeOK, SubmissionsInv
    <3>2. s.sent \subseteq Node /\ NoNode \notin Node
      BY <3>1, SubmissionFields, NodeAssumption
    <3>3. InLog(log, n, t) /\ \A m \in s.sent : InLog(log, m, t)
      BY <2>2, <2>4, <3>1, <3>2 DEF SubmissionInv
    <3>4. InLog(log', n, t) /\ \A m \in s.sent : InLog(log', m, t)
      BY <1>2, <3>2, <3>3
    <3>5. ASSUME NEW u \in TxId, NEW m \in acked'[u]
          PROVE  m \in acked[u] \/ (u = t /\ (m \in s.sent \/ m = n))
      BY <1>2, <2>2, <2>4, <3>5
    <3>6. \A u \in TxId : \A m \in acked'[u] : InLog(log', m, u)
      BY <1>4, <3>4, <3>5
    <3> QED BY <1>5, <2>2, <3>6 DEF AckedInv
  <2> QED BY <2>3, <2>4
<1>8. ASSUME NEW n \in Node, NEW t \in TxId,
             \/ SubmitNew(n, t) \/ Vote(n, t) \/ VoteFails(n, t) \/ CallFails(n, t)
             \/ DecideCommit(n, t) \/ ApplyHere(n, t) \/ DecideFails(n, t) \/ DecideAbort(n, t)
             \/ \E p \in Payload : ReadEnd(n, t, p) \/ SubmitAgain(n, t, p)
             \/ \E m \in Node : Call(n, t, m)
      PROVE  ApplyingInv' /\ AckedInv'
  <2>1. applying' = applying /\ acked' = acked
    BY <1>8 DEF SubmitNew, Vote, VoteFails, CallFails, DecideCommit, ApplyHere,
                       DecideFails, DecideAbort, ReadEnd, SubmitAgain, Call
  <2> QED BY <1>5, <1>6, <2>1
<1>9. ASSUME NEW r \in calls \cup applying, Handle(r) PROVE ApplyingInv' /\ AckedInv'
  <2>1. acked' = acked
    BY <1>9 DEF Handle, HandlePrepare, HandleCommit, ApplyCommit, RefuseCommit,
                       HandleCommitWriteError, HandleAbort, ApplyLearned, Answer
  <2>2. CASE ~HandleCommit(r)
    <3>1. applying' = applying \/ applying' = applying \ {r}
      BY <1>9, <2>2 DEF Handle, HandlePrepare, ApplyCommit, RefuseCommit,
                               HandleCommitWriteError, HandleAbort, ApplyLearned
    <3>2. applying' \subseteq applying
      BY <3>1
    <3> QED BY <1>5, <1>6, <2>1, <3>2
  <2>3. CASE HandleCommit(r)
    <3>1. /\ r.type = "M_COMMIT" /\ applying' = applying \cup {r}
          /\ CommitAccepts(r.dst, r.txid) /\ Commit(r.dst, r.txid)
      BY <2>3 DEF HandleCommit
    <3>2. r.dst \in Node /\ r.txid \in TxId
      BY HandledIs
    <3>3. InLog(log', r.dst, r.txid)
      BY <1>1, <3>1, <3>2, CommitLogs
    <3>4. \A x \in applying' : x \in applying \/ x = r
      BY <3>1
    <3>5. \A x \in applying' : x.type = "M_COMMIT" => InLog(log', x.dst, x.txid)
      BY <1>3, <3>1, <3>3, <3>4
    <3> QED BY <1>6, <2>1, <3>5 DEF ApplyingInv
  <2> QED BY <2>2, <2>3
<1>10. ASSUME NEW n \in Node, Die(n) \/ Restart(n) \/ Upheaval(n) PROVE ApplyingInv' /\ AckedInv'
  <2>1. acked' = acked /\ applying' \subseteq applying
    BY <1>10 DEF Die, Restart, Upheaval, commitVars
  <2> QED BY <1>5, <1>6, <2>1
<1>11. ASSUME NEW n \in Node, NEW m \in Node, Transfer(n, m) PROVE ApplyingInv' /\ AckedInv'
  <2>1. PICK e : acked' = acked /\ applying' = applying \cup {Learned(n, e)}
    BY <1>11 DEF Transfer
  <2>2. Learned(n, e).type # "M_COMMIT"
    BY DEF Learned
  <2>3. ApplyingInv'
    BY <1>3, <2>1, <2>2 DEF ApplyingInv
  <2> QED BY <1>6, <2>1, <2>3
<1> QED
  BY <1>7, <1>8, <1>9, <1>10, <1>11 DEF CommitNext, ProtocolNext, Coordinate

\* The invariant of the submissions, requests and acknowledgements.
ReplicaInv == SubmissionsInv /\ ApplyingInv /\ AckedInv

\* Every step of the commit keeps the invariant of the replicas.
LEMMA ReplicaInvStep ==
  ASSUME TypeOK, EntryIsRead, TableMatchesJournal, ReplicaInv, [CommitNext]_vars
  PROVE  ReplicaInv'
<1>1. CASE CommitNext
  BY <1>1, SubmissionsStep, ApplyingAndAckedStep DEF ReplicaInv
<1>2. CASE UNCHANGED vars
  BY <1>2 DEF vars, ReplicaInv, SubmissionsInv, ApplyingInv, AckedInv
<1> QED BY <1>1, <1>2

\* The replicas start with nothing to remember.
LEMMA ReplicaInvInit == CommitInit => ReplicaInv
<1> SUFFICES ASSUME CommitInit PROVE ReplicaInv
  OBVIOUS
<1>1. /\ submission = [n \in Node |-> [t \in TxId |-> Idle]]
      /\ applying = {} /\ acked = [t \in TxId |-> {}]
  BY DEF CommitInit, NothingSubmitted
<1>2. SubmissionsInv
  BY <1>1, IdleIs DEF SubmissionsInv, SubmissionInv
<1> QED BY <1>1, <1>2 DEF ReplicaInv, ApplyingInv, AckedInv

\* For any number of replicas, and any election, membership and state transfer:
\* when c4_cluster_submit has returned 0 the transaction is in the log of every
\* replica it covered, and stays there through crashes and restarts.
THEOREM AckedReplicated == CommitSpec => []AckedIsReplicated
<1>1. ReplicaInv => AckedIsReplicated
  BY DEF ReplicaInv, AckedInv, InLog, AckedIsReplicated, HasTxId
<1>2. CommitSpec => []TableMatchesJournal
  BY CommitImplementsLog, JournalCorrect, PTL
<1> QED
  BY <1>1, <1>2, CommitTypeInit, CommitTypeStep, ReplicaInvInit, ReplicaInvStep, PTL DEF CommitSpec

\* No coordinator, whoever else believes to lead at the same time, tells a
\* replica to commit before every replica it called has its vote on disk.
THEOREM VotesBeforeCommit == CommitSpec => []CommitAfterVotes
<1>1. ReplicaInv => CommitAfterVotes
  BY DEF ReplicaInv, SubmissionsInv, SubmissionInv, Voted, CommitAfterVotes, Recorded
<1>2. CommitSpec => []TableMatchesJournal
  BY CommitImplementsLog, JournalCorrect, PTL
<1> QED
  BY <1>1, <1>2, CommitTypeInit, CommitTypeStep, ReplicaInvInit, ReplicaInvStep, PTL DEF CommitSpec

----------------------------------------------------------------------------
(* One coordinator *)

\* A node does not count itself among the others that are alive.
AliveInv ==
  /\ leader \in [Node -> Node \cup {NoNode}]
  /\ alive \in [Node -> SUBSET Node]
  /\ \A n \in Node : n \notin alive[n]

\* The steps of the stable system are steps of the commit protocol under any
\* election and membership.
LEMMA StableStep ==
  ASSUME AliveInv, [StableNext]_vars
  PROVE  [CommitNext]_vars /\ AliveInv'
<1> USE DEF AliveInv
<1>1. ASSUME NEW n \in Node, NEW m \in Node \cup {NoNode}, NEW S \in SUBSET (Node \ {n}),
             status[n] = "open",
             leader' = [leader EXCEPT ![n] = m], alive' = [alive EXCEPT ![n] = S],
             UNCHANGED <<logVars, directory, commitVars>>
      PROVE  CommitNext /\ AliveInv'
  <2>1. Upheaval(n)
    BY <1>1 DEF Upheaval
  <2>2. AliveInv'
    BY <1>1
  <2> QED BY <2>1, <2>2 DEF CommitNext
<1>2. ASSUME NEW n \in Node, Follow(n) PROVE CommitNext /\ AliveInv'
  <2>1. {m \in Node \ {n} : status[m] = "open"} \in SUBSET (Node \ {n})
    OBVIOUS
  <2> QED BY <1>1, <1>2, <2>1, NodeAssumption DEF Follow
<1>3. ASSUME NEW n \in Node, NEW m \in Node, Detect(n, m) PROVE CommitNext /\ AliveInv'
  <2> DEFINE S == IF status[m] = "open" THEN alive[n] \cup {m} ELSE alive[n] \ {m}
  <2>1. S \in SUBSET (Node \ {n}) /\ alive' = [alive EXCEPT ![n] = S] /\ status[n] = "open"
    BY <1>3 DEF Detect
  <2>2. leader' = [leader EXCEPT ![n] = leader[n]] /\ leader[n] \in Node \cup {NoNode}
    BY <1>3 DEF Detect
  <2>3. UNCHANGED <<logVars, directory, commitVars>>
    BY <1>3 DEF Detect
  <2> HIDE DEF S
  <2> QED BY <1>1, <2>1, <2>2, <2>3
<1>4. ASSUME NEW n \in Node \ {Leader}, Transfer(n, Leader) PROVE CommitNext /\ AliveInv'
  <2>1. CommitNext
    BY <1>4, NodeAssumption DEF CommitNext
  <2>2. leader' = leader /\ alive' = alive
    BY <1>4 DEF Transfer
  <2> QED BY <2>1, <2>2
<1>5. CASE ProtocolNext
  <2>1. ASSUME NEW n \in Node, Die(n) PROVE AliveInv'
    BY <2>1 DEF Die
  <2>2. ASSUME NEW n \in Node, NEW t \in TxId,
               \/ SubmitNew(n, t) \/ Coordinate(n, t)
               \/ \E p \in Payload : SubmitAgain(n, t, p)
        PROVE  leader' = leader /\ alive' = alive
    BY <2>2 DEF Coordinate, SubmitNew, Vote, VoteFails, CallFails, DecideCommit, ApplyHere,
                       DecideFails, DecideAbort, ReadEnd, SubmitAgain, Call, Return
  <2>3. ASSUME NEW r \in calls \cup applying, Handle(r) PROVE leader' = leader /\ alive' = alive
    BY <2>3 DEF Handle, HandlePrepare, HandleCommit, ApplyCommit, RefuseCommit,
                       HandleCommitWriteError, HandleAbort, ApplyLearned, Answer
  <2>4. ASSUME NEW n \in Node, Restart(n) PROVE leader' = leader /\ alive' = alive
    BY <2>4 DEF Restart
  <2>5. ASSUME leader' = leader, alive' = alive PROVE AliveInv'
    BY <2>5
  <2>6. AliveInv'
    BY <1>5, <2>1, <2>2, <2>3, <2>4, <2>5 DEF ProtocolNext
  <2> QED BY <1>5, <2>6 DEF CommitNext
<1>6. CASE UNCHANGED vars
  BY <1>6 DEF vars
<1> QED BY <1>2, <1>3, <1>4, <1>5, <1>6 DEF StableNext

\* A system in which everybody follows one coordinator is an instance of the
\* protocol under any election: the theorems above hold of it.
THEOREM StableImplementsCommit == StableSpec => CommitSpec
<1>1. Init => CommitInit /\ AliveInv
  BY NodeAssumption DEF Init, CommitInit, AliveInv
<1> QED BY <1>1, StableStep, PTL DEF StableSpec, CommitSpec

----------------------------------------------------------------------------
(* The directory follows the log *)

\* t is committed on n, and its entry is in the log.
Ready(n, t) ==
  /\ status[n] = "open"
  /\ txns[n][t].state = "COMMITTED"
  /\ txns[n][t].entry \in Entries(log[n])

\* A thread of n that has committed t is about to apply it.
CommitDue(n, t) ==
  \/ submission[n][t].phase = "apply"
  \/ \E r \in applying : r.type = "M_COMMIT" /\ r.dst = n /\ r.txid = t

\* A thread of n is about to apply t, committed there or received from another replica.
Due(n, t) ==
  \/ submission[n][t].phase = "apply"
  \/ \E r \in applying : r.dst = n /\ r.txid = t

DueIsReady == \A n \in Node, t \in TxId : CommitDue(n, t) => Ready(n, t)

\* What a state transfer is about to apply is in the log.
LearnedIsLogged ==
  \A r \in applying : r.type = "M_STATE_TRANSFER" =>
     status[r.dst] = "open" /\ r.entry \in Entries(log[r.dst])

Follows(n) ==
  /\ directory[n] \subseteq Entries(log[n])
  /\ \A e \in Entries(log[n]) \ directory[n] : ~Applicable(e) \/ Due(n, e.txid)

DirectoryInv ==
  DueIsReady /\ LearnedIsLogged /\ \A n \in Node : status[n] = "open" => Follows(n)

----------------------------------------------------------------------------
(* The log and the table *)

\* Entries stay in a log.
LEMMA EntriesStay ==
  ASSUME LogTypeOK, [LogNext]_logVars, NEW n \in Node
  PROVE  Entries(log[n]) \subseteq Entries(log'[n])
<1>1. log[n] \in Seq(Entry)
  BY DEF LogTypeOK
<1>2. log'[n] = log[n] \/ \E e \in Entry : log'[n] = Append(log[n], e)
  BY LogStep
<1> QED BY <1>1, <1>2, SMTT(60) DEF Entries

\* An operation on the log of m leaves the table of every other node alone.
LEMMA OtherTables ==
  ASSUME LogTypeOK, NEW m \in Node, Operation(m) \/ Kill(m) \/ Open(m) \/ Load(m),
         NEW n \in Node, n # m
  PROVE  txns'[n] = txns[n]
<1>1. txns \in [Node -> [TxId -> Txn]]
  BY DEF LogTypeOK
<1>2. ASSUME NEW t, NEW x, txns' = [txns EXCEPT ![m][t] = x] PROVE txns'[n] = txns[n]
  BY <1>1, <1>2
<1>3. ASSUME NEW x, txns' = [txns EXCEPT ![m] = x] PROVE txns'[n] = txns[n]
  BY <1>1, <1>3
<1>4. CASE Operation(m)
  <2>1. txns' = txns \/ \E t, x : txns' = [txns EXCEPT ![m][t] = x]
    BY <1>4 DEF Operation, Prepare, AppendEntry, Commit, CommitWriteError, JournalCommit, Abort
  <2> QED BY <1>2, <2>1
<1>5. CASE Kill(m) \/ Open(m)
  <2>1. txns' = txns \/ \E x : txns' = [txns EXCEPT ![m] = x]
    BY <1>5 DEF Kill, Crash, CrashInCommit, CrashInRecord, CrashInEntry, Stopped, Open
  <2> QED BY <1>3, <2>1
<1>6. CASE Load(m)
  <2>1. PICK r : r = journal[m][pos[m]]
    OBVIOUS
  <2>2. LoadFails(m) \/ LoadEnd(m) \/ \E t, st, e : Loaded(m, t, st, e)
    BY <1>6, <2>1, LoadPrepareEffect, LoadCommitEffect, LoadAbortEffect DEF Load
  <2>3. txns' = txns \/ (\E x : txns' = [txns EXCEPT ![m] = x])
                     \/ (\E t, x : txns' = [txns EXCEPT ![m][t] = x])
    BY <2>2 DEF LoadFails, LoadEnd, Loaded
  <2> QED BY <1>2, <1>3, <2>3
<1> QED BY <1>4, <1>5, <1>6

\* A committed transaction keeps its entry as long as the process runs.
LEMMA CommittedStays ==
  ASSUME LogTypeOK, [LogNext]_logVars, NEW n \in Node, NEW t \in TxId,
         status[n] = "open", status'[n] = "open", txns[n][t].state = "COMMITTED"
  PROVE  txns'[n][t].state = "COMMITTED" /\ txns'[n][t].entry = txns[n][t].entry
<1>1. txns \in [Node -> [TxId -> Txn]] /\ status \in [Node -> {"open", "loading", "closed", "failed"}]
  BY DEF LogTypeOK
<1>2. CASE UNCHANGED logVars
  BY <1>2 DEF logVars
<1>3. ASSUME NEW u \in TxId, NEW x, txns' = [txns EXCEPT ![n][u] = x],
             txns[n][u].state = "COMMITTED" => x = [state |-> "COMMITTED", entry |-> txns[n][u].entry]
      PROVE  txns'[n][t].state = "COMMITTED" /\ txns'[n][t].entry = txns[n][t].entry
  <2>1. CASE u = t
    BY <1>1, <1>3, <2>1, SMTT(60)
  <2>2. CASE u # t
    BY <1>1, <1>3, <2>2
  <2> QED BY <2>1, <2>2
<1>4. ASSUME NEW m \in Node, Operation(m) \/ Kill(m) \/ Open(m) \/ Load(m)
      PROVE  txns'[n][t].state = "COMMITTED" /\ txns'[n][t].entry = txns[n][t].entry
  <2>1. CASE m # n
    BY <1>4, <2>1, OtherTables
  <2>2. CASE m = n
    <3>1. ~Kill(n)
      BY <1>1 DEF Kill, Crash, CrashInCommit, CrashInRecord, CrashInEntry, Stopped
    <3>2. ~Open(n) /\ ~Load(n)
      BY DEF Open, Load, LoadPrepare, LoadCommit, LoadAbort, LoadEnd, AtRecord
    <3>3. CASE \E e \in Entry : Prepare(n, e)
      <4>1. PICK e \in Entry : Prepare(n, e)
        BY <3>3
      <4>2. /\ txns' = [txns EXCEPT ![n][e.txid] = [state |-> "PREPARED", entry |-> e]]
            /\ txns[n][e.txid].state = "UNKNOWN" /\ e.txid \in TxId
        BY <4>1 DEF Prepare, IsNewPrepare, Entry
      <4> QED BY <1>3, <4>2
    <3>4. CASE \E e \in Entry : AppendEntry(n, e)
      BY <3>4 DEF AppendEntry
    <3>5. CASE \E u \in TxId : Commit(n, u) \/ CommitWriteError(n, u)
      <4>1. PICK u \in TxId : JournalCommit(n, u)
        BY <3>5 DEF Commit, CommitWriteError
      <4>2. txns' = [txns EXCEPT ![n][u] = [state |-> "COMMITTED", entry |-> txns[n][u].entry]]
        BY <4>1 DEF JournalCommit
      <4> QED BY <1>3, <4>2
    <3>6. CASE \E u \in TxId : Abort(n, u)
      <4>1. PICK u \in TxId : Abort(n, u)
        BY <3>6
      <4>2. /\ txns' = [txns EXCEPT ![n][u] = [state |-> "ABORTED", entry |-> txns[n][u].entry]]
            /\ txns[n][u].state # "COMMITTED"
        BY <4>1 DEF Abort, Abortable
      <4> QED BY <1>3, <4>2
    <3> QED BY <1>4, <2>2, <3>1, <3>2, <3>3, <3>4, <3>5, <3>6 DEF Operation
  <2> QED BY <2>1, <2>2
<1> QED BY <1>2, <1>4 DEF LogNext

\* The entries of a log name transactions.
LEMMA EntryTxId ==
  ASSUME LogTypeOK, NEW n \in Node
  PROVE  \A e \in Entries(log[n]) : e.txid \in TxId
<1>1. log[n] \in Seq(Entry)
  BY DEF LogTypeOK
<1>2. Entries(log[n]) \subseteq Entry
  BY <1>1, SMTT(60) DEF Entries
<1> QED BY <1>2 DEF Entry

\* A log has at most one entry of a transaction.
LEMMA OneEntry ==
  ASSUME LogTypeOK, LogReplayable, NEW n \in Node,
         NEW d \in Entries(log[n]), NEW e \in Entries(log[n]), d.txid = e.txid
  PROVE  d = e
<1>1. log[n] \in Seq(Entry) /\ Replayable(log[n])
  BY DEF LogTypeOK, LogReplayable
<1>2. PICK i \in DOMAIN log[n], j \in DOMAIN log[n] : d = log[n][i] /\ e = log[n][j]
  BY DEF Entries
<1>3. i \in Nat /\ j \in Nat /\ i >= 1 /\ j >= 1
  BY <1>1, SMTT(60)
<1>4. ~(i < j) /\ ~(j < i)
  BY <1>1, <1>2, <1>3, SMTT(60) DEF Replayable
<1>5. i = j
  BY <1>3, <1>4, SMTT(60)
<1> QED BY <1>2, <1>5

\* What is ready stays ready as long as the process runs.
LEMMA ReadyStays ==
  ASSUME LogTypeOK, [LogNext]_logVars, NEW n \in Node, NEW t \in TxId, Ready(n, t),
         status'[n] = "open"
  PROVE  Ready(n, t)'
<1>1. txns'[n][t].state = "COMMITTED" /\ txns'[n][t].entry = txns[n][t].entry
  BY CommittedStays DEF Ready
<1> QED BY <1>1, EntriesStay DEF Ready

\* What is learned stays in the log as long as the process runs.
LEMMA LearnedStays ==
  ASSUME TypeOK, [LogNext]_logVars, LearnedIsLogged,
         \A r \in applying' : r.type = "M_STATE_TRANSFER" => r \in applying /\ r.dst \in Node,
         \A r \in applying' : status[r.dst] = "open" => status'[r.dst] = "open"
  PROVE  LearnedIsLogged'
<1> SUFFICES ASSUME NEW r \in applying', r.type = "M_STATE_TRANSFER"
             PROVE  status'[r.dst] = "open" /\ r.entry \in Entries(log'[r.dst])
  BY DEF LearnedIsLogged, Entries
<1>1. r \in applying /\ r.dst \in Node /\ status[r.dst] = "open" /\ r.entry \in Entries(log[r.dst])
  BY DEF LearnedIsLogged
<1>2. Entries(log[r.dst]) \subseteq Entries(log'[r.dst])
  BY <1>1, EntriesStay DEF TypeOK
<1> QED BY <1>1, <1>2

\* A commit adds its entry to the log, unless it is there, and leaves the other logs alone.
LEMMA CommitEntries ==
  ASSUME LogTypeOK, TableMatchesJournal, NEW n \in Node, NEW t \in TxId, Commit(n, t)
  PROVE  /\ status' = status
         /\ \A m \in Node : m # n => log'[m] = log[m]
         /\ CommitAccepts(n, t) =>
              /\ Entries(log'[n]) = Entries(log[n]) \cup {txns[n][t].entry}
              /\ Ready(n, t)' /\ txns[n][t].entry.txid = t
         /\ ~CommitAccepts(n, t) => log' = log
<1>1. PICK e : e = txns[n][t].entry
  OBVIOUS
<1>2. /\ status[n] = "open" /\ Committable(n, t) /\ status' = status
      /\ log' = [log EXCEPT ![n] = LogWith(n, e)]
      /\ txns' = [txns EXCEPT ![n][t] = [state |-> "COMMITTED", entry |-> e]]
  BY <1>1 DEF Commit, JournalCommit
<1>3. e \in Entry /\ e.txid = t
  BY <1>1, <1>2, TableEntry DEF Committable
<1>4. log \in [Node -> Seq(Entry)] /\ txns \in [Node -> [TxId -> Txn]]
  BY DEF LogTypeOK
<1>5. log'[n] = LogWith(n, e) /\ \A m \in Node : m # n => log'[m] = log[m]
  BY <1>2, <1>4
<1>6. ASSUME CommitAccepts(n, t)
      PROVE  Entries(log'[n]) = Entries(log[n]) \cup {e}
  <2>1. CASE IsNext(n, e)
    <3>1. log'[n] = Append(log[n], e) /\ log[n] \in Seq(Entry)
      BY <1>4, <1>5, <2>1 DEF LogWith
    <3> QED BY <1>3, <3>1, SMTT(60) DEF Entries
  <2>2. CASE ~IsNext(n, e)
    <3>1. log'[n] = log[n] /\ HasEntry(n, e)
      BY <1>1, <1>5, <1>6, <2>2 DEF LogWith, AppendAccepts, CommitAccepts
    <3> QED BY <3>1 DEF Entries, HasEntry
  <2> QED BY <2>1, <2>2
<1>7. ASSUME ~CommitAccepts(n, t) PROVE log' = log
  <2>1. ~IsNext(n, e)
    BY <1>1, <1>2, <1>7 DEF CommitAccepts, AppendAccepts
  <2>2. LogWith(n, e) = log[n]
    BY <2>1 DEF LogWith
  <2> QED BY <1>2, <1>4, <2>2
<1>8. txns'[n][t] = [state |-> "COMMITTED", entry |-> e]
  BY <1>2, <1>4
<1> QED BY <1>1, <1>2, <1>3, <1>5, <1>6, <1>7, <1>8, SMTT(60) DEF Ready

----------------------------------------------------------------------------
(* Steps *)

\* No submission begins or ends to apply its entry.
SamePhases ==
  \A m \in Node, u \in TxId :
     submission'[m][u].phase = "apply" <=> submission[m][u].phase = "apply"

\* A submission is set to one that is as far from being applied.
LEMMA SetSamePhase ==
  ASSUME TypeOK, NEW n \in Node, NEW t \in TxId, NEW x \in Submission,
         submission' = [submission EXCEPT ![n][t] = x],
         \/ x.phase = submission[n][t].phase
         \/ x.phase # "apply" /\ submission[n][t].phase # "apply"
  PROVE  SamePhases
<1>1. submission \in [Node -> [TxId -> Submission]]
  BY DEF TypeOK
<1>2. /\ submission'[n][t] = x
      /\ \A m \in Node, u \in TxId : m # n \/ u # t => submission'[m][u] = submission[m][u]
  BY <1>1, SetIs, SMTT(60)
<1> QED BY <1>2 DEF SamePhases

\* An answer changes no phase.
LEMMA AnswerPhases ==
  ASSUME TypeOK, NEW r \in Request, NEW ok \in BOOLEAN, Answer(r, ok)
  PROVE  SamePhases
<1>1. r.src \in Node /\ r.txid \in TxId
  BY RequestFields
<1>2. submission[r.src][r.txid] \in Submission
  BY <1>1 DEF TypeOK
<1>3. CASE submission' = submission
  BY <1>3 DEF SamePhases
<1>4. CASE submission' = [submission EXCEPT ![r.src][r.txid] = Answered(submission[r.src][r.txid], ok)]
  <2>1. PICK x : x = Answered(submission[r.src][r.txid], ok)
    OBVIOUS
  <2>2. x \in Submission /\ x.phase = submission[r.src][r.txid].phase
    BY <1>2, <2>1, AnsweredIs, SMTT(60)
  <2>3. submission' = [submission EXCEPT ![r.src][r.txid] = x]
    BY <1>4, <2>1
  <2> QED BY <1>1, <2>2, <2>3, SetSamePhase
<1> QED BY <1>3, <1>4 DEF Answer

\* Most steps of a coordinator change neither what is due nor a log.
LEMMA QuietCoordinator ==
  ASSUME TypeOK, EntryIsRead, TableMatchesJournal, NEW n \in Node, NEW t \in TxId,
         \/ SubmitNew(n, t) \/ Vote(n, t) \/ VoteFails(n, t) \/ CallFails(n, t)
         \/ DecideFails(n, t) \/ DecideAbort(n, t) \/ Return(n, t)
         \/ \E p \in Payload : ReadEnd(n, t, p) \/ SubmitAgain(n, t, p)
         \/ \E m \in Node : Call(n, t, m)
  PROVE  SamePhases /\ UNCHANGED <<applying, directory, log, status>>
<1> DEFINE s == submission[n][t]
<1>1. s \in Submission /\ alive[n] \in SUBSET Node /\ s.sent \in SUBSET Node /\ LogTypeOK
  BY SubmissionFields DEF TypeOK
<1>2. ASSUME NEW x \in Submission, submission' = [submission EXCEPT ![n][t] = x],
             x.phase # "apply", s.phase # "apply"
      PROVE  SamePhases
  BY <1>2, SetSamePhase
<1>3. UNCHANGED <<applying, directory>>
  BY DEF SubmitNew, Vote, VoteFails, CallFails, DecideFails, DecideAbort, Return, ReadEnd,
               SubmitAgain, Call
<1>4. CASE \/ SubmitNew(n, t) \/ DecideAbort(n, t) \/ \E p \in Payload : SubmitAgain(n, t, p)
  <2>1. /\ s.phase # "apply"
        /\ \E phase \in {"read", "abort", "resend"} : \E S \in SUBSET Node :
              submission' = [submission EXCEPT ![n][t] = Started(phase, S)]
    BY <1>1, <1>4 DEF SubmitNew, DecideAbort, SubmitAgain, AllCalled
  <2>2. PICK phase \in {"read", "abort", "resend"}, S \in SUBSET Node :
              submission' = [submission EXCEPT ![n][t] = Started(phase, S)]
    BY <2>1
  <2>3. PICK x : x = Started(phase, S)
    OBVIOUS
  <2>a. phase \in Phase /\ phase # "apply"
    BY DEF Phase
  <2>4. x \in Submission /\ x.phase = phase
    BY <2>a, <2>3, StartedIs
  <2>5. SamePhases
    BY <1>2, <2>a, <2>1, <2>2, <2>3, <2>4
  <2>6. log' = log /\ status' = status
    BY <1>4 DEF SubmitNew, DecideAbort, SubmitAgain, Abort, logVars
  <2> QED BY <1>3, <2>5, <2>6
<1>5. CASE VoteFails(n, t) \/ DecideFails(n, t) \/ Return(n, t)
  <2>1. s.phase # "apply" /\ submission' = [submission EXCEPT ![n][t] = Idle]
    BY <1>5 DEF VoteFails, DecideFails, Return, AllCalled
  <2>2. SamePhases
    BY <1>2, <2>1, IdleIs
  <2>3. CASE VoteFails(n, t) \/ Return(n, t)
    BY <1>3, <2>2, <2>3 DEF VoteFails, Return, logVars
  <2>4. CASE DecideFails(n, t)
    <3>1. \/ UNCHANGED logVars \/ CommitWriteError(n, t)
          \/ ~CommitAccepts(n, t) /\ Commit(n, t)
      BY <2>4 DEF DecideFails
    <3>2. log' = log /\ status' = status
      BY <1>1, <3>1, CommitEntries DEF logVars, CommitWriteError
    <3> QED BY <1>3, <2>2, <3>2
  <2> QED BY <1>5, <2>3, <2>4
<1>6. CASE \E p \in Payload : ReadEnd(n, t, p)
  <2>1. PICK p \in Payload : ReadEnd(n, t, p)
    BY <1>6
  <2>2. PICK e : e = NextEntry(n, t, p)
    OBVIOUS
  <2>3. PICK x : x = [s EXCEPT !.phase = "vote", !.entry = e]
    OBVIOUS
  <2>4. e \in Entry
    BY <2>1, <2>2 DEF ReadEnd
  <2>5. x \in Submission /\ x.phase = "vote"
    BY <1>1, <2>3, <2>4 DEF Submission, Phase
  <2>6. s.phase = "read" /\ submission' = [submission EXCEPT ![n][t] = x]
    BY <2>1, <2>2, <2>3 DEF ReadEnd
  <2>7. log' = log /\ status' = status
    BY <2>1 DEF ReadEnd, logVars
  <2> QED BY <1>2, <1>3, <2>5, <2>6, <2>7
<1>7. CASE Vote(n, t)
  <2>1. PICK x : x = [s EXCEPT !.phase = "prepare"]
    OBVIOUS
  <2>2. x \in Submission /\ x.phase = "prepare"
    BY <1>1, <2>1, PhaseIs, SMTT(60) DEF Phase
  <2>3. s.phase = "vote" /\ submission' = [submission EXCEPT ![n][t] = x]
    BY <1>7, <2>1 DEF Vote
  <2>4. log' = log /\ status' = status
    BY <1>7 DEF Vote, Prepare, logVars
  <2> QED BY <1>2, <1>3, <2>2, <2>3, <2>4
<1>8. CASE CallFails(n, t) \/ \E m \in Node : Call(n, t, m)
  <2>1. \/ submission' = [submission EXCEPT ![n][t] = Answered(s, FALSE)]
        \/ \E m \in Node : submission' = [submission EXCEPT ![n][t] = Calling(s, m)]
    BY <1>8 DEF CallFails, Call
  <2>a. ASSUME NEW x \in Submission, x.phase = s.phase,
               submission' = [submission EXCEPT ![n][t] = x]
        PROVE  SamePhases
    BY <2>a, SetSamePhase
  <2>2. ASSUME submission' = [submission EXCEPT ![n][t] = Answered(s, FALSE)] PROVE SamePhases
    <3>1. PICK x : x = Answered(s, FALSE)
      OBVIOUS
    <3>2. x \in Submission /\ x.phase = s.phase
      BY <1>1, <3>1, AnsweredIs
    <3>3. submission' = [submission EXCEPT ![n][t] = x]
      BY <2>2, <3>1
    <3> QED BY <3>2, <3>3, SetSamePhase
  <2>b. ASSUME NEW m \in Node, submission' = [submission EXCEPT ![n][t] = Calling(s, m)]
        PROVE  SamePhases
    <3>1. PICK x : x = Calling(s, m)
      OBVIOUS
    <3>a. s \in Submission /\ m \in Node
      BY <1>1
    <3>2. x \in Submission /\ x.phase = s.phase
      BY <3>a, <3>1 DEF Calling, Submission
    <3>3. submission' = [submission EXCEPT ![n][t] = x]
      BY <2>b, <3>1
    <3> QED BY <3>2, <3>3, SetSamePhase
  <2>3. SamePhases
    BY <2>1, <2>2, <2>b
  <2>4. log' = log /\ status' = status
    BY <1>8 DEF CallFails, Call, logVars
  <2> QED BY <1>3, <2>3, <2>4
<1> QED BY <1>4, <1>5, <1>6, <1>7, <1>8

\* Nor do most handlers.
LEMMA QuietHandler ==
  ASSUME TypeOK, TableMatchesJournal, NEW r \in calls \cup applying,
         HandlePrepare(r) \/ RefuseCommit(r) \/ HandleCommitWriteError(r) \/ HandleAbort(r)
  PROVE  SamePhases /\ UNCHANGED <<applying, directory, log, status>>
<1>a. r.type # "M_STATE_TRANSFER"
  BY DEF HandlePrepare, RefuseCommit, HandleCommitWriteError, HandleAbort
<1>1. r \in Request /\ r.dst \in Node /\ r.txid \in TxId /\ LogTypeOK
  BY <1>a, HandledIs DEF TypeOK
<1>2. \E ok \in BOOLEAN : Answer(r, ok)
  BY DEF HandlePrepare, RefuseCommit, HandleCommitWriteError, HandleAbort
<1>3. SamePhases
  BY <1>1, <1>2, AnswerPhases
<1>4. UNCHANGED <<applying, directory>>
  BY DEF HandlePrepare, RefuseCommit, HandleCommitWriteError, HandleAbort
<1>5. CASE HandlePrepare(r) \/ HandleCommitWriteError(r) \/ HandleAbort(r)
  BY <1>3, <1>4, <1>5 DEF HandlePrepare, HandleCommitWriteError, HandleAbort, Prepare,
                          CommitWriteError, Abort, logVars
<1>6. CASE RefuseCommit(r)
  <2>1. UNCHANGED logVars \/ (Commit(r.dst, r.txid) /\ ~CommitAccepts(r.dst, r.txid))
    BY <1>6 DEF RefuseCommit
  <2>2. log' = log /\ status' = status
    BY <1>1, <2>1, CommitEntries DEF logVars
  <2> QED BY <1>3, <1>4, <2>2
<1> QED BY <1>5, <1>6

\* A step that changes neither what is due nor a log keeps the invariant.
LEMMA QuietKeeps ==
  ASSUME TypeOK, [LogNext]_logVars, DirectoryInv, SamePhases,
         UNCHANGED <<applying, directory, log, status>>
  PROVE  DirectoryInv'
<1>1. \A n \in Node, t \in TxId : Due(n, t)' <=> Due(n, t)
  BY DEF Due, SamePhases
<1>a. \A n \in Node, t \in TxId : CommitDue(n, t)' <=> CommitDue(n, t)
  BY DEF CommitDue, SamePhases
<1>2. DueIsReady'
  BY <1>a, ReadyStays DEF DirectoryInv, DueIsReady, Ready, TypeOK
<1>b. LearnedIsLogged'
  BY DEF DirectoryInv, LearnedIsLogged
<1>3. ASSUME NEW n \in Node, status'[n] = "open" PROVE Follows(n)'
  <2>1. \A e \in Entries(log[n]) : e.txid \in TxId
    BY EntryTxId DEF TypeOK
  <2> QED BY <1>1, <1>3, <2>1 DEF DirectoryInv, Follows, Applicable
<1> QED BY <1>2, <1>b, <1>3 DEF DirectoryInv

\* A commit that succeeds makes its transaction due.
LEMMA CommitKeeps ==
  ASSUME TypeOK, TableMatchesJournal, [LogNext]_logVars, DirectoryInv,
         NEW n \in Node, NEW t \in TxId, Commit(n, t), CommitAccepts(n, t),
         \A m \in Node, u \in TxId : Due(m, u)' <=> Due(m, u) \/ (m = n /\ u = t),
         \A m \in Node, u \in TxId : CommitDue(m, u)' <=> CommitDue(m, u) \/ (m = n /\ u = t),
         \A r \in applying' : r.type = "M_STATE_TRANSFER" => r \in applying,
         UNCHANGED directory
  PROVE  DirectoryInv'
<1>1. /\ status' = status
      /\ \A m \in Node : m # n => log'[m] = log[m]
      /\ Entries(log'[n]) = Entries(log[n]) \cup {txns[n][t].entry}
      /\ Ready(n, t)' /\ txns[n][t].entry.txid = t
  BY CommitEntries DEF TypeOK
<1>2. DueIsReady'
  <2>1. ASSUME NEW m \in Node, NEW u \in TxId, CommitDue(m, u)' PROVE Ready(m, u)'
    <3>1. CASE m = n /\ u = t
      BY <1>1, <3>1
    <3>2. CASE CommitDue(m, u)
      <4>1. Ready(m, u)
        BY <3>2 DEF DirectoryInv, DueIsReady
      <4>2. status'[m] = "open"
        BY <1>1, <4>1 DEF Ready
      <4> QED BY <4>1, <4>2, ReadyStays DEF TypeOK
    <3> QED BY <2>1, <3>1, <3>2
  <2> QED BY <2>1 DEF DueIsReady
<1>3. ASSUME NEW m \in Node, status'[m] = "open" PROVE Follows(m)'
  <2>1. Follows(m)
    BY <1>1, <1>3 DEF DirectoryInv
  <2>2. \A e \in Entries(log[m]) : e.txid \in TxId
    BY EntryTxId DEF TypeOK
  <2>3. Entries(log'[m]) = Entries(log[m])
        \/ (m = n /\ Entries(log'[m]) = Entries(log[m]) \cup {txns[n][t].entry})
    BY <1>1
  <2>4. directory'[m] \subseteq Entries(log'[m])
    BY <2>1, <2>3 DEF Follows
  <2>5. ASSUME NEW e \in Entries(log'[m]) \ directory'[m] PROVE ~Applicable(e) \/ Due(m, e.txid)'
    <3>1. CASE e \in Entries(log[m])
      <4>1. (~Applicable(e) \/ Due(m, e.txid)) /\ e.txid \in TxId
        BY <2>1, <2>2, <3>1, <2>5 DEF Follows
      <4> QED BY <4>1
    <3>2. CASE m = n /\ e = txns[n][t].entry
      BY <1>1, <3>2
    <3> QED BY <2>3, <3>1, <3>2
  <2> QED BY <2>4, <2>5 DEF Follows, Applicable
<1>4. LearnedIsLogged'
  <2>1. \A r \in applying : r.dst \in Node
    BY HandledIs
  <2> QED BY <1>1, <2>1, LearnedStays DEF DirectoryInv
<1> QED BY <1>2, <1>3, <1>4 DEF DirectoryInv

\* The thread that applies a transaction publishes what is missing of it, unless it is
\* refused: the log has one entry of a transaction.
LEMMA ApplyKeeps ==
  ASSUME TypeOK, LogReplayable, DirectoryInv, NEW n \in Node, NEW t \in TxId, NEW x,
         x \in Entries(log[n]), x.txid = t, UNCHANGED logVars, applying' \subseteq applying,
         \A m \in Node, u \in TxId : /\ CommitDue(m, u)' => CommitDue(m, u)
                                     /\ Due(m, u) => Due(m, u)' \/ (m = n /\ u = t),
         directory' = Applied(n, x)
  PROVE  DirectoryInv'
<1>1. status' = status /\ log' = log /\ txns' = txns
  BY DEF logVars
<1>2. DueIsReady'
  BY <1>1 DEF DirectoryInv, DueIsReady, Ready
<1>3. LearnedIsLogged'
  BY <1>1 DEF DirectoryInv, LearnedIsLogged
<1>4. directory \in [Node -> SUBSET (Entry \cup {NoEntry})]
  BY DEF TypeOK
<1>5. /\ \A m \in Node \ {n} : directory'[m] = directory[m]
      /\ Applicable(x) => directory'[n] = directory[n] \cup {x}
      /\ ~Applicable(x) => directory'[n] = directory[n]
  BY <1>4 DEF Applied
<1>6. ASSUME NEW m \in Node, status'[m] = "open" PROVE Follows(m)'
  <2>1. Follows(m)
    BY <1>1, <1>6 DEF DirectoryInv
  <2>2. \A e \in Entries(log[m]) : e.txid \in TxId
    BY EntryTxId DEF TypeOK
  <2>3. directory'[m] = directory[m] \/ (m = n /\ directory'[m] = directory[m] \cup {x})
    BY <1>5
  <2>4. directory'[m] \subseteq Entries(log'[m])
    BY <1>1, <2>1, <2>3 DEF Follows
  <2>5. ASSUME NEW e \in Entries(log'[m]) \ directory'[m], Applicable(e) PROVE Due(m, e.txid)'
    <3>1. e \in Entries(log[m]) \ directory[m]
      BY <1>1, <2>3, <2>5
    <3>2. Due(m, e.txid) /\ e.txid \in TxId
      BY <2>1, <2>2, <2>5, <3>1 DEF Follows
    <3>3. CASE m = n /\ e.txid = t
      <4>1. e = x
        BY <3>1, <3>3, OneEntry DEF TypeOK
      <4>2. e \in directory'[n]
        BY <1>5, <2>5, <4>1
      <4> QED BY <2>5, <3>3, <4>2
    <3>4. CASE ~(m = n /\ e.txid = t)
      BY <3>2, <3>4
    <3> QED BY <3>3, <3>4
  <2> QED BY <2>4, <2>5 DEF Follows, Applicable
<1> QED BY <1>2, <1>3, <1>6 DEF DirectoryInv

\* What a thread that has committed t is about to apply is the entry of t in the log.
LEMMA DueApplies ==
  ASSUME TypeOK, TableMatchesJournal, DirectoryInv, NEW n \in Node, NEW t \in TxId, CommitDue(n, t)
  PROVE  txns[n][t].entry \in Entries(log[n]) /\ txns[n][t].entry.txid = t
<1>1. Ready(n, t)
  BY DEF DirectoryInv, DueIsReady
<1>2. txns[n][t].entry.txid = t
  BY <1>1, TableEntry DEF Ready, TypeOK
<1> QED BY <1>1, <1>2 DEF Ready

\* A coordinator that commits makes its transaction due, and one that applies it publishes it.
LEMMA LoudCoordinator ==
  ASSUME TypeOK, LogReplayable, TableMatchesJournal, [LogNext]_logVars, DirectoryInv,
         NEW n \in Node, NEW t \in TxId, DecideCommit(n, t) \/ ApplyHere(n, t)
  PROVE  DirectoryInv'
<1> DEFINE s == submission[n][t]
<1>1. submission \in [Node -> [TxId -> Submission]] /\ s \in Submission /\ s.sent \in SUBSET Node
  BY SubmissionFields, SMTT(60) DEF TypeOK
<1>2. CASE DecideCommit(n, t)
  <2>1. PICK x : x = [s EXCEPT !.phase = "apply"]
    OBVIOUS
  <2>2. x \in Submission /\ x.phase = "apply"
    BY <1>1, <2>1, PhaseIs, SMTT(60) DEF Phase
  <2>3. /\ submission' = [submission EXCEPT ![n][t] = x] /\ applying' = applying
        /\ CommitAccepts(n, t) /\ Commit(n, t) /\ directory' = directory
    BY <1>2, <2>1 DEF DecideCommit
  <2>b. submission \in [Node -> [TxId -> Submission]] /\ x \in Submission
    BY <1>1, <2>2
  <2>c. submission' = [submission EXCEPT ![n][t] = x]
    BY <2>3
  <2>4. /\ submission'[n][t] = x
        /\ \A m \in Node, u \in TxId : m # n \/ u # t => submission'[m][u] = submission[m][u]
    BY <2>b, <2>c, SetIs
  <2>5. \A m \in Node, u \in TxId : Due(m, u)' <=> Due(m, u) \/ (m = n /\ u = t)
    BY <2>2, <2>3, <2>4 DEF Due
  <2>6. ASSUME NEW m \in Node, NEW u \in TxId
        PROVE  CommitDue(m, u)' <=> CommitDue(m, u) \/ (m = n /\ u = t)
    <3>1. CASE m = n /\ u = t
      BY <3>1, <2>2, <2>4 DEF CommitDue
    <3>2. CASE m # n \/ u # t
      <4>1. submission'[m][u] = submission[m][u]
        BY <3>2, <2>4
      <4> QED BY <3>2, <4>1, <2>3 DEF CommitDue
    <3> QED BY <3>1, <3>2
  <2> QED BY <2>3, <2>5, <2>6, CommitKeeps
<1>3. CASE ApplyHere(n, t)
  <2>1. PICK x : x = IF Applicable(txns[n][t].entry) THEN Started("commit", s.sent) ELSE Idle
    OBVIOUS
  <2>a. "commit" \in Phase
    BY DEF Phase
  <2>2. x \in Submission /\ x.phase # "apply"
    <3>1. PICK y : y = Started("commit", s.sent)
      OBVIOUS
    <3>2. y \in Submission /\ y.phase = "commit"
      BY <1>1, <2>a, <3>1 DEF Started, Idle, Submission
    <3> QED BY <2>1, <3>1, <3>2, IdleIs
  <2>3. /\ submission' = [submission EXCEPT ![n][t] = x] /\ applying' = applying
        /\ directory' = Applied(n, txns[n][t].entry)
        /\ s.phase = "apply" /\ UNCHANGED logVars
    BY <1>3, <2>1 DEF ApplyHere
  <2>b. submission \in [Node -> [TxId -> Submission]] /\ x \in Submission
    BY <1>1, <2>2
  <2>c. submission' = [submission EXCEPT ![n][t] = x]
    BY <2>3
  <2>4. /\ submission'[n][t] = x
        /\ \A m \in Node, u \in TxId : m # n \/ u # t => submission'[m][u] = submission[m][u]
    BY <2>b, <2>c, SetIs
  <2>5. \A m \in Node, u \in TxId : Due(m, u) => Due(m, u)' \/ (m = n /\ u = t)
    BY <2>3, <2>4 DEF Due
  <2>6. ASSUME NEW m \in Node, NEW u \in TxId, CommitDue(m, u)' PROVE CommitDue(m, u)
    <3>1. CASE m = n /\ u = t
      BY <3>1, <2>3 DEF CommitDue
    <3>2. CASE m # n \/ u # t
      <4>1. submission'[m][u] = submission[m][u]
        BY <3>2, <2>4
      <4> QED BY <2>6, <4>1, <2>3 DEF CommitDue
    <3> QED BY <3>1, <3>2
  <2>7. txns[n][t].entry \in Entries(log[n]) /\ txns[n][t].entry.txid = t
    BY <2>3, DueApplies DEF CommitDue
  <2>8. PICK e : e = txns[n][t].entry
    OBVIOUS
  <2>9. e \in Entries(log[n]) /\ e.txid = t /\ directory' = Applied(n, e)
    BY <2>3, <2>7, <2>8
  <2>10. applying' \subseteq applying /\ UNCHANGED logVars
    BY <2>3
  <2>11. \A m \in Node, u \in TxId : /\ CommitDue(m, u)' => CommitDue(m, u)
                                     /\ Due(m, u) => Due(m, u)' \/ (m = n /\ u = t)
    BY <2>5, <2>6
  <2> HIDE DEF s
  <2> QED BY <2>9, <2>10, <2>11, ApplyKeeps, SMTT(60)
<1> QED BY <1>2, <1>3

\* So do the two halves of the handler of M_COMMIT.
LEMMA LoudHandler ==
  ASSUME TypeOK, LogReplayable, TableMatchesJournal, [LogNext]_logVars, DirectoryInv,
         NEW r \in calls \cup applying, HandleCommit(r) \/ ApplyCommit(r)
  PROVE  DirectoryInv'
<1>a. r.type = "M_COMMIT"
  BY DEF HandleCommit, ApplyCommit
<1>1. r \in Request /\ r.dst \in Node /\ r.txid \in TxId
  BY <1>a, HandledIs
<1>2. CASE HandleCommit(r)
  <2>1. /\ submission' = submission /\ applying' = applying \cup {r}
        /\ CommitAccepts(r.dst, r.txid) /\ Commit(r.dst, r.txid) /\ directory' = directory
    BY <1>2 DEF HandleCommit
  <2>2. \A m \in Node, u \in TxId : Due(m, u)' <=> Due(m, u) \/ (m = r.dst /\ u = r.txid)
    BY <2>1 DEF Due
  <2>3. \A m \in Node, u \in TxId : CommitDue(m, u)' <=> CommitDue(m, u) \/ (m = r.dst /\ u = r.txid)
    BY <1>a, <2>1 DEF CommitDue
  <2>4. \A x \in applying' : x.type = "M_STATE_TRANSFER" => x \in applying
    BY <1>a, <2>1
  <2> QED BY <1>1, <2>1, <2>2, <2>3, <2>4, CommitKeeps
<1>3. CASE ApplyCommit(r)
  <2>1. /\ r \in applying /\ applying' = applying \ {r} /\ UNCHANGED logVars
        /\ directory' = Applied(r.dst, txns[r.dst][r.txid].entry)
        /\ \E ok \in BOOLEAN : Answer(r, ok)
    BY <1>3 DEF ApplyCommit, Applicable
  <2>2. SamePhases
    BY <1>1, <2>1, AnswerPhases
  <2>3. \A m \in Node, u \in TxId : Due(m, u) => Due(m, u)' \/ (m = r.dst /\ u = r.txid)
    BY <2>1, <2>2 DEF Due, SamePhases
  <2>4. \A m \in Node, u \in TxId : CommitDue(m, u)' => CommitDue(m, u)
    BY <2>1, <2>2 DEF CommitDue, SamePhases
  <2>5. CommitDue(r.dst, r.txid)
    BY <1>a, <2>1 DEF CommitDue
  <2>6. /\ txns[r.dst][r.txid].entry \in Entries(log[r.dst])
        /\ txns[r.dst][r.txid].entry.txid = r.txid
    BY <1>1, <2>5, DueApplies
  <2>7. applying' \subseteq applying
    BY <2>1
  <2>8. PICK e : e = txns[r.dst][r.txid].entry
    OBVIOUS
  <2>9. e \in Entries(log[r.dst]) /\ e.txid = r.txid /\ directory' = Applied(r.dst, e)
    BY <2>1, <2>6, <2>8
  <2>10. UNCHANGED logVars
    BY <2>1
  <2> QED BY <1>1, <2>3, <2>4, <2>7, <2>9, <2>10, ApplyKeeps
<1> QED BY <1>2, <1>3

\* A thread that received an entry from another replica publishes it.
LEMMA LearnedKeeps ==
  ASSUME TypeOK, LogReplayable, DirectoryInv, NEW r \in calls \cup applying, ApplyLearned(r)
  PROVE  DirectoryInv'
<1>1. /\ r \in applying /\ r.type = "M_STATE_TRANSFER" /\ applying' = applying \ {r}
      /\ UNCHANGED logVars /\ submission' = submission /\ directory' = Applied(r.dst, r.entry)
  BY DEF ApplyLearned
<1>2. r \in Learner /\ r.dst \in Node
  BY <1>1, HandledIs
<1>3. r.txid = r.entry.txid /\ r.txid \in TxId
  BY <1>2, LearnerFields
<1>4. r.entry \in Entries(log[r.dst])
  BY <1>1 DEF DirectoryInv, LearnedIsLogged
<1>5. \A m \in Node, u \in TxId : Due(m, u) => Due(m, u)' \/ (m = r.dst /\ u = r.txid)
  BY <1>1 DEF Due
<1>6. \A m \in Node, u \in TxId : CommitDue(m, u)' => CommitDue(m, u)
  BY <1>1 DEF CommitDue
<1>7. applying' \subseteq applying
  BY <1>1
<1> QED BY <1>1, <1>2, <1>3, <1>4, <1>5, <1>6, <1>7, ApplyKeeps

\* A process that is killed takes what is due with it.
LEMMA DieKeeps ==
  ASSUME TypeOK, [LogNext]_logVars, DirectoryInv, NEW n \in Node, Die(n)
  PROVE  DirectoryInv'
<1>1. /\ LogTypeOK /\ status \in [Node -> {"open", "loading", "closed", "failed"}]
      /\ submission \in [Node -> [TxId -> Submission]]
      /\ directory \in [Node -> SUBSET (Entry \cup {NoEntry})]
  BY DEF TypeOK, LogTypeOK
<1>2. status' = [status EXCEPT ![n] = "closed"] /\ log' = log
  BY DEF Die, Crash, CrashInRecord, CrashInEntry, CrashInCommit, Stopped
<1>3. /\ submission' = [submission EXCEPT ![n] = [t \in TxId |-> Idle]]
      /\ applying' = {r \in applying : r.dst # n}
      /\ directory' = [directory EXCEPT ![n] = {}]
  BY DEF Die
<1>4. \A u \in TxId : ~Due(n, u)'
  BY <1>1, <1>3, IdleIs DEF Due
<1>5. \A m \in Node, u \in TxId : m # n => (Due(m, u)' <=> Due(m, u))
  BY <1>1, <1>3 DEF Due
<1>a. \A u \in TxId : ~CommitDue(n, u)'
  BY <1>1, <1>3, IdleIs DEF CommitDue
<1>b. \A m \in Node, u \in TxId : m # n => (CommitDue(m, u)' <=> CommitDue(m, u))
  BY <1>1, <1>3 DEF CommitDue
<1>6. /\ \A m \in Node : m # n => status'[m] = status[m] /\ directory'[m] = directory[m]
      /\ status'[n] # "open"
  BY <1>1, <1>2, <1>3
<1>7. ASSUME NEW m \in Node, NEW u \in TxId, CommitDue(m, u)' PROVE Ready(m, u)'
  <2>1. m # n /\ Ready(m, u)
    BY <1>a, <1>b, <1>7 DEF DirectoryInv, DueIsReady
  <2>2. status'[m] = "open"
    BY <1>6, <2>1 DEF Ready
  <2> QED BY <1>1, <2>1, <2>2, ReadyStays
<1>8. ASSUME NEW m \in Node, status'[m] = "open" PROVE Follows(m)'
  <2>1. m # n /\ Follows(m)
    BY <1>6, <1>8 DEF DirectoryInv
  <2>2. \A e \in Entries(log[m]) : e.txid \in TxId
    BY <1>1, EntryTxId
  <2> QED BY <1>2, <1>5, <1>6, <2>1, <2>2 DEF Follows, Applicable
<1>9. LearnedIsLogged'
  <2>1. \A r \in applying' : r \in applying /\ r.dst # n
    BY <1>3
  <2>2. \A r \in applying : r.dst \in Node
    BY HandledIs
  <2>3. LearnedIsLogged
    BY DEF DirectoryInv
  <2>4. \A r \in applying' : status[r.dst] = "open" => status'[r.dst] = "open"
    BY <1>6, <2>1, <2>2
  <2> QED BY <2>1, <2>2, <2>3, <2>4, LearnedStays
<1> QED BY <1>7, <1>8, <1>9 DEF DirectoryInv, DueIsReady

\* What c4_log_open, and closing the log again, do to status and log.
LEMMA OpeningIs ==
  ASSUME LogTypeOK, NEW n \in Node, Open(n) \/ Load(n) \/ (Crash(n) /\ status[n] = "loading")
  PROVE  /\ status[n] # "open"
         /\ \A m \in Node : m # n => status'[m] = status[m] /\ log'[m] = log[m]
         /\ status'[n] = "open" => log' = log
<1>1. status \in [Node -> {"open", "loading", "closed", "failed"}] /\ log \in [Node -> Seq(Entry)]
  BY DEF LogTypeOK
<1>2. status[n] # "open"
  BY DEF Open, Load, LoadPrepare, LoadCommit, LoadAbort, LoadEnd, AtRecord
<1>3. PICK r : r = journal[n][pos[n]]
  OBVIOUS
<1>4. \/ Open(n) \/ LoadEnd(n) \/ LoadFails(n) \/ Crash(n)
      \/ /\ status' = status
         /\ log' = log \/ \E s : log' = [log EXCEPT ![n] = s]
  BY <1>3, LoadPrepareEffect, LoadCommitEffect, LoadAbortEffect DEF Load, Loaded
<1>5. \/ log' = log /\ \E st : status' = [status EXCEPT ![n] = st]
      \/ log' = log /\ status' = status
      \/ status' = status /\ \E s : log' = [log EXCEPT ![n] = s]
  BY <1>4 DEF Open, LoadEnd, LoadFails, Crash, Stopped
<1> QED BY <1>1, <1>2, <1>5

\* A process that restarts publishes its whole log.
LEMMA RestartKeeps ==
  ASSUME TypeOK, [LogNext]_logVars, DirectoryInv, NEW n \in Node, Restart(n)
  PROVE  DirectoryInv'
<1>1. LogTypeOK /\ directory \in [Node -> SUBSET (Entry \cup {NoEntry})]
  BY DEF TypeOK
<1>2. /\ submission' = submission /\ applying' = applying
      /\ Open(n) \/ Load(n) \/ (Crash(n) /\ status[n] = "loading")
      /\ \/ status'[n] = "open" /\ directory' = [directory EXCEPT ![n] = Entries(log[n])]
         \/ status'[n] # "open" /\ directory' = directory
  BY DEF Restart, Unstartable, commitVars
<1>3. /\ status[n] # "open"
      /\ \A m \in Node : m # n => status'[m] = status[m] /\ log'[m] = log[m]
      /\ status'[n] = "open" => log' = log
  BY <1>1, <1>2, OpeningIs
<1>4. \A m \in Node, u \in TxId : Due(m, u)' <=> Due(m, u)
  BY <1>2 DEF Due
<1>a. \A m \in Node, u \in TxId : CommitDue(m, u)' <=> CommitDue(m, u)
  BY <1>2 DEF CommitDue
<1>5. ASSUME NEW m \in Node, NEW u \in TxId, CommitDue(m, u)' PROVE Ready(m, u)'
  <2>1. Ready(m, u)
    BY <1>a, <1>5 DEF DirectoryInv, DueIsReady
  <2>2. status'[m] = "open"
    BY <1>3, <2>1 DEF Ready
  <2> QED BY <1>1, <2>1, <2>2, ReadyStays
<1>6. ASSUME NEW m \in Node, status'[m] = "open" PROVE Follows(m)'
  <2>1. CASE m = n
    <3>1. directory'[n] = Entries(log'[n])
      BY <1>1, <1>2, <1>3, <1>6, <2>1
    <3> QED BY <2>1, <3>1 DEF Follows
  <2>2. CASE m # n
    <3>1. Follows(m) /\ directory'[m] = directory[m] /\ log'[m] = log[m]
      BY <1>1, <1>2, <1>3, <1>6, <2>2 DEF DirectoryInv
    <3>2. \A e \in Entries(log[m]) : e.txid \in TxId
      BY <1>1, EntryTxId
    <3> QED BY <1>4, <3>1, <3>2 DEF Follows, Applicable
  <2> QED BY <2>1, <2>2
<1>7. LearnedIsLogged'
  <2>1. \A r \in applying : r.dst \in Node
    BY HandledIs
  <2>2. \A r \in applying' : status[r.dst] = "open" => status'[r.dst] = "open"
    BY <1>2, <1>3, <2>1
  <2>3. LearnedIsLogged
    BY DEF DirectoryInv
  <2>4. \A r \in applying' : r.type = "M_STATE_TRANSFER" => r \in applying /\ r.dst \in Node
    BY <1>2, <2>1
  <2> QED BY <2>2, <2>3, <2>4, LearnedStays
<1> QED BY <1>5, <1>6, <1>7 DEF DirectoryInv, DueIsReady

\* An entry that is transferred is due from the moment it is in the log.
LEMMA TransferKeeps ==
  ASSUME TypeOK, [LogNext]_logVars, DirectoryInv, NEW n \in Node, NEW k \in Node, Transfer(n, k)
  PROVE  DirectoryInv'
<1>1. LogTypeOK /\ log \in [Node -> Seq(Entry)]
  BY DEF TypeOK, LogTypeOK
<1>2. submission' = submission /\ directory' = directory /\ status[n] = "open"
  BY DEF Transfer
<1>3. PICK i \in DOMAIN log[k] :
         /\ AppendEntry(n, log[k][i]) \/ (HasEntry(n, log[k][i]) /\ UNCHANGED logVars)
         /\ applying' = applying \cup {Learned(n, log[k][i])}
  BY DEF Transfer
<1>4. PICK x : x = log[k][i]
  OBVIOUS
<1>5. x \in Entry
  BY <1>1, <1>3, <1>4, SMTT(60)
<1>6. /\ status' = status
      /\ \A m \in Node : m # n => log'[m] = log[m]
      /\ Entries(log'[n]) = Entries(log[n]) \cup {x}
  <2>1. CASE AppendEntry(n, x)
    <3>1. status' = status /\ log' = [log EXCEPT ![n] = Append(@, x)]
      BY <2>1 DEF AppendEntry
    <3>2. log'[n] = Append(log[n], x) /\ log[n] \in Seq(Entry)
      BY <1>1, <3>1
    <3>3. Entries(log'[n]) = Entries(log[n]) \cup {x}
      BY <1>5, <3>2, SMTT(60) DEF Entries
    <3> QED BY <1>1, <3>1, <3>3
  <2>2. CASE HasEntry(n, x) /\ UNCHANGED logVars
    BY <2>2 DEF HasEntry, Entries, logVars
  <2> QED BY <1>3, <1>4, <2>1, <2>2
<1>7. PICK l : l = Learned(n, x)
  OBVIOUS
<1>8. l.type = "M_STATE_TRANSFER" /\ l.dst = n /\ l.txid = x.txid /\ l.entry = x
  BY <1>7 DEF Learned
<1>9. applying' = applying \cup {l} /\ x.txid \in TxId
  BY <1>3, <1>4, <1>5, <1>7 DEF Entry
<1>10. \A m \in Node, u \in TxId : Due(m, u)' <=> Due(m, u) \/ (m = n /\ u = x.txid)
  BY <1>2, <1>8, <1>9 DEF Due
<1>11. \A m \in Node, u \in TxId : CommitDue(m, u)' <=> CommitDue(m, u)
  BY <1>2, <1>8, <1>9 DEF CommitDue
<1>12. ASSUME NEW m \in Node, NEW u \in TxId, CommitDue(m, u)' PROVE Ready(m, u)'
  <2>1. Ready(m, u)
    BY <1>11, <1>12 DEF DirectoryInv, DueIsReady
  <2>2. status'[m] = "open"
    BY <1>6, <2>1 DEF Ready
  <2> QED BY <1>1, <2>1, <2>2, ReadyStays
<1>13. ASSUME NEW m \in Node, status'[m] = "open" PROVE Follows(m)'
  <2>1. Follows(m)
    BY <1>6, <1>13 DEF DirectoryInv
  <2>2. \A e \in Entries(log[m]) : e.txid \in TxId
    BY <1>1, EntryTxId
  <2>3. Entries(log'[m]) = Entries(log[m]) \/ (m = n /\ Entries(log'[m]) = Entries(log[m]) \cup {x})
    BY <1>6
  <2>4. directory'[m] \subseteq Entries(log'[m])
    BY <1>2, <2>1, <2>3 DEF Follows
  <2>5. ASSUME NEW e \in Entries(log'[m]) \ directory'[m] PROVE ~Applicable(e) \/ Due(m, e.txid)'
    <3>1. CASE e \in Entries(log[m])
      <4>1. (~Applicable(e) \/ Due(m, e.txid)) /\ e.txid \in TxId
        BY <1>2, <2>1, <2>2, <2>5, <3>1 DEF Follows
      <4> QED BY <1>10, <4>1
    <3>2. CASE m = n /\ e = x
      BY <1>9, <1>10, <3>2
    <3> QED BY <2>3, <3>1, <3>2
  <2> QED BY <2>4, <2>5 DEF Follows, Applicable
<1>14. ASSUME NEW r \in applying', r.type = "M_STATE_TRANSFER"
       PROVE  status'[r.dst] = "open" /\ r.entry \in Entries(log'[r.dst])
  <2>1. CASE r = l
    BY <1>2, <1>6, <1>8, <2>1
  <2>2. CASE r \in applying
    <3>1. r.dst \in Node
      BY <2>2, HandledIs
    <3>2. status[r.dst] = "open" /\ r.entry \in Entries(log[r.dst])
      BY <1>14, <2>2 DEF DirectoryInv, LearnedIsLogged
    <3>3. Entries(log[r.dst]) \subseteq Entries(log'[r.dst])
      BY <1>1, <3>1, EntriesStay
    <3> QED BY <1>6, <3>2, <3>3
  <2> QED BY <1>9, <2>1, <2>2
<1>15. LearnedIsLogged'
  BY <1>14 DEF LearnedIsLogged, Entries
<1> QED BY <1>12, <1>13, <1>15 DEF DirectoryInv, DueIsReady

\* Every step keeps the invariant.
LEMMA DirectoryStep ==
  ASSUME TypeOK, EntryIsRead, LogReplayable, TableMatchesJournal, [LogNext]_logVars, DirectoryInv,
         [CommitNext]_vars
  PROVE  DirectoryInv'
<1>1. ASSUME NEW n \in Node, NEW t \in TxId,
             \/ SubmitNew(n, t) \/ Coordinate(n, t) \/ \E p \in Payload : SubmitAgain(n, t, p)
      PROVE  DirectoryInv'
  <2>1. CASE DecideCommit(n, t) \/ ApplyHere(n, t)
    BY <2>1, LoudCoordinator
  <2>2. CASE ~(DecideCommit(n, t) \/ ApplyHere(n, t))
    <3>1. SamePhases /\ UNCHANGED <<applying, directory, log, status>>
      BY <1>1, <2>2, QuietCoordinator DEF Coordinate
    <3> QED BY <3>1, QuietKeeps
  <2> QED BY <2>1, <2>2
<1>2. ASSUME NEW r \in calls \cup applying, Handle(r) PROVE DirectoryInv'
  <2>1. CASE HandleCommit(r) \/ ApplyCommit(r)
    BY <2>1, LoudHandler
  <2>2. CASE HandlePrepare(r) \/ RefuseCommit(r) \/ HandleCommitWriteError(r) \/ HandleAbort(r)
    BY <2>2, QuietHandler, QuietKeeps
  <2>3. CASE ApplyLearned(r)
    BY <2>3, LearnedKeeps
  <2> QED BY <1>2, <2>1, <2>2, <2>3 DEF Handle
<1>3. ASSUME NEW n \in Node, Upheaval(n) PROVE DirectoryInv'
  <2>1. SamePhases /\ UNCHANGED <<applying, directory, log, status>>
    BY <1>3 DEF Upheaval, commitVars, logVars, SamePhases
  <2> QED BY <2>1, QuietKeeps
<1>4. CASE UNCHANGED vars
  <2>1. SamePhases /\ UNCHANGED <<applying, directory, log, status>>
    BY <1>4 DEF vars, SamePhases
  <2> QED BY <2>1, QuietKeeps
<1> QED
  BY <1>1, <1>2, <1>3, <1>4, DieKeeps, RestartKeeps, TransferKeeps DEF CommitNext, ProtocolNext

\* Nothing is due and nothing is in a log at first.
LEMMA DirectoryInit == CommitInit => DirectoryInv
<1> SUFFICES ASSUME CommitInit PROVE DirectoryInv
  OBVIOUS
<1>1. /\ submission = [n \in Node |-> [t \in TxId |-> Idle]] /\ applying = {}
      /\ directory = [n \in Node |-> {}] /\ log = [n \in Node |-> <<>>]
  BY DEF CommitInit, NothingSubmitted, LogInit
<1>2. \A n \in Node, t \in TxId : ~CommitDue(n, t)
  BY <1>1, IdleIs DEF CommitDue
<1>a. Entries(<<>>) = {}
  BY SMTT(60) DEF Entries
<1>3. \A n \in Node : directory[n] = {} /\ Entries(log[n]) = {}
  BY <1>1, <1>a
<1> QED BY <1>1, <1>2, <1>3 DEF DirectoryInv, DueIsReady, LearnedIsLogged, Follows

\* The directory of a running Super Peer follows its log, whatever elections,
\* concurrent submissions, crashes and state transfers do: nothing is published
\* that is not committed there, and nothing committed that the metadata accepts stays
\* unpublished but for the time between the write and the call that applies it
\* (c4_apply_new_entry after c4_log_commit and c4_log_append, and the replay in
\* c4_cluster_create).
THEOREM DirectoryAlwaysFollows == CommitSpec => []DirectoryFollowsLog
<1>1. DirectoryInv => DirectoryFollowsLog
  BY DEF DirectoryInv, Follows, Due, DirectoryFollowsLog
<1>2. CommitSpec => []TableMatchesJournal /\ []LogReplayable
  BY CommitImplementsLog, JournalCorrect, LogAlwaysReplayable, PTL
<1> QED
  BY <1>1, <1>2, CommitTypeInit, CommitTypeStep, DirectoryInit, DirectoryStep, PTL DEF CommitSpec
=============================================================================
