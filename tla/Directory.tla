----------------------------- MODULE Directory ------------------------------
(***************************************************************************)
(* What a Super Peer knows of the documents: who announced them            *)
(* (metadata.c) and which of those Peers are registered with it.  A lookup *)
(* (directory.c) offers a Peer for a document only when both hold.  The    *)
(* announcements are entries of the replicated log (module C4Commit, of    *)
(* which only the committed entries matter here) and are all applied again *)
(* when the Super Peer starts; departures and failures of Peers are not in *)
(* that log.                                                               *)
(*                                                                         *)
(*   up, epoch     the process and its incarnation                         *)
(*   reg           the record of each Peer in the member table, which is   *)
(*                 checkpointed under the same gate (module Heartbeat)     *)
(*   avail         the owners in the entries of the metadata; an           *)
(*                 announcement adds the owner to every chunk, so the      *)
(*                 chunks of an entry have the same owners                 *)
(*   log           the announcements the log holds                         *)
(*   announcing    announcements that a thread is working on: registration *)
(*                 was checked, then the entry is committed, then applied  *)
(*   events        what is bounded: mishaps, stops, transfers begun        *)
(***************************************************************************)
EXTENDS Naturals, FiniteSets

CONSTANTS Peer, Self,   \* the Peers whose home this is; the Super Peer's own NodeID
          Object,       \* ObjectIDs
          Stock,        \* what each holder has committed before
          MaxEvents     \* bound on events, in all

ASSUME DirectoryAssumption ==
  /\ Self \notin Peer /\ MaxEvents \in Nat
  /\ Stock \in [Peer \cup {Self} -> SUBSET Object]

VARIABLES up, epoch, reg, avail, log, announcing, events

dirVars == <<up, epoch, reg, avail, log, announcing>>

\* A Super Peer stores documents too.
Holder == Peer \cup {Self}

\* A mishap, a download and an upload have different prices, so that one bound gives
\* several mixtures of them.
Spend(n) == events + n <= MaxEvents /\ events' = events + n
Event == Spend(2)

NoRecord == [inc |-> 0, state |-> "none"]

\* The Super Peer has started with the announcements of its own documents in its log;
\* the Peers have never joined.
DirectoryInit ==
  /\ up = TRUE /\ epoch = 1
  /\ reg = [p \in Peer |-> NoRecord]
  /\ avail = [o \in Object |-> {h \in {Self} : o \in Stock[h]}]
  /\ log = Stock[Self] \X {Self} /\ announcing = {}
  /\ events = 0

-----------------------------------------------------------------------------
(* metadata.c *)

metadata_announce(o, h) == avail' = [avail EXCEPT ![o] = @ \cup {h}]

metadata_remove_peer(p) == avail' = [o \in Object |-> avail[o] \ {p}]

-----------------------------------------------------------------------------
(* The member table, as far as the directory depends on it (module Membership) *)

Known(p) == reg[p].state \in {"alive", "failed"}

superpeer_is_registered(p) == p = Self \/ reg[p].state = "alive"

\* Mutant of MayJoin: an incarnation that was given up or has left may come back.
MayJoinAgain(p, inc) == inc >= reg[p].inc

MayJoin(p, inc) ==
  /\ inc >= reg[p].inc
  /\ reg[p].state \in {"failed", "removed"} => inc > reg[p].inc

\* Mutant of Fresh: a heartbeat revives a Peer that was given up.
FreshRevives(p, inc) == Known(p) /\ inc >= reg[p].inc

\* A heartbeat that is accepted.  Its sequence is a new one, unless it is handled
\* late, and then it changes nothing.
Fresh(p, inc) ==
  /\ Known(p) /\ inc >= reg[p].inc
  /\ inc = reg[p].inc => reg[p].state = "alive"

Alive(p, inc) == reg' = [reg EXCEPT ![p] = [inc |-> inc, state |-> "alive"]]

\* The branch of M_LEAVE: the LEAVE must name the incarnation that is registered.
MayLeave(p, inc) == Known(p) /\ inc = reg[p].inc

Leaves(p) == reg' = [reg EXCEPT ![p].state = "removed"] /\ metadata_remove_peer(p)

\* evaluate() finds that a Peer has failed, and membership_failure is called.
Detect(p) ==
  /\ up /\ reg[p].state = "alive" /\ Event
  /\ reg' = [reg EXCEPT ![p].state = "failed"]
  /\ metadata_remove_peer(p)
  /\ UNCHANGED <<up, epoch, log, announcing>>

\* A Peer that has been FAILED for long becomes a tombstone.
Bury(p) ==
  /\ up /\ reg[p].state = "failed"
  /\ reg' = [reg EXCEPT ![p].state = "removed"]
  /\ UNCHANGED <<up, epoch, avail, log, announcing, events>>

-----------------------------------------------------------------------------
(* Announcements: handle_announcement, process_announcement, apply_c4_entry *)

\* t is the thread of the owner that sent it; w: the thread waits for the answer.
Entry(h, o, t, w) == [src |-> h, obj |-> o, thread |-> t, step |-> "checked", wait |-> w]

\* The entry is in the log of a majority, and in this one.
Submit(a) ==
  /\ up /\ a.step = "checked"
  /\ log' = log \cup {<<a.obj, a.src>>}
  /\ announcing' = (announcing \ {a}) \cup {[a EXCEPT !.step = "logged"]}
  /\ UNCHANGED <<up, epoch, reg, avail, events>>

\* The submission is aborted, or there is no coordinator.
SubmitFails(a) ==
  /\ up /\ a.step = "checked" /\ Event
  /\ announcing' = announcing \ {a}
  /\ UNCHANGED <<up, epoch, reg, avail, log>>

Apply(a) ==
  /\ up /\ a.step = "logged"
  /\ metadata_announce(a.obj, a.src)
  /\ announcing' = announcing \ {a}
  /\ UNCHANGED <<up, epoch, reg, log, events>>

\* The threads of h do not wait for their answers any more.
Forsaken(h, T) ==
  {[a EXCEPT !.wait = @ /\ ~ (a.src = h /\ a.thread \in T)] : a \in announcing}

-----------------------------------------------------------------------------
(* The process *)

CrashSuperPeer ==
  /\ up /\ up' = FALSE /\ Event
  /\ announcing' = {} /\ avail' = [o \in Object |-> {}]
  /\ UNCHANGED <<epoch, reg, log>>

\* The member table is loaded, and all entries of the log are applied.
StartSuperPeer ==
  /\ ~ up /\ up' = TRUE
  /\ epoch' = epoch + 1
  /\ avail' = [o \in Object |-> {h \in Holder : <<o, h>> \in log}]
  /\ UNCHANGED <<reg, log, announcing, events>>

-----------------------------------------------------------------------------
(* directory_lookup.  Owners and registrations are read in sections of     *)
(* their own.                                                              *)

Valid(h) == superpeer_is_registered(h)

\* What a lookup that nothing interrupts finds.
Offered(o) == IF up THEN {h \in avail[o] : Valid(h)} ELSE {}
=============================================================================
