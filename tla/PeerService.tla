---------------------------- MODULE PeerService -----------------------------
(***************************************************************************)
(* The Peers of peer.c and their home Super Peer (module Directory).  A    *)
(* Peer joins, announces every document it stores, and sends heartbeats;   *)
(* when one is refused or fails, or the Super Peer was started again, it   *)
(* joins and announces once more (reconnect_service).                      *)
(*                                                                         *)
(* peer[p]: phase    what the main thread, later the control thread, does  *)
(*          inc      the incarnation, kept in a file                       *)
(*          seen     the incarnation of the Super Peer it knows            *)
(*          needs    needs_reconnect                                       *)
(*          started  the service runs, connections are served              *)
(*          todo     the documents that remain to be announced             *)
(* stored[h]    the documents that were committed at h (module ObjectStore *)
(*              is what the storage promises)                              *)
(* commit[h]    the document whose COMMIT a handler of h is answering, and *)
(*              whether its announcement was sent                          *)
(* acked[h]     history: the documents for which h was told that the       *)
(*              Super Peer has the announcement                            *)
(* left         history: the Peers that stopped, had the LEAVE of their    *)
(*              last incarnation accepted, and were not started since      *)
(*                                                                         *)
(* A call is one step with the handling of its request, or the caller      *)
(* gives up and the request is late: it may be handled at any later time,  *)
(* or never.  An answer that is lost is a request handled just after the   *)
(* caller gave up.                                                         *)
(***************************************************************************)
EXTENDS Directory

CONSTANT NoObject

ASSUME PeerAssumption == NoObject \notin Object

VARIABLES peer, stored, commit, acked, left, late

peerVars == <<peer, stored, commit, acked, left, late>>

Late(type, p, inc, o) == [type |-> type, src |-> p, inc |-> inc, obj |-> o]

\* A Peer that was never started.
Off == [phase |-> "off", inc |-> 0, seen |-> 0, needs |-> FALSE, started |-> FALSE, todo |-> {}]

NoCommit == [obj |-> NoObject, sent |-> FALSE]

PeerInit ==
  /\ peer = [p \in Peer |-> Off]
  /\ stored = Stock
  /\ commit = [h \in Holder |-> NoCommit]
  /\ acked = [h \in Holder |-> IF h = Self THEN Stock[h] ELSE {}]
  /\ left = {} /\ late = {}

Running(p) == peer[p].phase # "off"

\* The listener is stopped before the LEAVE.
Serving(h) == IF h = Self THEN up ELSE peer[h].started /\ peer[h].phase \notin {"off", "leave"}

To(p, ph) == peer' = [peer EXCEPT ![p].phase = ph]

\* The process ends; the incarnations are in its files.
Exit(p) == peer' = [peer EXCEPT ![p] = [Off EXCEPT !.inc = peer[p].inc, !.seen = peer[p].seen]]

\* peer_service_run ends when its first JOIN fails, without a LEAVE; a reconnection
\* that fails is tried again with the next heartbeat.
JoinFailed(p) ==
  peer' = [peer EXCEPT ![p].phase = IF peer[p].started THEN "idle" ELSE "off",
                       ![p].needs = peer[p].started]

\* announce_catalog stops at the first failure.
CatalogFailed(p) ==
  peer' = [peer EXCEPT ![p].phase = IF peer[p].started THEN "idle" ELSE "leave",
                       ![p].needs = peer[p].started, ![p].todo = {}]

\* advance_epoch
Advanced(p) == [peer[p] EXCEPT !.inc = @ + 1, !.phase = "join"]

-----------------------------------------------------------------------------
(* peer_service_run and join_superpeer *)

Start(p) ==
  /\ ~ Running(p)
  /\ peer' = [peer EXCEPT ![p] = Advanced(p)]
  /\ left' = left \ {p}
  /\ UNCHANGED <<dirVars, events, stored, commit, acked, late>>

Join(p) ==
  /\ peer[p].phase = "join" /\ up
  /\ IF MayJoin(p, peer[p].inc) THEN Alive(p, peer[p].inc) /\ To(p, "list")
     ELSE JoinFailed(p) /\ UNCHANGED reg
  /\ UNCHANGED <<up, epoch, avail, log, announcing, events, stored, commit, acked, left, late>>

JoinLate(p) ==
  /\ peer[p].phase = "join" /\ Event
  /\ late' = late \cup {Late("JOIN", p, peer[p].inc, NoObject)}
  /\ JoinFailed(p)
  /\ UNCHANGED <<dirVars, stored, commit, acked, left>>

-----------------------------------------------------------------------------
(* announce_catalog, announce_document *)

ListCatalog(p) ==
  /\ peer[p].phase = "list"
  /\ peer' = [peer EXCEPT ![p].phase = "announce", ![p].todo = stored[p]]
  /\ UNCHANGED <<dirVars, events, stored, commit, acked, left, late>>

\* The first document of the list that is left; "wait" is the call.
Announce(p) ==
  /\ peer[p].phase = "announce" /\ up
  /\ \E o \in peer[p].todo :
       IF superpeer_is_registered(p)
       THEN announcing' = announcing \cup {Entry(p, o, "control", TRUE)} /\ To(p, "wait")
       ELSE CatalogFailed(p) /\ UNCHANGED announcing
  /\ UNCHANGED <<up, epoch, reg, avail, log, events, stored, commit, acked, left, late>>

AnnounceLate(p) ==
  /\ peer[p].phase = "announce" /\ Event
  /\ \E o \in peer[p].todo : late' = late \cup {Late("ANNOUNCE", p, peer[p].inc, o)}
  /\ CatalogFailed(p)
  /\ UNCHANGED <<dirVars, stored, commit, acked, left>>

CatalogDone(p) ==
  /\ peer[p].phase = "announce" /\ peer[p].todo = {}
  /\ peer' = [peer EXCEPT ![p].phase = "idle", ![p].needs = FALSE, ![p].started = TRUE]
  /\ UNCHANGED <<dirVars, events, stored, commit, acked, left, late>>

\* The announcement that thread t of h waits for.
Awaited(h, t) == {a \in announcing : a.src = h /\ a.thread = t /\ a.wait}

\* The control thread's call runs out, or the Super Peer has died.
WaitFails(p) ==
  /\ peer[p].phase = "wait"
  /\ IF Awaited(p, "control") = {} THEN UNCHANGED events ELSE Event
  /\ announcing' = Forsaken(p, {"control"})
  /\ CatalogFailed(p)
  /\ UNCHANGED <<up, epoch, reg, avail, log, stored, commit, acked, left, late>>

-----------------------------------------------------------------------------
(* execute_job of a Peer *)

\* Mutant of Heartbeat: only a refusal makes the Peer join again.
HeartbeatForgets(p) ==
  /\ peer[p].phase = "idle" /\ up
  /\ IF Fresh(p, peer[p].inc)
     THEN /\ Alive(p, peer[p].inc)
          /\ peer' = [peer EXCEPT ![p].seen = epoch, ![p].needs = @ \/ epoch > peer[p].seen]
     ELSE peer' = [peer EXCEPT ![p] = Advanced(p)] /\ UNCHANGED reg
  /\ UNCHANGED <<up, epoch, avail, log, announcing, events, stored, commit, acked, left, late>>

Heartbeat(p) ==
  /\ peer[p].phase = "idle" /\ up
  /\ IF Fresh(p, peer[p].inc)
     THEN LET again == peer[p].needs \/ epoch > peer[p].seen
          IN  /\ Alive(p, peer[p].inc)
              /\ peer' = [peer EXCEPT ![p].seen = epoch, ![p].needs = again,
                                      ![p].phase = IF again THEN "join" ELSE "idle"]
     ELSE peer' = [peer EXCEPT ![p] = Advanced(p)] /\ UNCHANGED reg
  /\ UNCHANGED <<up, epoch, avail, log, announcing, events, stored, commit, acked, left, late>>

HeartbeatLate(p) ==
  /\ peer[p].phase = "idle" /\ Event
  /\ late' = late \cup {Late("HEARTBEAT", p, peer[p].inc, NoObject)}
  /\ peer' = [peer EXCEPT ![p] = Advanced(p)]
  /\ UNCHANGED <<dirVars, stored, commit, acked, left>>

-----------------------------------------------------------------------------
(* The end of peer_service_run *)

\* The handlers and the control thread have finished.
Stop(p) ==
  /\ peer[p].phase = "idle" /\ commit[p] = NoCommit /\ Event
  /\ To(p, "leave")
  /\ UNCHANGED <<dirVars, stored, commit, acked, left, late>>

Leave(p) ==
  /\ peer[p].phase = "leave" /\ up
  /\ IF MayLeave(p, peer[p].inc) THEN Leaves(p) /\ left' = left \cup {p}
     ELSE UNCHANGED <<reg, avail, left>>
  /\ Exit(p)
  /\ UNCHANGED <<up, epoch, log, announcing, events, stored, commit, acked, late>>

LeaveLate(p) ==
  /\ peer[p].phase = "leave" /\ Event
  /\ late' = late \cup {Late("LEAVE", p, peer[p].inc, NoObject)}
  /\ Exit(p)
  /\ UNCHANGED <<dirVars, stored, commit, acked, left>>

CrashPeer(p) ==
  /\ Running(p) /\ Event
  /\ Exit(p)
  /\ commit' = [commit EXCEPT ![p] = NoCommit]
  /\ announcing' = Forsaken(p, {"control", "upload"})
  /\ UNCHANGED <<up, epoch, reg, avail, log, stored, acked, left, late>>

-----------------------------------------------------------------------------
(* The Super Peer handles a request whose caller has given up. *)

HandleLate(r) ==
  /\ up /\ late' = late \ {r}
  /\ \/ /\ r.type = "JOIN" /\ MayJoin(r.src, r.inc)
        /\ Alive(r.src, r.inc) /\ UNCHANGED <<avail, announcing, left>>
     \/ /\ r.type = "HEARTBEAT" /\ Fresh(r.src, r.inc)
        /\ Alive(r.src, r.inc) /\ UNCHANGED <<avail, announcing, left>>
     \/ /\ r.type = "ANNOUNCE" /\ superpeer_is_registered(r.src)
        /\ announcing' = announcing \cup {Entry(r.src, r.obj, "control", FALSE)}
        /\ UNCHANGED <<reg, avail, left>>
     \/ /\ r.type = "LEAVE" /\ MayLeave(r.src, r.inc)
        /\ Leaves(r.src)
        /\ left' = IF r.inc = peer[r.src].inc /\ ~ Running(r.src) THEN left \cup {r.src} ELSE left
        /\ UNCHANGED announcing
  /\ UNCHANGED <<up, epoch, log, events, peer, stored, commit, acked>>
=============================================================================
