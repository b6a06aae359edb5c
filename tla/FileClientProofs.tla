-------------------------- MODULE FileClientProofs --------------------------
(***************************************************************************)
(* Proofs about the directory that lookups read, the Peers that announce   *)
(* to it, and the clients, for any number of Peers, documents, clients and *)
(* chunks, and any number of crashes, lost calls and late requests.        *)
(***************************************************************************)
EXTENDS FileClient, TLAPS

\* A step that names no prover is for Zenon, which gets up to a minute.
USE ZenonT(60)

----------------------------------------------------------------------------
(* The invariants *)

States == {"none", "alive", "failed", "removed"}

Records == [inc : Nat, state : States]

Phases == {"off", "join", "list", "announce", "wait", "idle", "leave"}

Peers == [phase : Phases, inc : Nat, seen : Nat, needs : BOOLEAN, started : BOOLEAN,
          todo : SUBSET Object]

Entries == [src : Holder, obj : Object, thread : {"control", "upload"},
            step : {"checked", "logged"}, wait : BOOLEAN]

Requests ==
  {r \in [type : {"JOIN", "HEARTBEAT", "ANNOUNCE", "LEAVE"}, src : Peer, inc : Nat,
          obj : Object \cup {NoObject}] : r.type = "ANNOUNCE" => r.obj \in Object}

Commits == [obj : Object \cup {NoObject}, sent : BOOLEAN]

Pools == [next : Nat, failed : BOOLEAN, busy : SUBSET Chunk, tried : [Chunk -> SUBSET Holder]]

Uploads == [phase : {"new", "send", "commit", "failed", "done"}, to : Holder,
            obj : Object \cup {NoObject}, pool : Pools]

Downloads == [phase : {"new", "owners", "valid", "found", "open", "work", "link", "unlink",
                       "sync", "cleanup", "failed", "done", "killed"},
              obj : Object \cup {NoObject}, owners : SUBSET Holder, i : Nat,
              loc : [Chunk -> SUBSET Holder], pool : Pools]

\* The Super Peer and its directory
DirectoryTypes ==
  /\ up \in BOOLEAN /\ epoch \in Nat
  /\ reg \in [Peer -> Records]
  /\ avail \in [Object -> SUBSET Holder]
  /\ log \subseteq Object \X Holder
  /\ announcing \subseteq Entries

\* The Peers
PeerTypes ==
  /\ peer \in [Peer -> Peers]
  /\ stored \in [Holder -> SUBSET Object] /\ acked \in [Holder -> SUBSET Object]
  /\ commit \in [Holder -> Commits]
  /\ left \subseteq Peer /\ late \subseteq Requests

\* The uploads; one that has begun knows its document.
UploadTypes ==
  /\ ul \in [Upload -> Uploads]
  /\ \A c \in Upload : ul[c].phase = "send" => ul[c].obj \in Object

\* The downloads and their files; a lookup knows its document.
FileTypes ==
  /\ dl \in [Download -> Downloads]
  /\ \A c \in Download : dl[c].phase \in {"owners", "valid"} => dl[c].obj \in Object
  /\ part \in Download \cup {NoFile} /\ dest \in Download \cup {NoFile}
  /\ content \in [Download -> SUBSET Chunk]

\* No record and no request is of a later incarnation than the Peer; what has left is
\* a tombstone of its last one.
GoneInv ==
  /\ \A p \in Peer : reg[p].inc <= peer[p].inc
  /\ \A r \in late : r.inc <= peer[r.src].inc
  /\ \A p \in left : ~Running(p) /\ reg[p].inc = peer[p].inc /\ reg[p].state = "removed"

\* The Super Peer has accepted the JOIN of the incarnation p runs with, and p has no
\* failure to make good.
InTouch(p) == peer[p].phase \in {"list", "announce", "wait"} \/ (peer[p].phase = "idle" /\ ~peer[p].needs)

\* a is the announcement that the control thread of its owner waits for.
Waits(a) == a.wait /\ a.thread = "control"

\* An announcement that is under way: the owner has the document, a committed one is in the
\* log, and the control thread that waits for the answer waits for no other.
EntryOK(a) ==
  /\ a.step = "logged" => <<a.obj, a.src>> \in log
  /\ a.wait => a.obj \in stored[a.src]
  /\ Waits(a) => /\ a.src \in Peer /\ peer[a.src].phase = "wait"
                 /\ \A b \in announcing : Waits(b) /\ b.src = a.src => b = a

\* A Peer in touch whose record is alive is the owner of all that it was acknowledged
\* for and does not have to announce again.
PeerOK(p) ==
  /\ peer[p].phase = "idle" => peer[p].started
  /\ peer[p].todo \subseteq stored[p]
  /\ peer[p].phase \notin {"announce", "wait"} => peer[p].todo = {}
  /\ InTouch(p) => reg[p].inc = peer[p].inc /\ reg[p].state # "none"
  /\ up /\ InTouch(p) /\ peer[p].phase # "list" /\ reg[p].state = "alive"
       => \A o \in acked[p] \ peer[p].todo : p \in avail[o]

\* What a holder was acknowledged for it stores, and it is in the log.
HolderOK(h) ==
  /\ acked[h] \subseteq stored[h]
  /\ \A o \in acked[h] : <<o, h>> \in log
  /\ commit[h] = NoCommit \/ commit[h].obj \in stored[h]

OfferInv ==
  /\ \A h \in Holder : HolderOK(h)
  /\ \A a \in announcing : EntryOK(a)
  /\ \A p \in Peer : PeerOK(p)
  /\ up => \A o \in acked[Self] : Self \in avail[o]

\* As long as the destination has no file, the part file is the one of the download that
\* is at work on it, and what it is about to link is complete.
FileInv ==
  /\ part # NoFile => dl[part].phase \in {"work", "link", "unlink", "cleanup", "killed"}
  /\ dest = NoFile => \A c \in Download :
       /\ dl[c].phase \in {"work", "link", "cleanup"} => part = c
       /\ dl[c].phase \notin {"unlink", "sync"}
       /\ dl[c].phase = "link" => content[c] = Chunk

ServiceInv == DirectoryTypes /\ PeerTypes /\ GoneInv /\ OfferInv

----------------------------------------------------------------------------
(* What a step makes of the record of one Peer *)

\* The step makes this of peer[p] and leaves the other Peers alone.
Becomes(p, ph, inc, needs, started, todo) ==
  /\ peer' \in [Peer -> Peers]
  /\ \A q \in Peer : q # p => peer'[q] = peer[q]
  /\ peer'[p].phase = ph /\ peer'[p].inc = inc /\ peer'[p].needs = needs
  /\ peer'[p].started = started /\ peer'[p].todo = todo

\* To changes the phase of the control thread only.
LEMMA ToIs ==
  ASSUME PeerTypes, NEW p \in Peer, NEW ph \in Phases, To(p, ph)
  PROVE Becomes(p, ph, peer[p].inc, peer[p].needs, peer[p].started, peer[p].todo)
BY DEF PeerTypes, Peers, To, Becomes

\* Exit: the process ends, and only its files remain.
LEMMA ExitIs ==
  ASSUME PeerTypes, NEW p \in Peer, Exit(p)
  PROVE Becomes(p, "off", peer[p].inc, FALSE, FALSE, {})
BY DEF PeerTypes, Peers, Phases, Exit, Off, Becomes

\* JoinFailed: a service that runs will reconnect, another one ends.
LEMMA JoinFailedIs ==
  ASSUME PeerTypes, NEW p \in Peer, JoinFailed(p)
  PROVE Becomes(p, IF peer[p].started THEN "idle" ELSE "off", peer[p].inc, peer[p].started,
                peer[p].started, peer[p].todo)
BY DEF PeerTypes, Peers, Phases, JoinFailed, Becomes

\* CatalogFailed: announce_catalog ends, and a service that runs will reconnect.
LEMMA CatalogFailedIs ==
  ASSUME PeerTypes, NEW p \in Peer, CatalogFailed(p)
  PROVE Becomes(p, IF peer[p].started THEN "idle" ELSE "leave", peer[p].inc, peer[p].started,
                peer[p].started, {})
BY DEF PeerTypes, Peers, Phases, CatalogFailed, Becomes

\* Advanced: the next incarnation is about to join.
LEMMA AdvancedIs ==
  ASSUME PeerTypes, NEW p \in Peer, peer' = [peer EXCEPT ![p] = Advanced(p)]
  PROVE Becomes(p, "join", peer[p].inc + 1, peer[p].needs, peer[p].started, peer[p].todo)
<1>1. \A n \in Nat : n + 1 \in Nat
  BY SMTT(60)
<1> QED BY <1>1 DEF PeerTypes, Peers, Phases, Advanced, Becomes

\* Alive makes the record of p alive with the incarnation, and leaves the others alone.
LEMMA AliveIs ==
  ASSUME DirectoryTypes, NEW p \in Peer, NEW i \in Nat, Alive(p, i)
  PROVE /\ reg' \in [Peer -> Records]
        /\ \A q \in Peer : q # p => reg'[q] = reg[q]
        /\ reg'[p].inc = i /\ reg'[p].state = "alive"
BY DEF DirectoryTypes, Records, States, Alive

\* Leaves makes a tombstone of the record of p, and p the owner of nothing.
LEMMA LeavesIs ==
  ASSUME DirectoryTypes, NEW p \in Peer, Leaves(p)
  PROVE /\ reg' \in [Peer -> Records]
        /\ \A q \in Peer : q # p => reg'[q] = reg[q]
        /\ reg'[p].inc = reg[p].inc /\ reg'[p].state = "removed"
        /\ avail' \in [Object -> SUBSET Holder]
        /\ \A o \in Object, h \in Holder : h # p => (h \in avail'[o] <=> h \in avail[o])
BY DEF DirectoryTypes, Records, States, Leaves, metadata_remove_peer

----------------------------------------------------------------------------
(* A step about one Peer *)

\* A step that changes one Peer, its record, its requests and what it is offered for keeps
\* the invariant if it does for that Peer and for the announcements under way.
LEMMA OnePeer ==
  ASSUME ServiceInv, NEW p \in Peer,
         DirectoryTypes', PeerTypes',
         \A q \in Peer : q # p => peer'[q] = peer[q] /\ reg'[q] = reg[q],
         peer[p].inc <= peer'[p].inc, reg'[p].inc <= peer'[p].inc,
         \A r \in late' : r \in late \/ (r.src = p /\ r.inc <= peer'[p].inc),
         \A q \in left' : q # p => q \in left,
         p \in left' => ~Running(p)' /\ reg'[p].inc = peer'[p].inc /\ reg'[p].state = "removed",
         UNCHANGED <<up, log, stored, acked>>,
         \A h \in Holder : commit'[h] = commit[h] \/ commit'[h] = NoCommit,
         \A o \in Object, h \in Holder : h # p => (h \in avail'[o] <=> h \in avail[o]),
         \A a \in announcing' : EntryOK(a)',
         PeerOK(p)'
  PROVE GoneInv' /\ OfferInv'
<1>1. GoneInv'
  <2>1. \A q \in Peer : reg'[q].inc <= peer'[q].inc
    BY DEF ServiceInv, GoneInv
  <2>2. ASSUME NEW r \in late'
        PROVE r.inc <= peer'[r.src].inc
    <3>1. r.src \in Peer /\ r.inc \in Nat
      BY SMTT(60) DEF PeerTypes, Requests
    <3>2. CASE r \in late /\ r.src = p
      <4>1. r.inc <= peer[p].inc
        BY <3>2 DEF ServiceInv, GoneInv
      <4>2. peer[p].inc \in Nat /\ peer'[p].inc \in Nat
        BY SMTT(60) DEF ServiceInv, PeerTypes, Peers
      <4>3. \A x, y, z \in Nat : x <= y /\ y <= z => x <= z
        BY SMTT(60)
      <4> QED BY <3>1, <3>2, <4>1, <4>2, <4>3
    <3>3. CASE r \in late /\ r.src # p
      BY <3>1, <3>3 DEF ServiceInv, GoneInv
    <3> QED BY <3>2, <3>3
  <2>3. \A q \in left' : ~Running(q)' /\ reg'[q].inc = peer'[q].inc /\ reg'[q].state = "removed"
    <3>1. left' \subseteq Peer
      BY DEF PeerTypes
    <3> QED BY <3>1 DEF ServiceInv, GoneInv, Running
  <2> QED BY <2>1, <2>2, <2>3 DEF GoneInv
<1>2. p # Self /\ Self \in Holder /\ p \in Holder
  BY DirectoryAssumption DEF Holder
<1>3. \A h \in Holder : HolderOK(h)'
  <2> SUFFICES ASSUME NEW h \in Holder PROVE HolderOK(h)'
    OBVIOUS
  <2>1. HolderOK(h)
    BY DEF ServiceInv, OfferInv
  <2> QED BY <2>1 DEF HolderOK
<1>4. \A q \in Peer : PeerOK(q)'
  <2> SUFFICES ASSUME NEW q \in Peer, q # p PROVE PeerOK(q)'
    OBVIOUS
  <2>1. PeerOK(q) /\ q \in Holder
    BY DEF ServiceInv, OfferInv, Holder
  <2>2. acked[q] \subseteq Object
    BY <2>1 DEF ServiceInv, PeerTypes
  <2> QED BY <2>1, <2>2 DEF PeerOK, InTouch
<1>5. up' => \A o \in acked'[Self] : Self \in avail'[o]
  <2>1. acked[Self] \subseteq Object
    BY <1>2 DEF ServiceInv, PeerTypes
  <2> QED BY <1>2, <2>1 DEF ServiceInv, OfferInv
<1> QED BY <1>1, <1>3, <1>4, <1>5 DEF OfferInv

\* Announcements under way are not disturbed by a step that does not wake the thread
\* that waits for one.
LEMMA EntriesStay ==
  ASSUME ServiceInv, NEW p \in Peer,
         \A q \in Peer : q # p => peer'[q] = peer[q],
         UNCHANGED <<log, stored, announcing>>,
         peer[p].phase # "wait" \/ peer'[p].phase = "wait"
  PROVE \A a \in announcing' : EntryOK(a)'
BY DEF ServiceInv, OfferInv, EntryOK, Waits

\* What Forsaken leaves of an announcement when w says whether its thread still waits.
LEMMA ForsakenEntry ==
  ASSUME NEW a \in Entries, NEW w \in BOOLEAN, NEW b, b = [a EXCEPT !.wait = w]
  PROVE /\ b \in Entries /\ b.src = a.src /\ b.obj = a.obj /\ b.thread = a.thread
        /\ b.step = a.step /\ b.wait = w
BY DEF Entries

\* Nor by one after which the control thread does not wait any more.
LEMMA ForsakenStay ==
  ASSUME ServiceInv, NEW p \in Peer, NEW T, "control" \in T \/ UNCHANGED peer,
         \A q \in Peer : q # p => peer'[q] = peer[q],
         UNCHANGED <<log, stored>>,
         announcing' = Forsaken(p, T)
  PROVE announcing' \subseteq Entries /\ \A a \in announcing' : EntryOK(a)'
<1> DEFINE W(a) == a.wait /\ ~ (a.src = p /\ a.thread \in T)
           F(a) == [a EXCEPT !.wait = W(a)]
<1>1. announcing' = {F(a) : a \in announcing}
  BY DEF Forsaken
<1>2. ASSUME NEW a \in announcing
      PROVE a \in Entries /\ EntryOK(a) /\ W(a) \in BOOLEAN
  BY DEF ServiceInv, DirectoryTypes, OfferInv
<1>3. ASSUME NEW a \in announcing, W(a)
      PROVE a.wait /\ ~ (a.src = p /\ a.thread \in T)
  BY <1>3
<1> HIDE DEF W
<1>4. ASSUME NEW a \in announcing
      PROVE /\ F(a) \in Entries /\ F(a).src = a.src /\ F(a).obj = a.obj /\ F(a).thread = a.thread
            /\ F(a).step = a.step /\ F(a).wait = W(a)
  BY <1>2, ForsakenEntry
<1> HIDE DEF F
<1>5. ASSUME NEW a \in announcing, F(a).wait
      PROVE a.wait /\ ~ (a.src = p /\ a.thread \in T)
  BY <1>3, <1>4, <1>5
<1>6. ASSUME NEW a \in announcing, Waits(F(a))
      PROVE Waits(a) /\ a.src \in Peer /\ peer'[a.src].phase = "wait"
  <2>1. F(a).wait /\ F(a).thread = "control"
    BY <1>6 DEF Waits
  <2>2. a.wait /\ a.thread = "control" /\ (a.src # p \/ UNCHANGED peer)
    BY <1>4, <1>5, <2>1
  <2> QED BY <1>2, <2>2 DEF Waits, EntryOK
<1>7. ASSUME NEW a \in announcing, NEW e, e = F(a) PROVE EntryOK(e)'
  <2>1. Waits(e) => \A b \in announcing : Waits(F(b)) /\ b.src = a.src => b = a
    BY <1>2, <1>6, <1>7 DEF EntryOK
  <2>2. Waits(e) => \A b \in announcing' : Waits(b) /\ b.src = e.src => b = e
    BY <1>1, <1>4, <1>7, <2>1
  <2>3. /\ e.src = a.src /\ e.obj = a.obj /\ e.step = a.step
        /\ e.wait => a.wait
        /\ Waits(e) => a.src \in Peer /\ peer'[a.src].phase = "wait"
    BY <1>4, <1>5, <1>6, <1>7
  <2> QED BY <1>2, <2>2, <2>3 DEF EntryOK, Waits
<1> QED BY <1>1, <1>4, <1>7

----------------------------------------------------------------------------
(* The steps of a Peer *)

\* What the proofs of the steps of p begin with.
LEMMA Before ==
  ASSUME ServiceInv, NEW p \in Peer
  PROVE /\ PeerTypes /\ DirectoryTypes /\ PeerOK(p)
        /\ peer[p] \in Peers /\ reg[p] \in Records
        /\ peer[p].inc \in Nat /\ reg[p].inc \in Nat /\ reg[p].inc <= peer[p].inc
        /\ reg[p].state \in States
        /\ peer[p].inc <= peer[p].inc
        /\ p \in left => ~Running(p) /\ reg[p].inc = peer[p].inc /\ reg[p].state = "removed"
<1>1. PeerTypes /\ DirectoryTypes /\ PeerOK(p) /\ reg[p].inc <= peer[p].inc
  BY DEF ServiceInv, OfferInv, GoneInv
<1>2. peer[p] \in Peers /\ reg[p] \in Records
  BY <1>1 DEF PeerTypes, DirectoryTypes
<1>3. peer[p].inc \in Nat /\ reg[p].inc \in Nat /\ reg[p].state \in States
  BY <1>2 DEF Peers, Records
<1>4. \A n \in Nat : n <= n
  BY SMTT(60)
<1> QED BY <1>1, <1>2, <1>3, <1>4 DEF ServiceInv, GoneInv

\* Start: the next incarnation has nothing to announce until it has joined.
LEMMA StartKeeps ==
  ASSUME ServiceInv, NEW p \in Peer, Start(p)
  PROVE ServiceInv'
<1>1. Becomes(p, "join", peer[p].inc + 1, peer[p].needs, peer[p].started, peer[p].todo)
  BY AdvancedIs, Before DEF Start
<1>2. DirectoryTypes' /\ PeerTypes'
  BY <1>1, Before DEF Start, dirVars, DirectoryTypes, PeerTypes, Becomes
<1>3. peer[p].inc <= peer[p].inc + 1 /\ reg[p].inc <= peer[p].inc + 1
  BY Before, SMTT(60)
<1>4. PeerOK(p)'
  BY <1>1, Before DEF Start, dirVars, PeerOK, InTouch, Becomes, Running
<1>5. \A a \in announcing' : EntryOK(a)'
  BY <1>1, EntriesStay DEF Start, dirVars, Becomes, Running
<1> QED BY <1>1, <1>2, <1>3, <1>4, <1>5, OnePeer, Before DEF Start, dirVars, Becomes, ServiceInv

\* Join: an accepted JOIN makes the record alive with the incarnation that p has.
LEMMA JoinKeeps ==
  ASSUME ServiceInv, NEW p \in Peer, Join(p)
  PROVE ServiceInv'
<1>1. CASE MayJoin(p, peer[p].inc)
  <2>1. Becomes(p, "list", peer[p].inc, peer[p].needs, peer[p].started, peer[p].todo)
    BY <1>1, ToIs, Before DEF Join, Phases
  <2>2. /\ reg' \in [Peer -> Records] /\ \A q \in Peer : q # p => reg'[q] = reg[q]
        /\ reg'[p].inc = peer[p].inc /\ reg'[p].state = "alive"
    BY <1>1, AliveIs, Before DEF Join
  <2>3. DirectoryTypes' /\ PeerTypes'
    BY <2>1, <2>2, Before DEF Join, DirectoryTypes, PeerTypes, Becomes
  <2>4. PeerOK(p)'
    BY <2>1, <2>2, Before DEF Join, PeerOK, InTouch, Becomes
  <2>5. \A a \in announcing' : EntryOK(a)'
    BY <2>1, EntriesStay DEF Join, Becomes
  <2> QED BY <2>1, <2>2, <2>3, <2>4, <2>5, OnePeer, Before DEF Join, Becomes, ServiceInv, Running
<1>2. CASE ~MayJoin(p, peer[p].inc)
  <2>1. Becomes(p, IF peer[p].started THEN "idle" ELSE "off", peer[p].inc, peer[p].started,
                peer[p].started, peer[p].todo)
    BY <1>2, JoinFailedIs, Before DEF Join
  <2>2. DirectoryTypes' /\ PeerTypes'
    BY <1>2, <2>1, Before DEF Join, DirectoryTypes, PeerTypes, Becomes
  <2>3. PeerOK(p)'
    BY <1>2, <2>1, Before DEF Join, PeerOK, InTouch, Becomes
  <2>4. \A a \in announcing' : EntryOK(a)'
    BY <2>1, EntriesStay DEF Join, Becomes
  <2> QED BY <1>2, <2>1, <2>2, <2>3, <2>4, OnePeer, Before DEF Join, Becomes, ServiceInv, Running
<1> QED BY <1>1, <1>2

\* JoinLate: the Peer gives up, and owes a reconnection; the request remains.
LEMMA JoinLateKeeps ==
  ASSUME ServiceInv, NEW p \in Peer, JoinLate(p)
  PROVE ServiceInv'
<1>1. Becomes(p, IF peer[p].started THEN "idle" ELSE "off", peer[p].inc, peer[p].started,
              peer[p].started, peer[p].todo)
  BY JoinFailedIs, Before DEF JoinLate
<1>2. PICK r : r = Late("JOIN", p, peer[p].inc, NoObject)
  OBVIOUS
<1>3. r \in Requests /\ r.src = p /\ r.inc = peer[p].inc
  BY <1>2, Before DEF Late, Requests
<1>4. DirectoryTypes' /\ PeerTypes'
  BY <1>1, <1>2, <1>3, Before DEF JoinLate, dirVars, DirectoryTypes, PeerTypes, Becomes
<1>5. PeerOK(p)'
  BY <1>1, Before DEF JoinLate, dirVars, PeerOK, InTouch, Becomes
<1>6. \A a \in announcing' : EntryOK(a)'
  BY <1>1, EntriesStay DEF JoinLate, dirVars, Becomes
<1> QED
  BY <1>1, <1>2, <1>3, <1>4, <1>5, <1>6, OnePeer, Before DEF JoinLate, dirVars, Becomes, ServiceInv, Running

\* ListCatalog: all that is stored, and so all that was acknowledged, will be announced.
LEMMA ListCatalogKeeps ==
  ASSUME ServiceInv, NEW p \in Peer, ListCatalog(p)
  PROVE ServiceInv'
<1>1. stored[p] \subseteq Object /\ acked[p] \subseteq stored[p]
  BY Before DEF PeerTypes, ServiceInv, OfferInv, HolderOK, Holder
<1>2. Becomes(p, "announce", peer[p].inc, peer[p].needs, peer[p].started, stored[p])
  BY <1>1, Before DEF ListCatalog, PeerTypes, Peers, Phases, Becomes
<1>3. DirectoryTypes' /\ PeerTypes'
  BY <1>2, Before DEF ListCatalog, dirVars, DirectoryTypes, PeerTypes, Becomes
<1>4. PeerOK(p)'
  BY <1>1, <1>2, Before DEF ListCatalog, dirVars, PeerOK, InTouch, Becomes
<1>5. \A a \in announcing' : EntryOK(a)'
  BY <1>2, EntriesStay DEF ListCatalog, dirVars, Becomes
<1> QED BY <1>2, <1>3, <1>4, <1>5, OnePeer, Before DEF ListCatalog, dirVars, Becomes, ServiceInv, Running

\* Announce: the control thread waits for the answer to one announcement.
LEMMA AnnounceKeeps ==
  ASSUME ServiceInv, NEW p \in Peer, Announce(p)
  PROVE ServiceInv'
<1>1. PICK o \in peer[p].todo :
        IF superpeer_is_registered(p)
        THEN announcing' = announcing \cup {Entry(p, o, "control", TRUE)} /\ To(p, "wait")
        ELSE CatalogFailed(p) /\ UNCHANGED announcing
  BY DEF Announce
<1>2. CASE superpeer_is_registered(p)
  <2>1. Becomes(p, "wait", peer[p].inc, peer[p].needs, peer[p].started, peer[p].todo)
    BY <1>1, <1>2, ToIs, Before DEF Phases
  <2>2. PICK e : e = Entry(p, o, "control", TRUE)
    OBVIOUS
  <2>3. o \in stored[p] /\ o \in Object /\ p \in Holder
    BY <1>1, Before DEF PeerOK, PeerTypes, Holder
  <2>4. e \in Entries /\ e.src = p /\ e.obj = o /\ e.step = "checked" /\ e.thread = "control"
    BY <2>2, <2>3 DEF Entry, Entries
  <2>5. announcing' = announcing \cup {e}
    BY <1>1, <1>2, <2>2
  <2>6. DirectoryTypes' /\ PeerTypes'
    BY <2>1, <2>4, <2>5, Before DEF Announce, DirectoryTypes, PeerTypes, Becomes
  <2>7. PeerOK(p)'
    BY <2>1, Before DEF Announce, PeerOK, InTouch, Becomes
  <2>8. \A a \in announcing : EntryOK(a) /\ (Waits(a) => a.src # p)
    BY DEF Announce, ServiceInv, OfferInv, EntryOK
  <2>9. \A a \in announcing' : EntryOK(a)'
    <3>1. ASSUME NEW a \in announcing PROVE EntryOK(a)'
      BY <2>1, <2>4, <2>5, <2>8 DEF Announce, EntryOK, Waits, Becomes
    <3>2. EntryOK(e)'
      BY <2>1, <2>3, <2>4, <2>5, <2>8 DEF Announce, EntryOK, Waits, Becomes
    <3> QED BY <2>5, <3>1, <3>2
  <2> QED
    BY <2>1, <2>6, <2>7, <2>9, OnePeer, Before DEF Announce, Becomes, ServiceInv, Running
<1>3. CASE ~superpeer_is_registered(p)
  <2>1. Becomes(p, IF peer[p].started THEN "idle" ELSE "leave", peer[p].inc, peer[p].started,
                peer[p].started, {})
    BY <1>1, <1>3, CatalogFailedIs, Before
  <2>2. DirectoryTypes' /\ PeerTypes'
    BY <1>1, <1>3, <2>1, Before DEF Announce, DirectoryTypes, PeerTypes, Becomes
  <2>3. PeerOK(p)'
    BY <2>1, Before DEF Announce, PeerOK, InTouch, Becomes
  <2>4. \A a \in announcing' : EntryOK(a)'
    BY <1>1, <1>3, <2>1, EntriesStay DEF Announce, Becomes
  <2> QED BY <1>1, <1>3, <2>1, <2>2, <2>3, <2>4, OnePeer, Before DEF Announce, Becomes, ServiceInv, Running
<1> QED BY <1>2, <1>3

\* AnnounceLate: the Peer gives up, and owes a reconnection; the request remains.
LEMMA AnnounceLateKeeps ==
  ASSUME ServiceInv, NEW p \in Peer, AnnounceLate(p)
  PROVE ServiceInv'
<1>1. Becomes(p, IF peer[p].started THEN "idle" ELSE "leave", peer[p].inc, peer[p].started,
              peer[p].started, {})
  BY CatalogFailedIs, Before DEF AnnounceLate
<1>2. PICK o \in peer[p].todo : late' = late \cup {Late("ANNOUNCE", p, peer[p].inc, o)}
  BY DEF AnnounceLate
<1>3. o \in Object
  BY <1>2, Before DEF Peers
<1>4. PICK r : r = Late("ANNOUNCE", p, peer[p].inc, o)
  OBVIOUS
<1>5. r \in Requests /\ r.src = p /\ r.inc = peer[p].inc
  BY <1>3, <1>4, Before DEF Late, Requests
<1>6. DirectoryTypes' /\ PeerTypes'
  BY <1>1, <1>2, <1>4, <1>5, Before DEF AnnounceLate, dirVars, DirectoryTypes, PeerTypes, Becomes
<1>7. PeerOK(p)'
  BY <1>1, Before DEF AnnounceLate, dirVars, PeerOK, InTouch, Becomes
<1>8. \A a \in announcing' : EntryOK(a)'
  BY <1>1, EntriesStay DEF AnnounceLate, dirVars, Becomes
<1> QED
  BY <1>1, <1>2, <1>4, <1>5, <1>6, <1>7, <1>8, OnePeer, Before
     DEF AnnounceLate, dirVars, Becomes, ServiceInv, Running

\* CatalogDone: nothing is left to be announced, and the debt is paid.
LEMMA CatalogDoneKeeps ==
  ASSUME ServiceInv, NEW p \in Peer, CatalogDone(p)
  PROVE ServiceInv'
<1>1. Becomes(p, "idle", peer[p].inc, FALSE, TRUE, peer[p].todo)
  BY Before DEF CatalogDone, PeerTypes, Peers, Phases, Becomes
<1>2. DirectoryTypes' /\ PeerTypes'
  BY <1>1, Before DEF CatalogDone, dirVars, DirectoryTypes, PeerTypes, Becomes
<1>3. PeerOK(p)'
  BY <1>1, Before DEF CatalogDone, dirVars, PeerOK, InTouch, Becomes
<1>4. \A a \in announcing' : EntryOK(a)'
  BY <1>1, EntriesStay DEF CatalogDone, dirVars, Becomes
<1> QED BY <1>1, <1>2, <1>3, <1>4, OnePeer, Before DEF CatalogDone, dirVars, Becomes, ServiceInv, Running

\* WaitFails: the announcement goes on without anybody who waits for it.
LEMMA WaitFailsKeeps ==
  ASSUME ServiceInv, NEW p \in Peer, WaitFails(p)
  PROVE ServiceInv'
<1>1. Becomes(p, IF peer[p].started THEN "idle" ELSE "leave", peer[p].inc, peer[p].started,
              peer[p].started, {})
  BY CatalogFailedIs, Before DEF WaitFails
<1>2. announcing' \subseteq Entries /\ \A a \in announcing' : EntryOK(a)'
  BY <1>1, ForsakenStay DEF WaitFails, Becomes
<1>3. DirectoryTypes' /\ PeerTypes'
  BY <1>1, <1>2, Before DEF WaitFails, DirectoryTypes, PeerTypes, Becomes
<1>4. PeerOK(p)'
  BY <1>1, Before DEF WaitFails, PeerOK, InTouch, Becomes
<1> QED BY <1>1, <1>2, <1>3, <1>4, OnePeer, Before DEF WaitFails, Becomes, ServiceInv, Running

\* Heartbeat: one that is accepted of a Peer in touch changes no record; another Peer
\* goes on to join.
LEMMA HeartbeatKeeps ==
  ASSUME ServiceInv, NEW p \in Peer, Heartbeat(p)
  PROVE ServiceInv'
<1>1. CASE Fresh(p, peer[p].inc)
  <2> DEFINE again == peer[p].needs \/ epoch > peer[p].seen
  <2>1. peer' = [peer EXCEPT ![p].seen = epoch, ![p].needs = again,
                             ![p].phase = IF again THEN "join" ELSE "idle"]
    BY <1>1 DEF Heartbeat
  <2>2. again \in BOOLEAN /\ (peer[p].needs => again)
    OBVIOUS
  <2> HIDE DEF again
  <2>3. Becomes(p, IF again THEN "join" ELSE "idle", peer[p].inc, again, peer[p].started, peer[p].todo)
    <3>1. PICK ph : ph = IF again THEN "join" ELSE "idle"
      OBVIOUS
    <3>2. ph \in Phases /\ epoch \in Nat /\ peer \in [Peer -> Peers]
      BY <2>2, <3>1, Before DEF Phases, DirectoryTypes, PeerTypes
    <3>3. peer' = [peer EXCEPT ![p].seen = epoch, ![p].needs = again, ![p].phase = ph]
      BY <2>1, <3>1
    <3>4. Becomes(p, ph, peer[p].inc, again, peer[p].started, peer[p].todo)
      BY <2>2, <3>2, <3>3 DEF Peers, Becomes
    <3> QED BY <3>1, <3>4
  <2>4. /\ reg' \in [Peer -> Records] /\ \A q \in Peer : q # p => reg'[q] = reg[q]
        /\ reg'[p].inc = peer[p].inc /\ reg'[p].state = "alive"
    BY <1>1, AliveIs, Before DEF Heartbeat
  <2>5. DirectoryTypes' /\ PeerTypes'
    BY <2>3, <2>4, Before DEF Heartbeat, DirectoryTypes, PeerTypes, Becomes
  <2>6. ~again => reg[p].inc = peer[p].inc /\ reg[p].state = "alive"
    BY <1>1, <2>2, Before DEF Heartbeat, Fresh, PeerOK, InTouch
  <2>7. PeerOK(p)'
    <3>1. CASE again
      BY <2>3, <2>4, <3>1, Before DEF Heartbeat, PeerOK, InTouch, Becomes
    <3>2. CASE ~again
      BY <2>2, <2>3, <2>4, <2>6, <3>2, Before DEF Heartbeat, PeerOK, InTouch, Becomes
    <3> QED BY <3>1, <3>2
  <2>8. \A a \in announcing' : EntryOK(a)'
    BY <2>3, EntriesStay DEF Heartbeat, Becomes
  <2>9. p \notin left
    BY Before DEF Heartbeat, Running
  <2> QED BY <2>3, <2>4, <2>5, <2>7, <2>8, <2>9, OnePeer, Before DEF Heartbeat, Becomes, ServiceInv
<1>2. CASE ~Fresh(p, peer[p].inc)
  <2>1. Becomes(p, "join", peer[p].inc + 1, peer[p].needs, peer[p].started, peer[p].todo)
    BY <1>2, AdvancedIs, Before DEF Heartbeat
  <2>2. DirectoryTypes' /\ PeerTypes'
    BY <1>2, <2>1, Before DEF Heartbeat, DirectoryTypes, PeerTypes, Becomes
  <2>3. peer[p].inc <= peer[p].inc + 1 /\ reg[p].inc <= peer[p].inc + 1
    BY Before, SMTT(60)
  <2>4. PeerOK(p)'
    BY <1>2, <2>1, Before DEF Heartbeat, PeerOK, InTouch, Becomes
  <2>5. \A a \in announcing' : EntryOK(a)'
    BY <2>1, EntriesStay DEF Heartbeat, Becomes
  <2>6. p \notin left
    BY Before DEF Heartbeat, Running
  <2> QED BY <1>2, <2>1, <2>2, <2>3, <2>4, <2>5, <2>6, OnePeer, Before DEF Heartbeat, Becomes, ServiceInv
<1> QED BY <1>1, <1>2

\* HeartbeatLate: the Peer gives up and goes on to join with its next incarnation.
LEMMA HeartbeatLateKeeps ==
  ASSUME ServiceInv, NEW p \in Peer, HeartbeatLate(p)
  PROVE ServiceInv'
<1>1. Becomes(p, "join", peer[p].inc + 1, peer[p].needs, peer[p].started, peer[p].todo)
  BY AdvancedIs, Before DEF HeartbeatLate
<1>2. PICK r : r = Late("HEARTBEAT", p, peer[p].inc, NoObject)
  OBVIOUS
<1>3. r \in Requests /\ r.src = p /\ r.inc = peer[p].inc
  BY <1>2, Before DEF Late, Requests
<1>4. DirectoryTypes' /\ PeerTypes'
  BY <1>1, <1>2, <1>3, Before DEF HeartbeatLate, dirVars, DirectoryTypes, PeerTypes, Becomes
<1>5. peer[p].inc <= peer[p].inc + 1 /\ reg[p].inc <= peer[p].inc + 1
  BY Before, SMTT(60)
<1>6. PeerOK(p)'
  BY <1>1, Before DEF HeartbeatLate, dirVars, PeerOK, InTouch, Becomes
<1>7. \A a \in announcing' : EntryOK(a)'
  BY <1>1, EntriesStay DEF HeartbeatLate, dirVars, Becomes
<1>8. p \notin left
  BY Before DEF HeartbeatLate, Running
<1> QED
  BY <1>1, <1>2, <1>3, <1>4, <1>5, <1>6, <1>7, <1>8, OnePeer, Before
     DEF HeartbeatLate, dirVars, Becomes, ServiceInv

\* Stop: the listener is stopped, and the LEAVE comes next.
LEMMA StopKeeps ==
  ASSUME ServiceInv, NEW p \in Peer, Stop(p)
  PROVE ServiceInv'
<1>1. Becomes(p, "leave", peer[p].inc, peer[p].needs, peer[p].started, peer[p].todo)
  BY ToIs, Before DEF Stop, Phases
<1>2. DirectoryTypes' /\ PeerTypes'
  BY <1>1, Before DEF Stop, dirVars, DirectoryTypes, PeerTypes, Becomes
<1>3. PeerOK(p)'
  BY <1>1, Before DEF Stop, dirVars, PeerOK, InTouch, Becomes
<1>4. \A a \in announcing' : EntryOK(a)'
  BY <1>1, EntriesStay DEF Stop, dirVars, Becomes
<1> QED BY <1>1, <1>2, <1>3, <1>4, OnePeer, Before DEF Stop, dirVars, Becomes, ServiceInv, Running

\* Leave: a LEAVE that is accepted leaves a tombstone of the incarnation p ends with.
LEMMA LeaveKeeps ==
  ASSUME ServiceInv, NEW p \in Peer, Leave(p)
  PROVE ServiceInv'
<1>1. Becomes(p, "off", peer[p].inc, FALSE, FALSE, {})
  BY ExitIs, Before DEF Leave
<1>2. PeerOK(p)'
  BY <1>1 DEF PeerOK, InTouch, Becomes
<1>3. \A a \in announcing' : EntryOK(a)'
  BY <1>1, EntriesStay DEF Leave, Becomes
<1>4. p \notin left
  BY Before DEF Leave, Running
<1>5. CASE MayLeave(p, peer[p].inc)
  <2>1. Leaves(p) /\ left' = left \cup {p} /\ peer[p].inc = reg[p].inc
    BY <1>5 DEF Leave, MayLeave
  <2>2. DirectoryTypes' /\ PeerTypes'
    BY <1>1, <2>1, LeavesIs, Before DEF Leave, DirectoryTypes, PeerTypes, Becomes
  <2> QED
    BY <1>1, <1>2, <1>3, <2>1, <2>2, LeavesIs, OnePeer, Before DEF Leave, Becomes, ServiceInv, Running
<1>6. CASE ~MayLeave(p, peer[p].inc)
  <2>1. DirectoryTypes' /\ PeerTypes'
    BY <1>1, <1>6, Before DEF Leave, DirectoryTypes, PeerTypes, Becomes
  <2> QED BY <1>1, <1>2, <1>3, <1>4, <1>6, <2>1, OnePeer, Before DEF Leave, Becomes, ServiceInv
<1> QED BY <1>5, <1>6

\* LeaveLate: the process ends; the request remains.
LEMMA LeaveLateKeeps ==
  ASSUME ServiceInv, NEW p \in Peer, LeaveLate(p)
  PROVE ServiceInv'
<1>1. Becomes(p, "off", peer[p].inc, FALSE, FALSE, {})
  BY ExitIs, Before DEF LeaveLate
<1>2. PICK r : r = Late("LEAVE", p, peer[p].inc, NoObject)
  OBVIOUS
<1>3. r \in Requests /\ r.src = p /\ r.inc = peer[p].inc
  BY <1>2, Before DEF Late, Requests
<1>4. DirectoryTypes' /\ PeerTypes'
  BY <1>1, <1>2, <1>3, Before DEF LeaveLate, dirVars, DirectoryTypes, PeerTypes, Becomes
<1>5. PeerOK(p)'
  BY <1>1 DEF PeerOK, InTouch, Becomes
<1>6. \A a \in announcing' : EntryOK(a)'
  BY <1>1, EntriesStay DEF LeaveLate, dirVars, Becomes
<1>7. p \notin left
  BY Before DEF LeaveLate, Running
<1> QED
  BY <1>1, <1>2, <1>3, <1>4, <1>5, <1>6, <1>7, OnePeer, Before DEF LeaveLate, dirVars, Becomes, ServiceInv

\* CrashPeer: nobody waits for the announcements of p any more.
LEMMA CrashPeerKeeps ==
  ASSUME ServiceInv, NEW p \in Peer, CrashPeer(p)
  PROVE ServiceInv'
<1>1. Becomes(p, "off", peer[p].inc, FALSE, FALSE, {})
  BY ExitIs, Before DEF CrashPeer
<1>2. announcing' \subseteq Entries /\ \A a \in announcing' : EntryOK(a)'
  BY <1>1, ForsakenStay DEF CrashPeer, Becomes
<1>3. commit' \in [Holder -> Commits] /\ \A h \in Holder : commit'[h] = commit[h] \/ commit'[h] = NoCommit
  BY Before DEF CrashPeer, PeerTypes, Commits, NoCommit
<1>4. DirectoryTypes' /\ PeerTypes'
  BY <1>1, <1>2, <1>3, Before DEF CrashPeer, DirectoryTypes, PeerTypes, Becomes
<1>5. PeerOK(p)'
  BY <1>1 DEF PeerOK, InTouch, Becomes
<1>6. p \notin left
  BY Before DEF CrashPeer
<1> QED BY <1>1, <1>2, <1>3, <1>4, <1>5, <1>6, OnePeer, Before DEF CrashPeer, Becomes, ServiceInv

----------------------------------------------------------------------------
(* The record of a Peer *)

\* Detect: the record fails, and p owns nothing.
LEMMA DetectKeeps ==
  ASSUME ServiceInv, NEW p \in Peer, Detect(p), UNCHANGED peerVars
  PROVE ServiceInv'
<1>1. /\ reg' \in [Peer -> Records] /\ \A q \in Peer : q # p => reg'[q] = reg[q]
      /\ reg'[p].inc = reg[p].inc /\ reg'[p].state = "failed"
      /\ avail' \in [Object -> SUBSET Holder]
      /\ \A o \in Object, h \in Holder : h # p => (h \in avail'[o] <=> h \in avail[o])
  BY Before DEF Detect, DirectoryTypes, Records, States, metadata_remove_peer
<1>2. DirectoryTypes' /\ PeerTypes'
  BY <1>1, Before DEF Detect, peerVars, DirectoryTypes, PeerTypes
<1>3. PeerOK(p)'
  BY <1>1, Before DEF Detect, peerVars, PeerOK, InTouch
<1>4. \A a \in announcing' : EntryOK(a)'
  BY EntriesStay DEF Detect, peerVars
<1>5. p \notin left
  BY Before DEF Detect
<1> QED BY <1>1, <1>2, <1>3, <1>4, <1>5, OnePeer, Before DEF Detect, peerVars, ServiceInv

\* Bury: a record that has failed becomes a tombstone.
LEMMA BuryKeeps ==
  ASSUME ServiceInv, NEW p \in Peer, Bury(p), UNCHANGED peerVars
  PROVE ServiceInv'
<1>1. /\ reg' \in [Peer -> Records] /\ \A q \in Peer : q # p => reg'[q] = reg[q]
      /\ reg'[p].inc = reg[p].inc /\ reg'[p].state = "removed"
  BY Before DEF Bury, DirectoryTypes, Records, States
<1>2. DirectoryTypes' /\ PeerTypes'
  BY <1>1, Before DEF Bury, peerVars, DirectoryTypes, PeerTypes
<1>3. PeerOK(p)'
  BY <1>1, Before DEF Bury, peerVars, PeerOK, InTouch
<1>4. \A a \in announcing' : EntryOK(a)'
  BY EntriesStay DEF Bury, peerVars
<1>5. p \notin left
  BY Before DEF Bury
<1> QED BY <1>1, <1>2, <1>3, <1>4, <1>5, OnePeer, Before DEF Bury, peerVars, ServiceInv

\* HandleLate: a late JOIN or heartbeat changes nothing for a Peer in touch and does not
\* bring back one that has left; nobody waits for a late announcement; a late LEAVE of the
\* last incarnation leaves a tombstone.
LEMMA HandleLateKeeps ==
  ASSUME ServiceInv, NEW r \in late, HandleLate(r)
  PROVE ServiceInv'
<1> DEFINE p == r.src
<1>1. r \in Requests /\ p \in Peer /\ r.inc \in Nat /\ r.inc <= peer[p].inc
  BY DEF ServiceInv, PeerTypes, Requests, GoneInv
<1>2. late' \subseteq late /\ UNCHANGED <<up, epoch, log, peer, stored, commit, acked>>
  BY DEF HandleLate
<1> HIDE DEF p
<1>3. \A x, y \in Nat : x <= y /\ x >= y => x = y
  BY SMTT(60)
<1>4. \A x, y \in Nat : x <= y => ~(x > y)
  BY SMTT(60)
<1>5. ASSUME Alive(p, r.inc), MayJoin(p, r.inc) \/ Fresh(p, r.inc), UNCHANGED <<avail, announcing, left>>
      PROVE ServiceInv'
  <2>1. /\ reg' \in [Peer -> Records] /\ \A q \in Peer : q # p => reg'[q] = reg[q]
        /\ reg'[p].inc = r.inc /\ reg'[p].state = "alive"
    BY <1>1, <1>5, AliveIs, Before
  <2>2. DirectoryTypes' /\ PeerTypes'
    BY <1>1, <1>2, <1>5, <2>1, Before DEF DirectoryTypes, PeerTypes
  <2>3. InTouch(p) => r.inc = peer[p].inc /\ reg[p].state = "alive"
    BY <1>1, <1>3, <1>4, <1>5, Before DEF MayJoin, Fresh, PeerOK, States
  <2>4. p \notin left
    BY <1>1, <1>4, <1>5, Before DEF MayJoin, Fresh, Known
  <2>5. PeerOK(p)'
    BY <1>1, <1>2, <1>5, <2>1, <2>3, Before DEF PeerOK, InTouch
  <2>6. \A a \in announcing' : EntryOK(a)'
    BY <1>1, <1>2, <1>5, EntriesStay
  <2> QED BY <1>1, <1>2, <1>5, <2>1, <2>2, <2>4, <2>5, <2>6, OnePeer, Before DEF ServiceInv
<1>6. ASSUME r.type = "ANNOUNCE", UNCHANGED <<reg, avail, left>>,
             announcing' = announcing \cup {Entry(p, r.obj, "control", FALSE)}
      PROVE ServiceInv'
  <2>1. PICK e : e = Entry(p, r.obj, "control", FALSE)
    OBVIOUS
  <2>2. e \in Entries /\ e.step = "checked" /\ e.wait = FALSE
    BY <1>1, <1>6, <2>1 DEF Entry, Entries, Requests, Holder
  <2>3. announcing' = announcing \cup {e}
    BY <1>6, <2>1
  <2>4. DirectoryTypes' /\ PeerTypes'
    BY <1>1, <1>2, <1>6, <2>2, <2>3, Before DEF DirectoryTypes, PeerTypes
  <2>5. PeerOK(p)'
    BY <1>1, <1>2, <1>6, Before DEF PeerOK, InTouch
  <2>6. \A a \in announcing' : EntryOK(a)'
    BY <1>2, <2>2, <2>3 DEF ServiceInv, OfferInv, EntryOK, Waits
  <2> QED BY <1>1, <1>2, <1>6, <2>4, <2>5, <2>6, OnePeer, Before DEF ServiceInv, Running
<1>7. ASSUME MayLeave(p, r.inc), Leaves(p), UNCHANGED announcing,
             left' = IF r.inc = peer[p].inc /\ ~Running(p) THEN left \cup {p} ELSE left
      PROVE ServiceInv'
  <2>1. r.inc = reg[p].inc /\ p \notin left
    BY <1>1, <1>7, Before DEF MayLeave, Known
  <2>2. /\ reg' \in [Peer -> Records] /\ \A q \in Peer : q # p => reg'[q] = reg[q]
        /\ reg'[p].inc = reg[p].inc /\ reg'[p].state = "removed"
        /\ avail' \in [Object -> SUBSET Holder]
        /\ \A o \in Object, h \in Holder : h # p => (h \in avail'[o] <=> h \in avail[o])
    BY <1>1, <1>7, LeavesIs, Before
  <2>3. DirectoryTypes' /\ PeerTypes'
    BY <1>1, <1>2, <1>7, <2>2, Before DEF DirectoryTypes, PeerTypes
  <2>4. PeerOK(p)'
    BY <1>1, <1>2, <2>2, Before DEF PeerOK, InTouch
  <2>5. \A a \in announcing' : EntryOK(a)'
    BY <1>1, <1>2, <1>7, EntriesStay
  <2> QED BY <1>1, <1>2, <1>7, <2>1, <2>2, <2>3, <2>4, <2>5, OnePeer, Before DEF ServiceInv, Running
<1> QED BY <1>5, <1>6, <1>7 DEF HandleLate, p

----------------------------------------------------------------------------
(* The steps that leave the records alone *)

\* A step that changes no record and adds to logs, stores and directory keeps the
\* invariant if what it acknowledges is stored, logged and offered.
LEMMA SameRecords ==
  ASSUME ServiceInv, DirectoryTypes', PeerTypes',
         UNCHANGED <<up, reg, left>>,
         \A q \in Peer : \/ peer'[q] = peer[q]
                         \/ PeerOK(q)' /\ peer'[q].inc = peer[q].inc /\ q \notin left,
         log \subseteq log',
         \A h \in Holder : stored[h] \subseteq stored'[h],
         \A o \in Object : avail[o] \subseteq avail'[o],
         \A h \in Holder : \/ commit'[h] = commit[h] \/ commit'[h] = NoCommit
                           \/ commit'[h].obj \in stored'[h],
         \A h \in Holder : \A o \in acked'[h] :
            o \in acked[h] \/ (o \in stored'[h] /\ <<o, h>> \in log' /\ h \in avail'[o]),
         \A r \in late' : r \in late \/ r.inc <= peer[r.src].inc,
         \A a \in announcing' : EntryOK(a)'
  PROVE ServiceInv'
<1>1. \A q \in Peer : peer'[q].inc = peer[q].inc
  OBVIOUS
<1>2. GoneInv'
  <2>1. \A q \in Peer : reg'[q].inc <= peer'[q].inc
    BY <1>1 DEF ServiceInv, GoneInv
  <2>2. \A r \in late' : r.src \in Peer
    BY DEF PeerTypes, Requests
  <2>3. \A r \in late' : r.inc <= peer'[r.src].inc
    BY <1>1, <2>2 DEF ServiceInv, GoneInv
  <2>4. \A q \in left' : ~Running(q)' /\ reg'[q].inc = peer'[q].inc /\ reg'[q].state = "removed"
    <3>1. left \subseteq Peer
      BY DEF ServiceInv, PeerTypes
    <3> QED BY <3>1 DEF ServiceInv, GoneInv, Running
  <2> QED BY <2>1, <2>3, <2>4 DEF GoneInv
<1>3. \A h \in Holder : HolderOK(h)'
  <2> SUFFICES ASSUME NEW h \in Holder PROVE HolderOK(h)'
    OBVIOUS
  <2>1. HolderOK(h)
    BY DEF ServiceInv, OfferInv
  <2> QED BY <2>1 DEF HolderOK
<1>4. \A q \in Peer : PeerOK(q)'
  <2> SUFFICES ASSUME NEW q \in Peer, peer'[q] = peer[q] PROVE PeerOK(q)'
    OBVIOUS
  <2>1. PeerOK(q) /\ q \in Holder
    BY DEF ServiceInv, OfferInv, Holder
  <2>2. acked[q] \subseteq Object
    BY <2>1 DEF ServiceInv, PeerTypes
  <2> QED BY <2>1, <2>2 DEF PeerOK, InTouch
<1>5. up' => \A o \in acked'[Self] : Self \in avail'[o]
  <2>1. Self \in Holder
    BY DEF Holder
  <2>2. acked[Self] \subseteq Object
    BY <2>1 DEF ServiceInv, PeerTypes
  <2> QED BY <2>1, <2>2 DEF ServiceInv, OfferInv
<1> QED BY <1>2, <1>3, <1>4, <1>5 DEF ServiceInv, OfferInv

\* What the proofs about an announcement begin with.
LEMMA BeforeEntry ==
  ASSUME ServiceInv, NEW a \in announcing
  PROVE /\ DirectoryTypes /\ PeerTypes /\ EntryOK(a)
        /\ a \in Entries /\ a.src \in Holder /\ a.obj \in Object
        /\ \A b \in announcing : EntryOK(b)
<1>1. a \in Entries
  BY DEF ServiceInv, DirectoryTypes
<1> QED BY <1>1 DEF ServiceInv, OfferInv, Entries

\* Submit: the entry is in the log before it is applied.
LEMMA SubmitKeeps ==
  ASSUME ServiceInv, NEW a \in announcing, Submit(a), UNCHANGED peerVars
  PROVE ServiceInv'
<1>1. PICK b : b = [a EXCEPT !.step = "logged"]
  OBVIOUS
<1>2. /\ b \in Entries /\ b.src = a.src /\ b.obj = a.obj /\ b.thread = a.thread
      /\ b.step = "logged" /\ b.wait = a.wait
  BY <1>1, BeforeEntry DEF Entries
<1>3. announcing' = (announcing \ {a}) \cup {b} /\ log' = log \cup {<<a.obj, a.src>>}
  BY <1>1 DEF Submit
<1>4. DirectoryTypes' /\ PeerTypes'
  <2>1. <<a.obj, a.src>> \in Object \X Holder
    BY BeforeEntry, SMTT(60)
  <2> QED BY <1>2, <1>3, <2>1, BeforeEntry DEF Submit, peerVars, DirectoryTypes, PeerTypes
<1>5. Waits(b) <=> Waits(a)
  BY <1>2 DEF Waits
<1>6. EntryOK(b)'
  BY <1>2, <1>3, <1>5, BeforeEntry DEF peerVars, EntryOK
<1>7. ASSUME NEW c \in announcing, c # a PROVE EntryOK(c)'
  BY <1>2, <1>3, <1>5, <1>7, BeforeEntry DEF peerVars, EntryOK
<1>8. \A c \in announcing' : EntryOK(c)'
  BY <1>3, <1>6, <1>7
<1> QED BY <1>3, <1>4, <1>8, SameRecords DEF Submit, peerVars

\* An announcement that ends is no longer under way; the others do not change.
LEMMA EntryEnds ==
  ASSUME ServiceInv, NEW a \in announcing,
         announcing' = announcing \ {a}, UNCHANGED <<log, stored>>,
         \A q \in Peer : peer'[q] = peer[q] \/ (Waits(a) /\ q = a.src)
  PROVE \A c \in announcing' : EntryOK(c)'
BY BeforeEntry DEF EntryOK

\* Announced: the document is offered when its owner learns that it is.
LEMMA AnnouncedKeeps ==
  ASSUME ServiceInv, NEW a \in announcing, Announced(a)
  PROVE ServiceInv'
<1>1. /\ a.step = "logged" /\ announcing' = announcing \ {a}
      /\ avail' = [avail EXCEPT ![a.obj] = @ \cup {a.src}]
      /\ UNCHANGED <<up, epoch, reg, log, stored, left, late>> /\ Told(a)
  BY DEF Announced, Apply, metadata_announce
<1>2. /\ avail' \in [Object -> SUBSET Holder] /\ a.src \in avail'[a.obj]
      /\ \A o \in Object : avail[o] \subseteq avail'[o]
  BY <1>1, BeforeEntry DEF DirectoryTypes
<1>3. DirectoryTypes'
  BY <1>1, <1>2, BeforeEntry DEF DirectoryTypes
<1>4. <<a.obj, a.src>> \in log /\ (a.wait => a.obj \in stored[a.src])
  BY <1>1, BeforeEntry DEF EntryOK
<1>5. CASE ~a.wait
  <2>1. UNCHANGED <<peer, commit, acked>>
    BY <1>1, <1>5 DEF Told
  <2>2. PeerTypes'
    BY <1>1, <2>1, BeforeEntry DEF PeerTypes
  <2>3. \A c \in announcing' : EntryOK(c)'
    BY <1>1, <2>1, EntryEnds
  <2> QED BY <1>1, <1>2, <1>3, <2>1, <2>2, <2>3, SameRecords
<1>6. CASE a.wait
  <2>1. acked' = [acked EXCEPT ![a.src] = @ \cup {a.obj}]
    BY <1>1, <1>6 DEF Told
  <2>2. acked' \in [Holder -> SUBSET Object]
    BY <2>1, BeforeEntry DEF PeerTypes
  <2>3. \A h \in Holder : \A o \in acked'[h] :
           o \in acked[h] \/ (o \in stored'[h] /\ <<o, h>> \in log' /\ h \in avail'[o])
    BY <1>1, <1>2, <1>4, <1>6, <2>1, BeforeEntry DEF PeerTypes
  <2>4. CASE a.thread = "control"
    <3>1. /\ peer' = [peer EXCEPT ![a.src].phase = "announce", ![a.src].todo = @ \ {a.obj}]
          /\ UNCHANGED commit
      BY <1>1, <1>6, <2>4 DEF Told
    <3>2. PICK p \in Peer : p = a.src /\ peer[p].phase = "wait" /\ p \notin left
      BY <1>6, <2>4, Before, BeforeEntry DEF EntryOK, Waits, Running
    <3>3. Becomes(p, "announce", peer[p].inc, peer[p].needs, peer[p].started, peer[p].todo \ {a.obj})
      BY <3>1, <3>2, Before DEF PeerTypes, Peers, Phases, Becomes
    <3>4. PeerTypes'
      BY <1>1, <2>2, <3>1, <3>3, BeforeEntry DEF PeerTypes, Becomes
    <3>5. acked[p] \subseteq Object /\ p \in Holder
      BY Before DEF PeerTypes, Holder
    <3>6. PeerOK(p)'
      BY <1>1, <1>2, <2>3, <3>2, <3>3, <3>5, Before DEF PeerOK, InTouch, Becomes
    <3>7. \A c \in announcing' : EntryOK(c)'
      BY <1>1, <1>6, <2>4, <3>2, <3>3, EntryEnds DEF Waits, Becomes
    <3> QED BY <1>1, <1>2, <1>3, <2>3, <3>1, <3>2, <3>3, <3>4, <3>6, <3>7, SameRecords DEF Becomes
  <2>5. CASE a.thread # "control"
    <3>1. commit' = [commit EXCEPT ![a.src] = NoCommit] /\ UNCHANGED peer
      BY <1>1, <1>6, <2>5 DEF Told
    <3>2. PeerTypes'
      BY <1>1, <2>2, <3>1, BeforeEntry DEF PeerTypes, Commits, NoCommit
    <3>3. \A h \in Holder : commit'[h] = commit[h] \/ commit'[h] = NoCommit
      BY <3>1, BeforeEntry DEF PeerTypes
    <3>4. \A c \in announcing' : EntryOK(c)'
      BY <1>1, <3>1, EntryEnds
    <3> QED BY <1>1, <1>2, <1>3, <2>3, <3>1, <3>2, <3>3, <3>4, SameRecords
  <2> QED BY <2>4, <2>5
<1> QED BY <1>5, <1>6

\* Unannounced: the owner learns that the announcement has failed.
LEMMA UnannouncedKeeps ==
  ASSUME ServiceInv, NEW a \in announcing, Unannounced(a)
  PROVE ServiceInv'
<1>1. /\ announcing' = announcing \ {a} /\ ToldError(a)
      /\ UNCHANGED <<up, epoch, reg, avail, log, stored, acked, left, late>>
  BY DEF Unannounced, SubmitFails
<1>2. DirectoryTypes'
  BY <1>1, BeforeEntry DEF DirectoryTypes
<1>3. CASE ~a.wait
  <2>1. UNCHANGED <<peer, commit>>
    BY <1>1, <1>3 DEF ToldError
  <2>2. PeerTypes'
    BY <1>1, <2>1, BeforeEntry DEF PeerTypes
  <2>3. \A c \in announcing' : EntryOK(c)'
    BY <1>1, <2>1, EntryEnds
  <2> QED BY <1>1, <1>2, <2>1, <2>2, <2>3, SameRecords
<1>4. CASE a.wait /\ a.thread = "control"
  <2>1. CatalogFailed(a.src) /\ UNCHANGED commit
    BY <1>1, <1>4 DEF ToldError
  <2>2. PICK p \in Peer : p = a.src /\ peer[p].phase = "wait" /\ p \notin left
    BY <1>4, Before, BeforeEntry DEF EntryOK, Waits, Running
  <2>3. Becomes(p, IF peer[p].started THEN "idle" ELSE "leave", peer[p].inc, peer[p].started,
                peer[p].started, {})
    BY <2>1, <2>2, CatalogFailedIs, Before
  <2>4. PeerTypes'
    BY <1>1, <2>1, <2>3, BeforeEntry DEF PeerTypes, Becomes
  <2>5. PeerOK(p)'
    BY <1>1, <2>3, Before DEF PeerOK, InTouch, Becomes
  <2>6. \A c \in announcing' : EntryOK(c)'
    BY <1>1, <1>4, <2>2, <2>3, EntryEnds DEF Waits, Becomes
  <2> QED BY <1>1, <1>2, <2>1, <2>2, <2>3, <2>4, <2>5, <2>6, SameRecords DEF Becomes
<1>5. CASE a.wait /\ a.thread # "control"
  <2>1. commit' = [commit EXCEPT ![a.src] = NoCommit] /\ UNCHANGED peer
    BY <1>1, <1>5 DEF ToldError
  <2>2. PeerTypes'
    BY <1>1, <2>1, BeforeEntry DEF PeerTypes, Commits, NoCommit
  <2>3. \A h \in Holder : commit'[h] = commit[h] \/ commit'[h] = NoCommit
    BY <2>1, BeforeEntry DEF PeerTypes
  <2>4. \A c \in announcing' : EntryOK(c)'
    BY <1>1, <2>1, EntryEnds
  <2> QED BY <1>1, <1>2, <2>1, <2>2, <2>3, <2>4, SameRecords
<1> QED BY <1>3, <1>4, <1>5

\* UploadCommit: the document is stored before it is announced.
LEMMA UploadCommitKeeps ==
  ASSUME ServiceInv, UploadTypes, NEW c \in Upload, UploadCommit(c)
  PROVE ServiceInv'
<1>1. PICK h \in Holder, o \in Object :
        /\ stored' = [stored EXCEPT ![h] = @ \cup {o}]
        /\ commit' = [commit EXCEPT ![h] = [obj |-> o, sent |-> FALSE]]
  BY DEF UploadCommit, UploadTypes, Uploads
<1>2. UNCHANGED <<up, epoch, reg, avail, log, announcing, peer, acked, left, late>>
  BY DEF UploadCommit, dirVars
<1>3. DirectoryTypes /\ PeerTypes
  BY DEF ServiceInv
<1>4. /\ stored' \in [Holder -> SUBSET Object] /\ \A g \in Holder : stored[g] \subseteq stored'[g]
      /\ o \in stored'[h]
  BY <1>1, <1>3 DEF PeerTypes
<1>5. commit' \in [Holder -> Commits] /\ \A g \in Holder : commit'[g] = commit[g] \/ (g = h /\ commit'[g].obj = o)
  BY <1>1, <1>3 DEF PeerTypes, Commits
<1>6. DirectoryTypes' /\ PeerTypes'
  BY <1>2, <1>3, <1>4, <1>5 DEF DirectoryTypes, PeerTypes
<1>7. \A a \in announcing' : EntryOK(a)'
  <2>1. \A a \in announcing : a.src \in Holder /\ EntryOK(a)
    BY BeforeEntry
  <2> QED BY <1>2, <1>4, <2>1 DEF EntryOK
<1> QED BY <1>2, <1>4, <1>5, <1>6, <1>7, SameRecords

\* CommitAnnounce: what the handler announces is stored.
LEMMA CommitAnnounceKeeps ==
  ASSUME ServiceInv, NEW h \in Holder, CommitAnnounce(h)
  PROVE ServiceInv'
<1>1. UNCHANGED <<up, epoch, reg, avail, log, peer, stored, acked, left, late>>
  BY DEF CommitAnnounce
<1>2. PICK o \in Object : o = commit[h].obj /\ o \in stored[h]
  BY DEF ServiceInv, OfferInv, HolderOK, CommitAnnounce, PeerTypes
<1>3. DirectoryTypes /\ PeerTypes
  BY DEF ServiceInv
<1>4. CASE superpeer_is_registered(h)
  <2>1. PICK e : e = Entry(h, o, "upload", TRUE)
    OBVIOUS
  <2>2. e \in Entries /\ e.src = h /\ e.obj = o /\ e.step = "checked" /\ e.thread = "upload"
    BY <1>2, <2>1 DEF Entry, Entries
  <2>3. announcing' = announcing \cup {e} /\ commit' = [commit EXCEPT ![h].sent = TRUE]
    BY <1>2, <1>4, <2>1 DEF CommitAnnounce
  <2>4. commit' \in [Holder -> Commits] /\ \A g \in Holder : commit'[g] = commit[g] \/ (g = h /\ commit'[g].obj = o)
    BY <1>2, <1>3, <2>3 DEF PeerTypes, Commits
  <2>5. DirectoryTypes' /\ PeerTypes'
    BY <1>1, <1>3, <2>2, <2>3, <2>4 DEF DirectoryTypes, PeerTypes
  <2>6. \A a \in announcing' : EntryOK(a)'
    <3>1. EntryOK(e)'
      BY <1>1, <1>2, <2>2 DEF EntryOK, Waits
    <3>2. ASSUME NEW a \in announcing PROVE EntryOK(a)'
      BY <1>1, <2>2, <2>3, BeforeEntry DEF EntryOK, Waits
    <3> QED BY <2>3, <3>1, <3>2
  <2> QED BY <1>1, <1>2, <2>4, <2>5, <2>6, SameRecords
<1>5. CASE ~superpeer_is_registered(h)
  <2>1. commit' = [commit EXCEPT ![h] = NoCommit] /\ UNCHANGED announcing
    BY <1>5 DEF CommitAnnounce
  <2>2. DirectoryTypes' /\ PeerTypes'
    BY <1>1, <1>3, <2>1 DEF DirectoryTypes, PeerTypes, Commits, NoCommit
  <2>3. \A g \in Holder : commit'[g] = commit[g] \/ commit'[g] = NoCommit
    BY <1>3, <2>1 DEF PeerTypes
  <2>4. \A a \in announcing' : EntryOK(a)'
    BY <1>1, <2>1, BeforeEntry DEF EntryOK
  <2> QED BY <1>1, <2>2, <2>3, <2>4, SameRecords
<1> QED BY <1>4, <1>5

\* CommitFails: the handler gives up, and its request may remain.
LEMMA CommitFailsKeeps ==
  ASSUME ServiceInv, NEW h \in Holder, CommitFails(h)
  PROVE ServiceInv'
<1>1. /\ UNCHANGED <<up, epoch, reg, avail, log, peer, stored, acked, left>>
      /\ announcing' = Forsaken(h, {"upload"}) /\ commit' = [commit EXCEPT ![h] = NoCommit]
      /\ h \in Peer
  BY DEF CommitFails, Holder
<1>2. PICK o \in Object : o = commit[h].obj
  BY DEF ServiceInv, OfferInv, HolderOK, CommitFails, PeerTypes
<1>3. PICK r : r = Late("ANNOUNCE", h, peer[h].inc, o)
  OBVIOUS
<1>4. r \in Requests /\ r.src = h /\ r.inc = peer[h].inc
  BY <1>1, <1>2, <1>3, Before DEF Late, Requests
<1>5. late' \subseteq late \cup {r}
  BY <1>2, <1>3 DEF CommitFails
<1>6. announcing' \subseteq Entries /\ \A a \in announcing' : EntryOK(a)'
  BY <1>1, ForsakenStay
<1>7. commit' \in [Holder -> Commits] /\ \A g \in Holder : commit'[g] = commit[g] \/ commit'[g] = NoCommit
  BY <1>1, Before DEF PeerTypes, Commits, NoCommit
<1>8. DirectoryTypes' /\ PeerTypes'
  BY <1>1, <1>4, <1>5, <1>6, <1>7, Before DEF DirectoryTypes, PeerTypes
<1>9. \A q \in late' : q \in late \/ q.inc <= peer[q.src].inc
  BY <1>1, <1>4, <1>5, Before
<1> QED BY <1>1, <1>6, <1>7, <1>8, <1>9, SameRecords

----------------------------------------------------------------------------
(* The Super Peer *)

\* SuperPeerDies: the directory and the announcements under way are lost.
LEMMA SuperPeerDiesKeeps ==
  ASSUME ServiceInv, SuperPeerDies
  PROVE ServiceInv'
<1>1. /\ up' = FALSE /\ announcing' = {} /\ avail' = [o \in Object |-> {}]
      /\ UNCHANGED <<epoch, reg, log, peer, stored, acked, left, late>>
      /\ commit' = [commit EXCEPT ![Self] = NoCommit]
  BY DEF SuperPeerDies, CrashSuperPeer
<1>2. DirectoryTypes /\ PeerTypes /\ GoneInv /\ OfferInv
  BY DEF ServiceInv
<1>3. commit' \in [Holder -> Commits] /\ \A h \in Holder : commit'[h] = commit[h] \/ commit'[h] = NoCommit
  BY <1>1, <1>2 DEF PeerTypes, Commits, NoCommit
<1>4. DirectoryTypes' /\ PeerTypes'
  BY <1>1, <1>2, <1>3 DEF DirectoryTypes, PeerTypes
<1>5. GoneInv'
  BY <1>1, <1>2 DEF GoneInv, Running
<1>6. OfferInv'
  BY <1>1, <1>2, <1>3 DEF OfferInv, HolderOK, PeerOK, InTouch
<1> QED BY <1>4, <1>5, <1>6 DEF ServiceInv

\* StartSuperPeer: the replay of the log offers all that was ever acknowledged.
LEMMA StartSuperPeerKeeps ==
  ASSUME ServiceInv, StartSuperPeer, UNCHANGED peerVars
  PROVE ServiceInv'
<1>1. /\ up' = TRUE /\ avail' = [o \in Object |-> {h \in Holder : <<o, h>> \in log}]
      /\ epoch' = epoch + 1
      /\ UNCHANGED <<announcing, reg, log, peer, stored, acked, left, late, commit>>
  BY DEF StartSuperPeer, peerVars
<1>2. DirectoryTypes /\ PeerTypes /\ GoneInv /\ OfferInv
  BY DEF ServiceInv
<1>3. \A n \in Nat : n + 1 \in Nat
  BY SMTT(60)
<1>4. DirectoryTypes' /\ PeerTypes'
  BY <1>1, <1>2, <1>3 DEF DirectoryTypes, PeerTypes
<1>5. GoneInv'
  BY <1>1, <1>2 DEF GoneInv, Running
<1>6. ASSUME NEW h \in Holder, NEW o \in acked[h] PROVE h \in avail'[o]
  <2>1. o \in Object /\ <<o, h>> \in log
    BY <1>2 DEF PeerTypes, OfferInv, HolderOK
  <2> QED BY <1>1, <2>1
<1>7. \A p \in Peer : PeerOK(p)'
  BY <1>1, <1>2, <1>6 DEF OfferInv, PeerOK, InTouch, Holder
<1>8. OfferInv'
  BY <1>1, <1>2, <1>6, <1>7 DEF OfferInv, HolderOK, EntryOK, Holder
<1> QED BY <1>4, <1>5, <1>8 DEF ServiceInv

----------------------------------------------------------------------------
(* The pools of threads, and the uploads *)

\* A new pool, a chunk that is taken, one that is done and one that has failed.
LEMMA PoolTypes ==
  /\ Pool \in Pools
  /\ \A q \in Pools : MayTake(q) => Take(q) \in Pools
  /\ \A q \in Pools, i \in Chunk : Finish(q, i) \in Pools /\ Fail(q, i) \in Pools
<1>1. Pool \in Pools
  <2>1. 0 \in Nat
    BY SMTT(60)
  <2> QED BY <2>1 DEF Pool, Pools
<1>2. ASSUME NEW q \in Pools, MayTake(q) PROVE Take(q) \in Pools
  <2>1. q.next \in Nat
    BY DEF Pools
  <2>2. q.next + 1 \in Nat /\ q.next \in Chunk
    BY <1>2, <2>1, ClientAssumption, SMTT(60) DEF MayTake, Chunk
  <2> QED BY <2>2 DEF Take, Pools
<1>3. ASSUME NEW q \in Pools, NEW i \in Chunk PROVE Finish(q, i) \in Pools
  BY DEF Finish, Pools
<1>4. ASSUME NEW q \in Pools, NEW i \in Chunk PROVE Fail(q, i) \in Pools
  BY <1>3 DEF Fail, Pools
<1> QED BY <1>1, <1>2, <1>3, <1>4

\* SetUpload changes one upload.
LEMMA SetUploadKeeps ==
  ASSUME UploadTypes, NEW c \in Upload, NEW u \in Uploads, SetUpload(c, u),
         u.phase = "send" => u.obj \in Object
  PROVE UploadTypes'
BY DEF UploadTypes, SetUpload

\* An upload that has not begun, or has ended.
LEMMA NoUploadTypes ==
  ASSUME NEW ph \in {"new", "failed", "done"}
  PROVE /\ [NoUpload EXCEPT !.phase = ph] \in Uploads
        /\ [NoUpload EXCEPT !.phase = ph].phase # "send"
<1>1. NoUpload \in Uploads
  BY PoolTypes DEF NoUpload, Uploads, Holder
<1>2. PICK n \in Uploads : n = NoUpload
  BY <1>1
<1>3. PICK u : u = [n EXCEPT !.phase = ph]
  OBVIOUS
<1>4. u \in Uploads /\ u.phase = ph
  BY <1>3 DEF Uploads
<1> QED BY <1>2, <1>3, <1>4

\* Answer ends the upload that waits for it.
LEMMA AnswerKeeps ==
  ASSUME UploadTypes, NEW h, NEW how \in {"failed", "done"}, Answer(h, how)
  PROVE UploadTypes'
<1>1. PICK u \in Uploads : u = [NoUpload EXCEPT !.phase = how] /\ u.phase # "send"
  BY NoUploadTypes
<1>2. ul' = [c \in Upload |-> IF ul[c].phase = "commit" /\ ul[c].to = h THEN u ELSE ul[c]]
  BY <1>1 DEF Answer
<1> QED BY <1>1, <1>2 DEF UploadTypes

\* The steps of an upload keep its type.
LEMMA UploadStepKeeps ==
  ASSUME UploadTypes, NEW c \in Upload, UploadStep(c)
  PROVE UploadTypes'
<1>1. /\ ul[c] \in Uploads /\ ul[c].pool \in Pools /\ ul[c].to \in Holder
      /\ ul[c].obj \in Object \cup {NoObject} /\ (ul[c].phase = "send" => ul[c].obj \in Object)
  BY DEF UploadTypes, Uploads
<1>2. ASSUME NEW h \in Holder, NEW o \in Object, NEW ph \in {"send", "commit"},
             SetUpload(c, [NoUpload EXCEPT !.phase = ph, !.to = h, !.obj = o])
      PROVE UploadTypes'
  <2>1. NoUpload \in Uploads
    BY PoolTypes DEF NoUpload, Uploads, Holder
  <2>2. PICK n \in Uploads : n = NoUpload
    BY <2>1
  <2>3. PICK u : u = [n EXCEPT !.phase = ph, !.to = h, !.obj = o]
    OBVIOUS
  <2>4. u \in Uploads /\ u.obj = o
    BY <2>3 DEF Uploads
  <2> QED BY <1>2, <2>2, <2>3, <2>4, SetUploadKeeps
<1>3. ASSUME NEW q \in Pools, SetUpload(c, [ul[c] EXCEPT !.pool = q]), ul[c].phase = "send"
      PROVE UploadTypes'
  <2>1. PICK u : u = [ul[c] EXCEPT !.pool = q]
    OBVIOUS
  <2>2. u \in Uploads /\ u.obj = ul[c].obj
    BY <1>1, <2>1 DEF Uploads
  <2> QED BY <1>1, <1>3, <2>1, <2>2, SetUploadKeeps
<1>4. ASSUME UploadEnds(c, "failed") PROVE UploadTypes'
  BY <1>4, NoUploadTypes, SetUploadKeeps DEF UploadEnds
<1>5. CASE BeginUpload(c)
  BY <1>2, <1>5 DEF BeginUpload
<1>6. CASE UploadFails(c) \/ UploadGivesUp(c)
  BY <1>4, <1>6 DEF UploadFails, UploadGivesUp
<1>7. CASE UploadCommit(c)
  BY <1>1, <1>2, <1>7 DEF UploadCommit
<1>8. CASE UploadTake(c)
  BY <1>1, <1>3, <1>8, PoolTypes DEF UploadTake
<1>9. ASSUME NEW i \in Chunk, UploadChunk(c, i) \/ UploadChunkFails(c, i) PROVE UploadTypes'
  BY <1>1, <1>3, <1>9, PoolTypes DEF UploadChunk, UploadChunkFails
<1> QED BY <1>5, <1>6, <1>7, <1>8, <1>9 DEF UploadStep

----------------------------------------------------------------------------
(* The downloads *)

\* The phases in which a download has a part file, or may leave it behind.
Held == {"work", "link", "unlink", "cleanup", "killed"}

\* A download that does not begin, or has ended one way or the other.
LEMMA EndedTypes ==
  ASSUME NEW how \in {"new", "owners", "link", "unlink", "sync", "cleanup", "failed", "done", "killed"}
  PROVE Ended(how) \in Downloads /\ Ended(how).phase = how
<1>1. 0 \in Nat
  BY SMTT(60)
<1>2. NoDownload \in Downloads
  BY <1>1, PoolTypes DEF NoDownload, Downloads
<1>3. PICK n \in Downloads : n = NoDownload
  BY <1>2
<1>4. PICK d : d = [n EXCEPT !.phase = how]
  OBVIOUS
<1>5. d \in Downloads /\ d.phase = how
  BY <1>4 DEF Downloads
<1> QED BY <1>3, <1>4, <1>5 DEF Ended

\* A step of a download that moves no file keeps the invariant if it begins to work on the
\* part file only when it has it, and links only what is complete.
LEMMA MovesOn ==
  ASSUME FileTypes, FileInv, NEW c \in Download, NEW d \in Downloads,
         SetDownload(c, d), UNCHANGED <<part, dest, content>>,
         dl[c].phase \in Held => d.phase \in Held,
         d.phase \in {"work", "link", "cleanup"} =>
           dl[c].phase \in {"work", "link", "cleanup"} \/ dest # NoFile,
         d.phase \in {"unlink", "sync"} => dest # NoFile,
         d.phase = "link" => content[c] = Chunk \/ dest # NoFile,
         d.phase \in {"owners", "valid"} => d.obj \in Object
  PROVE FileTypes' /\ FileInv'
<1>1. dl' \in [Download -> Downloads] /\ dl'[c] = d /\ \A b \in Download : b # c => dl'[b] = dl[b]
  BY DEF SetDownload, FileTypes
<1>2. FileTypes'
  BY <1>1 DEF FileTypes
<1>3. part' # NoFile => dl'[part'].phase \in Held
  BY <1>1 DEF FileInv, FileTypes, Held
<1>4. dest' = NoFile => \A b \in Download :
        /\ dl'[b].phase \in {"work", "link", "cleanup"} => part' = b
        /\ dl'[b].phase \notin {"unlink", "sync"}
        /\ dl'[b].phase = "link" => content'[b] = Chunk
  <2> SUFFICES ASSUME dest = NoFile, NEW b \in Download
               PROVE /\ dl'[b].phase \in {"work", "link", "cleanup"} => part = b
                     /\ dl'[b].phase \notin {"unlink", "sync"}
                     /\ dl'[b].phase = "link" => content[b] = Chunk
    OBVIOUS
  <2>1. CASE b = c
    BY <1>1, <2>1 DEF FileInv
  <2>2. CASE b # c
    BY <1>1, <2>2 DEF FileInv
  <2> QED BY <2>1, <2>2
<1> QED BY <1>2, <1>3, <1>4 DEF FileInv, Held

\* A record of a download with another pool.
LEMMA WithPool ==
  ASSUME NEW d \in Downloads, NEW q \in Pools, NEW e, e = [d EXCEPT !.pool = q]
  PROVE e \in Downloads /\ e.phase = d.phase
BY DEF Downloads

\* The steps of a lookup have no file yet.
LEMMA LookupKeeps ==
  ASSUME FileTypes, FileInv, DirectoryTypes, NEW c \in Download,
         \/ BeginDownload(c) \/ ReadOwners(c) \/ ReadValid(c) \/ LookupFails(c) \/ CheckDestination(c)
  PROVE FileTypes' /\ FileInv'
<1>1. UNCHANGED <<part, dest, content>>
  BY DEF BeginDownload, ReadOwners, ReadValid, LookupFails, CheckDestination
<1>2. dl[c].phase \notin Held /\ dl[c] \in Downloads
  BY DEF BeginDownload, ReadOwners, ReadValid, LookupFails, CheckDestination, Held, FileTypes
<1>3. ASSUME NEW d \in Downloads, SetDownload(c, d),
             d.phase \in {"owners", "valid", "found", "open", "failed"},
             d.phase \in {"owners", "valid"} => d.obj \in Object
      PROVE FileTypes' /\ FileInv'
  BY <1>1, <1>2, <1>3, MovesOn
<1>4. ASSUME SetDownload(c, Ended("failed")) PROVE FileTypes' /\ FileInv'
  BY <1>3, <1>4, EndedTypes
<1>5. CASE BeginDownload(c)
  <2>1. PICK o \in Object : SetDownload(c, [NoDownload EXCEPT !.phase = "owners", !.obj = o])
    BY <1>5 DEF BeginDownload
  <2>2. PICK n \in Downloads : n = Ended("owners") /\ n.phase = "owners"
    BY EndedTypes
  <2>3. PICK d : d = [n EXCEPT !.obj = o]
    OBVIOUS
  <2>4. d \in Downloads /\ d.phase = "owners" /\ d.obj = o
    BY <2>2, <2>3 DEF Downloads
  <2>5. d = [NoDownload EXCEPT !.phase = "owners", !.obj = o]
    BY <2>2, <2>3 DEF Ended
  <2> QED BY <1>3, <2>1, <2>4, <2>5
<1>6. CASE ReadOwners(c)
  <2>1. PICK d : d = [dl[c] EXCEPT !.phase = "valid", !.owners = avail[dl[c].obj]]
    OBVIOUS
  <2>2. dl[c].obj \in Object /\ avail[dl[c].obj] \subseteq Holder
    BY <1>6 DEF ReadOwners, FileTypes, DirectoryTypes
  <2>3. d \in Downloads /\ d.phase = "valid" /\ d.obj = dl[c].obj
    BY <1>2, <2>1, <2>2 DEF Downloads
  <2> QED BY <1>3, <1>6, <2>1, <2>2, <2>3 DEF ReadOwners
<1>7. CASE ReadValid(c)
  <2> DEFINE valid == {h \in dl[c].owners : Valid(h)}
             ph == IF dl[c].i + 1 = Chunks THEN "found" ELSE "owners"
  <2>1. valid \subseteq Holder /\ dl[c].i + 1 \in Nat /\ ph \in {"owners", "found"}
    <3>1. dl[c].i \in Nat /\ dl[c].owners \subseteq Holder
      BY <1>2 DEF Downloads
    <3>2. dl[c].i + 1 \in Nat
      BY <3>1, SMTT(60)
    <3> QED BY <3>1, <3>2
  <2>2. PICK d : d = [dl[c] EXCEPT !.loc[dl[c].i] = valid, !.i = @ + 1, !.owners = {}, !.phase = ph]
    OBVIOUS
  <2>3. SetDownload(c, IF valid = {} THEN Ended("failed") ELSE d)
    BY <1>7, <2>2 DEF ReadValid
  <2> HIDE DEF valid, ph
  <2>4. d \in Downloads /\ d.phase = ph /\ d.obj = dl[c].obj
    BY <1>2, <2>1, <2>2 DEF Downloads
  <2>5. dl[c].obj \in Object
    BY <1>7 DEF ReadValid, FileTypes
  <2> QED BY <1>3, <1>4, <2>1, <2>3, <2>4, <2>5
<1>8. CASE LookupFails(c)
  BY <1>4, <1>8 DEF LookupFails
<1>9. CASE CheckDestination(c)
  <2>1. PICK d : d = [dl[c] EXCEPT !.phase = "open"]
    OBVIOUS
  <2>2. d \in Downloads /\ d.phase = "open"
    BY <1>2, <2>1 DEF Downloads
  <2> QED BY <1>3, <1>4, <1>9, <2>1, <2>2 DEF CheckDestination
<1> QED BY <1>5, <1>6, <1>7, <1>8, <1>9

\* The threads of the pool work for a download that has its part file.
LEMMA PoolKeeps ==
  ASSUME FileTypes, FileInv, NEW c \in Download,
         DownloadTake(c) \/ \E i \in Chunk : FetchChunk(c, i) \/ TryFails(c, i) \/ ChunkFails(c, i)
  PROVE FileTypes' /\ FileInv'
<1>1. dl[c].phase = "work" /\ UNCHANGED <<part, dest>>
  BY DEF DownloadTake, FetchChunk, TryFails, ChunkFails
<1>2. dl[c] \in Downloads /\ dl[c].pool \in Pools /\ dl[c].loc \in [Chunk -> SUBSET Holder]
  BY DEF FileTypes, Downloads
<1>3. ASSUME NEW q \in Pools, SetDownload(c, [dl[c] EXCEPT !.pool = q]), UNCHANGED content
      PROVE FileTypes' /\ FileInv'
  <2>1. PICK d : d = [dl[c] EXCEPT !.pool = q]
    OBVIOUS
  <2>2. d \in Downloads /\ d.phase = "work"
    BY <1>1, <1>2, <2>1, WithPool
  <2>3. SetDownload(c, d) /\ dl[c].phase \in {"work", "link", "cleanup"} /\ d.phase \in Held
    BY <1>1, <1>3, <2>1, <2>2 DEF Held
  <2> QED BY <1>1, <1>3, <2>2, <2>3, MovesOn
<1>4. CASE DownloadTake(c)
  BY <1>2, <1>3, <1>4, PoolTypes DEF DownloadTake
<1>5. ASSUME NEW i \in Chunk, TryFails(c, i) PROVE FileTypes' /\ FileInv'
  <2>1. PICK h \in Untried(dl[c], i) : SetDownload(c, [dl[c] EXCEPT !.pool.tried[i] = @ \cup {h}])
    BY <1>5 DEF TryFails
  <2>2. h \in Holder
    BY <1>2, <2>1 DEF Untried
  <2>3. PICK q : q = [dl[c].pool EXCEPT !.tried[i] = @ \cup {h}]
    OBVIOUS
  <2>4. q \in Pools
    BY <1>2, <2>2, <2>3 DEF Pools
  <2>5. SetDownload(c, [dl[c] EXCEPT !.pool = q])
    BY <2>1, <2>3
  <2> QED BY <1>3, <1>5, <2>4, <2>5 DEF TryFails
<1>6. ASSUME NEW i \in Chunk, ChunkFails(c, i) PROVE FileTypes' /\ FileInv'
  BY <1>2, <1>3, <1>6, PoolTypes DEF ChunkFails
<1>7. ASSUME NEW i \in Chunk, FetchChunk(c, i) PROVE FileTypes' /\ FileInv'
  <2>1. PICK q \in Pools : q = Finish(dl[c].pool, i)
    BY <1>2, PoolTypes
  <2>2. PICK d : d = [dl[c] EXCEPT !.pool = q]
    OBVIOUS
  <2>3. d \in Downloads /\ d.phase = "work"
    BY <1>1, <1>2, <2>2, WithPool
  <2>4. dl' = [dl EXCEPT ![c] = d] /\ content' = [content EXCEPT ![c] = @ \cup {i}]
    BY <1>7, <2>1, <2>2 DEF FetchChunk, SetDownload
  <2>5. /\ dl' \in [Download -> Downloads] /\ dl'[c] = d
        /\ \A b \in Download : b # c => dl'[b] = dl[b] /\ content'[b] = content[b]
    BY <2>3, <2>4 DEF FileTypes
  <2>6. FileTypes'
    BY <1>1, <2>3, <2>4, <2>5 DEF FileTypes
  <2>7. FileInv'
    BY <1>1, <2>3, <2>5 DEF FileInv, FileTypes
  <2> QED BY <2>6, <2>7
<1> QED BY <1>4, <1>5, <1>6, <1>7

\* The steps of file_client_download after its threads have ended, and those that end it.
LEMMA FinishKeeps ==
  ASSUME FileTypes, FileInv, NEW c \in Download,
         Verify(c) \/ SyncParent(c) \/ DownloadError(c) \/ KillDownload(c)
  PROVE FileTypes' /\ FileInv'
<1>1. UNCHANGED <<part, dest, content>>
  BY DEF Verify, SyncParent, DownloadError, KillDownload
<1>2. CASE Verify(c)
  <2>1. PICK ph : ph = IF ~ dl[c].pool.failed /\ part # NoFile /\ content[part] = Chunk
                       THEN "link" ELSE "cleanup"
    OBVIOUS
  <2>2. PICK d \in Downloads : d = Ended(ph) /\ d.phase = ph /\ ph \in {"link", "cleanup"}
    BY <2>1, EndedTypes
  <2>3. SetDownload(c, d) /\ dl[c].phase = "work"
    BY <1>2, <2>1, <2>2 DEF Verify, Ended
  <2>4. ph = "link" => content[c] = Chunk \/ dest # NoFile
    BY <2>1, <2>3 DEF FileInv
  <2> QED BY <1>1, <2>2, <2>3, <2>4, MovesOn DEF Held
<1>3. CASE SyncParent(c)
  BY <1>1, <1>3, EndedTypes, MovesOn DEF SyncParent, Held
<1>4. CASE DownloadError(c)
  <2>1. dl[c].phase \in {"work", "link"} \/ dest # NoFile
    BY <1>4 DEF DownloadError, FileInv
  <2>2. PICK d \in Downloads : d = Ended("cleanup") /\ d.phase = "cleanup"
    BY EndedTypes
  <2> QED BY <1>1, <1>4, <2>1, <2>2, MovesOn DEF DownloadError, Held
<1>5. CASE KillDownload(c)
  <2>1. PICK d \in Downloads : d = Ended("killed") /\ d.phase = "killed"
    BY EndedTypes
  <2> QED BY <1>1, <1>5, <2>1, MovesOn DEF KillDownload, Held
<1> QED BY <1>2, <1>3, <1>4, <1>5

\* OpenPart: O_EXCL gives the part file to one download.
LEMMA OpenPartKeeps ==
  ASSUME FileTypes, FileInv, NEW c \in Download, OpenPart(c)
  PROVE FileTypes' /\ FileInv'
<1>1. dl[c].phase = "open" /\ UNCHANGED <<dest, content>>
  BY DEF OpenPart
<1>2. CASE part # NoFile
  <2>1. PICK d \in Downloads : d = Ended("failed") /\ d.phase = "failed"
    BY EndedTypes
  <2> QED BY <1>1, <1>2, <2>1, MovesOn DEF OpenPart, Held
<1>3. CASE part = NoFile
  <2>1. PICK d : d = [dl[c] EXCEPT !.phase = "work"]
    OBVIOUS
  <2>2. dl[c] \in Downloads
    BY DEF FileTypes
  <2>3. d \in Downloads /\ d.phase = "work"
    BY <2>1, <2>2 DEF Downloads
  <2>4. dl' = [dl EXCEPT ![c] = d] /\ part' = c
    BY <1>3, <2>1 DEF OpenPart, SetDownload
  <2>5. dl' \in [Download -> Downloads] /\ dl'[c] = d /\ \A b \in Download : b # c => dl'[b] = dl[b]
    BY <2>3, <2>4 DEF FileTypes
  <2>6. FileTypes'
    BY <1>1, <2>3, <2>4, <2>5 DEF FileTypes
  <2>7. FileInv'
    BY <1>1, <1>3, <2>3, <2>4, <2>5, ClientAssumption DEF FileInv
  <2> QED BY <2>6, <2>7
<1> QED BY <1>2, <1>3

\* Link: the destination gets the part file, and keeps what it has.
LEMMA LinkKeeps ==
  ASSUME FileTypes, FileInv, NEW c \in Download, Link(c)
  PROVE FileTypes' /\ FileInv'
<1>1. dl[c].phase = "link" /\ UNCHANGED <<part, content>>
  BY DEF Link
<1>2. CASE dest = NoFile /\ part # NoFile
  <2>1. PICK d \in Downloads : d = Ended("unlink") /\ d.phase = "unlink"
    BY EndedTypes
  <2>2. dl' = [dl EXCEPT ![c] = d] /\ dest' = part
    BY <1>2, <2>1 DEF Link, SetDownload
  <2>3. dl' \in [Download -> Downloads] /\ dl'[c] = d /\ \A b \in Download : b # c => dl'[b] = dl[b]
    BY <2>2 DEF FileTypes
  <2>4. FileTypes'
    BY <1>1, <2>1, <2>2, <2>3 DEF FileTypes
  <2>5. FileInv'
    BY <1>1, <1>2, <2>1, <2>2, <2>3 DEF FileInv, FileTypes
  <2> QED BY <2>4, <2>5
<1>3. CASE ~(dest = NoFile /\ part # NoFile)
  <2>1. PICK d \in Downloads : d = Ended("cleanup") /\ d.phase = "cleanup"
    BY EndedTypes
  <2> QED BY <1>1, <1>3, <2>1, MovesOn DEF Link, Held
<1> QED BY <1>2, <1>3

\* Unlink and CleanUp remove the part file of a download that is done with it.
LEMMA RemoveKeeps ==
  ASSUME FileTypes, FileInv, NEW c \in Download, Unlink(c) \/ CleanUp(c)
  PROVE FileTypes' /\ FileInv'
<1>1. /\ dl[c].phase = "cleanup" \/ (dl[c].phase = "unlink" /\ dest # NoFile)
      /\ part' = NoFile /\ UNCHANGED <<dest, content>>
  BY DEF Unlink, CleanUp, FileInv
<1>2. PICK d \in Downloads : /\ dl' = [dl EXCEPT ![c] = d]
                             /\ d.phase = "failed" \/ (d.phase = "sync" /\ dest # NoFile)
  BY EndedTypes DEF Unlink, CleanUp, FileInv, SetDownload
<1>3. dl' \in [Download -> Downloads] /\ dl'[c] = d /\ \A b \in Download : b # c => dl'[b] = dl[b]
  BY <1>2 DEF FileTypes
<1>4. FileTypes'
  BY <1>1, <1>2, <1>3 DEF FileTypes
<1>5. FileInv'
  BY <1>1, <1>2, <1>3 DEF FileInv
<1> QED BY <1>4, <1>5

\* Every step of a download keeps the invariant of the files.
LEMMA DownloadStepKeeps ==
  ASSUME FileTypes, FileInv, DirectoryTypes, NEW c \in Download, DownloadStep(c)
  PROVE FileTypes' /\ FileInv'
BY LookupKeeps, PoolKeeps, FinishKeeps, OpenPartKeeps, LinkKeeps, RemoveKeeps DEF DownloadStep

----------------------------------------------------------------------------
(* The theorems *)

ClientInv == ServiceInv /\ UploadTypes /\ FileTypes /\ FileInv

\* The Super Peer has started with its own documents; nobody has joined.
LEMMA InitClient == Init => ClientInv
<1> SUFFICES ASSUME Init PROVE ClientInv
  OBVIOUS
<1>1. /\ 0 \in Nat /\ 1 \in Nat /\ 0 <= 0
  BY SMTT(60)
<1>2. NoRecord \in Records /\ NoRecord.inc = 0
  BY <1>1 DEF NoRecord, Records, States
<1>3. Off \in Peers /\ Off.phase = "off" /\ Off.inc = 0 /\ Off.todo = {}
  BY <1>1 DEF Off, Peers, Phases
<1>4. log \subseteq Object \X Holder /\ \A o \in Stock[Self] : <<o, Self>> \in log
  <2>1. Stock[Self] \subseteq Object /\ log = Stock[Self] \X {Self}
    BY DirectoryAssumption DEF Init, DirectoryInit
  <2> QED BY <2>1, SMTT(60) DEF Holder
<1>5. DirectoryTypes
  BY <1>1, <1>2, <1>4 DEF Init, DirectoryInit, DirectoryTypes, Holder
<1>6. PeerTypes
  BY <1>3, DirectoryAssumption DEF Init, PeerInit, PeerTypes, Holder, Commits, NoCommit
<1>7. GoneInv
  BY <1>1, <1>2, <1>3 DEF Init, DirectoryInit, PeerInit, GoneInv
<1>8. OfferInv
  <2>1. \A h \in Holder : HolderOK(h)
    BY <1>4, DirectoryAssumption DEF Init, PeerInit, HolderOK, Holder
  <2>2. \A p \in Peer : PeerOK(p)
    BY <1>3 DEF Init, PeerInit, PeerOK, InTouch
  <2>3. \A o \in acked[Self] : Self \in avail[o]
    BY DirectoryAssumption DEF Init, PeerInit, DirectoryInit, Holder
  <2>4. announcing = {}
    BY DEF Init, DirectoryInit
  <2> QED BY <2>1, <2>2, <2>3, <2>4 DEF OfferInv
<1>9. UploadTypes
  <2>1. NoUpload \in Uploads /\ NoUpload.phase = "new"
    BY PoolTypes DEF NoUpload, Uploads, Holder
  <2> QED BY <2>1 DEF Init, ClientInit, UploadTypes
<1>10. FileTypes /\ FileInv
  <2>1. NoDownload \in Downloads /\ NoDownload.phase = "new"
    BY <1>1, PoolTypes DEF NoDownload, Downloads
  <2> QED BY <2>1 DEF Init, ClientInit, FileTypes, FileInv
<1> QED BY <1>5, <1>6, <1>7, <1>8, <1>9, <1>10 DEF ClientInv, ServiceInv

\* A step of a download, and most of an upload, leave the service alone.
LEMMA ServiceStays == ServiceInv /\ UNCHANGED <<dirVars, peerVars>> => ServiceInv'
<1> SUFFICES ASSUME ServiceInv, UNCHANGED <<dirVars, peerVars>> PROVE ServiceInv'
  OBVIOUS
<1>1. DirectoryTypes' /\ PeerTypes'
  BY DEF ServiceInv, DirectoryTypes, PeerTypes, dirVars, peerVars
<1>2. \A a \in announcing' : EntryOK(a)'
  BY DEF ServiceInv, OfferInv, EntryOK, dirVars, peerVars
<1> QED BY <1>1, <1>2, SameRecords DEF dirVars, peerVars

\* A step that changes no upload keeps their types.
LEMMA UploadsStay == UploadTypes /\ UNCHANGED ul => UploadTypes'
BY DEF UploadTypes

\* A step that changes no download and no file keeps the invariant of the files.
LEMMA FilesStay == FileTypes /\ FileInv /\ UNCHANGED <<dl, part, dest, content>> => FileTypes' /\ FileInv'
BY DEF FileTypes, FileInv

\* The steps and mishaps of a Peer keep the invariant of the service.
LEMMA PeerKeeps ==
  ASSUME ServiceInv, NEW p \in Peer, PeerStep(p) \/ PeerEvent(p)
  PROVE ServiceInv'
<1>1. CASE PeerStep(p)
  BY <1>1, JoinKeeps, ListCatalogKeeps, AnnounceKeeps, CatalogDoneKeeps, WaitFailsKeeps, HeartbeatKeeps,
     LeaveKeeps DEF PeerStep
<1>2. CASE PeerEvent(p)
  BY <1>2, StartKeeps, JoinLateKeeps, AnnounceLateKeeps, HeartbeatLateKeeps, LeaveLateKeeps, StopKeeps,
     CrashPeerKeeps, DetectKeeps, BuryKeeps, HandleLateKeeps DEF PeerEvent
<1> QED BY <1>1, <1>2

\* Every step keeps the invariant.
LEMMA ClientStep == ClientInv /\ [Next]_vars => ClientInv'
<1> SUFFICES ASSUME ClientInv, [Next]_vars PROVE ClientInv'
  OBVIOUS
<1>1. ServiceInv /\ UploadTypes /\ FileTypes /\ FileInv /\ DirectoryTypes
  BY DEF ClientInv, ServiceInv
<1>2. ASSUME ServiceInv', UNCHANGED clientVars PROVE ClientInv'
  BY <1>1, <1>2, UploadsStay, FilesStay DEF ClientInv, clientVars
<1>3. ASSUME NEW p \in Peer, PeerStep(p) \/ PeerEvent(p) PROVE ClientInv'
  BY <1>1, <1>2, <1>3, PeerKeeps DEF PeerStep, PeerEvent
<1>4. CASE SuperPeerDies
  BY <1>1, <1>2, <1>4, SuperPeerDiesKeeps DEF SuperPeerDies
<1>5. CASE StartSuperPeer /\ UNCHANGED <<peerVars, clientVars>>
  BY <1>1, <1>2, <1>5, StartSuperPeerKeeps
<1>6. ASSUME NEW a \in announcing, Submit(a), UNCHANGED <<peerVars, clientVars>> PROVE ClientInv'
  BY <1>1, <1>2, <1>6, SubmitKeeps
<1>7. ASSUME NEW a \in announcing, Announced(a) \/ Unannounced(a) PROVE ClientInv'
  <2>1. ServiceInv'
    BY <1>1, <1>7, AnnouncedKeeps, UnannouncedKeeps
  <2>2. UploadTypes'
    BY <1>1, <1>7, UploadsStay, AnswerKeeps DEF Announced, Unannounced, Told, ToldError
  <2> QED BY <1>1, <1>7, <2>1, <2>2, FilesStay DEF ClientInv, Announced, Unannounced
<1>8. ASSUME NEW h \in Holder, CommitAnnounce(h) \/ CommitFails(h) PROVE ClientInv'
  <2>1. ServiceInv'
    BY <1>1, <1>8, CommitAnnounceKeeps, CommitFailsKeeps
  <2>2. UploadTypes'
    BY <1>1, <1>8, UploadsStay, AnswerKeeps DEF CommitAnnounce, CommitFails
  <2> QED BY <1>1, <1>8, <2>1, <2>2, FilesStay DEF ClientInv, CommitAnnounce, CommitFails
<1>9. ASSUME NEW c \in Upload, UploadStep(c) PROVE ClientInv'
  <2>1. UploadTypes'
    BY <1>1, <1>9, UploadStepKeeps
  <2>2. UploadCommit(c) \/ UNCHANGED <<dirVars, peerVars>>
    BY <1>9 DEF UploadStep, BeginUpload, UploadFails, UploadGivesUp, UploadTake, UploadChunk, UploadChunkFails
  <2>3. ServiceInv'
    BY <1>1, <2>2, UploadCommitKeeps, ServiceStays
  <2>4. UNCHANGED <<dl, part, dest, content>>
    BY <1>9 DEF UploadStep, BeginUpload, UploadFails, UploadCommit, UploadGivesUp, UploadTake, UploadChunk,
                UploadChunkFails
  <2> QED BY <1>1, <2>1, <2>3, <2>4, FilesStay DEF ClientInv
<1>10. ASSUME NEW c \in Download, DownloadStep(c) PROVE ClientInv'
  <2>1. UNCHANGED <<dirVars, peerVars, ul>>
    BY <1>10 DEF DownloadStep, BeginDownload, ReadOwners, ReadValid, LookupFails, CheckDestination, OpenPart,
       Verify, Link, Unlink, SyncParent, DownloadError, CleanUp, KillDownload, DownloadTake, FetchChunk,
       TryFails, ChunkFails
  <2> QED BY <1>1, <1>10, <2>1, DownloadStepKeeps, ServiceStays, UploadsStay DEF ClientInv
<1>11. CASE UNCHANGED vars
  BY <1>1, <1>2, <1>11, ServiceStays DEF vars
<1> QED
  BY <1>3, <1>4, <1>5, <1>6, <1>7, <1>8, <1>9, <1>10, <1>11 DEF Next, SuperPeerStep

\* Directory, Peers, requests, announcements, uploads, downloads and files keep their
\* types, and the rest of the invariant holds, for any number of Peers, documents, clients,
\* chunks and threads.
THEOREM ClientInvariance == Spec => []ClientInv
BY InitClient, ClientStep, PTL DEF Spec

\* What a registered Peer was acknowledged for is offered by every lookup, whatever
\* crashed, was given up, replayed or handled late: membership_failure and M_LEAVE take a
\* Peer's documents only together with its registration, and it comes back only with a
\* later incarnation, which announces all of them again.
THEOREM AckedAlwaysOffered == Spec => []AckedIsOffered
<1>1. ClientInv => AckedIsOffered
  <2> SUFFICES ASSUME ClientInv, up PROVE
         /\ \A p \in Peer :
              /\ peer[p].phase = "idle" /\ ~ peer[p].needs
              /\ reg[p] = [inc |-> peer[p].inc, state |-> "alive"]
              => \A o \in acked[p] : p \in Offered(o)
         /\ \A o \in acked[Self] : Self \in Offered(o)
    BY DEF AckedIsOffered
  <2>1. ASSUME NEW p \in Peer, peer[p].phase = "idle", ~ peer[p].needs,
               reg[p] = [inc |-> peer[p].inc, state |-> "alive"], NEW o \in acked[p]
        PROVE p \in Offered(o)
    <3>1. reg[p].state = "alive"
      BY <2>1, SMTT(60)
    <3>2. PeerOK(p)
      BY DEF ClientInv, ServiceInv, OfferInv
    <3>3. p \in avail[o]
      BY <2>1, <3>1, <3>2 DEF PeerOK, InTouch
    <3> QED BY <3>1, <3>3 DEF Offered, Valid, superpeer_is_registered
  <2>2. \A o \in acked[Self] : Self \in Offered(o)
    BY DEF ClientInv, ServiceInv, OfferInv, Offered, Valid, superpeer_is_registered
  <2> QED BY <2>1, <2>2
<1> QED BY <1>1, ClientInvariance, PTL

\* A Peer whose LEAVE was accepted is offered by no lookup until it is started again: its
\* tombstone has its last incarnation, which no late JOIN or heartbeat exceeds.
THEOREM GoneNeverOffered == Spec => []GoneIsNotOffered
<1>1. ClientInv => GoneIsNotOffered
  <2> SUFFICES ASSUME ClientInv, NEW p \in left, NEW o \in Object PROVE p \notin Offered(o)
    BY DEF GoneIsNotOffered
  <2>1. p \in Peer /\ reg[p].state = "removed"
    BY DEF ClientInv, ServiceInv, PeerTypes, GoneInv
  <2> QED BY <2>1, DirectoryAssumption DEF Offered, Valid, superpeer_is_registered
<1> QED BY <1>1, ClientInvariance, PTL

\* The part file belongs to the one download that can still succeed, and is left behind
\* only by a client that was killed, for any number of downloads of the same destination.
THEOREM PartFilesKept == Spec => []PartFiles
<1>1. ClientInv => PartFiles
  BY DEF ClientInv, FileInv, PartFiles
<1> QED BY <1>1, ClientInvariance, PTL

\* link() gives the destination one file, with all chunks of the document in it.
THEOREM PublishesOnce == Spec => PublishedOnce
<1>1. ASSUME ClientInv, Next, dest' # dest
      PROVE dest = NoFile /\ dest' \in Download /\ content'[dest'] = Chunk
  <2>1. PICK c \in Download : DownloadStep(c)
    BY <1>1 DEF Next, PeerStep, PeerEvent, SuperPeerStep, SuperPeerDies, Announced, Unannounced,
       CommitAnnounce, CommitFails, UploadStep, BeginUpload, UploadFails, UploadCommit, UploadGivesUp,
       UploadTake, UploadChunk, UploadChunkFails, clientVars
  <2>2. Link(c)
    BY <1>1, <2>1 DEF DownloadStep, BeginDownload, ReadOwners, ReadValid, LookupFails, CheckDestination,
       OpenPart, Verify, Unlink, SyncParent, DownloadError, CleanUp, KillDownload, DownloadTake, FetchChunk,
       TryFails, ChunkFails
  <2>3. dl[c].phase = "link" /\ dest = NoFile /\ dest' = part /\ UNCHANGED content
    BY <1>1, <2>2 DEF Link
  <2> QED BY <1>1, <2>3 DEF ClientInv, FileInv
<1>2. ClientInv /\ [Next]_vars =>
        [dest' # dest => dest = NoFile /\ dest' \in Download /\ content'[dest'] = Chunk]_vars
  BY <1>1
<1> QED BY <1>2, ClientInvariance, PTL DEF Spec, PublishedOnce
=============================================================================
