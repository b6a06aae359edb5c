---------------------------- MODULE MCHeartbeat -----------------------------
(***************************************************************************)
(* Instances of Heartbeat for TLC.                                         *)
(*   Copy:   the Super Peer 1 serves the Peer 7, of which it hears nothing *)
(*           for a while; the Super Peer 2 learns of the Peer from 1.      *)
(*   Ring:   three Super Peers, where 1 hears nothing from 3 for a while.  *)
(***************************************************************************)
EXTENDS Heartbeat

Calls(f) == [l \in Node \X Node |-> IF l \in DOMAIN f THEN f[l] ELSE 0]

OneHome == [p \in {7} |-> 1]
NoHome == [p \in {} |-> 1]

CopyCalls == Calls([l \in {<<7, 1>>, <<1, 7>>, <<1, 2>>} |-> 1])
CopySilent == {<<1, 7>>}

RingCalls == Calls([l \in {<<1, 3>>, <<3, 2>>, <<2, 1>>} |-> 1])
RingSilent == {<<1, 3>>}
=============================================================================
