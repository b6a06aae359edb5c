---------------------------- MODULE ObjectStore -----------------------------
(***************************************************************************)
(* What the chunk storage promises: a document appears as a whole, what is *)
(* stored is never lost, and after a restart everything that is stored is  *)
(* visible.  A stop may decide a publication that was under way, or leave  *)
(* it to be decided by a later one: such a document is visible meanwhile.  *)
(***************************************************************************)
CONSTANT Doc

VARIABLES up, stored, visible

vars == <<up, stored, visible>>

Init == up = TRUE /\ stored = {} /\ visible = {}

Publish(d) ==
  /\ up /\ up' = up
  /\ stored' = stored \cup {d} /\ visible' = visible \cup {d}

Stop ==
  /\ up /\ up' = FALSE
  /\ \E undecided \in SUBSET Doc : stored' = stored \cup undecided
  /\ visible' = {}

Recover ==
  /\ ~up /\ up' = TRUE
  /\ \E undecided \in SUBSET Doc : visible' = stored \cup undecided
  /\ stored' = stored

Next == (\E d \in Doc : Publish(d)) \/ Stop \/ Recover

Spec == Init /\ [][Next]_vars
=============================================================================
