------------------------------- MODULE MCFiles ------------------------------
(* An instance of FileClient for TLC. *)
EXTENDS FileClient

CONSTANTS a

\* A document that everybody has.
OneEach == [h \in Peer \cup {Self} |-> {a}]
=============================================================================
