---------------------------- MODULE MCC4Election ----------------------------
(* Model checking of C4Election. *)
EXTENDS C4Election

CONSTANT MaxIndex

Indices == 1..MaxIndex

=============================================================================
