------------------------------ MODULE MCC4Log ------------------------------
(* Model checking of C4Log: one node, its files and its transactions. *)
EXTENDS C4Log, TLC

CONSTANT MaxIndex

Indices == 1..MaxIndex

TxSymmetry == Permutations(TxId)

=============================================================================
