----------------------------- MODULE MCC4Commit -----------------------------
(* Model checking of C4Commit. *)
EXTENDS C4Commit, TLC

CONSTANT MaxIndex

Indices == 1..MaxIndex

TxSymmetry == Permutations(TxId)

=============================================================================
