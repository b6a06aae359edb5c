----------------------------- MODULE MCStorage ------------------------------
EXTENDS ChunkCache

\* The variants compress to different sizes.
Sizes == [v \in Variant |-> IF v = Good THEN 1 ELSE 2]
=============================================================================
