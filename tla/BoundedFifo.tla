---------------------------- MODULE BoundedFifo ----------------------------
(***************************************************************************)
(* What the queue of a server promises: connections leave it in the order  *)
(* in which they entered, none is lost or repeated, and a stop empties it. *)
(***************************************************************************)
EXTENDS Naturals, Sequences

CONSTANTS Item, Size

VARIABLE fifo

FifoInit == fifo = <<>>

Put(x) == Len(fifo) < Size /\ fifo' = Append(fifo, x)

Get == fifo # <<>> /\ fifo' = Tail(fifo)

Clear == fifo' = <<>>

FifoNext == (\E x \in Item : Put(x)) \/ Get \/ Clear

FifoSpec == FifoInit /\ [][FifoNext]_fifo

=============================================================================
