------------------------ MODULE ChrdevIrqRefinement ------------------------
(***************************************************************************)
(* The promise of the device when it is read one byte at a time, as both   *)
(* client programs do (chrdev_select.c:56, chrdev_fasync.c:21): ChrdevIrq  *)
(* implements LossyFifo.  A letter is in the queue from the moment it is   *)
(* stored until it is given to a user.                                     *)
(***************************************************************************)
EXTENDS ChrdevIrqProperties

\* At the tail but given already; at the head and not yet published.
Given  == IF \E r \in Readers : pc[r] = "move" /\ count[r] > 0 THEN 1 ELSE 0
Stored == IF tpc = "move" THEN 1 ELSE 0

Pending ==
  [k \in 1 .. Occupancy - Given + Stored |->
     buf[cbuf_pointer_move(tail, Given + k - 1, BUF_LEN)]]
Asking == {r \in Readers : pc[r] \notin Over \cup {"move"}}

Fifo == INSTANCE LossyFifo
  WITH Capacity <- BUF_LEN - 1, source <- d, fifo <- Pending,
       calls <- Asking, taken <- user, Losses <- Faults

\* Single-byte reads make the device the FIFO of LossyFifo: a call takes
\* letters once, and nothing is lost but to a fault of copy_to_user
\* (chrdev_irq.c:87-114, :146-199).
IsLossyFifo == Fifo!Spec
=============================================================================
