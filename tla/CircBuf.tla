------------------------------ MODULE CircBuf ------------------------------
(***************************************************************************)
(* The circular-buffer arithmetic of Chapter07/chrdev/chrdev_irq.c.  Each  *)
(* operator keeps the name and the parameters of the inline function it    *)
(* models.  head is the next position to write, tail the next position to  *)
(* read, len the size of the array: one position always stays free, so     *)
(* that head = tail means empty.                                           *)
(*                                                                         *)
(* The arguments are size_t in C.  For head, tail \in 0 .. len-1 and       *)
(* n \in 0 .. len no intermediate value is negative and none exceeds       *)
(* 2*len, so no wrap-around of the C type can happen.                      *)
(*                                                                         *)
(* In this and the other modules a definition F_Fault, just before F, is a *)
(* plausible mistake in F.  No specification uses it: putting it in the    *)
(* place of F makes a property fail, which shows that the property depends *)
(* on what F says.                                                         *)
(***************************************************************************)
EXTENDS Integers

cbuf_is_empty(head, tail, len) == head = tail

cbuf_is_full(head, tail, len) == (head + 1) % len = tail

\* Named for the bytes up to the end of the array, but what the code computes
\* is the number of bytes in the whole buffer, the wrapped part included.
cbuf_count_to_end(head, tail, len) ==
  IF head >= tail THEN head - tail ELSE len - tail + head

\* Likewise the free room in the whole buffer.  No caller in the driver.
cbuf_space_to_end(head, tail, len) ==
  IF head >= tail THEN len - head + tail - 1 ELSE tail - head - 1

cbuf_pointer_move_NoWrap(ptr, n, len) == ptr + n

\* The new value of *ptr.
cbuf_pointer_move(ptr, n, len) == (ptr + n) % len
=============================================================================
