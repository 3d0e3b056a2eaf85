--------------------------- MODULE CircBufProofs ---------------------------
(***************************************************************************)
(* Facts about the circular-buffer arithmetic for every length.            *)
(***************************************************************************)
EXTENDS CircBuf, TLAPS

\* One move goes round the end of the array at most once: cbuf_pointer_move
\* (chrdev_irq.c:78-81) is an addition with one conditional subtraction.
LEMMA PointerMove ==
  ASSUME NEW len \in Nat \ {0}, NEW ptr \in 0 .. len - 1, NEW n \in 0 .. len
  PROVE  cbuf_pointer_move(ptr, n, len)
           = IF ptr + n < len THEN ptr + n ELSE ptr + n - len
<1>1. CASE ptr + n < len
  BY <1>1 DEF cbuf_pointer_move
<1>2. CASE ptr + n >= len
  <2> DEFINE q == ptr + n - len
  <2>1. q \in 0 .. len - 1 /\ ptr + n = q + len
    BY <1>2
  <2>2. (q + len) % len = q % len
    BY <2>1
  <2>3. q % len = q
    BY <2>1
  <2> QED
    BY <1>2, <2>1, <2>2, <2>3 DEF cbuf_pointer_move
<1> QED
  BY <1>1, <1>2

\* What cbuf_count_to_end and cbuf_space_to_end return adds up to the size of
\* the array less the position that stays free (chrdev_irq.c:62-76).
THEOREM CountPlusSpace ==
  ASSUME NEW len \in Nat \ {0}, NEW head \in 0 .. len - 1,
         NEW tail \in 0 .. len - 1
  PROVE  /\ cbuf_count_to_end(head, tail, len)
              + cbuf_space_to_end(head, tail, len) = len - 1
         /\ cbuf_count_to_end(head, tail, len) \in 0 .. len - 1
         /\ cbuf_is_empty(head, tail, len)
              <=> cbuf_count_to_end(head, tail, len) = 0
         /\ cbuf_is_full(head, tail, len)
              <=> cbuf_space_to_end(head, tail, len) = 0
<1>1. (head + 1) % len = IF head + 1 < len THEN head + 1 ELSE head + 1 - len
  BY PointerMove, 1 \in 0 .. len DEF cbuf_pointer_move
<1> QED
  BY <1>1 DEF cbuf_count_to_end, cbuf_space_to_end, cbuf_is_empty, cbuf_is_full
=============================================================================
