------------------------ MODULE ChrdevFileRefinement ------------------------
(***************************************************************************)
(* ChrdevFile with add_mutex_to_chrdev.patch implements AtomicBuffer.  Of  *)
(* the versions without the mutex nothing is claimed: their abstract       *)
(* buffer stays as it is.                                                  *)
(***************************************************************************)
EXTENDS ChrdevFile

\* The buffer changes when the writer gets the mutex: what it has still to
\* copy counts as written.
Writing(i) ==
  /\ mux \in Procs /\ pc[mux] = "copy" /\ op[mux] = "write"
  /\ i \in ppos[mux] + done[mux] .. ppos[mux] + count[mux] - 1
AbsContent ==
  [i \in Index |-> IF ~Locked THEN 0 ELSE IF Writing(i) THEN data[mux][1] ELSE buf[i]]

\* And a reader has received all it will receive from then on.
Receiving(p) ==
  [k \in 1 .. count[p] |->
     IF k <= done[p] THEN data[p][k] ELSE buf[ppos[p] + k - 1]]
AbsResult ==
  [p \in Procs |-> IF ~Locked \/ op[p] = "write" THEN << >>
                   ELSE IF pc[p] = "copy" THEN Receiving(p)
                   ELSE data[p]]

Atomic == INSTANCE AtomicBuffer
  WITH Size <- BUF_LEN, Bytes <- Values, Callers <- Procs,
       content <- AbsContent, result <- AbsResult

\* With add_mutex_to_chrdev.patch read() and write() are atomic.
IsAtomic == Atomic!Spec
=============================================================================
