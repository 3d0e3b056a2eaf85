---------------------------- MODULE AtomicBuffer ----------------------------
(***************************************************************************)
(* What the memory device promises once its methods take the mutex: a      *)
(* read() sees, and a write() changes, a contiguous part of the buffer in  *)
(* one step.                                                               *)
(***************************************************************************)
EXTENDS Integers, Sequences

CONSTANTS Size, Bytes, Callers

VARIABLES
  content,       \* [0 .. Size - 1 -> Bytes]
  result         \* result[p]: what p's last read() returned

vars == <<content, result>>

Init ==
  /\ content \in [0 .. Size - 1 -> Bytes]
  /\ result = [p \in Callers |-> << >>]

Part(start, n) == [k \in 1 .. n |-> content[start + k - 1]]

Read(p) ==
  /\ \E start \in 0 .. Size : \E n \in 0 .. Size - start :
       result' = [result EXCEPT ![p] = Part(start, n)]
  /\ UNCHANGED content

Write(p) ==
  /\ \E start \in 0 .. Size, b \in Bytes : \E n \in 0 .. Size - start :
       content' = [i \in 0 .. Size - 1 |->
                     IF i \in start .. start + n - 1 THEN b ELSE content[i]]
  /\ UNCHANGED result

\* p's next call makes its last result void.
Forget(p) ==
  /\ result' = [result EXCEPT ![p] = << >>]
  /\ UNCHANGED content

Next == \E p \in Callers : Read(p) \/ Write(p) \/ Forget(p)

Spec == Init /\ [][Next]_vars
=============================================================================
