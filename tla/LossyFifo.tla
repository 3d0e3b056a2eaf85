----------------------------- MODULE LossyFifo -----------------------------
(***************************************************************************)
(* What the interrupt-driven character device promises to its readers: a   *)
(* bounded first-in first-out queue of the letters the (simulated)         *)
(* interrupt produces.  While the queue is full no letter is made.  A      *)
(* call takes letters from the front once, in order, each of them once; a  *)
(* fault while copying to user space may lose the end of what it took, as  *)
(* many letters as Losses says, and nothing else is lost, duplicated,      *)
(* reordered or invented.  With Losses = {0} this is a plain FIFO.         *)
(***************************************************************************)
EXTENDS Integers, Sequences

CONSTANTS
  Capacity,      \* the most letters the queue holds
  NLetters,      \* letters are 0 .. NLetters-1, produced round and round
  Readers,
  Losses         \* how many letters a Take may lose

VARIABLES
  source,        \* the last letter produced, -1 before the first
  fifo,          \* letters produced and not yet taken, oldest first
  calls,         \* readers in a call that has taken nothing yet
  taken          \* taken[r]: what reader r got from its last call
vars == <<source, fifo, calls, taken>>

Successor(c) == IF c + 1 = NLetters THEN 0 ELSE c + 1

Init ==
  /\ source = -1
  /\ fifo = << >>
  /\ calls = {}
  /\ taken = [r \in Readers |-> << >>]

\* The source makes its next letter, only when there is room for it.
Produce ==
  /\ Len(fifo) < Capacity
  /\ source' = Successor(source)
  /\ fifo' = Append(fifo, Successor(source))
  /\ UNCHANGED <<calls, taken>>

\* Reader r starts a call: its previous result is gone.
Call(r) ==
  /\ r \notin calls /\ calls' = calls \cup {r}
  /\ taken' = [taken EXCEPT ![r] = << >>]
  /\ UNCHANGED <<source, fifo>>

\* Once in a call, it takes the n oldest letters and receives the first m.
Take(r, n, m) ==
  /\ r \in calls /\ calls' = calls \ {r}
  /\ taken' = [taken EXCEPT ![r] = SubSeq(fifo, 1, m)]
  /\ fifo' = SubSeq(fifo, n + 1, Len(fifo))
  /\ UNCHANGED source

\* Or its call ends with nothing.
GiveUp(r) ==
  /\ r \in calls /\ calls' = calls \ {r}
  /\ UNCHANGED <<source, fifo, taken>>

Next ==
  \/ Produce
  \/ \E r \in Readers :
       \/ Call(r) \/ GiveUp(r)
       \/ \E n \in 0 .. Len(fifo) : \E m \in 0 .. n :
            n - m \in Losses /\ Take(r, n, m)

Spec == Init /\ [][Next]_vars
=============================================================================
