----------------------------- MODULE ChrdevTest -----------------------------
(***************************************************************************)
(* The test program chrdev_test of Chapter03, as it is and with its two    *)
(* patches, run again and again by several users on one device: the legacy *)
(* device of Chapter03 without ("legacy") and with ("buffer") its patch,   *)
(* and the memory device of Chapter07, also a read-only one.  A call is    *)
(* one step here; how calls race is the subject of ChrdevFile.             *)
(***************************************************************************)
EXTENDS Integers, Sequences, SequencesExt

CONSTANTS
  Users,
  Text,          \* what the program writes: its buf
  TestLen        \* BUF_LEN

ASSUME TestAssumption ==
  TestLen \in Nat /\ Text \in Seq(Nat) /\ Len(Text) \in 1 .. TestLen

Programs == {"as_is", "reopens", "seeks"}

VARIABLES
  device,        \* "legacy", "buffer", "memory" or "rdonly"
  program,       \* program[u]: the version u runs
  next,          \* its next system call, "end" when it has ended
  ppos,          \* the position of its file
  c,             \* bytes written or read so far
  got,           \* what it has read
  failed,        \* it has reported an error
  chrdev_buf

testVars == <<device, program, next, ppos, c, got, failed, chrdev_buf>>

TestInit ==
  /\ device \in {"legacy", "buffer", "memory", "rdonly"}
  /\ program \in [Users -> Programs]
  /\ next = [u \in Users |-> "end"] /\ ppos = [u \in Users |-> 0]
  /\ c = [u \in Users |-> 0] /\ got = [u \in Users |-> << >>]
  /\ failed = [u \in Users |-> FALSE]
  /\ chrdev_buf = [i \in 1 .. TestLen |-> 0]

\* What the device does with a request for n bytes: the legacy one takes all
\* and has none, the others go to the end of their buffer.
ToEnd(u, n) == IF ppos[u] + n >= TestLen THEN TestLen - ppos[u] ELSE n
Written(u, n) == IF device = "legacy" THEN n ELSE ToEnd(u, n)
ReadBytes(u, n) == IF device = "legacy" THEN 0 ELSE ToEnd(u, n)

Fail(u) ==
  /\ failed' = [failed EXCEPT ![u] = TRUE]
  /\ next' = [next EXCEPT ![u] = "end"]

-----------------------------------------------------------------------------
TestOpen(u) ==
  /\ next[u] = "end" /\ next' = [next EXCEPT ![u] = "write"]
  /\ ppos' = [ppos EXCEPT ![u] = 0] /\ c' = [c EXCEPT ![u] = 0]
  /\ got' = [got EXCEPT ![u] = << >>] /\ failed' = [failed EXCEPT ![u] = FALSE]
  /\ UNCHANGED <<device, program, chrdev_buf>>

\* Where each version goes when all is written.
AfterWrites(u) ==
  CASE program[u] = "as_is"   -> "read"
    [] program[u] = "reopens" -> "reopen"
    [] program[u] = "seeks"   -> "lseek"

TestWrite(u) ==
  /\ next[u] = "write" /\ device # "rdonly"
  /\ LET n == Written(u, Len(Text) - c[u])
         done == c[u] + n = Len(Text)
     IN  /\ ppos' = [ppos EXCEPT ![u] = @ + n]
         /\ chrdev_buf' = [i \in 1 .. TestLen |->
              IF device # "legacy" /\ i \in ppos[u] + 1 .. ppos[u] + n
              THEN Text[c[u] + i - ppos[u]] ELSE chrdev_buf[i]]
         /\ c' = [c EXCEPT ![u] = IF done THEN 0 ELSE @ + n]
         /\ next' = [next EXCEPT ![u] = IF done THEN AfterWrites(u) ELSE @]
  /\ UNCHANGED <<device, program, got, failed>>

\* EINVAL
TestWriteFails(u) ==
  /\ next[u] = "write" /\ device = "rdonly"
  /\ Fail(u)
  /\ UNCHANGED <<device, program, ppos, c, got, chrdev_buf>>

TestReopen_KeepsPosition(u) ==
  /\ next[u] = "reopen" /\ next' = [next EXCEPT ![u] = "read"]
  /\ UNCHANGED <<device, program, ppos, c, got, failed, chrdev_buf>>

TestReopen(u) ==
  /\ next[u] = "reopen" /\ next' = [next EXCEPT ![u] = "read"]
  /\ ppos' = [ppos EXCEPT ![u] = 0]
  /\ UNCHANGED <<device, program, c, got, failed, chrdev_buf>>

\* lseek(fd, SEEK_SET, 0): offset and whence are swapped, and both are 0.  Only
\* Chapter07's device has an llseek.
TestSeek(u) ==
  /\ next[u] = "lseek"
  /\ \/ /\ device = "memory"
        /\ next' = [next EXCEPT ![u] = "read"]
        /\ ppos' = [ppos EXCEPT ![u] = 0] /\ UNCHANGED failed
     \/ device # "memory" /\ Fail(u) /\ UNCHANGED ppos
  /\ UNCHANGED <<device, program, c, got, chrdev_buf>>

TestRead_NoEof(u) ==
  /\ next[u] = "read"
  /\ LET n == ReadBytes(u, Len(Text))
     IN  /\ ppos' = [ppos EXCEPT ![u] = @ + n] /\ c' = [c EXCEPT ![u] = @ + n]
         /\ got' = [got EXCEPT ![u] = @ \o SubSeq(chrdev_buf, ppos[u] + 1, ppos[u] + n)]
         /\ next' = [next EXCEPT ![u] = IF c[u] + n >= Len(Text) THEN "end" ELSE @]
  /\ UNCHANGED <<device, program, failed, chrdev_buf>>

\* Each read() asks for all; 0 bytes mean the end of the file.
TestRead(u) ==
  /\ next[u] = "read"
  /\ LET n == ReadBytes(u, Len(Text))
         done == n = 0 \/ c[u] + n >= Len(Text)
     IN  /\ ppos' = [ppos EXCEPT ![u] = @ + n] /\ c' = [c EXCEPT ![u] = @ + n]
         /\ got' = [got EXCEPT ![u] = @ \o SubSeq(chrdev_buf, ppos[u] + 1, ppos[u] + n)]
         /\ next' = [next EXCEPT ![u] = IF done THEN "end" ELSE @]
  /\ UNCHANGED <<device, program, failed, chrdev_buf>>

-----------------------------------------------------------------------------
TestStep(u) ==
  \/ TestWrite(u) \/ TestWriteFails(u) \/ TestReopen(u) \/ TestSeek(u) \/ TestRead(u)

TestNext == \E u \in Users : TestOpen(u) \/ TestStep(u)

TestSpec == TestInit /\ [][TestNext]_testVars

-----------------------------------------------------------------------------
(* Properties *)

\* A version that goes back to the start reads what it wrote, whoever else
\* runs the program at the time, and the legacy device has nothing for it
\* (chrdev_test.c:46-71 and its patches).
ReadsBack ==
  \A u \in Users :
    next[u] = "end" /\ program[u] # "as_is" /\ ~failed[u] /\ c[u] > 0 => got[u] = Text

\* The program ends with every device: no loop of it goes on with 0 bytes for
\* ever (chrdev_test.c:46, :58-62).
TestEnds == \A u \in Users : (next[u] # "end") ~> (next[u] = "end")
=============================================================================
