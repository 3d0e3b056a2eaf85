-------------------------- MODULE ChrdevIrqProofs --------------------------
(***************************************************************************)
(* The safety properties of ChrdevIrq for every buffer size, alphabet, set *)
(* of readers and pollers, request sizes and faults.                       *)
(***************************************************************************)
EXTENDS ChrdevIrqRefinement, CircBufProofs, SequenceTheorems

USE ChrdevAssumption

(* The arithmetic, on the indices of the buffer. *)

LEMMA Move ==
  ASSUME NEW i \in Index, NEW n \in 0 .. BUF_LEN
  PROVE  /\ cbuf_pointer_move(i, n, BUF_LEN) \in Index
         /\ cbuf_pointer_move(i, n, BUF_LEN)
              = IF i + n < BUF_LEN THEN i + n ELSE i + n - BUF_LEN
BY PointerMove DEF Index

LEMMA Full ==
  ASSUME NEW h \in Index, NEW t \in Index
  PROVE  cbuf_is_full(h, t, BUF_LEN) <=> cbuf_pointer_move(h, 1, BUF_LEN) = t
BY DEF cbuf_is_full, cbuf_pointer_move

LEMMA Count ==
  ASSUME NEW h \in Index, NEW t \in Index
  PROVE  /\ cbuf_count_to_end(h, t, BUF_LEN) \in 0 .. BUF_LEN - 1
         /\ cbuf_is_empty(h, t, BUF_LEN) <=> cbuf_count_to_end(h, t, BUF_LEN) = 0
BY CountPlusSpace DEF Index

LEMMA CopyIsSeq ==
  ASSUME TypeOK, NEW n \in Nat
  PROVE  CopyFrom(tail, n) \in Seq(Byte) /\ Len(CopyFrom(tail, n)) = n
<1>1. \A k \in 1 .. n :
        (IF tail + k - 1 < BUF_LEN THEN buf[tail + k - 1] ELSE Beyond) \in Byte
  <2> SUFFICES ASSUME NEW k \in 1 .. n, tail + k - 1 < BUF_LEN
               PROVE  buf[tail + k - 1] \in Byte
    BY DEF Byte
  <2>1. tail + k - 1 \in Index
    BY DEF TypeOK, Index
  <2> QED
    BY <2>1 DEF TypeOK, Byte
<1> QED
  BY <1>1 DEF CopyFrom

LEMMA NewCharType ==
  ASSUME NEW c \in Letter \cup {-1}
  PROVE  NewChar(c) \in Letter
BY DEF NewChar, Letter

-----------------------------------------------------------------------------
(* The invariant holds at first. *)

LEMMA InitInv == Init => IInv
<1> SUFFICES ASSUME Init PROVE IInv
  OBVIOUS
<1>1. TypeOK
  BY DEF Init, TypeOK, Index, Letter, Byte, TimerAt, ReaderAt, PollerAt, Procs
<1>2. LockDiscipline
  BY DEF Init, LockDiscipline, Procs, InMutex
<1>3. cbuf_count_to_end(head, tail, BUF_LEN) = 0 /\ IsEmpty
  BY DEF Init, cbuf_count_to_end, cbuf_is_empty, IsEmpty
<1>4. \A i \in Index : ~Unread(i)
  BY DEF Init, Unread, Index
<1> QED
  BY <1>1, <1>2, <1>3, <1>4
  DEF Init, IInv, CountIsSize, DataStaysUntilTaken, TmpCopied, RoomForStore,
      StoredAtHead, RingConsecutive, PollersQueued, NoLostWakeup, Procs

-----------------------------------------------------------------------------
(* Every step preserves each part of the invariant. *)

LEMMA TypeStep == IInv /\ [Next]_vars => TypeOK'
<1> SUFFICES ASSUME IInv, [Next]_vars PROVE TypeOK'
  OBVIOUS
<1> USE DEF IInv, TypeOK
<1>1. CASE UNCHANGED vars
  BY <1>1 DEF vars, ringVars, lockVars, waitVars, sigVars, timerVars, localVars
<1>2. CASE TimerNext
  <2>1. CASE TimerLock \/ TimerCheck \/ TimerUnlock \/ TimerWake \/ TimerKill
    BY <2>1 DEF TimerLock, TimerCheck, TimerUnlock, TimerWake, TimerKill, TimerGo,
         TimerAt, ringVars, lockVars, waitVars, sigVars, timerVars, localVars
  <2>2. CASE TimerStore
    BY <2>2, NewCharType DEF TimerStore, TimerGo, TimerAt,
         lockVars, waitVars, sigVars, localVars
  <2>3. CASE TimerMove
    <3>1. head' \in Index
      BY <2>3, Move DEF TimerMove
    <3> QED
      BY <2>3, <3>1 DEF TimerMove, TimerGo, TimerAt,
           lockVars, waitVars, sigVars, localVars
  <2> QED
    BY <1>2, <2>1, <2>2, <2>3 DEF TimerNext
<1>3. ASSUME NEW r \in Readers,
             ReadCall(r) \/ ReadStep(r) \/ ReadInterrupted(r) \/ ReadSignal(r)
      PROVE  TypeOK'
  <2> USE DEF Go, ReaderAt, PollerAt, Procs, ringVars, lockVars, waitVars, sigVars,
              timerVars, localVars
  <2>1. CASE ReadCall(r)
    BY <2>1 DEF ReadCall
  <2>2. CASE MutexLock(r) \/ ReadTest(r) \/ ReadPrepare(r) \/ ReadCond(r)
             \/ ReadWake(r) \/ ReadSignal(r) \/ ReadInterrupted(r)
    <3>1. CASE MutexLock(r) \/ ReadTest(r)
      BY <3>1 DEF MutexLock, ReadTest
    <3>2. CASE ReadPrepare(r) \/ ReadCond(r)
      BY <3>2 DEF ReadPrepare, ReadCond
    <3>3. CASE ReadWake(r) \/ ReadSignal(r) \/ ReadInterrupted(r)
      BY <3>3 DEF ReadWake, ReadSignal, ReadInterrupted
    <3> QED
      BY <2>2, <3>1, <3>2, <3>3
  <2>3. CASE ReadSpinLock(r)
    BY <2>3 DEF ReadSpinLock
  <2>4. CASE ReadGet(r)
    <3> DEFINE n == cbuf_count_to_end(head, tail, BUF_LEN)
               c == IF count[r] < n THEN count[r] ELSE n
    <3>1. c \in Nat
      <4>1. count[r] \in Nat
        BY <2>4 DEF ReadGet, Go, CountIsSize, ReaderAt, Over
      <4>2. cbuf_count_to_end(head, tail, BUF_LEN) \in 0 .. BUF_LEN - 1
        BY Count
      <4>3. n \in Nat
        BY <4>2
      <4> QED
        BY <4>1, <4>3
    <3>2. CopyFrom(tail, c) \in Seq(Byte)
      BY <3>1, CopyIsSeq
    <3>3. count' = [count EXCEPT ![r] = c] /\ tmp' = [tmp EXCEPT ![r] = CopyFrom(tail, c)]
      BY <2>4 DEF ReadGet
    <3> HIDE DEF c
    <3> QED
      BY <2>4, <3>1, <3>2, <3>3 DEF ReadGet
  <2>5. CASE ReadCopyToUser(r)
    <3>1. PICK u \in Faults :
            /\ u <= count[r]
            /\ user' = [user EXCEPT ![r] = SubSeq(tmp[r], 1, count[r] - u)]
      BY <2>5 DEF ReadCopyToUser
    <3>2. count[r] = Len(tmp[r]) /\ tmp[r] \in Seq(Byte)
      BY <2>5 DEF ReadCopyToUser, TmpCopied
    <3>3. SubSeq(tmp[r], 1, count[r] - u) \in Seq(Byte)
      BY <3>1, <3>2
    <3> QED
      BY <2>5, <3>1, <3>3 DEF ReadCopyToUser
  <2>6. CASE ReadMove(r)
    <3>1. count[r] \in 0 .. BUF_LEN
      BY <2>6, Count DEF ReadMove, TmpCopied, CountIsSize, Occupancy
    <3>2. tail' \in Index
      BY <2>6, <3>1, Move DEF ReadMove
    <3> QED
      BY <2>6, <3>2 DEF ReadMove
  <2>7. CASE ReadReturn(r)
    BY <2>7 DEF ReadReturn
  <2> QED
    BY <1>3, <2>1, <2>2, <2>3, <2>4, <2>5, <2>6, <2>7 DEF ReadStep
<1>4. ASSUME NEW p \in Pollers,
             SelectCall(p) \/ PollStep(p) \/ SelectInterrupted(p)
      PROVE  TypeOK'
  BY <1>4 DEF SelectCall, PollStep, SelectInterrupted, PollWait, MutexLock, PollTest,
       PollAwake, Deregister, Go, PollerAt, Procs, ringVars, lockVars, waitVars,
       sigVars, timerVars, localVars
<1>5. ASSUME NEW o \in Owners,
             SigioDelivered(o) \/ \E on \in BOOLEAN : Fasync(o, on)
      PROVE  TypeOK'
  BY <1>5 DEF SigioDelivered, Fasync, ringVars, lockVars, waitVars, timerVars, localVars
<1> QED
  BY <1>1, <1>2, <1>3, <1>4, <1>5 DEF Next

LEMMA LockStep == IInv /\ [Next]_vars => LockDiscipline'
<1> SUFFICES ASSUME IInv, [Next]_vars PROVE LockDiscipline'
  OBVIOUS
<1> USE DEF IInv, TypeOK, LockDiscipline, InMutex, Procs
<1>1. CASE UNCHANGED vars
  BY <1>1 DEF vars, ringVars, lockVars, waitVars, sigVars, timerVars, localVars
<1>2. CASE TimerNext
  BY <1>2 DEF TimerNext, TimerLock, TimerCheck, TimerStore, TimerMove, TimerUnlock,
       TimerWake, TimerKill, TimerGo, ringVars, lockVars, waitVars, sigVars, localVars
<1>3. ASSUME NEW r \in Readers,
             ReadCall(r) \/ ReadStep(r) \/ ReadInterrupted(r) \/ ReadSignal(r)
      PROVE  LockDiscipline'
  <2> USE DEF Go, ringVars, lockVars, waitVars, sigVars, timerVars, localVars
  <2>1. CASE ReadCall(r) \/ ReadTest(r) \/ ReadPrepare(r) \/ ReadCond(r)
             \/ ReadWake(r) \/ ReadSignal(r) \/ ReadInterrupted(r)
             \/ ReadCopyToUser(r) \/ ReadMove(r)
    BY <2>1 DEF ReadCall, ReadTest, ReadPrepare, ReadCond, ReadWake, ReadSignal,
                ReadInterrupted, ReadCopyToUser, ReadMove
  <2>2. CASE MutexLock(r)
    BY <2>2 DEF MutexLock
  <2>3. CASE ReadSpinLock(r)
    BY <2>3 DEF ReadSpinLock
  <2>4. CASE ReadGet(r)
    BY <2>4 DEF ReadGet
  <2>5. CASE ReadReturn(r)
    BY <2>5 DEF ReadReturn
  <2> QED
    BY <1>3, <2>1, <2>2, <2>3, <2>4, <2>5 DEF ReadStep
<1>4. ASSUME NEW p \in Pollers,
             SelectCall(p) \/ PollStep(p) \/ SelectInterrupted(p)
      PROVE  LockDiscipline'
  BY <1>4 DEF SelectCall, PollStep, SelectInterrupted, PollWait, MutexLock, PollTest,
       PollAwake, Deregister, Go, ringVars, lockVars, waitVars,
       sigVars, timerVars, localVars
<1>5. ASSUME NEW o \in Owners,
             SigioDelivered(o) \/ \E on \in BOOLEAN : Fasync(o, on)
      PROVE  LockDiscipline'
  BY <1>5 DEF SigioDelivered, Fasync, ringVars, lockVars, waitVars, timerVars, localVars
<1> QED
  BY <1>1, <1>2, <1>3, <1>4, <1>5 DEF Next

\* Who changes the ring: the timer with the spin lock, the reader with the mutex.
LEMMA RingWriters ==
  ASSUME IInv, [Next]_vars
  PROVE  \/ UNCHANGED ringVars
         \/ TimerStore
         \/ TimerMove
         \/ \E r \in Readers : ReadMove(r)
<1> USE DEF ringVars, lockVars, waitVars, sigVars, timerVars, localVars
<1>1. CASE TimerNext
  BY <1>1 DEF TimerNext, TimerLock, TimerCheck, TimerUnlock, TimerWake, TimerKill
<1>2. ASSUME NEW r \in Readers,
             ReadCall(r) \/ ReadStep(r) \/ ReadInterrupted(r) \/ ReadSignal(r)
      PROVE  UNCHANGED ringVars \/ ReadMove(r)
  BY <1>2 DEF ReadStep, ReadCall, MutexLock, ReadTest, ReadPrepare, ReadCond, ReadWake,
       ReadSignal, ReadInterrupted, ReadSpinLock, ReadGet, ReadCopyToUser, ReadReturn
<1>3. ASSUME NEW p \in Pollers,
             SelectCall(p) \/ PollStep(p) \/ SelectInterrupted(p)
      PROVE  UNCHANGED ringVars
  BY <1>3 DEF SelectCall, PollStep, SelectInterrupted, PollWait, MutexLock, PollTest,
       PollAwake
<1>4. ASSUME NEW o \in Owners,
             SigioDelivered(o) \/ \E on \in BOOLEAN : Fasync(o, on)
      PROVE  UNCHANGED ringVars
  BY <1>4 DEF SigioDelivered, Fasync
<1> QED
  BY <1>1, <1>2, <1>3, <1>4 DEF Next, vars

\* Nobody but a reader itself changes its control state and locals.
LEMMA ReaderFrame ==
  ASSUME IInv, [Next]_vars, NEW r \in Readers
  PROVE  \/ pc'[r] = pc[r] /\ count'[r] = count[r] /\ tmp'[r] = tmp[r]
         \/ ReadCall(r) \/ ReadStep(r) \/ ReadInterrupted(r) \/ ReadSignal(r)
<1> USE DEF IInv, TypeOK, Procs, Go, lockVars, waitVars, sigVars, timerVars, localVars
<1>1. CASE TimerNext
  BY <1>1 DEF TimerNext, TimerLock, TimerCheck, TimerStore, TimerMove, TimerUnlock,
       TimerWake, TimerKill
<1>2. ASSUME NEW q \in Readers, q # r,
             ReadCall(q) \/ ReadStep(q) \/ ReadInterrupted(q) \/ ReadSignal(q)
      PROVE  pc'[r] = pc[r] /\ count'[r] = count[r] /\ tmp'[r] = tmp[r]
  BY <1>2 DEF ReadStep, ReadCall, MutexLock, ReadTest, ReadPrepare, ReadCond, ReadWake,
       ReadSignal, ReadInterrupted, ReadSpinLock, ReadGet, ReadCopyToUser, ReadMove,
       ReadReturn
<1>3. ASSUME NEW p \in Pollers,
             SelectCall(p) \/ PollStep(p) \/ SelectInterrupted(p)
      PROVE  pc'[r] = pc[r] /\ count'[r] = count[r] /\ tmp'[r] = tmp[r]
  BY <1>3 DEF SelectCall, PollStep, SelectInterrupted, PollWait, MutexLock, PollTest,
       PollAwake
<1>4. ASSUME NEW o \in Owners,
             SigioDelivered(o) \/ \E on \in BOOLEAN : Fasync(o, on)
      PROVE  pc'[r] = pc[r] /\ count'[r] = count[r] /\ tmp'[r] = tmp[r]
  BY <1>4 DEF SigioDelivered, Fasync
<1> QED
  BY <1>1, <1>2, <1>3, <1>4 DEF Next, vars

\* Only the timer handler makes letters and changes its control state.
LEMMA TimerFrame == [Next]_vars => TimerNext \/ UNCHANGED timerVars
BY DEF Next, vars, timerVars, ReadStep, ReadCall, MutexLock, ReadTest, ReadPrepare,
     ReadCond, ReadWake, ReadSignal, ReadInterrupted, ReadSpinLock, ReadGet,
     ReadCopyToUser, ReadMove, ReadReturn, SelectCall, PollStep, SelectInterrupted,
     PollWait, PollTest, PollAwake, SigioDelivered, Fasync

LEMMA CountStep == IInv /\ [Next]_vars => CountIsSize'
<1> SUFFICES ASSUME IInv, [Next]_vars, NEW r \in Readers,
                    pc'[r] \in (ReaderAt \ Over)
             PROVE  count'[r] \in Nat
  BY DEF CountIsSize
<1> USE DEF IInv, TypeOK, CountIsSize, Procs, Go, ReaderAt, Over, localVars
<1>1. CASE pc'[r] = pc[r] /\ count'[r] = count[r]
  BY <1>1
<1>2. CASE ReadCall(r) \/ ReadInterrupted(r) \/ ReadSignal(r)
  <2>1. CASE ReadCall(r)
    BY <2>1 DEF ReadCall
  <2>2. CASE ReadInterrupted(r)
    BY <2>2 DEF ReadInterrupted
  <2>3. CASE ReadSignal(r)
    BY <2>3 DEF ReadSignal
  <2> QED
    BY <1>2, <2>1, <2>2, <2>3
<1>3. CASE ReadStep(r)
  <2>1. CASE ReadGet(r)
    <3>1. cbuf_count_to_end(head, tail, BUF_LEN) \in 0 .. BUF_LEN - 1
      BY Count
    <3>2. count[r] \in Nat
      BY <2>1 DEF ReadGet
    <3> QED
      BY <2>1, <3>1, <3>2 DEF ReadGet
  <2> QED
    BY <1>3, <2>1 DEF ReadStep, MutexLock, ReadTest, ReadPrepare, ReadCond, ReadWake,
         ReadSpinLock, ReadCopyToUser, ReadMove, ReadReturn
<1> QED
  BY <1>1, <1>2, <1>3, ReaderFrame

-----------------------------------------------------------------------------
(* What the two moves do to the ring. *)

\* The head advances into free room: one more unread position, the old head.
LEMMA HeadMoves ==
  ASSUME IInv, TimerMove
  PROVE  /\ ~IsEmpty'
         /\ Occupancy' = Occupancy + 1
         /\ \A i \in Index : Unread(i)' <=> Unread(i) \/ i = head
<1>1. head' = cbuf_pointer_move(head, 1, BUF_LEN) /\ UNCHANGED tail
  BY DEF TimerMove
<1>2. head \in Index /\ tail \in Index
  BY DEF IInv, TypeOK
<1>3. head' # tail
  BY <1>1, <1>2, Full DEF IInv, RoomForStore, TimerMove, TimerGo
<1>4. head' = IF head + 1 < BUF_LEN THEN head + 1 ELSE head + 1 - BUF_LEN
  BY <1>1, <1>2, Move, 1 \in 0 .. BUF_LEN
<1> QED
  BY <1>1, <1>2, <1>3, <1>4
  DEF IsEmpty, cbuf_is_empty, Occupancy, cbuf_count_to_end, Unread, Index

\* The tail advances over bytes that were unread, never past the head.
LEMMA TailMoves ==
  ASSUME IInv, NEW r \in Readers, ReadMove(r)
  PROVE  /\ IsEmpty => IsEmpty'
         /\ \A i \in Index : Unread(i)' => Unread(i)
         /\ Occupancy' = Occupancy - count[r]
         /\ cbuf_is_full(head, tail, BUF_LEN)' => cbuf_is_full(head, tail, BUF_LEN)
<1> DEFINE c == count[r]
<1>1. head \in Index /\ tail \in Index /\ UNCHANGED head
  BY DEF IInv, TypeOK, ReadMove
<1>2. c \in Nat /\ c <= Occupancy
  BY DEF IInv, ReadMove, Go, CountIsSize, TmpCopied, ReaderAt, Over
<1>3. Occupancy \in 0 .. BUF_LEN - 1
  BY <1>1, Count DEF Occupancy
<1>4. tail' = cbuf_pointer_move(tail, c, BUF_LEN)
  BY DEF ReadMove
<1>5. c \in 0 .. BUF_LEN
  BY <1>2, <1>3
<1>6. tail' = IF tail + c < BUF_LEN THEN tail + c ELSE tail + c - BUF_LEN
  BY <1>1, <1>4, <1>5, Move
<1>7. cbuf_pointer_move(head, 1, BUF_LEN)
        = IF head + 1 < BUF_LEN THEN head + 1 ELSE head + 1 - BUF_LEN
  BY <1>1, Move, 1 \in 0 .. BUF_LEN
<1>8. tail' \in Index /\ UNCHANGED BUF_LEN
  BY <1>1, <1>4, <1>5, Move
<1> HIDE DEF c
<1>9. /\ IsEmpty => IsEmpty'
      /\ \A i \in Index : Unread(i)' => Unread(i)
      /\ Occupancy' = Occupancy - c
  BY <1>1, <1>2, <1>6
  DEF IsEmpty, cbuf_is_empty, Occupancy, cbuf_count_to_end, Unread, Index
<1>10. cbuf_is_full(head, tail, BUF_LEN)' => cbuf_is_full(head, tail, BUF_LEN)
  <2>1. cbuf_is_full(head, tail, BUF_LEN) <=> cbuf_pointer_move(head, 1, BUF_LEN) = tail
    BY <1>1, Full
  <2>2. cbuf_is_full(head, tail, BUF_LEN)' <=> cbuf_pointer_move(head, 1, BUF_LEN) = tail'
    BY <1>1, <1>8, Full DEF cbuf_is_full, cbuf_pointer_move
  <2> QED
    BY <1>1, <1>2, <1>6, <1>7, <2>1, <2>2 DEF Occupancy, cbuf_count_to_end, Index
<1> QED
  BY <1>9, <1>10 DEF c

-----------------------------------------------------------------------------

LEMMA DataStep == IInv /\ [Next]_vars => DataStaysUntilTaken'
<1> SUFFICES ASSUME IInv, [Next]_vars, NEW r \in Readers, pc'[r] \in {"spin", "get"}
             PROVE  ~IsEmpty'
  BY DEF DataStaysUntilTaken
<1>1. pc[r] \in {"spin", "get"} \/ (pc[r] \in {"test", "cond"} /\ ~IsEmpty)
  <2> USE DEF IInv, TypeOK, Procs, Go
  <2>1. CASE ReadCall(r) \/ ReadInterrupted(r) \/ ReadSignal(r)
    BY <2>1 DEF ReadCall, ReadInterrupted, ReadSignal
  <2>2. CASE MutexLock(r) \/ ReadTest(r) \/ ReadPrepare(r) \/ ReadCond(r) \/ ReadWake(r)
    BY <2>2 DEF MutexLock, ReadTest, ReadPrepare, ReadCond, ReadWake
  <2>3. CASE ReadSpinLock(r) \/ ReadGet(r) \/ ReadCopyToUser(r) \/ ReadMove(r) \/ ReadReturn(r)
    BY <2>3 DEF ReadSpinLock, ReadGet, ReadCopyToUser, ReadMove, ReadReturn
  <2> QED
    BY <2>1, <2>2, <2>3, ReaderFrame DEF ReadStep
<1>2. ~IsEmpty /\ mux = r
  BY <1>1 DEF IInv, DataStaysUntilTaken, LockDiscipline, InMutex
<1>3. CASE UNCHANGED ringVars \/ TimerStore
  BY <1>2, <1>3 DEF ringVars, TimerStore, IsEmpty
<1>4. CASE TimerMove
  BY <1>4, HeadMoves
<1>5. ASSUME NEW q \in Readers, ReadMove(q) PROVE FALSE
  <2>1. q = r
    BY <1>2, <1>5 DEF ReadMove, Go, IInv, LockDiscipline, InMutex
  <2> QED
    BY <1>1, <1>5, <2>1 DEF ReadMove, Go
<1> QED
  BY <1>3, <1>4, <1>5, RingWriters

LEMMA TmpStep == IInv /\ [Next]_vars => TmpCopied'
<1> SUFFICES ASSUME IInv, [Next]_vars, NEW r \in Readers, pc'[r] \in {"give", "move"}
             PROVE  (/\ count[r] = Len(tmp[r]) /\ count[r] <= Occupancy
                     /\ tmp[r] = CopyFrom(tail, count[r]))'
  BY DEF TmpCopied
<1>h. head \in Index /\ tail \in Index /\ count[r] \in Nat \cup {-ERESTARTSYS}
  BY DEF IInv, TypeOK
<1>1. CASE ReadGet(r)
  <2> DEFINE c == IF count[r] < Occupancy THEN count[r] ELSE Occupancy
  <2>1. Occupancy \in Nat
    BY <1>h, Count DEF Occupancy
  <2>2. count[r] \in Nat
    BY <1>1 DEF IInv, CountIsSize, ReadGet, Go, ReaderAt, Over
  <2>3. c \in Nat /\ c <= Occupancy
    BY <2>1, <2>2
  <2>4. count'[r] = c /\ tmp'[r] = CopyFrom(tail, c) /\ UNCHANGED ringVars
    BY <1>1 DEF ReadGet, Occupancy, IInv, TypeOK
  <2>5. Len(CopyFrom(tail, c)) = c
    BY <2>3, CopyIsSeq DEF IInv
  <2> HIDE DEF c
  <2>6. Occupancy' = Occupancy
    BY <2>4 DEF ringVars, Occupancy
  <2>7. CopyFrom(tail, count[r])' = CopyFrom(tail, c)
    BY <2>4 DEF ringVars, CopyFrom
  <2> QED
    BY <2>3, <2>4, <2>5, <2>6, <2>7
<1>2. CASE ~ReadGet(r)
  <2>1. /\ pc[r] \in {"give", "move"}
        /\ count'[r] = count[r] /\ tmp'[r] = tmp[r]
    <3> USE DEF IInv, TypeOK, Procs, Go, localVars
    <3>1. CASE ReadCall(r) \/ ReadInterrupted(r) \/ ReadSignal(r)
      BY <3>1 DEF ReadCall, ReadInterrupted, ReadSignal
    <3>2. CASE MutexLock(r) \/ ReadTest(r) \/ ReadPrepare(r) \/ ReadCond(r) \/ ReadWake(r)
      BY <3>2 DEF MutexLock, ReadTest, ReadPrepare, ReadCond, ReadWake
    <3>3. CASE ReadSpinLock(r) \/ ReadCopyToUser(r) \/ ReadMove(r) \/ ReadReturn(r)
      BY <3>3 DEF ReadSpinLock, ReadCopyToUser, ReadMove, ReadReturn
    <3> QED
      BY <1>2, <3>1, <3>2, <3>3, ReaderFrame DEF ReadStep
  <2>2. count[r] = Len(tmp[r]) /\ count[r] <= Occupancy /\ tmp[r] = CopyFrom(tail, count[r])
    BY <2>1 DEF IInv, TmpCopied
  <2>3. count[r] \in Nat
    BY <2>1 DEF IInv, CountIsSize, ReaderAt, Over
  <2>4. CASE UNCHANGED ringVars
    BY <2>1, <2>2, <2>4 DEF ringVars, Occupancy, CopyFrom
  <2>5. CASE TimerStore
    <3>1. UNCHANGED <<head, tail>> /\ \A i \in Index \ {head} : buf'[i] = buf[i]
      BY <2>5 DEF TimerStore, IInv, TypeOK
    <3>2. \A k \in 1 .. count[r] : tail + k - 1 < BUF_LEN
                                     => tail + k - 1 \in Index \ {head}
      BY <1>h, <2>2, <2>3 DEF Occupancy, cbuf_count_to_end, Index
    <3>3. CopyFrom(tail, count[r])' = CopyFrom(tail, count[r])
      BY <2>1, <3>1, <3>2 DEF CopyFrom
    <3> QED
      BY <2>1, <2>2, <3>1, <3>3 DEF Occupancy
  <2>6. CASE TimerMove
    <3>1. UNCHANGED <<tail, buf>>
      BY <2>6 DEF TimerMove
    <3>2. Occupancy' = Occupancy + 1 /\ Occupancy \in Nat
      BY <1>h, <2>6, HeadMoves, Count DEF Occupancy
    <3> QED
      BY <2>1, <2>2, <2>3, <3>1, <3>2 DEF CopyFrom
  <2>7. ASSUME NEW q \in Readers, ReadMove(q) PROVE FALSE
    <3>1. q = r
      BY <2>1, <2>7 DEF ReadMove, Go, IInv, LockDiscipline, InMutex
    <3> QED
      BY <2>7, <3>1 DEF ReadMove, Go, IInv, TypeOK, Procs
  <2> QED
    BY <2>4, <2>5, <2>6, <2>7, RingWriters
<1> QED
  BY <1>1, <1>2

LEMMA RoomStep == IInv /\ [Next]_vars => RoomForStore'
<1> SUFFICES ASSUME IInv, [Next]_vars, tpc' \in {"store", "move"}
             PROVE  ~cbuf_is_full(head, tail, BUF_LEN)'
  BY DEF RoomForStore
<1> USE DEF IInv, RoomForStore, TimerGo
<1>1. CASE TimerNext
  BY <1>1 DEF TimerNext, TimerLock, TimerCheck, TimerStore, TimerMove, TimerUnlock,
       TimerWake, TimerKill, ringVars
<1>2. CASE UNCHANGED tpc /\ UNCHANGED ringVars
  BY <1>2 DEF ringVars
<1>3. ASSUME NEW r \in Readers, ReadMove(r)
      PROVE  ~cbuf_is_full(head, tail, BUF_LEN)'
  BY <1>3, TailMoves DEF ReadMove, timerVars
<1>4. TimerNext \/ UNCHANGED ringVars \/ \E r \in Readers : ReadMove(r)
  BY RingWriters DEF TimerNext
<1> QED
  BY <1>1, <1>2, <1>3, <1>4, TimerFrame DEF timerVars

LEMMA HeadStep == IInv /\ [Next]_vars => StoredAtHead'
<1> SUFFICES ASSUME IInv, [Next]_vars, tpc' = "move"
             PROVE  buf'[head'] = d' /\ d' \in Letter
  BY DEF StoredAtHead
<1>1. CASE TimerStore
  BY <1>1, NewCharType DEF TimerStore, IInv, TypeOK
<1>2. CASE TimerNext /\ ~TimerStore
  BY <1>2 DEF TimerNext, TimerLock, TimerCheck, TimerMove, TimerUnlock, TimerWake,
       TimerKill, TimerGo
<1>3. CASE UNCHANGED timerVars
  <2>1. UNCHANGED <<buf, head>>
    BY <1>3, RingWriters DEF ringVars, timerVars, TimerStore, TimerMove, TimerGo, ReadMove
  <2> QED
    BY <1>3, <2>1 DEF timerVars, IInv, StoredAtHead
<1> QED
  BY <1>1, <1>2, <1>3, TimerFrame

LEMMA AfterIndex ==
  ASSUME NEW i \in Index
  PROVE  /\ After(i) \in Index
         /\ After(i) = IF i + 1 < BUF_LEN THEN i + 1 ELSE 0
<1>1. 1 \in 0 .. BUF_LEN
  OBVIOUS
<1> QED
  BY <1>1, Move DEF After, Index

LEMMA RingStep == IInv /\ [Next]_vars => RingConsecutive'
<1> SUFFICES ASSUME IInv, [Next]_vars, NEW i \in Index, Unread(i)'
             PROVE  /\ buf'[i] \in Letter
                    /\ IF After(i) # head' THEN buf'[After(i)] = NewChar(buf'[i])
                       ELSE IF tpc' = "move" THEN d' = NewChar(buf'[i]) /\ buf'[head'] = d'
                       ELSE buf'[i] = d'
  BY DEF RingConsecutive, After
<1> USE DEF IInv
<1>h. head \in Index /\ tail \in Index /\ After(i) \in Index
  BY AfterIndex DEF TypeOK
<1>1. CASE TimerStore
  <2>1. /\ d' = NewChar(d) /\ UNCHANGED <<head, tail>> /\ tpc = "store" /\ tpc' = "move"
        /\ buf' = [buf EXCEPT ![head] = NewChar(d)]
    BY <1>1 DEF TimerStore, TimerGo
  <2>2. Unread(i) /\ i # head
    BY <1>h, <2>1 DEF Unread, Index
  <2> QED
    BY <1>h, <2>1, <2>2 DEF RingConsecutive, TypeOK
<1>2. CASE TimerMove
  <2>1. /\ head' = After(head) /\ UNCHANGED <<buf, tail, d>>
        /\ tpc = "move" /\ tpc' = "unlock"
    BY <1>2 DEF TimerMove, TimerGo, After, timerVars
  <2>2. Unread(i) \/ i = head
    BY <1>2, HeadMoves
  <2>3. head' # tail
    BY <1>2, HeadMoves, <2>1 DEF IsEmpty, cbuf_is_empty
  <2>4. CASE i = head
    BY <2>1, <2>4 DEF StoredAtHead
  <2>5. CASE Unread(i) /\ i # head
    <3>1. After(i) # head'
      BY <1>h, <2>1, <2>5, AfterIndex DEF Index
    <3> QED
      BY <2>1, <2>5, <3>1 DEF RingConsecutive
  <2> QED
    BY <2>2, <2>4, <2>5
<1>3. ASSUME NEW r \in Readers, ReadMove(r)
      PROVE  Unread(i) /\ UNCHANGED <<buf, head, timerVars>>
  BY <1>3, TailMoves DEF ReadMove
<1>4. CASE UNCHANGED ringVars /\ ~TimerStore /\ ~TimerMove
  <2>1. Unread(i)
    BY <1>4 DEF Unread, ringVars
  <2>2. UNCHANGED d /\ (tpc = "move" <=> tpc' = "move")
    BY <1>4, TimerFrame
    DEF TimerNext, TimerLock, TimerCheck, TimerUnlock, TimerWake, TimerKill, TimerGo,
        timerVars
  <2> QED
    BY <1>4, <2>1, <2>2 DEF ringVars, RingConsecutive
<1> QED
  BY <1>1, <1>2, <1>3, <1>4, RingWriters DEF RingConsecutive, timerVars

\* Nobody but a poller itself changes its control state, and only the wake-up
\* marks it as triggered.
LEMMA PollerFrame ==
  ASSUME IInv, [Next]_vars, NEW p \in Pollers
  PROVE  \/ /\ pc'[p] = pc[p]
            /\ p \in triggered => p \in triggered'
            /\ p \in queue => p \in queue'
         \/ SelectCall(p) \/ PollStep(p) \/ SelectInterrupted(p)
<1> USE DEF IInv, TypeOK, Procs, Go, ringVars, lockVars, waitVars, sigVars, timerVars,
            localVars
<1>1. CASE TimerNext
  BY <1>1 DEF TimerNext, TimerLock, TimerCheck, TimerStore, TimerMove, TimerUnlock,
       TimerWake, TimerKill
<1>2. ASSUME NEW q \in Readers,
             ReadCall(q) \/ ReadStep(q) \/ ReadInterrupted(q) \/ ReadSignal(q)
      PROVE  /\ pc'[p] = pc[p]
             /\ p \in triggered => p \in triggered'
             /\ p \in queue => p \in queue'
  BY <1>2 DEF ReadStep, ReadCall, MutexLock, ReadTest, ReadPrepare, ReadCond, ReadWake,
       ReadSignal, ReadInterrupted, ReadSpinLock, ReadGet, ReadCopyToUser, ReadMove,
       ReadReturn
<1>3. ASSUME NEW q \in Pollers, q # p,
             SelectCall(q) \/ PollStep(q) \/ SelectInterrupted(q)
      PROVE  /\ pc'[p] = pc[p]
             /\ p \in triggered => p \in triggered'
             /\ p \in queue => p \in queue'
  BY <1>3 DEF SelectCall, PollStep, SelectInterrupted, PollWait, MutexLock, PollTest,
       PollAwake, Deregister
<1>4. ASSUME NEW o \in Owners,
             SigioDelivered(o) \/ \E on \in BOOLEAN : Fasync(o, on)
      PROVE  /\ pc'[p] = pc[p]
             /\ p \in triggered => p \in triggered'
             /\ p \in queue => p \in queue'
  BY <1>4 DEF SigioDelivered, Fasync
<1> QED
  BY <1>1, <1>2, <1>3, <1>4 DEF Next, vars

LEMMA PollersStep == IInv /\ [Next]_vars => PollersQueued'
<1> SUFFICES ASSUME IInv, [Next]_vars, NEW p \in Pollers,
                    pc'[p] \in {"mutex", "test", "sleep"}
             PROVE  p \in queue'
  BY DEF PollersQueued
<1> USE DEF IInv, TypeOK, PollersQueued, Procs, Go, waitVars
<1>1. CASE /\ pc'[p] = pc[p]
           /\ p \in queue => p \in queue'
  BY <1>1
<1>2. CASE SelectCall(p) \/ SelectInterrupted(p)
  BY <1>2 DEF SelectCall, SelectInterrupted
<1>3. CASE PollStep(p)
  BY <1>3 DEF PollStep, PollWait, MutexLock, PollTest, PollAwake, Deregister
<1> QED
  BY <1>1, <1>2, <1>3, PollerFrame

LEMMA WakeStep == IInv /\ [Next]_vars => NoLostWakeup'
<1> SUFFICES ASSUME IInv, [Next]_vars, ~IsEmpty'
             PROVE  /\ \A r \in Readers : pc'[r] = "sleep" /\ r \in queue'
                                            => tpc' \in {"unlock", "wake"}
                    /\ \A p \in Pollers : pc'[p] = "sleep" /\ p \notin triggered'
                                            => tpc' \in {"unlock", "wake"}
  BY DEF NoLostWakeup
<1> USE DEF IInv
<1>1. CASE TimerMove
  BY <1>1 DEF TimerMove, TimerGo
<1>2. CASE ~TimerMove
  <2>1. ~IsEmpty
    <3>1. CASE UNCHANGED ringVars \/ TimerStore
      BY <3>1 DEF ringVars, TimerStore, IsEmpty
    <3>2. CASE \E r \in Readers : ReadMove(r)
      BY <3>2, TailMoves
    <3> QED
      BY <1>2, <3>1, <3>2, RingWriters
  <2>2. ASSUME NEW r \in Readers, pc'[r] = "sleep", r \in queue'
        PROVE  tpc' \in {"unlock", "wake"}
    <3>1. pc[r] = "sleep"
      BY <2>1, <2>2, ReaderFrame
      DEF TypeOK, Procs, Go, ReadCall, ReadInterrupted, ReadSignal, ReadStep, MutexLock,
          ReadTest, ReadPrepare, ReadCond, ReadWake, ReadSpinLock, ReadGet,
          ReadCopyToUser, ReadMove, ReadReturn
    <3>2. r \in queue /\ ~TimerWake
      BY <2>2, <3>1, SMTT(30)
      DEF TypeOK, Procs, Go, Next, vars, TimerNext, TimerLock, TimerCheck, TimerStore,
          TimerMove, TimerUnlock, TimerWake, TimerKill, ReadStep, ReadCall, MutexLock,
          ReadTest, ReadPrepare, ReadCond, ReadWake, ReadSignal, ReadInterrupted,
          ReadSpinLock, ReadGet, ReadCopyToUser, ReadMove, ReadReturn, SelectCall,
          PollStep, SelectInterrupted, PollWait, PollTest, PollAwake, Deregister,
          SigioDelivered, Fasync, waitVars, ChrdevAssumption
    <3>3. tpc \in {"unlock", "wake"}
      BY <2>1, <3>1, <3>2 DEF NoLostWakeup
    <3> QED
      BY <1>2, <3>2, <3>3, TimerFrame
      DEF TimerNext, TimerLock, TimerCheck, TimerStore, TimerMove, TimerUnlock, TimerKill,
          TimerGo, timerVars
  <2>3. ASSUME NEW p \in Pollers, pc'[p] = "sleep", p \notin triggered'
        PROVE  tpc' \in {"unlock", "wake"}
    <3>1. pc[p] = "sleep" /\ p \notin triggered
      <4>0. p \in Procs
        BY DEF Procs
      <4>1. CASE SelectCall(p) \/ PollWait(p) \/ MutexLock(p)
        BY <2>3, <4>0, <4>1 DEF TypeOK, Go, SelectCall, PollWait, MutexLock
      <4>2. CASE PollTest(p)
        BY <2>1, <2>3, <4>0, <4>2 DEF TypeOK, Go, PollTest, IsEmpty, ringVars
      <4>3. CASE PollAwake(p) \/ SelectInterrupted(p)
        BY <2>3, <4>0, <4>3 DEF TypeOK, Go, PollAwake, SelectInterrupted
      <4> QED
        BY <2>3, <4>1, <4>2, <4>3, PollerFrame DEF PollStep
    <3>2. ~TimerWake
      BY <2>3, <3>1 DEF TimerWake, PollersQueued
    <3>3. tpc \in {"unlock", "wake"}
      BY <2>1, <3>1 DEF NoLostWakeup
    <3> QED
      BY <1>2, <3>2, <3>3, TimerFrame
      DEF TimerNext, TimerLock, TimerCheck, TimerStore, TimerMove, TimerUnlock, TimerKill,
          TimerGo, timerVars
  <2> QED
    BY <2>2, <2>3
<1> QED
  BY <1>1, <1>2

-----------------------------------------------------------------------------
(* The theorems. *)

THEOREM Invariance == Spec => []IInv
<1>1. Init => IInv
  BY InitInv
<1>2. IInv /\ [Next]_vars => IInv'
  BY TypeStep, LockStep, CountStep, DataStep, TmpStep, RoomStep, HeadStep, RingStep,
     PollersStep, WakeStep DEF IInv
<1> QED
  BY <1>1, <1>2, PTL DEF Spec

\* The types of the fields and locals hold, so the indices stay inside buf.
THEOREM TypeCorrect == Spec => []TypeOK
BY Invariance, PTL DEF IInv

\* The mutex and the spin lock exclude for any number of processes.
THEOREM MutualExclusion == Spec => []LockDiscipline
BY Invariance, PTL DEF IInv

\* No overwritten, skipped or half-published letter, for any buffer size.
THEOREM RingIsConsecutive == Spec => []RingConsecutive
BY Invariance, PTL DEF IInv

\* As long as the ring or every request fits in tmp, so does every copy.
Fits ==
  \A r \in Readers : /\ Len(tmp[r]) <= TMP_LEN
                     /\ BUF_LEN <= TMP_LEN + 1 \/ count[r] <= TMP_LEN

LEMMA FitsStep ==
  ASSUME CopiesFit, IInv, Fits, [Next]_vars
  PROVE  Fits'
<1> SUFFICES ASSUME NEW r \in Readers
             PROVE  (/\ Len(tmp[r]) <= TMP_LEN
                     /\ BUF_LEN <= TMP_LEN + 1 \/ count[r] <= TMP_LEN)'
  BY DEF Fits
<1> USE DEF IInv, TypeOK, Fits, localVars
<1>1. CASE count'[r] = count[r] /\ tmp'[r] = tmp[r]
  BY <1>1
<1>2. CASE ReadCall(r)
  BY <1>2 DEF ReadCall, CopiesFit
<1>3. CASE ReadInterrupted(r)
  BY <1>3 DEF ReadInterrupted, ERESTARTSYS
<1>4. CASE ReadReturn(r)
  <2>1. tmp'[r] = << >> /\ count'[r] = count[r]
    BY <1>4 DEF ReadReturn
  <2> QED
    BY <2>1
<1>5. CASE ReadGet(r)
  <2> DEFINE n == cbuf_count_to_end(head, tail, BUF_LEN)
             c == IF count[r] < n THEN count[r] ELSE n
  <2>1. n \in 0 .. BUF_LEN - 1
    BY Count
  <2>2. count[r] \in Nat
    BY <1>5 DEF ReadGet, Go, CountIsSize, ReaderAt, Over
  <2>3. c \in Nat /\ c <= BUF_LEN - 1 /\ c <= count[r]
    BY <2>1, <2>2
  <2>4. count'[r] = c /\ tmp'[r] = CopyFrom(tail, c)
    BY <1>5 DEF ReadGet
  <2> HIDE DEF c
  <2>5. Len(tmp'[r]) = c
    BY <2>3, <2>4, CopyIsSeq
  <2> QED
    BY <2>2, <2>3, <2>4, <2>5
<1>6. CASE (ReadStep(r) /\ ~ReadGet(r) /\ ~ReadReturn(r)) \/ ReadSignal(r)
  <2>1. count'[r] = count[r] /\ tmp'[r] = tmp[r]
    BY <1>6 DEF ReadStep, MutexLock, ReadTest, ReadPrepare, ReadCond, ReadWake, ReadSignal,
         ReadSpinLock, ReadCopyToUser, ReadMove
  <2> QED
    BY <2>1
<1> QED
  BY <1>1, <1>2, <1>3, <1>4, <1>5, <1>6, ReaderFrame

\* What a reader copied stays the oldest unread data until the tail moves, and
\* is inside tmp - which takes that the ring or every request is small enough.
THEOREM CopyStaysValid ==
  ASSUME CopiesFit
  PROVE  Spec => []TmpIsPrefix
<1>1. Init => Fits
  BY DEF Init, Fits
<1>2. IInv /\ Fits /\ [Next]_vars => Fits'
  BY FitsStep
<1>3. IInv /\ Fits => TmpIsPrefix
  BY DEF IInv, Fits, TmpIsPrefix
<1> QED
  BY <1>1, <1>2, <1>3, Invariance, PTL DEF Spec

\* The timer's test for room is not invalidated by an unlocked move of the tail.
THEOREM RoomIsKept == Spec => []RoomForStore
BY Invariance, PTL DEF IInv

\* A reader that saw data finds it.
THEOREM DataIsKept == Spec => []DataStaysUntilTaken
BY Invariance, PTL DEF IInv

\* No sleeping reader or poller misses the arrival of data.
THEOREM WakeupsAreNotLost == Spec => []NoLostWakeup
BY Invariance, PTL DEF IInv

\* No unread byte is overwritten, and under the spin lock the ring stands still.
THEOREM StoresAreSafe == Spec => StoreOnlyInFreeRoom
<1> DEFINE Safe == /\ \A i \in Index : Unread(i) => buf'[i] = buf[i]
                   /\ lock \in Readers => UNCHANGED ringVars
<1>1. IInv /\ [Next]_vars => [Safe]_vars
  <2> SUFFICES ASSUME IInv, [Next]_vars PROVE Safe
    OBVIOUS
  <2> USE DEF IInv, TypeOK
  <2>1. CASE UNCHANGED ringVars
    BY <2>1 DEF ringVars
  <2>2. CASE TimerStore
    <3>1. \A i \in Index : Unread(i) => i # head
      BY DEF Unread, Index
    <3>2. lock = Timer
      BY <2>2 DEF LockDiscipline, TimerStore, TimerGo
    <3> QED
      BY <2>2, <3>1, <3>2 DEF TimerStore, Procs
  <2>3. CASE TimerMove
    BY <2>3 DEF TimerMove, TimerGo, LockDiscipline, Procs
  <2>4. ASSUME NEW r \in Readers, ReadMove(r) PROVE Safe
    BY <2>4 DEF ReadMove, Go, LockDiscipline, InMutex
  <2> QED
    BY <2>1, <2>2, <2>3, <2>4, RingWriters
<1> QED
  BY <1>1, Invariance, PTL DEF Spec, StoreOnlyInFreeRoom, Safe

-----------------------------------------------------------------------------
(* Read byte by byte, the device is a FIFO *)

Mark == Letter \cup {Zero}

\* n bytes of b, from the g-th position after t on, round the end of the array.
Queue(b, t, g, n) ==
  [k \in 1 .. n |-> b[cbuf_pointer_move(t, g + k - 1, BUF_LEN)]]

LEMMA QueueIsSeq ==
  ASSUME NEW b \in [Index -> Mark], NEW t \in Index, NEW g \in Nat, NEW n \in Nat,
         g + n <= BUF_LEN
  PROVE  /\ Queue(b, t, g, n) \in Seq(Mark) /\ Len(Queue(b, t, g, n)) = n
         /\ \A k \in 1 .. n :
              Queue(b, t, g, n)[k] = b[cbuf_pointer_move(t, g + k - 1, BUF_LEN)]
<1>1. \A k \in 1 .. n : b[cbuf_pointer_move(t, g + k - 1, BUF_LEN)] \in Mark
  <2> TAKE k \in 1 .. n
  <2>1. g + k - 1 \in 0 .. BUF_LEN
    OBVIOUS
  <2>2. cbuf_pointer_move(t, g + k - 1, BUF_LEN) \in Index
    BY <2>1, Move
  <2> QED
    BY <2>2
<1> QED
  BY <1>1 DEF Queue

\* Two moves in one.
LEMMA MoveTwice ==
  ASSUME NEW i \in Index, NEW m \in Nat, NEW n \in Nat, m + n <= BUF_LEN
  PROVE  cbuf_pointer_move(cbuf_pointer_move(i, m, BUF_LEN), n, BUF_LEN)
           = cbuf_pointer_move(i, m + n, BUF_LEN)
<1> DEFINE j == cbuf_pointer_move(i, m, BUF_LEN)
<1>1. m \in 0 .. BUF_LEN /\ n \in 0 .. BUF_LEN /\ m + n \in 0 .. BUF_LEN
  OBVIOUS
<1>2. j \in Index /\ j = IF i + m < BUF_LEN THEN i + m ELSE i + m - BUF_LEN
  BY <1>1, Move
<1>3. cbuf_pointer_move(i, m + n, BUF_LEN)
        = IF i + (m + n) < BUF_LEN THEN i + (m + n) ELSE i + (m + n) - BUF_LEN
  BY <1>1, Move
<1> HIDE DEF j
<1>4. cbuf_pointer_move(j, n, BUF_LEN)
        = IF j + n < BUF_LEN THEN j + n ELSE j + n - BUF_LEN
  BY <1>1, <1>2, Move
<1>5. cbuf_pointer_move(j, n, BUF_LEN) = cbuf_pointer_move(i, m + n, BUF_LEN)
  BY <1>2, <1>3, <1>4 DEF Index
<1> QED
  BY <1>5 DEF j

\* Where the newest unread byte is, and how many there can be.
LEMMA Places ==
  ASSUME NEW h \in Index, NEW t \in Index
  PROVE  LET n == cbuf_count_to_end(h, t, BUF_LEN)
         IN  /\ cbuf_pointer_move(t, n, BUF_LEN) = h
             /\ \A k \in 0 .. n - 1 : cbuf_pointer_move(t, k, BUF_LEN) # h
             /\ ~cbuf_is_full(h, t, BUF_LEN) => n + 1 <= BUF_LEN - 1
<1> DEFINE n == cbuf_count_to_end(h, t, BUF_LEN)
<1>1. n \in 0 .. BUF_LEN - 1
  BY Count
<1>2. cbuf_pointer_move(t, n, BUF_LEN) = IF t + n < BUF_LEN THEN t + n ELSE t + n - BUF_LEN
  BY <1>1, Move
<1>3. \A k \in 0 .. n - 1 :
        cbuf_pointer_move(t, k, BUF_LEN) = IF t + k < BUF_LEN THEN t + k ELSE t + k - BUF_LEN
  BY <1>1, Move
<1>4. cbuf_pointer_move(h, 1, BUF_LEN)
        = IF h + 1 < BUF_LEN THEN h + 1 ELSE h + 1 - BUF_LEN
  BY Move, 1 \in 0 .. BUF_LEN
<1>5. n = IF h >= t THEN h - t ELSE BUF_LEN - t + h
  BY DEF cbuf_count_to_end
<1> HIDE DEF n
<1>6. cbuf_pointer_move(t, n, BUF_LEN) = h
  BY <1>1, <1>2, <1>5 DEF Index
<1>7. \A k \in 0 .. n - 1 : cbuf_pointer_move(t, k, BUF_LEN) # h
  BY <1>1, <1>3, <1>5 DEF Index
<1>8. ~cbuf_is_full(h, t, BUF_LEN) => n + 1 <= BUF_LEN - 1
  BY <1>1, <1>4, <1>5, Full DEF Index
<1> QED
  BY <1>6, <1>7, <1>8 DEF n

\* What is given is at most what is there, and what is stored fits.
LEMMA PendingSizes ==
  ASSUME IInv
  PROVE  /\ Occupancy \in Nat /\ Given \in {0, 1} /\ Stored \in {0, 1}
         /\ Given <= Occupancy /\ Occupancy + Stored <= BUF_LEN - 1
         /\ Pending = Queue(buf, tail, Given, Occupancy - Given + Stored)
         /\ Pending \in Seq(Mark) /\ Len(Pending) = Occupancy - Given + Stored
         /\ \A k \in 1 .. Occupancy - Given + Stored :
              Pending[k] = buf[cbuf_pointer_move(tail, Given + k - 1, BUF_LEN)]
<1>1. head \in Index /\ tail \in Index /\ buf \in [Index -> Mark]
  BY DEF IInv, TypeOK, Mark
<1>2. Occupancy \in 0 .. BUF_LEN - 1
  BY <1>1, Count DEF Occupancy
<1>3. Given \in {0, 1} /\ Stored \in {0, 1}
  BY DEF Given, Stored
<1>4. Given <= Occupancy
  <2>1. CASE \E r \in Readers : pc[r] = "move" /\ count[r] > 0
    <3>1. PICK r \in Readers : pc[r] = "move" /\ count[r] > 0
      BY <2>1
    <3>2. count[r] \in Nat /\ count[r] <= Occupancy
      BY <3>1 DEF IInv, CountIsSize, TmpCopied, ReaderAt, Over
    <3> QED
      BY <1>2, <1>3, <3>1, <3>2
  <2>2. CASE ~\E r \in Readers : pc[r] = "move" /\ count[r] > 0
    BY <1>2, <2>2 DEF Given
  <2> QED
    BY <2>1, <2>2
<1>5. Occupancy + Stored <= BUF_LEN - 1
  <2>1. CASE tpc = "move"
    BY <1>1, <1>3, <2>1, Places DEF IInv, RoomForStore, Occupancy, Stored
  <2>2. CASE tpc # "move"
    BY <1>2, <2>2 DEF Stored
  <2> QED
    BY <2>1, <2>2
<1>6. Pending = Queue(buf, tail, Given, Occupancy - Given + Stored)
  BY DEF Pending, Queue
<1>7. Occupancy - Given + Stored \in Nat /\ Given \in Nat
      /\ Given + (Occupancy - Given + Stored) <= BUF_LEN
  BY <1>2, <1>3, <1>4, <1>5
<1> DEFINE g == Given
           n == Occupancy - Given + Stored
<1>8. /\ Queue(buf, tail, g, n) \in Seq(Mark) /\ Len(Queue(buf, tail, g, n)) = n
      /\ \A k \in 1 .. n :
           Queue(buf, tail, g, n)[k] = buf[cbuf_pointer_move(tail, g + k - 1, BUF_LEN)]
  <2>1. g \in Nat /\ n \in Nat /\ g + n <= BUF_LEN
    BY <1>7
  <2> HIDE DEF g, n
  <2> QED
    BY <1>1, <2>1, QueueIsSeq
<1> QED
  BY <1>2, <1>3, <1>4, <1>5, <1>6, <1>8

LEMMA SamePending ==
  ASSUME UNCHANGED ringVars, Given' = Given, Stored' = Stored
  PROVE  Pending' = Pending
BY DEF ringVars, Pending, Occupancy

LEMMA FifoInit == Init => Fifo!Init
<1> SUFFICES ASSUME Init PROVE Fifo!Init
  OBVIOUS
<1>1. IInv
  BY InitInv
<1>2. Occupancy = 0 /\ Given = 0 /\ Stored = 0
  BY DEF Init, Occupancy, cbuf_count_to_end, Given, Stored, Procs
<1>3. Len(Pending) = 0 /\ Pending \in Seq(Mark)
  BY <1>1, <1>2, PendingSizes
<1>4. Pending = << >>
  BY <1>3, EmptySeq
<1>5. Asking = {}
  BY DEF Init, Asking, Over, Procs
<1> QED
  BY <1>4, <1>5 DEF Init, Fifo!Init
\* The ring does not change, nor who is given what: nothing happens to the queue.
LEMMA GivenFrame ==
  ASSUME \A r \in Readers : (pc'[r] = "move" /\ count'[r] > 0)
                              <=> (pc[r] = "move" /\ count[r] > 0)
  PROVE  Given' = Given
BY DEF Given

\* The letter that is stored is the next in the queue.
LEMMA StoreProduces ==
  ASSUME IInv, IInv', TimerStore
  PROVE  Fifo!Produce
<1> DEFINE n == Occupancy - Given
           x == NewChar(d)
<1>1. /\ head \in Index /\ tail \in Index /\ d \in Letter \cup {-1}
      /\ tpc = "store" /\ tpc' = "move" /\ d' = x /\ buf' = [buf EXCEPT ![head] = x]
      /\ buf \in [Index -> Mark] /\ UNCHANGED <<head, tail, pc, localVars>>
  BY DEF TimerStore, TimerGo, IInv, TypeOK, Mark
<1>2. x \in Mark
  BY <1>1, NewCharType DEF Mark
<1>3. Stored = 0 /\ Stored' = 1 /\ Given' = Given /\ Occupancy' = Occupancy
  BY <1>1 DEF Stored, Given, Occupancy, localVars
<1>4. /\ Given \in {0, 1} /\ Given <= Occupancy /\ Occupancy \in Nat
      /\ Pending \in Seq(Mark) /\ Len(Pending) = n
      /\ \A k \in 1 .. n : Pending[k] = buf[cbuf_pointer_move(tail, Given + k - 1, BUF_LEN)]
  <2>1. Given \in {0, 1} /\ Given <= Occupancy /\ Occupancy \in Nat
    BY PendingSizes
  <2>2. Occupancy - Given + Stored = n
    BY <1>3, <2>1
  <2> HIDE DEF n
  <2> QED
    BY <2>1, <2>2, PendingSizes
<1>5. n \in Nat /\ n < BUF_LEN - 1 /\ Occupancy < BUF_LEN - 1
  BY <1>1, <1>4, Places DEF IInv, RoomForStore, Occupancy
<1>6. /\ cbuf_pointer_move(tail, Occupancy, BUF_LEN) = head
      /\ \A k \in 0 .. Occupancy - 1 :
           cbuf_pointer_move(tail, k, BUF_LEN) \in Index \ {head}
  <2>1. \A k \in 0 .. Occupancy - 1 : cbuf_pointer_move(tail, k, BUF_LEN) \in Index
    <3> TAKE k \in 0 .. Occupancy - 1
    <3>1. k \in 0 .. BUF_LEN
      BY <1>4, <1>5
    <3> QED
      BY <1>1, <3>1, Move
  <2> QED
    BY <1>1, <2>1, Places DEF Occupancy
<1>7. /\ Append(Pending, x) \in Seq(Mark) /\ Len(Append(Pending, x)) = n + 1
      /\ \A k \in 1 .. n : Append(Pending, x)[k] = Pending[k]
      /\ Append(Pending, x)[n + 1] = x
  BY <1>2, <1>4, AppendProperties
<1>8. Pending' = Queue(buf', tail, Given, n + 1)
  BY <1>1, <1>3 DEF Pending, Queue
<1> HIDE DEF n, x
<1>9. Given + (n + 1) <= BUF_LEN
  BY <1>4, <1>5 DEF n
<1>10. /\ Pending' \in Seq(Mark) /\ Len(Pending') = n + 1
       /\ \A k \in 1 .. n + 1 :
            Pending'[k] = buf'[cbuf_pointer_move(tail, Given + k - 1, BUF_LEN)]
  <2> DEFINE g == Given
             m == n + 1
             b == buf'
  <2>1. b \in [Index -> Mark] /\ g \in Nat /\ m \in Nat /\ g + m <= BUF_LEN
    BY <1>1, <1>2, <1>4, <1>5, <1>9
  <2>3. tail \in Index
    BY <1>1
  <2> HIDE DEF g, m, b
  <2>2. /\ Queue(b, tail, g, m) \in Seq(Mark) /\ Len(Queue(b, tail, g, m)) = m
        /\ \A k \in 1 .. m :
             Queue(b, tail, g, m)[k] = b[cbuf_pointer_move(tail, g + k - 1, BUF_LEN)]
    BY <2>1, <2>3, QueueIsSeq
  <2> QED
    BY <1>8, <2>2 DEF g, m, b
<1>11. \A k \in 1 .. n + 1 : Pending'[k] = Append(Pending, x)[k]
  <2> TAKE k \in 1 .. n + 1
  <2>1. CASE k \in 1 .. n
    <3>1. Given + k - 1 \in 0 .. Occupancy - 1
      BY <1>4, <2>1 DEF n
    <3>2. cbuf_pointer_move(tail, Given + k - 1, BUF_LEN) \in Index \ {head}
      BY <1>6, <3>1
    <3> DEFINE i == cbuf_pointer_move(tail, Given + k - 1, BUF_LEN)
    <3>3. Pending[k] = buf[i] /\ Pending'[k] = buf'[i]
      BY <1>4, <1>10, <2>1 DEF n
    <3>4. i \in Index \ {head}
      BY <3>2
    <3> HIDE DEF i
    <3>5. buf'[i] = buf[i]
      BY <1>1, <3>4
    <3>6. Append(Pending, x)[k] = Pending[k]
      BY <1>7, <2>1
    <3> QED
      BY <3>3, <3>5, <3>6
  <2>2. CASE k = n + 1
    <3>1. Given + k - 1 = Occupancy
      BY <1>4, <2>2 DEF n
    <3> QED
      BY <1>1, <1>6, <1>7, <1>10, <2>2, <3>1
  <2>3. n \in Nat
    BY <1>5
  <2>4. k \in 1 .. n \/ k = n + 1
    BY <2>3
  <2> QED
    BY <2>1, <2>2, <2>4
<1>12. Pending' = Append(Pending, x)
  BY <1>7, <1>10, <1>11, SeqEqual
<1>13. UNCHANGED <<Asking, user>>
  BY <1>1 DEF Asking, localVars
<1>14. x = Fifo!Successor(d)
  BY DEF x, NewChar, Fifo!Successor
<1> QED
  BY <1>1, <1>4, <1>5, <1>12, <1>13, <1>14 DEF Fifo!Produce

\* Publishing it changes nothing.
LEMMA MovePublishes ==
  ASSUME IInv, TimerMove
  PROVE  UNCHANGED Fifo!vars
<1>1. UNCHANGED <<buf, tail, d, pc, localVars>> /\ tpc = "move" /\ tpc' = "unlock"
  BY DEF TimerMove, TimerGo
<1>2. Occupancy' = Occupancy + 1 /\ Given' = Given /\ Stored = 1 /\ Stored' = 0
  BY <1>1, HeadMoves DEF Given, Stored, localVars
<1>3. Occupancy \in Nat /\ Given \in {0, 1}
  BY PendingSizes
<1>4. Occupancy' - Given' + Stored' = Occupancy - Given + Stored
  BY <1>2, <1>3
<1>5. Pending' = Pending
  BY <1>1, <1>2, <1>4 DEF Pending
<1> QED
  BY <1>1, <1>5 DEF Fifo!vars, Asking, localVars

\* Of a reader that copies nothing out, the queue sees whether it still asks.
LEMMA QuietReader ==
  ASSUME NEW r \in Readers, UNCHANGED <<ringVars, timerVars, user>>,
         pc[r] # "move", pc'[r] # "move",
         pc'[r] \in Over \/ r \in Asking,
         pc[r] \in Over => pc'[r] \in Over,
         \A q \in Readers \ {r} : pc'[q] = pc[q] /\ count'[q] = count[q]
  PROVE  Fifo!GiveUp(r) \/ UNCHANGED Fifo!vars
<1>1. Pending' = Pending
  <2>1. Given' = Given
    BY GivenFrame
  <2> QED
    BY <2>1, SamePending DEF timerVars, Stored
<1>2. CASE r \in Asking /\ pc'[r] \in Over
  <2>1. Asking' = Asking \ {r}
    BY <1>2 DEF Asking
  <2> QED
    BY <1>1, <1>2, <2>1 DEF Fifo!GiveUp, timerVars
<1>3. CASE r \notin Asking \/ pc'[r] \notin Over
  <2>1. Asking' = Asking
    BY <1>3 DEF Asking
  <2> QED
    BY <1>1, <2>1 DEF Fifo!vars, timerVars
<1> QED
  BY <1>2, <1>3
\* A call begins with nothing taken.
LEMMA CallBegins ==
  ASSUME IInv, NEW r \in Readers, ReadCall(r)
  PROVE  Fifo!Call(r)
<1>1. /\ UNCHANGED <<ringVars, timerVars>> /\ user' = [user EXCEPT ![r] = << >>]
      /\ pc[r] = "idle" /\ pc'[r] = "mutex"
      /\ \A q \in Readers \ {r} : pc'[q] = pc[q] /\ count'[q] = count[q]
  BY DEF ReadCall, Go, IInv, TypeOK, Procs
<1>2. Pending' = Pending
  <2>1. Given' = Given
    BY <1>1, GivenFrame
  <2> QED
    BY <1>1, <2>1, SamePending DEF timerVars, Stored
<1>3. r \notin Asking /\ Asking' = Asking \cup {r}
  BY <1>1 DEF Asking, Over
<1> QED
  BY <1>1, <1>2, <1>3 DEF Fifo!Call, timerVars

\* Calls ask for at most one byte.
OneByte ==
  \A r \in Readers : pc[r] \in (ReaderAt \ Over) => count[r] \in {0, 1}

\* Of the one byte that is given, the copy has the oldest of the queue.
LEMMA CopyTakes ==
  ASSUME IInv, IInv', OneByte, NEW r \in Readers, ReadCopyToUser(r)
  PROVE  \E n \in 0 .. Len(Pending) : \E m \in 0 .. n :
           n - m \in Faults /\ Fifo!Take(r, n, m)
<1> DEFINE c == count[r]
           N == Occupancy + Stored
<1>1. /\ UNCHANGED <<ringVars, timerVars, count, tmp>>
      /\ pc[r] = "give" /\ pc' = [pc EXCEPT ![r] = "move"] /\ pc \in [Procs -> ReaderAt \cup PollerAt]
      /\ user \in [Readers -> Seq(Byte)]
  BY DEF ReadCopyToUser, Go, IInv, TypeOK
<1>2. PICK u \in Faults :
        u <= c /\ user' = [user EXCEPT ![r] = SubSeq(tmp[r], 1, c - u)]
  BY DEF ReadCopyToUser
<1>3. c \in {0, 1} /\ c <= Occupancy /\ tmp[r] = CopyFrom(tail, c)
  BY <1>1 DEF OneByte, ReaderAt, Over, IInv, TmpCopied
<1>4. \A q \in Readers \ {r} : pc[q] # "move" /\ pc'[q] # "move"
  BY <1>1 DEF IInv, LockDiscipline, InMutex
<1>5. Given = 0 /\ Given' = c
  BY <1>1, <1>3, <1>4 DEF Given, Procs
<1>6. Occupancy' = Occupancy /\ Stored' = Stored
  BY <1>1 DEF Occupancy, Stored, ringVars, timerVars
<1>7. /\ Occupancy \in Nat /\ Stored \in {0, 1} /\ N <= BUF_LEN - 1
      /\ Pending \in Seq(Mark) /\ Len(Pending) = N
      /\ \A k \in 1 .. N : Pending[k] = buf[cbuf_pointer_move(tail, k - 1, BUF_LEN)]
  <2>1. Occupancy - Given + Stored = N
    BY <1>5, PendingSizes
  <2>2. \A k \in 1 .. N : Given + k - 1 = k - 1
    BY <1>5
  <2> HIDE DEF N
  <2>3. /\ Occupancy \in Nat /\ Stored \in {0, 1} /\ Occupancy + Stored <= BUF_LEN - 1
        /\ Pending \in Seq(Mark) /\ Len(Pending) = N
        /\ \A k \in 1 .. N :
             Pending[k] = buf[cbuf_pointer_move(tail, Given + k - 1, BUF_LEN)]
    BY <2>1, PendingSizes
  <2> QED
    BY <2>2, <2>3 DEF N
<1>8. N \in Nat /\ N - c \in Nat /\ c \in 0 .. N
  BY <1>3, <1>7
<1>9. /\ Pending' \in Seq(Mark) /\ Len(Pending') = N - c
      /\ \A k \in 1 .. N - c :
           Pending'[k] = buf[cbuf_pointer_move(tail, c + k - 1, BUF_LEN)]
  <2>1. Pending' = Queue(buf, tail, c, N - c)
    <3>1. Occupancy' - Given' + Stored' = N - c
      BY <1>3, <1>5, <1>6, <1>7
    <3>2. buf' = buf /\ tail' = tail
      BY <1>1 DEF ringVars
    <3> QED
      BY <1>5, <3>1, <3>2 DEF Pending, Queue
  <2>2. tail \in Index /\ buf \in [Index -> Mark]
    BY DEF IInv, TypeOK, Mark
  <2>3. c \in Nat /\ c + (N - c) <= BUF_LEN
    BY <1>3, <1>7
  <2> DEFINE n == N - c
             g == c
  <2>4. n \in Nat /\ g \in Nat /\ g + n <= BUF_LEN
    BY <1>8, <2>3
  <2> HIDE DEF n, g
  <2>5. /\ Queue(buf, tail, g, n) \in Seq(Mark) /\ Len(Queue(buf, tail, g, n)) = n
        /\ \A k \in 1 .. n :
             Queue(buf, tail, g, n)[k] = buf[cbuf_pointer_move(tail, g + k - 1, BUF_LEN)]
    BY <2>2, <2>4, QueueIsSeq
  <2> QED
    BY <2>1, <2>5 DEF n, g
<1> HIDE DEF N, c
<1>10. Pending' = SubSeq(Pending, c + 1, Len(Pending))
  <2> DEFINE s == SubSeq(Pending, c + 1, N)
  <2>1. c + 1 \in Int /\ N \in Int /\ \A i \in c + 1 .. N : Pending[i] \in Mark
    BY <1>7, <1>8, ElementOfSeq
  <2>2. /\ s \in Seq(Mark) /\ Len(s) = IF c + 1 <= N THEN N - (c + 1) + 1 ELSE 0
        /\ \A i \in 1 .. N - (c + 1) + 1 : s[i] = Pending[c + 1 + i - 1]
    BY <2>1, SubSeqProperties
  <2> HIDE DEF s
  <2>3. Len(s) = N - c
    BY <1>8, <2>2
  <2>4. \A k \in 1 .. N - c : Pending'[k] = s[k]
    <3> TAKE k \in 1 .. N - c
    <3>1. k \in 1 .. N - (c + 1) + 1 /\ c + 1 + k - 1 = c + k /\ c + k \in 1 .. N
          /\ c + k - 1 = (c + k) - 1
      BY <1>8
    <3>2. s[k] = Pending[c + k]
      BY <2>2, <3>1
    <3>3. Pending[c + k] = buf[cbuf_pointer_move(tail, (c + k) - 1, BUF_LEN)]
      BY <1>7, <3>1
    <3> QED
      BY <1>9, <3>1, <3>2, <3>3
  <2>5. Pending' = s
    BY <1>9, <2>2, <2>3, <2>4, SeqEqual
  <2> QED
    BY <1>7, <2>5 DEF s
<1> DEFINE m == c - u
<1>11. m \in 0 .. c /\ c - m = u /\ m \in {0, 1}
  <2>1. u \in Nat
    BY ChrdevAssumption
  <2> QED
    BY <1>2, <1>3, <2>1
<1>12. SubSeq(tmp[r], 1, m) = SubSeq(Pending, 1, m)
  <2>1. CASE m = 0
    <3>1. SubSeq(tmp[r], 1, 0) = << >> /\ SubSeq(Pending, 1, 0) = << >>
      BY SubSeqEmpty, 0 < 1
    <3> QED
      BY <2>1, <3>1
  <2>2. CASE m = 1
    <3>1. c = 1 /\ 1 \in 1 .. N
      BY <1>3, <1>8, <1>11, <2>2
    <3>2. tail \in Index
      BY DEF IInv, TypeOK
    <3>3. cbuf_pointer_move(tail, 0, BUF_LEN) = tail
      BY <3>2, Move, 0 \in 0 .. BUF_LEN DEF Index
    <3>4. Pending[1] = buf[tail]
      <4>1. 1 - 1 = 0
        OBVIOUS
      <4> QED
        BY <1>7, <3>1, <3>3, <4>1
    <3>5. tmp[r] = CopyFrom(tail, 1)
      BY <1>3, <3>1
    <3>6. CopyFrom(tail, 1)[1] = buf[tail]
      BY <3>2 DEF CopyFrom, Index
    <3>7. tmp[r][1] = buf[tail] /\ Pending[1] \in Mark
      BY <1>7, <3>1, <3>5, <3>6, ElementOfSeq
    <3>8. \A i \in 1 .. 1 : tmp[r][i] \in Mark /\ Pending[i] \in Mark
      BY <3>4, <3>7
    <3> DEFINE s == SubSeq(tmp[r], 1, 1)
               t == SubSeq(Pending, 1, 1)
    <3>9. /\ s \in Seq(Mark) /\ Len(s) = 1 /\ s[1] = tmp[r][1]
          /\ t \in Seq(Mark) /\ Len(t) = 1 /\ t[1] = Pending[1]
      BY <3>8, SubSeqProperties
    <3> HIDE DEF s, t
    <3>10. s = t
      BY <3>4, <3>7, <3>9, SeqEqual
    <3> QED
      BY <2>2, <3>10 DEF s, t
  <2> QED
    BY <1>11, <2>1, <2>2
<1>13. r \in Asking /\ Asking' = Asking \ {r}
  BY <1>1 DEF Asking, Over, Procs
<1>14. user' = [user EXCEPT ![r] = SubSeq(Pending, 1, m)]
  BY <1>2, <1>12
<1> HIDE DEF m
<1>15. Fifo!Take(r, c, m)
  BY <1>1, <1>10, <1>13, <1>14 DEF Fifo!Take, timerVars
<1>16. c \in 0 .. Len(Pending) /\ c - m \in Faults
  BY <1>7, <1>8, <1>11
<1> QED
  BY <1>11, <1>15, <1>16

LEMMA OneByteStep ==
  ASSUME Counts \subseteq {0, 1}, IInv, OneByte, [Next]_vars
  PROVE  OneByte'
<1> SUFFICES ASSUME NEW r \in Readers, pc'[r] \in (ReaderAt \ Over)
             PROVE  count'[r] \in {0, 1}
  BY DEF OneByte
<1> USE DEF IInv, TypeOK, OneByte, Procs, Go, ReaderAt, Over, localVars
<1>1. CASE pc'[r] = pc[r] /\ count'[r] = count[r]
  BY <1>1
<1>2. CASE ReadCall(r) \/ ReadInterrupted(r) \/ ReadSignal(r)
  <2>1. CASE ReadCall(r)
    BY <2>1 DEF ReadCall
  <2>2. CASE ReadInterrupted(r)
    BY <2>2 DEF ReadInterrupted
  <2>3. CASE ReadSignal(r)
    BY <2>3 DEF ReadSignal
  <2> QED
    BY <1>2, <2>1, <2>2, <2>3
<1>3. CASE ReadGet(r)
  <2>1. cbuf_count_to_end(head, tail, BUF_LEN) \in 0 .. BUF_LEN - 1
    BY Count
  <2>2. count[r] \in {0, 1}
    BY <1>3 DEF ReadGet
  <2> QED
    BY <1>3, <2>1, <2>2 DEF ReadGet
<1>4. CASE ReadStep(r) /\ ~ReadGet(r)
  BY <1>4 DEF ReadStep, MutexLock, ReadTest, ReadPrepare, ReadCond, ReadWake,
       ReadSpinLock, ReadCopyToUser, ReadMove, ReadReturn
<1> QED
  BY <1>1, <1>2, <1>3, <1>4, ReaderFrame

\* What was given leaves the ring when the tail moves.
LEMMA MoveTakesAway ==
  ASSUME IInv, OneByte, NEW r \in Readers, ReadMove(r)
  PROVE  UNCHANGED Fifo!vars
<1> DEFINE c == count[r]
           N == Occupancy - c + Stored
<1>1. /\ UNCHANGED <<buf, head, timerVars, localVars>>
      /\ pc[r] = "move" /\ pc' = [pc EXCEPT ![r] = "unlock"]
      /\ pc \in [Procs -> ReaderAt \cup PollerAt] /\ tail \in Index
      /\ tail' = cbuf_pointer_move(tail, c, BUF_LEN)
  BY DEF ReadMove, Go, IInv, TypeOK
<1>2. c \in {0, 1}
  BY <1>1 DEF OneByte, ReaderAt, Over
<1>3. \A q \in Readers \ {r} : pc[q] # "move" /\ pc'[q] # "move"
  BY <1>1 DEF IInv, LockDiscipline, InMutex
<1>4. Given = c /\ Given' = 0
  BY <1>1, <1>2, <1>3 DEF Given, Procs
<1>5. Stored' = Stored /\ Occupancy' = Occupancy - c
  BY <1>1, TailMoves DEF Stored, timerVars
<1>6. Occupancy \in Nat /\ Stored \in {0, 1} /\ Given <= Occupancy
      /\ Occupancy + Stored <= BUF_LEN - 1
  BY PendingSizes
<1>7. N \in Nat /\ c + N <= BUF_LEN - 1 /\ Occupancy' - 0 + Stored' = N
  BY <1>2, <1>4, <1>5, <1>6
<1> HIDE DEF N, c
<1>8. \A k \in 1 .. N :
        cbuf_pointer_move(tail', 0 + k - 1, BUF_LEN)
          = cbuf_pointer_move(tail, c + k - 1, BUF_LEN)
  <2> TAKE k \in 1 .. N
  <2> DEFINE n == k - 1
  <2>1. c \in Nat /\ n \in Nat /\ c + n <= BUF_LEN /\ 0 + k - 1 = n /\ c + k - 1 = c + n
    BY <1>2, <1>7
  <2> HIDE DEF n
  <2>2. cbuf_pointer_move(cbuf_pointer_move(tail, c, BUF_LEN), n, BUF_LEN)
          = cbuf_pointer_move(tail, c + n, BUF_LEN)
    BY <1>1, <2>1, MoveTwice
  <2> QED
    BY <1>1, <2>1, <2>2
<1>9. Pending = [k \in 1 .. N |-> buf[cbuf_pointer_move(tail, c + k - 1, BUF_LEN)]]
  BY <1>4 DEF Pending, N
<1>10. Pending' = [k \in 1 .. N |-> buf[cbuf_pointer_move(tail', 0 + k - 1, BUF_LEN)]]
  BY <1>1, <1>4, <1>7 DEF Pending
<1>11. Pending' = Pending
  BY <1>8, <1>9, <1>10
<1>12. Asking' = Asking
  BY <1>1 DEF Asking, Over, Procs
<1> QED
  BY <1>1, <1>11, <1>12 DEF Fifo!vars, timerVars, localVars

\* Steps of the others, who neither store nor read.
LEMMA QuietOthers ==
  ASSUME IInv, UNCHANGED <<ringVars, d, localVars>>,
         tpc = "move" <=> tpc' = "move", \A r \in Readers : pc'[r] = pc[r]
  PROVE  UNCHANGED Fifo!vars
<1>1. Given' = Given /\ Stored' = Stored /\ Asking' = Asking
  BY DEF Given, Stored, Asking, localVars
<1>2. Pending' = Pending
  BY <1>1, SamePending
<1> QED
  BY <1>1, <1>2 DEF Fifo!vars, localVars

\* The steps of read().
LEMMA ReaderFifo ==
  ASSUME IInv, IInv', OneByte, NEW r \in Readers,
         ReadCall(r) \/ ReadStep(r) \/ ReadInterrupted(r) \/ ReadSignal(r)
  PROVE  [Fifo!Next]_Fifo!vars
<1>1. CASE ReadCall(r)
  BY <1>1, CallBegins DEF Fifo!Next
<1>2. CASE ReadCopyToUser(r)
  BY <1>2, CopyTakes DEF Fifo!Next
<1>3. CASE ReadMove(r)
  BY <1>3, MoveTakesAway
<1>4. CASE \/ MutexLock(r) \/ ReadTest(r) \/ ReadPrepare(r) \/ ReadCond(r)
           \/ ReadWake(r) \/ ReadSpinLock(r) \/ ReadGet(r) \/ ReadReturn(r)
           \/ ReadInterrupted(r) \/ ReadSignal(r)
  <2>1. /\ UNCHANGED <<ringVars, timerVars, user>>
        /\ pc[r] # "move" /\ pc'[r] # "move"
        /\ pc'[r] \in Over \/ pc[r] \notin Over \cup {"move"}
        /\ (pc[r] \in Over) => (pc'[r] \in Over)
        /\ \A q \in Readers \ {r} : pc'[q] = pc[q] /\ count'[q] = count[q]
    <3> USE DEF IInv, TypeOK, Procs, Go, Over, localVars
    <3>1. CASE MutexLock(r) \/ ReadTest(r) \/ ReadPrepare(r) \/ ReadCond(r)
      BY <3>1 DEF MutexLock, ReadTest, ReadPrepare, ReadCond
    <3>2. CASE ReadWake(r) \/ ReadSpinLock(r) \/ ReadSignal(r)
      BY <3>2 DEF ReadWake, ReadSpinLock, ReadSignal
    <3>3. CASE ReadGet(r)
      BY <3>3 DEF ReadGet
    <3>4. CASE ReadReturn(r) \/ ReadInterrupted(r)
      BY <3>4 DEF ReadReturn, ReadInterrupted
    <3> QED
      BY <1>4, <3>1, <3>2, <3>3, <3>4
  <2>2. pc'[r] \in Over \/ r \in Asking
    BY <2>1 DEF Asking
  <2>3. Fifo!GiveUp(r) \/ UNCHANGED Fifo!vars
    BY <2>1, <2>2, QuietReader
  <2> QED
    BY <2>3 DEF Fifo!Next
<1> QED
  BY <1>1, <1>2, <1>3, <1>4 DEF ReadStep

LEMMA FifoStep ==
  ASSUME IInv, IInv', OneByte, [Next]_vars
  PROVE  [Fifo!Next]_Fifo!vars
<1> USE DEF ringVars, lockVars, waitVars, sigVars, timerVars, localVars
<1>1. CASE UNCHANGED vars
  BY <1>1, QuietOthers DEF vars
<1>2. CASE TimerNext
  <2>1. CASE TimerStore
    BY <2>1, StoreProduces DEF Fifo!Next
  <2>2. CASE TimerMove
    BY <2>2, MovePublishes
  <2>3. CASE TimerLock \/ TimerCheck \/ TimerUnlock \/ TimerWake \/ TimerKill
    <3>1. /\ UNCHANGED <<ringVars, d, localVars, pc>>
          /\ tpc = "move" <=> tpc' = "move"
      BY <2>3 DEF TimerLock, TimerCheck, TimerUnlock, TimerWake, TimerKill, TimerGo
    <3> QED
      BY <3>1, QuietOthers
  <2> QED
    BY <1>2, <2>1, <2>2, <2>3 DEF TimerNext
<1>3. ASSUME NEW r \in Readers,
             ReadCall(r) \/ ReadStep(r) \/ ReadInterrupted(r) \/ ReadSignal(r)
      PROVE  [Fifo!Next]_Fifo!vars
  BY <1>3, ReaderFifo
<1>4. ASSUME NEW p \in Pollers,
             SelectCall(p) \/ PollStep(p) \/ SelectInterrupted(p)
      PROVE  [Fifo!Next]_Fifo!vars
  <2>1. UNCHANGED <<ringVars, timerVars, localVars>> /\ \E x : pc' = [pc EXCEPT ![p] = x]
    BY <1>4 DEF SelectCall, PollStep, SelectInterrupted, PollWait, MutexLock, PollTest,
         PollAwake, Go
  <2>2. \A r \in Readers : pc'[r] = pc[r]
    BY <2>1 DEF IInv, TypeOK, Procs
  <2> QED
    BY <2>1, <2>2, QuietOthers
<1>5. ASSUME NEW o \in Owners,
             SigioDelivered(o) \/ \E on \in BOOLEAN : Fasync(o, on)
      PROVE  [Fifo!Next]_Fifo!vars
  BY <1>5, QuietOthers DEF SigioDelivered, Fasync
<1> QED
  BY <1>1, <1>2, <1>3, <1>4, <1>5 DEF Next

\* Read one byte at a time, as the repository's client programs do, the device
\* is a bounded FIFO that loses nothing but what a fault of copy_to_user costs.
THEOREM SingleBytesAreFifo ==
  ASSUME Counts \subseteq {0, 1}
  PROVE  Spec => IsLossyFifo
<1>1. Init => OneByte /\ Fifo!Init
  BY FifoInit DEF Init, OneByte, Procs
<1>2. IInv /\ OneByte /\ [Next]_vars => OneByte'
  BY OneByteStep
<1>3. IInv /\ IInv' /\ OneByte /\ [Next]_vars => [Fifo!Next]_Fifo!vars
  BY FifoStep
<1> QED
  BY <1>1, <1>2, <1>3, Invariance, PTL DEF Spec, IsLossyFifo, Fifo!Spec
=============================================================================
