------------------------ MODULE ChrdevIrqProperties ------------------------
(***************************************************************************)
(* What must hold of ChrdevIrq, shared by the model-checking modules and   *)
(* by the proofs.                                                          *)
(***************************************************************************)
EXTENDS ChrdevIrq

(* Safety *)

\* The variables have their types (chrdev_irq.h:25-38 and the locals of
\* chrdev_read); the indices stay inside the buffer.
TypeOK ==
  /\ buf \in [Index -> Letter \cup {Zero}]
  /\ head \in Index /\ tail \in Index
  /\ mux \in Procs \cup {Free}
  /\ lock \in Readers \cup {Timer, Free}
  /\ queue \subseteq Procs /\ triggered \subseteq Pollers
  /\ fasync \subseteq Owners /\ sigio \subseteq Owners
  /\ d \in Letter \cup {-1}
  /\ tpc \in TimerAt
  /\ pc \in [Procs -> ReaderAt \cup PollerAt]
  /\ nonblock \in [Readers -> BOOLEAN]
  /\ count \in [Readers -> Nat \cup {-ERESTARTSYS}]
  /\ tmp \in [Readers -> Seq(Byte)]
  /\ user \in [Readers -> Seq(Byte)]

InMutex == {"test", "prepare", "cond", "sleep", "spin", "get", "give", "move",
            "unlock"}

\* Mutual exclusion: the mutex is held by exactly the process that runs
\* between mutex_lock and mutex_unlock - a blocking reader holds it while it
\* sleeps, so no poll() passes it - and the spin lock by the one that runs in
\* one of its two critical sections (chrdev_irq.c:93-105, :173-181, :158-196).
LockDiscipline ==
  /\ \A r \in Readers : pc[r] \in InMutex <=> mux = r
  /\ \A p \in Pollers : pc[p] = "test" <=> mux = p
  /\ \A r \in Readers : pc[r] = "get" <=> lock = r
  /\ tpc \in {"check", "store", "move", "unlock"} <=> lock = Timer

\* The handler's test for room is still valid when it acts on it, although a
\* reader may move the tail, without the spin lock, in between
\* (chrdev_irq.c:98-102 against :191).
RoomForStore ==
  tpc \in {"store", "move"} => ~cbuf_is_full(head, tail, BUF_LEN)

Occupancy == cbuf_count_to_end(head, tail, BUF_LEN)

\* Unread positions of the buffer, and the one after position i.
Unread(i) == IF tail <= head THEN tail <= i /\ i < head
                             ELSE tail <= i \/ i < head
After(i) == cbuf_pointer_move(i, 1, BUF_LEN)

\* The unread bytes are letters made one after the other, and the newest of
\* them is the last letter made: nothing unread is ever overwritten, skipped
\* or exposed before it is stored, although the reader moves the tail without
\* the spin lock that the timer's test for room relies on
\* (chrdev_irq.c:98-102 against :191).  While a letter is stored and not yet
\* published (tpc = "move") it is the one at the head.
RingConsecutive ==
  \A i \in Index : Unread(i) =>
    /\ buf[i] \in Letter
    /\ IF After(i) # head THEN buf[After(i)] = NewChar(buf[i])
       ELSE IF tpc = "move" THEN d = NewChar(buf[i]) /\ buf[head] = d
       ELSE buf[i] = d

\* Between the critical section and the move of the tail (chrdev_irq.c:181-191)
\* the buffer keeps what the reader copied: the bytes in tmp are still the
\* unread ones from the tail on, and no more than there are, so that the tail
\* never passes the head.  Past the end of the array the copy has what lies
\* there.
TmpCopied ==
  \A r \in Readers : pc[r] \in {"give", "move"} =>
    /\ count[r] = Len(tmp[r]) /\ count[r] <= Occupancy
    /\ tmp[r] = CopyFrom(tail, count[r])

\* The same, and the copy is inside tmp (chrdev_irq.c:151, :178).  The code
\* ensures the latter only if the ring or every request is small enough.
TmpIsPrefix ==
  TmpCopied /\ \A r \in Readers : Len(tmp[r]) <= TMP_LEN

CopiesFit == BUF_LEN <= TMP_LEN + 1 \/ \A c \in Counts : c <= TMP_LEN

\* A read() comes back to its caller with the bytes it announces
\* (chrdev_irq.c:183-198).  Without CopiesFit the code does not keep this.
ReadsComeBack == \A r \in Readers : pc[r] # "smashed"

\* The stronger claim that holds as long as no copy crosses the end of the
\* array: tmp has the oldest unread letters in order (chrdev_irq.c:175-178).
TmpIsUnread ==
  \A r \in Readers : pc[r] \in {"give", "move"} =>
    tmp[r] = [k \in 1 .. count[r] |->
                buf[cbuf_pointer_move(tail, k - 1, BUF_LEN)]]

\* A reader that has seen data finds it when it has the spin lock.  A letter
\* can be taken from the unlock at chrdev_irq.c:105 on, and the wake-up it
\* causes comes at :108: a reader that went to sleep after the letter was taken
\* is woken to an empty buffer and must test again (:166-176).
DataStaysUntilTaken ==
  \A r \in Readers : pc[r] \in {"spin", "get"} => ~IsEmpty

\* No wake-up is lost: whenever the buffer has data and a process sleeps on
\* the queue unaware of it, the handler that stored the data is still on its
\* way to wake_up_interruptible (chrdev_irq.c:105-109, :132-137, :166).
NoLostWakeup ==
  ~IsEmpty =>
    /\ \A r \in Readers : pc[r] = "sleep" /\ r \in queue
                            => tpc \in {"unlock", "wake"}
    /\ \A p \in Pollers : pc[p] = "sleep" /\ p \notin triggered
                            => tpc \in {"unlock", "wake"}

(* What makes the above inductive. *)

\* Control points of a call that copies nothing any more, or that is over.
Over == {"idle", "unlock", "smashed"}

\* A call has a size until a signal replaces it by the error code.
CountIsSize ==
  \A r \in Readers : pc[r] \in (ReaderAt \ Over) => count[r] \in Nat

\* The stored and not yet published letter is at the head.
StoredAtHead == tpc = "move" => buf[head] = d /\ d \in Letter

\* A select() under way has its entry on the queue from poll_wait on.
PollersQueued ==
  \A p \in Pollers : pc[p] \in {"mutex", "test", "sleep"} => p \in queue

IInv ==
  /\ TypeOK /\ LockDiscipline /\ CountIsSize
  /\ DataStaysUntilTaken /\ TmpCopied /\ RoomForStore
  /\ StoredAtHead /\ RingConsecutive
  /\ PollersQueued /\ NoLostWakeup

-----------------------------------------------------------------------------
(* Action properties *)

\* A letter is stored only where no unread byte is, and while a reader holds
\* the spin lock neither end of the buffer and no byte of it changes
\* (chrdev_irq.c:93-105, :173-181).
StoreOnlyInFreeRoom ==
  [][ /\ \A i \in Index : Unread(i) => buf'[i] = buf[i]
      /\ lock \in Readers => UNCHANGED ringVars ]_vars

-----------------------------------------------------------------------------
(* Liveness, under Fairness *)

\* Every read() whose copy fits in tmp returns: a blocking one because letters
\* keep coming, and any other, which waits for the mutex behind it whatever its
\* own mode is, because the sleeper gets a letter and leaves
\* (chrdev_irq.c:157-172, :195).
ReadReturns == \A r \in Readers : (pc[r] # "idle") ~> (pc[r] = "idle")

\* If from some time on the buffer is never empty, every select() returns.
SelectReturns ==
  <>[](~IsEmpty) => \A p \in Pollers : (pc[p] # "idle") ~> (pc[p] = "idle")
=============================================================================
