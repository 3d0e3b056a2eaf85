----------------------------- MODULE ChrdevIrq -----------------------------
(***************************************************************************)
(* The data path of one registered device of Chapter07/chrdev/chrdev_irq.c.*)
(* A high-resolution timer simulates an interrupt that puts one letter in  *)
(* a circular buffer; processes take the letters with read(), sleep on     *)
(* them in poll()/select(), or ask for SIGIO.                              *)
(*                                                                         *)
(*   timer softirq : spin_lock, store, move head, spin_unlock, wake, SIGIO *)
(*   read()        : mutex_lock, wait for data, copy under the spin lock,  *)
(*                   copy to the user, move tail, mutex_unlock             *)
(*   poll()        : register on the wait queue, test under the mutex      *)
(*                                                                         *)
(* A step is what runs between two points where another context can see or *)
(* change shared state.  The locals of a C function are functions on the   *)
(* process that runs it.  Memory is sequentially consistent.               *)
(***************************************************************************)
EXTENDS CircBuf, Sequences

CONSTANTS
  BUF_LEN,       \* chrdev_irq.h: PAGE_SIZE
  TMP_LEN,       \* 256, the size of chrdev_read's tmp
  NLetters,      \* 26: 'A' .. 'Z' are 0 .. NLetters-1
  Readers,       \* processes that call read()
  Pollers,       \* processes that call poll() through select()
  Owners,        \* processes that enable FASYNC on their file
  Counts,        \* the sizes read() is asked for
  Modes,         \* whether the file has O_NONBLOCK: a subset of BOOLEAN
  Faults,        \* bytes copy_to_user may leave uncopied; {0}: no fault
  Timer, Free    \* the timer softirq; a lock nobody holds

Procs == Readers \cup Pollers

ASSUME ChrdevAssumption ==
  /\ BUF_LEN \in Nat \ {0}
  /\ TMP_LEN \in Nat \ {0}
  /\ NLetters \in Nat \ {0}
  /\ Readers \cap Pollers = {}
  /\ Timer \notin Procs /\ Free \notin Procs \cup {Timer}
  /\ Counts \subseteq Nat
  /\ Modes \subseteq BOOLEAN
  /\ Faults \subseteq Nat

ERESTARTSYS == 512
Zero   == -1              \* kzalloc'ed byte that was never stored to
Beyond == -2              \* whatever byte lies after the end of the buffer
Letter == 0 .. NLetters - 1
Byte   == Letter \cup {Zero, Beyond}
Index  == 0 .. BUF_LEN - 1

VARIABLES
  \* the fields of struct chrdev_device
  buf, head, tail,
  mux,           \* holder of the mutex
  lock,          \* holder of the spin lock
  queue,         \* processes with an entry on the wait queue
  fasync,        \* processes on fasync_queue
  \* get_new_char's static d, 'A' - 1 at first
  d,
  \* control and locals
  tpc,           \* next step of the timer
  pc,            \* next step of a process
  nonblock,      \* O_NONBLOCK of the file being read
  count,         \* chrdev_read's count, which is also what it returns
  tmp,           \* the bytes put on the stack from chrdev_read's tmp on
  user,          \* bytes the current or last read() put in its user's buffer
  triggered,     \* pollers woken since they last looked
  sigio          \* processes with a pending SIGIO

timerVars == <<tpc, d>>
localVars == <<nonblock, count, tmp, user>>
waitVars  == <<queue, triggered>>
sigVars   == <<fasync, sigio>>
lockVars  == <<mux, lock>>
ringVars  == <<buf, head, tail>>
vars == <<ringVars, lockVars, waitVars, sigVars, timerVars, pc, localVars>>

IsEmpty == cbuf_is_empty(head, tail, BUF_LEN)

TimerAt == {"armed", "check", "store", "move", "unlock", "wake", "kill"}
ReaderAt == {"idle", "mutex", "test", "prepare", "cond", "sleep",
             "spin", "get", "give", "move", "unlock", "smashed"}
PollerAt == {"idle", "poll", "mutex", "test", "sleep"}

Init ==
  /\ buf = [i \in Index |-> Zero] /\ head = 0 /\ tail = 0
  /\ mux = Free /\ lock = Free
  /\ queue = {} /\ triggered = {}
  /\ fasync = {} /\ sigio = {}
  /\ d = -1 /\ tpc = "armed"
  /\ pc = [p \in Procs |-> "idle"]
  /\ nonblock = [r \in Readers |-> FALSE]
  /\ count = [r \in Readers |-> 0]
  /\ tmp = [r \in Readers |-> << >>]
  /\ user = [r \in Readers |-> << >>]

-----------------------------------------------------------------------------
(* The timer handler, chrdev_timer_handler. *)

\* get_new_char: ++d, back to 'A' after 'Z'.
NewChar(c) == IF c + 1 = NLetters THEN 0 ELSE c + 1

TimerGo(from, to) == tpc = from /\ tpc' = to

\* The timer expires and the handler takes the spin lock.
TimerLock ==
  /\ TimerGo("armed", "check")
  /\ lock = Free /\ lock' = Timer
  /\ UNCHANGED <<ringVars, mux, waitVars, sigVars, d, pc, localVars>>

TimerCheck_NoTest ==
  /\ TimerGo("check", "store")
  /\ UNCHANGED <<ringVars, lockVars, waitVars, sigVars, d, pc, localVars>>

\* Is there room?  tail is read although a reader moves it without the lock.
TimerCheck ==
  /\ \/ ~cbuf_is_full(head, tail, BUF_LEN) /\ TimerGo("check", "store")
     \/ cbuf_is_full(head, tail, BUF_LEN) /\ TimerGo("check", "unlock")
  /\ UNCHANGED <<ringVars, lockVars, waitVars, sigVars, d, pc, localVars>>

TimerStore_PostIncrement ==
  /\ TimerGo("store", "move")
  /\ d' = NewChar(d)
  /\ buf' = [buf EXCEPT ![head] = d]
  /\ UNCHANGED <<head, tail, lockVars, waitVars, sigVars, pc, localVars>>

TimerStore ==
  /\ TimerGo("store", "move")
  /\ d' = NewChar(d)
  /\ buf' = [buf EXCEPT ![head] = NewChar(d)]
  /\ UNCHANGED <<head, tail, lockVars, waitVars, sigVars, pc, localVars>>

TimerMove ==
  /\ TimerGo("move", "unlock")
  /\ head' = cbuf_pointer_move(head, 1, BUF_LEN)
  /\ UNCHANGED <<buf, tail, lockVars, waitVars, sigVars, d, pc, localVars>>

TimerUnlock ==
  /\ TimerGo("unlock", "wake")
  /\ lock' = Free
  /\ UNCHANGED <<ringVars, mux, waitVars, sigVars, d, pc, localVars>>

\* wake_up_interruptible: a reader's entry leaves the queue as it is woken, a
\* poller's stays until its select() returns.
TimerWake ==
  /\ TimerGo("wake", "kill")
  /\ queue' = queue \ Readers
  /\ triggered' = triggered \cup (queue \cap Pollers)
  /\ UNCHANGED <<ringVars, lockVars, sigVars, d, pc, localVars>>

\* kill_fasync to every registered process, then the timer is forwarded and
\* restarted.
TimerKill ==
  /\ TimerGo("kill", "armed")
  /\ sigio' = sigio \cup fasync
  /\ UNCHANGED <<ringVars, lockVars, waitVars, fasync, d, pc, localVars>>

TimerNext == \/ TimerLock \/ TimerCheck \/ TimerStore \/ TimerMove
             \/ TimerUnlock \/ TimerWake \/ TimerKill

-----------------------------------------------------------------------------
(* read(): chrdev_read. *)

Go(p, from, to) == pc[p] = from /\ pc' = [pc EXCEPT ![p] = to]

\* A process calls read() on a file with or without O_NONBLOCK.
ReadCall(r) ==
  /\ Go(r, "idle", "mutex")
  /\ \E c \in Counts, nb \in Modes :
       /\ count' = [count EXCEPT ![r] = c]
       /\ nonblock' = [nonblock EXCEPT ![r] = nb]
  /\ user' = [user EXCEPT ![r] = << >>]
  /\ UNCHANGED <<ringVars, lockVars, waitVars, sigVars, timerVars, tmp>>

MutexLock_NoGuard(p) ==
  /\ Go(p, "mutex", "test")
  /\ mux' = p
  /\ UNCHANGED <<ringVars, lock, waitVars, sigVars, timerVars, localVars>>

\* mutex_lock, by a reader or a poller: it sleeps uninterruptibly until the
\* mutex is handed to it.
MutexLock(p) ==
  /\ Go(p, "mutex", "test")
  /\ mux = Free /\ mux' = p
  /\ UNCHANGED <<ringVars, lock, waitVars, sigVars, timerVars, localVars>>

\* The O_NONBLOCK branch, or the first test of wait_event_interruptible.  On
\* an empty buffer the first sets ret, and count keeps its value.
ReadTest(r) ==
  /\ \/ ~IsEmpty /\ Go(r, "test", "spin")
     \/ IsEmpty /\ nonblock[r] /\ Go(r, "test", "unlock")
     \/ IsEmpty /\ ~nonblock[r] /\ Go(r, "test", "prepare")
  /\ UNCHANGED <<ringVars, lockVars, waitVars, sigVars, timerVars, localVars>>

\* prepare_to_wait_event with no signal pending.
ReadPrepare(r) ==
  /\ Go(r, "prepare", "cond")
  /\ queue' = queue \cup {r}
  /\ UNCHANGED <<ringVars, lockVars, triggered, sigVars, timerVars, localVars>>

ReadInterrupted_NoUnlock(r) ==
  /\ Go(r, "prepare", "idle")
  /\ IsEmpty
  /\ queue' = queue \ {r}
  /\ count' = [count EXCEPT ![r] = -ERESTARTSYS]
  /\ UNCHANGED <<ringVars, lockVars, triggered, sigVars, timerVars,
                 nonblock, tmp, user>>

\* prepare_to_wait_event with a signal pending: the entry is not queued and
\* the condition, tested once more, is false.
ReadInterrupted(r) ==
  /\ Go(r, "prepare", "unlock")
  /\ IsEmpty
  /\ queue' = queue \ {r}
  /\ count' = [count EXCEPT ![r] = -ERESTARTSYS]
  /\ UNCHANGED <<ringVars, lockVars, triggered, sigVars, timerVars,
                 nonblock, tmp, user>>

\* The condition after the entry is queued: finish_wait, or schedule.
ReadCond(r) ==
  /\ \/ ~IsEmpty /\ Go(r, "cond", "spin") /\ queue' = queue \ {r}
     \/ IsEmpty /\ Go(r, "cond", "sleep") /\ UNCHANGED queue
  /\ UNCHANGED <<ringVars, lockVars, triggered, sigVars, timerVars, localVars>>

ReadWake_NoRetest(r) ==
  /\ r \notin queue
  /\ Go(r, "sleep", "spin")
  /\ UNCHANGED <<ringVars, lockVars, waitVars, sigVars, timerVars, localVars>>

\* The wake-up took the entry off the queue: round the loop again.
ReadWake(r) ==
  /\ r \notin queue
  /\ Go(r, "sleep", "prepare")
  /\ UNCHANGED <<ringVars, lockVars, waitVars, sigVars, timerVars, localVars>>

\* A signal wakes the process without touching its entry.
ReadSignal(r) ==
  /\ r \in queue
  /\ Go(r, "sleep", "prepare")
  /\ UNCHANGED <<ringVars, lockVars, waitVars, sigVars, timerVars, localVars>>

ReadSpinLock_NoLock(r) ==
  /\ Go(r, "spin", "get")
  /\ lock' = r
  /\ UNCHANGED <<ringVars, mux, waitVars, sigVars, timerVars, localVars>>

\* spin_lock_irqsave
ReadSpinLock(r) ==
  /\ Go(r, "spin", "get")
  /\ lock = Free /\ lock' = r
  /\ UNCHANGED <<ringVars, mux, waitVars, sigVars, timerVars, localVars>>

\* n bytes from position i on, in the order of the addresses: memcpy does not
\* go back to the start of the array.
CopyFrom(i, n) ==
  [k \in 1 .. n |-> IF i + k - 1 < BUF_LEN THEN buf[i + k - 1] ELSE Beyond]

ReadGet_NoMin(r) ==
  /\ Go(r, "get", "give")
  /\ tmp' = [tmp EXCEPT ![r] = CopyFrom(tail, count[r])]
  /\ lock' = Free
  /\ UNCHANGED <<ringVars, mux, waitVars, sigVars, timerVars, nonblock, count, user>>

\* The critical section of the spin lock and its release.  Nothing compares
\* the size of the copy with that of tmp: what is too much for it goes on over
\* the stack, where chrdev_read finds it when it returns.
ReadGet(r) ==
  /\ Go(r, "get", "give")
  /\ LET n == cbuf_count_to_end(head, tail, BUF_LEN)
         c == IF count[r] < n THEN count[r] ELSE n
     IN /\ count' = [count EXCEPT ![r] = c]
        /\ tmp' = [tmp EXCEPT ![r] = CopyFrom(tail, c)]
  /\ lock' = Free
  /\ UNCHANGED <<ringVars, mux, waitVars, sigVars, timerVars, nonblock, user>>

\* copy_to_user returns the number u of bytes it could not copy, which is
\* never negative: the branch to -EFAULT is not taken.
ReadCopyToUser(r) ==
  /\ Go(r, "give", "move")
  /\ \E u \in Faults :
       /\ u <= count[r]
       /\ user' = [user EXCEPT ![r] = SubSeq(tmp[r], 1, count[r] - u)]
  /\ UNCHANGED <<ringVars, lockVars, waitVars, sigVars, timerVars,
                 nonblock, count, tmp>>

ReadMove_ByOne(r) ==
  /\ Go(r, "move", "unlock")
  /\ tail' = cbuf_pointer_move(tail, 1, BUF_LEN)
  /\ UNCHANGED <<buf, head, lockVars, waitVars, sigVars, timerVars, localVars>>

\* The tail moves under the mutex alone.
ReadMove(r) ==
  /\ Go(r, "move", "unlock")
  /\ tail' = cbuf_pointer_move(tail, count[r], BUF_LEN)
  /\ UNCHANGED <<buf, head, lockVars, waitVars, sigVars, timerVars, localVars>>

\* mutex_unlock, and read() returns count - unless the copy went over the end
\* of tmp: the return address or the guard before it is overwritten, and the
\* call does not come back.
ReadReturn(r) ==
  /\ Go(r, "unlock", IF Len(tmp[r]) <= TMP_LEN THEN "idle" ELSE "smashed")
  /\ mux' = Free
  /\ tmp' = [tmp EXCEPT ![r] = << >>]
  /\ UNCHANGED <<ringVars, lock, waitVars, sigVars, timerVars,
                 nonblock, count, user>>

\* The steps of a call that is under way, a signal aside.
ReadStep(r) ==
  \/ MutexLock(r) \/ ReadTest(r) \/ ReadPrepare(r) \/ ReadCond(r)
  \/ ReadWake(r) \/ ReadSpinLock(r) \/ ReadGet(r) \/ ReadCopyToUser(r)
  \/ ReadMove(r) \/ ReadReturn(r)

-----------------------------------------------------------------------------
(* select() on the device: chrdev_poll and the loop of do_select. *)

SelectCall(p) ==
  /\ Go(p, "idle", "poll")
  /\ UNCHANGED <<ringVars, lockVars, waitVars, sigVars, timerVars, localVars>>

PollWait_NoEntry(p) ==
  /\ Go(p, "poll", "mutex")
  /\ UNCHANGED <<ringVars, lockVars, waitVars, sigVars, timerVars, localVars>>

\* poll_wait: the entry is on the queue before the buffer is looked at.
PollWait(p) ==
  /\ Go(p, "poll", "mutex")
  /\ queue' = queue \cup {p}
  /\ UNCHANGED <<ringVars, lockVars, triggered, sigVars, timerVars, localVars>>

\* poll_freewait: select() returns.
Deregister(p) ==
  /\ queue' = queue \ {p}
  /\ triggered' = triggered \ {p}

PollTest_NoMask(p) ==
  /\ Go(p, "test", "sleep")
  /\ mux' = Free
  /\ UNCHANGED <<ringVars, lock, waitVars, sigVars, timerVars, localVars>>

\* The test, mutex_unlock, and select()'s decision on the mask.
PollTest(p) ==
  /\ \/ ~IsEmpty /\ Go(p, "test", "idle") /\ Deregister(p)
     \/ IsEmpty /\ Go(p, "test", "sleep") /\ UNCHANGED waitVars
  /\ mux' = Free
  /\ UNCHANGED <<ringVars, lock, sigVars, timerVars, localVars>>

\* A wake-up since the last look sends select() round its loop again.
PollAwake(p) ==
  /\ p \in triggered
  /\ Go(p, "sleep", "poll")
  /\ triggered' = triggered \ {p}
  /\ UNCHANGED <<ringVars, lockVars, queue, sigVars, timerVars, localVars>>

\* select() ends for another reason: another descriptor, or a signal.
SelectInterrupted(p) ==
  /\ Go(p, "sleep", "idle")
  /\ Deregister(p)
  /\ UNCHANGED <<ringVars, lockVars, sigVars, timerVars, localVars>>

PollStep(p) == PollWait(p) \/ MutexLock(p) \/ PollTest(p) \/ PollAwake(p)

-----------------------------------------------------------------------------
(* SIGIO *)

\* chrdev_fasync: fcntl(F_SETFL) sets or clears FASYNC on o's file.
Fasync(o, on) ==
  /\ fasync' = IF on THEN fasync \cup {o} ELSE fasync \ {o}
  /\ UNCHANGED <<ringVars, lockVars, waitVars, sigio, timerVars, pc, localVars>>

\* The pending signal reaches o's handler.
SigioDelivered(o) ==
  /\ o \in sigio
  /\ sigio' = sigio \ {o}
  /\ UNCHANGED <<ringVars, lockVars, waitVars, fasync, timerVars, pc, localVars>>

-----------------------------------------------------------------------------
Next ==
  \/ TimerNext
  \/ \E r \in Readers :
       ReadCall(r) \/ ReadStep(r) \/ ReadInterrupted(r) \/ ReadSignal(r)
  \/ \E p \in Pollers : SelectCall(p) \/ PollStep(p) \/ SelectInterrupted(p)
  \/ \E o \in Owners : SigioDelivered(o) \/ \E on \in BOOLEAN : Fasync(o, on)

Spec == Init /\ [][Next]_vars

\* The timer is restarted for ever, and a process inside the kernel is given
\* the processor.  The spin lock is a queued one and the mutex is handed over
\* to a waiter that has failed to get it, so neither starves anybody.  Nobody
\* has to call, to be interrupted or to handle a signal.
Fairness ==
  /\ WF_vars(TimerNext) /\ SF_vars(TimerLock)
  /\ \A r \in Readers : /\ WF_vars(ReadStep(r))
                        /\ SF_vars(MutexLock(r)) /\ SF_vars(ReadSpinLock(r))
  /\ \A p \in Pollers : WF_vars(PollStep(p)) /\ SF_vars(MutexLock(p))

FairSpec == Spec /\ Fairness
=============================================================================
