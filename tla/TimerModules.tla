---------------------------- MODULE TimerModules ----------------------------
(***************************************************************************)
(* The modules of Chapter05 that are built around one kernel timer:        *)
(* ktimer and hires_timer (timer/), atomic, mutex and spinlock (atomic/),  *)
(* completion and waitqueue (wait_event/).                                 *)
(*                                                                         *)
(* One thread loads and unloads the module; the handler of the timer runs  *)
(* in softirq context, on another processor or on that of the thread, in   *)
(* which case the thread stands still until the handler is done.           *)
(***************************************************************************)
EXTENDS Naturals

CONSTANTS
  Modules,       \* the programs to choose from
  Enough,        \* waitqueue waits for data > Enough; 5 in the code
  MaxData        \* bound: data stops there; atomic starts with it, 10 in
                 \* the code

ASSUME TimerAssumption ==
  /\ Modules \subseteq {"ktimer", "hires_timer", "atomic", "mutex", "spinlock",
                        "completion", "waitqueue"}
  /\ Enough \in Nat /\ MaxData \in Nat /\ Enough < MaxData

VARIABLES
  prog,          \* the program
  task,          \* next step of the thread
  timer,         \* "off" or "armed"
  handler,       \* next step of the handler
  above,         \* the handler has interrupted the thread
  lock,          \* the mutex or spin lock: who holds it
  data,
  seen,          \* seen[a]: what a loaded in its data++
  done,          \* completion: complete() calls not consumed
  asleep,        \* the thread is on a queue and has not been woken
  incs           \* history: how often data++ was carried out

waitVars == <<done, asleep>>
dataVars == <<data, seen, incs>>
vars == <<prog, task, timer, handler, above, lock, dataVars, waitVars>>

Locking == {"mutex", "spinlock"}
Waiting == {"completion", "waitqueue"}

Start(p) ==
  CASE p = "mutex" -> "trylock" [] p = "spinlock" -> "spin"
    [] p = "atomic" -> "dec" [] OTHER -> "load"

Up(n) == IF n < MaxData THEN n + 1 ELSE n

Init ==
  /\ prog \in Modules
  /\ task = "none" /\ timer = "off" /\ handler = "idle" /\ above = FALSE
  /\ lock = "free"
  /\ data = 0 /\ incs = 0 /\ seen = [a \in {"task", "handler"} |-> 0]
  /\ done = 0 /\ asleep = FALSE

TaskGo(from, to) == ~above /\ task = from /\ task' = to
HandlerGo(from, to) == handler = from /\ handler' = to

\* data++ of a: a load and a store.
Load(a) ==
  /\ seen' = [seen EXCEPT ![a] = data]
  /\ UNCHANGED <<data, incs>>
Store(a) ==
  /\ data' = Up(seen[a])
  /\ seen' = [seen EXCEPT ![a] = 0]
  /\ incs' = Up(incs)

-----------------------------------------------------------------------------
(* module_init *)

\* The module is loaded, its data fresh; init starts, in atomic with atomic_set.
Insmod ==
  /\ TaskGo("none", "arm")
  /\ data' = IF prog = "atomic" THEN MaxData ELSE 0
  /\ incs' = 0 /\ done' = 0
  /\ UNCHANGED <<prog, timer, handler, above, lock, seen, asleep>>

\* timer_setup and mod_timer, or hrtimer_init and hrtimer_start.
Arm ==
  /\ \/ prog \in Locking /\ TaskGo("arm", "lock")
     \/ prog \in Waiting /\ TaskGo("arm", "test")
     \/ prog \notin Locking \cup Waiting /\ TaskGo("arm", "loaded")
  /\ timer' = "armed"
  /\ UNCHANGED <<prog, handler, above, lock, dataVars, waitVars>>

\* mutex_lock sleeps, spin_lock spins, until the lock is free.
TaskLock ==
  /\ TaskGo("lock", "load")
  /\ lock = "free" /\ lock' = "task"
  /\ UNCHANGED <<prog, timer, handler, above, dataVars, waitVars>>

TaskData ==
  /\ \/ TaskGo("load", "store") /\ Load("task")
     \/ TaskGo("store", "unlock") /\ Store("task")
  /\ UNCHANGED <<prog, timer, handler, above, lock, waitVars>>

TaskUnlock ==
  /\ TaskGo("unlock", "loaded")
  /\ lock' = "free"
  /\ UNCHANGED <<prog, timer, handler, above, dataVars, waitVars>>

\* wait_for_completion: under the lock of the completion it takes one
\* complete(), or goes to sleep until it is woken.
WaitForCompletion ==
  /\ prog = "completion"
  /\ \/ TaskGo("test", "loaded") /\ done > 0 /\ done' = done - 1 /\ UNCHANGED asleep
     \/ TaskGo("test", "sleep") /\ done = 0 /\ asleep' = TRUE /\ UNCHANGED done
     \/ TaskGo("sleep", "test") /\ ~asleep /\ UNCHANGED waitVars
  /\ UNCHANGED <<prog, timer, handler, above, lock, dataVars>>

WaitEvent_NoRetest ==
  /\ prog = "waitqueue"
  /\ \/ TaskGo("test", "loaded") /\ data > Enough /\ UNCHANGED asleep
     \/ TaskGo("test", "cond") /\ data <= Enough /\ asleep' = TRUE
     \/ TaskGo("cond", "loaded") /\ data > Enough /\ asleep' = FALSE
     \/ TaskGo("cond", "sleep") /\ data <= Enough /\ UNCHANGED asleep
     \/ TaskGo("sleep", "loaded") /\ ~asleep /\ UNCHANGED asleep
  /\ UNCHANGED <<prog, timer, handler, above, lock, dataVars, done>>

\* wait_event_interruptible: test, enter the queue, test again, sleep; when
\* woken, enter and test again.
WaitEvent ==
  /\ prog = "waitqueue"
  /\ \/ TaskGo("test", "loaded") /\ data > Enough /\ UNCHANGED asleep
     \/ TaskGo("test", "cond") /\ data <= Enough /\ asleep' = TRUE
     \/ TaskGo("cond", "loaded") /\ data > Enough /\ asleep' = FALSE
     \/ TaskGo("cond", "sleep") /\ data <= Enough /\ UNCHANGED asleep
     \/ TaskGo("sleep", "cond") /\ ~asleep /\ asleep' = TRUE
  /\ UNCHANGED <<prog, timer, handler, above, lock, dataVars, done>>

WaitInterrupted_NoCancel ==
  /\ prog = "waitqueue"
  /\ TaskGo("cond", "none") \/ TaskGo("sleep", "none")
  /\ asleep' = FALSE
  /\ UNCHANGED <<prog, timer, handler, above, lock, dataVars, done>>

\* A signal makes init stop the timer and fail.
WaitInterrupted ==
  /\ prog = "waitqueue"
  /\ TaskGo("cond", "cancel") \/ TaskGo("sleep", "cancel")
  /\ asleep' = FALSE
  /\ UNCHANGED <<prog, timer, handler, above, lock, dataVars, done>>

-----------------------------------------------------------------------------
(* module_exit *)

Rmmod ==
  /\ TaskGo("loaded", "cancel")
  /\ UNCHANGED <<prog, timer, handler, above, lock, dataVars, waitVars>>

Cancel_NoWait ==
  /\ TaskGo("cancel", "none")
  /\ timer' = "off"
  /\ UNCHANGED <<prog, handler, above, lock, dataVars, waitVars>>

\* del_timer_sync and hrtimer_cancel wait for a running handler; then the
\* module's memory is freed.
Cancel ==
  /\ TaskGo("cancel", "none")
  /\ handler = "idle"
  /\ timer' = "off"
  /\ UNCHANGED <<prog, handler, above, lock, dataVars, waitVars>>

-----------------------------------------------------------------------------
(* The handler *)

\* The timer expires.  Only a thread that is running can be interrupted.
Expire ==
  /\ timer = "armed" /\ timer' = "off"
  /\ HandlerGo("idle", Start(prog))
  /\ above' \in {FALSE, task \notin {"none", "loaded", "sleep"}}
  /\ UNCHANGED <<prog, task, lock, dataVars, waitVars>>

HandlerLock_NoTest ==
  /\ prog = "mutex" /\ HandlerGo("trylock", "load") /\ lock' = "handler"
  /\ UNCHANGED <<prog, task, timer, above, dataVars, waitVars>>

HandlerLock_GiveUp ==
  /\ \/ HandlerGo("trylock", "load") /\ lock = "free" /\ lock' = "handler"
     \/ HandlerGo("trylock", "end") /\ lock # "free" /\ UNCHANGED lock
     \/ HandlerGo("spin", "load") /\ lock = "free" /\ lock' = "handler"
  /\ UNCHANGED <<prog, task, timer, above, dataVars, waitVars>>

\* mutex_trylock gives up when the lock is taken, spin_lock does not.
HandlerLock ==
  /\ \/ HandlerGo("trylock", "load") /\ lock = "free" /\ lock' = "handler"
     \/ HandlerGo("trylock", "rearm") /\ lock # "free" /\ UNCHANGED lock
     \/ HandlerGo("spin", "load") /\ lock = "free" /\ lock' = "handler"
  /\ UNCHANGED <<prog, task, timer, above, dataVars, waitVars>>

HandlerData ==
  /\ \/ HandlerGo("load", "store") /\ Load("handler")
     \/ /\ HandlerGo("store", IF prog \in Locking THEN "unlock"
                              ELSE IF prog \in Waiting THEN "wake" ELSE "rearm")
        /\ Store("handler")
  /\ UNCHANGED <<prog, task, timer, above, lock, waitVars>>

\* atomic_dec_if_positive; the bitmap is left out.
HandlerAtomic ==
  /\ HandlerGo("dec", "rearm")
  /\ data' = IF data > 0 THEN data - 1 ELSE 0
  /\ incs' = Up(incs)
  /\ UNCHANGED <<prog, task, timer, above, lock, seen, waitVars>>

HandlerUnlock ==
  /\ HandlerGo("unlock", "rearm")
  /\ lock' = "free"
  /\ UNCHANGED <<prog, task, timer, above, dataVars, waitVars>>

HandlerWake_NotDone ==
  /\ \/ HandlerGo("wake", "end") /\ prog = "completion"
     \/ HandlerGo("wake", "rearm") /\ prog = "waitqueue"
  /\ asleep' = FALSE
  /\ UNCHANGED <<prog, task, timer, above, lock, dataVars, done>>

HandlerWake_Rearm ==
  /\ HandlerGo("wake", "rearm") /\ done' = done + 1 /\ asleep' = FALSE
  /\ UNCHANGED <<prog, task, timer, above, lock, dataVars>>

\* complete(), or wake_up_interruptible().
HandlerWake ==
  /\ \/ HandlerGo("wake", "end") /\ prog = "completion" /\ done' = done + 1
     \/ HandlerGo("wake", "rearm") /\ prog = "waitqueue" /\ UNCHANGED done
  /\ asleep' = FALSE
  /\ UNCHANGED <<prog, task, timer, above, lock, dataVars>>

\* mod_timer, or hrtimer_forward_now and HRTIMER_RESTART; the handler returns.
HandlerEnd ==
  /\ \/ HandlerGo("rearm", "idle") /\ timer' = "armed"
     \/ HandlerGo("end", "idle") /\ UNCHANGED timer
  /\ above' = FALSE
  /\ UNCHANGED <<prog, task, lock, dataVars, waitVars>>

-----------------------------------------------------------------------------
InitStep == Arm \/ TaskLock \/ TaskData \/ TaskUnlock \/ WaitForCompletion \/ WaitEvent
TaskStep == InitStep \/ Cancel
HandlerStep ==
  \/ HandlerLock \/ HandlerData \/ HandlerAtomic \/ HandlerUnlock \/ HandlerWake
  \/ HandlerEnd

Next == Insmod \/ TaskStep \/ WaitInterrupted \/ Rmmod \/ Expire \/ HandlerStep

Spec == Init /\ [][Next]_vars

\* An armed timer expires and its handler goes on.  The thread runs between
\* two expiries, a timer's period being longer than init or exit, so whatever
\* it can do again and again it does; that covers its waiting for a lock.
FairSpec ==
  /\ Spec
  /\ WF_vars(Expire) /\ WF_vars(HandlerStep) /\ SF_vars(TaskStep)

-----------------------------------------------------------------------------
(* Properties *)

TaskAt == {"none", "arm", "lock", "load", "store", "unlock", "test", "cond",
           "sleep", "loaded", "cancel"}
HandlerAt == {"idle", "trylock", "spin", "dec", "load", "store", "unlock", "wake",
              "rearm", "end"}

\* The variables have their types; a handler that has interrupted the thread
\* is running; complete() is called at most once.
TypeOK ==
  /\ prog \in Modules /\ task \in TaskAt /\ handler \in HandlerAt
  /\ timer \in {"off", "armed"} /\ above \in BOOLEAN
  /\ above => handler # "idle"
  /\ lock \in {"free", "task", "handler"}
  /\ data \in 0 .. MaxData /\ incs \in 0 .. MaxData
  /\ seen \in [{"task", "handler"} -> 0 .. MaxData]
  /\ done \in 0 .. 1 /\ asleep \in BOOLEAN

\* No increment of data is lost between init and the handler: when neither is
\* half-way through one, data is their number (mutex.c:37-41, :66-68,
\* spinlock.c:36-38, :62-64), the handler never overlapping itself.  In atomic
\* it is what has been counted down (atomic.c:35-36, :58).
NoLostIncrement ==
  task # "store" /\ handler # "store" =>
    \/ task = "none"
    \/ incs = IF prog = "atomic" THEN MaxData - data ELSE data

\* When the module's memory is gone, by rmmod or because init failed, its
\* handler is not running and will not run (waitqueue.c:79, :86 and the exit
\* functions of the other modules).
CodeGone == task = "none" => timer = "off" /\ handler = "idle"

\* init of completion and waitqueue returns 0 only after the event it waits for
\* (completion.c:60-62, waitqueue.c:65-69).
JobDone ==
  task = "loaded" => /\ prog = "completion" => data > 0
                     /\ prog = "waitqueue" => data > Enough

\* spinlock.c takes the lock without disabling softirqs: its handler, on the
\* same processor, waits for the thread it has interrupted.
SelfDeadlock == prog = "spinlock" /\ above /\ lock = "task"

\* init returns, whether or not it has to wait for the lock or for the handler.
InitReturns ==
  task \notin {"none", "loaded"} ~> task \in {"none", "loaded"} \/ SelfDeadlock

\* A handler that has started arms its timer again, also when mutex_trylock
\* fails (ktimer.c:35, hires_timer.c:35, atomic.c:42, mutex.c:44, waitqueue.c:40).
Reschedules ==
  (handler # "idle" /\ prog # "completion") ~> (timer = "armed" \/ SelfDeadlock)

(* A claim of the source that the code does not keep, see README. *)

\* "Reschedule kernel timer" (spinlock.c:40).
SpinlockReschedules ==
  (handler # "idle" /\ prog = "spinlock") ~> (timer = "armed")
=============================================================================
