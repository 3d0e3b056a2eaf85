------------------------- MODULE TimerModulesProofs -------------------------
(***************************************************************************)
(* The safety properties of TimerModules for every choice of programs and  *)
(* every bound on the counter.                                             *)
(***************************************************************************)
EXTENDS TimerModules, TLAPS

USE TimerAssumption

(* The inductive invariant.  The properties speak of moments: no increment  *)
(* under way, module gone, init done.  These parts say how the program gets *)
(* there.                                                                   *)

\* Before the timer is first armed, and after it is cancelled, nothing runs.
Started == task \in {"none", "arm"} => timer = "off" /\ handler = "idle"

\* Each program keeps to its own steps.
OwnPath ==
  /\ task \in {"lock", "load", "store", "unlock"} => prog \in Locking
  /\ task \in {"test", "sleep"} => prog \in Waiting
  /\ task = "cond" => prog = "waitqueue"
  /\ handler = "trylock" => prog = "mutex"
  /\ handler = "spin" => prog = "spinlock"
  /\ handler = "dec" => prog = "atomic"
  /\ handler \in {"load", "store"} => prog # "atomic"
  /\ handler = "unlock" => prog \in Locking
  /\ handler = "wake" => prog \in Waiting
  /\ handler = "end" => prog = "completion"
  /\ handler = "rearm" => prog # "completion"

\* The lock is held by who is between taking and releasing it.
LockHolder ==
  /\ lock = "task" <=> task \in {"load", "store", "unlock"}
  /\ lock = "handler" <=> /\ prog \in Locking
                          /\ handler \in {"load", "store", "unlock"}

\* What an actor has loaded is not stale when it stores, and data is what the
\* history says.
Counting ==
  /\ task = "store" => seen["task"] = data
  /\ handler = "store" => seen["handler"] = data
  /\ task # "none" => incs = IF prog = "atomic" THEN MaxData - data ELSE data

\* completion.c calls complete() once, after data++.
Once ==
  prog = "completion" =>
    /\ handler # "idle" => timer = "off"
    /\ handler \in {"load", "store", "wake"} => done = 0
    /\ handler \in {"wake", "end"} => data > 0
    /\ task = "arm" => done = 0
    /\ done > 0 => timer = "off" /\ handler \in {"idle", "end"} /\ data > 0

IInv ==
  TypeOK /\ Started /\ OwnPath /\ LockHolder /\ Counting /\ Once /\ JobDone

-----------------------------------------------------------------------------
LEMMA StartAt ==
  ASSUME NEW p \in Modules
  PROVE  /\ Start(p) \in HandlerAt \ {"idle", "store", "unlock", "wake", "rearm", "end"}
         /\ Start(p) = "trylock" <=> p = "mutex"
         /\ Start(p) = "spin" <=> p = "spinlock"
         /\ Start(p) = "dec" <=> p = "atomic"
         /\ Start(p) = "load" <=> p \notin Locking \cup {"atomic"}
BY DEF Start, HandlerAt, Locking

LEMMA UpType ==
  ASSUME NEW n \in 0 .. MaxData
  PROVE  /\ Up(n) \in 0 .. MaxData
         /\ Up(n) >= n
         /\ Up(n) > 0
BY DEF Up

LEMMA InitInv == Init => IInv
<1> SUFFICES ASSUME Init PROVE IInv
  OBVIOUS
<1>1. TypeOK
  <2>1. 0 \in 0 .. MaxData /\ 0 \in 0 .. 1
    OBVIOUS
  <2>2. seen \in [{"task", "handler"} -> 0 .. MaxData]
    BY <2>1 DEF Init
  <2> QED
    BY <2>1, <2>2 DEF Init, TypeOK, TaskAt, HandlerAt
<1>2. Started /\ OwnPath /\ LockHolder
  BY DEF Init, Started, OwnPath, LockHolder
<1>3. Counting /\ Once /\ JobDone
  BY DEF Init, Counting, Once, JobDone
<1> QED
  BY <1>1, <1>2, <1>3 DEF IInv

LEMMA TypeStep == IInv /\ [Next]_vars => TypeOK'
<1> SUFFICES ASSUME IInv, [Next]_vars PROVE TypeOK'
  OBVIOUS
<1> USE DEF IInv, TypeOK, TaskAt, HandlerAt, TaskGo, HandlerGo, dataVars, waitVars
<1>1. CASE UNCHANGED vars
  BY <1>1 DEF vars
<1>2. CASE Insmod \/ Arm \/ TaskLock \/ TaskUnlock \/ Rmmod \/ Cancel
  BY <1>2 DEF Insmod, Arm, TaskLock, TaskUnlock, Rmmod, Cancel
<1>3. CASE TaskData
  BY <1>3, UpType DEF TaskData, Load, Store
<1>4. CASE WaitForCompletion
  <2>1. done' = done \/ (done > 0 /\ done' = done - 1)
    BY <1>4 DEF WaitForCompletion
  <2>2. done' \in 0 .. 1
    BY <2>1
  <2>3. asleep' \in BOOLEAN
    BY <1>4 DEF WaitForCompletion
  <2> QED
    BY <1>4, <2>2, <2>3 DEF WaitForCompletion
<1>5. CASE WaitEvent \/ WaitInterrupted
  <2>1. task' \in TaskAt /\ asleep' \in BOOLEAN
    BY <1>5 DEF WaitEvent, WaitInterrupted
  <2>2. UNCHANGED <<prog, timer, handler, above, lock, dataVars, done>>
    BY <1>5 DEF WaitEvent, WaitInterrupted
  <2> QED
    BY <2>1, <2>2
<1>6. CASE Expire
  BY <1>6, StartAt DEF Expire
<1>7. CASE HandlerLock \/ HandlerUnlock \/ HandlerEnd
  BY <1>7 DEF HandlerLock, HandlerUnlock, HandlerEnd
<1>8. CASE HandlerData
  BY <1>8, UpType DEF HandlerData, Load, Store
<1>9. CASE HandlerAtomic
  BY <1>9, UpType DEF HandlerAtomic
<1>10. CASE HandlerWake
  <2>1. done' = done \/ (done = 0 /\ done' = done + 1)
    BY <1>10 DEF HandlerWake, Once
  <2>2. done' \in 0 .. 1
    BY <2>1
  <2> QED
    BY <1>10, <2>2 DEF HandlerWake
<1> QED
  BY <1>1, <1>2, <1>3, <1>4, <1>5, <1>6, <1>7, <1>8, <1>9, <1>10
  DEF Next, TaskStep, InitStep, HandlerStep

LEMMA ControlStep == IInv /\ [Next]_vars => Started' /\ OwnPath' /\ LockHolder'
<1> SUFFICES ASSUME IInv, [Next]_vars PROVE Started' /\ OwnPath' /\ LockHolder'
  OBVIOUS
<1> USE DEF IInv, TypeOK, TaskAt, HandlerAt, TaskGo, HandlerGo, Locking, Waiting,
            Started, OwnPath, LockHolder
<1>1. CASE UNCHANGED vars
  BY <1>1 DEF vars
<1>2. CASE Insmod \/ Arm \/ TaskLock \/ TaskUnlock \/ Rmmod
  BY <1>2 DEF Insmod, Arm, TaskLock, TaskUnlock, Rmmod
<1>3. CASE Cancel
  BY <1>3 DEF Cancel
<1>4. CASE TaskData
  BY <1>4 DEF TaskData
<1>5. CASE WaitForCompletion \/ WaitEvent \/ WaitInterrupted
  BY <1>5 DEF WaitForCompletion, WaitEvent, WaitInterrupted
<1>6. CASE Expire
  BY <1>6, StartAt DEF Expire
<1>7. CASE HandlerLock \/ HandlerUnlock \/ HandlerEnd \/ HandlerAtomic
  BY <1>7 DEF HandlerLock, HandlerUnlock, HandlerEnd, HandlerAtomic
<1>8. CASE HandlerData \/ HandlerWake
  BY <1>8 DEF HandlerData, HandlerWake
<1> QED
  BY <1>1, <1>2, <1>3, <1>4, <1>5, <1>6, <1>7, <1>8
  DEF Next, TaskStep, InitStep, HandlerStep

LEMMA CountingStep == IInv /\ [Next]_vars => Counting'
<1> SUFFICES ASSUME IInv, [Next]_vars PROVE Counting'
  OBVIOUS
<1> USE DEF IInv, TypeOK, TaskGo, HandlerGo, dataVars, Counting
<1>1. CASE UNCHANGED vars
  BY <1>1 DEF vars
<1>2. CASE Insmod
  BY <1>2 DEF Insmod, Started
<1>3. CASE Arm \/ TaskLock \/ TaskUnlock \/ Rmmod \/ Cancel
  BY <1>3 DEF Arm, TaskLock, TaskUnlock, Rmmod, Cancel
<1>4. CASE TaskData
  <2>1. handler # "store" /\ prog # "atomic"
    BY <1>4 DEF TaskData, OwnPath, LockHolder, Locking
  <2> QED
    BY <1>4, <2>1 DEF TaskData, Load, Store
<1>5. CASE WaitForCompletion \/ WaitEvent \/ WaitInterrupted
  BY <1>5 DEF WaitForCompletion, WaitEvent, WaitInterrupted
<1>6. CASE Expire
  BY <1>6, StartAt DEF Expire, dataVars
<1>7. CASE HandlerLock \/ HandlerUnlock \/ HandlerEnd \/ HandlerWake
  BY <1>7 DEF HandlerLock, HandlerUnlock, HandlerEnd, HandlerWake
<1>8. CASE HandlerData
  <2>1. task # "store" /\ task # "none" /\ prog # "atomic"
    BY <1>8 DEF HandlerData, OwnPath, LockHolder, Started, Locking
  <2> QED
    BY <1>8, <2>1 DEF HandlerData, Load, Store, Locking, Waiting
<1>9. CASE HandlerAtomic
  <2>1. task # "store" /\ task # "none" /\ prog = "atomic"
    BY <1>9 DEF HandlerAtomic, OwnPath, Started, Locking
  <2> QED
    BY <1>9, <2>1 DEF HandlerAtomic, Up
<1> QED
  BY <1>1, <1>2, <1>3, <1>4, <1>5, <1>6, <1>7, <1>8, <1>9
  DEF Next, TaskStep, InitStep, HandlerStep

LEMMA JobStep == IInv /\ [Next]_vars => Once' /\ JobDone'
<1> SUFFICES ASSUME IInv, [Next]_vars PROVE Once' /\ JobDone'
  OBVIOUS
<1> USE DEF IInv, TypeOK, TaskGo, HandlerGo, dataVars, waitVars, Once, JobDone,
            Locking, Waiting
<1>1. CASE UNCHANGED vars
  BY <1>1 DEF vars
<1>2. CASE Insmod \/ Arm
  BY <1>2 DEF Insmod, Arm, Started
<1>3. CASE TaskLock \/ TaskData \/ TaskUnlock
  BY <1>3 DEF TaskLock, TaskData, TaskUnlock, OwnPath
<1>4. CASE Rmmod \/ Cancel
  BY <1>4 DEF Rmmod, Cancel
<1>5. CASE WaitForCompletion \/ WaitEvent \/ WaitInterrupted
  BY <1>5 DEF WaitForCompletion, WaitEvent, WaitInterrupted
<1>6. CASE Expire
  BY <1>6, StartAt DEF Expire, HandlerAt
<1>7. CASE HandlerLock \/ HandlerUnlock \/ HandlerEnd \/ HandlerAtomic
  BY <1>7 DEF HandlerLock, HandlerUnlock, HandlerEnd, HandlerAtomic, OwnPath
<1>8. CASE HandlerData
  <2>1. CASE HandlerGo("load", "store") /\ Load("handler")
    BY <1>8, <2>1 DEF HandlerData, Load
  <2>2. CASE HandlerGo("store", IF prog \in Locking THEN "unlock"
                                ELSE IF prog \in Waiting THEN "wake" ELSE "rearm")
             /\ Store("handler")
    <3>1. data' = Up(data)
      BY <2>2 DEF Store, Counting
    <3>2. data' >= data /\ data' > 0 /\ data' \in Nat
      BY <3>1, UpType
    <3> QED
      BY <1>8, <2>2, <3>2 DEF HandlerData
  <2> QED
    BY <1>8, <2>1, <2>2 DEF HandlerData
<1>9. CASE HandlerWake
  <2>1. CASE prog = "completion"
    <3>1. handler = "wake" /\ handler' = "end" /\ done' = done + 1
      BY <1>9, <2>1 DEF HandlerWake
    <3>2. timer = "off" /\ data > 0 /\ done = 0
      BY <2>1, <3>1
    <3>3. UNCHANGED <<prog, task, timer, data>>
      BY <1>9 DEF HandlerWake
    <3>4. timer' = "off" /\ data' > 0 /\ task' # "arm" /\ handler' = "end"
      BY <3>1, <3>2, <3>3 DEF Started
    <3>5. Once'
      BY <3>4
    <3>6. JobDone'
      BY <2>1, <3>3
    <3> QED
      BY <3>5, <3>6
  <2>2. CASE prog = "waitqueue"
    BY <1>9, <2>2 DEF HandlerWake
  <2> QED
    BY <1>9, <2>1, <2>2 DEF HandlerWake
<1> QED
  BY <1>1, <1>2, <1>3, <1>4, <1>5, <1>6, <1>7, <1>8, <1>9
  DEF Next, TaskStep, InitStep, HandlerStep

-----------------------------------------------------------------------------
\* The inductive invariant holds of every behaviour.
THEOREM Invariance == Spec => []IInv
<1>1. IInv /\ [Next]_vars => IInv'
  BY TypeStep, ControlStep, CountingStep, JobStep DEF IInv
<1> QED
  BY InitInv, <1>1, PTL DEF Spec

\* The variables of the seven modules have their types, and complete() is
\* called at most once.
THEOREM TypeCorrect == Spec => []TypeOK
<1>1. IInv => TypeOK
  BY DEF IInv
<1> QED
  BY <1>1, Invariance, PTL

\* No increment of init or of the handler is lost (mutex.c, spinlock.c), and
\* the countdown of atomic.c misses none.
THEOREM NoIncrementIsLost == Spec => []NoLostIncrement
<1>1. IInv => NoLostIncrement
  BY DEF IInv, Counting, NoLostIncrement
<1> QED
  BY <1>1, Invariance, PTL

\* No handler of the seven modules outlives its module.
THEOREM NoHandlerAfterExit == Spec => []CodeGone
<1>1. IInv => CodeGone
  BY DEF IInv, Started, CodeGone
<1> QED
  BY <1>1, Invariance, PTL

\* The init functions of completion.c and waitqueue.c return 0 only after the
\* event they wait for.
THEOREM InitWaits == Spec => []JobDone
<1>1. IInv => JobDone
  BY DEF IInv
<1> QED
  BY <1>1, Invariance, PTL
=============================================================================
