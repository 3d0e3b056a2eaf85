----------------------------- MODULE ChrdevLife -----------------------------
(***************************************************************************)
(* The devices of chrdev_irq.c with their users: ChrdevRegistry composed   *)
(* with readers that sleep, and with the references that open and release  *)
(* take on the device object.  Files stay open, and readers asleep, while  *)
(* their device is unregistered and while its slot is registered again, and*)
(* a file can be opened while its device is registered or unregistered.    *)
(* The module stays loaded.                                                *)
(*                                                                         *)
(* read() is reduced to what this is about: the mutex, the sleep, the copy.*)
(* That no wake-up is lost between test and sleep is shown of ChrdevIrq, so *)
(* they are one step here; the ring is empty or not.                       *)
(***************************************************************************)
EXTENDS ChrdevRegistry, FiniteSets

CONSTANTS
  Objects,       \* blocks of memory device_create may return
  DeviceRefs     \* 3: the references on a registered device object, of its
                 \* creator, its class and its parent

ASSUME LifeAssumption ==
  /\ Null \notin Objects /\ DeviceRefs \in Nat \ {0}
  /\ Null \notin Files /\ IsFiniteSet(Files)

VARIABLES
  object,        \* chrdev->dev: a block, or Null if it was never one or is
                 \* an ERR_PTR
  refs,          \* references on a device object, 0 when it is free
  mux,           \* holder of a device's mutex, or Null
  queue,         \* readers with an entry on a device's queue
  lost,          \* readers whose queue or mutex was initialised under them
  data,          \* a device's ring has data
  rpc,           \* next step of a reader; readers are named by their file
  \* history
  opened,        \* opened[f]: the object f took its reference on
  misput         \* the objects about which some release was mistaken

userVars == <<mux, queue, lost, data, rpc>>
refVars  == <<object, refs, opened, misput>>
lifeVars == <<vars, refVars, userVars>>

LifeInit ==
  /\ InitDevices /\ module = "in" /\ class = "ok"
  /\ object = [i \in Id |-> Null] /\ refs = [o \in Objects |-> 0]
  /\ mux = [i \in Id |-> Null] /\ queue = [i \in Id |-> {}] /\ lost = {}
  /\ data = [i \in Id |-> FALSE]
  /\ rpc = [f \in Files |-> "idle"]
  /\ opened = [f \in Files |-> Null] /\ misput = {}

\* n times kobject_put; a free object stays what it is.
Put(o, n) == refs' = [refs EXCEPT ![o] = IF @ > n THEN @ - n ELSE 0]

-----------------------------------------------------------------------------
(* register and unregister *)

\* What device_create returns is stored in chrdev->dev, an ERR_PTR too.
LifeCreate(p) ==
  /\ RegCreate(p)
  /\ \/ /\ dev'[This(p)] = "valid"
        /\ \E o \in Objects :
             /\ refs[o] = 0 /\ refs' = [refs EXCEPT ![o] = DeviceRefs]
             /\ object' = [object EXCEPT ![This(p)] = o]
     \/ /\ dev'[This(p)] = "stale"
        /\ object' = [object EXCEPT ![This(p)] = Null]
        /\ UNCHANGED refs
  /\ UNCHANGED <<opened, misput, userVars>>

\* Readers that may be on the mutex's list of waiters.
Waiters(i) == {f \in Files : rpc[f] = "mutex" /\ file[f] = i /\ mux[i] # Null}

\* mutex_init and init_waitqueue_head forget whoever holds or waits.
LifeInitData(p) ==
  /\ RegInit(p)
  /\ mux' = [mux EXCEPT ![This(p)] = Null]
  /\ queue' = [queue EXCEPT ![This(p)] = {}]
  /\ \E W \in SUBSET Waiters(This(p)) : lost' = lost \cup queue[This(p)] \cup W
  /\ data' = [data EXCEPT ![This(p)] = FALSE]
  /\ UNCHANGED <<refVars, rpc>>

LifeDeinit_TakesMutex(p) ==
  /\ ppc[p] = "deinit" /\ mux[This(p)] = Null
  /\ UnregDeinit(p)
  /\ UNCHANGED <<refVars, userVars>>

\* The slot is marked free, without the mutex.
LifeDeinit(p) ==
  /\ UnregDeinit(p)
  /\ UNCHANGED <<refVars, userVars>>

LifeDestroy_Twice(p) ==
  /\ UnregDestroy(p)
  /\ Put(object[This(p)], DeviceRefs + 1)
  /\ UNCHANGED <<object, opened, misput, userVars>>

\* device_destroy drops the references device_create left.
LifeDestroy(p) ==
  /\ UnregDestroy(p)
  /\ Put(object[This(p)], DeviceRefs)
  /\ UNCHANGED <<object, opened, misput, userVars>>

LifeBind(p) ==
  /\ Probe(p) \/ Remove(p)
  /\ UNCHANGED <<refVars, userVars>>

\* The other steps of a driver touch neither users nor references.
LifeDriver(p) ==
  /\ \/ FwLoad(p) \/ ProbeNode(p) \/ RemoveNode(p) \/ RegCheck(p) \/ RegAlloc(p) \/ RegAdd(p) \/ RegStart(p)
     \/ RegDelCdev(p) \/ RegKfreeBuf(p)
     \/ UnregCheck(p) \/ UnregCancel(p) \/ UnregFree(p) \/ UnregDel(p)
  /\ UNCHANGED <<refVars, userVars>>

-----------------------------------------------------------------------------
(* The handler of the timer *)

LifeFire(i) ==
  /\ TimerFire(i)
  /\ data' = [data EXCEPT ![i] = TRUE]
  /\ UNCHANGED <<refVars, mux, queue, lost, rpc>>

LifeDone_NoWakeUp(i) ==
  /\ TimerDone(i)
  /\ UNCHANGED <<refVars, userVars>>

\* wake_up_interruptible takes the readers off the queue.
LifeDone(i) ==
  /\ TimerDone(i)
  /\ queue' = [queue EXCEPT ![i] = {}]
  /\ UNCHANGED <<refVars, mux, lost, data, rpc>>

-----------------------------------------------------------------------------
(* open and release *)

Alive(o) == o # Null /\ refs[o] > 0

\* kobject_get on what chrdev->dev points to, be it NULL still or the object of
\* an earlier device: on no or a free object it has no effect that could be
\* relied on, and on an ERR_PTR it faults, so that no file comes of it.
LifeOpen(f, i) ==
  /\ dev[i] = "stale" => object[i] # Null
  /\ chrdev_open(f, i)
  /\ IF Alive(object[i])
     THEN /\ refs' = [refs EXCEPT ![object[i]] = @ + 1]
          /\ opened' = [opened EXCEPT ![f] = object[i]]
     ELSE UNCHANGED <<refs, opened>>
  /\ UNCHANGED <<object, misput, userVars>>

\* kobject_put on what chrdev->dev points to now.
LifeRelease(f) ==
  /\ rpc[f] = "idle"
  /\ chrdev_release(f)
  /\ IF object[file[f]] # Null THEN Put(object[file[f]], 1) ELSE UNCHANGED refs
  /\ misput' = IF opened[f] = object[file[f]] THEN misput
               ELSE misput \cup ({opened[f], object[file[f]]} \ {Null})
  /\ opened' = [opened EXCEPT ![f] = Null]
  /\ UNCHANGED <<object, userVars>>

-----------------------------------------------------------------------------
(* read *)

\* Past mutex_lock, before mutex_unlock.
Holding == {"test", "sleep", "copy", "unlock"}

ReaderGo(f, from, to) == rpc[f] = from /\ rpc' = [rpc EXCEPT ![f] = to]

ReadCall(f) ==
  /\ file[f] # Null
  /\ ReaderGo(f, "idle", "mutex")
  /\ UNCHANGED <<vars, refVars, mux, queue, lost, data>>

ReadLock(f) ==
  /\ ReaderGo(f, "mutex", "test")
  /\ mux[file[f]] = Null /\ f \notin lost
  /\ mux' = [mux EXCEPT ![file[f]] = f]
  /\ UNCHANGED <<vars, refVars, queue, lost, data>>

\* wait_event_interruptible
ReadTest(f) ==
  /\ \/ rpc[f] = "test" /\ data[file[f]] /\ ReaderGo(f, "test", "copy")
        /\ UNCHANGED queue
     \/ rpc[f] = "test" /\ ~data[file[f]] /\ ReaderGo(f, "test", "sleep")
        /\ queue' = [queue EXCEPT ![file[f]] = @ \cup {f}]
  /\ UNCHANGED <<vars, refVars, mux, lost, data>>

\* Woken by the handler, which took the entry off the queue.
ReadWake(f) ==
  /\ rpc[f] = "sleep" /\ f \notin queue[file[f]] \cup lost
  /\ ReaderGo(f, "sleep", "test")
  /\ UNCHANGED <<vars, refVars, mux, queue, lost, data>>

\* A signal: the entry is unlinked, and the condition tested once more.  An
\* entry whose queue was initialised under it still has the queue as both its
\* neighbours, and empties it of those who sleep on it now.
ReadInterrupted(f) ==
  /\ \/ ReaderGo(f, "sleep", "unlock") /\ ~data[file[f]]
     \/ ReaderGo(f, "sleep", "copy") /\ data[file[f]]
  /\ IF f \in lost
     THEN /\ queue' = [queue EXCEPT ![file[f]] = {}]
          /\ lost' = (lost \cup queue[file[f]]) \ {f}
     ELSE /\ queue' = [queue EXCEPT ![file[f]] = @ \ {f}]
          /\ UNCHANGED lost
  /\ UNCHANGED <<vars, refVars, mux, data>>

\* Some or all of the data; the buffer may be gone.
ReadCopy(f) ==
  /\ ReaderGo(f, "copy", "unlock")
  /\ \E more \in BOOLEAN : data' = [data EXCEPT ![file[f]] = more /\ @]
  /\ UNCHANGED <<vars, refVars, mux, queue, lost>>

\* mutex_unlock does not ask who holds it.
ReadReturn(f) ==
  /\ ReaderGo(f, "unlock", "idle")
  /\ mux' = [mux EXCEPT ![file[f]] = Null]
  /\ UNCHANGED <<vars, refVars, queue, lost, data>>

ReadStep(f) ==
  \/ ReadLock(f) \/ ReadTest(f) \/ ReadWake(f) \/ ReadCopy(f) \/ ReadReturn(f)

-----------------------------------------------------------------------------
DriverRuns(p) ==
  LifeCreate(p) \/ LifeInitData(p) \/ LifeDeinit(p) \/ LifeDestroy(p) \/ LifeDriver(p)
TimerRuns(i) == LifeFire(i) \/ LifeDone(i)

LifeNext ==
  \/ \E p \in Drivers : LifeBind(p) \/ DriverRuns(p)
  \/ \E i \in Id : TimerRuns(i)
  \/ \E f \in Files :
       \/ LifeRelease(f) \/ ReadCall(f) \/ ReadStep(f) \/ ReadInterrupted(f)
       \/ \E i \in Id : LifeOpen(f, i)

LifeSpec == LifeInit /\ [][LifeNext]_lifeVars

\* The timer is restarted until it is cancelled; a process inside the kernel
\* gets the processor, and the mutex is handed to a waiter that has failed to
\* get it; hrtimer_cancel tries again until no handler is running.  Nobody has
\* to load, bind, open, close, read or be interrupted.
LifeFairness ==
  /\ \A i \in Id : WF_lifeVars(TimerRuns(i))
  /\ \A f \in Files : /\ WF_lifeVars(ReadStep(f))
                      /\ SF_lifeVars(ReadLock(f))
  /\ \A p \in Drivers : SF_lifeVars(DriverRuns(p))

LifeFairSpec == LifeSpec /\ LifeFairness

-----------------------------------------------------------------------------
(* Properties *)

IsRegistered(o) == \E i \in Id : dev[i] = "valid" /\ object[i] = o

\* A device object has the references of its registration as long as it is
\* registered, and one for every file that was opened on it, closed before or
\* after the device is unregistered - but for the objects about which some
\* release was mistaken: opened before chrdev->dev pointed to the device it was
\* for, or closed when it did not any more (chrdev_irq.c:206, :217, :279, :351).
ReferencesExact ==
  \A o \in Objects \ misput :
    refs[o] = (IF IsRegistered(o) THEN DeviceRefs ELSE 0)
                + Cardinality({f \in Files : opened[f] = o})

\* The users of a device are undisturbed when it is registered, none of them
\* was forgotten by its queue or mutex, and who is past the mutex holds it.
Undisturbed(i) ==
  /\ busy[i]
  /\ \A f \in Files : (file[f] = i) => (f \notin lost)
  /\ \A f \in Files : (file[f] = i /\ rpc[f] \in Holding) => (mux[i] = f)

\* A read() returns, also one that waits behind a reader asleep with the mutex,
\* unless meanwhile its device is unregistered or registered again under its
\* users: the sleeper is then left without the timer, or off the queue, that
\* would wake it, and two readers can be inside one mutex
\* (chrdev_irq.c:158, :166, :293-295, :339).
ReadReturnsOrOrphaned ==
  \A f \in Files : (rpc[f] # "idle") ~> (rpc[f] = "idle" \/ ~Undisturbed(file[f]))

\* An unregistration comes to its end although readers sleep holding the mutex
\* of the device and its timer keeps re-arming itself (chrdev_irq.c:320-355).
UnregisterReturns ==
  \A p \in Drivers : (ppc[p] \in InUnregister) ~> (ppc[p] \in Resting)

(* Claims of the source that the code does not keep, see README. *)

\* "Dealocate the device" (chrdev_irq.c:350): a device object that is neither
\* registered nor held by an open file has been freed.
Deallocated ==
  \A o \in Objects :
    refs[o] > 0 => IsRegistered(o) \/ \E f \in Files : opened[f] = o

\* "Get data from the circular buffer" (chrdev_irq.c:175): a reader copies from
\* a buffer that has not been freed.
CopyHasBuffer == \A f \in Files : rpc[f] = "copy" => buf[file[f]] \in heap

\* "Grab the mutex", "Release the mutex" (chrdev_irq.c:157, :195): the mutex a
\* reader releases is the one it grabbed.
ReleasesOwnMutex == \A f \in Files : rpc[f] = "unlock" => mux[file[f]] = f
=============================================================================
