# A verification project for the Linux Device Driver Development Cookbook

The repository holds the example code of a book on Linux device drivers: small
kernel modules, the patches that extend them, and the user programs that
exercise them.  This directory keeps TLA+ models of the parts that have behaviour
worth checking, the TLC instances of them, and proofs for TLAPS.

1. [The system](#1-the-system-inventory)
2. [The models](#2-the-models)
3. [The runs](#3-the-runs)
4. [The proofs](#4-the-proofs)
5. [Where code and text disagree](#5-where-code-and-text-disagree)
6. [Not modelled, and the plan](#6-not-modelled-and-the-plan)

To repeat everything: `tlc -config X.cfg M` for each run of section 3 and
`tlapm M.tla` for each `*Proofs.tla`.

## 1. The system: inventory

The kernel (scheduler, locks, wait queues, timers, work queues, the VFS) is the
environment of every component below.  It is modelled by what the code uses of
it, never on its own.

### 1.1 Interrupt-driven character device: the data path

`Chapter07/chrdev/chrdev_irq.c`, `chrdev_irq.h`, and the programs
`Chapter07/chrdev_select.c` and `chrdev_fasync.c`.

*State.*  Per device a ring (`buf`, `head`, `tail`), a mutex `mux`, a spin lock
`lock`, a wait queue `queue`, a `fasync_queue`, a high-resolution timer; and one
static letter `d` in `get_new_char`, shared by all devices.
*Operations.*  The timer handler (softirq) stores a letter if there is room,
wakes the queue and sends SIGIO.  `read()` takes letters and sleeps if there are
none.  `poll()` registers on the queue and tests.  `fasync()` changes the SIGIO
list.
*Hard.*  A copy of up to a page goes through 256 bytes on the stack.  Two indices, two
locks, two contexts, and no lock that covers both indices: the handler moves `head` under the spin lock and reads `tail`; the reader
moves `tail` under the mutex alone.  Readers sleep with the mutex held.  Test and
sleep are separate steps.
*Correct when.*  Letters come out in the order made, none twice, none lost but to
a fault of `copy_to_user`; no unread letter is overwritten; nobody sleeps over
data; every call returns.

### 1.2 Device registry

Three versions of one module: `Chapter04/chrdev/chrdev.c` (each device has its
buffer inside), `Chapter07/chrdev/chrdev.c` (the buffer is allocated) and
`chrdev_irq.c` (and a timer runs); the platform drivers `chrdev-req.c` (the same
file in Chapter04 and Chapter07, and patched by `add_fixed_chrdev_devices.patch`)
and `Chapter04/chrdev/chrdev-fw.c`; `open` and `release`.

*State.*  The module with its class and region; `chrdev_array`, one slot per minor
number: `busy`, `label`, `buf`, `cdev`, `dev`, `timer`; the heap; the open files.
*Operations.*  Module init and exit.  A driver's `probe` walks over the child nodes
of its platform device and registers one character device each; its `remove` walks
again and unregisters them.  The firmware driver and a fixed device register one.
*Hard.*  Three calls in a registration can fail, each with its own way out, and a
failed `class_create` is not noticed at all; a long label is cut on the way in and
compared in full on the way out; no lock covers the slots; drivers may
name the same id; the timer re-arms itself while unregister frees the buffer;
`remove` calls `BUG()` on a node that `probe` skipped.
*Correct when.*  Registration is all or nothing, no timer runs on a freed buffer,
a device is taken away by its own driver only, nothing outlives the module.

### 1.3 A device and its users

Files stay open, and readers asleep, while their device is unregistered and its
slot registered again: `chrdev_open`, `_release`, `_read` of `chrdev_irq.c` against
`chrdev_device_register` and `_unregister`.

*State.*  Of 1.1 and 1.2 what outlives a device: the reference count of its device
object, the mutex, the wait queue, the buffer.
*Hard.*  Unregistration neither takes the mutex nor wakes the sleepers, and frees the
buffer under them; registration initialises mutex and queue whoever uses them; a file
can be opened as soon as there is a `cdev`, before `chrdev->dev` is set; `release` drops
a reference on what `chrdev->dev` points to by then.
*Correct when.*  References add up, a reader keeps its mutex and its buffer, a read
returns, and so does an unregistration.  The code keeps the first until a `release` is
mistaken about its device, the second not at all, the third while nobody disturbs the
device, and the fourth (sections 3 and 5).

### 1.4 Memory device

`Chapter07/chrdev/chrdev.c` (`read`, `write`, `llseek`, `ioctl`, `mmap`), without
and with `add_mutex_to_chrdev.patch`; the clients `chrdev_ioctl.c`,
`chrdev_mmap.c`; Chapter04's `chrdev.c` (`read`, `write`) with the attributes of
`add_sysfs_attrs_chrdev.patch` (`read_only`, `reset_to`).

*State.*  Per device `buf`, `read_only` and, with the patch, `mux`; per open file
description the position `f_pos`.
*Hard.*  The kernel copies the position before a call and writes it back after it,
with no lock around the two; processes share file descriptions; `read_only` is
tested outside the mutex and set at any time; copies are not atomic and may fail
half-way; a mapping and `reset_to` bypass every check.
*Correct when.*  No copy leaves the buffer; a write that begins while the device is
read-only changes nothing; with the mutex, a `read()` or `write()` is one step.

### 1.5 Timer modules

Seven modules of Chapter05 around one kernel timer: `timer/ktimer.c`,
`timer/hires_timer.c`, `atomic/atomic.c`, `atomic/mutex.c`, `atomic/spinlock.c`,
`wait_event/completion.c`, `wait_event/waitqueue.c`.

*State.*  `data`, the timer, and a lock, a completion or a wait queue.
*Operations.*  module init (arms the timer, then perhaps increments `data` or
waits), the handler, module exit.
*Hard.*  The handler runs on another processor or interrupts the thread; the timer
is armed before init takes its lock or begins to wait; the handler re-arms the timer that
exit stops; a signal ends the wait.
*Correct when.*  No increment is lost, init waits for its event and no longer, no
handler outlives its module, the timer goes on.

### 1.6 irqtest driver

The driver that `Chapter05/add_irqtest_module.patch` creates, with its three kinds
of deferred work: `add_tasklet_2_…`, `add_workqueue_…`, `add_workqueue_2_to_irqtest_module.patch`.

*State.*  The interrupt line, the tasklet or work, the delayed work.
*Hard.*  An interrupt while its job is queued or running; the work arms the
delayed work that `remove` cancels; `remove` kills the job before it frees the
interrupt.
*Correct when.*  Every interrupt is served, and `remove` leaves nothing behind.

### 1.7 Three small modules

* `Chapter05/notifier/notifier.c`: init registers a handler on each of two chains and
  undoes the first if the second fails; both handlers increment one counter.
  *Correct when* no handler is left behind and no event goes uncounted.
* `Chapter06/list/list.c`, `hashtable/hashtable.c`: entries kept in a descending list
  and in a hash table.  *Correct when* the list stays ordered and both hold the same.
* `Chapter03/chrdev_test.c` with its two patches, on `chrdev_legacy.c` without and with
  its patch and on the memory device: loops of partial writes and reads.
  *Correct when* it reads back what it wrote, and ends.

### 1.8 The rest

Single-call demonstrations: section 6.

### Interactions

A driver's `probe` (1.2) brings a device of 1.1 or 1.4 to life and its `remove`
ends it; the timer of 1.1 is started by registration and cancelled by
unregistration; 1.3 is what follows from that for the users of a device.  The
clients act through system calls only.  1.5, 1.6 and 1.7 are independent of the
others and of one another, but for `chrdev_test.c`, a client of 1.4.

## 2. The models

| module | models | role |
|---|---|---|
| `CircBuf` | the five `cbuf_*` helpers | operators, no state |
| `ChrdevIrq` | 1.1, one registered device | specification, fairness |
| `ChrdevIrqProperties` | | what must hold of it |
| `ChrdevIrqRefinement` | | its queue of letters as that of `LossyFifo` |
| `LossyFifo` | | abstract: a bounded FIFO that may lose what a fault loses |
| `ChrdevRegistry` | 1.2; the variable `source` is the version | specification and properties |
| `ChrdevLife` | 1.3: `ChrdevRegistry` composed with the users of a device | specification, fairness, properties |
| `ChrdevFile` | 1.4; the variable `version` | specification and properties |
| `ChrdevFileRefinement` | | its calls as those of `AtomicBuffer` |
| `AtomicBuffer` | | abstract: `read()` and `write()` in one step |
| `TimerModules` | 1.5; the variable `prog` is the module | specification, fairness, properties |
| `IrqTest` | 1.6; the variable `kind` is the patch | actions, fairness, properties |
| `Notifier`, `Containers`, `ChrdevTest` | 1.7 | actions and properties |
| `MCSmallModules` | | these three and `IrqTest` in one run, of which one moves |
| `MCChrdevRegistry` | | constants for TLC, and two scenes: which platform devices there are |
| `MC…` | | constants for TLC |
| `CircBufProofs`, `ChrdevIrqProofs`, `ChrdevRegistryProofs`, `ChrdevLifeProofs`, `ChrdevFileProofs`, `TimerModulesProofs`, `IrqTestProofs`, `SmallModulesProofs` | | theorems |

`X_Something` next to an operator `X` is `X` with a plausible mistake (a missing
test, a wrong order).  Such definitions occur in no specification; `PROJECT.json`
pairs each with the property that notices it.

### How state and actions correspond to the code

*A step* is what the code does between two points where another context can see or
change shared state.  The program counter of a context (`tpc`, `pc[p]`, `ppc[p]`,
`task`, `handler`, `drv`) names the call it is about to make.  Locals of a C
function become functions on the process that runs it.  Memory is sequentially
consistent: `chrdev_irq.c` reads `head` and `tail` without barriers, and what a
weakly ordered processor could make of that is out of the models' reach.

**`ChrdevIrq`.**  `TimerLock` … `TimerKill` are `chrdev_timer_handler` in order:
the test for room, the store and the move of `head` are three steps.
`ReadCall` … `ReadReturn` are `chrdev_read`; `ReadTest`, `ReadPrepare`, `ReadCond`,
`ReadWake` and `ReadSignal` are the loop of `wait_event_interruptible`,
`ReadInterrupted` its `-ERESTARTSYS` (which the code stores in `count`, and so does
the model).  `CopyFrom` is `memcpy` from `&buf[tail]`: it does not wrap, and
what lies behind the array is the byte `Beyond`.  Nor does it know the size of
`tmp`: bytes beyond `TMP_LEN` land on the stack behind it, the calls that follow go on,
and the return from `chrdev_read`, whose frame is lost, ends in `"smashed"`, from which no
step leads.  `copy_to_user` may leave any
number of bytes in `Faults` uncopied; it never returns a negative number, so the
`-EFAULT` branch is dead in the model as it is in the code.  A reader's entry leaves the
queue when it is woken (autoremove), a poller's stays until `poll_freewait`.
`SelectCall`, `PollWait`, `PollTest`, `PollAwake` are `select()` around
`chrdev_poll`; the kernel's part of it is marked external in the map.

**`ChrdevRegistry`.**  `InitClass`, `InitRegion` and `ModuleExit` are `chrdev_init` and
`chrdev_exit`; the kernel lets the module go when no driver is bound and no file
open.  `Drivers` are the threads that bind and unbind platform
devices, `Children[p]` the child nodes with id, label and whether they are
complete.  `Probe`, `FwLoad`, `ProbeNode` and `Remove`, `RemoveNode` are the loops
of the platform drivers; `FirstProbe` and `FirstRemove` tell the firmware driver and the
fixed devices from the others, and `Failed` what each makes of an error.  `Reg…` and
`Unreg…` are the calls of register and unregister one by one, `RegDelCdev` and
`RegKfreeBuf` its error labels.  Each call that can fail does both.  `kfree` leaves
the pointer as it is.  `strncpy` stores no terminator after a label in `LongLabels`,
those of `NAME_LEN` characters or more; `strcmp` then reads on into `busy`, so that what
is stored equals no label.  `ModuleExit` does not look at the slots, and leaves
what such a device has.  The initial state picks the version; `HasTimer` and
`OwnBuffer` say what it has.  `by` is history: who registered the device.

**`ChrdevLife`.**  Each action is one of `ChrdevRegistry` with what it does to
references, mutex, queue and data (`LifeCreate` is `RegCreate` and the first
references, `LifeInitData` is `RegInit` and `mutex_init`, …), or a step of a reader.
A slot can be opened whenever it has a `cdev`: between `cdev_add` and `device_create`, when
`chrdev->dev` is NULL, an error pointer or the object of an earlier device, and between
`device_destroy` and `cdev_del` too.  A registered object has `DeviceRefs` references – of
its creator, its class and its parent – which all go with `device_destroy`.
`opened` remembers which object a file took its reference on, and `misput` the objects for
which that and what `release` put were not the same.  `read()` is reduced: test and sleep
are one step, because `NoLostWakeup` of `ChrdevIrq` is about the gap between them, and the
ring is empty or not.  A reader whose queue or mutex is initialised under it is `lost`:
its entry is on no queue, and when a signal unlinks it, `list_del` empties the new one; a
waiter for the mutex may or may not have had its entry on the list already.
`mutex_unlock` frees the mutex whoever holds it.

**`ChrdevFile`.**  A call is split where others can look: the copy of `f_pos`
(`ReadCall`, `WriteCall`), the test of `read_only`, the mutex, every byte of the
copy, the update of `*ppos`, and the kernel's write-back (`WriteBack`).  `llseek`
reads and writes `f_pos` in two steps.  `Clients` run `chrdev_ioctl.c`;
`ResetCall`, `ResetReturn` and `StoreReadOnly` are the attributes; `MmapStore` is a
store through a mapping.  `barred` is history: the writes that began while the
device was read-only, forgotten when it is made writable.

**`TimerModules`.**  One thread (`task`) loads and unloads, the handler
(`handler`) runs at its own pace on another processor or, when `above`, on top of
the thread, which then stands still.  `data++` is a load and a store.  `atomic.c`
counts down from 10 (`MaxData` in the model) in one step; its bitmap is left out.

**`IrqTest`.**  The kernel's rules for an item of deferred work are in the model:
an item waits at most once, may be queued again while it runs but does not run
twice at a time, is taken off (`cancel_work_sync`) or run first
(`tasklet_kill`), and a queue of one thread runs one at a time.

**`Notifier`**: init and exit call by call; `data++` is a load and a store; the kernel
calls the handlers of one chain one at a time, and unregistering waits for them.
**`Containers`**: the same additions and deletions go to a list and to a table, both
sequences; `hash_func` keeps the sign of C's remainder, `Bucket` is the kernel's
`hash_32`.  **`ChrdevTest`**: a system call is a step; `ToEnd` is the clamp of the
devices that have a buffer.

## 3. The runs

| run | module | asks | bounds | states |
|---|---|---|---|---|
| `irq_safety` | `MCChrdevIrq` | does the ring keep its letters, do the locks exclude, is no wake-up lost? | buffer 3, 3 letters, 2 readers of 0 or 2 bytes, 1 poller, both modes | 412 k |
| `irq_fifo` | `MCChrdevIrq` | read byte by byte, is the device a FIFO? | buffer 3, 4 letters, 2 readers of 0 or 1 byte, faults, 1 process with FASYNC | 1.2 M |
| `irq_live` | `MCChrdevIrq` | does every `read()` and `select()` return? | buffer 2, 1 letter, 2 readers of 1 byte, both modes, 1 poller | 65 k |
| `irq_wrap` | `MCChrdevIrq` | *violation*: is what a reader copies what it should get? | buffer 3, reads of 2 bytes | |
| `registry` | `MCChrdevRegistry` | is registration all or nothing, is the timer's buffer there, does a device belong to its driver, is nothing left when the module goes? | 3 slots, 2 scenes of 3 drivers each, 2 blocks, 1 file, 3 versions | 295 k |
| `life` | `MCChrdevLife` | do references add up? | 1 slot, 1 driver, 2 files, 2 objects | 2.9 M |
| `life_live` | `MCChrdevLife` | do reads and unregistrations end? | 1 slot, 1 driver, 2 files, 1 object | 211 k |
| `life_reuse` | `MCChrdevLife` | *violation*: is an object that nobody holds freed? | as `life` | |
| `file` | `MCChrdevFile` | does everything stay in the buffer, is read-only honoured, are `read()` and `write()` atomic with the mutex? | 2 bytes of 2 values, 2 processes, 1 shared description, 1 client; faults and a mapping in one of 3 versions | 736 k |
| `timer_modules` | `TimerModules` | increments, life time, waiting, progress of the seven modules | `data` up to 4, waits for more than 2 | 748 |
| `timer_spinlock` | `TimerModules` | *violation*: does the handler of `spinlock.c` re-arm its timer? | the same | |
| `small_modules` | `MCSmallModules` | order and contents of the containers, life and count of the notifier, the test program; is every interrupt of irqtest served, does its `remove` clean up? | 4 entries of 3 values, 4 events, 2 users, 2 bytes to write, buffer 3 | 38 k |

(Distinct states as TLC reports them.  `irq_safety` treats its readers, `file` its
processes, `registry` its blocks of memory as interchangeable, in runs without liveness properties.)

### What the runs show

* **`irq_safety`** – `LockDiscipline`: mutex and spin lock exclude.
  `RoomForStore`: the handler's test for room is still true when it stores, although
  `tail` moved meanwhile.  `RingConsecutive`: the unread bytes are letters made one
  after the other, the last of them the newest.  `TmpIsPrefix`: what a reader copied
  fits and is still there when it moves `tail`.  `DataStaysUntilTaken`: a reader that goes
  on after a wake-up finds data, however many wake-ups there were for it.  `NoLostWakeup`: whoever sleeps
  over data has a wake-up on its way.  `StoreOnlyInFreeRoom`: no step changes an
  unread byte, nor the ring while a reader has the spin lock.
* **`irq_fifo`** – the device, read one byte at a time as both client programs do,
  implements `LossyFifo`: the letter enters when it is stored and leaves when
  it is given to the user; a call takes letters once; a fault loses the letter it
  could not copy and nothing else does.
* **`irq_live`** – `ReadReturns`, and `SelectReturns` when data stays.  A blocking reader
  keeps the mutex while it sleeps, so that `poll()` and another reader, a non-blocking one
  too, wait for the next letter; the run shows that it is no more than that, also when
  one takes the letter the other was to get, and when a signal ends the sleep of the one
  with the mutex.
* **`registry`** – `AllOrNothing`: with nobody at work a slot has everything or
  nothing, whatever failed, also after `BUG()` stopped a `remove` half-way, and also
  when the class is an error pointer (every `device_create` then fails).
  `TimerHasBuffer`, also when a block that one slot has freed goes to another that is
  being registered.  `OnlyOwnerUnregisters`: the label protects a device from the
  `remove` of a driver whose own registration of that id was refused.
  `ExitLeavesNothing`: the module never goes with a device, buffer, timer or class
  behind, but those of the device whose label was cut (`CutOff`); it depends on
  `chrdev-req.c` reporting success after a failed registration, since the devices it did
  register are unregistered by its `remove` only.
* **`life`** – `ReferencesExact`: an object has the references of its registration and
  one for every file opened on it, closed before or after the device goes, whoever comes
  while it is set up or taken down – until a `release` puts another object than its `open`
  got.
* **`life_live`** – `ReadReturnsOrOrphaned`: the readers of a device return as long as it is
  registered and nobody initialises it again under them (`Undisturbed`).  Else a sleeper
  may be left without timer or queue, and those behind it without the mutex.
  `UnregisterReturns`: nothing of that keeps an unregistration.
* **`file`** – `InBounds` holds under every race on the position, because each
  write-back stores a position computed as a whole.  `ReadOnlyBarsWrites`: the test
  of `read_only` stops every write that begins later, though not one already past it.
  `MutexExcludes`, and `IsAtomic`: with the patch the device refines `AtomicBuffer`
  (the mapping makes the abstract buffer constant in the other versions, about which
  nothing is claimed).
* **`timer_modules`** – `NoLostIncrement`, `CodeGone`, `JobDone`, `InitReturns`,
  `Reschedules`.  The last two allow for the deadlock of `spinlock.c`.
* **`small_modules`** – `Ordered`: descending, and equals in the order they came.
  `SameContents`: list and table hold the same data as often, although one deletes the
  oldest and the other the newest of several equals and although the key of odd
  negative data is -1.  `NoneLeft`, `EventsNumbered`: the counter equals the events
  unless two handlers met in `data++`.  `ReadsBack`, `TestEnds`: the patched program
  reads back its text from a buffer others write the same to, and no loop of it goes
  on for ever with any device.  `InterruptServed` and `WorkServed` while irqtest is bound,
  `RemoveIsClean` when no interrupt comes during `remove`.

### Why the bounds are enough

* Three positions let the ring be empty, half full and full in every rotation, so that
  indices wrap and a copy can cross the end; two letters fill the ring and three are one
  more, so an unread letter is never mistaken for the one being stored. Two readers are
  the least that compete for the mutex and for a letter, and no reader's step depends on
  how many others wait.
* In `irq_live`, where nothing depends on which letter a reader gets, a ring for one
  letter is enough for it to be empty, filled and taken by the wrong reader.
* In `registry` one scene has three drivers that all want id 0, which the fixed device
  has always; the one with child nodes has a node out of range and another one after it,
  so that its walk goes on past a failure and its `remove` takes two devices away. In
  the other scene a driver with an incomplete node works on one slot while two that
  share another, one of them with a label that is cut, work on that. With two blocks one
  that a slot has freed is handed to another.
* In `life` one file holds the mutex asleep or in its copy and one waits for it, or
  comes and goes, while the driver binds and unbinds; two objects are one still held by
  a file and a new one. `life_live` has one, since its properties are not about objects:
  a file opened before `device_create` holds no reference and so stays open from one
  registration to the next.
* In `small_modules` four entries of three values, odd, even and negative, make equals
  with something between them; a text of two bytes in a buffer of three is written and
  read in parts at its end.
* Two processes on one file description are the least that race on its position, and one
  byte, what just fits and more than what is left are the cases that `Clamp` tells
  apart; two values tell a byte written from one left. The counter of `TimerModules`
  stops at `MaxData`, above the `Enough` that the wait queue waits for. The theorems of
  section 4 do away with the bounds for the properties they cover.

### Fairness

* `ChrdevIrq`: the timer is restarted for ever and its handler runs to its end
  (weak fairness of `TimerNext`); a process inside the kernel gets the processor
  (weak, `ReadStep`, `PollStep`); the spin lock is a queued one and a mutex is
  handed to a waiter that has failed to get it, so each taking of a lock is strongly
  fair.  No process has to call, to be interrupted or to take its signal.
* `ChrdevLife`: the timer is restarted until it is cancelled, a process inside the kernel
  goes on (weak), a mutex is handed to a waiter (strong, `ReadLock`), and
  `hrtimer_cancel` tries until no handler runs (strong, `DriverRuns`).  Nobody has to
  bind, open, close, read or be interrupted, so a sleeper may have to wait for ever.
* `ChrdevTest`: a program that was started goes on (weak).
* `TimerModules`: an armed timer expires and its handler goes on (weak); the thread
  runs between two expiries, whose period is longer than init or exit, so its
  steps are strongly fair.  Nobody has to unload a module.
* `IrqTest`: handlers end and delays pass (weak); softirq and workers run what is
  queued (strong, since a single thread takes its two works in turn).

### Settings that need a word

`Serialised = TRUE` in the registry: drivers that have an id in common are probed and
removed one at a time, others in parallel.  Without it two probes can both find a
slot free (`chrdev_irq.c:255` tests, `:291` sets, no lock between), and nothing
holds of a slot that two drivers initialise at once.  The model has that behaviour
with `Serialised = FALSE`.  Boot-time probing is serial by default; the model does
not claim that the code forces it.

`life` and its relatives keep one module loaded, in the version with the timer.

`CHECK_DEADLOCK FALSE` in the two `timer_*` configurations: `spinlock.c` really
stops for good (section 5).  The same in `registry`: when `BUG()` has ended the
threads that walk over the nodes, or a device can be unregistered by nobody, there may be
nothing left to do.  Every other run checks for deadlock.

## 4. The proofs

Every safety property of a passing run is stated by a theorem, and both refinements
are: `Spec => []P`, `Spec => [][A]_vars` or `Spec => Abstract!Spec`, for every value of
the constants that satisfies the named `ASSUME` of the module.  Where a theorem assumes
more, it is named below, with the reason.  TLC checked the invariants first.

**`CircBufProofs`** – arithmetic of the ring.  `CountPlusSpace`: occupied and free
part add up to the size less one, and agree with the tests for empty and full;
`PointerMove`: a move goes round the end of the array at most once.

**`ChrdevIrqProofs`** – for every buffer size, alphabet, number of readers and
pollers, size of request and fault: `TypeOK`, `LockDiscipline`, `RoomForStore`,
`RingConsecutive`, `TmpIsPrefix`, `DataStaysUntilTaken`, `NoLostWakeup`,
`StoreOnlyInFreeRoom`.  `TmpIsPrefix` assumes `CopiesFit`, that the ring or every request
fits in `tmp`: the code does not ensure it (section 5), and without it what is left is
`TmpCopied`.  The invariant `IInv` of `ChrdevIrqProperties` is their
conjunction – of `TmpIsPrefix` without the assumption `TmpCopied` – with three parts that
make it inductive:

* `CountIsSize`: the request is a number until a signal replaces it;
* `StoredAtHead`: between the store and the move of `head` the new letter is at
  `head` – without it `RingConsecutive` does not survive `TimerMove`;
* `PollersQueued`: a `select()` under way has its entry on the queue – without it
  a wake-up could pass it by.

The argument at the heart: the reader only ever shrinks the occupied part, so a
handler that has seen room still has it (`RoomForStore`), and the handler only ever
extends it at the head, so a reader that has seen data still has it and what
it copied stays the front (`TmpCopied`); one mutex keeps other readers away in
between.  Each part is preserved by a lemma of its own, with a step per action.

`SingleBytesAreFifo` is the refinement: if a request is for at most one byte
(`Counts \subseteq {0, 1}`), as in both client programs, the device implements
`LossyFifo`.  It is false for longer requests: that is the finding of `irq_wrap`.  The
abstract queue is what is unread, less the letter given but still at the tail, plus
the one stored but not yet published; each action is shown to be an enqueue, a dequeue, a
loss, the begin or end of a call, or nothing, from `IInv` and the fact that a call of one
byte copies at most one.

**`ChrdevRegistryProofs`** – for any slots, drivers, child nodes, blocks and files, in the
three versions: `TypeOK`, `AllOrNothing`, `TimerHasBuffer`, `ExitLeavesNothing`,
`OnlyOwnerUnregisters`.  None of them is inductive.  The invariant says

* which steps a driver can be at, and that it then has a node of its own (`OnPath`) and
  has tested `busy` and the label (`AllTested`);
* that drivers at work at the same time have no slot in common (`Alone`), the place where
  `Serialised` is needed: without it the claim is false, as section 3 says;
* what of a slot exists – character device (`LiveRight`), device (`DevRight`), timer
  (`TimerRight`), block (`HeapRight`) – when no driver is at it, and at each step of a
  registration, of the way back after a failure, and of an unregistration;
* that a block has one owner (part of `HeapRight`), so that `kfree` of one slot
  does not free the buffer under the timer of another;
* for which driver and node a busy slot was registered, and what label `strncpy` made of
  that node's (`Owner`), and that nothing but busy slots exists while the module is out
  (`NotLoaded`).

`ExitLeavesNothing` makes an exception of the devices whose label was cut, which no
unregister finds.  `FittingLabelsLeaveNothing` is the claim without it: where `LongLabels`
is empty, the premise that the code needs and does not check, there are none and the
module leaves nothing at all.

`TypeOK` needs no assumption, the others `Serialised`.  `OnlyOwnerUnregisters` also needs
`LabelsDiffer`, that no two drivers have a node with the same id and the same label, since
the label is all that unregister compares (`chrdev_irq.c:332`).

**`ChrdevLifeProofs`** – of the composition, for any slots, drivers, files, objects and
number of references on a registered object: `ReferencesExact`, from `Serialised` alone:
files may be opened at any time there is a `cdev`, and stay open while their slot is
registered again.  The registry's invariant is kept by every step (a step of the
composition is one of the registry or leaves it alone), and what is added is that a valid
device has an object and not an error pointer (`ObjectThere`), that a closed file has no
reference and no reader (`ClosedIsIdle`), and that an object about which no release was
mistaken is the device of one slot (`OneSlot`).  The argument: `device_create` returns an
object only when its references are gone; while the count of an object is exact it is
not zero as long as the object is registered or a file has it, so that it cannot become
the device of another slot; and a `release` that puts another object than its `open` got
adds both to `misput`.  So the count goes wrong at `chrdev_irq.c:217` or not at all.

**`ChrdevFileProofs`** – for every size of the buffer, set of processes and sharing of
descriptions, in every version: `TypeOK`, `InBounds`, `MutexExcludes`,
`ReadOnlyBarsWrites`.  The parts added to make them inductive: a write carries its byte
until it returns (`WriteHasByte`), the mutex is held by who is in the critical section
(`Holder`), a process that is not in a call has no position (`AtStart`, because `reset_to`
copies to the start), a barred write waits for its test while the device is read-only
(`Barred`), and what a read under the mutex has copied is what the buffer has there
(`Received`).  `ReadWriteAtomic` is the refinement `IsAtomic`: with the mutex a call takes
effect when it gets the mutex: what a writer has still to copy counts as written, and a
reader counts as having received all it will receive.  It assumes that the version with the mutex is neither mapped
nor subject to faults (`"mutex" \notin Mapped \cup Faulty`): a mapping goes
round the mutex, and a call cut short by a fault has no counterpart in `AtomicBuffer`.

**`TimerModulesProofs`** – for every choice of modules and bound of the counter:
`TypeOK`, `NoLostIncrement`, `CodeGone`, `JobDone`.  The properties speak of
moments; the invariant adds how the program gets there: which steps each module can
be at (`OwnPath`), that nothing runs before the timer is armed and after it is
cancelled (`Started`), who holds the lock (`LockHolder`), that a loaded value is
never stale (`Counting`), and that `complete()` comes once and after `data++`
(`Once`).

**`IrqTestProofs`** – for each patch: `RemoveIsClean`.  The invariant adds when the line is
requested (`LineOfDriver`), which jobs a patch has (`JobsOfPatch`), that `remove` holds an
item until its handler has ended (`HeldByRemove`), and the order (`GoneInOrder`): unless an
interrupt came late, the work that arms the delayed work is gone before the delayed
work is cancelled.

**`SmallModulesProofs`** – `Notifier`: `NoneLeft` from which chains have the handler at each
call (`OnChains`); `EventsNumbered` from what a handler has loaded (`Numbering`: one more,
with the calls in progress, is never beyond the events; `Unraced`: before the first race
one handler at most is between load and store, and what it has loaded is still the count).
`ChrdevTest`: `ReadsBack` for any number of users and any text that fits, because a write
at the start of the file puts all of it there and every other user writes the same
(`AsUser`).  `Containers`: `Ordered` and `SameContents` for any entries and any integers,
negative ones too.  Lemmas say what insertion and removal at a place do to any sequence;
the invariant is that entries are in the bucket of their data and in one place
(`InPlace`), that each entry goes before the later ones (`Descending`), and that as many
with the same data are on the list as in their bucket (`SameNumbers`).

**Checked by TLC only.**  Everything under fairness (`ReadReturns`,
`SelectReturns`, `InitReturns`, `Reschedules`, `InterruptServed`, `WorkServed`,
`ReadReturnsOrOrphaned`, `UnregisterReturns`, `TestEnds`): liveness is beyond the prover.

## 5. Where code and text disagree

| run | the text says | the code does |
|---|---|---|
| `irq_wrap` | "Get data from the circular buffer" (`chrdev_irq.c:175`) | copies the wrapped part from behind the array: `cbuf_count_to_end` counts all unread bytes, `memcpy` (`:178`) does not wrap |
| `life_reuse` | "Dealocate the device" (`chrdev_irq.c:350`, in unregister) | the `release` of a file of an earlier device (`:217`) takes a reference of the object that is registered now, and the earlier object keeps the file's for ever |
| `timer_spinlock` | "Reschedule kernel timer" (`spinlock.c:40`) | the handler, on the processor of init between `spin_lock` (`:62`) and `spin_unlock`, spins for ever |

Four more claims of the source are stated in the modules, and false of them.  To see a
trace, put the property into the configuration as an `INVARIANT`:

| property | configuration | what the trace shows |
|---|---|---|
| `ReadsComeBack` (`ChrdevIrqProperties`) | `irq_wrap`, with `BUF_LEN = 4` and `Counts = {3}` | `tmp` has 256 bytes (`chrdev_irq.c:151`) and the ring a page: a longer read goes over its end at `:178`, and the call does not come back |
| `UnregisterFinds` (`ChrdevRegistry`) | `registry` | "... then check if device is actualy allocated" (`:331`): a device whose label `strncpy` cut (`:292`) is not found by the driver that registered it |
| `CopyHasBuffer` (`ChrdevLife`) | `life` | "Get data from the circular buffer" (`:175`): a reader past its test copies from the buffer that unregister has freed (`:348`) |
| `ReleasesOwnMutex` (`ChrdevLife`) | `life` | "Release the mutex" (`:195`): registration has initialised it (`:293`) under a reader that holds it, and it is free or another's |

Seen while modelling, in the models, but not stated as a property:

* a non-blocking `read()` of an empty device returns `count` and not `-EAGAIN`
  (`chrdev_irq.c:163` sets `ret`, `:198` returns `count`);
* `copy_to_user` is tested for `< 0` everywhere; a fault is reported as success and the
  letters are gone;
* two probes of one id at the same time both pass the test of `busy`;
* `remove` calls `BUG()` on a node that `probe` skipped;
* `release` logs through the device it may just have freed (`chrdev_irq.c:220`);
* a reader asleep when its device is unregistered is not woken; if a signal comes after
  the slot was registered again, it empties the new wait queue;
* a file opened between `cdev_add` and `device_create` takes no reference, and its
  `release` puts one (or faults, when `chrdev->dev` is an error pointer); Chapter04's `chrdev.c:160` clears a buffer that can
  already be written;
* a `write()` past the test of `read_only` (`chrdev.c:172`) goes on after a client has
  made the device read-only, with the mutex too;
* `class_create` fails with an error pointer, which the test for NULL misses: every
  registration then fails, and the sysfs patch would dereference it;
* `lseek(fd, SEEK_SET, 0)` in `modify_lseek_to_chrdev_test.patch` swaps offset and whence,
  both 0;
* the entries of `list.c` and `hashtable.c` are on the stack of an init that fails on
  purpose, so that the module is never loaded with them; keys 0 and 1 of the table share a bucket;
* `get_user` into `read_only` makes the device writable when it fails
  (`chrdev.c:92`);
* an interrupt during irqtest's `remove` schedules the job once more, and it may run
  after the module is gone; the queue that `add_workqueue_to_irqtest_module.patch`
  creates is never destroyed.

## 6. Not modelled, and the plan

### Not modelled

* *The text of labels*, beyond whether it fits; *`fops` beyond those named*, messages to the
  log.
* *Two probes of one id at once*, beyond the model with `Serialised = FALSE`: the code
  promises nothing there.  The same for what `mutex_lock` does with the zeroed mutex of a
  slot that was never registered, which `ChrdevLife` takes for a free one.
* *Positions beyond the buffer* in `ChrdevFile`: `pread` and `pwrite` can start there, where
  `BUF_LEN - *offset` is negative.  And the tests of size and offset in `chrdev_mmap`, and
  the error paths behind them: `MmapStore` is a store through a mapping that exists.
* *A failing `open()`* in `chrdev_test.c` (`:38-42`, and lines 12-15 of the patch that reopens):
  none of the devices modelled refuses to be opened; the program would end at once.
* *A probe of irqtest while the work of an earlier life is still queued or running*
  (`Drained` in `Probe`): `INIT_WORK` on it has no behaviour to model.
* *Two devices* of `chrdev_irq.c` whose handlers share `get_new_char`'s `d`: no text says
  which letters a device should get.
* *The legacy module's init and exit*: one call each.
* *Single-call demonstrations* (`helloworld.c`, `dummy-code.c`, `module_par.c`,
  `get_dt_data.c`, `data_types.c`, `helper_funcs.c`, `mem_alloc.c`, `time.c`): they print
  what kernel calls return and keep no state.
* *Memory ordering*: see section 2.

### Order of work

Done, most important first: `CircBuf`, `ChrdevIrq` with its properties, abstraction
and proofs; `ChrdevRegistry` and its composition `ChrdevLife`, with proofs; `ChrdevFile`
with abstraction and proofs; `TimerModules`, `IrqTest` and the small modules, with proofs.

To come: the safety part of what only TLC checks.  A liveness property rests on facts that
can be proved – that a waiter is always followed by a step that wakes it – and
`NoLostWakeup` is so far the only one of them with a theorem.
