------------------------------ MODULE IrqTest ------------------------------
(***************************************************************************)
(* The irqtest driver of Chapter05 and its deferred jobs, as the patches   *)
(* build it: add_irqtest_module.patch requests an interrupt;               *)
(* add_tasklet_2_..., add_workqueue_... and add_workqueue_2_to_irqtest_    *)
(* module.patch make its handler schedule a tasklet, a work of a queue of  *)
(* the driver's own, or one of the system's queue.  The work handler       *)
(* schedules a second, delayed work.                                       *)
(*                                                                         *)
(* An item that waits to run is "queued" (a delayed work first "timed");   *)
(* scheduling it again then changes nothing.  tasklet_kill and cancel_..._ *)
(* sync hold an item while they wait for its handler to end.               *)
(***************************************************************************)
EXTENDS Naturals

CONSTANTS Kinds  \* the patches to choose from

ASSUME KindAssumption == Kinds \subseteq {"plain", "tasklet", "own", "system"}

VARIABLES
  kind,          \* the patch applied
  drv,           \* next step of probe or remove
  requested,     \* the interrupt line has its handler
  isr,           \* the handler of the interrupt is running
  item, run,     \* the tasklet or work: its state, and whether it is running
  ditem, drun,   \* the delayed work
  owed, dowed,   \* history: an interrupt (a work) not followed by its deferred job
  late           \* history: an interrupt has come after remove began to cancel

deferVars == <<item, run, owed>>
delayVars == <<ditem, drun, dowed>>
irqVars == <<kind, drv, requested, isr, deferVars, delayVars, late>>

Works == {"own", "system"}

IrqInit ==
  /\ kind \in Kinds
  /\ drv = "unbound" /\ requested = FALSE /\ isr = FALSE
  /\ item = "idle" /\ run = FALSE /\ ditem = "idle" /\ drun = FALSE
  /\ owed = FALSE /\ dowed = FALSE /\ late = FALSE

DrvGo(from, to) == drv = from /\ drv' = to

Drained == item = "idle" /\ ~run /\ ditem = "idle" /\ ~drun

-----------------------------------------------------------------------------
(* irqtest_probe *)

\* The calls before request_irq may fail, the creation of the queue included.
\* tasklet_init and INIT_WORK on an item still in use are not modelled.
Probe ==
  /\ Drained
  /\ DrvGo("unbound", "request") \/ DrvGo("unbound", "unbound")
  /\ owed' = FALSE /\ dowed' = FALSE /\ late' = FALSE
  /\ UNCHANGED <<kind, requested, isr, item, run, ditem, drun>>

RequestIrq ==
  /\ \/ DrvGo("request", "bound") /\ requested' = TRUE
     \/ DrvGo("request", "unbound") /\ UNCHANGED requested
  /\ UNCHANGED <<kind, isr, deferVars, delayVars, late>>

-----------------------------------------------------------------------------
(* Interrupts and deferred jobs *)

\* irqtest_interrupt is entered.
Interrupt ==
  /\ requested /\ ~isr
  /\ isr' = TRUE
  /\ late' = (drv \notin {"bound", "remove"})
  /\ UNCHANGED <<kind, drv, requested, deferVars, delayVars>>

IsrEnd_IfNotRunning ==
  /\ isr /\ isr' = FALSE
  /\ late' = (late \/ drv \notin {"bound", "remove"})
  /\ owed' = (kind # "plain")
  /\ item' = IF kind # "plain" /\ item = "idle" /\ ~run THEN "queued" ELSE item
  /\ UNCHANGED <<kind, drv, requested, run, delayVars>>

\* It has called tasklet_schedule, queue_work or schedule_work, and returns.
IsrEnd ==
  /\ isr /\ isr' = FALSE
  /\ late' = (late \/ drv \notin {"bound", "remove"})
  /\ owed' = (kind # "plain")
  /\ item' = IF kind # "plain" /\ item = "idle" THEN "queued" ELSE item
  /\ UNCHANGED <<kind, drv, requested, run, delayVars>>

\* A queue of the driver's own has a single thread.
ThreadFree == kind = "own" => ~run /\ ~drun

\* irqtest_tasklet_handler or irqtest_work_handler starts.
RunItem ==
  /\ item = "queued" /\ ~run /\ ThreadFree
  /\ item' = "idle" /\ run' = TRUE /\ owed' = FALSE
  /\ UNCHANGED <<kind, drv, requested, isr, delayVars, late>>

ItemEnd_IfNotRunning ==
  /\ run /\ run' = FALSE
  /\ dowed' = (kind \in Works)
  /\ ditem' = IF kind \in Works /\ ditem = "idle" /\ ~drun THEN "timed" ELSE ditem
  /\ UNCHANGED <<kind, drv, requested, isr, item, owed, drun, late>>

\* It ends; the work handler has scheduled the delayed work.
ItemEnd ==
  /\ run /\ run' = FALSE
  /\ dowed' = (kind \in Works)
  /\ ditem' = IF kind \in Works /\ ditem = "idle" THEN "timed" ELSE ditem
  /\ UNCHANGED <<kind, drv, requested, isr, item, owed, drun, late>>

\* The delay is over.
DelayOver ==
  /\ ditem = "timed" /\ ditem' = "queued"
  /\ UNCHANGED <<kind, drv, requested, isr, deferVars, drun, dowed, late>>

\* irqtest_dwork_handler
RunDelayed ==
  /\ ditem = "queued" /\ ~drun /\ ThreadFree
  /\ ditem' = "idle" /\ drun' = TRUE /\ dowed' = FALSE
  /\ UNCHANGED <<kind, drv, requested, isr, deferVars, late>>

DelayedEnd ==
  /\ drun /\ drun' = FALSE
  /\ UNCHANGED <<kind, drv, requested, isr, deferVars, ditem, dowed, late>>

-----------------------------------------------------------------------------
(* irqtest_remove *)

irqtest_remove ==
  /\ DrvGo("bound", "remove")
  /\ UNCHANGED <<kind, requested, isr, deferVars, delayVars, late>>

\* tasklet_kill lets a queued tasklet run first; cancel_work_sync takes the
\* work from its queue.
Hold ==
  /\ \/ kind = "plain" /\ DrvGo("remove", "free") /\ UNCHANGED item
     \/ kind = "tasklet" /\ DrvGo("remove", "wait") /\ item = "idle" /\ item' = "held"
     \/ kind \in Works /\ DrvGo("remove", "wait") /\ item' = "held"
  /\ UNCHANGED <<kind, requested, isr, run, owed, delayVars, late>>

\* Both wait until the handler has ended, and let go of the item.
Release_NoWait ==
  /\ \/ kind = "tasklet" /\ DrvGo("wait", "free")
     \/ kind \in Works /\ DrvGo("wait", "dhold")
  /\ item' = "idle"
  /\ UNCHANGED <<kind, requested, isr, run, owed, delayVars, late>>

Release ==
  /\ ~run
  /\ \/ kind = "tasklet" /\ DrvGo("wait", "free")
     \/ kind \in Works /\ DrvGo("wait", "dhold")
  /\ item' = "idle"
  /\ UNCHANGED <<kind, requested, isr, run, owed, delayVars, late>>

\* cancel_delayed_work_sync
HoldDelayed ==
  /\ DrvGo("dhold", "dwait")
  /\ ditem' = "held"
  /\ UNCHANGED <<kind, requested, isr, deferVars, drun, dowed, late>>

ReleaseDelayed ==
  /\ ~drun
  /\ \/ kind = "own" /\ DrvGo("dwait", "flush")
     \/ kind = "system" /\ DrvGo("dwait", "free")
  /\ ditem' = "idle"
  /\ UNCHANGED <<kind, requested, isr, deferVars, drun, dowed, late>>

\* flush_workqueue waits for what is queued or running, not for timed works.
Flush ==
  /\ DrvGo("flush", "free")
  /\ item # "queued" /\ ~run /\ ditem # "queued" /\ ~drun
  /\ UNCHANGED <<kind, requested, isr, deferVars, delayVars, late>>

\* free_irq waits for the handler of the interrupt.
FreeIrq ==
  /\ DrvGo("free", "unbound")
  /\ ~isr
  /\ requested' = FALSE
  /\ UNCHANGED <<kind, isr, deferVars, delayVars, late>>

-----------------------------------------------------------------------------
Deferred == RunItem \/ ItemEnd \/ DelayOver \/ RunDelayed \/ DelayedEnd
RemoveStep == Hold \/ Release \/ HoldDelayed \/ ReleaseDelayed \/ Flush \/ FreeIrq

IrqNext == Probe \/ RequestIrq \/ Interrupt \/ IsrEnd \/ Deferred \/ irqtest_remove \/ RemoveStep

IrqSpec == IrqInit /\ [][IrqNext]_irqVars

\* Handlers end and softirqs and workers run what is queued: each of their
\* steps stays enabled until taken or cancelled, except that a single thread
\* takes its two works in turn.
IrqFairness ==
  /\ WF_irqVars(IsrEnd) /\ WF_irqVars(ItemEnd) /\ WF_irqVars(DelayOver) /\ WF_irqVars(DelayedEnd)
  /\ SF_irqVars(RunItem) /\ SF_irqVars(RunDelayed)

-----------------------------------------------------------------------------
(* Properties *)

\* The order of the calls in remove is right as far as it goes: unless an
\* interrupt has come meanwhile, nothing is queued, timed or running when the
\* interrupt has been freed, although the work re-arms the delayed work.
RemoveIsClean == drv = "unbound" /\ ~late => Drained

\* While the driver is bound, every interrupt is followed by a run of its
\* deferred job, one that comes while the job is running by another run.
InterruptServed == owed ~> (~owed \/ drv # "bound")

\* And every run of the work by one of the delayed work.
WorkServed == dowed ~> (~dowed \/ drv # "bound")
=============================================================================
