--------------------------- MODULE IrqTestProofs ---------------------------
(***************************************************************************)
(* What irqtest_remove leaves behind, for each of the four patches.        *)
(***************************************************************************)
EXTENDS IrqTest, TLAPS

Steps ==
  {"unbound", "request", "bound", "remove", "wait", "dhold", "dwait", "flush", "free"}

TypeOK ==
  /\ kind \in Kinds /\ drv \in Steps
  /\ requested \in BOOLEAN /\ isr \in BOOLEAN /\ late \in BOOLEAN
  /\ item \in {"idle", "queued", "held"} /\ run \in BOOLEAN
  /\ ditem \in {"idle", "timed", "queued", "held"} /\ drun \in BOOLEAN

\* Interrupts come between request_irq and free_irq, and none is late before
\* remove has begun to cancel.
LineOfDriver ==
  /\ requested <=> drv \notin {"unbound", "request"}
  /\ isr => requested
  /\ drv \in {"request", "bound", "remove"} => ~late

\* A patch has the jobs it adds, and remove the calls.
JobsOfPatch ==
  /\ kind = "plain" => Drained /\ drv \notin {"wait", "dhold", "dwait", "flush"}
  /\ kind = "tasklet" => ditem = "idle" /\ ~drun /\ drv \notin {"dhold", "dwait", "flush"}
  /\ drv = "flush" => kind = "own"

\* remove holds an item until its handler has ended.
HeldByRemove ==
  /\ drv = "wait" => item = "held"
  /\ drv = "dwait" => ditem = "held"

\* The job that could schedule another is gone before the other is cancelled.
GoneInOrder ==
  ~late =>
    /\ drv \in {"dhold", "dwait"} => item = "idle" /\ ~run
    /\ drv \in {"unbound", "request", "flush", "free"} => Drained

IInv == TypeOK /\ LineOfDriver /\ JobsOfPatch /\ HeldByRemove /\ GoneInOrder

-----------------------------------------------------------------------------
LEMMA StartsClean == IrqInit => IInv
BY DEF IrqInit, IInv, TypeOK, Steps, LineOfDriver, JobsOfPatch, HeldByRemove, GoneInOrder, Drained

LEMMA StepKeeps == IInv /\ [IrqNext]_irqVars => IInv'
<1> SUFFICES ASSUME IInv, [IrqNext]_irqVars PROVE IInv'
  OBVIOUS
<1> USE KindAssumption
    DEF IInv, TypeOK, Steps, LineOfDriver, JobsOfPatch, HeldByRemove, GoneInOrder, Drained, DrvGo, Works
<1>1. CASE Probe
  BY <1>1 DEF Probe
<1>2. CASE RequestIrq
  <2>1. CASE drv' = "bound" /\ requested' = TRUE
    BY <1>2, <2>1 DEF RequestIrq, deferVars, delayVars
  <2>2. CASE drv' = "unbound" /\ UNCHANGED requested
    BY <1>2, <2>2 DEF RequestIrq, deferVars, delayVars
  <2> QED
    BY <1>2, <2>1, <2>2 DEF RequestIrq
<1>3. CASE Interrupt
  BY <1>3 DEF Interrupt, deferVars, delayVars
<1>4. CASE IsrEnd
  BY <1>4 DEF IsrEnd, delayVars
<1>5. CASE Deferred
  <2>1. CASE RunItem
    BY <2>1 DEF RunItem, delayVars
  <2>2. CASE ItemEnd
    BY <2>2 DEF ItemEnd
  <2>3. CASE DelayOver
    BY <2>3 DEF DelayOver, deferVars
  <2>4. CASE RunDelayed
    BY <2>4 DEF RunDelayed, deferVars
  <2>5. CASE DelayedEnd
    BY <2>5 DEF DelayedEnd, deferVars
  <2> QED
    BY <1>5, <2>1, <2>2, <2>3, <2>4, <2>5 DEF Deferred
<1>6. CASE irqtest_remove
  BY <1>6 DEF irqtest_remove, deferVars, delayVars
<1>7. CASE RemoveStep
  <2>1. CASE Hold
    BY <2>1 DEF Hold, delayVars
  <2>2. CASE Release
    BY <2>2 DEF Release, delayVars
  <2>3. CASE HoldDelayed
    BY <2>3 DEF HoldDelayed, deferVars
  <2>4. CASE ReleaseDelayed
    BY <2>4 DEF ReleaseDelayed, deferVars
  <2>5. CASE Flush
    BY <2>5 DEF Flush, deferVars, delayVars
  <2>6. CASE FreeIrq
    BY <2>6 DEF FreeIrq, deferVars, delayVars
  <2> QED
    BY <1>7, <2>1, <2>2, <2>3, <2>4, <2>5, <2>6 DEF RemoveStep
<1>8. CASE UNCHANGED irqVars
  BY <1>8 DEF irqVars, deferVars, delayVars
<1> QED
  BY <1>1, <1>2, <1>3, <1>4, <1>5, <1>6, <1>7, <1>8 DEF IrqNext

\* Whatever order interrupts, deferred jobs and the calls of remove come in,
\* remove leaves nothing queued, timed or running unless an interrupt came
\* after it had begun to cancel (the irqtest_remove of the four patches).
THEOREM RemoveLeavesNothing == IrqSpec => []RemoveIsClean
<1>1. IInv => RemoveIsClean
  BY DEF IInv, GoneInOrder, RemoveIsClean
<1> QED
  BY <1>1, StartsClean, StepKeeps, PTL DEF IrqSpec
=============================================================================
