--------------------------- MODULE ChrdevRegistry ---------------------------
(***************************************************************************)
(* The life of the character devices of Chapter04 and Chapter07: drivers   *)
(* are bound to and unbound from platform devices (probe and remove of     *)
(* chrdev-req.c, with its fixed devices, and of chrdev-fw.c) and register  *)
(* and unregister character devices in chrdev_array; user processes open   *)
(* and close them; the module that holds the array is loaded and unloaded. *)
(* It comes in three versions: Chapter04's chrdev.c ("static", each device *)
(* has its buffer inside), Chapter07's chrdev.c ("page", the buffer is     *)
(* allocated) and chrdev_irq.c ("irq", and a timer runs between            *)
(* registration and removal).                                              *)
(*                                                                         *)
(* A driver is the kernel thread that probes or removes one platform       *)
(* device.  Every call that can fail has both outcomes, and every call     *)
(* that another context can observe is a step of its own, since            *)
(* register and unregister take no lock.                                   *)
(***************************************************************************)
EXTENDS Integers, Sequences

CONSTANTS
  MAX_DEVICES,
  Drivers,       \* platform devices with their driver
  Children,      \* Children[p]: the sequence of p's child nodes, a record
                 \* [id, label, complete]; complete if reg and label exist
  NeedsFirmware, \* the platform devices handled by chrdev-fw.c
  Fixed,         \* the fixed ones of add_fixed_chrdev_devices.patch
  Sources,       \* the versions to choose from
  Files,         \* open file descriptions of user processes
  Bufs,          \* blocks of memory kzalloc may return
  LongLabels,    \* the labels of NAME_LEN characters or more
  Null,          \* no block, no driver, no device, no label
  Serialised     \* drivers with an id in common are probed and removed one
                 \* at a time

Id == 0 .. MAX_DEVICES - 1

ASSUME RegistryAssumption ==
  /\ MAX_DEVICES \in Nat
  /\ \A p \in Drivers :
       /\ Len(Children[p]) \in Nat /\ DOMAIN Children[p] = 1 .. Len(Children[p])
       /\ \A k \in DOMAIN Children[p] :
            /\ Children[p][k].id \in Nat /\ Children[p][k].complete \in BOOLEAN
            /\ Children[p][k].complete => Children[p][k].label # Null
  /\ NeedsFirmware \subseteq Drivers /\ Fixed \subseteq Drivers
  /\ \A p \in NeedsFirmware \cup Fixed :
       Len(Children[p]) = 1 /\ Children[p][1].complete
  /\ Sources \subseteq {"static", "page", "irq"}
  /\ Null \notin Bufs \cup Drivers /\ Null \notin Nat
  /\ Serialised \in BOOLEAN

VARIABLES
  source,        \* the version that is loaded
  module,        \* "out", "class" when init has made its class, or "in"
  class,         \* chrdev_class: "none", "ok", or "err" for an ERR_PTR
  \* chrdev_array
  busy, label, buf,
  dev,           \* "null", "valid", "stale": what chrdev->dev points to
  timer,         \* "off", "armed" or "running"
  \* the rest of the kernel
  live,          \* device numbers whose open() reaches chrdev_open
  heap,          \* blocks allocated and not freed
  \* control
  ppc,           \* next step of a driver
  child,         \* its position in the list of child nodes
  file,          \* file[f]: the device f has open, or Null
  by             \* history: the driver that registered a busy device

slotVars == <<busy, label, dev, by>>
memVars  == <<buf, heap>>
modVars  == <<source, module, class>>
vars == <<modVars, slotVars, memVars, timer, live, ppc, child, file>>

Resting == {"unbound", "bound", "dead"}
Quiet == \A p \in Drivers : ppc[p] \in Resting

IdsOf(p) == {Children[p][k].id : k \in DOMAIN Children[p]}
RivalsRest(p) ==
  \A q \in Drivers : IdsOf(p) \cap IdsOf(q) # {} => ppc[q] \in Resting

InitDevices ==
  /\ busy = [i \in Id |-> FALSE] /\ label = [i \in Id |-> Null]
  /\ buf = [i \in Id |-> Null] /\ dev = [i \in Id |-> "null"]
  /\ timer = [i \in Id |-> "off"]
  /\ source \in Sources
  /\ live = {} /\ heap = {}
  /\ ppc = [p \in Drivers |-> "unbound"] /\ child = [p \in Drivers |-> 1]
  /\ file = [f \in Files |-> Null]
  /\ by = [i \in Id |-> Null]

Init == InitDevices /\ module = "out" /\ class = "none"

Go(p, from, to) == ppc[p] = from /\ ppc' = [ppc EXCEPT ![p] = to]

Node(p) == Children[p][child[p]]
This(p) == Node(p).id
HasTimer == source = "irq"
OwnBuffer == source # "static"
AtEnd(p) == child[p] > Len(Children[p])
NextNode(p) == child' = [child EXCEPT ![p] = @ + 1]

-----------------------------------------------------------------------------
(* The module of chrdev_array: chrdev_init and chrdev_exit. *)

ModuleGo(from, to) == module = from /\ module' = to

\* class_create reports a failure by ERR_PTR, and the test for NULL misses it.
InitClass ==
  /\ ModuleGo("out", "class")
  /\ \A i \in Id : ~busy[i]
  /\ class' \in {"ok", "err"}
  /\ UNCHANGED <<source, slotVars, memVars, timer, live, ppc, child, file>>

InitRegion_KeepClass ==
  /\ ModuleGo("class", "in") \/ ModuleGo("class", "out")
  /\ UNCHANGED <<class, source, slotVars, memVars, timer, live, ppc, child, file>>

\* alloc_chrdev_region; when it fails the class is destroyed.
InitRegion ==
  /\ \/ ModuleGo("class", "in") /\ UNCHANGED class
     \/ ModuleGo("class", "out") /\ class' = "none"
  /\ UNCHANGED <<source, slotVars, memVars, timer, live, ppc, child, file>>

\* The kernel lets the module go when no other module uses its functions and
\* no file has its operations; the drivers' modules unbind their devices
\* before they go.  Its memory is fresh when it comes back.  A device that is
\* still registered stays behind with all it has, and the model does not load
\* the module again.
ModuleExit ==
  /\ ModuleGo("in", "out")
  /\ \A p \in Drivers : ppc[p] = "unbound"
  /\ \A f \in Files : file[f] = Null
  /\ class' = "none"
  /\ label' = [i \in Id |-> IF busy[i] THEN label[i] ELSE Null]
  /\ buf' = [i \in Id |-> IF busy[i] THEN buf[i] ELSE Null]
  /\ dev' = [i \in Id |-> IF dev[i] = "stale" THEN "null" ELSE dev[i]]
  /\ UNCHANGED <<source, busy, by, heap, timer, live, ppc, child, file>>

-----------------------------------------------------------------------------
(* probe *)

\* Where probe begins: the firmware driver asks for its firmware, a fixed
\* device is registered at once, chrdev-req.c looks at the child nodes.
FirstProbe(p) ==
  IF p \in NeedsFirmware THEN "load"
  ELSE IF p \in Fixed THEN "check" ELSE "probe"

\* chrdev_req_probe gives up with no child nodes or too many of them.
Probe(p) ==
  /\ module = "in"
  /\ Serialised => RivalsRest(p)
  /\ Len(Children[p]) \in 1 .. MAX_DEVICES
  /\ Go(p, "unbound", FirstProbe(p))
  /\ child' = [child EXCEPT ![p] = 1]
  /\ UNCHANGED <<modVars, slotVars, memVars, timer, live, file>>

\* chrdev_load_fw_wait or _nowait: the request succeeds or the probe fails.
FwLoad(p) ==
  /\ \/ Go(p, "load", "probe")
     \/ Go(p, "load", "unbound")
  /\ UNCHANGED <<modVars, slotVars, memVars, timer, live, child, file>>

\* The loop over the child nodes: an incomplete one is skipped.
ProbeNode(p) ==
  /\ \/ AtEnd(p) /\ Go(p, "probe", "bound") /\ UNCHANGED child
     \/ ~AtEnd(p) /\ ~Node(p).complete /\ Go(p, "probe", "probe") /\ NextNode(p)
     \/ ~AtEnd(p) /\ Node(p).complete /\ Go(p, "probe", "check") /\ UNCHANGED child
  /\ UNCHANGED <<modVars, slotVars, memVars, timer, live, file>>

Failed_StopsProbe(p, from) == Go(p, from, "unbound") /\ UNCHANGED child

\* chrdev_device_register returns an error: chrdev-req.c reports it and goes
\* on with the next node, chrdev-fw.c and a fixed device fail the probe.
Failed(p, from) ==
  \/ p \in NeedsFirmware \cup Fixed /\ Go(p, from, "unbound") /\ UNCHANGED child
  \/ p \notin NeedsFirmware \cup Fixed /\ Go(p, from, "probe") /\ NextNode(p)

-----------------------------------------------------------------------------
(* chrdev_device_register *)

FreeSlot(i) == i \in Id /\ ~busy[i]

\* Chapter04's chrdev.c has no memory to allocate.
AfterCheck == IF OwnBuffer THEN "alloc" ELSE "add"

RegCheck_AnyId(p) ==
  /\ \/ Go(p, "check", AfterCheck) /\ This(p) \notin {i \in Id : busy[i]} /\ UNCHANGED child
     \/ Failed(p, "check") /\ This(p) \in {i \in Id : busy[i]}
  /\ UNCHANGED <<modVars, slotVars, memVars, timer, live, file>>

\* The id is valid and not busy, or register fails.
RegCheck(p) ==
  /\ \/ Go(p, "check", AfterCheck) /\ FreeSlot(This(p)) /\ UNCHANGED child
     \/ Failed(p, "check") /\ ~FreeSlot(This(p))
  /\ UNCHANGED <<modVars, slotVars, memVars, timer, live, file>>

\* kzalloc
RegAlloc(p) ==
  /\ \/ \E b \in Bufs \ heap :
          /\ Go(p, "alloc", "add") /\ UNCHANGED child
          /\ buf' = [buf EXCEPT ![This(p)] = b]
          /\ heap' = heap \cup {b}
     \/ /\ Failed(p, "alloc")
        /\ buf' = [buf EXCEPT ![This(p)] = Null]
        /\ UNCHANGED heap
  /\ UNCHANGED <<modVars, slotVars, timer, live, file>>

\* What is left to undo once there is no character device: the memory, or in
\* Chapter04's chrdev.c nothing.
UndoMemory(p, from) ==
  \/ OwnBuffer /\ Go(p, from, "kfree_buf") /\ UNCHANGED child
  \/ ~OwnBuffer /\ Failed(p, from)

\* cdev_init, cdev_add: from here on the device can be opened.
RegAdd(p) ==
  /\ \/ Go(p, "add", "create") /\ live' = live \cup {This(p)} /\ UNCHANGED child
     \/ UndoMemory(p, "add") /\ UNCHANGED live
  /\ UNCHANGED <<modVars, slotVars, memVars, timer, file>>

RegCreate_WrongLabel(p) ==
  /\ \/ /\ Go(p, "create", "init") /\ class = "ok"
        /\ dev[This(p)] # "valid" /\ dev' = [dev EXCEPT ![This(p)] = "valid"]
     \/ /\ Go(p, "create", "kfree_buf")
        /\ dev' = [dev EXCEPT ![This(p)] = "stale"]
  /\ UNCHANGED <<modVars, busy, label, by, memVars, timer, live, child, file>>

\* device_create; it refuses a class that is an ERR_PTR and a second device
\* with the same number.
RegCreate(p) ==
  /\ \/ /\ Go(p, "create", "init") /\ class = "ok"
        /\ dev[This(p)] # "valid" /\ dev' = [dev EXCEPT ![This(p)] = "valid"]
     \/ /\ Go(p, "create", "del_cdev")
        /\ dev' = [dev EXCEPT ![This(p)] = "stale"]
  /\ UNCHANGED <<modVars, busy, label, by, memVars, timer, live, child, file>>

\* strncpy(chrdev->label, name, NAME_LEN) writes no terminator after a label
\* that long.  strcmp then reads on into busy, which is 1: what is stored is no
\* label any more.
strncpy(name) == IF name \in LongLabels THEN Null ELSE name

\* The data; both chrdev.c are done with that, and register returns 0.
RegInit(p) ==
  /\ \/ Go(p, "init", "start") /\ HasTimer /\ UNCHANGED child
     \/ Go(p, "init", "probe") /\ ~HasTimer /\ NextNode(p)
  /\ busy' = [busy EXCEPT ![This(p)] = TRUE]
  /\ label' = [label EXCEPT ![This(p)] = strncpy(Node(p).label)]
  /\ by' = [by EXCEPT ![This(p)] = p]
  /\ UNCHANGED <<modVars, dev, memVars, timer, live, file>>

\* hrtimer_start, and register returns 0.
RegStart(p) ==
  /\ Go(p, "start", "probe")
  /\ timer' = [timer EXCEPT ![This(p)] = "armed"]
  /\ NextNode(p)
  /\ UNCHANGED <<modVars, slotVars, memVars, live, file>>

\* del_cdev:
RegDelCdev(p) ==
  /\ UndoMemory(p, "del_cdev")
  /\ live' = live \ {This(p)}
  /\ UNCHANGED <<modVars, slotVars, memVars, timer, file>>

\* kfree_buf: the pointer keeps its value.
RegKfreeBuf(p) ==
  /\ Failed(p, "kfree_buf")
  /\ heap' = heap \ {buf[This(p)]}
  /\ UNCHANGED <<modVars, slotVars, buf, timer, live, file>>

Register(p) ==
  \/ RegCheck(p) \/ RegAlloc(p) \/ RegAdd(p) \/ RegCreate(p) \/ RegInit(p)
  \/ RegStart(p) \/ RegDelCdev(p) \/ RegKfreeBuf(p)

-----------------------------------------------------------------------------
(* remove *)

\* A fixed device and chrdev-fw.c unregister their one device at once.
FirstRemove(p) == IF p \in NeedsFirmware \cup Fixed THEN "ucheck" ELSE "remove"

Remove(p) ==
  /\ Serialised => RivalsRest(p)
  /\ Go(p, "bound", FirstRemove(p))
  /\ child' = [child EXCEPT ![p] = 1]
  /\ UNCHANGED <<modVars, slotVars, memVars, timer, live, file>>

\* The loop over the child nodes: BUG() at an incomplete one kills the thread.
RemoveNode(p) ==
  /\ \/ AtEnd(p) /\ Go(p, "remove", "unbound")
     \/ ~AtEnd(p) /\ ~Node(p).complete /\ Go(p, "remove", "dead")
     \/ ~AtEnd(p) /\ Node(p).complete /\ Go(p, "remove", "ucheck")
  /\ UNCHANGED <<modVars, slotVars, memVars, timer, live, child, file>>

-----------------------------------------------------------------------------
(* chrdev_device_unregister *)

Known(i, name) == i \in Id /\ busy[i] /\ label[i] = name

\* Where unregister goes once it has marked the slot free.
AfterDeinit == IF OwnBuffer THEN "free" ELSE "destroy"

\* Where unregister starts once it has passed its checks.
FirstUnreg == IF HasTimer THEN "cancel" ELSE "deinit"

UnregCheck_AnyLabel(p) ==
  /\ \/ /\ ppc[p] = "ucheck" /\ This(p) \in Id /\ busy[This(p)] /\ UNCHANGED child
        /\ Go(p, "ucheck", FirstUnreg)
     \/ Go(p, "ucheck", "remove") /\ ~(This(p) \in Id /\ busy[This(p)]) /\ NextNode(p)
  /\ UNCHANGED <<modVars, slotVars, memVars, timer, live, file>>

\* The id is busy and has this label, or unregister fails; the caller reports
\* it and goes on.
UnregCheck(p) ==
  /\ \/ /\ ppc[p] = "ucheck" /\ Known(This(p), Node(p).label)
        /\ Go(p, "ucheck", FirstUnreg) /\ UNCHANGED child
     \/ /\ Go(p, "ucheck", "remove")
        /\ ~Known(This(p), Node(p).label) /\ NextNode(p)
  /\ UNCHANGED <<modVars, slotVars, memVars, timer, live, file>>

UnregCancel_NoWait(p) ==
  /\ Go(p, "cancel", "deinit")
  /\ timer' = [timer EXCEPT ![This(p)] = IF @ = "armed" THEN "off" ELSE @]
  /\ UNCHANGED <<modVars, slotVars, memVars, live, child, file>>

\* hrtimer_cancel waits for a handler that is running.
UnregCancel(p) ==
  /\ Go(p, "cancel", "deinit")
  /\ timer[This(p)] # "running"
  /\ timer' = [timer EXCEPT ![This(p)] = "off"]
  /\ UNCHANGED <<modVars, slotVars, memVars, live, child, file>>

UnregDeinit(p) ==
  /\ Go(p, "deinit", AfterDeinit)
  /\ busy' = [busy EXCEPT ![This(p)] = FALSE]
  /\ by' = [by EXCEPT ![This(p)] = Null]
  /\ UNCHANGED <<modVars, label, dev, memVars, timer, live, child, file>>

UnregFree(p) ==
  /\ Go(p, "free", "destroy")
  /\ heap' = heap \ {buf[This(p)]}
  /\ UNCHANGED <<modVars, slotVars, buf, timer, live, child, file>>

\* device_destroy
UnregDestroy(p) ==
  /\ Go(p, "destroy", "del")
  /\ dev' = [dev EXCEPT ![This(p)] = "stale"]
  /\ UNCHANGED <<modVars, busy, label, by, memVars, timer, live, child, file>>

\* cdev_del: no new open, but open files keep their operations.
UnregDel(p) ==
  /\ Go(p, "del", "remove")
  /\ live' = live \ {This(p)}
  /\ NextNode(p)
  /\ UNCHANGED <<modVars, slotVars, memVars, timer, file>>

Unregister(p) ==
  \/ UnregCheck(p) \/ UnregCancel(p) \/ UnregDeinit(p) \/ UnregFree(p)
  \/ UnregDestroy(p) \/ UnregDel(p)

-----------------------------------------------------------------------------
(* The timer of a device, and its users *)

TimerFire(i) ==
  /\ timer[i] = "armed" /\ timer' = [timer EXCEPT ![i] = "running"]
  /\ UNCHANGED <<modVars, slotVars, memVars, live, ppc, child, file>>

\* HRTIMER_RESTART
TimerDone(i) ==
  /\ timer[i] = "running" /\ timer' = [timer EXCEPT ![i] = "armed"]
  /\ UNCHANGED <<modVars, slotVars, memVars, live, ppc, child, file>>

chrdev_open(f, i) ==
  /\ file[f] = Null /\ i \in live
  /\ file' = [file EXCEPT ![f] = i]
  /\ UNCHANGED <<modVars, slotVars, memVars, timer, live, ppc, child>>

chrdev_release(f) ==
  /\ file[f] # Null
  /\ file' = [file EXCEPT ![f] = Null]
  /\ UNCHANGED <<modVars, slotVars, memVars, timer, live, ppc, child>>

-----------------------------------------------------------------------------
DriverStep(p) ==
  \/ FwLoad(p) \/ ProbeNode(p) \/ Register(p) \/ RemoveNode(p) \/ Unregister(p)

ModuleStep == InitClass \/ InitRegion \/ ModuleExit

Next ==
  \/ ModuleStep
  \/ \E p \in Drivers : Probe(p) \/ Remove(p) \/ DriverStep(p)
  \/ \E i \in Id : TimerFire(i) \/ TimerDone(i)
  \/ \E f \in Files : chrdev_release(f) \/ \E i \in Id : chrdev_open(f, i)

Spec == Init /\ [][Next]_vars

-----------------------------------------------------------------------------
(* Properties *)

InRegister == {"alloc", "add", "create", "init", "start", "del_cdev", "kfree_buf"}
InUnregister == {"cancel", "deinit", "free", "destroy", "del"}
Steps == Resting \cup InRegister \cup InUnregister
           \cup {"load", "probe", "check", "remove", "ucheck"}

\* The fields have their types; only the MAX_DEVICES minor numbers are used.
TypeOK ==
  /\ busy \in [Id -> BOOLEAN] /\ DOMAIN label = Id
  /\ buf \in [Id -> Bufs \cup {Null}]
  /\ dev \in [Id -> {"null", "valid", "stale"}]
  /\ timer \in [Id -> {"off", "armed", "running"}]
  /\ source \in Sources /\ module \in {"out", "class", "in"}
  /\ class \in {"none", "ok", "err"}
  /\ live \subseteq Id /\ heap \subseteq Bufs
  /\ ppc \in [Drivers -> Steps] /\ child \in [Drivers -> Nat]
  /\ \A p \in Drivers : child[p] \in 1 .. Len(Children[p]) + 1
  /\ file \in [Files -> Id \cup {Null}]
  /\ by \in [Id -> Drivers \cup {Null}]

\* register and unregister are all or nothing: when no probe or remove is
\* under way, a busy device has a device node, a live character device, in
\* both versions of Chapter07 a buffer of its own and in chrdev_irq.c a timer,
\* and one that is not busy has none of them, whichever step of a registration
\* failed (Chapter07/chrdev/chrdev.c:229-329, chrdev_irq.c:239-355,
\* Chapter04/chrdev/chrdev.c:113-202).
AllOrNothing ==
  Quiet =>
    /\ heap = IF OwnBuffer THEN {buf[i] : i \in {j \in Id : busy[j]}} ELSE {}
    /\ OwnBuffer => \A i, j \in Id :
                      busy[i] /\ busy[j] /\ buf[i] = buf[j] => i = j
    /\ \A i \in Id : /\ busy[i] <=> i \in live
                     /\ busy[i] <=> dev[i] = "valid"
                     /\ timer[i] # "off" <=> busy[i] /\ HasTimer

\* Devices registered with a label that strncpy cut: no unregister knows them.
CutOff == {i \in Id : busy[i] /\ label[i] = Null}

\* Nothing but these outlives the module: whenever it is not loaded, because
\* it was removed or because its init failed, no class is left, nor any other
\* character device, device node, buffer or timer - every device whose label
\* fitted has been unregistered by then, also the one whose driver failed
\* later in its probe (chrdev_irq.c:292, :332, :362-394, chrdev-req.c:55-59).
ExitLeavesNothing ==
  module = "out" =>
    /\ class = "none" /\ live \subseteq CutOff /\ heap \subseteq {buf[i] : i \in CutOff}
    /\ \A i \in Id \ CutOff : ~busy[i] /\ dev[i] = "null" /\ timer[i] = "off"

\* A driver that removes a device it registered finds it by the label it
\* registered it with, "... then check if device is actualy allocated"
\* (chrdev_irq.c:331-336).  A label that does not fit is not found.
UnregisterFinds ==
  \A p \in Drivers :
    ppc[p] = "ucheck" /\ by[This(p)] = p => Known(This(p), Node(p).label)

\* The handler never runs on a freed buffer: a timer that is armed or running
\* has one (chrdev_irq.c:304-309 starts it last, :337-346 cancels it first).
TimerHasBuffer ==
  \A i \in Id : timer[i] \in {"armed", "running"} => buf[i] \in heap

\* A registered device is taken away by the driver that registered it and by
\* nobody else, although any driver may name its id: the label tells them
\* apart (chrdev_irq.c:255, :332).  The labels of one id differ.
OnlyOwnerUnregisters ==
  [][\A i \in Id : by[i] # Null /\ by'[i] # by[i]
       => /\ by'[i] = Null
          /\ ppc[by[i]] = "deinit" /\ This(by[i]) = i]_vars
=============================================================================
