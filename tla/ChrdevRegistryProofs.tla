------------------------- MODULE ChrdevRegistryProofs -------------------------
(***************************************************************************)
(* The safety properties of ChrdevRegistry for every number of slots and   *)
(* of drivers and whatever their child nodes; all but the types when       *)
(* drivers with an id in common are probed and removed one at a time.      *)
(***************************************************************************)
EXTENDS ChrdevRegistry, TLAPS

(* The inductive invariant. *)

Probing  == {"load", "probe", "check"} \cup InRegister
Removing == {"remove", "ucheck"} \cup InUnregister
AtSlot   == InRegister \cup InUnregister

\* A driver that works on a slot is at one of its child nodes, and takes the
\* steps its version of the module has.
Path(p) ==
  /\ ppc[p] = "load" => p \in NeedsFirmware /\ child[p] = 1
  /\ ppc[p] \in AtSlot \cup {"check", "ucheck"}
       => child[p] <= Len(Children[p]) /\ Node(p).complete
  /\ ppc[p] \in AtSlot => This(p) \in Id
  /\ ppc[p] \in {"alloc", "kfree_buf", "free"} => OwnBuffer
  /\ ppc[p] \in {"start", "cancel"} => HasTimer
OnPath == \A p \in Drivers : Path(p)

\* Nobody works on a slot that another driver may work on.
Alone ==
  \A p, q \in Drivers :
    p # q /\ ppc[p] \notin Resting /\ ppc[q] \notin Resting
      => IdsOf(p) \cap IdsOf(q) = {}

\* What a driver has tested, or done, when it is at a step.
Tested(p) ==
  /\ ppc[p] \in {"alloc", "add", "create", "init", "del_cdev", "kfree_buf",
                 "free", "destroy", "del"} => ~busy[This(p)]
  /\ ppc[p] \in {"start", "cancel", "deinit"} => busy[This(p)]
  /\ ppc[p] \in {"cancel", "deinit"} => label[This(p)] = Node(p).label
AllTested == \A p \in Drivers : Tested(p)

\* Some driver is about to do one of these steps to slot i.
At(i, S) == \E p \in Drivers : ppc[p] \in S /\ This(p) = i

LiveAt  == {"create", "init", "del_cdev", "free", "destroy", "del"}
DevAt   == {"init", "free", "destroy"}
QuietAt == {"start", "deinit"}
BufAt   == {"add", "create", "init", "del_cdev", "kfree_buf", "free"}

\* What a slot has: what a busy one has, and while a driver works on it what
\* that has not yet undone or already done.
LiveRight  == \A i \in Id : i \in live <=> busy[i] \/ At(i, LiveAt)
DevRight   == \A i \in Id : dev[i] = "valid" <=> busy[i] \/ At(i, DevAt)
TimerRight == \A i \in Id : timer[i] # "off" <=> HasTimer /\ busy[i] /\ ~At(i, QuietAt)

Holds(i) == busy[i] \/ At(i, BufAt)
HeapRight ==
  /\ ~OwnBuffer => heap = {}
  /\ OwnBuffer => /\ \A i \in Id : Holds(i) => buf[i] \in heap
                  /\ \A b \in heap : \E i \in Id : Holds(i) /\ buf[i] = b
                  /\ \A i, j \in Id : Holds(i) /\ Holds(j) /\ buf[i] = buf[j] => i = j

\* A busy slot was registered for a child node that its driver has passed when
\* it probes, and has still before it when it removes - unless the label was
\* cut, and the driver goes without it.
Registered(p, k) ==
  /\ ppc[p] # "unbound"
  /\ ppc[p] \in Probing => k < child[p] \/ (ppc[p] = "start" /\ k = child[p])
  /\ ppc[p] \in Removing => child[p] <= k
Owned(i) ==
  /\ busy[i] <=> by[i] # Null
  /\ by[i] # Null => \E k \in DOMAIN Children[by[i]] :
       /\ label[i] # Null => Registered(by[i], k)
       /\ Children[by[i]][k].id = i /\ Children[by[i]][k].complete
       /\ strncpy(Children[by[i]][k].label) = label[i]
Owner == \A i \in Id : Owned(i)

\* Nothing is there while the module is not, but devices nobody could remove.
NotLoaded ==
  /\ module # "in" => /\ \A p \in Drivers : ppc[p] = "unbound"
                      /\ \A i \in Id : busy[i] \/ dev[i] = "null"
  /\ module = "out" => class = "none"

IInv ==
  /\ TypeOK /\ OnPath /\ Alone /\ AllTested
  /\ LiveRight /\ DevRight /\ TimerRight /\ HeapRight
  /\ Owner /\ NotLoaded

-----------------------------------------------------------------------------
(* The control state of a driver *)

\* A step of driver p moves p and no other driver.
Moves(p) ==
  /\ ppc' = [ppc EXCEPT ![p] = ppc'[p]] /\ ppc'[p] \in Steps
  /\ child' = [child EXCEPT ![p] = child'[p]]
  /\ child'[p] \in 1 .. Len(Children[p]) + 1
  /\ UNCHANGED <<modVars, file>>

LEMMA DriverMoves ==
  ASSUME TypeOK, OnPath, NEW p \in Drivers, Probe(p) \/ Remove(p) \/ DriverStep(p)
  PROVE  Moves(p)
<1>1. ppc \in [Drivers -> Steps] /\ child \in [Drivers -> Nat]
  BY DEF TypeOK
<1>2. Len(Children[p]) \in Nat /\ child[p] \in 1 .. Len(Children[p]) + 1
  BY RegistryAssumption DEF TypeOK
<1>3. ASSUME NEW from, NEW to \in Steps, Go(p, from, to), UNCHANGED child,
             UNCHANGED <<modVars, file>>
      PROVE  Moves(p)
  BY <1>1, <1>2, <1>3 DEF Moves, Go
<1>4. ASSUME NEW from, NEW to \in Steps, Go(p, from, to), NextNode(p),
             child[p] <= Len(Children[p]), UNCHANGED <<modVars, file>>
      PROVE  Moves(p)
  BY <1>1, <1>2, <1>4 DEF Moves, Go, NextNode
<1>5. ASSUME NEW from, NEW to \in Steps, Go(p, from, to),
             child' = [child EXCEPT ![p] = 1], UNCHANGED <<modVars, file>>
      PROVE  Moves(p)
  BY <1>1, <1>2, <1>5 DEF Moves, Go
<1>6. Path(p)
  BY DEF OnPath
<1>7. \A t \in {"unbound", "bound", "dead", "load", "probe", "check", "remove", "ucheck",
                "alloc", "add", "create", "init", "start", "del_cdev", "kfree_buf",
                "cancel", "deinit", "free", "destroy", "del"} : t \in Steps
  BY DEF Steps, Resting, InRegister, InUnregister
<1> HIDE DEF Moves, Steps
<1>8. CASE Probe(p)
  BY <1>5, <1>7, <1>8 DEF Probe, FirstProbe
<1>9. CASE Remove(p)
  BY <1>5, <1>7, <1>9 DEF Remove, FirstRemove
<1>10. CASE FwLoad(p) \/ RemoveNode(p)
  BY <1>3, <1>7, <1>10 DEF FwLoad, RemoveNode
<1>11. CASE ProbeNode(p)
  <2>1. CASE AtEnd(p)
    BY <1>3, <1>7, <1>11, <2>1 DEF ProbeNode
  <2>2. CASE ~AtEnd(p)
    <3>1. child[p] <= Len(Children[p])
      BY <1>2, <2>2 DEF AtEnd
    <3> QED
      BY <1>3, <1>4, <1>7, <1>11, <2>2, <3>1 DEF ProbeNode
  <2> QED
    BY <2>1, <2>2
<1>12. ASSUME ppc[p] \in AtSlot \cup {"check", "ucheck"}
       PROVE  child[p] <= Len(Children[p])
  BY <1>6, <1>12 DEF Path
<1>13. ASSUME NEW from \in InRegister \cup {"check"}, Failed(p, from),
              UNCHANGED <<modVars, file>>
       PROVE  Moves(p)
  <2>1. child[p] <= Len(Children[p])
    BY <1>12, <1>13 DEF Failed, Go, AtSlot
  <2> QED
    BY <1>3, <1>4, <1>7, <1>13, <2>1 DEF Failed
<1>14. \A t \in {"alloc", "add", "create", "init", "start", "del_cdev", "kfree_buf"} :
         t \in InRegister
  BY DEF InRegister
<1>15. CASE Register(p)
  <2>1. CASE RegCheck(p)
    BY <1>3, <1>7, <1>13, <2>1 DEF RegCheck, AfterCheck
  <2>2. CASE RegAlloc(p)
    BY <1>3, <1>7, <1>13, <1>14, <2>2 DEF RegAlloc
  <2>3. CASE RegAdd(p) \/ RegDelCdev(p)
    BY <1>3, <1>7, <1>13, <1>14, <2>3 DEF RegAdd, RegDelCdev, UndoMemory
  <2>4. CASE RegCreate(p)
    BY <1>3, <1>7, <2>4 DEF RegCreate
  <2>5. CASE RegInit(p) \/ RegStart(p)
    <3>1. child[p] <= Len(Children[p])
      BY <1>12, <1>14, <2>5 DEF RegInit, RegStart, Go, AtSlot
    <3> QED
      BY <1>3, <1>4, <1>7, <2>5, <3>1 DEF RegInit, RegStart
  <2>6. CASE RegKfreeBuf(p)
    BY <1>13, <1>14, <2>6 DEF RegKfreeBuf
  <2> QED
    BY <1>15, <2>1, <2>2, <2>3, <2>4, <2>5, <2>6 DEF Register
<1>16. CASE Unregister(p)
  <2>1. CASE UnregCheck(p) \/ UnregDel(p)
    <3>1. child[p] <= Len(Children[p])
      BY <1>12, <2>1 DEF UnregCheck, UnregDel, Go, AtSlot, InUnregister
    <3> QED
      BY <1>3, <1>4, <1>7, <2>1, <3>1 DEF UnregCheck, UnregDel, FirstUnreg
  <2>2. CASE UnregCancel(p) \/ UnregDeinit(p)
    BY <1>3, <1>7, <2>2 DEF UnregCancel, UnregDeinit, AfterDeinit
  <2>3. CASE UnregFree(p) \/ UnregDestroy(p)
    BY <1>3, <1>7, <2>3 DEF UnregFree, UnregDestroy
  <2> QED
    BY <1>16, <2>1, <2>2, <2>3 DEF Unregister
<1> QED
  BY <1>8, <1>9, <1>10, <1>11, <1>15, <1>16 DEF DriverStep

\* The fields of the slots, and what the rest of the kernel has for them.
DataOK ==
  /\ busy \in [Id -> BOOLEAN] /\ DOMAIN label = Id
  /\ buf \in [Id -> Bufs \cup {Null}]
  /\ dev \in [Id -> {"null", "valid", "stale"}]
  /\ timer \in [Id -> {"off", "armed", "running"}]
  /\ live \subseteq Id /\ heap \subseteq Bufs
  /\ by \in [Id -> Drivers \cup {Null}]

LEMMA DriverData ==
  ASSUME DataOK, OnPath, NEW p \in Drivers, Probe(p) \/ Remove(p) \/ DriverStep(p)
  PROVE  DataOK'
<1>1. ASSUME UNCHANGED <<slotVars, memVars, timer, live>>
      PROVE  DataOK'
  BY <1>1 DEF DataOK, slotVars, memVars
<1>2. CASE Probe(p) \/ Remove(p) \/ FwLoad(p) \/ ProbeNode(p) \/ RemoveNode(p)
  BY <1>1, <1>2 DEF Probe, Remove, FwLoad, ProbeNode, RemoveNode
<1>3. ppc[p] \in AtSlot => This(p) \in Id
  BY DEF OnPath, Path
<1>4. CASE Register(p)
  <2>1. CASE RegCheck(p)
    BY <1>1, <2>1 DEF RegCheck
  <2>2. CASE RegAlloc(p)
    BY <2>2 DEF RegAlloc, DataOK, slotVars
  <2>3. CASE RegAdd(p)
    <3>1. This(p) \in Id
      BY <1>3, <2>3 DEF RegAdd, UndoMemory, Failed, Go, AtSlot, InRegister
    <3> QED
      BY <2>3, <3>1 DEF RegAdd, DataOK, slotVars, memVars
  <2>4. CASE RegCreate(p)
    BY <2>4 DEF RegCreate, DataOK, memVars
  <2>5. CASE RegInit(p)
    BY <2>5 DEF RegInit, DataOK, memVars
  <2>6. CASE RegStart(p) \/ RegDelCdev(p)
    BY <2>6 DEF RegStart, RegDelCdev, DataOK, slotVars, memVars
  <2>7. CASE RegKfreeBuf(p)
    BY <2>7 DEF RegKfreeBuf, DataOK, slotVars, memVars
  <2> QED
    BY <1>4, <2>1, <2>2, <2>3, <2>4, <2>5, <2>6, <2>7 DEF Register
<1>5. CASE Unregister(p)
  <2>1. CASE UnregCheck(p)
    BY <1>1, <2>1 DEF UnregCheck
  <2>2. CASE UnregCancel(p) \/ UnregDeinit(p)
    BY <2>2 DEF UnregCancel, UnregDeinit, DataOK, slotVars, memVars
  <2>3. CASE UnregFree(p) \/ UnregDestroy(p) \/ UnregDel(p)
    BY <2>3 DEF UnregFree, UnregDestroy, UnregDel, DataOK, slotVars, memVars
  <2> QED
    BY <1>5, <2>1, <2>2, <2>3 DEF Unregister
<1> QED
  BY <1>2, <1>4, <1>5 DEF DriverStep

LEMMA TypeStep ==
  ASSUME TypeOK, OnPath, [Next]_vars
  PROVE  TypeOK'
<1>1. CASE UNCHANGED vars
  BY <1>1 DEF vars, modVars, slotVars, memVars, TypeOK
<1>2. ASSUME NEW p \in Drivers, Probe(p) \/ Remove(p) \/ DriverStep(p)
      PROVE  TypeOK'
  <2>1. DataOK'
    BY <1>2, DriverData DEF TypeOK, DataOK
  <2>2. Moves(p)
    BY <1>2, DriverMoves
  <2>3. Len(Children[p]) \in Nat
    BY RegistryAssumption
  <2>4. /\ source \in Sources /\ module \in {"out", "class", "in"}
        /\ class \in {"none", "ok", "err"} /\ file \in [Files -> Id \cup {Null}]
        /\ ppc \in [Drivers -> Steps] /\ child \in [Drivers -> Nat]
        /\ \A q \in Drivers : child[q] \in 1 .. Len(Children[q]) + 1
    BY DEF TypeOK
  <2>5. /\ source' \in Sources /\ module' \in {"out", "class", "in"}
        /\ class' \in {"none", "ok", "err"} /\ file' \in [Files -> Id \cup {Null}]
        /\ ppc' \in [Drivers -> Steps] /\ child' \in [Drivers -> Nat]
    BY <2>2, <2>3, <2>4 DEF Moves, modVars
  <2>6. \A q \in Drivers : child'[q] \in 1 .. Len(Children[q]) + 1
    BY <2>2, <2>4 DEF Moves
  <2> QED
    BY <2>1, <2>5, <2>6 DEF TypeOK, DataOK
<1>3. CASE InitClass \/ InitRegion
  BY <1>3 DEF InitClass, InitRegion, ModuleGo, slotVars, memVars, TypeOK
<1>4. CASE ModuleExit
  BY <1>4 DEF ModuleExit, ModuleGo, TypeOK
<1>5. ASSUME NEW i \in Id, TimerFire(i) \/ TimerDone(i)
      PROVE  TypeOK'
  BY <1>5 DEF TimerFire, TimerDone, slotVars, memVars, modVars, TypeOK
<1>6. ASSUME NEW f \in Files, chrdev_release(f) \/ \E i \in Id : chrdev_open(f, i)
      PROVE  TypeOK'
  BY <1>6 DEF chrdev_release, chrdev_open, slotVars, memVars, modVars, TypeOK
<1> QED
  BY <1>1, <1>2, <1>3, <1>4, <1>5, <1>6 DEF Next, ModuleStep

LEMMA PathStep ==
  ASSUME TypeOK, OnPath, [Next]_vars
  PROVE  OnPath'
<1>1. ASSUME UNCHANGED <<ppc, child, source>>
      PROVE  OnPath'
  BY <1>1 DEF OnPath, Path, This, Node, OwnBuffer, HasTimer
<1>2. ASSUME NEW p \in Drivers, Probe(p) \/ Remove(p) \/ DriverStep(p)
      PROVE  OnPath'
  <2>1. Moves(p)
    BY <1>2, DriverMoves
  <2>2. \A q \in Drivers \ {p} : Path(q)'
    BY <2>1 DEF OnPath, Path, This, Node, OwnBuffer, HasTimer, Moves, modVars, TypeOK
  <2> SUFFICES Path(p)'
    BY <2>2 DEF OnPath
  <2>3. UNCHANGED source /\ ppc'[p] \in Steps
    BY <2>1 DEF Moves, modVars
  <2>4. Path(p)
    BY DEF OnPath
  <2>5. ASSUME ppc'[p] \in Resting \cup {"probe", "remove"}
        PROVE  Path(p)'
    BY <2>5 DEF Path, Resting, AtSlot, InRegister, InUnregister
  <2>6. ASSUME UNCHANGED child, ppc[p] \in AtSlot \cup {"check", "ucheck"},
               ppc'[p] \in AtSlot, This(p) \in Id,
               /\ ppc'[p] \in {"alloc", "kfree_buf", "free"} => OwnBuffer
               /\ ppc'[p] \in {"start", "cancel"} => HasTimer
        PROVE  Path(p)'
    <3>1. This(p)' = This(p) /\ Node(p)' = Node(p) /\ OwnBuffer' = OwnBuffer /\ HasTimer' = HasTimer
      BY <2>3, <2>6 DEF This, Node, OwnBuffer, HasTimer
    <3> QED
      BY <2>4, <2>6, <3>1 DEF Path, AtSlot, InRegister, InUnregister
  <2>7. ppc \in [Drivers -> Steps]
    BY DEF TypeOK
  <2>8. ASSUME NEW from, NEW to, Go(p, from, to)
        PROVE  ppc[p] = from /\ ppc'[p] = to
    BY <2>7, <2>8 DEF Go
  <2>9. CASE Probe(p) \/ Remove(p)
    <3>1. child'[p] = 1 /\ Node(p)' = Children[p][1]
      BY <2>9 DEF Probe, Remove, Node, TypeOK
    <3>2. /\ ppc'[p] \in {"load", "check", "ucheck"} => p \in NeedsFirmware \cup Fixed
          /\ ppc'[p] = "load" => p \in NeedsFirmware
          /\ ppc'[p] \in {"load", "check", "ucheck", "probe", "remove"}
      BY <2>8, <2>9 DEF Probe, Remove, FirstProbe, FirstRemove
    <3>3. p \in NeedsFirmware \cup Fixed => Len(Children[p]) = 1 /\ Children[p][1].complete
      BY RegistryAssumption
    <3> QED
      BY <3>1, <3>2, <3>3 DEF Path, AtSlot, InRegister, InUnregister
  <2>10. CASE FwLoad(p)
    BY <2>5, <2>8, <2>10 DEF FwLoad, Resting
  <2>11. CASE ProbeNode(p) \/ RemoveNode(p)
    <3>1. CASE ppc'[p] \in Resting \cup {"probe", "remove"}
      BY <2>5, <3>1
    <3>2. CASE ppc'[p] \notin Resting \cup {"probe", "remove"}
      <4>1. ~AtEnd(p) /\ Node(p).complete /\ ppc'[p] \in {"check", "ucheck"} /\ UNCHANGED child
        BY <2>8, <2>11, <3>2 DEF ProbeNode, RemoveNode, Resting
      <4>2. child'[p] <= Len(Children[p]) /\ Node(p)' = Node(p)
        BY <4>1, RegistryAssumption DEF AtEnd, Node, TypeOK
      <4> QED
        BY <4>1, <4>2 DEF Path, AtSlot, InRegister, InUnregister
    <3> QED
      BY <3>1, <3>2
  <2>12. ASSUME NEW from, Failed(p, from)
         PROVE  Path(p)'
    BY <2>5, <2>8, <2>12 DEF Failed, Resting
  <2>13. /\ ppc[p] \in AtSlot => This(p) \in Id
         /\ ppc[p] \in {"alloc", "kfree_buf", "free"} => OwnBuffer
         /\ ppc[p] \in {"start", "cancel"} => HasTimer
    BY <2>4 DEF Path
  <2>14. CASE Register(p)
    <3> USE DEF AtSlot, InRegister
    <3>1. CASE RegCheck(p)
      BY <2>6, <2>8, <2>12, <3>1 DEF RegCheck, AfterCheck, FreeSlot
    <3>2. CASE RegAlloc(p)
      BY <2>6, <2>8, <2>12, <2>13, <3>2 DEF RegAlloc
    <3>3. CASE RegAdd(p)
      BY <2>6, <2>8, <2>12, <2>13, <3>3 DEF RegAdd, UndoMemory
    <3>4. CASE RegCreate(p)
      BY <2>6, <2>8, <2>13, <3>4 DEF RegCreate
    <3>5. CASE RegInit(p) \/ RegStart(p)
      BY <2>5, <2>6, <2>8, <2>13, <3>5 DEF RegInit, RegStart
    <3>6. CASE RegDelCdev(p) \/ RegKfreeBuf(p)
      BY <2>6, <2>8, <2>12, <2>13, <3>6 DEF RegDelCdev, RegKfreeBuf, UndoMemory
    <3> QED
      BY <2>14, <3>1, <3>2, <3>3, <3>4, <3>5, <3>6 DEF Register
  <2>15. CASE Unregister(p)
    <3> USE DEF AtSlot, InUnregister
    <3>1. CASE UnregCheck(p) \/ UnregDel(p)
      BY <2>5, <2>6, <2>8, <3>1 DEF UnregCheck, UnregDel, FirstUnreg, Known
    <3>2. CASE UnregCancel(p) \/ UnregDeinit(p)
      BY <2>6, <2>8, <2>13, <3>2 DEF UnregCancel, UnregDeinit, AfterDeinit
    <3>3. CASE UnregFree(p) \/ UnregDestroy(p)
      BY <2>6, <2>8, <2>13, <3>3 DEF UnregFree, UnregDestroy
    <3> QED
      BY <2>15, <3>1, <3>2, <3>3 DEF Unregister
  <2> QED
    BY <1>2, <2>9, <2>10, <2>11, <2>14, <2>15 DEF DriverStep
<1>3. CASE UNCHANGED vars
  BY <1>1, <1>3 DEF vars, modVars
<1>4. CASE ModuleStep
  BY <1>1, <1>4 DEF ModuleStep, InitClass, InitRegion, ModuleExit
<1>5. ASSUME NEW i \in Id, TimerFire(i) \/ TimerDone(i)
      PROVE  OnPath'
  BY <1>1, <1>5 DEF TimerFire, TimerDone, modVars
<1>6. ASSUME NEW f \in Files, chrdev_release(f) \/ \E i \in Id : chrdev_open(f, i)
      PROVE  OnPath'
  BY <1>1, <1>6 DEF chrdev_release, chrdev_open, modVars
<1> QED
  BY <1>2, <1>3, <1>4, <1>5, <1>6 DEF Next

\* Whichever version is loaded, the types hold of every behaviour.
LEMMA PathInvariant == Spec => [](TypeOK /\ OnPath)
<1>1. Init => TypeOK /\ OnPath
  <2> SUFFICES ASSUME Init PROVE TypeOK /\ OnPath
    OBVIOUS
  <2>1. \A p \in Drivers : ppc[p] = "unbound" /\ child[p] = 1
    BY DEF Init, InitDevices
  <2>2. OnPath
    BY <2>1 DEF OnPath, Path, AtSlot, InRegister, InUnregister
  <2>3. TypeOK
    BY <2>1, RegistryAssumption DEF Init, InitDevices, TypeOK, Steps, Resting
  <2> QED
    BY <2>2, <2>3
<1>2. (TypeOK /\ OnPath) /\ [Next]_vars => (TypeOK /\ OnPath)'
  BY TypeStep, PathStep
<1> QED
  BY <1>1, <1>2, PTL DEF Spec

-----------------------------------------------------------------------------
(* Who is at a slot *)

\* What a driver's position says of its child node.
LEMMA NodeFacts ==
  ASSUME TypeOK, NEW p \in Drivers, child[p] <= Len(Children[p])
  PROVE  /\ child[p] \in DOMAIN Children[p] /\ child[p] \in Nat
         /\ This(p) \in Nat /\ This(p) \in IdsOf(p)
<1>1. child[p] \in DOMAIN Children[p] /\ child[p] \in Nat
  BY RegistryAssumption DEF TypeOK
<1>2. Children[p][child[p]].id \in Nat
  BY <1>1, RegistryAssumption
<1> QED
  BY <1>1, <1>2 DEF This, Node, IdsOf

\* A driver at one of its child nodes is the only one at that slot.
LEMMA OnlyOne ==
  ASSUME TypeOK, OnPath, Alone, NEW p \in Drivers, ppc[p] \notin Resting,
         child[p] <= Len(Children[p]), NEW q \in Drivers, q # p,
         ppc[q] \in AtSlot \cup {"check", "ucheck"}
  PROVE  This(q) # This(p)
<1>1. ppc[q] \notin Resting /\ child[q] <= Len(Children[q])
  BY DEF AtSlot, InRegister, InUnregister, Resting, OnPath, Path
<1>2. This(q) \in IdsOf(q) /\ This(p) \in IdsOf(p)
  BY <1>1, NodeFacts
<1> QED
  BY <1>1, <1>2 DEF Alone

LEMMA AtNow ==
  ASSUME TypeOK, OnPath, Alone, NEW p \in Drivers, ppc[p] \notin Resting,
         child[p] <= Len(Children[p]), NEW S \in SUBSET AtSlot
  PROVE  At(This(p), S) <=> ppc[p] \in S
BY OnlyOne DEF At

\* After a step of a driver at one of its child nodes.
LEMMA AtStep ==
  ASSUME TypeOK, OnPath, Alone, NEW p \in Drivers, ppc[p] \notin Resting,
         child[p] <= Len(Children[p]), Moves(p),
         child' = child \/ ppc'[p] \notin AtSlot,
         NEW S \in SUBSET AtSlot
  PROVE  \A j \in Id : At(j, S)' <=> IF j = This(p) THEN ppc'[p] \in S ELSE At(j, S)
<1> SUFFICES ASSUME NEW j \in Id
             PROVE  At(j, S)' <=> IF j = This(p) THEN ppc'[p] \in S ELSE At(j, S)
  OBVIOUS
<1>1. \A q \in Drivers \ {p} : ppc'[q] = ppc[q] /\ This(q)' = This(q)
  BY DEF TypeOK, Moves, This, Node
<1>2. ppc'[p] \in S => This(p)' = This(p)
  BY DEF This, Node
<1>3. \A q \in Drivers \ {p} : ppc[q] \in S => This(q) # This(p)
  BY OnlyOne
<1>4. CASE j = This(p)
  BY <1>1, <1>2, <1>3, <1>4 DEF At
<1>5. CASE j # This(p)
  <2>1. At(j, S)' => At(j, S)
    BY <1>1, <1>2, <1>5 DEF At
  <2>2. At(j, S) => At(j, S)'
    BY <1>1, <1>5 DEF At
  <2> QED
    BY <1>5, <2>1, <2>2
<1> QED
  BY <1>4, <1>5

\* A step of register or unregister: p is at one of its child nodes, and
\* changes no other slot than that one's.
Here(p) ==
  /\ ppc[p] \in AtSlot \cup {"check", "ucheck"}
  /\ child[p] <= Len(Children[p])
  /\ UNCHANGED child \/ NextNode(p)
  /\ UNCHANGED child \/ ppc'[p] \notin AtSlot \cup {"check", "ucheck"}
Elsewhere(p) ==
  \A j \in Id : j # This(p) =>
    /\ busy'[j] = busy[j] /\ label'[j] = label[j] /\ by'[j] = by[j]
    /\ dev'[j] = dev[j] /\ timer'[j] = timer[j] /\ buf'[j] = buf[j]
    /\ j \in live' <=> j \in live

LEMMA SlotFacts ==
  ASSUME TypeOK, OnPath, NEW p \in Drivers, Register(p) \/ Unregister(p)
  PROVE  Moves(p) /\ Here(p) /\ Elsewhere(p)
<1>1. Moves(p)
  BY DriverMoves DEF DriverStep
<1>2. ppc \in [Drivers -> Steps]
  BY DEF TypeOK
<1>3. ASSUME NEW from, NEW to, Go(p, from, to)
      PROVE  ppc[p] = from /\ ppc'[p] = to
  BY <1>2, <1>3 DEF Go
<1>4. ppc[p] \in AtSlot \cup {"check", "ucheck"} => child[p] <= Len(Children[p])
  BY DEF OnPath, Path
<1>5. Here(p) /\ Elsewhere(p)
  <2> SUFFICES /\ ppc[p] \in AtSlot \cup {"check", "ucheck"}
               /\ UNCHANGED child \/ NextNode(p)
               /\ UNCHANGED child \/ ppc'[p] \notin AtSlot \cup {"check", "ucheck"}
               /\ Elsewhere(p)
    BY <1>4 DEF Here
  <2>1. ASSUME UNCHANGED <<slotVars, memVars, timer, live>>
        PROVE  Elsewhere(p)
    BY <2>1 DEF Elsewhere, slotVars, memVars
  <2> USE DEF AtSlot, InRegister, InUnregister
  <2>2. ASSUME NEW from, Failed(p, from)
        PROVE  /\ ppc[p] = from
               /\ UNCHANGED child \/ NextNode(p)
               /\ ppc'[p] \notin AtSlot \cup {"check", "ucheck"}
    BY <1>3, <2>2 DEF Failed
  <2>3. CASE RegCheck(p)
    BY <1>3, <2>1, <2>2, <2>3 DEF RegCheck
  <2>4. CASE RegAlloc(p)
    BY <1>3, <2>2, <2>4 DEF RegAlloc, Elsewhere, slotVars, TypeOK
  <2>5. CASE RegAdd(p) \/ RegDelCdev(p)
    BY <1>3, <2>2, <2>5 DEF RegAdd, RegDelCdev, UndoMemory, Elsewhere, slotVars, memVars
  <2>6. CASE RegCreate(p)
    BY <1>3, <2>6 DEF RegCreate, Elsewhere, memVars, TypeOK
  <2>7. CASE RegInit(p)
    BY <1>3, <2>7 DEF RegInit, Elsewhere, memVars, TypeOK
  <2>8. CASE RegStart(p) \/ RegKfreeBuf(p)
    BY <1>3, <2>2, <2>8 DEF RegStart, RegKfreeBuf, Elsewhere, slotVars, memVars, TypeOK
  <2>9. CASE UnregCheck(p)
    BY <1>3, <2>1, <2>9 DEF UnregCheck
  <2>10. CASE UnregCancel(p) \/ UnregDeinit(p)
    BY <1>3, <2>10 DEF UnregCancel, UnregDeinit, Elsewhere, slotVars, memVars, TypeOK
  <2>11. CASE UnregFree(p) \/ UnregDestroy(p) \/ UnregDel(p)
    BY <1>3, <2>11 DEF UnregFree, UnregDestroy, UnregDel, Elsewhere, slotVars, memVars, TypeOK
  <2> QED
    BY <2>3, <2>4, <2>5, <2>6, <2>7, <2>8, <2>9, <2>10, <2>11 DEF Register, Unregister
<1> QED
  BY <1>1, <1>5

\* Every other step of a driver is about no slot.
LEMMA OtherFacts ==
  ASSUME TypeOK, OnPath, NEW p \in Drivers,
         Probe(p) \/ Remove(p) \/ FwLoad(p) \/ ProbeNode(p) \/ RemoveNode(p)
  PROVE  /\ Moves(p) /\ UNCHANGED <<slotVars, memVars, timer, live>>
         /\ ppc[p] \notin AtSlot /\ ppc'[p] \notin AtSlot
         /\ \A j \in Id : \A S \in SUBSET AtSlot : At(j, S)' <=> At(j, S)
<1>1. Moves(p)
  BY DriverMoves DEF DriverStep
<1>2. UNCHANGED <<slotVars, memVars, timer, live>>
  BY DEF Probe, Remove, FwLoad, ProbeNode, RemoveNode
<1>3. ppc \in [Drivers -> Steps] /\ child \in [Drivers -> Nat]
  BY DEF TypeOK
<1>4. ppc[p] \notin AtSlot /\ ppc'[p] \notin AtSlot
  BY <1>3 DEF Probe, Remove, FwLoad, ProbeNode, RemoveNode, Go, FirstProbe, FirstRemove,
     AtSlot, InRegister, InUnregister
<1>5. \A q \in Drivers \ {p} : ppc'[q] = ppc[q] /\ This(q)' = This(q)
  BY <1>1, <1>3 DEF Moves, This, Node
<1>6. ASSUME NEW j \in Id, NEW S \in SUBSET AtSlot
      PROVE  At(j, S)' <=> At(j, S)
  BY <1>4, <1>5 DEF At
<1> QED
  BY <1>1, <1>2, <1>4, <1>6

LEMMA StillAt ==
  ASSUME UNCHANGED <<ppc, child>>
  PROVE  \A j \in Id : \A S \in SUBSET AtSlot : At(j, S)' <=> At(j, S)
BY DEF At, This, Node

-----------------------------------------------------------------------------
(* The steps preserve the invariant *)

LEMMA AloneStep ==
  ASSUME Serialised, TypeOK, OnPath, Alone, [Next]_vars
  PROVE  Alone'
<1>1. ASSUME UNCHANGED ppc PROVE Alone'
  BY <1>1 DEF Alone
<1>2. ASSUME NEW p \in Drivers, Probe(p) \/ Remove(p) \/ DriverStep(p)
      PROVE  Alone'
  <2>1. \A q \in Drivers \ {p} : ppc'[q] = ppc[q]
    BY <1>2, DriverMoves DEF Moves, TypeOK
  <2>2. CASE Probe(p) \/ Remove(p)
    <3>1. RivalsRest(p)
      BY <2>2 DEF Probe, Remove
    <3> QED
      BY <2>1, <3>1 DEF Alone, RivalsRest
  <2>3. ASSUME DriverStep(p)
        PROVE  ppc[p] \notin Resting
    <3>1. CASE Register(p) \/ Unregister(p)
      BY <3>1, SlotFacts DEF Here, AtSlot, InRegister, InUnregister, Resting
    <3>2. CASE FwLoad(p) \/ ProbeNode(p) \/ RemoveNode(p)
      BY <3>2 DEF FwLoad, ProbeNode, RemoveNode, Go, Resting
    <3> QED
      BY <2>3, <3>1, <3>2 DEF DriverStep
  <2>4. CASE ppc[p] \notin Resting
    BY <2>1, <2>4 DEF Alone
  <2> QED
    BY <1>2, <2>2, <2>3, <2>4
<1> QED
  BY <1>1, <1>2
  DEF Next, vars, ModuleStep, InitClass, InitRegion, ModuleExit, TimerFire, TimerDone,
      chrdev_release, chrdev_open

\* The steps that are no driver's.
KernelStep ==
  \/ InitClass \/ InitRegion
  \/ \E i \in Id : TimerFire(i) \/ TimerDone(i)
  \/ \E f \in Files : chrdev_release(f) \/ \E i \in Id : chrdev_open(f, i)
  \/ UNCHANGED vars

LEMMA KernelFacts ==
  ASSUME TypeOK, KernelStep
  PROVE  /\ UNCHANGED <<source, slotVars, memVars, live, ppc, child>>
         /\ \A i \in Id : timer'[i] = "off" <=> timer[i] = "off"
<1>1. CASE InitClass \/ InitRegion \/ UNCHANGED vars
  BY <1>1 DEF InitClass, InitRegion, vars, modVars
<1>2. ASSUME NEW i \in Id, TimerFire(i) \/ TimerDone(i)
      PROVE  /\ UNCHANGED <<source, slotVars, memVars, live, ppc, child>>
             /\ \A j \in Id : timer'[j] = "off" <=> timer[j] = "off"
  BY <1>2 DEF TimerFire, TimerDone, TypeOK, modVars
<1>3. ASSUME NEW f \in Files, chrdev_release(f) \/ \E i \in Id : chrdev_open(f, i)
      PROVE  UNCHANGED <<source, slotVars, memVars, live, timer, ppc, child>>
  BY <1>3 DEF chrdev_release, chrdev_open, modVars
<1> QED
  BY <1>1, <1>2, <1>3 DEF KernelStep

LEMMA WhoSteps ==
  [Next]_vars <=> \/ KernelStep \/ ModuleExit
                  \/ \E p \in Drivers :
                       \/ Register(p) \/ Unregister(p)
                       \/ Probe(p) \/ Remove(p) \/ FwLoad(p) \/ ProbeNode(p) \/ RemoveNode(p)
BY DEF Next, KernelStep, ModuleStep, DriverStep

LEMMA TestedStep ==
  ASSUME TypeOK, OnPath, Alone, AllTested, [Next]_vars
  PROVE  AllTested'
<1>1. ASSUME NEW p \in Drivers, Register(p) \/ Unregister(p)
      PROVE  AllTested'
  <2>1. Moves(p) /\ Here(p) /\ Elsewhere(p) /\ ppc[p] \notin Resting
    BY <1>1, SlotFacts DEF Here, AtSlot, InRegister, InUnregister, Resting
  <2>2. ASSUME NEW q \in Drivers \ {p}
        PROVE  Tested(q)'
    <3>1. ppc'[q] = ppc[q] /\ This(q)' = This(q) /\ Node(q)' = Node(q)
      BY <2>1 DEF Moves, TypeOK, This, Node
    <3>2. ASSUME ppc[q] \in AtSlot
          PROVE  busy'[This(q)] = busy[This(q)] /\ label'[This(q)] = label[This(q)]
      <4>1. This(q) \in Id
        BY <3>2 DEF OnPath, Path
      <4>2. This(q) # This(p)
        BY <2>1, <3>2, OnlyOne DEF Here
      <4> QED
        BY <2>1, <4>1, <4>2 DEF Elsewhere
    <3>3. Tested(q)
      BY DEF AllTested
    <3>4. ppc[q] \in {"alloc", "add", "create", "init", "del_cdev", "kfree_buf", "free",
                      "destroy", "del", "start", "cancel", "deinit"} => ppc[q] \in AtSlot
      BY DEF AtSlot, InRegister, InUnregister
    <3> QED
      BY <3>1, <3>2, <3>3, <3>4 DEF Tested
  <2> SUFFICES Tested(p)'
    BY <2>2 DEF AllTested
  <2>3. Tested(p)
    BY DEF AllTested
  <2>4. ppc \in [Drivers -> Steps] /\ busy \in [Id -> BOOLEAN] /\ DOMAIN label = Id
    BY DEF TypeOK
  <2>5. ASSUME NEW from, NEW to, Go(p, from, to)
        PROVE  ppc[p] = from /\ ppc'[p] = to
    BY <2>4, <2>5 DEF Go
  <2>6. ASSUME NEW from, Failed(p, from)
        PROVE  Tested(p)'
    BY <2>5, <2>6 DEF Failed, Tested
  <2>7. ppc[p] \in AtSlot => This(p) \in Id
    BY DEF OnPath, Path
  <2>8. UNCHANGED child => This(p)' = This(p) /\ Node(p)' = Node(p)
    BY DEF This, Node
  <2> USE DEF AtSlot, InRegister, InUnregister
  <2>9. CASE RegCheck(p)
    BY <2>5, <2>6, <2>8, <2>9 DEF RegCheck, AfterCheck, FreeSlot, Tested, slotVars
  <2>10. CASE RegAlloc(p) \/ RegAdd(p) \/ RegDelCdev(p) \/ RegKfreeBuf(p)
    BY <2>3, <2>5, <2>6, <2>8, <2>10
    DEF RegAlloc, RegAdd, RegDelCdev, RegKfreeBuf, UndoMemory, Tested, slotVars
  <2>11. CASE RegCreate(p)
    BY <2>3, <2>5, <2>8, <2>11 DEF RegCreate, Tested
  <2>12. CASE RegInit(p) \/ RegStart(p)
    BY <2>4, <2>5, <2>7, <2>8, <2>12 DEF RegInit, RegStart, Tested
  <2>13. CASE UnregCheck(p)
    BY <2>5, <2>8, <2>13 DEF UnregCheck, FirstUnreg, Known, Tested, slotVars
  <2>14. CASE UnregCancel(p) \/ UnregFree(p) \/ UnregDel(p)
    BY <2>3, <2>5, <2>8, <2>14 DEF UnregCancel, UnregFree, UnregDel, Tested, slotVars
  <2>15. CASE UnregDeinit(p) \/ UnregDestroy(p)
    BY <2>3, <2>4, <2>5, <2>7, <2>8, <2>15 DEF UnregDeinit, UnregDestroy, AfterDeinit, Tested
  <2> QED
    BY <1>1, <2>9, <2>10, <2>11, <2>12, <2>13, <2>14, <2>15 DEF Register, Unregister
<1>2. ASSUME NEW p \in Drivers,
             Probe(p) \/ Remove(p) \/ FwLoad(p) \/ ProbeNode(p) \/ RemoveNode(p)
      PROVE  AllTested'
  <2>1. /\ Moves(p) /\ UNCHANGED <<busy, label>>
        /\ ppc'[p] \notin AtSlot
    BY <1>2, OtherFacts DEF slotVars
  <2>2. \A q \in Drivers \ {p} : ppc'[q] = ppc[q] /\ This(q)' = This(q) /\ Node(q)' = Node(q)
    BY <2>1 DEF Moves, TypeOK, This, Node
  <2>3. \A q \in Drivers \ {p} : Tested(q)'
    BY <2>1, <2>2 DEF AllTested, Tested
  <2>4. Tested(p)'
    BY <2>1 DEF Tested, AtSlot, InRegister, InUnregister
  <2> QED
    BY <2>3, <2>4 DEF AllTested
<1>3. CASE KernelStep
  BY <1>3, KernelFacts DEF AllTested, Tested, This, Node, slotVars
<1>4. CASE ModuleExit
  BY <1>4 DEF ModuleExit, AllTested, Tested
<1> QED
  BY <1>1, <1>2, <1>3, <1>4, WhoSteps

\* What a slot has while p is the one at it, and after p's step.
LEMMA SlotRight ==
  ASSUME TypeOK, OnPath, AllTested, NEW p \in Drivers, Register(p) \/ Unregister(p),
         NEW s \in Id, s = This(p),
         s \in live <=> busy[s] \/ ppc[p] \in LiveAt,
         dev[s] = "valid" <=> busy[s] \/ ppc[p] \in DevAt,
         timer[s] # "off" <=> HasTimer /\ busy[s] /\ ppc[p] \notin QuietAt
  PROVE  /\ s \in live' <=> busy'[s] \/ ppc'[p] \in LiveAt
         /\ dev'[s] = "valid" <=> busy'[s] \/ ppc'[p] \in DevAt
         /\ timer'[s] # "off" <=> HasTimer' /\ busy'[s] /\ ppc'[p] \notin QuietAt
<1>1. /\ ppc \in [Drivers -> Steps] /\ busy \in [Id -> BOOLEAN]
      /\ dev \in [Id -> {"null", "valid", "stale"}]
      /\ timer \in [Id -> {"off", "armed", "running"}]
  BY DEF TypeOK
<1>2. ASSUME NEW from, NEW to, Go(p, from, to)
      PROVE  ppc[p] = from /\ ppc'[p] = to
  BY <1>1, <1>2 DEF Go
<1>3. Tested(p)
  BY DEF AllTested
<1>4. UNCHANGED source
  BY SlotFacts DEF Moves, modVars
<1>5. HasTimer' = HasTimer
  BY <1>4 DEF HasTimer
<1>6. ppc[p] \in {"start", "cancel"} => HasTimer
  BY DEF OnPath, Path
<1>7. ASSUME NEW from, Failed(p, from)
      PROVE  ppc[p] = from /\ ppc'[p] \in {"unbound", "probe"}
  BY <1>2, <1>7 DEF Failed
<1> USE DEF LiveAt, DevAt, QuietAt
<1>8. CASE RegCheck(p)
  BY <1>2, <1>5, <1>7, <1>8 DEF RegCheck, AfterCheck, slotVars
<1>9. CASE RegAlloc(p)
  BY <1>2, <1>5, <1>7, <1>9 DEF RegAlloc, slotVars
<1>10. CASE RegAdd(p) \/ RegDelCdev(p)
  BY <1>2, <1>3, <1>5, <1>7, <1>10 DEF RegAdd, RegDelCdev, UndoMemory, slotVars, Tested
<1>11. CASE RegCreate(p)
  BY <1>1, <1>2, <1>3, <1>5, <1>11 DEF RegCreate, Tested
<1>12. CASE RegInit(p)
  BY <1>1, <1>2, <1>3, <1>5, <1>12 DEF RegInit, Tested
<1>13. CASE RegStart(p) \/ RegKfreeBuf(p)
  BY <1>1, <1>2, <1>3, <1>5, <1>6, <1>7, <1>13 DEF RegStart, RegKfreeBuf, slotVars, Tested
<1>14. CASE UnregCheck(p)
  BY <1>2, <1>5, <1>14 DEF UnregCheck, FirstUnreg, slotVars
<1>15. CASE UnregCancel(p)
  BY <1>1, <1>2, <1>5, <1>15 DEF UnregCancel, slotVars
<1>16. CASE UnregDeinit(p)
  BY <1>1, <1>2, <1>3, <1>5, <1>16 DEF UnregDeinit, AfterDeinit, Tested
<1>17. CASE UnregFree(p)
  BY <1>2, <1>5, <1>17 DEF UnregFree, slotVars
<1>18. CASE UnregDestroy(p) \/ UnregDel(p)
  BY <1>1, <1>2, <1>3, <1>5, <1>18 DEF UnregDestroy, UnregDel, slotVars, Tested
<1> QED
  BY <1>8, <1>9, <1>10, <1>11, <1>12, <1>13, <1>14, <1>15, <1>16, <1>17, <1>18
  DEF Register, Unregister

LEMMA RightStep ==
  ASSUME TypeOK, OnPath, Alone, AllTested, LiveRight, DevRight, TimerRight, [Next]_vars
  PROVE  LiveRight' /\ DevRight' /\ TimerRight'
<1>1. LiveAt \in SUBSET AtSlot /\ DevAt \in SUBSET AtSlot /\ QuietAt \in SUBSET AtSlot
  BY DEF LiveAt, DevAt, QuietAt, AtSlot, InRegister, InUnregister
<1>2. ASSUME NEW p \in Drivers, Register(p) \/ Unregister(p)
      PROVE  LiveRight' /\ DevRight' /\ TimerRight'
  <2>1. Moves(p) /\ Here(p) /\ Elsewhere(p) /\ ppc[p] \notin Resting
    BY <1>2, SlotFacts DEF Here, AtSlot, InRegister, InUnregister, Resting
  <2>2. \A S \in SUBSET AtSlot : \A j \in Id :
          At(j, S)' <=> IF j = This(p) THEN ppc'[p] \in S ELSE At(j, S)
    BY <2>1, AtStep DEF Here
  <2>3. \A S \in SUBSET AtSlot : At(This(p), S) <=> ppc[p] \in S
    BY <2>1, AtNow DEF Here
  <2>4. HasTimer' = HasTimer
    BY <2>1 DEF Moves, modVars, HasTimer
  <2>5. ASSUME NEW i \in Id
        PROVE  /\ i \in live' <=> busy'[i] \/ At(i, LiveAt)'
               /\ dev'[i] = "valid" <=> busy'[i] \/ At(i, DevAt)'
               /\ timer'[i] # "off" <=> HasTimer' /\ busy'[i] /\ ~At(i, QuietAt)'
    <3>1. /\ i \in live <=> busy[i] \/ At(i, LiveAt)
          /\ dev[i] = "valid" <=> busy[i] \/ At(i, DevAt)
          /\ timer[i] # "off" <=> HasTimer /\ busy[i] /\ ~At(i, QuietAt)
      BY DEF LiveRight, DevRight, TimerRight
    <3>2. CASE i = This(p)
      <4>1. /\ i \in live <=> busy[i] \/ ppc[p] \in LiveAt
            /\ dev[i] = "valid" <=> busy[i] \/ ppc[p] \in DevAt
            /\ timer[i] # "off" <=> HasTimer /\ busy[i] /\ ppc[p] \notin QuietAt
        BY <1>1, <2>3, <3>1, <3>2
      <4>2. /\ i \in live' <=> busy'[i] \/ ppc'[p] \in LiveAt
            /\ dev'[i] = "valid" <=> busy'[i] \/ ppc'[p] \in DevAt
            /\ timer'[i] # "off" <=> HasTimer' /\ busy'[i] /\ ppc'[p] \notin QuietAt
        BY <1>2, <3>2, <4>1, SlotRight
      <4> QED
        BY <1>1, <2>2, <3>2, <4>2
    <3>3. CASE i # This(p)
      BY <1>1, <2>1, <2>2, <2>4, <3>1, <3>3 DEF Elsewhere
    <3> QED
      BY <3>2, <3>3
  <2> QED
    BY <2>5 DEF LiveRight, DevRight, TimerRight
<1>3. ASSUME \A j \in Id : \A S \in SUBSET AtSlot : At(j, S)' <=> At(j, S),
             UNCHANGED <<source, busy, live>>,
             \A j \in Id : /\ dev'[j] = "valid" <=> dev[j] = "valid"
                           /\ timer'[j] = "off" <=> timer[j] = "off"
      PROVE  LiveRight' /\ DevRight' /\ TimerRight'
  <2>1. HasTimer' = HasTimer
    BY <1>3 DEF HasTimer
  <2>2. LiveRight'
    BY <1>1, <1>3 DEF LiveRight
  <2>3. DevRight'
    BY <1>1, <1>3 DEF DevRight
  <2>4. TimerRight'
    BY <1>1, <1>3, <2>1 DEF TimerRight
  <2> QED
    BY <2>2, <2>3, <2>4
<1>4. ASSUME NEW p \in Drivers,
             Probe(p) \/ Remove(p) \/ FwLoad(p) \/ ProbeNode(p) \/ RemoveNode(p)
      PROVE  LiveRight' /\ DevRight' /\ TimerRight'
  BY <1>3, <1>4, OtherFacts DEF slotVars, Moves, modVars
<1>5. CASE KernelStep
  BY <1>3, <1>5, KernelFacts, StillAt DEF slotVars
<1>6. CASE ModuleExit
  BY <1>3, <1>6, StillAt DEF ModuleExit, TypeOK
<1> QED
  BY <1>2, <1>4, <1>5, <1>6, WhoSteps

\* A step of register or unregister allocates the block of its slot, frees it,
\* or leaves the slot with what it has.
LEMMA SlotBuffer ==
  ASSUME TypeOK, OnPath, AllTested, NEW p \in Drivers, Register(p) \/ Unregister(p),
         NEW s, s = This(p)
  PROVE  \/ ~OwnBuffer /\ UNCHANGED heap
         \/ /\ UNCHANGED heap
            /\ s \in Id => busy'[s] \/ ppc'[p] \in BufAt <=> busy[s] \/ ppc[p] \in BufAt
            /\ s \in Id /\ (busy[s] \/ ppc[p] \in BufAt) => buf'[s] = buf[s]
         \/ /\ s \in Id /\ ~(busy[s] \/ ppc[p] \in BufAt) /\ ppc'[p] \in BufAt
            /\ buf'[s] \in Bufs \ heap /\ heap' = heap \cup {buf'[s]}
            /\ OwnBuffer
         \/ /\ s \in Id /\ ppc[p] \in BufAt /\ ~(busy'[s] \/ ppc'[p] \in BufAt)
            /\ heap' = heap \ {buf[s]}
            /\ OwnBuffer
<1>1. ppc \in [Drivers -> Steps] /\ busy \in [Id -> BOOLEAN] /\ buf \in [Id -> Bufs \cup {Null}]
  BY DEF TypeOK
<1>2. ASSUME NEW from, NEW to, Go(p, from, to)
      PROVE  ppc[p] = from /\ ppc'[p] = to
  BY <1>1, <1>2 DEF Go
<1>3. Tested(p)
  BY DEF AllTested
<1>4. /\ ppc[p] \in {"alloc", "add", "create", "init", "start", "del_cdev", "kfree_buf",
                     "cancel", "deinit", "free", "destroy", "del"} => This(p) \in Id
      /\ ppc[p] \in {"alloc", "kfree_buf", "free"} => OwnBuffer
  BY DEF OnPath, Path, AtSlot, InRegister, InUnregister
<1>5. ASSUME NEW from, Failed(p, from)
      PROVE  ppc[p] = from /\ ppc'[p] \in {"unbound", "probe"}
  BY <1>2, <1>5 DEF Failed
<1> USE DEF BufAt
<1>6. CASE RegCheck(p)
  BY <1>2, <1>5, <1>6 DEF RegCheck, AfterCheck, slotVars, memVars
<1>7. CASE RegAlloc(p)
  BY <1>1, <1>2, <1>3, <1>4, <1>5, <1>7 DEF RegAlloc, slotVars, Tested
<1>8. CASE RegAdd(p) \/ RegDelCdev(p)
  BY <1>2, <1>5, <1>8 DEF RegAdd, RegDelCdev, UndoMemory, slotVars, memVars
<1>9. CASE RegCreate(p)
  BY <1>2, <1>9 DEF RegCreate, memVars
<1>10. CASE RegInit(p)
  BY <1>1, <1>2, <1>10 DEF RegInit, memVars
<1>11. CASE RegStart(p)
  BY <1>2, <1>3, <1>4, <1>11 DEF RegStart, slotVars, memVars, Tested
<1>12. CASE RegKfreeBuf(p)
  BY <1>1, <1>2, <1>3, <1>4, <1>5, <1>12 DEF RegKfreeBuf, slotVars, Tested
<1>13. CASE UnregCheck(p) \/ UnregCancel(p)
  BY <1>2, <1>13 DEF UnregCheck, UnregCancel, FirstUnreg, slotVars, memVars
<1>14. CASE UnregDeinit(p)
  BY <1>1, <1>2, <1>3, <1>14 DEF UnregDeinit, AfterDeinit, memVars, Tested
<1>15. CASE UnregFree(p)
  BY <1>1, <1>2, <1>3, <1>4, <1>15 DEF UnregFree, slotVars, Tested
<1>16. CASE UnregDestroy(p) \/ UnregDel(p)
  BY <1>2, <1>16 DEF UnregDestroy, UnregDel, slotVars, memVars
<1> QED
  BY <1>6, <1>7, <1>8, <1>9, <1>10, <1>11, <1>12, <1>13, <1>14, <1>15, <1>16
  DEF Register, Unregister

LEMMA HeapStep ==
  ASSUME TypeOK, OnPath, Alone, AllTested, HeapRight, Owner, [Next]_vars
  PROVE  HeapRight'
<1>1. BufAt \in SUBSET AtSlot
  BY DEF BufAt, AtSlot, InRegister, InUnregister
<1>2. ASSUME NEW p \in Drivers, Register(p) \/ Unregister(p)
      PROVE  HeapRight'
  <2>1. Moves(p) /\ Here(p) /\ Elsewhere(p) /\ ppc[p] \notin Resting
    BY <1>2, SlotFacts DEF Here, AtSlot, InRegister, InUnregister, Resting
  <2>2. \A j \in Id : At(j, BufAt)' <=> IF j = This(p) THEN ppc'[p] \in BufAt ELSE At(j, BufAt)
    BY <1>1, <2>1, AtStep DEF Here
  <2>3. At(This(p), BufAt) <=> ppc[p] \in BufAt
    BY <1>1, <2>1, AtNow DEF Here
  <2>4. OwnBuffer' = OwnBuffer
    BY <2>1 DEF Moves, modVars, OwnBuffer
  <2> DEFINE s == This(p)
             had == busy[s] \/ ppc[p] \in BufAt
             has == busy'[s] \/ ppc'[p] \in BufAt
  <2>5. \A j \in Id \ {s} : (Holds(j)' <=> Holds(j)) /\ buf'[j] = buf[j]
    BY <2>1, <2>2 DEF Holds, Elsewhere
  <2>6. \A j \in Id : j = s => (Holds(j) <=> had) /\ (Holds(j)' <=> has)
    BY <2>2, <2>3 DEF Holds
  <2>7. \/ ~OwnBuffer /\ UNCHANGED heap
        \/ /\ UNCHANGED heap
           /\ s \in Id => (has <=> had)
           /\ s \in Id /\ had => buf'[s] = buf[s]
        \/ /\ s \in Id /\ ~had /\ has
           /\ buf'[s] \in Bufs \ heap /\ heap' = heap \cup {buf'[s]}
           /\ OwnBuffer
        \/ /\ s \in Id /\ had /\ ~has
           /\ heap' = heap \ {buf[s]}
           /\ OwnBuffer
    BY <1>2, SlotBuffer
  <2> HIDE DEF s, had, has
  <2>8. CASE ~OwnBuffer /\ UNCHANGED heap
    BY <2>4, <2>8 DEF HeapRight
  <2>9. CASE /\ UNCHANGED heap /\ OwnBuffer
             /\ s \in Id => (has <=> had)
             /\ s \in Id /\ had => buf'[s] = buf[s]
    <3>1. \A j \in Id : (Holds(j)' <=> Holds(j)) /\ (Holds(j) => buf'[j] = buf[j])
      BY <2>5, <2>6, <2>9
    <3> QED
      BY <2>4, <2>9, <3>1 DEF HeapRight
  <2>10. CASE /\ s \in Id /\ ~had /\ has
              /\ buf'[s] \in Bufs \ heap /\ heap' = heap \cup {buf'[s]}
              /\ OwnBuffer
    <3>1. /\ ~Holds(s) /\ \A j \in Id : Holds(j)' <=> Holds(j) \/ j = s
          /\ \A j \in Id : Holds(j) => buf'[j] = buf[j]
      BY <2>5, <2>6, <2>10
    <3> QED
      BY <2>4, <2>10, <3>1 DEF HeapRight
  <2>11. CASE /\ s \in Id /\ had /\ ~has
              /\ heap' = heap \ {buf[s]}
              /\ OwnBuffer
    <3>1. /\ Holds(s) /\ \A j \in Id : Holds(j)' <=> Holds(j) /\ j # s
          /\ \A j \in Id \ {s} : buf'[j] = buf[j]
      BY <2>5, <2>6, <2>11
    <3> QED
      BY <2>4, <2>11, <3>1 DEF HeapRight
  <2> QED
    BY <2>7, <2>8, <2>9, <2>10, <2>11
<1>3. ASSUME \A j \in Id : \A S \in SUBSET AtSlot : At(j, S)' <=> At(j, S),
             UNCHANGED <<source, busy, memVars>>
      PROVE  HeapRight'
  <2>1. OwnBuffer' = OwnBuffer /\ UNCHANGED <<buf, heap>>
    BY <1>3 DEF OwnBuffer, memVars
  <2>2. \A j \in Id : Holds(j)' <=> Holds(j)
    BY <1>1, <1>3 DEF Holds
  <2> QED
    BY <2>1, <2>2 DEF HeapRight
<1>4. ASSUME NEW p \in Drivers,
             Probe(p) \/ Remove(p) \/ FwLoad(p) \/ ProbeNode(p) \/ RemoveNode(p)
      PROVE  HeapRight'
  BY <1>3, <1>4, OtherFacts DEF slotVars, Moves, modVars
<1>5. CASE KernelStep
  BY <1>3, <1>5, KernelFacts, StillAt DEF slotVars
<1>6. CASE ModuleExit
  <2>1. \A p \in Drivers : ppc[p] = "unbound"
    BY <1>6 DEF ModuleExit
  <2>2. \A j \in Id : ~At(j, BufAt)
    BY <2>1 DEF At, BufAt
  <2>3. \A j \in Id : busy[j] => buf'[j] = buf[j]
    BY <1>6 DEF ModuleExit
  <2>4. \A j \in Id : (Holds(j)' <=> Holds(j)) /\ (Holds(j) => buf'[j] = buf[j])
    BY <1>1, <1>6, <2>2, <2>3, StillAt DEF Holds, ModuleExit
  <2>5. UNCHANGED heap /\ OwnBuffer' = OwnBuffer
    BY <1>6 DEF ModuleExit, OwnBuffer
  <2> QED
    BY <2>4, <2>5 DEF HeapRight
<1> QED
  BY <1>2, <1>4, <1>5, <1>6, WhoSteps

\* The child node a busy device was registered for stays behind a driver that
\* probes and before one that removes.
LEMMA StillRegistered ==
  ASSUME TypeOK, OnPath, AllTested, NEW p \in Drivers,
         NEW k \in DOMAIN Children[p], Registered(p, k),
         Probe(p) \/ Remove(p) \/ DriverStep(p),
         NEW i \in Id, busy[i],
         Children[p][k].id = i, Children[p][k].label = label[i]
  PROVE  Registered(p, k)'
<1>1. /\ ppc \in [Drivers -> Steps] /\ child \in [Drivers -> Nat]
      /\ child[p] \in 1 .. Len(Children[p]) + 1
  BY DEF TypeOK
<1>2. k \in Nat /\ k >= 1 /\ k <= Len(Children[p]) /\ Len(Children[p]) \in Nat
  BY RegistryAssumption
<1>3. ASSUME NEW from, NEW to, Go(p, from, to)
      PROVE  ppc[p] = from /\ ppc'[p] = to
  BY <1>1, <1>3 DEF Go
<1>4. NextNode(p) => child'[p] = child[p] + 1
  BY <1>1 DEF NextNode
<1> USE DEF Registered, Probing, Removing, InRegister, InUnregister
<1>5. ASSUME ppc[p] \in Probing, ppc'[p] \in Probing, UNCHANGED child, ppc[p] # "start"
      PROVE  Registered(p, k)'
  BY <1>1, <1>2, <1>5
<1>6. ASSUME ppc[p] \in Probing, ppc'[p] = "probe", NextNode(p)
      PROVE  Registered(p, k)'
  BY <1>1, <1>2, <1>4, <1>6
<1>7. ASSUME ppc[p] \in Removing, ppc'[p] \in Removing, UNCHANGED child
      PROVE  Registered(p, k)'
  BY <1>7
<1>8. ASSUME ppc[p] \in Removing, ppc'[p] = "remove", NextNode(p), k # child[p]
      PROVE  Registered(p, k)'
  BY <1>1, <1>2, <1>4, <1>8
<1>9. k = child[p] => This(p) = i /\ Node(p).label = label[i]
  BY DEF This, Node
<1>10. p \in NeedsFirmware \cup Fixed => k = 1 /\ Len(Children[p]) = 1
  BY <1>2, RegistryAssumption
<1>11. ASSUME NEW from \in (InRegister \cup {"check"}) \ {"start"}, Failed(p, from)
       PROVE  Registered(p, k)'
  <2>1. ppc[p] = from
    BY <1>3, <1>11 DEF Failed
  <2>2. CASE p \in NeedsFirmware \cup Fixed
    <3>1. child[p] <= 1
      BY <1>10, <1>11, <2>1, <2>2 DEF OnPath, Path, AtSlot
    <3> QED
      BY <1>1, <1>2, <1>11, <2>1, <3>1
  <2>3. CASE p \notin NeedsFirmware \cup Fixed
    BY <1>3, <1>6, <1>11, <2>3 DEF Failed
  <2> QED
    BY <2>2, <2>3
<1>12. CASE Probe(p) \/ Remove(p)
  BY <1>1, <1>2, <1>3, <1>12 DEF Probe, Remove, FirstRemove
<1>13. CASE FwLoad(p)
  <2>1. ppc[p] = "load" /\ child[p] = 1
    BY <1>3, <1>13 DEF FwLoad, OnPath, Path
  <2> QED
    BY <1>2, <2>1
<1>14. CASE ProbeNode(p)
  BY <1>3, <1>5, <1>6, <1>14 DEF ProbeNode
<1>15. CASE RemoveNode(p)
  BY <1>1, <1>2, <1>3, <1>7, <1>15 DEF RemoveNode, AtEnd
<1>16. CASE Register(p)
  <2>1. CASE RegCheck(p)
    BY <1>3, <1>5, <1>11, <2>1 DEF RegCheck, AfterCheck
  <2>2. CASE RegAlloc(p)
    BY <1>3, <1>5, <1>11, <2>2 DEF RegAlloc
  <2>3. CASE RegAdd(p) \/ RegDelCdev(p)
    BY <1>3, <1>5, <1>11, <2>3 DEF RegAdd, RegDelCdev, UndoMemory
  <2>4. CASE RegCreate(p)
    BY <1>3, <1>5, <2>4 DEF RegCreate
  <2>5. CASE RegInit(p) \/ RegStart(p)
    BY <1>3, <1>5, <1>6, <2>5 DEF RegInit, RegStart
  <2>6. CASE RegKfreeBuf(p)
    BY <1>11, <2>6 DEF RegKfreeBuf
  <2> QED
    BY <1>16, <2>1, <2>2, <2>3, <2>4, <2>5, <2>6 DEF Register
<1>17. CASE Unregister(p)
  <2>1. CASE UnregCheck(p)
    BY <1>3, <1>7, <1>8, <1>9, <2>1 DEF UnregCheck, FirstUnreg, Known
  <2>2. CASE UnregCancel(p) \/ UnregDeinit(p)
    BY <1>3, <1>7, <2>2 DEF UnregCancel, UnregDeinit, AfterDeinit
  <2>3. CASE UnregFree(p) \/ UnregDestroy(p)
    BY <1>3, <1>7, <2>3 DEF UnregFree, UnregDestroy
  <2>4. CASE UnregDel(p)
    BY <1>3, <1>8, <1>9, <2>4 DEF UnregDel, AllTested, Tested
  <2> QED
    BY <1>17, <2>1, <2>2, <2>3, <2>4 DEF Unregister
<1> QED
  BY <1>12, <1>13, <1>14, <1>15, <1>16, <1>17 DEF DriverStep

\* Only two steps of a driver change who owns a slot, or its label.
LEMMA OwnerChanges ==
  ASSUME TypeOK, OnPath, AllTested, NEW p \in Drivers,
         Probe(p) \/ Remove(p) \/ DriverStep(p), NEW i \in Id
  PROVE  \/ by'[i] = by[i] /\ label'[i] = label[i] /\ busy'[i] = busy[i]
         \/ /\ RegInit(p) /\ i = This(p)
            /\ by'[i] = p /\ label'[i] = strncpy(Node(p).label) /\ busy'[i] /\ ~busy[i]
         \/ /\ UnregDeinit(p) /\ i = This(p)
            /\ by'[i] = Null /\ label'[i] = label[i] /\ ~busy'[i]
            /\ ppc[p] = "deinit" /\ label[i] = Node(p).label
<1>1. ASSUME UNCHANGED slotVars
      PROVE  by'[i] = by[i] /\ label'[i] = label[i] /\ busy'[i] = busy[i]
  BY <1>1 DEF slotVars
<1>2. CASE RegInit(p)
  BY <1>2 DEF RegInit, TypeOK, Go, AllTested, Tested
<1>3. CASE UnregDeinit(p)
  BY <1>3 DEF UnregDeinit, TypeOK, Go, AllTested, Tested
<1>4. CASE ~RegInit(p) /\ ~UnregDeinit(p)
  <2>1. CASE RegCreate(p) \/ UnregDestroy(p)
    BY <2>1 DEF RegCreate, UnregDestroy
  <2>2. CASE ~(RegCreate(p) \/ UnregDestroy(p))
    BY <1>1, <1>4, <2>2
    DEF Probe, Remove, DriverStep, FwLoad, ProbeNode, RemoveNode, Register, RegCheck,
        RegAlloc, RegAdd, RegStart, RegDelCdev, RegKfreeBuf, Unregister, UnregCheck,
        UnregCancel, UnregFree, UnregDel
  <2> QED
    BY <2>1, <2>2
<1> QED
  BY <1>2, <1>3, <1>4

LEMMA OwnerStep ==
  ASSUME TypeOK, OnPath, AllTested, Owner, [Next]_vars
  PROVE  Owner'
<1>1. ASSUME NEW p \in Drivers, Probe(p) \/ Remove(p) \/ DriverStep(p),
             NEW i \in Id
      PROVE  Owned(i)'
  <2>1. Moves(p)
    BY <1>1, DriverMoves
  <2>2. \A q \in Drivers \ {p} : ppc'[q] = ppc[q] /\ child'[q] = child[q]
    BY <2>1 DEF Moves, TypeOK
  <2>3. Null \notin Drivers /\ by \in [Id -> Drivers \cup {Null}]
    BY RegistryAssumption DEF TypeOK
  <2>4. CASE by'[i] = by[i] /\ label'[i] = label[i] /\ busy'[i] = busy[i]
    <3>1. busy[i] <=> by[i] # Null
      BY DEF Owner, Owned
    <3>2. ASSUME NEW o \in Drivers, by[i] = o
          PROVE  \E k \in DOMAIN Children[o] :
                   /\ label[i] # Null => Registered(o, k)'
                   /\ Children[o][k].id = i /\ Children[o][k].complete
                   /\ strncpy(Children[o][k].label) = label[i]
      <4>1. PICK k \in DOMAIN Children[o] :
              /\ label[i] # Null => Registered(o, k)
              /\ Children[o][k].id = i /\ Children[o][k].complete
              /\ strncpy(Children[o][k].label) = label[i]
        BY <2>3, <3>2 DEF Owner, Owned
      <4>2. ASSUME label[i] # Null
            PROVE  Registered(o, k)'
        <5>h. Registered(o, k) /\ Children[o][k].label = label[i]
          BY <4>1, <4>2 DEF strncpy
        <5>1. CASE o = p
          BY <1>1, <2>3, <3>1, <3>2, <4>1, <5>h, <5>1, StillRegistered
        <5>2. CASE o # p
          BY <2>2, <5>h, <5>2 DEF Registered
        <5> QED
          BY <5>1, <5>2
      <4> QED
        BY <4>1, <4>2
    <3>3. CASE by[i] = Null
      BY <2>4, <3>1, <3>3 DEF Owned
    <3>4. ASSUME NEW o \in Drivers, by[i] = o
          PROVE  Owned(i)'
      <4>1. by'[i] = o /\ label'[i] = label[i] /\ busy'[i]
        BY <2>3, <2>4, <3>1, <3>4
      <4> QED
        BY <2>3, <3>2, <3>4, <4>1 DEF Owned
    <3> QED
      BY <2>3, <3>3, <3>4
  <2>5. CASE /\ RegInit(p) /\ i = This(p)
             /\ by'[i] = p /\ label'[i] = strncpy(Node(p).label) /\ busy'[i]
    <3>1. ppc[p] = "init" /\ child[p] <= Len(Children[p]) /\ Node(p).complete
      BY <2>5 DEF RegInit, Go, OnPath, Path, AtSlot, InRegister
    <3>2. PICK k \in DOMAIN Children[p] : k = child[p] /\ k \in Nat
      BY <3>1, NodeFacts
    <3>3. \/ ppc'[p] = "start" /\ child'[p] = k
          \/ ppc'[p] = "probe" /\ child'[p] = k + 1
      BY <2>5, <3>2 DEF RegInit, Go, NextNode, TypeOK
    <3>4. Registered(p, k)'
      BY <3>2, <3>3 DEF Registered, Probing, Removing, InRegister, InUnregister
    <3>5. /\ Children[p][k].id = i /\ Children[p][k].complete
          /\ strncpy(Children[p][k].label) = label'[i]
      BY <2>5, <3>1, <3>2 DEF This, Node
    <3> QED
      BY <2>3, <2>5, <3>2, <3>4, <3>5 DEF Owned
  <2>6. CASE by'[i] = Null /\ ~busy'[i]
    BY <2>6 DEF Owned
  <2> QED
    BY <1>1, <2>4, <2>5, <2>6, OwnerChanges
<1>2. ASSUME UNCHANGED <<by, busy, ppc, child>>, \A i \in Id : by[i] # Null => label'[i] = label[i]
      PROVE  Owner'
  BY <1>2 DEF Owner, Owned, Registered
<1>3. CASE KernelStep
  BY <1>2, <1>3, KernelFacts DEF slotVars
<1>4. CASE ModuleExit
  BY <1>2, <1>4 DEF ModuleExit, Owner, Owned, Registered, TypeOK
<1> QED
  BY <1>1, <1>3, <1>4, WhoSteps DEF DriverStep, Owner

LEMMA NotLoadedStep ==
  ASSUME TypeOK, OnPath, DevRight, Owner, NotLoaded, [Next]_vars
  PROVE  NotLoaded'
<1>1. ASSUME NEW p \in Drivers, Probe(p) \/ Remove(p) \/ DriverStep(p)
      PROVE  NotLoaded'
  <2>1. UNCHANGED modVars /\ ppc \in [Drivers -> Steps]
    BY <1>1, DriverMoves DEF Moves, TypeOK
  <2>2. module = "in"
    <3>1. CASE Probe(p)
      BY <3>1 DEF Probe
    <3>2. CASE Remove(p) \/ FwLoad(p) \/ ProbeNode(p) \/ RemoveNode(p)
      BY <2>1, <3>2 DEF Remove, FwLoad, ProbeNode, RemoveNode, Go, NotLoaded
    <3>3. CASE Register(p) \/ Unregister(p)
      BY <3>3, SlotFacts DEF Here, NotLoaded, AtSlot, InRegister, InUnregister
    <3> QED
      BY <1>1, <3>1, <3>2, <3>3 DEF DriverStep
  <2> QED
    BY <2>1, <2>2 DEF modVars, NotLoaded
<1>2. CASE KernelStep
  <2>1. UNCHANGED <<ppc, dev, busy>>
    BY <1>2, KernelFacts DEF slotVars
  <2>2. /\ module # "in" \/ UNCHANGED module
        /\ module' = "out" => class' = "none"
    BY <1>2 DEF KernelStep, InitClass, InitRegion, ModuleGo, TimerFire, TimerDone,
       chrdev_release, chrdev_open, vars, modVars, NotLoaded
  <2> QED
    BY <2>1, <2>2 DEF NotLoaded
<1>3. CASE ModuleExit
  <2>1. \A p \in Drivers : ppc[p] = "unbound"
    BY <1>3 DEF ModuleExit
  <2>2. \A i \in Id : ~At(i, DevAt)
    BY <2>1 DEF At, DevAt
  <2>3. \A i \in Id : busy[i] \/ dev[i] \in {"null", "stale"}
    BY <2>2 DEF DevRight, TypeOK
  <2> QED
    BY <1>3, <2>1, <2>3 DEF ModuleExit, NotLoaded
<1> QED
  BY <1>1, <1>2, <1>3, WhoSteps DEF DriverStep

\* It holds at first, with the module still out or already in.
LEMMA InitInv ==
  ASSUME InitDevices,
         (module = "out" /\ class = "none") \/ (module = "in" /\ class = "ok")
  PROVE  IInv
<1>1. \A p \in Drivers : ppc[p] = "unbound" /\ child[p] = 1
  BY DEF InitDevices
<1>2. TypeOK
  BY <1>1, RegistryAssumption DEF InitDevices, TypeOK, Steps, Resting
<1>3. OnPath /\ AllTested
  BY <1>1 DEF OnPath, Path, AllTested, Tested, AtSlot, InRegister, InUnregister
<1>4. Alone
  BY <1>1 DEF Alone, Resting
<1>5. \A i \in Id : /\ ~busy[i] /\ by[i] = Null /\ i \notin live /\ dev[i] = "null"
                    /\ timer[i] = "off"
  BY DEF InitDevices
<1>6. \A i \in Id : ~At(i, LiveAt) /\ ~At(i, DevAt) /\ ~At(i, BufAt)
  BY <1>1 DEF At, LiveAt, DevAt, BufAt
<1>7. LiveRight /\ DevRight /\ TimerRight
  BY <1>5, <1>6 DEF LiveRight, DevRight, TimerRight
<1>8. HeapRight
  BY <1>5, <1>6 DEF HeapRight, Holds, InitDevices
<1>9. Owner /\ NotLoaded
  BY <1>1, <1>5 DEF Owner, Owned, NotLoaded
<1> QED
  BY <1>2, <1>3, <1>4, <1>7, <1>8, <1>9 DEF IInv

LEMMA InvStep ==
  ASSUME Serialised, IInv, [Next]_vars
  PROVE  IInv'
<1> USE DEF IInv
<1>1. TypeOK' /\ OnPath'
  BY TypeStep, PathStep
<1>2. Alone' /\ AllTested'
  BY AloneStep, TestedStep
<1>3. LiveRight' /\ DevRight' /\ TimerRight' /\ HeapRight'
  BY RightStep, HeapStep
<1>4. Owner' /\ NotLoaded'
  BY OwnerStep, NotLoadedStep
<1> QED
  BY <1>1, <1>2, <1>3, <1>4

\* The inductive invariant holds of every behaviour in which drivers with an
\* id in common take turns.
THEOREM Invariance == ASSUME Serialised PROVE Spec => []IInv
<1>1. Init => IInv
  BY InitInv DEF Init
<1>2. IInv /\ [Next]_vars => IInv'
  BY InvStep
<1> QED
  BY <1>1, <1>2, PTL DEF Spec

-----------------------------------------------------------------------------
(* What follows from it *)

\* The variables of the registry have their types, also when drivers with an
\* id in common are probed at the same time (chrdev_irq.c:239-355).
THEOREM TypeCorrect == Spec => []TypeOK
BY PathInvariant, PTL

\* Registration is all or nothing, whichever of its steps fails and whatever
\* other drivers do meanwhile (chrdev_irq.c:239-355).
THEOREM RegistrationIsWhole == ASSUME Serialised PROVE Spec => []AllOrNothing
<1>1. IInv => AllOrNothing
  <2> SUFFICES ASSUME IInv, Quiet PROVE AllOrNothing
    BY DEF AllOrNothing
  <2>1. \A i \in Id : /\ ~At(i, LiveAt) /\ ~At(i, DevAt) /\ ~At(i, QuietAt)
                      /\ ~At(i, BufAt)
    BY DEF Quiet, Resting, At, LiveAt, DevAt, QuietAt, BufAt
  <2>2. \A i \in Id : Holds(i) <=> busy[i]
    BY <2>1 DEF Holds
  <2>3. HeapRight
    BY DEF IInv
  <2>4. CASE OwnBuffer
    <3>1. heap = {buf[i] : i \in {j \in Id : busy[j]}}
      BY <2>2, <2>3, <2>4 DEF HeapRight
    <3>2. \A i, j \in Id : busy[i] /\ busy[j] /\ buf[i] = buf[j] => i = j
      BY <2>2, <2>3, <2>4 DEF HeapRight
    <3> QED
      BY <2>1, <2>4, <3>1, <3>2 DEF IInv, LiveRight, DevRight, TimerRight, AllOrNothing
  <2>5. CASE ~OwnBuffer
    BY <2>1, <2>3, <2>5 DEF HeapRight, IInv, LiveRight, DevRight, TimerRight, AllOrNothing
  <2> QED
    BY <2>4, <2>5
<1> QED
  BY <1>1, Invariance, PTL

\* The timer of a device never runs on a freed buffer (chrdev_irq.c:304-309,
\* :337-346).
THEOREM TimerIsSafe == ASSUME Serialised PROVE Spec => []TimerHasBuffer
<1>1. IInv => TimerHasBuffer
  <2> SUFFICES ASSUME IInv, NEW i \in Id, timer[i] \in {"armed", "running"}
               PROVE  buf[i] \in heap
    BY DEF TimerHasBuffer
  <2>1. HasTimer /\ busy[i]
    BY DEF IInv, TimerRight
  <2>2. OwnBuffer /\ Holds(i)
    BY <2>1 DEF HasTimer, OwnBuffer, Holds
  <2> QED
    BY <2>2 DEF IInv, HeapRight
<1> QED
  BY <1>1, Invariance, PTL

\* The module never goes with a class, device or block left behind, but what
\* belongs to a device whose label was cut (chrdev_irq.c:292, :362-394).
THEOREM NothingOutlives == ASSUME Serialised PROVE Spec => []ExitLeavesNothing
<1>1. IInv => ExitLeavesNothing
  <2> SUFFICES ASSUME IInv, module = "out" PROVE ExitLeavesNothing
    BY DEF ExitLeavesNothing
  <2>1. /\ \A p \in Drivers : ppc[p] = "unbound"
        /\ class = "none" /\ \A i \in Id : busy[i] \/ dev[i] = "null"
    BY DEF IInv, NotLoaded
  <2>2. \A i \in Id : ~At(i, LiveAt) /\ ~At(i, BufAt)
    BY <2>1 DEF At, LiveAt, BufAt
  <2>3. \A i \in Id : busy[i] => i \in CutOff
    BY <2>1 DEF IInv, Owner, Owned, Registered, TypeOK, CutOff
  <2>4. live \subseteq CutOff /\ \A i \in Id \ CutOff : timer[i] = "off"
    BY <2>2, <2>3 DEF IInv, TypeOK, LiveRight, TimerRight
  <2>5. heap \subseteq {buf[i] : i \in CutOff}
    BY <2>2, <2>3 DEF IInv, HeapRight, Holds
  <2> QED
    BY <2>1, <2>3, <2>4, <2>5 DEF ExitLeavesNothing
<1> QED
  BY <1>1, Invariance, PTL

\* When every label fits in NAME_LEN with its terminator no device is cut off,
\* and the module leaves nothing at all (chrdev_irq.c:292, :332).
THEOREM FittingLabelsLeaveNothing ==
  ASSUME Serialised, LongLabels = {}
  PROVE  Spec => [](CutOff = {} /\ ExitLeavesNothing)
<1>1. IInv => CutOff = {}
  <2> SUFFICES ASSUME IInv, NEW i \in Id, busy[i] PROVE label[i] # Null
    BY DEF CutOff
  <2>1. by[i] \in Drivers
    BY DEF IInv, TypeOK, Owner, Owned
  <2>2. PICK k \in DOMAIN Children[by[i]] :
          Children[by[i]][k].complete /\ strncpy(Children[by[i]][k].label) = label[i]
    BY <2>1, RegistryAssumption DEF IInv, Owner, Owned
  <2> QED
    BY <2>1, <2>2, RegistryAssumption DEF strncpy
<1> QED
  BY <1>1, Invariance, NothingOutlives, PTL

\* No two drivers have child nodes of one id and label.
LabelsDiffer ==
  \A p, q \in Drivers : \A k \in DOMAIN Children[p] : \A l \in DOMAIN Children[q] :
    Children[p][k].id = Children[q][l].id /\ Children[p][k].label = Children[q][l].label
      => p = q

\* Where the labels of one id differ, a device is unregistered by the driver
\* that registered it and by no other (chrdev_irq.c:255, :332).
THEOREM OwnersOnly ==
  ASSUME Serialised, LabelsDiffer
  PROVE  Spec => OnlyOwnerUnregisters
<1>1. ASSUME IInv, [Next]_vars
      PROVE  [\A i \in Id : by[i] # Null /\ by'[i] # by[i]
                => /\ by'[i] = Null
                   /\ ppc[by[i]] = "deinit" /\ This(by[i]) = i]_vars
  <2> SUFFICES ASSUME NEW i \in Id, by[i] # Null, by'[i] # by[i]
               PROVE  by'[i] = Null /\ ppc[by[i]] = "deinit" /\ This(by[i]) = i
    OBVIOUS
  <2>1. PICK p \in Drivers : Probe(p) \/ Remove(p) \/ DriverStep(p)
    BY <1>1, WhoSteps, KernelFacts DEF IInv, ModuleExit, DriverStep, slotVars
  <2>2. busy[i] /\ by[i] \in Drivers
    BY <1>1 DEF IInv, Owner, Owned, TypeOK
  <2>3. /\ i = This(p) /\ by'[i] = Null
        /\ ppc[p] = "deinit" /\ label[i] = Node(p).label
    BY <1>1, <2>1, <2>2, OwnerChanges DEF IInv
  <2>4. child[p] \in DOMAIN Children[p]
    BY <1>1, <2>3, NodeFacts DEF IInv, OnPath, Path, AtSlot, InUnregister
  <2>5. PICK k \in DOMAIN Children[by[i]] :
          Children[by[i]][k].id = i /\ Children[by[i]][k].label = label[i]
    <3>1. PICK k \in DOMAIN Children[by[i]] :
            Children[by[i]][k].id = i /\ strncpy(Children[by[i]][k].label) = label[i]
      BY <1>1 DEF IInv, Owner, Owned
    <3>2. label[i] # Null
      <4>1. Node(p).complete
        BY <1>1, <2>1, <2>3 DEF IInv, OnPath, Path, AtSlot, InUnregister
      <4> QED
        BY <2>1, <2>3, <2>4, <4>1, RegistryAssumption DEF Node
    <3> QED
      BY <3>1, <3>2 DEF strncpy
  <2>6. /\ Children[by[i]][k].id = Children[p][child[p]].id
        /\ Children[by[i]][k].label = Children[p][child[p]].label
    BY <2>3, <2>5 DEF This, Node
  <2>7. \A m \in DOMAIN Children[by[i]] : \A l \in DOMAIN Children[p] :
          Children[by[i]][m].id = Children[p][l].id
            /\ Children[by[i]][m].label = Children[p][l].label => by[i] = p
    BY <2>1, <2>2 DEF LabelsDiffer
  <2>8. by[i] = p
    BY <2>4, <2>5, <2>6, <2>7
  <2> QED
    BY <2>3, <2>8
<1> QED
  BY <1>1, Invariance, PTL DEF Spec, OnlyOwnerUnregisters
=============================================================================
