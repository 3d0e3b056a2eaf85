-------------------------- MODULE ChrdevLifeProofs --------------------------
(***************************************************************************)
(* The references on the devices of chrdev_irq.c, for every number of       *)
(* slots, drivers, files and objects.  Files may be open while their device*)
(* is registered, unregistered and registered again.                       *)
(***************************************************************************)
EXTENDS ChrdevLife, ChrdevRegistryProofs, FiniteSetTheorems

(* The inductive invariant, on top of the registry's. *)

ReaderAt == {"idle", "mutex"} \cup Holding

LifeTypeOK ==
  /\ object \in [Id -> Objects \cup {Null}] /\ refs \in [Objects -> Nat]
  /\ opened \in [Files -> Objects \cup {Null}] /\ misput \subseteq Objects
  /\ mux \in [Id -> Files \cup {Null}] /\ queue \in [Id -> SUBSET Files]
  /\ lost \subseteq Files /\ data \in [Id -> BOOLEAN]
  /\ rpc \in [Files -> ReaderAt]

\* The object of a valid device is one, and not an ERR_PTR.
ObjectThere == \A i \in Id : dev[i] = "valid" => object[i] \in Objects

\* A file that is closed has no reference, and nobody reads from it.
ClosedIsIdle ==
  \A f \in Files : file[f] = Null => opened[f] = Null /\ rpc[f] = "idle"

\* An object that no release was mistaken about is the device of one slot:
\* device_create does not return it again before its references are gone.
OneSlot ==
  \A i, j \in Id :
    /\ dev[i] = "valid" /\ dev[j] = "valid" /\ object[i] = object[j]
    /\ object[i] \notin misput
    => i = j

LifeInv ==
  LifeTypeOK /\ ObjectThere /\ ClosedIsIdle /\ OneSlot /\ ReferencesExact

-----------------------------------------------------------------------------
(* What the steps do *)

\* What a driver does to the registry is one of the registry's steps.
LEMMA DriverOf ==
  ASSUME NEW p \in Drivers, LifeBind(p) \/ DriverRuns(p)
  PROVE  Probe(p) \/ Remove(p) \/ DriverStep(p)
BY DEF LifeBind, DriverRuns, LifeCreate, LifeInitData, LifeDeinit, LifeDestroy, LifeDriver,
   DriverStep, Register, Unregister

ReaderStep(f) == ReadCall(f) \/ ReadStep(f) \/ ReadInterrupted(f)

\* Readers do nothing to the registry.
LEMMA ReaderOnly ==
  ASSUME NEW f \in Files, ReaderStep(f)
  PROVE  UNCHANGED <<vars, refVars>>
BY DEF ReaderStep, ReadCall, ReadStep, ReadInterrupted, ReadLock, ReadTest, ReadWake,
   ReadCopy, ReadReturn

LEMMA LifeSteps ==
  [LifeNext]_lifeVars
    <=> \/ \E p \in Drivers : LifeBind(p) \/ DriverRuns(p)
        \/ \E i \in Id : LifeFire(i) \/ LifeDone(i)
        \/ \E f \in Files : LifeRelease(f) \/ ReaderStep(f) \/ \E i \in Id : LifeOpen(f, i)
        \/ UNCHANGED lifeVars
BY DEF LifeNext, TimerRuns, ReaderStep

\* The composition does to the registry what the registry does.
LEMMA LifeIsRegistry ==
  ASSUME [LifeNext]_lifeVars
  PROVE  [Next]_vars
<1>1. ASSUME NEW p \in Drivers, LifeBind(p) \/ DriverRuns(p)
      PROVE  Next
  BY <1>1, DriverOf DEF Next
<1>2. ASSUME NEW i \in Id, LifeFire(i) \/ LifeDone(i)
      PROVE  Next
  BY <1>2 DEF Next, LifeFire, LifeDone
<1>3. ASSUME NEW f \in Files, LifeRelease(f) \/ \E i \in Id : LifeOpen(f, i)
      PROVE  Next
  BY <1>3 DEF Next, LifeRelease, LifeOpen
<1> QED
  BY <1>1, <1>2, <1>3, LifeSteps, ReaderOnly DEF lifeVars

\* Of a driver's steps two change the device of a slot: when there is none yet
\* the first, and the second when there is one.
LEMMA DeviceChanges ==
  ASSUME IInv, NEW p \in Drivers, LifeBind(p) \/ DriverRuns(p)
  PROVE  /\ UNCHANGED file
         /\ \/ LifeCreate(p) \/ LifeDestroy(p)
            \/ UNCHANGED <<dev, refVars>>
         /\ LifeCreate(p) => This(p) \in Id /\ dev[This(p)] # "valid"
         /\ LifeDestroy(p) => This(p) \in Id /\ dev[This(p)] = "valid"
<1>1. UNCHANGED file
  BY DriverOf, DriverMoves DEF IInv, Moves
<1>2. LifeCreate(p) \/ LifeDestroy(p) \/ UNCHANGED <<dev, refVars>>
  BY DEF LifeBind, DriverRuns, LifeInitData, LifeDeinit, LifeDriver, Probe, Remove, FwLoad,
     ProbeNode, RemoveNode, RegCheck, RegAlloc, RegAdd, RegInit, RegStart, RegDelCdev,
     RegKfreeBuf, UnregCheck, UnregCancel, UnregDeinit, UnregFree, UnregDel, slotVars
<1>3. ASSUME LifeCreate(p) \/ LifeDestroy(p)
      PROVE  /\ This(p) \in Id /\ ~busy[This(p)] /\ child[p] <= Len(Children[p])
             /\ LifeCreate(p) => ppc[p] = "create"
             /\ LifeDestroy(p) => ppc[p] = "destroy"
             /\ ppc[p] \in {"create", "destroy"} /\ ppc[p] \notin Resting
  <2>1. /\ LifeCreate(p) => ppc[p] = "create"
        /\ LifeDestroy(p) => ppc[p] = "destroy"
    BY DEF LifeCreate, LifeDestroy, RegCreate, UnregDestroy, Go
  <2>2. Path(p) /\ Tested(p)
    BY DEF IInv, OnPath, AllTested
  <2> QED
    BY <1>3, <2>1, <2>2 DEF Path, Tested, AtSlot, InRegister, InUnregister, Resting
<1>4. ASSUME LifeCreate(p) \/ LifeDestroy(p)
      PROVE  dev[This(p)] = "valid" <=> ppc[p] \in DevAt
  <2>1. DevAt \in SUBSET AtSlot
    BY DEF DevAt, AtSlot, InRegister, InUnregister
  <2>2. At(This(p), DevAt) <=> ppc[p] \in DevAt
    BY <1>3, <1>4, <2>1, AtNow DEF IInv
  <2> QED
    BY <1>3, <1>4, <2>2 DEF IInv, DevRight
<1>5. LifeCreate(p) => This(p) \in Id /\ dev[This(p)] # "valid"
  BY <1>3, <1>4 DEF DevAt
<1>6. LifeDestroy(p) => This(p) \in Id /\ dev[This(p)] = "valid"
  BY <1>3, <1>4 DEF DevAt
<1> QED
  BY <1>1, <1>2, <1>5, <1>6

LEMMA CreateFacts ==
  ASSUME IInv, NEW p \in Drivers, LifeCreate(p)
  PROVE  \/ /\ dev' = [dev EXCEPT ![This(p)] = "valid"]
            /\ \E o \in Objects :
                 /\ refs[o] = 0 /\ refs' = [refs EXCEPT ![o] = DeviceRefs]
                 /\ object' = [object EXCEPT ![This(p)] = o]
         \/ /\ dev' = [dev EXCEPT ![This(p)] = "stale"]
            /\ object' = [object EXCEPT ![This(p)] = Null]
            /\ UNCHANGED refs
<1>1. This(p) \in Id /\ dev \in [Id -> {"null", "valid", "stale"}]
  BY DeviceChanges DEF IInv, TypeOK, DriverRuns
<1>2. \/ dev' = [dev EXCEPT ![This(p)] = "valid"]
      \/ dev' = [dev EXCEPT ![This(p)] = "stale"]
  BY DEF LifeCreate, RegCreate
<1>3. dev'[This(p)] = "valid" => dev' = [dev EXCEPT ![This(p)] = "valid"]
  BY <1>1, <1>2
<1>4. dev'[This(p)] = "stale" => dev' = [dev EXCEPT ![This(p)] = "stale"]
  BY <1>1, <1>2
<1> QED
  BY <1>3, <1>4 DEF LifeCreate

\* Every other step leaves the devices alone, and the objects.
LEMMA OthersFrame ==
  ASSUME [LifeNext]_lifeVars, ~\E p \in Drivers : LifeBind(p) \/ DriverRuns(p)
  PROVE  /\ UNCHANGED <<dev, object, ppc, child, busy>>
         /\ \/ UNCHANGED <<file, refVars>>
            \/ \E f \in Files : LifeRelease(f) \/ \E i \in Id : LifeOpen(f, i)
<1>1. ASSUME NEW i \in Id, LifeFire(i) \/ LifeDone(i)
      PROVE  UNCHANGED <<dev, ppc, child, busy, file, refVars>>
  BY <1>1 DEF LifeFire, LifeDone, TimerFire, TimerDone, slotVars
<1>2. ASSUME NEW f \in Files, LifeRelease(f) \/ \E i \in Id : LifeOpen(f, i)
      PROVE  UNCHANGED <<dev, object, ppc, child, busy>>
  BY <1>2 DEF LifeRelease, LifeOpen, chrdev_release, chrdev_open, slotVars
<1>3. ASSUME UNCHANGED <<vars, refVars>>
      PROVE  UNCHANGED <<dev, ppc, child, busy, file, refVars>>
  BY <1>3 DEF vars, slotVars
<1> QED
  BY <1>1, <1>2, <1>3, LifeSteps, ReaderOnly DEF refVars, lifeVars

-----------------------------------------------------------------------------
(* The steps preserve the invariant *)

LEMMA PutFacts ==
  ASSUME LifeTypeOK, NEW o, NEW n \in Nat, Put(o, n)
  PROVE  /\ refs' \in [Objects -> Nat]
         /\ \A x \in Objects \ {o} : refs'[x] = refs[x]
         /\ o \in Objects /\ refs[o] >= n => refs'[o] = refs[o] - n
<1> DEFINE left == IF refs[o] > n THEN refs[o] - n ELSE 0
<1>1. refs \in [Objects -> Nat] /\ refs' = [refs EXCEPT ![o] = left]
  BY DEF LifeTypeOK, Put
<1>2. CASE o \in Objects
  <2>1. refs[o] \in Nat
    BY <1>1, <1>2
  <2>2. left \in Nat /\ (refs[o] >= n => left = refs[o] - n)
    BY <2>1
  <2> HIDE DEF left
  <2> QED
    BY <1>1, <1>2, <2>2
<1>3. CASE o \notin Objects
  <2>1. refs' = refs
    BY <1>1, <1>3
  <2> QED
    BY <1>1, <1>3, <2>1
<1> QED
  BY <1>2, <1>3

LEMMA LifeTypeStep ==
  ASSUME IInv, IInv', LifeTypeOK, ClosedIsIdle, [LifeNext]_lifeVars
  PROVE  LifeTypeOK'
<1> USE DEF LifeTypeOK
<1>1. ASSUME UNCHANGED <<refVars, userVars>>
      PROVE  LifeTypeOK'
  BY <1>1 DEF refVars, userVars
<1>2. ASSUME NEW p \in Drivers, LifeBind(p) \/ DriverRuns(p)
      PROVE  LifeTypeOK'
  <2>1. CASE LifeBind(p) \/ LifeDriver(p) \/ LifeDeinit(p)
    BY <1>1, <2>1 DEF LifeBind, LifeDriver, LifeDeinit
  <2>2. CASE LifeCreate(p)
    <3>1. UNCHANGED <<opened, misput, userVars>>
      BY <2>2 DEF LifeCreate
    <3>2. object' \in [Id -> Objects \cup {Null}] /\ refs' \in [Objects -> Nat]
      BY <2>2, CreateFacts, LifeAssumption
    <3> QED
      BY <3>1, <3>2 DEF userVars
  <2>3. CASE LifeInitData(p)
    <3>1. This(p) \in Id
      BY <2>3 DEF LifeInitData, RegInit, Go, IInv, OnPath, Path, AtSlot, InRegister
    <3>2. queue[This(p)] \subseteq Files
      BY <3>1
    <3>3. lost' \subseteq Files
      BY <2>3, <3>2 DEF LifeInitData, Waiters
    <3> QED
      BY <2>3, <3>3 DEF LifeInitData, refVars
  <2>4. CASE LifeDestroy(p)
    <3>1. UNCHANGED <<object, opened, misput, userVars>>
      BY <2>4 DEF LifeDestroy
    <3>2. refs' \in [Objects -> Nat]
      BY <2>4, PutFacts, LifeAssumption DEF LifeDestroy
    <3> QED
      BY <3>1, <3>2 DEF userVars
  <2> QED
    BY <1>2, <2>1, <2>2, <2>3, <2>4 DEF DriverRuns
<1>3. ASSUME NEW i \in Id, LifeFire(i) \/ LifeDone(i)
      PROVE  LifeTypeOK'
  BY <1>3 DEF LifeFire, LifeDone, refVars
<1>4. ASSUME NEW f \in Files, LifeRelease(f)
      PROVE  LifeTypeOK'
  <2>1. UNCHANGED <<object, userVars>> /\ opened' = [opened EXCEPT ![f] = Null]
    BY <1>4 DEF LifeRelease
  <2>2. refs' \in [Objects -> Nat]
    BY <1>4, PutFacts DEF LifeRelease
  <2>3. file[f] \in Id
    BY <1>4 DEF LifeRelease, chrdev_release, IInv, TypeOK
  <2>4. misput' \subseteq Objects
    BY <1>4, <2>3 DEF LifeRelease
  <2> QED
    BY <2>1, <2>2, <2>4 DEF userVars
<1>5. ASSUME NEW f \in Files, NEW i \in Id, LifeOpen(f, i)
      PROVE  LifeTypeOK'
  BY <1>5 DEF LifeOpen, Alive, userVars
<1>6. ASSUME NEW f \in Files, ReaderStep(f)
      PROVE  LifeTypeOK'
  <2>1. UNCHANGED refVars
    BY <1>6, ReaderOnly
  <2>2. rpc' \in [Files -> ReaderAt]
    BY <1>6 DEF ReaderStep, ReadCall, ReadStep, ReadInterrupted, ReadLock, ReadTest, ReadWake,
       ReadCopy, ReadReturn, ReaderGo, ReaderAt, Holding
  <2>3. file[f] \in Id
    <3>1. file[f] # Null
      BY <1>6 DEF ReaderStep, ReadCall, ReadStep, ReadInterrupted, ReadLock, ReadTest, ReadWake,
         ReadCopy, ReadReturn, ReaderGo, ClosedIsIdle
    <3> QED
      BY <3>1 DEF IInv, TypeOK
  <2>4. lost' \subseteq Files /\ data' \in [Id -> BOOLEAN]
    BY <1>6, <2>3 DEF ReaderStep, ReadCall, ReadStep, ReadInterrupted, ReadLock, ReadTest, ReadWake,
       ReadCopy, ReadReturn
  <2>5. mux' \in [Id -> Files \cup {Null}]
    BY <1>6 DEF ReaderStep, ReadCall, ReadStep, ReadInterrupted, ReadLock, ReadTest, ReadWake,
       ReadCopy, ReadReturn
  <2>6. queue' \in [Id -> SUBSET Files]
    BY <1>6, <2>3 DEF ReaderStep, ReadCall, ReadStep, ReadInterrupted, ReadLock, ReadTest, ReadWake,
       ReadCopy, ReadReturn
  <2> QED
    BY <2>1, <2>2, <2>4, <2>5, <2>6 DEF refVars
<1> QED
  BY <1>1, <1>2, <1>3, <1>4, <1>5, <1>6, LifeSteps DEF lifeVars

LEMMA ThereStep ==
  ASSUME IInv, LifeTypeOK, ObjectThere, [LifeNext]_lifeVars
  PROVE  ObjectThere'
<1>1. dev \in [Id -> {"null", "valid", "stale"}] /\ object \in [Id -> Objects \cup {Null}]
  BY DEF IInv, TypeOK, LifeTypeOK
<1>2. ASSUME NEW p \in Drivers, LifeBind(p) \/ DriverRuns(p)
      PROVE  ObjectThere'
  <2>1. CASE LifeCreate(p)
    BY <1>1, <2>1, CreateFacts DEF ObjectThere
  <2>2. CASE LifeDestroy(p)
    <3>1. dev' = [dev EXCEPT ![This(p)] = "stale"] /\ UNCHANGED object
      BY <2>2 DEF LifeDestroy, UnregDestroy
    <3> QED
      BY <1>1, <3>1 DEF ObjectThere
  <2>3. CASE UNCHANGED <<dev, refVars>>
    BY <2>3 DEF ObjectThere, refVars
  <2> QED
    BY <1>2, <2>1, <2>2, <2>3, DeviceChanges
<1>3. CASE ~\E p \in Drivers : LifeBind(p) \/ DriverRuns(p)
  BY <1>3, OthersFrame DEF ObjectThere
<1> QED
  BY <1>2, <1>3

LEMMA ClosedStep ==
  ASSUME IInv, LifeTypeOK, ClosedIsIdle, [LifeNext]_lifeVars
  PROVE  ClosedIsIdle'
<1>1. /\ file \in [Files -> Id \cup {Null}] /\ opened \in [Files -> Objects \cup {Null}]
      /\ rpc \in [Files -> ReaderAt] /\ Null \notin Id
  BY RegistryAssumption DEF IInv, TypeOK, LifeTypeOK, Id
<1>2. ASSUME UNCHANGED <<file, opened, rpc>>
      PROVE  ClosedIsIdle'
  BY <1>2 DEF ClosedIsIdle
<1>3. ASSUME NEW p \in Drivers, LifeBind(p) \/ DriverRuns(p)
      PROVE  ClosedIsIdle'
  <2>1. UNCHANGED <<opened, rpc>>
    BY <1>3 DEF LifeBind, DriverRuns, LifeCreate, LifeInitData, LifeDeinit, LifeDestroy, LifeDriver,
       refVars, userVars
  <2> QED
    BY <1>2, <1>3, <2>1, DeviceChanges
<1>4. ASSUME NEW f \in Files, LifeRelease(f)
      PROVE  ClosedIsIdle'
  <2>1. /\ file' = [file EXCEPT ![f] = Null] /\ opened' = [opened EXCEPT ![f] = Null]
        /\ rpc[f] = "idle" /\ UNCHANGED rpc
    BY <1>4 DEF LifeRelease, chrdev_release, userVars
  <2> QED
    BY <1>1, <2>1 DEF ClosedIsIdle
<1>5. ASSUME NEW f \in Files, NEW i \in Id, LifeOpen(f, i)
      PROVE  ClosedIsIdle'
  <2>1. /\ file' = [file EXCEPT ![f] = i] /\ UNCHANGED rpc
        /\ \A g \in Files \ {f} : opened'[g] = opened[g]
    BY <1>1, <1>5 DEF LifeOpen, chrdev_open, userVars
  <2> QED
    BY <1>1, <2>1 DEF ClosedIsIdle
<1>6. ASSUME NEW g \in Files, ReaderStep(g)
      PROVE  ClosedIsIdle'
  <2>1. UNCHANGED <<file, opened>>
    BY <1>6, ReaderOnly DEF vars, refVars
  <2>2. file[g] # Null
    BY <1>6 DEF ReaderStep, ReadCall, ReadStep, ReadInterrupted, ReadLock, ReadTest, ReadWake,
       ReadCopy, ReadReturn, ReaderGo, ClosedIsIdle
  <2>3. \A f \in Files : f # g => rpc'[f] = rpc[f]
    BY <1>1, <1>6 DEF ReaderStep, ReadCall, ReadStep, ReadInterrupted, ReadLock, ReadTest,
       ReadWake, ReadCopy, ReadReturn, ReaderGo
  <2> QED
    BY <2>1, <2>2, <2>3 DEF ClosedIsIdle
<1>7. ASSUME NEW i \in Id, LifeFire(i) \/ LifeDone(i)
      PROVE  ClosedIsIdle'
  BY <1>2, <1>7 DEF LifeFire, LifeDone, TimerFire, TimerDone, refVars
<1>8. CASE UNCHANGED lifeVars
  BY <1>2, <1>8 DEF lifeVars, vars, refVars, userVars
<1> QED
  BY <1>3, <1>4, <1>5, <1>6, <1>7, <1>8, LifeSteps

\* The two ways to have references.
Registration(o) == IF IsRegistered(o) THEN DeviceRefs ELSE 0
Holders(o) == {f \in Files : opened[f] = o}

LEMMA Sizes ==
  ASSUME NEW o
  PROVE  /\ Registration(o) \in Nat /\ IsFiniteSet(Holders(o))
         /\ Cardinality(Holders(o)) \in Nat
<1>1. Holders(o) \in SUBSET Files
  BY DEF Holders
<1>2. IsFiniteSet(Holders(o))
  BY <1>1, LifeAssumption, FS_Subset
<1> QED
  BY <1>2, FS_CardinalityType, LifeAssumption DEF Registration

\* An object that is registered, or open, is allocated.
LEMMA Allocated ==
  ASSUME LifeTypeOK, ReferencesExact, NEW o \in Objects \ misput
  PROVE  /\ IsRegistered(o) => refs[o] >= DeviceRefs /\ refs[o] # 0
         /\ Holders(o) # {} => refs[o] >= 1
<1> DEFINE H == Holders(o)
<1>1. refs[o] = Registration(o) + Cardinality(H)
  BY DEF ReferencesExact, Registration, Holders
<1>2. IsFiniteSet(H) /\ Cardinality(H) \in Nat /\ Registration(o) \in Nat
  BY Sizes
<1> HIDE DEF H
<1>3. H # {} => Cardinality(H) # 0
  BY <1>2, FS_EmptySet
<1>4. IsRegistered(o) => Registration(o) = DeviceRefs
  BY DEF Registration
<1>5. IsRegistered(o) => refs[o] >= DeviceRefs /\ refs[o] # 0
  BY <1>1, <1>2, <1>4, LifeAssumption
<1>6. H # {} => refs[o] >= 1
  BY <1>1, <1>2, <1>3
<1> QED
  BY <1>5, <1>6 DEF H

\* The balance of one object after a registration or a holder came or went.
LEMMA Balance ==
  ASSUME ReferencesExact, NEW o \in Objects \ misput,
         \/ /\ IsRegistered(o)' = IsRegistered(o) /\ Holders(o)' = Holders(o)
            /\ refs'[o] = refs[o]
         \/ /\ ~IsRegistered(o) /\ IsRegistered(o)' /\ Holders(o)' = Holders(o)
            /\ refs'[o] = refs[o] + DeviceRefs
         \/ /\ IsRegistered(o) /\ ~IsRegistered(o)' /\ Holders(o)' = Holders(o)
            /\ refs'[o] = refs[o] - DeviceRefs
         \/ \E x : /\ x \notin Holders(o) /\ Holders(o)' = Holders(o) \cup {x}
                   /\ IsRegistered(o)' = IsRegistered(o) /\ refs'[o] = refs[o] + 1
         \/ \E x : /\ x \in Holders(o) /\ Holders(o)' = Holders(o) \ {x}
                   /\ IsRegistered(o)' = IsRegistered(o) /\ refs'[o] = refs[o] - 1
  PROVE  refs'[o] = Registration(o)' + Cardinality(Holders(o)')
<1> DEFINE r == Registration(o)
           H == Holders(o)
           s == Registration(o)'
           G == Holders(o)'
<1>1. refs[o] = r + Cardinality(H)
  BY DEF ReferencesExact, Registration, Holders
<1>2. IsFiniteSet(H) /\ Cardinality(H) \in Nat /\ r \in Nat /\ DeviceRefs \in Nat
  BY Sizes, LifeAssumption
<1>3. \/ s = r /\ G = H /\ refs'[o] = refs[o]
      \/ s = r + DeviceRefs /\ G = H /\ refs'[o] = refs[o] + DeviceRefs
      \/ s = r - DeviceRefs /\ G = H /\ refs'[o] = refs[o] - DeviceRefs
      \/ \E x : x \notin H /\ G = H \cup {x} /\ s = r /\ refs'[o] = refs[o] + 1
      \/ \E x : x \in H /\ G = H \ {x} /\ s = r /\ refs'[o] = refs[o] - 1
  <2>1. /\ r = IF IsRegistered(o) THEN DeviceRefs ELSE 0
        /\ s = IF IsRegistered(o)' THEN DeviceRefs ELSE 0
    BY DEF Registration
  <2>2. CASE ~IsRegistered(o) /\ IsRegistered(o)'
    <3>1. r = 0 /\ s = DeviceRefs /\ s = r + DeviceRefs
      BY <2>1, <2>2, <1>2
    <3> QED
      BY <2>2, <3>1
  <2>3. CASE IsRegistered(o) /\ ~IsRegistered(o)'
    <3>1. r = DeviceRefs /\ s = 0 /\ s = r - DeviceRefs
      BY <2>1, <2>3, <1>2
    <3> QED
      BY <2>3, <3>1
  <2>4. CASE IsRegistered(o) <=> IsRegistered(o)'
    <3>1. s = r
      BY <2>1, <2>4
    <3> QED
      BY <2>4, <3>1
  <2> QED
    BY <2>2, <2>3, <2>4
<1> HIDE DEF r, H, s, G
<1>4. refs'[o] = s + Cardinality(G)
  <2>1. \A x : /\ Cardinality(H \cup {x}) = IF x \in H THEN Cardinality(H) ELSE Cardinality(H) + 1
               /\ Cardinality(H \ {x}) = IF x \in H THEN Cardinality(H) - 1 ELSE Cardinality(H)
    BY <1>2, FS_AddElement, FS_RemoveElement
  <2>2. CASE G = H
    <3>1. \/ s = r /\ refs'[o] = refs[o]
          \/ s = r + DeviceRefs /\ refs'[o] = refs[o] + DeviceRefs
          \/ s = r - DeviceRefs /\ refs'[o] = refs[o] - DeviceRefs
      BY <1>3, <2>2
    <3> QED
      BY <1>1, <1>2, <2>2, <3>1
  <2>3. ASSUME NEW x, x \notin H /\ G = H \cup {x} /\ s = r /\ refs'[o] = refs[o] + 1
        PROVE  refs'[o] = s + Cardinality(G)
    BY <1>1, <1>2, <2>1, <2>3
  <2>4. ASSUME NEW x, x \in H /\ G = H \ {x} /\ s = r /\ refs'[o] = refs[o] - 1
        PROVE  refs'[o] = s + Cardinality(G)
    BY <1>1, <1>2, <2>1, <2>4
  <2> QED
    BY <1>3, <2>2, <2>3, <2>4
<1> QED
  BY <1>4 DEF s, G

\* A release never takes an object off the mistaken ones, nor does anything else.
LEMMA MisputGrows ==
  ASSUME [LifeNext]_lifeVars
  PROVE  misput \subseteq misput'
<1>1. ASSUME NEW p \in Drivers, LifeBind(p) \/ DriverRuns(p)
      PROVE  UNCHANGED misput
  BY <1>1 DEF LifeBind, DriverRuns, LifeCreate, LifeInitData, LifeDeinit, LifeDestroy, LifeDriver,
     refVars
<1>2. ASSUME NEW f \in Files, LifeRelease(f) \/ \E i \in Id : LifeOpen(f, i)
      PROVE  misput \subseteq misput'
  BY <1>2 DEF LifeRelease, LifeOpen
<1> QED
  BY <1>1, <1>2, OthersFrame DEF refVars

LEMMA OneSlotStep ==
  ASSUME IInv, LifeTypeOK, OneSlot, ReferencesExact, [LifeNext]_lifeVars
  PROVE  OneSlot'
<1>1. dev \in [Id -> {"null", "valid", "stale"}] /\ object \in [Id -> Objects \cup {Null}]
  BY DEF IInv, TypeOK, LifeTypeOK
<1>2. misput \subseteq misput'
  BY MisputGrows
<1>3. ASSUME UNCHANGED <<dev, object>>
      PROVE  OneSlot'
  BY <1>2, <1>3 DEF OneSlot
<1>4. ASSUME NEW p \in Drivers, LifeCreate(p)
      PROVE  OneSlot'
  <2> DEFINE k == This(p)
  <2>1. k \in Id
    BY <1>4, DeviceChanges DEF DriverRuns
  <2>2. ASSUME NEW n \in Objects, refs[n] = 0, dev' = [dev EXCEPT ![k] = "valid"],
               object' = [object EXCEPT ![k] = n]
        PROVE  OneSlot'
    <3>1. n \notin misput => ~IsRegistered(n)
      BY <2>2, Allocated
    <3>2. \A i \in Id \ {k} : n \notin misput => ~(dev[i] = "valid" /\ object[i] = n)
      BY <3>1 DEF IsRegistered
    <3>3. /\ object'[k] = n
          /\ \A i \in Id \ {k} : dev'[i] = dev[i] /\ object'[i] = object[i]
      BY <1>1, <2>1, <2>2
    <3> QED
      BY <1>2, <3>2, <3>3 DEF OneSlot
  <2>3. ASSUME dev' = [dev EXCEPT ![k] = "stale"], object' = [object EXCEPT ![k] = Null]
        PROVE  OneSlot'
    BY <1>1, <1>2, <2>1, <2>3 DEF OneSlot
  <2> QED
    BY <1>4, <2>2, <2>3, CreateFacts
<1>5. ASSUME NEW p \in Drivers, LifeDestroy(p)
      PROVE  OneSlot'
  <2>1. dev' = [dev EXCEPT ![This(p)] = "stale"] /\ UNCHANGED object
    BY <1>5 DEF LifeDestroy, UnregDestroy
  <2> QED
    BY <1>1, <1>2, <2>1 DEF OneSlot
<1>6. ASSUME NEW p \in Drivers, LifeBind(p) \/ DriverRuns(p)
      PROVE  OneSlot'
  BY <1>3, <1>4, <1>5, <1>6, DeviceChanges DEF refVars
<1>7. CASE ~\E p \in Drivers : LifeBind(p) \/ DriverRuns(p)
  BY <1>3, <1>7, OthersFrame
<1> QED
  BY <1>6, <1>7

LEMMA ReferencesStep ==
  ASSUME IInv, LifeInv, [LifeNext]_lifeVars
  PROVE  ReferencesExact'
<1> USE DEF LifeInv
<1> SUFFICES ASSUME NEW o \in Objects, o \notin misput'
             PROVE  refs'[o] = Registration(o)' + Cardinality(Holders(o)')
  BY DEF ReferencesExact, Registration, Holders
<1> DEFINE Goal == refs'[o] = Registration(o)' + Cardinality(Holders(o)')
<1>0. o \in Objects \ misput
  BY MisputGrows
<1>1. /\ file \in [Files -> Id \cup {Null}] /\ object \in [Id -> Objects \cup {Null}]
      /\ opened \in [Files -> Objects \cup {Null}] /\ refs \in [Objects -> Nat]
      /\ dev \in [Id -> {"null", "valid", "stale"}]
  BY DEF IInv, TypeOK, LifeTypeOK
<1>2. ASSUME UNCHANGED <<dev, object, opened, refs>>
      PROVE  Goal
  BY <1>0, <1>2, Balance DEF IsRegistered, Holders
<1>3. ASSUME NEW p \in Drivers, LifeCreate(p)
      PROVE  Goal
  <2> DEFINE k == This(p)
  <2>1. k \in Id /\ dev[k] # "valid" /\ UNCHANGED opened
    BY <1>3, DeviceChanges DEF LifeCreate, DriverRuns
  <2>2. Holders(o)' = Holders(o)
    BY <2>1 DEF Holders
  <2>3. ASSUME NEW n \in Objects, refs[n] = 0, refs' = [refs EXCEPT ![n] = DeviceRefs],
               dev' = [dev EXCEPT ![k] = "valid"], object' = [object EXCEPT ![k] = n]
        PROVE  Goal
    <3>1. CASE o = n
      <4>1. ~IsRegistered(o)
        BY <1>0, <2>3, <3>1, Allocated
      <4>2. IsRegistered(o)'
        BY <1>1, <2>1, <2>3, <3>1 DEF IsRegistered
      <4>3. refs'[o] = refs[o] + DeviceRefs
        BY <1>1, <2>3, <3>1, LifeAssumption
      <4> QED
        BY <1>0, <2>2, <4>1, <4>2, <4>3, Balance
    <3>2. CASE o # n
      <4>1. IsRegistered(o)' = IsRegistered(o)
        BY <1>1, <2>1, <2>3, <3>2 DEF IsRegistered
      <4>2. refs'[o] = refs[o]
        BY <1>1, <2>3, <3>2
      <4> QED
        BY <1>0, <2>2, <4>1, <4>2, Balance
    <3> QED
      BY <3>1, <3>2
  <2>4. ASSUME dev' = [dev EXCEPT ![k] = "stale"], UNCHANGED refs,
               object' = [object EXCEPT ![k] = Null]
        PROVE  Goal
    <3>1. IsRegistered(o)' = IsRegistered(o)
      BY <1>1, <2>1, <2>4 DEF IsRegistered
    <3> QED
      BY <1>0, <2>2, <2>4, <3>1, Balance
  <2> QED
    BY <1>3, <2>3, <2>4, CreateFacts
<1>4. ASSUME NEW p \in Drivers, LifeDestroy(p)
      PROVE  Goal
  <2> DEFINE k == This(p)
             x == object[k]
  <2>1. k \in Id /\ dev[k] = "valid" /\ x \in Objects
    BY <1>4, DeviceChanges DEF DriverRuns, ObjectThere
  <2>2. UNCHANGED <<object, opened>> /\ dev' = [dev EXCEPT ![k] = "stale"] /\ Put(x, DeviceRefs)
    BY <1>4 DEF LifeDestroy, UnregDestroy
  <2> HIDE DEF k
  <2>3. Holders(o)' = Holders(o)
    BY <2>2 DEF Holders
  <2>4. CASE o = x
    <3>1. IsRegistered(o)
      BY <2>1, <2>4 DEF IsRegistered
    <3>2. ~IsRegistered(o)'
      <4> SUFFICES ASSUME NEW j \in Id, dev'[j] = "valid", object'[j] = o
                   PROVE  FALSE
        BY DEF IsRegistered
      <4>1. j # k /\ dev[j] = "valid" /\ object[j] = object[k]
        BY <1>1, <2>1, <2>2, <2>4
      <4> QED
        BY <1>0, <2>1, <2>4, <4>1 DEF OneSlot
    <3>3. refs[o] >= DeviceRefs
      BY <1>0, <3>1, Allocated
    <3>4. refs'[o] = refs[o] - DeviceRefs
      BY <2>2, <2>4, <3>3, PutFacts, LifeAssumption
    <3> QED
      BY <1>0, <2>3, <3>1, <3>2, <3>4, Balance
  <2>5. CASE o # x
    <3>1. IsRegistered(o)' = IsRegistered(o)
      BY <1>1, <2>1, <2>2, <2>5 DEF IsRegistered
    <3>2. refs'[o] = refs[o]
      BY <2>2, <2>5, PutFacts, LifeAssumption
    <3> QED
      BY <1>0, <2>3, <3>1, <3>2, Balance
  <2> QED
    BY <2>4, <2>5
<1>5. ASSUME NEW f \in Files, LifeRelease(f)
      PROVE  Goal
  <2> DEFINE x == object[file[f]]
  <2>1. /\ opened' = [opened EXCEPT ![f] = Null] /\ UNCHANGED <<dev, object>>
        /\ IF x # Null THEN Put(x, 1) ELSE UNCHANGED refs
    BY <1>5 DEF LifeRelease, chrdev_release, slotVars
  <2>2. o = opened[f] <=> o = x
    <3>1. opened[f] # x => misput' = misput \cup ({opened[f], x} \ {Null})
      BY <1>5 DEF LifeRelease
    <3> QED
      BY <3>1, LifeAssumption
  <2>3. IsRegistered(o)' = IsRegistered(o) /\ Holders(o)' = Holders(o) \ {f}
    BY <1>1, <2>1, LifeAssumption DEF IsRegistered, Holders
  <2> HIDE DEF x
  <2>4. CASE o = x
    <3>1. f \in Holders(o)
      BY <2>2, <2>4 DEF Holders
    <3>2. refs[o] >= 1
      BY <1>0, <3>1, Allocated
    <3>3. Put(o, 1)
      BY <2>1, <2>4, LifeAssumption
    <3>4. refs'[o] = refs[o] - 1
      BY <3>2, <3>3, PutFacts
    <3> QED
      BY <1>0, <2>3, <3>1, <3>4, Balance
  <2>5. CASE o # x
    <3>1. f \notin Holders(o)
      BY <2>2, <2>5 DEF Holders
    <3>2. Holders(o)' = Holders(o)
      BY <2>3, <3>1
    <3>3. refs'[o] = refs[o]
      <4>1. CASE x = Null
        BY <2>1, <4>1
      <4>2. CASE x # Null
        BY <2>1, <2>5, <4>2, PutFacts
      <4> QED
        BY <4>1, <4>2
    <3> QED
      BY <1>0, <2>3, <3>2, <3>3, Balance
  <2> QED
    BY <2>4, <2>5
<1>6. ASSUME NEW f \in Files, NEW i \in Id, LifeOpen(f, i)
      PROVE  Goal
  <2>1. file[f] = Null /\ UNCHANGED <<dev, object>>
    BY <1>6 DEF LifeOpen, chrdev_open, slotVars
  <2>2. opened[f] = Null /\ f \notin Holders(o)
    BY <2>1, LifeAssumption DEF ClosedIsIdle, Holders
  <2>3. IsRegistered(o)' = IsRegistered(o)
    BY <2>1 DEF IsRegistered
  <2>4. CASE UNCHANGED <<refs, opened>>
    BY <1>2, <2>1, <2>4
  <2>5. ASSUME refs' = [refs EXCEPT ![object[i]] = @ + 1],
               opened' = [opened EXCEPT ![f] = object[i]]
        PROVE  Goal
    <3>1. CASE o = object[i]
      <4>1. Holders(o)' = Holders(o) \cup {f} /\ refs'[o] = refs[o] + 1
        BY <1>1, <2>5, <3>1 DEF Holders
      <4> QED
        BY <1>0, <2>2, <2>3, <4>1, Balance
    <3>2. CASE o # object[i]
      <4>1. Holders(o)' = Holders(o) /\ refs'[o] = refs[o]
        BY <1>1, <2>2, <2>5, <3>2 DEF Holders
      <4> QED
        BY <1>0, <2>3, <4>1, Balance
    <3> QED
      BY <3>1, <3>2
  <2> QED
    BY <1>6, <2>4, <2>5 DEF LifeOpen
<1>7. ASSUME NEW p \in Drivers, LifeBind(p) \/ DriverRuns(p)
      PROVE  Goal
  BY <1>2, <1>3, <1>4, <1>7, DeviceChanges DEF refVars
<1>8. CASE ~\E p \in Drivers : LifeBind(p) \/ DriverRuns(p)
  <2>1. CASE UNCHANGED <<file, refVars>>
    BY <1>2, <1>8, <2>1, OthersFrame DEF refVars
  <2> QED
    BY <1>5, <1>6, <1>8, <2>1, OthersFrame
<1> QED
  BY <1>7, <1>8

-----------------------------------------------------------------------------
(* The theorems. *)

LEMMA LifeInitInv ==
  ASSUME LifeInit
  PROVE  IInv /\ LifeInv
<1>1. IInv
  BY InitInv DEF LifeInit
<1>2. \A i \in Id : dev[i] = "null"
  BY DEF LifeInit, InitDevices
<1>3. \A f \in Files : file[f] = Null /\ opened[f] = Null /\ rpc[f] = "idle"
  BY DEF LifeInit, InitDevices
<1>4. LifeTypeOK
  BY DEF LifeInit, LifeTypeOK, ReaderAt
<1>5. ObjectThere /\ ClosedIsIdle /\ OneSlot
  BY <1>2, <1>3 DEF ObjectThere, ClosedIsIdle, OneSlot
<1>6. ReferencesExact
  <2> SUFFICES ASSUME NEW o \in Objects
               PROVE  refs[o] = Registration(o) + Cardinality(Holders(o))
    BY DEF ReferencesExact, Registration, Holders
  <2>1. Registration(o) = 0
    BY <1>2 DEF Registration, IsRegistered
  <2>2. Holders(o) = {}
    BY <1>3, LifeAssumption DEF Holders
  <2>3. Cardinality({}) = 0 /\ refs[o] = 0
    BY FS_EmptySet DEF LifeInit
  <2> QED
    BY <2>1, <2>2, <2>3
<1> QED
  BY <1>1, <1>4, <1>5, <1>6 DEF LifeInv

\* The inductive invariant, in every order of opens, releases, registrations
\* and unregistrations; drivers with an id in common take turns.
THEOREM LifeInvariance ==
  ASSUME Serialised
  PROVE  LifeSpec => [](IInv /\ LifeInv)
<1>1. LifeInit => IInv /\ LifeInv
  BY LifeInitInv
<1>2. (IInv /\ LifeInv) /\ [LifeNext]_lifeVars => (IInv /\ LifeInv)'
  <2> SUFFICES ASSUME IInv, LifeInv, [LifeNext]_lifeVars PROVE IInv' /\ LifeInv'
    OBVIOUS
  <2>1. IInv'
    BY LifeIsRegistry, InvStep
  <2>2. LifeTypeOK' /\ ObjectThere' /\ ClosedIsIdle'
    BY <2>1, LifeTypeStep, ThereStep, ClosedStep DEF LifeInv
  <2>3. OneSlot' /\ ReferencesExact'
    BY OneSlotStep, ReferencesStep DEF LifeInv
  <2> QED
    BY <2>1, <2>2, <2>3 DEF LifeInv
<1> QED
  BY <1>1, <1>2, PTL DEF LifeSpec

\* The references on a device object are exactly those of its registration and
\* of the files opened on it, however often its slot is registered again under
\* open files, until a release is mistaken about it: only the release of a file
\* whose slot points to another object than when it was opened ever breaks the
\* count (chrdev_irq.c:206, :217, :279, :351).
THEOREM ReferencesAddUp ==
  ASSUME Serialised
  PROVE  LifeSpec => []ReferencesExact
BY LifeInvariance, PTL DEF LifeInv
=============================================================================
