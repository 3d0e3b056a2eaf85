-------------------------- MODULE MCChrdevRegistry --------------------------
(* Two scenes of ChrdevRegistry for TLC in one run: which of the platform   *)
(* devices exist differs, the others are never probed.                     *)
EXTENDS ChrdevRegistry, TLC

CONSTANTS p1, p2, p3, p4, p5, p6

VARIABLE scene  \* the platform devices there are

Child(i, name) == [id |-> i, label |-> name, complete |-> TRUE]
Incomplete(i) == [id |-> i, label |-> Null, complete |-> FALSE]

\* All of them want id 0, which a fixed device always has; the one with child
\* nodes has a node out of range too, and another after it.
Shared ==
  p1 :> <<Child(0, "eeprom"), Child(3, "none"), Child(1, "rom")>>
  @@ p2 :> <<Child(0, "chrdev-fw")>>
  @@ p3 :> <<Child(0, "cdev-fixed")>>

\* Two slots, worked on at the same time: p4, which has a node without a label
\* too, has one to itself; the others share one, and a label does not fit.
Parallel ==
  p4 :> <<Child(0, "flash"), Incomplete(0)>>
  @@ p5 :> <<Child(1, "long")>>
  @@ p6 :> <<Child(1, "ram")>>

Platform == Shared @@ Parallel

SceneInit == Init /\ scene \in {DOMAIN Shared, DOMAIN Parallel}

SceneNext ==
  Next /\ UNCHANGED scene /\ \A p \in Drivers \ scene : ppc'[p] = "unbound"

SceneSpec == SceneInit /\ [][SceneNext]_<<vars, scene>>

BufSymmetry == Permutations(Bufs)
=============================================================================
