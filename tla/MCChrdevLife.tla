---------------------------- MODULE MCChrdevLife ----------------------------
(* Instances of ChrdevLife for TLC. *)
EXTENDS ChrdevLife, TLC

CONSTANTS p1

\* One device of chrdev_irq.c, bound and unbound again and again.
Single == p1 :> <<[id |-> 0, label |-> "eeprom", complete |-> TRUE]>>
=============================================================================
