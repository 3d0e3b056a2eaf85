--------------------------- MODULE MCSmallModules ---------------------------
(* One run of TLC for Containers, Notifier, ChrdevTest and IrqTest, which  *)
(* share nothing: one of them runs.                                        *)
EXTENDS Containers, Notifier, ChrdevTest, IrqTest

VARIABLE which

vars == <<which, containersVars, notifierVars, testVars, irqVars>>

Init ==
  /\ which \in {"containers", "notifier", "test", "irqtest"}
  /\ ContainersInit /\ NotifierInit /\ TestInit /\ IrqInit
  /\ which # "test" =>
       device = "legacy" /\ program = [u \in Users |-> "as_is"]
  /\ which # "irqtest" => kind = "plain"

Next ==
  \/ /\ which = "containers" /\ ContainersNext
     /\ UNCHANGED <<which, notifierVars, testVars, irqVars>>
  \/ /\ which = "notifier" /\ NotifierNext
     /\ UNCHANGED <<which, containersVars, testVars, irqVars>>
  \/ /\ which = "test" /\ TestNext
     /\ UNCHANGED <<which, containersVars, notifierVars, irqVars>>
  \/ /\ which = "irqtest" /\ IrqNext
     /\ UNCHANGED <<which, containersVars, notifierVars, testVars>>

\* A user's program that has been started goes on; for the driver see IrqTest
\* (none of its fair actions is enabled while another module runs).
Fairness ==
  /\ \A u \in Users :
       WF_vars(/\ which = "test" /\ TestStep(u)
               /\ UNCHANGED <<which, containersVars, notifierVars, irqVars>>)
  /\ IrqFairness

Spec == Init /\ [][Next]_vars /\ Fairness

\* Odd, even and negative.
Signed == {-1, 2, 5}

Word == <<1, 2>>
=============================================================================
