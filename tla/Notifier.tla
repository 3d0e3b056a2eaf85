------------------------------ MODULE Notifier ------------------------------
(***************************************************************************)
(* The notifier module of Chapter05: its init puts a handler on the chain  *)
(* of network devices and one on the reboot chain and takes the first off  *)
(* if the second fails, its exit takes both off.  The kernel calls the     *)
(* handlers of one chain one at a time, but those of the two chains at the *)
(* same time; it also calls a network handler for every known device while *)
(* it registers or unregisters it.  Both count in one variable.            *)
(***************************************************************************)
EXTENDS Integers, FiniteSets

CONSTANT
  MAX_EVENTS     \* bound: events while the module is loaded

ASSUME NotifierAssumption == MAX_EVENTS \in Nat

Chains == {"netdevice", "reboot"}

VARIABLES
  pc,            \* "out", "in", or the next call of init or exit
  registered,    \* the chains that have the handler
  handler,       \* handler[c]: "idle", "load" or "store"
  local,         \* the value a handler has loaded
  ninfo_data,
  \* history
  events,        \* calls of the handlers
  raced          \* two handlers were between load and store together

handlerVars == <<handler, local, ninfo_data, events, raced>>
notifierVars == <<pc, registered, handlerVars>>

NotifierInit ==
  /\ pc = "out" /\ registered = {}
  /\ handler = [c \in Chains |-> "idle"] /\ local = [c \in Chains |-> 0]
  /\ ninfo_data = 0 /\ events = 0 /\ raced = FALSE

Go(from, to) == pc = from /\ pc' = to

-----------------------------------------------------------------------------
\* insmod: the data of the module is fresh.
Load ==
  /\ Go("out", "netdevice")
  /\ ninfo_data' = 0 /\ events' = 0 /\ raced' = FALSE
  /\ UNCHANGED <<registered, handler, local>>

RegisterNetdevice ==
  /\ \/ Go("netdevice", "reboot") /\ registered' = registered \cup {"netdevice"}
     \/ Go("netdevice", "out") /\ UNCHANGED registered
  /\ UNCHANGED handlerVars

RegisterReboot_NoUndo ==
  /\ \/ Go("reboot", "in") /\ registered' = registered \cup {"reboot"}
     \/ Go("reboot", "out") /\ UNCHANGED registered
  /\ UNCHANGED handlerVars

RegisterReboot ==
  /\ \/ Go("reboot", "in") /\ registered' = registered \cup {"reboot"}
     \/ Go("reboot", "undo") /\ UNCHANGED registered
  /\ UNCHANGED handlerVars

\* Unregistering waits for the chain's calls to end.
Unregister(c) == handler[c] = "idle" /\ registered' = registered \ {c}

UndoNetdevice ==
  /\ Go("undo", "out") /\ Unregister("netdevice")
  /\ UNCHANGED handlerVars

ExitNetdevice ==
  /\ Go("in", "exit") /\ Unregister("netdevice")
  /\ UNCHANGED handlerVars

ExitReboot ==
  /\ Go("exit", "out") /\ Unregister("reboot")
  /\ UNCHANGED handlerVars

-----------------------------------------------------------------------------
(* netdevice_notifier and reboot_notifier: ninfo->data++ *)

Notify(c) ==
  /\ c \in registered /\ handler[c] = "idle"
  /\ events < MAX_EVENTS /\ events' = events + 1
  /\ handler' = [handler EXCEPT ![c] = "load"]
  /\ UNCHANGED <<pc, registered, local, ninfo_data, raced>>

HandlerLoad(c) ==
  /\ handler[c] = "load" /\ handler' = [handler EXCEPT ![c] = "store"]
  /\ local' = [local EXCEPT ![c] = ninfo_data]
  /\ raced' = (raced \/ \E o \in Chains : handler[o] = "store")
  /\ UNCHANGED <<pc, registered, ninfo_data, events>>

HandlerStore_Old(c) ==
  /\ handler[c] = "store" /\ handler' = [handler EXCEPT ![c] = "idle"]
  /\ ninfo_data' = local[c]
  /\ local' = [local EXCEPT ![c] = 0]
  /\ UNCHANGED <<pc, registered, events, raced>>

HandlerStore(c) ==
  /\ handler[c] = "store" /\ handler' = [handler EXCEPT ![c] = "idle"]
  /\ ninfo_data' = local[c] + 1
  /\ local' = [local EXCEPT ![c] = 0]
  /\ UNCHANGED <<pc, registered, events, raced>>

-----------------------------------------------------------------------------
NotifierNext ==
  \/ Load \/ RegisterNetdevice \/ RegisterReboot \/ UndoNetdevice
  \/ ExitNetdevice \/ ExitReboot
  \/ \E c \in Chains : Notify(c) \/ HandlerLoad(c) \/ HandlerStore(c)

NotifierSpec == NotifierInit /\ [][NotifierNext]_notifierVars

-----------------------------------------------------------------------------
(* Properties *)

\* When the module is not loaded, also because its init failed half way, the
\* kernel has no pointer to its code and is not in it (notifier.c:54-91).
NoneLeft ==
  pc = "out" => registered = {} /\ \A c \in Chains : handler[c] = "idle"

Running == {c \in Chains : handler[c] # "idle"}

\* Every event gets a number of its own, unless the handlers of the two chains
\* run into each other in data++, which no lock covers; a number is never
\* skipped (notifier.c:32, :44).
EventsNumbered ==
  /\ ninfo_data <= events
  /\ ~raced => ninfo_data + Cardinality(Running) = events
=============================================================================
