------------------------------- MODULE PortTable -------------------------------
(****************************************************************************)
(* What ports.json promises about the apps of a server, with no file, no    *)
(* actor and no listener in it: an app is given a port of the pool that no  *)
(* other app has, once, keeps it as long as it is there, and gives it back  *)
(* in the step that removes it.  An app that comes back starts without one. *)
(*                                                                          *)
(* PortRegistry implements this table when its writers do not overlap.      *)
(****************************************************************************)
CONSTANTS
  Slots,      \* app names
  Pool,       \* host ports
  Unassigned  \* no port yet

VARIABLES apps, portOf

table == <<apps, portOf>>

Init ==
  /\ apps = {}
  /\ portOf = [s \in Slots |-> Unassigned]

Add(s) ==
  /\ s \notin apps
  /\ apps' = apps \cup {s}
  /\ UNCHANGED portOf

Remove(s) ==
  /\ s \in apps
  /\ apps' = apps \ {s}
  /\ portOf' = [portOf EXCEPT ![s] = Unassigned]

Give(s, p) ==
  /\ s \in apps
  /\ portOf[s] = Unassigned
  /\ \A t \in Slots : portOf[t] # p
  /\ portOf' = [portOf EXCEPT ![s] = p]
  /\ UNCHANGED apps

Next == \E s \in Slots :
  \/ Add(s)
  \/ Remove(s)
  \/ \E p \in Pool : Give(s, p)

Spec == Init /\ [][Next]_table
===============================================================================
