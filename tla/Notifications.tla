--------------------------- MODULE Notifications ---------------------------
(***************************************************************************)
(* What the device promises an application that asks to be notified: a     *)
(* request waits until it is told of an event, with a number no other      *)
(* request is ever told, or until it is given back without one. Nothing is *)
(* told to a request that does not wait.                                   *)
(***************************************************************************)
EXTENDS Naturals

CONSTANT Requests

VARIABLES
  waiting, \* requests not yet answered
  told     \* the number each request was told, 0 for none

vars == <<waiting, told>>

Init == waiting = {} /\ told = [r \in Requests |-> 0]

Ask(r) ==
  /\ r \notin waiting /\ told[r] = 0
  /\ waiting' = waiting \cup {r}
  /\ UNCHANGED told

Tell(r) ==
  /\ r \in waiting
  /\ told' = [told EXCEPT ![r] = told'[r]]
  /\ told'[r] \in Nat \ {0}
  /\ \A s \in Requests : told[s] # told'[r]
  /\ waiting' = waiting \ {r}

GiveBack(r) ==
  /\ r \in waiting
  /\ waiting' = waiting \ {r}
  /\ UNCHANGED told

Next == \E r \in Requests : Ask(r) \/ Tell(r) \/ GiveBack(r)

Spec == Init /\ [][Next]_vars
=============================================================================
