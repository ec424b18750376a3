---------------------------- MODULE Redirection ----------------------------
(***************************************************************************)
(* What redirection promises an application. Its connection is under way   *)
(* once at a time: it arrives, at the destination the application named,   *)
(* or it fails, and after either nothing more is done for it. On its way   *)
(* it passes a proxy, once; more often only if a proxy that carried it on  *)
(* was displaced, that is, is no longer the one the driver knows.          *)
(***************************************************************************)
EXTENDS Naturals

CONSTANTS Apps, Instances, MaxHops, NoProcess

VARIABLES
  journey,  \* of each application's connection: none, underway, arrived, failed
  reached,  \* the destinations it has arrived at
  proxy,    \* the n-th proxy it passed, NoProcess if it passed less
  displaced \* the proxies that were displaced

vars == <<journey, reached, proxy, displaced>>

Init ==
  /\ journey = [a \in Apps |-> "none"]
  /\ reached = [a \in Apps |-> {}]
  /\ proxy = [p \in Apps \X (0 .. MaxHops) |-> NoProcess]
  /\ displaced = {}

(* It may be refused at once.                                              *)
SetOut(a) ==
  /\ journey[a] = "none"
  /\ \E j \in {"underway", "failed"} : journey' = [journey EXCEPT ![a] = j]
  /\ UNCHANGED <<reached, proxy, displaced>>

Pass(a, n, i) ==
  /\ journey[a] = "underway"
  /\ proxy[<<a, n>>] = NoProcess
  /\ n > 0 => proxy[<<a, n - 1>>] \in displaced
  /\ proxy' = [proxy EXCEPT ![<<a, n>>] = i]
  /\ UNCHANGED <<journey, reached, displaced>>

Arrive(a) ==
  /\ journey[a] = "underway"
  /\ journey' = [journey EXCEPT ![a] = "arrived"]
  /\ reached' = [reached EXCEPT ![a] = {a}]
  /\ UNCHANGED <<proxy, displaced>>

Fail(a) ==
  /\ journey[a] = "underway"
  /\ journey' = [journey EXCEPT ![a] = "failed"]
  /\ UNCHANGED <<reached, proxy, displaced>>

Displace(S) ==
  /\ displaced' = displaced \cup S
  /\ UNCHANGED <<journey, reached, proxy>>

Next ==
  \/ \E a \in Apps : SetOut(a) \/ Arrive(a) \/ Fail(a)
  \/ \E a \in Apps, n \in 0 .. MaxHops, i \in Instances : Pass(a, n, i)
  \/ \E S \in SUBSET Instances : Displace(S)

Spec == Init /\ [][Next]_vars
=============================================================================
