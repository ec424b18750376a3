-------------------------- MODULE ConnectionRelay --------------------------
(***************************************************************************)
(* What the proxy promises the connections that are redirected to it. A    *)
(* connection has two ends, its client and the server the client asked     *)
(* for, and a direction for each: what is read from that end and passed on *)
(* to the other one.                                                       *)
(*                                                                         *)
(* Connections are taken one at a time: there is one at most whose server  *)
(* is not there yet. A direction reads one chunk at a time and passes it   *)
(* on once, to the other end of the same connection, while both ends live. *)
(* A direction that loses a chunk has ended: no later chunk overtakes one  *)
(* that was lost. A server is never closed under its client.               *)
(*                                                                         *)
(* A connection may be spoiled, together with others or alone. From then   *)
(* on anything may become of its directions. Its ends still live in turn,  *)
(* and no other connection is touched.                                     *)
(***************************************************************************)
EXTENDS Naturals

CONSTANT Connections

Ends == Connections \X {"local", "proxy"}

Client(k) == <<k, "local">>
Server(k) == <<k, "proxy">>

Other(e) == IF e[2] = "local" THEN Server(e[1]) ELSE Client(e[1])

Stages == {"new", "reading", "holding", "ended"}

VARIABLES
  end,       \* each end: not yet made, live, or dead
  direction, \* what is read from each end: new, reading, holding a chunk, ended
  sends,     \* chunks given to each end that it has not finished
  spoiled    \* the spoiled connections

vars == <<end, direction, sends, spoiled>>

Init ==
  /\ end = [e \in Ends |-> "none"]
  /\ direction = [e \in Ends |-> "new"]
  /\ sends = [e \in Ends |-> 0]
  /\ spoiled = {}

(* k's client is there and its server is not.                              *)
HalfMade(k) == end[Client(k)] = "live" /\ end[Server(k)] = "none"

Accept(k) ==
  /\ end[Client(k)] = "none"
  /\ \A j \in Connections \ spoiled : ~HalfMade(j)
  /\ end' = [end EXCEPT ![Client(k)] = "live"]
  /\ UNCHANGED <<direction, sends, spoiled>>

Connect(k) ==
  /\ HalfMade(k)
  /\ end' = [end EXCEPT ![Server(k)] = "live"]
  /\ UNCHANGED <<direction, sends, spoiled>>

(* The client's direction starts first.                                    *)
Start(e) ==
  /\ end[e] = "live" /\ end[Other(e)] = "live"
  /\ direction[e] = "new"
  /\ e = Server(e[1]) => direction[Other(e)] # "new"
  /\ direction' = [direction EXCEPT ![e] = "reading"]
  /\ UNCHANGED <<end, sends, spoiled>>

Read(e) ==
  /\ end[e] = "live"
  /\ direction[e] = "reading"
  /\ direction' = [direction EXCEPT ![e] = "holding"]
  /\ UNCHANGED <<end, sends, spoiled>>

Pass(e) ==
  /\ end[e] = "live" /\ end[Other(e)] = "live"
  /\ direction[e] = "holding"
  /\ direction' = [direction EXCEPT ![e] = "reading"]
  /\ sends' = [sends EXCEPT ![Other(e)] = @ + 1]
  /\ UNCHANGED <<end, spoiled>>

Finish(e) ==
  /\ sends[e] > 0
  /\ sends' = [sends EXCEPT ![e] = @ - 1]
  /\ UNCHANGED <<end, direction, spoiled>>

(* Directions of one connection end, with a chunk in hand or without.      *)
Stop(S) ==
  /\ \A e \in S : direction[e] # "ended"
  /\ direction' = [e \in Ends |-> IF e \in S THEN "ended" ELSE direction[e]]
  /\ UNCHANGED <<end, sends, spoiled>>

Close(S) ==
  /\ \A e \in S : end[e] = "live"
  /\ \A e \in S : e = Server(e[1]) => Other(e) \in S \/ end[Other(e)] = "dead"
  /\ end' = [e \in Ends |-> IF e \in S THEN "dead" ELSE end[e]]
  /\ UNCHANGED <<direction, sends, spoiled>>

(* The connections of K are spoiled, and what is of spoiled ones changes.  *)
Stray(K) ==
  /\ spoiled' = spoiled \cup K
  /\ direction' \in [Ends -> Stages] /\ sends' \in [Ends -> Nat]
  /\ \A e \in Ends : e[1] \notin spoiled' =>
       direction'[e] = direction[e] /\ sends'[e] = sends[e]
  /\ UNCHANGED end

Next ==
  \/ \E k \in Connections : Accept(k) \/ Connect(k) \/ Stop({Client(k), Server(k)})
  \/ \E e \in Ends : Start(e) \/ Read(e) \/ Pass(e) \/ Finish(e) \/ Stop({e})
  \/ \E S \in SUBSET Ends : Close(S)
  \/ \E K \in SUBSET Connections : Stray(K)

Spec == Init /\ [][Next]_vars
=============================================================================
