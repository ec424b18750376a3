---------------------------- MODULE MCIoctlDevice ----------------------------
(* IoctlDevice on a few requests, for TLC.                                 *)
EXTENDS IoctlDevice

CONSTANT Events \* the requests that simulate an event

(* The bound on each kind. Requests of one kind differ in nothing but      *)
(* their order, which is that of their numbers.                            *)
KindsInOrder ==
  \A r \in Requests :
    /\ pc[r] = "switch" => pc'[r] = "switch" \/ (r \in Events <=> pc'[r] = "retrieve")
    /\ pc[r] = "unsent" /\ pc'[r] # "unsent" =>
         \A q \in Requests : q < r /\ (q \in Events <=> r \in Events) => pc[q] # "unsent"
=============================================================================
