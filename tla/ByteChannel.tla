---------------------------- MODULE ByteChannel ----------------------------
(***************************************************************************)
(* What the proxy promises one end of a connection: the bytes the other    *)
(* end sent arrive unchanged and in order, and all of them, unless the     *)
(* connection breaks.                                                      *)
(***************************************************************************)
EXTENDS Naturals, Sequences

CONSTANT Input \* the bytes one end sends

VARIABLES
  out,  \* the bytes the other end has received
  open  \* FALSE once the connection is broken

vars == <<out, open>>

Init == out = <<>> /\ open = TRUE

Deliver ==
  /\ \E n \in Len(out) + 1 .. Len(Input) : out' = SubSeq(Input, 1, n)
  /\ UNCHANGED open

Break == open' = FALSE /\ UNCHANGED out

Next == Deliver \/ Break

Safe == Init /\ [][Next]_vars

Spec == Safe /\ WF_vars(open /\ Deliver)
=============================================================================
