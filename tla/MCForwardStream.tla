-------------------------- MODULE MCForwardStream --------------------------
(* ForwardStream for TLC, with streams a .cfg cannot write down.           *)
EXTENDS ForwardStream

(* Bytes that are all different and none of them zero.                     *)
Text == <<1, 2, 3, 4, 5>>

(* A stream with a zero byte inside.                                       *)
Binary == <<1, 0, 3, 4>>
=============================================================================
