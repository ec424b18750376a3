--------------------------- MODULE MCInterception ---------------------------
(* Interception with one application and two instances of the service, for *)
(* TLC.                                                                    *)
EXTENDS Interception
=============================================================================
