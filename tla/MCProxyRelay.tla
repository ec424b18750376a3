---------------------------- MODULE MCProxyRelay ----------------------------
(* ProxyRelay on small sets, for TLC.                                      *)
EXTENDS ProxyRelay, TLC

(* The workers are interchangeable.                                        *)
Symmetry == Permutations(Workers)

(* Bounds. Mistaking a send for a receive posts one more of each, so that  *)
(* the mistakes could go on without end. After one a run goes on while     *)
(* nobody stops the process and no end leaves ...                          *)
QuietAfterMistake ==
  mistyped = {} \/ (~shutdown /\ \A c \in Contexts : sock[c] = "open")

(* ... and with no further data and no second mistake.                     *)
OneMistake ==
  mistyped # {} =>
    \A c \in Contexts :
      /\ port'[Done(RecvOp(c), TRUE)] <= port[Done(RecvOp(c), TRUE)]
      /\ \A w \in Workers : wpkt[w] = Done(SendOp(c), TRUE) => wpc'[w] # "forward"
=============================================================================
