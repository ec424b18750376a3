----------------------- MODULE ProxyRelayReceiveProofs ----------------------
(***************************************************************************)
(* Proofs about the receives of ProxyRelay, whatever the completion keys   *)
(* and the types of the operations are read as, and about the null packets *)
(* of the shutdown.                                                        *)
(***************************************************************************)
EXTENDS ProxyRelayProofs

-----------------------------------------------------------------------------
(* How the steps move an operation between the kernel, the port and the    *)
(* workers.                                                                *)

(* The count of outstanding operations is a natural number.                *)
LEMMA OutstandingType ==
  ASSUME TypeOK, NEW o \in Overlapped
  PROVE  /\ Done(o, TRUE) \in Packets /\ Done(o, FALSE) \in Packets
         /\ pending[o] \in Nat /\ port[Done(o, TRUE)] \in Nat /\ port[Done(o, FALSE)] \in Nat
         /\ Outstanding(o) \in Nat
<1>1. Done(o, TRUE) \in Packets /\ Done(o, FALSE) \in Packets
  BY DEF Done, Packets
<1>2. pending[o] \in Nat /\ port[Done(o, TRUE)] \in Nat /\ port[Done(o, FALSE)] \in Nat
  BY <1>1 DEF TypeOK, Done
<1> QED
  BY <1>1, <1>2 DEF Outstanding, Done

(* Post adds one outstanding operation to the OVERLAPPED it uses and none  *)
(* to another.                                                             *)
LEMMA PostAdds ==
  ASSUME TypeOK, NEW o \in Overlapped, Post(o), port' = port
  PROVE  \A q \in Overlapped :
           Outstanding(q)' = IF q = o THEN Outstanding(q) + 1 ELSE Outstanding(q)
<1> SUFFICES ASSUME NEW q \in Overlapped
             PROVE  Outstanding(q)' = IF q = o THEN Outstanding(q) + 1 ELSE Outstanding(q)
  OBVIOUS
<1>1. pending'[q] = IF q = o THEN pending[q] + 1 ELSE pending[q]
  BY DEF Post, TypeOK
<1> QED
  BY <1>1, OutstandingType DEF Outstanding, Done

(* So does a worker's call, torn or not.                                   *)
LEMMA PostOrTearAdds ==
  ASSUME TypeOK, NEW o \in Overlapped, NEW w \in Workers, PostOrTear(w, o)
  PROVE  \A q \in Overlapped :
           Outstanding(q)' = IF q = o THEN Outstanding(q) + 1 ELSE Outstanding(q)
<1>1. CASE Post(o) /\ UNCHANGED port
  BY <1>1, PostAdds
<1>2. CASE UNCHANGED pending /\ port' = [port EXCEPT ![Done(o, FALSE)] = @ + 1]
  <2> SUFFICES ASSUME NEW q \in Overlapped
               PROVE  Outstanding(q)' = IF q = o THEN Outstanding(q) + 1 ELSE Outstanding(q)
    OBVIOUS
  <2>1. Done(q, TRUE) # Done(o, FALSE) /\ (Done(q, FALSE) = Done(o, FALSE) <=> q = o)
    BY DEF Done
  <2>2. /\ port'[Done(q, TRUE)] = port[Done(q, TRUE)]
        /\ port'[Done(q, FALSE)] = IF q = o THEN port[Done(q, FALSE)] + 1
                                            ELSE port[Done(q, FALSE)]
    BY <1>2, <2>1, OutstandingType DEF TypeOK, Done
  <2> QED
    BY <1>2, <2>2, OutstandingType DEF Outstanding, Done
<1> QED
  BY <1>1, <1>2 DEF PostOrTear

(* A completion moves an operation from the kernel to the port: the count  *)
(* of outstanding operations stays.                                        *)
LEMMA CompleteMoves ==
  ASSUME TypeOK, NEW o \in Overlapped, NEW ok \in BOOLEAN, Complete(o, ok)
  PROVE  \A q \in Overlapped : Outstanding(q)' = Outstanding(q)
<1> SUFFICES ASSUME NEW q \in Overlapped
             PROVE  Outstanding(q)' = Outstanding(q)
  OBVIOUS
<1>1. pending' = [pending EXCEPT ![o] = @ - 1] /\ port' = [port EXCEPT ![Done(o, ok)] = @ + 1]
  BY DEF Complete
<1>2. pending'[q] = IF q = o THEN pending[q] - 1 ELSE pending[q]
  BY <1>1 DEF TypeOK, Done
<1>3. /\ Done(q, TRUE) = Done(o, ok) <=> q = o /\ ok = TRUE
      /\ Done(q, FALSE) = Done(o, ok) <=> q = o /\ ok = FALSE
  BY DEF Done
<1>4. /\ port'[Done(q, TRUE)] = IF Done(q, TRUE) = Done(o, ok)
                                THEN port[Done(q, TRUE)] + 1 ELSE port[Done(q, TRUE)]
      /\ port'[Done(q, FALSE)] = IF Done(q, FALSE) = Done(o, ok)
                                 THEN port[Done(q, FALSE)] + 1 ELSE port[Done(q, FALSE)]
  BY <1>1, OutstandingType DEF TypeOK, Done
<1>5. CASE ok = TRUE
  BY <1>2, <1>3, <1>4, <1>5, OutstandingType DEF Outstanding, Done
<1>6. CASE ok = FALSE
  BY <1>2, <1>3, <1>4, <1>6, OutstandingType DEF Outstanding, Done
<1> QED
  BY <1>5, <1>6

(* A worker that takes a packet removes one outstanding operation of that  *)
(* packet's OVERLAPPED.                                                    *)
LEMMA TakeRemoves ==
  ASSUME TypeOK, NEW w \in Workers, NEW p \in Packets, TakePacket(w, p)
  PROVE  /\ p.op \in Overlapped /\ Outstanding(p.op) >= 1
         /\ \A q \in Overlapped :
              Outstanding(q)' = IF q = p.op THEN Outstanding(q) - 1 ELSE Outstanding(q)
<1>1. PICK o \in Overlapped, ok \in BOOLEAN : p = Done(o, ok)
  BY DEF Packets, Done
<1>2. p.op = o
  BY <1>1 DEF Done
<1>3. pending' = pending /\ port' = [port EXCEPT ![p] = @ - 1] /\ port[p] > 0
  BY DEF TakePacket
<1>4. Outstanding(o) >= 1
  <2>1. CASE ok = TRUE
    BY <1>1, <1>3, <2>1, OutstandingType DEF Outstanding, Done
  <2>2. CASE ok = FALSE
    <3>1. p = Done(o, FALSE)
      BY <1>1, <2>2
    <3> QED
      BY <1>3, <3>1, OutstandingType DEF Outstanding, Done
  <2> QED
    BY <2>1, <2>2
<1>5. ASSUME NEW q \in Overlapped
      PROVE  Outstanding(q)' = IF q = o THEN Outstanding(q) - 1 ELSE Outstanding(q)
  <2>1. /\ Done(q, TRUE) = p <=> q = o /\ ok = TRUE
        /\ Done(q, FALSE) = p <=> q = o /\ ok = FALSE
    BY <1>1 DEF Done
  <2>2. /\ port'[Done(q, TRUE)] = IF Done(q, TRUE) = p
                                  THEN port[Done(q, TRUE)] - 1 ELSE port[Done(q, TRUE)]
        /\ port'[Done(q, FALSE)] = IF Done(q, FALSE) = p
                                   THEN port[Done(q, FALSE)] - 1 ELSE port[Done(q, FALSE)]
    BY <1>3, OutstandingType DEF TypeOK, Done
  <2>3. CASE ok = TRUE
    BY <1>3, <2>1, <2>2, <2>3, OutstandingType DEF Outstanding, Done
  <2>4. CASE ok = FALSE
    BY <1>3, <2>1, <2>2, <2>4, OutstandingType DEF Outstanding, Done
  <2> QED
    BY <2>3, <2>4
<1> QED
  BY <1>2, <1>4, <1>5

-----------------------------------------------------------------------------
(* One receive per context, and one for every listed context.              *)

Idle(c) == Outstanding(RecvOp(c)) = 0 /\ \A w \in Workers : ~Receiving(w, c)

(* w is about to take c off the list.                                      *)
Removing(w, c) == wpc[w] \in {"unsent", "remove"} /\ wctx[w] = c

(* Before the accept thread posts c's first receive there is none, unless  *)
(* a worker has made one of the two mistakes on this connection.           *)
FirstReceiveIsFirst ==
  \A c \in Contexts : c[1] \notin Spoiled /\ BeforeFirstReceive(c) => Idle(c)

ReceiveInv == OneReceivePerContext /\ ListedHasReceive /\ FirstReceiveIsFirst

(* A context that was not made has no receive.                             *)
LEMMA UnmadeIsIdle ==
  ASSUME TypeOK, OwnershipInv, NEW c \in Contexts, life[c] = "none"
  PROVE  Idle(c)
<1>1. Outstanding(RecvOp(c)) = 0
  BY Operations, OutstandingType DEF OwnershipInv, IoOfMade, Outstanding, Done
<1>2. ASSUME NEW w \in Workers, Receiving(w, c)
      PROVE  FALSE
  <2>1. CASE wpc[w] = "deref" /\ wpkt[w].op = RecvOp(c)
    BY <2>1, Operations DEF OwnershipInv, IoOfMade
  <2>2. CASE wctx[w] = c
    BY <2>2 DEF OwnershipInv, HeldAreLive, Held
  <2> QED
    BY <1>2, <2>1, <2>2 DEF Receiving
<1> QED
  BY <1>1, <1>2 DEF Idle

(* The receives are where they were.                                       *)
LEMMA ReceivesStay ==
  ASSUME ReceiveInv, UNCHANGED <<aconn, histVars>>, apc' = apc \/ (AcceptIdle /\ AcceptIdle'),
         list' \subseteq list, list \subseteq Contexts,
         \A c \in Contexts : Outstanding(RecvOp(c))' = Outstanding(RecvOp(c)),
         \A c \in Contexts, w \in Workers :
           /\ Receiving(w, c)' <=> Receiving(w, c)
           /\ c \in list' /\ Removing(w, c) => Removing(w, c)'
  PROVE  ReceiveInv'
<1> USE DEF Spoiled, histVars, Removing
<1>1. OneReceivePerContext'
  BY DEF ReceiveInv, OneReceivePerContext
<1>2. ListedHasReceive'
  <2> SUFFICES ASSUME NEW c \in list', c[1] \notin crossed
               PROVE  \/ Outstanding(RecvOp(c))' > 0 \/ AcceptOwes(c)'
                      \/ \E w \in Workers : Receiving(w, c)' \/ Removing(w, c)'
    BY DEF ListedHasReceive
  <2>1. AcceptOwes(c)' <=> AcceptOwes(c)
    BY DEF AcceptOwes, AcceptIdle
  <2> QED
    BY <2>1 DEF ReceiveInv, ListedHasReceive
<1>3. FirstReceiveIsFirst'
  BY DEF ReceiveInv, FirstReceiveIsFirst, BeforeFirstReceive, Idle, AcceptIdle
<1> QED
  BY <1>1, <1>2, <1>3 DEF ReceiveInv

(* An accept step that posts nothing.                                      *)
LEMMA AcceptQuiet ==
  ASSUME TypeOK, ReceiveInv, UNCHANGED <<workerVars, ioVars>>,
         \A c \in Contexts : BeforeFirstReceive(c)' => BeforeFirstReceive(c) \/ Idle(c),
         \A c \in list' : AcceptOwes(c)' \/ (c \in list /\ ~AcceptOwes(c))
  PROVE  ReceiveInv'
<1> USE DEF workerVars, workVars, histVars, ioVars, Spoiled
<1>1. /\ \A c \in Contexts : Outstanding(RecvOp(c))' = Outstanding(RecvOp(c))
      /\ \A c \in Contexts, w \in Workers : Receiving(w, c)' <=> Receiving(w, c)
      /\ \A c \in Contexts : Idle(c)' <=> Idle(c)
  BY DEF Outstanding, Receiving, Idle
<1>2. OneReceivePerContext'
  BY <1>1 DEF ReceiveInv, OneReceivePerContext
<1>3. ListedHasReceive'
  <2> SUFFICES ASSUME NEW c \in list', c[1] \notin crossed, ~AcceptOwes(c)'
               PROVE  \/ Outstanding(RecvOp(c))' > 0
                      \/ \E w \in Workers : Receiving(w, c)' \/ Removing(w, c)'
    BY DEF ListedHasReceive, Removing
  <2>1. c \in list /\ ~AcceptOwes(c) /\ c \in Contexts
    BY DEF TypeOK
  <2> QED
    BY <1>1, <2>1 DEF ReceiveInv, ListedHasReceive, Removing
<1>4. FirstReceiveIsFirst'
  BY <1>1 DEF ReceiveInv, FirstReceiveIsFirst
<1> QED
  BY <1>2, <1>3, <1>4 DEF ReceiveInv

(* The steps of the accept thread keep the receive invariant.              *)
LEMMA AcceptReceives ==
  ASSUME TypeOK, OwnershipInv, ReceiveInv, Accept
  PROVE  ReceiveInv'
<1> USE DEF mainVars, objVars
<1>0. aconn \in Connections \/ apc \in {"off", "wait", "done"}
  BY DEF TypeOK
<1>1. CASE AcceptNothing
  BY <1>1, AcceptQuiet, LoopTestType DEF AcceptNothing, BeforeFirstReceive, AcceptOwes
<1>2. CASE \E k \in Connections : AcceptConnection(k)
  <2> PICK k \in Connections : AcceptConnection(k)
    BY <1>2
  <2>1. life[Local(k)] = "none" /\ life[Proxy(k)] = "none"
    BY DEF AcceptConnection, OwnershipInv, LifeShape
  <2>2. \A c \in Contexts : c[1] = k => Idle(c)
    BY <2>1, Pairing, UnmadeIsIdle
  <2> QED
    BY <2>2, AcceptQuiet DEF AcceptConnection, MakeContext, BeforeFirstReceive, AcceptOwes
<1>3. CASE InitRemoteConnection
  BY <1>3, AcceptQuiet DEF InitRemoteConnection, MakeContext, BeforeFirstReceive, AcceptOwes
<1>4. CASE InitRemoteConnectionFails
  BY <1>4, AcceptQuiet DEF InitRemoteConnectionFails, BeforeFirstReceive, AcceptOwes
<1>5. CASE AssociateWithIOCP
  BY <1>5, AcceptQuiet DEF AssociateWithIOCP, BeforeFirstReceive, AcceptOwes
<1>6. CASE AddToClientList
  BY <1>6, <1>0, Pairing, AcceptQuiet DEF AddToClientList, BeforeFirstReceive, AcceptOwes
<1>7. ASSUME NEW c \in Contexts, NEW next \in {"recvProxy", "return"},
             PostFirstRecv(c, next), aconn = c[1],
             IF c[2] = "local" THEN apc = "recvLocal" /\ next = "recvProxy"
                               ELSE apc = "recvProxy" /\ next = "return"
      PROVE  ReceiveInv'
  <2> USE DEF PostFirstRecv
  <2>1. CASE UNCHANGED pending /\ apc' = "abort"
    BY <1>7, <2>1, AcceptQuiet DEF BeforeFirstReceive, AcceptOwes, workerVars, ioVars,
       workVars
  <2>2. CASE Post(RecvOp(c)) /\ apc' = next
    <3>1. c[1] \notin Spoiled => Idle(c)
      BY <1>7, Pairing DEF ReceiveInv, FirstReceiveIsFirst, BeforeFirstReceive
    <3>2. \A d \in Contexts :
            Outstanding(RecvOp(d))' =
              IF d = c THEN Outstanding(RecvOp(d)) + 1 ELSE Outstanding(RecvOp(d))
      BY <1>7, <2>2, PostAdds, Operations
    <3>3. \A d \in Contexts, w \in Workers :
            (Receiving(w, d)' <=> Receiving(w, d)) /\ (Removing(w, d)' <=> Removing(w, d))
      BY <1>7 DEF Receiving, Removing, workerVars, workVars
    <3>4. UNCHANGED <<crossed, mistyped>> /\ Outstanding(RecvOp(c)) \in Nat
      BY <1>7, Operations, OutstandingType DEF workerVars, workVars, histVars
    <3>5. OneReceivePerContext'
      BY <3>1, <3>2, <3>3, <3>4 DEF ReceiveInv, OneReceivePerContext, Idle, Spoiled
    <3>6. ListedHasReceive'
      <4> SUFFICES ASSUME NEW d \in list', d[1] \notin crossed, d # c, ~AcceptOwes(d)'
                   PROVE  \/ Outstanding(RecvOp(d))' > 0
                          \/ \E w \in Workers : Receiving(w, d)' \/ Removing(w, d)'
        BY <3>2, <3>4, <1>7 DEF ListedHasReceive, TypeOK, Removing
      <4>1. d \in list /\ d \in Contexts
        BY <1>7 DEF TypeOK
      <4>2. ~AcceptOwes(d)
        BY <1>7, <2>2, <4>1, Pairing DEF AcceptOwes
      <4> QED
        BY <1>7, <3>2, <3>3, <4>1, <4>2 DEF ReceiveInv, ListedHasReceive, Removing
    <3>7. FirstReceiveIsFirst'
      <4> SUFFICES ASSUME NEW d \in Contexts, d[1] \notin Spoiled, BeforeFirstReceive(d)'
                   PROVE  Idle(d)'
        BY <3>4 DEF FirstReceiveIsFirst, Spoiled
      <4>1. d # c /\ BeforeFirstReceive(d)
        BY <1>7, <2>2 DEF BeforeFirstReceive
      <4> QED
        BY <3>2, <3>3, <4>1 DEF ReceiveInv, FirstReceiveIsFirst, Idle
    <3> QED
      BY <3>5, <3>6, <3>7 DEF ReceiveInv
  <2> QED
    BY <1>7, <2>1, <2>2
<1>8. CASE PostLocalRecv
  BY <1>7, <1>8, <1>0, Pairing DEF PostLocalRecv
<1>9. CASE PostProxyRecv
  BY <1>7, <1>9, <1>0, Pairing DEF PostProxyRecv
<1>10. CASE AcceptReturns
  BY <1>10, LoopTestType, AcceptQuiet DEF AcceptReturns, BeforeFirstReceive, AcceptOwes
<1>11. CASE CloseAccepted
  BY <1>11, AcceptQuiet DEF CloseAccepted, BeforeFirstReceive, AcceptOwes
<1>12. CASE DropLocal
  <2>1. \A c \in list' : c \in list /\ c # Local(aconn) /\ c \in Contexts
    BY <1>12 DEF DropLocal, AbortContext, TypeOK
  <2>2. \A c \in list' : AcceptOwes(c) => c = Proxy(aconn) /\ c[2] = "proxy"
    BY <1>12, <1>0, <2>1, Pairing DEF AcceptOwes, DropLocal
  <2> QED
    BY <1>12, <2>1, <2>2, AcceptQuiet DEF DropLocal, AbortContext, BeforeFirstReceive, AcceptOwes
<1>13. CASE DropProxy
  <2>1. \A c \in list' : c \in list /\ c # Proxy(aconn) /\ c \in Contexts
    BY <1>13 DEF DropProxy, AbortContext, TypeOK
  <2>2. \A c \in list' : ~AcceptOwes(c)
    BY <1>13, <1>0, <2>1, Pairing DEF AcceptOwes, DropProxy
  <2> QED
    BY <1>13, <2>1, <2>2, LoopTestType, AcceptQuiet DEF DropProxy, AbortContext, BeforeFirstReceive
<1> QED
  BY <1>1, <1>2, <1>3, <1>4, <1>5, <1>6, <1>8, <1>9, <1>10, <1>11, <1>12, <1>13
  DEF Accept

(* The steps of a worker keep the receive invariant.                       *)
LEMMA WorkerReceives ==
  ASSUME TypeOK, OwnershipInv, ReceiveInv, NEW w \in Workers, Worker(w)
  PROVE  ReceiveInv'
<1> USE DEF mainVars, acceptVars, objVars
<1>0. list \subseteq Contexts /\ \A c \in Contexts : RecvOp(c) \in Overlapped
  BY Operations DEF TypeOK
<1>1. CASE TakeQuit(w)
  <2>1. \A c \in Contexts, v \in Workers :
          (Receiving(v, c)' <=> Receiving(v, c)) /\ (Removing(v, c) => Removing(v, c)')
    BY <1>1 DEF TakeQuit, Receiving, Removing, TypeOK, workVars
  <2> QED
    BY <1>0, <1>1, <2>1, ReceivesStay DEF TakeQuit, Outstanding, ioVars, workVars
<1>2. CASE \E p \in Packets : TakePacket(w, p)
  <2> PICK p \in Packets : TakePacket(w, p)
    BY <1>2
  <2>1. /\ p.op \in Overlapped /\ Outstanding(p.op) >= 1
        /\ \A q \in Overlapped :
             Outstanding(q)' = IF q = p.op THEN Outstanding(q) - 1 ELSE Outstanding(q)
    BY TakeRemoves
  <2>2. \A v \in Workers :
          /\ wpc'[v] = IF v = w THEN "deref" ELSE wpc[v]
          /\ wpkt'[v] = IF v = w THEN p ELSE wpkt[v]
          /\ wctx'[v] = wctx[v]
    BY DEF TakePacket, TypeOK
  <2>3. wpc[w] = "wait" /\ UNCHANGED <<crossed, mistyped>>
    BY DEF TakePacket, histVars
  <2>4. \A c \in Contexts, v \in Workers :
          Receiving(v, c)' <=> IF v = w THEN p.op = RecvOp(c) ELSE Receiving(v, c)
    BY <2>2 DEF Receiving
  <2>5. \A c \in Contexts : ~Receiving(w, c)
    BY <2>3 DEF Receiving
  <2>6. \A c \in Contexts : Outstanding(RecvOp(c)) \in Nat
    BY <1>0, OutstandingType
  <2>7. OneReceivePerContext'
    BY <1>0, <2>1, <2>3, <2>4, <2>5, <2>6 DEF ReceiveInv, OneReceivePerContext, Spoiled
  <2>8. ListedHasReceive'
    <3> SUFFICES ASSUME NEW c \in list, c[1] \notin crossed
                 PROVE  \/ Outstanding(RecvOp(c))' > 0 \/ AcceptOwes(c)'
                        \/ \E v \in Workers : Receiving(v, c)' \/ Removing(v, c)'
      BY <2>3 DEF ListedHasReceive, TakePacket, Removing
    <3>1. c \in Contexts
      BY <1>0
    <3>2. CASE p.op = RecvOp(c)
      BY <2>4, <3>1, <3>2
    <3>3. CASE p.op # RecvOp(c)
      BY <1>0, <2>1, <2>2, <2>3, <2>4, <2>5, <3>1, <3>3
      DEF ReceiveInv, ListedHasReceive, AcceptOwes, TakePacket, Removing
    <3> QED
      BY <3>2, <3>3
  <2>9. FirstReceiveIsFirst'
    <3> SUFFICES ASSUME NEW c \in Contexts, c[1] \notin Spoiled, BeforeFirstReceive(c)
                 PROVE  Idle(c)'
      BY <2>3 DEF FirstReceiveIsFirst, BeforeFirstReceive, TakePacket, Spoiled
    <3>1. Idle(c)
      BY DEF ReceiveInv, FirstReceiveIsFirst
    <3>2. p.op # RecvOp(c)
      BY <2>1, <3>1 DEF Idle
    <3> QED
      BY <1>0, <2>1, <2>4, <3>1, <3>2 DEF Idle
  <2> QED
    BY <2>7, <2>8, <2>9 DEF ReceiveInv
<1>3. CASE KeyFaults(w)
  BY <1>0, <1>3, ReceivesStay
  DEF KeyFaults, Outstanding, Receiving, Removing, workerVars, workVars, ioVars
<1>4. CASE ReadKey(w)
  <2>1. CASE UNCHANGED workerVars
    BY <1>0, <1>4, <2>1, ReceivesStay
    DEF ReadKey, Outstanding, Receiving, Removing, workerVars, workVars, ioVars
  <2>2. CASE ~UNCHANGED workerVars
    <3> DEFINE p == wpkt[w]
               e == wpkt[w].op.ctx
    <3>1. p \in Packets /\ p.op \in Overlapped /\ e \in Contexts /\ p.ok \in BOOLEAN
      BY <1>4, Operations DEF ReadKey, TypeOK
    <3> PICK c \in SlotContexts(e), t \in IoTypes(p.op) :
           /\ wctx' = [wctx EXCEPT ![w] = c]
           /\ wpkt' = [wpkt EXCEPT ![w] = None]
           /\ wpc' = [wpc EXCEPT ![w] = Dispatch(p.ok, t)]
           /\ crossed' = crossed \cup IF c # e THEN {c[1], e[1]} ELSE {}
           /\ mistyped' = mistyped \cup IF p.ok /\ t # p.op.type THEN {e[1]} ELSE {}
      BY <1>4, <2>2 DEF ReadKey, workerVars, workVars, histVars
    <3>2. wpc[w] = "deref"
      BY <1>4 DEF ReadKey
    <3>3. \A v \in Workers :
            /\ wpc'[v] = IF v = w THEN Dispatch(p.ok, t) ELSE wpc[v]
            /\ wctx'[v] = IF v = w THEN c ELSE wctx[v]
            /\ v # w => wpkt'[v] = wpkt[v]
      BY DEF TypeOK
    <3>4. /\ Dispatch(p.ok, t) \in {"forward", "remove", "drop"}
          /\ Dispatch(p.ok, t) = "forward" => p.ok /\ t = "OP_READ"
          /\ p.ok /\ p.op.type = "OP_READ" => Dispatch(p.ok, t) = "forward"
          /\ ~p.ok => Dispatch(p.ok, t) = "remove"
      <4>1. t \in {"OP_READ", "OP_WRITE"} /\ (p.op.type = "OP_READ" => t = "OP_READ")
        BY <3>1 DEF IoTypes, Overlapped
      <4> QED
        BY <3>1, <4>1 DEF Dispatch
    <3>5. p.op.type = "OP_READ" <=> p.op = RecvOp(e)
      BY <3>1 DEF Overlapped, RecvOp
    <3>6. \A d \in Contexts : p.op = RecvOp(d) => d = e
      BY <3>1, Operations
    <3>7. /\ Spoiled \subseteq Spoiled' /\ crossed \subseteq crossed'
          /\ e[1] \notin crossed' => c = e
          /\ c # e => c[1] \in crossed'
          /\ e[1] \notin Spoiled' => (p.ok => t = p.op.type)
      BY DEF Spoiled
    <3> HIDE DEF p, e
    <3>8. \A d \in Contexts, v \in Workers :
            d[1] \notin Spoiled' /\ Receiving(v, d)' => Receiving(v, d)
      <4> SUFFICES ASSUME NEW d \in Contexts, NEW v \in Workers, d[1] \notin Spoiled',
                          Receiving(v, d)'
                   PROVE  Receiving(v, d)
        OBVIOUS
      <4>1. CASE v # w
        BY <3>3, <4>1 DEF Receiving
      <4>2. CASE v = w
        <5>1. Dispatch(p.ok, t) = "forward" /\ d = c
          BY <3>3, <3>4, <4>2 DEF Receiving
        <5>2. c = e
          BY <3>7, <5>1 DEF Spoiled
        <5>3. p.op = RecvOp(e)
          BY <3>4, <3>5, <3>7, <5>1, <5>2
        <5> QED
          BY <3>2, <4>2, <5>1, <5>2, <5>3 DEF Receiving, p
      <4> QED
        BY <4>1, <4>2
    <3>9. \A d \in Contexts : Outstanding(RecvOp(d))' = Outstanding(RecvOp(d))
      BY <1>4 DEF ReadKey, Outstanding, ioVars
    <3>10. \A d \in Contexts, v \in Workers :
             d[1] \notin crossed' /\ Receiving(v, d) => Receiving(v, d)' \/ Removing(v, d)'
      <4> SUFFICES ASSUME NEW d \in Contexts, NEW v \in Workers, d[1] \notin crossed',
                          Receiving(v, d)
                   PROVE  Receiving(v, d)' \/ Removing(v, d)'
        OBVIOUS
      <4>1. CASE v # w
        BY <3>3, <4>1 DEF Receiving
      <4>2. CASE v = w
        <5>1. p.op = RecvOp(d)
          BY <3>2, <4>2 DEF Receiving, p
        <5>2. d = e /\ c = d
          BY <3>6, <3>7, <5>1
        <5>3. Dispatch(p.ok, t) \in {"forward", "remove"}
          BY <3>1, <3>4, <3>5, <5>1, <5>2
        <5> QED
          BY <3>3, <4>2, <5>2, <5>3 DEF Receiving, Removing
      <4> QED
        BY <4>1, <4>2
    <3>11. \A d \in Contexts, v \in Workers : Removing(v, d) => Removing(v, d)'
      BY <3>2, <3>3 DEF Removing
    <3>12. OneReceivePerContext'
      <4> SUFFICES ASSUME NEW d \in Contexts, d[1] \notin Spoiled'
                   PROVE  /\ Outstanding(RecvOp(d))' <= 1
                          /\ \A v \in Workers :
                               Receiving(v, d)' =>
                                 /\ Outstanding(RecvOp(d))' = 0
                                 /\ \A u \in Workers : Receiving(u, d)' => u = v
        BY DEF OneReceivePerContext
      <4> QED
        BY <3>7, <3>8, <3>9 DEF ReceiveInv, OneReceivePerContext
    <3>13. ListedHasReceive'
      <4> SUFFICES ASSUME NEW d \in list, d[1] \notin crossed'
                   PROVE  \/ Outstanding(RecvOp(d))' > 0 \/ AcceptOwes(d)'
                          \/ \E v \in Workers : Receiving(v, d)' \/ Removing(v, d)'
        BY <1>4 DEF ListedHasReceive, Removing, ReadKey
      <4>1. AcceptOwes(d)' <=> AcceptOwes(d)
        BY <1>4 DEF AcceptOwes, ReadKey
      <4> QED
        BY <1>0, <3>7, <3>9, <3>10, <3>11, <4>1 DEF ReceiveInv, ListedHasReceive, Removing
    <3>14. FirstReceiveIsFirst'
      <4> SUFFICES ASSUME NEW d \in Contexts, d[1] \notin Spoiled', BeforeFirstReceive(d)
                   PROVE  Idle(d)'
        BY <1>4 DEF FirstReceiveIsFirst, BeforeFirstReceive, ReadKey
      <4> QED
        BY <3>7, <3>8, <3>9 DEF ReceiveInv, FirstReceiveIsFirst, Idle
    <3> QED
      BY <3>12, <3>13, <3>14 DEF ReceiveInv
  <2> QED
    BY <2>1, <2>2
<1>5. ASSUME NEW s \in WorkerStates,
             wpc[w] \in {"forward", "send", "fill", "sent", "recv"},
             wpc' = [wpc EXCEPT ![w] = s],
             UNCHANGED <<apc, aconn, wpkt, wctx, list, crossed, mistyped>>,
             \/ /\ s \in {"send", "fill", "sent", "recv", "unsent", "remove"}
                /\ \A c \in Contexts : Outstanding(RecvOp(c))' = Outstanding(RecvOp(c))
             \/ /\ s = "drop"
                /\ \A c \in Contexts :
                     Outstanding(RecvOp(c))' =
                       IF c = wctx[w] THEN Outstanding(RecvOp(c)) + 1 ELSE Outstanding(RecvOp(c))
      PROVE  ReceiveInv'
  <2>1. wctx[w] \in Contexts /\ Receiving(w, wctx[w])
    BY <1>5 DEF TypeOK, Handling, Sending, Receiving
  <2>2. \A v \in Workers : wpc'[v] = IF v = w THEN s ELSE wpc[v]
    BY <1>5 DEF TypeOK
  <2>3. wctx[w][1] \notin Spoiled =>
          /\ Outstanding(RecvOp(wctx[w])) = 0
          /\ \A v \in Workers : Receiving(v, wctx[w]) => v = w
    BY <2>1 DEF ReceiveInv, OneReceivePerContext
  <2>4. \A d \in Contexts, v \in Workers : Receiving(v, d)' => Receiving(v, d)
    BY <1>5, <2>2 DEF Receiving
  <2>5. s = "drop" => \A d \in Contexts : ~Receiving(w, d)'
    BY <2>2 DEF Receiving
  <2>6. \A d \in Contexts : d # wctx[w] => ~Receiving(w, d)
    BY <1>5 DEF Receiving
  <2>7. OneReceivePerContext'
    <3> SUFFICES ASSUME NEW d \in Contexts, d[1] \notin Spoiled
                 PROVE  /\ Outstanding(RecvOp(d))' <= 1
                        /\ \A v \in Workers :
                             Receiving(v, d)' => /\ Outstanding(RecvOp(d))' = 0
                                                 /\ \A u \in Workers : Receiving(u, d)' => u = v
      BY <1>5 DEF OneReceivePerContext, Spoiled
    <3>1. CASE d = wctx[w] /\ s = "drop"
      BY <1>5, <2>3, <2>4, <2>5, <3>1
    <3>2. CASE d # wctx[w] \/ s # "drop"
      BY <1>5, <2>4, <3>2 DEF ReceiveInv, OneReceivePerContext
    <3> QED
      BY <3>1, <3>2
  <2>8. ListedHasReceive'
    <3> SUFFICES ASSUME NEW d \in list, d[1] \notin crossed, ~AcceptOwes(d)
                 PROVE  \/ Outstanding(RecvOp(d))' > 0
                        \/ \E v \in Workers : Receiving(v, d)' \/ Removing(v, d)'
      BY <1>5 DEF ListedHasReceive, AcceptOwes, Removing
    <3>1. CASE d = wctx[w]
      <4>1. s \in {"send", "fill", "sent", "recv"} => Receiving(w, d)'
        BY <1>5, <2>2, <3>1 DEF Receiving
      <4>2. s \in {"unsent", "remove"} => Removing(w, d)'
        BY <1>5, <2>2, <3>1 DEF Removing
      <4>3. s = "drop" => Outstanding(RecvOp(d))' > 0
        <5>1. Outstanding(RecvOp(d)) \in Nat
          BY <1>0, OutstandingType
        <5> QED
          BY <1>0, <1>5, <3>1, <5>1
      <4> QED
        BY <1>5, <4>1, <4>2, <4>3
    <3>2. CASE d # wctx[w]
      <4>1. d \in Contexts /\ Outstanding(RecvOp(d))' = Outstanding(RecvOp(d))
        BY <1>0, <1>5, <3>2
      <4>2. \A v \in Workers :
              Receiving(v, d) \/ Removing(v, d) => Receiving(v, d)' \/ Removing(v, d)'
        BY <1>5, <2>2, <2>6, <3>2, <4>1 DEF Receiving, Removing
      <4> QED
        BY <4>1, <4>2 DEF ReceiveInv, ListedHasReceive, Removing
    <3> QED
      BY <3>1, <3>2
  <2>9. FirstReceiveIsFirst'
    <3> SUFFICES ASSUME NEW d \in Contexts, d[1] \notin Spoiled, BeforeFirstReceive(d)
                 PROVE  Idle(d)'
      BY <1>5 DEF FirstReceiveIsFirst, BeforeFirstReceive, Spoiled
    <3>1. Idle(d)
      BY DEF ReceiveInv, FirstReceiveIsFirst
    <3>2. d # wctx[w]
      BY <2>1, <3>1 DEF Idle
    <3> QED
      BY <1>5, <2>4, <3>1, <3>2 DEF Idle
  <2> QED
    BY <2>7, <2>8, <2>9 DEF ReceiveInv
<1>6. CASE Forward(w)
  <2>1. \A c \in Contexts : Outstanding(RecvOp(c))' = Outstanding(RecvOp(c))
    BY <1>6 DEF Forward, Outstanding, ioVars
  <2>2. PICK s \in {"send", "remove"} : wpc' = [wpc EXCEPT ![w] = s]
    BY <1>6 DEF Forward
  <2> QED
    BY <1>5, <1>6, <2>1, <2>2 DEF Forward, WorkerStates, Handling, Sending, workVars, histVars
<1>7. CASE Send(w)
  <2> USE <1>7 DEF Send, histVars
  <2>1. \A c \in Contexts : Outstanding(RecvOp(c))' = Outstanding(RecvOp(c))
    BY DEF Outstanding, ioVars
  <2>2. CASE NoBuddy(wctx[w])
    BY <1>0, <2>1, <2>2, ReceivesStay DEF Receiving, Removing
  <2>3. CASE ~NoBuddy(wctx[w])
    BY <1>5, <2>1, <2>3 DEF WorkerStates, Handling, Sending
  <2> QED
    BY <2>2, <2>3
<1>8. CASE PostSend(w)
  <2> USE <1>8 DEF PostSend
  <2>1. wctx[w] \in Contexts /\ wfwd[w] = Buddy(wctx[w]) /\ wfwd[w] \in Contexts
    BY Pairing DEF TypeOK, Handling, Sending
  <2>2. \A c \in Contexts : Outstanding(RecvOp(c))' = Outstanding(RecvOp(c))
    <3>1. CASE PostOrTear(w, SendOp(wfwd[w]))
      BY <1>0, <2>1, <3>1, PostOrTearAdds, Operations
    <3>2. CASE UNCHANGED ioVars
      BY <3>2 DEF Outstanding, ioVars
    <3> QED
      BY <3>1, <3>2
  <2>3. PICK s \in {"sent", "unsent"} : wpc' = [wpc EXCEPT ![w] = s]
    OBVIOUS
  <2> QED
    BY <1>5, <2>2, <2>3 DEF WorkerStates, Handling, Sending, workVars, histVars
<1>9. CASE EndForward(w)
  <2> USE <1>9 DEF EndForward, AfterForward, histVars
  <2>1. \A c \in Contexts : Outstanding(RecvOp(c))' = Outstanding(RecvOp(c))
    BY DEF Outstanding, ioVars
  <2>2. CASE wpc[w] = "sent"
    BY <1>5, <2>1, <2>2 DEF WorkerStates, Handling, Sending
  <2>3. CASE wpc[w] = "unsent"
    <3>1. \A v \in Workers : /\ wpc'[v] = IF v = w THEN "remove" ELSE wpc[v]
                             /\ wctx'[v] = wctx[v] /\ wpkt'[v] = wpkt[v]
      BY <2>3 DEF TypeOK
    <3>2. \A c \in Contexts, v \in Workers :
            (Receiving(v, c)' <=> Receiving(v, c)) /\ (Removing(v, c) => Removing(v, c)')
      BY <2>3, <3>1 DEF Receiving, Removing
    <3> QED
      BY <1>0, <2>1, <3>2, ReceivesStay
  <2> QED
    BY <2>2, <2>3
<1>10. CASE Recv(w)
  <2> USE <1>10 DEF Recv
  <2>1. wctx[w] \in Contexts
    BY DEF TypeOK, Handling
  <2>2. CASE UNCHANGED ioVars /\ wpc' = [wpc EXCEPT ![w] = "remove"]
    <3>1. \A c \in Contexts : Outstanding(RecvOp(c))' = Outstanding(RecvOp(c))
      BY <2>2 DEF Outstanding, ioVars
    <3> QED
      BY <1>5, <2>2, <3>1 DEF WorkerStates, Handling, Sending, workVars, histVars
  <2>3. CASE PostOrTear(w, RecvOp(wctx[w])) /\ wpc' = [wpc EXCEPT ![w] = "drop"]
    <3>1. \A c \in Contexts :
            Outstanding(RecvOp(c))' =
              IF c = wctx[w] THEN Outstanding(RecvOp(c)) + 1 ELSE Outstanding(RecvOp(c))
      BY <1>0, <2>1, <2>3, PostOrTearAdds, Operations
    <3> QED
      BY <1>5, <2>3, <3>1 DEF WorkerStates, Handling, Sending, workVars, histVars
  <2> QED
    BY <2>2, <2>3
<1>11. CASE RemoveFromClientListAndCleanUpMemory(w)
  <2> USE <1>11 DEF RemoveFromClientListAndCleanUpMemory, workVars
  <2>1. \A v \in Workers : wpc'[v] = IF v = w THEN "drop" ELSE wpc[v]
    BY DEF TypeOK
  <2>2. \A c \in Contexts, v \in Workers :
          /\ Receiving(v, c)' <=> Receiving(v, c)
          /\ c \in list' /\ Removing(v, c) => Removing(v, c)'
    BY <2>1 DEF Receiving, Removing
  <2> QED
    BY <1>0, <2>2, ReceivesStay DEF Outstanding, ioVars
<1>12. CASE EndIteration(w)
  <2> USE <1>12 DEF EndIteration
  <2>1. \A v \in Workers : /\ wpc'[v] = IF v = w THEN LoopTest ELSE wpc[v]
                           /\ wctx'[v] = IF v = w THEN None ELSE wctx[v]
    BY DEF TypeOK
  <2>2. \A c \in Contexts, v \in Workers :
          (Receiving(v, c)' <=> Receiving(v, c)) /\ (Removing(v, c) => Removing(v, c)')
    BY <2>1, LoopTestType DEF Receiving, Removing
  <2> QED
    BY <1>0, <2>2, ReceivesStay DEF Outstanding, ioVars
<1> QED
  BY <1>1, <1>2, <1>3, <1>4, <1>6, <1>7, <1>8, <1>9, <1>10, <1>11, <1>12 DEF Worker, Handle

(* So do the steps of all the others.                                      *)
LEMMA OthersReceive ==
  ASSUME TypeOK, ReceiveInv,
         \/ StartUp \/ KeyHit \/ CleanUp \/ Network
         \/ \E w \in Workers : AfterDeInitialize(w)
  PROVE  ReceiveInv'
<1> USE DEF mainVars, acceptVars, workerVars, workVars, objVars
<1>1. list \subseteq Contexts /\ \A c \in Contexts : RecvOp(c) \in Overlapped
  BY Operations DEF TypeOK
<1>2. /\ UNCHANGED <<aconn, wpkt, wctx, histVars>> /\ list' \subseteq list
      /\ apc' = apc \/ (AcceptIdle /\ AcceptIdle')
  BY DEF StartUp, Initialize, InitializeFails, SetUpFails, StartAccepting, KeyHit, CleanUp,
     JoinAcceptThread, JoinWorkers, CleanClientList, DeInitialize, Return, Network, PeerLeaves,
     DataArrives, SendCompletes, OperationFails, Complete, AfterDeInitialize, PortClosed,
     UseDeleted, AcceptIdle, TypeOK
<1>3. \A c \in Contexts : Outstanding(RecvOp(c))' = Outstanding(RecvOp(c))
  <2>1. CASE UNCHANGED ioVars
    BY <2>1 DEF Outstanding, ioVars
  <2>2. ASSUME NEW o \in Overlapped, NEW ok \in BOOLEAN, Complete(o, ok)
        PROVE  \A c \in Contexts : Outstanding(RecvOp(c))' = Outstanding(RecvOp(c))
    BY <1>1, <2>2, CompleteMoves
  <2>3. CASE Network
    BY <2>1, <2>2, <2>3, Operations DEF Network, PeerLeaves, DataArrives, SendCompletes,
       OperationFails
  <2> QED
    BY <2>1, <2>3 DEF StartUp, Initialize, InitializeFails, SetUpFails, StartAccepting, KeyHit,
       CleanUp, JoinAcceptThread, JoinWorkers, CleanClientList, DeInitialize, Return,
       AfterDeInitialize, PortClosed, UseDeleted
<1>4. \A c \in Contexts, w \in Workers :
        (Receiving(w, c)' <=> Receiving(w, c)) /\ (Removing(w, c) => Removing(w, c)')
  <2>1. CASE UNCHANGED wpc
    BY <1>2, <2>1 DEF Receiving, Removing
  <2>2. CASE Initialize
    BY <2>2 DEF Initialize, Receiving, Removing, TypeOK
  <2>3. CASE \E w \in Workers : PortClosed(w)
    <3> PICK w \in Workers : PortClosed(w)
      BY <2>3
    <3>1. \A v \in Workers : wpc'[v] = IF v = w THEN "done" ELSE wpc[v]
      BY DEF PortClosed, TypeOK
    <3> QED
      BY <1>2, <3>1 DEF PortClosed, Receiving, Removing
  <2> QED
    BY <2>1, <2>2, <2>3 DEF StartUp, InitializeFails, SetUpFails, StartAccepting, KeyHit,
       CleanUp, JoinAcceptThread, JoinWorkers, CleanClientList, DeInitialize, Return, Network,
       PeerLeaves, DataArrives, SendCompletes, OperationFails, Complete, AfterDeInitialize,
       UseDeleted
<1> QED
  BY <1>1, <1>2, <1>3, <1>4, ReceivesStay

(* The invariant.                                                          *)
LEMMA ReceiveInvariance == Spec => []ReceiveInv
<1>1. ASSUME Init PROVE ReceiveInv
  <2>1. \A c \in Contexts : Outstanding(RecvOp(c)) = 0 /\ \A w \in Workers : ~Receiving(w, c)
    BY <1>1, Operations DEF Init, Outstanding, Done, Receiving, Packets
  <2> QED
    BY <1>1, <2>1 DEF Init, ReceiveInv, OneReceivePerContext, ListedHasReceive,
       FirstReceiveIsFirst, BeforeFirstReceive
<1>2. TypeOK /\ OwnershipInv /\ ReceiveInv /\ [Next]_vars => ReceiveInv'
  <2> SUFFICES ASSUME TypeOK, OwnershipInv, ReceiveInv, [Next]_vars
               PROVE  ReceiveInv'
    OBVIOUS
  <2>1. CASE UNCHANGED vars
    <3>1. /\ list \subseteq Contexts
          /\ \A c \in Contexts : Outstanding(RecvOp(c))' = Outstanding(RecvOp(c))
      BY <2>1 DEF vars, ioVars, Outstanding, TypeOK
    <3>2. UNCHANGED <<apc, aconn, wpc, wpkt, wctx, list, histVars>>
      BY <2>1 DEF vars, acceptVars, workerVars, workVars
    <3> QED
      BY <3>1, <3>2, ReceivesStay DEF Receiving, Removing
  <2>2. CASE Next /\ ~UNCHANGED vars
    BY <2>2, AcceptReceives, WorkerReceives, OthersReceive DEF Next, Stopped
  <2> QED
    BY <2>1, <2>2
<1> QED
  BY <1>1, <1>2, TypeCorrect, Ownership, PTL DEF Spec

(* Only a packet handled on another context, or a send taken for a         *)
(* receive, ever brings a context a second receive: on any other           *)
(* connection the one there is is with the kernel, in the port, or with    *)
(* one worker, and no two share the buffer.                                *)
THEOREM OneReceive == Spec => []OneReceivePerContext
<1>1. ReceiveInv => OneReceivePerContext
  BY DEF ReceiveInv
<1> QED
  BY <1>1, ReceiveInvariance, PTL

(* Only a packet handled on another context makes a listed context deaf:   *)
(* otherwise it has a receive, or somebody is about to post one or to take *)
(* it off the list.                                                        *)
THEOREM Receives == Spec => []ListedHasReceive
<1>1. ReceiveInv => ListedHasReceive
  BY DEF ReceiveInv
<1> QED
  BY <1>1, ReceiveInvariance, PTL

-----------------------------------------------------------------------------
(* The null packets of the shutdown.                                       *)

Needing == {w \in Workers : wpc[w] \notin {"off", "done"}}

(* CleanUp's null packets suffice: main is never left waiting for a worker *)
(* that nothing will wake.                                                 *)
THEOREM QuitsSuffice == Spec => []EnoughQuits
<1>1. Init => EnoughQuits
  BY DEF Init, EnoughQuits
<1>2. TypeOK /\ EnoughQuits /\ [Next]_vars => EnoughQuits'
  <2> SUFFICES ASSUME TypeOK, EnoughQuits, [Next]_vars, main' = "joinWorkers"
               PROVE  quits' >= Cardinality(Needing')
    BY DEF EnoughQuits, Needing
  <2> USE DEF mainVars, acceptVars, workerVars, objVars, ioVars
  <2>1. /\ IsFiniteSet(Needing) /\ IsFiniteSet(Needing')
        /\ Cardinality(Needing) \in Nat /\ Cardinality(Needing') \in Nat
        /\ Cardinality(Needing) <= Cardinality(Workers) /\ Cardinality(Workers) \in Nat
    BY WorkersAssumption, FS_Subset, FS_CardinalityType DEF Needing
  <2>2. quits \in Nat /\ (main = "joinWorkers" => quits >= Cardinality(Needing))
    BY DEF EnoughQuits, Needing, TypeOK
  <2>3. Cardinality(Needing') <= Cardinality(Needing)
    <3>1. Needing' \subseteq Needing
      BY ThreadsStayDone DEF Needing, Initialize
    <3> QED
      BY <2>1, <3>1, FS_Subset
  <2>4. CASE main' = main /\ quits' = quits
    BY <2>1, <2>2, <2>3, <2>4
  <2>5. CASE main' # main
    <3>1. JoinAcceptThread
      BY <2>5, MainMoves DEF StartUp, Initialize, InitializeFails, SetUpFails, StartAccepting,
         KeyHit, CleanUp, JoinWorkers, CleanClientList, DeInitialize, Return
    <3>2. quits' = quits + Cardinality(Workers)
      BY <3>1 DEF JoinAcceptThread
    <3> QED
      BY <2>1, <2>2, <2>3, <3>2
  <2>6. ASSUME NEW w \in Workers, TakeQuit(w)
        PROVE  quits' >= Cardinality(Needing')
    <3>1. Needing' = Needing \ {w} /\ w \in Needing
      BY <2>6 DEF TakeQuit, Needing, TypeOK
    <3>2. Cardinality(Needing') = Cardinality(Needing) - 1
      BY <2>1, <3>1, FS_RemoveElement
    <3> QED
      BY <2>1, <2>2, <2>6, <3>2 DEF TakeQuit
  <2>7. CASE UNCHANGED vars
    BY <2>4, <2>7 DEF vars
  <2>8. CASE Accept \/ Network
    BY <2>4, <2>8 DEF Accept, AcceptNothing, AcceptConnection, InitRemoteConnection,
       InitRemoteConnectionFails, AssociateWithIOCP, AddToClientList, PostLocalRecv,
       PostProxyRecv, PostFirstRecv, AcceptReturns, CloseAccepted, DropLocal, DropProxy,
       AbortContext, MakeContext, Network, PeerLeaves, DataArrives, SendCompletes,
       OperationFails, Complete
  <2>9. ASSUME NEW w \in Workers, Worker(w), ~TakeQuit(w)
        PROVE  quits' >= Cardinality(Needing')
    BY <2>4, <2>9 DEF Worker, Handle, TakePacket, KeyFaults, ReadKey, Forward, Send,
       PostSend, EndForward, Recv, RemoveFromClientListAndCleanUpMemory, EndIteration
  <2>10. CASE (StartUp \/ KeyHit \/ CleanUp) /\ main' = main
    BY <2>10 DEF StartUp, Initialize, InitializeFails, SetUpFails, StartAccepting, KeyHit,
       CleanUp, JoinAcceptThread, JoinWorkers, CleanClientList, DeInitialize, Return
  <2>11. CASE main = "closing" /\ \E w \in Workers : AfterDeInitialize(w)
    BY <2>11 DEF AfterDeInitialize, PortClosed, UseDeleted
  <2> QED
    BY <2>5, <2>6, <2>7, <2>8, <2>9, <2>10, <2>11 DEF Next, Stopped
<1> QED
  BY <1>1, <1>2, TypeCorrect, PTL DEF Spec
=============================================================================
