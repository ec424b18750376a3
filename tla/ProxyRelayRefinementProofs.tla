---------------------- MODULE ProxyRelayRefinementProofs --------------------
(***************************************************************************)
(* The proof that ProxyRelay implements ConnectionRelay, whatever the      *)
(* completion keys and the types of the operations are read as.            *)
(***************************************************************************)
EXTENDS ProxyRelayReceiveProofs

-----------------------------------------------------------------------------
(* A connection that is being set up.                                      *)

(* Nobody but the accept thread knows c: no list, worker, packet or        *)
(* operation.                                                              *)
Unknown(c) ==
  /\ c \notin list
  /\ \A w \in Workers : wctx[w] # c /\ (wpc[w] = "deref" => wpkt[w].op.ctx # c)
  /\ Outstanding(RecvOp(c)) = 0 /\ Outstanding(SendOp(c)) = 0

Paired(k) == link[Local(k)] = "strong" \/ (apc = "associate" /\ aconn = k)

(* Until the proxy context is made the local one is the accept thread's    *)
(* alone, unless a worker took it for another packet's context, and once   *)
(* the proxy context is made it is linked next.                            *)
SetUpInv ==
  \A k \in Connections :
    IF life[Proxy(k)] = "none" THEN k \notin crossed => Unknown(Local(k)) ELSE Paired(k)

(* A step that makes no proxy context and links none.                      *)
LEMMA SetUpStays ==
  ASSUME SetUpInv, (apc' = apc /\ aconn' = aconn) \/ apc # "associate",
         \A k \in Connections :
           /\ life'[Proxy(k)] = "none" <=> life[Proxy(k)] = "none"
           /\ link'[Local(k)] = link[Local(k)]
           /\ k \in crossed => k \in crossed'
           /\ life[Proxy(k)] = "none" /\ Unknown(Local(k)) /\ k \notin crossed' =>
                Unknown(Local(k))'
  PROVE  SetUpInv'
BY DEF SetUpInv, Paired

(* What nobody does, all stay away from the context.                       *)
LEMMA UnknownStays ==
  ASSUME NEW c \in Contexts, Unknown(c), c \in list' => c \in list,
         \A w \in Workers :
           /\ wctx'[w] = c => wctx[w] = c
           /\ wpc'[w] = "deref" => wpc[w] = "deref" /\ wpkt'[w] = wpkt[w],
         Outstanding(RecvOp(c))' = Outstanding(RecvOp(c)),
         Outstanding(SendOp(c))' = Outstanding(SendOp(c))
  PROVE  Unknown(c)'
BY DEF Unknown

(* The steps of the accept thread keep the set-up invariant.               *)
LEMMA AcceptSetUp ==
  ASSUME TypeOK, OwnershipInv, SetUpInv, Accept
  PROVE  SetUpInv'
<1> USE DEF mainVars, workerVars, workVars, histVars, objVars, ioVars
<1>0. aconn \in Connections \/ apc \in {"off", "wait", "done"}
  BY DEF TypeOK
<1>1. ASSUME UNCHANGED <<workerVars, ioVars>>, NEW c \in Contexts, Unknown(c),
             c \in list' => c \in list
      PROVE  Unknown(c)'
  BY <1>1 DEF Unknown, Outstanding
<1>2. CASE AcceptNothing \/ InitRemoteConnectionFails \/ CloseAccepted
  BY <1>1, <1>2, Pairing, SetUpStays DEF AcceptNothing, InitRemoteConnectionFails,
     CloseAccepted
<1>3. CASE \E k \in Connections : AcceptConnection(k)
  <2> PICK k \in Connections : AcceptConnection(k)
    BY <1>3
  <2>1. \A j \in Connections : life'[Proxy(j)] = life[Proxy(j)]
    BY Pairing DEF AcceptConnection, MakeContext, TypeOK
  <2> QED
    BY <1>1, <2>1, Pairing, SetUpStays DEF AcceptConnection, MakeContext
<1>4. CASE InitRemoteConnection
  <2> USE <1>4 DEF InitRemoteConnection, MakeContext
  <2>1. \A j \in Connections :
          life'[Proxy(j)] = IF j = aconn THEN "live" ELSE life[Proxy(j)]
    BY <1>0, Pairing DEF TypeOK
  <2>2. \A j \in Connections : Unknown(Local(j)) => Unknown(Local(j))'
    BY <1>1, Pairing
  <2> QED
    BY <2>1, <2>2 DEF SetUpInv, Paired
<1>5. CASE AssociateWithIOCP
  <2> USE <1>5 DEF AssociateWithIOCP
  <2>1. aconn \in Connections /\ Local(aconn) \in Contexts /\ Proxy(aconn) \in Contexts
    BY <1>0, Pairing
  <2>2. link[Proxy(aconn)] = "none" /\ link[Local(aconn)] = "none"
    BY <2>1 DEF OwnershipInv, AcceptHolds, LinkShape
  <2>3. SetBuddy(link, Local(aconn)) = [link EXCEPT ![Local(aconn)] = "strong"]
    BY <2>1, <2>2, Pairing DEF SetBuddy
  <2>4. \A j \in Connections :
          link'[Local(j)] = IF j = aconn THEN "strong" ELSE link[Local(j)]
    BY <2>1, <2>3, Pairing DEF SetBuddy, TypeOK
  <2>5. \A j \in Connections : Unknown(Local(j)) => Unknown(Local(j))'
    BY <1>1, Pairing
  <2> QED
    BY <2>4, <2>5 DEF SetUpInv, Paired
<1>6. CASE AddToClientList
  <2>1. aconn \in Connections /\ life[Proxy(aconn)] = "live"
    BY <1>0, <1>6 DEF AddToClientList, OwnershipInv, AcceptHolds, HeldAreLive, Held
  <2>2. \A j \in Connections :
          life[Proxy(j)] = "none" /\ Local(j) \in list' => Local(j) \in list
    BY <1>6, <2>1, Pairing DEF AddToClientList
  <2> QED
    BY <1>1, <1>6, <2>2, Pairing, SetUpStays DEF AddToClientList
<1>7. ASSUME NEW k \in Connections, NEW c \in {Local(k), Proxy(k)}, NEW next,
             PostFirstRecv(c, next), aconn = k, apc \in {"recvLocal", "recvProxy"}
      PROVE  SetUpInv'
  <2> USE <1>7 DEF PostFirstRecv
  <2>1. life[Proxy(k)] = "live"
    BY DEF OwnershipInv, AcceptHolds, HeldAreLive, Held
  <2>2. c \in Contexts
    BY Pairing
  <2>3. ASSUME NEW j \in Connections, life[Proxy(j)] = "none", Unknown(Local(j))
        PROVE  Unknown(Local(j))'
    <3>1. j # k /\ Local(j) \in Contexts /\ Local(j) # c
      BY <2>1, <2>3, Pairing
    <3>2. CASE UNCHANGED pending
      BY <1>1, <2>3, <3>1, <3>2
    <3>3. CASE Post(RecvOp(c))
      <4>1. /\ Outstanding(RecvOp(Local(j)))' = Outstanding(RecvOp(Local(j)))
            /\ Outstanding(SendOp(Local(j)))' = Outstanding(SendOp(Local(j)))
        BY <2>2, <3>1, <3>3, PostAdds, Operations
      <4> QED
        BY <2>3, <3>1, <4>1, UnknownStays
    <3> QED
      BY <3>2, <3>3
  <2> QED
    BY <2>3, SetUpStays
<1>8. CASE PostLocalRecv \/ PostProxyRecv
  BY <1>0, <1>7, <1>8 DEF PostLocalRecv, PostProxyRecv
<1>9. CASE AcceptReturns \/ DropLocal \/ DropProxy
  <2>1. /\ Release(Held(list', ahold', wctx', wfwd'))
        /\ Held(list', ahold', wctx', wfwd') \subseteq Held(list, ahold, wctx, wfwd)
    BY <1>9 DEF AcceptReturns, DropLocal, DropProxy, AbortContext, Held
  <2>2. \A c \in Contexts : life'[c] = "none" <=> life[c] = "none"
    BY <2>1, OwnersShrink
  <2> QED
    BY <1>1, <1>9, <2>1, <2>2, Pairing, SetUpStays
    DEF AcceptReturns, DropLocal, DropProxy, AbortContext, Release
<1> QED
  BY <1>2, <1>3, <1>4, <1>5, <1>6, <1>8, <1>9 DEF Accept

(* A worker that drops a pointer adds no owner.                            *)
LEMMA WorkerLetsGo ==
  ASSUME TypeOK, NEW w \in Workers, EndIteration(w) \/ EndForward(w)
  PROVE  /\ Release(Held(list', ahold', wctx', wfwd'))
         /\ Held(list', ahold', wctx', wfwd') \subseteq Held(list, ahold, wctx, wfwd)
<1> USE DEF acceptVars
<1>1. CASE EndIteration(w)
  <2> USE <1>1 DEF EndIteration
  <2>1. \A v \in Workers : wctx'[v] = IF v = w THEN None ELSE wctx[v]
    BY DEF TypeOK
  <2>2. Held(list', ahold', wctx', wfwd') \subseteq Held(list, ahold, wctx, wfwd)
    BY <2>1, NoneAssumption DEF Held, Contexts
  <2>3. Release(Held(list', ahold', wctx', wfwd'))
    OBVIOUS
  <2> QED
    BY <2>2, <2>3
<1>2. CASE EndForward(w)
  <2> USE <1>2 DEF EndForward
  <2>1. \A v \in Workers : wfwd'[v] = IF v = w THEN None ELSE wfwd[v]
    BY DEF TypeOK
  <2>2. Held(list', ahold', wctx', wfwd') \subseteq Held(list, ahold, wctx, wfwd)
    BY <2>1, NoneAssumption DEF Held, Contexts
  <2>3. Release(Held(list', ahold', wctx', wfwd'))
    OBVIOUS
  <2> QED
    BY <2>2, <2>3
<1> QED
  BY <1>1, <1>2

(* The steps of a worker keep the set-up invariant.                        *)
LEMMA WorkerSetUp ==
  ASSUME TypeOK, OwnershipInv, SetUpInv, NEW w \in Workers, Worker(w)
  PROVE  SetUpInv'
<1> USE DEF mainVars, acceptVars, objVars
<1>1. /\ UNCHANGED <<apc, aconn, ahold, link>> /\ crossed \subseteq crossed'
      /\ \A c \in Contexts : life'[c] = "none" <=> life[c] = "none"
  <2>1. CASE EndIteration(w) \/ EndForward(w)
    <3>1. /\ Release(Held(list', ahold', wctx', wfwd'))
          /\ Held(list', ahold', wctx', wfwd') \subseteq Held(list, ahold, wctx, wfwd)
      BY <2>1, WorkerLetsGo
    <3>2. \A c \in Contexts : life'[c] = "none" <=> life[c] = "none"
      BY <3>1, OwnersShrink
    <3> QED
      BY <2>1, <3>2 DEF EndIteration, EndForward, Release, histVars
  <2>2. CASE ~EndIteration(w) /\ ~EndForward(w)
    BY <2>2 DEF Worker, Handle, TakeQuit, TakePacket, KeyFaults, ReadKey, Forward, Send,
       PostSend, Recv, RemoveFromClientListAndCleanUpMemory, workerVars, workVars, histVars
  <2> QED
    BY <2>1, <2>2
<1>2. SUFFICES ASSUME NEW k \in Connections, life[Proxy(k)] = "none", Unknown(Local(k)),
                      k \notin crossed'
               PROVE  Unknown(Local(k))'
  BY <1>1, Pairing, SetUpStays
<1> DEFINE c == Local(k)
<1>3. /\ c \in Contexts /\ RecvOp(c) \in Overlapped /\ SendOp(c) \in Overlapped
      /\ RecvOp(c).ctx = c /\ SendOp(c).ctx = c /\ c[1] = k
  BY Pairing, Operations
<1>4. CASE UNCHANGED ioVars /\ wctx' = [wctx EXCEPT ![w] = wctx'[w]] /\ wctx'[w] # c
           /\ list' \subseteq list /\ wpkt' = wpkt
           /\ \A v \in Workers : wpc'[v] = "deref" => wpc[v] = "deref"
  BY <1>2, <1>3, <1>4, UnknownStays DEF Outstanding, ioVars, TypeOK
<1>5. wctx[w] # c
  BY <1>2 DEF Unknown
<1>6. CASE TakeQuit(w) \/ Forward(w) \/ RemoveFromClientListAndCleanUpMemory(w)
  BY <1>4, <1>5, <1>6
  DEF TakeQuit, Forward, RemoveFromClientListAndCleanUpMemory, TypeOK, workVars
<1>7. CASE KeyFaults(w)
  BY <1>4, <1>5, <1>7 DEF KeyFaults, workerVars, workVars, TypeOK
<1>8. CASE EndIteration(w)
  <2>1. c # None
    BY <1>3, NoneAssumption DEF Contexts
  <2> QED
    BY <1>4, <1>8, <2>1, LoopTestType DEF EndIteration, TypeOK
<1>9. ASSUME NEW p \in Packets, TakePacket(w, p)
      PROVE  Unknown(c)'
  <2>1. /\ p.op \in Overlapped /\ Outstanding(p.op) >= 1
        /\ \A q \in Overlapped :
             Outstanding(q)' = IF q = p.op THEN Outstanding(q) - 1 ELSE Outstanding(q)
    BY <1>9, TakeRemoves
  <2>2. p.op # RecvOp(c) /\ p.op # SendOp(c)
    BY <1>2, <2>1 DEF Unknown
  <2>3. p.op.ctx # c
    BY <2>1, <2>2, Operations
  <2>4. \A v \in Workers : /\ wpc'[v] = IF v = w THEN "deref" ELSE wpc[v]
                           /\ wpkt'[v] = IF v = w THEN p ELSE wpkt[v]
    BY <1>9 DEF TakePacket, TypeOK
  <2>5. UNCHANGED <<list, wctx>>
    BY <1>9 DEF TakePacket
  <2> QED
    BY <1>2, <1>3, <2>1, <2>2, <2>3, <2>4, <2>5 DEF Unknown
<1>10. CASE ReadKey(w)
  <2>1. wpc[w] = "deref" /\ wpkt[w].op.ctx # c
    BY <1>2, <1>10 DEF ReadKey, Unknown
  <2>2. CASE UNCHANGED workerVars
    BY <1>4, <1>5, <1>10, <2>2 DEF ReadKey, workerVars, workVars, TypeOK
  <2>3. CASE ~UNCHANGED workerVars
    <3> PICK d \in SlotContexts(wpkt[w].op.ctx), t \in IoTypes(wpkt[w].op) :
           /\ wctx' = [wctx EXCEPT ![w] = d]
           /\ wpkt' = [wpkt EXCEPT ![w] = None]
           /\ wpc' = [wpc EXCEPT ![w] = Dispatch(wpkt[w].ok, t)]
           /\ crossed' = crossed \cup
                IF d # wpkt[w].op.ctx THEN {d[1], wpkt[w].op.ctx[1]} ELSE {}
      BY <1>10, <2>3 DEF ReadKey, workerVars, workVars, histVars
    <3>1. d # c
      BY <1>2, <1>3, <2>1
    <3>2. Dispatch(wpkt[w].ok, t) # "deref"
      BY <2>1, DispatchType DEF TypeOK
    <3>3. \A v \in Workers : /\ wctx'[v] = c => wctx[v] = c
                             /\ wpc'[v] = "deref" => wpc[v] = "deref" /\ wpkt'[v] = wpkt[v]
      BY <3>1, <3>2 DEF TypeOK
    <3>4. UNCHANGED <<list, ioVars>>
      BY <1>10 DEF ReadKey
    <3> QED
      BY <1>2, <1>3, <3>3, <3>4, UnknownStays DEF Outstanding, ioVars
  <2> QED
    BY <2>2, <2>3
<1>11. ASSUME NEW d \in Contexts, NEW o \in {RecvOp(d), SendOp(d)}, d # c,
              PostOrTear(w, o) \/ UNCHANGED ioVars, UNCHANGED <<list, wctx, wpkt>>,
              NEW s \in Handling, wpc' = [wpc EXCEPT ![w] = s]
       PROVE  Unknown(c)'
  <2>1. /\ Outstanding(RecvOp(c))' = Outstanding(RecvOp(c))
        /\ Outstanding(SendOp(c))' = Outstanding(SendOp(c))
    <3>1. CASE PostOrTear(w, o)
      BY <1>3, <1>11, <3>1, PostOrTearAdds, Operations
    <3>2. CASE UNCHANGED ioVars
      BY <3>2 DEF Outstanding, ioVars
    <3> QED
      BY <1>11, <3>1, <3>2
  <2>2. \A v \in Workers : wpc'[v] = "deref" => wpc[v] = "deref"
    BY <1>11 DEF TypeOK, Handling, Sending
  <2> QED
    BY <1>2, <1>3, <1>11, <2>1, <2>2, UnknownStays
<1>12. CASE Send(w) \/ EndForward(w)
  <2>1. UNCHANGED <<wctx, wpkt, list, ioVars>>
    BY <1>12 DEF Send, EndForward
  <2>2. \A v \in Workers : wpc'[v] = "deref" => wpc[v] = "deref"
    BY <1>12 DEF Send, EndForward, AfterForward, TypeOK
  <2> QED
    BY <1>4, <1>5, <2>1, <2>2 DEF TypeOK
<1>13. CASE PostSend(w)
  <2> USE <1>13 DEF PostSend
  <2>1. wctx[w] \in Contexts /\ life[wctx[w]] = "live" /\ wfwd[w] = Buddy(wctx[w])
    BY DEF TypeOK, Handling, Sending, OwnershipInv, HeldAreLive, Held
  <2>2. wfwd[w] \in Contexts /\ wfwd[w] # c
    BY <1>2, <2>1, Pairing
  <2> QED
    BY <1>11, <2>2 DEF Handling, Sending, workVars
<1>14. CASE Recv(w)
  <2> USE <1>14 DEF Recv
  <2>1. wctx[w] \in Contexts
    BY DEF TypeOK, Handling
  <2> QED
    BY <1>5, <1>11, <2>1 DEF Handling, workVars
<1> QED
  BY <1>6, <1>7, <1>8, <1>9, <1>10, <1>12, <1>13, <1>14 DEF Worker, Handle

(* So do the steps of all the others.                                      *)
LEMMA OthersSetUp ==
  ASSUME TypeOK, OwnershipInv, SetUpInv,
         \/ StartUp \/ KeyHit \/ CleanUp \/ Network
         \/ \E w \in Workers : AfterDeInitialize(w)
  PROVE  SetUpInv'
<1> USE DEF mainVars, acceptVars, workerVars, workVars, histVars, objVars
<1>1. /\ UNCHANGED <<aconn, wpkt, wctx, crossed, link>> /\ list' \subseteq list
      /\ apc' = apc \/ apc = "off"
      /\ \A w \in Workers : wpc'[w] = "deref" => wpc[w] = "deref"
  BY DEF StartUp, Initialize, InitializeFails, SetUpFails, StartAccepting, KeyHit, CleanUp,
     JoinAcceptThread, JoinWorkers, CleanClientList, Release, DeInitialize, Return, Network,
     PeerLeaves, DataArrives, SendCompletes, OperationFails, Complete, AfterDeInitialize,
     PortClosed, UseDeleted, TypeOK
<1>2. \A c \in Contexts : life'[c] = "none" <=> life[c] = "none"
  <2>1. CASE CleanClientList
    <3>1. /\ Release(Held(list', ahold', wctx', wfwd'))
          /\ Held(list', ahold', wctx', wfwd') \subseteq Held(list, ahold, wctx, wfwd)
      BY <2>1 DEF CleanClientList, Held
    <3> QED
      BY <3>1, OwnersShrink
  <2>2. CASE ~CleanClientList
    BY <2>2 DEF StartUp, Initialize, InitializeFails, SetUpFails, StartAccepting, KeyHit,
       CleanUp, JoinAcceptThread, JoinWorkers, DeInitialize, Return, Network, PeerLeaves,
       DataArrives, SendCompletes, OperationFails, Complete, AfterDeInitialize, PortClosed,
       UseDeleted
  <2> QED
    BY <2>1, <2>2
<1>3. \A o \in Overlapped : Outstanding(o)' = Outstanding(o)
  <2>1. CASE UNCHANGED ioVars
    BY <2>1 DEF Outstanding, ioVars
  <2>2. CASE Network
    BY <2>1, <2>2, Operations, CompleteMoves DEF Network, PeerLeaves, DataArrives,
       SendCompletes, OperationFails
  <2> QED
    BY <2>1, <2>2 DEF StartUp, Initialize, InitializeFails, SetUpFails, StartAccepting,
       KeyHit, CleanUp, JoinAcceptThread, JoinWorkers, CleanClientList, DeInitialize,
       Return, AfterDeInitialize, PortClosed, UseDeleted
<1>4. \A c \in Contexts : Unknown(c) => Unknown(c)'
  BY <1>1, <1>3, Operations, UnknownStays
<1> QED
  BY <1>1, <1>2, <1>4, Pairing, SetUpStays

LEMMA SetUpInvariance == Spec => []SetUpInv
<1>1. ASSUME Init PROVE SetUpInv
  <2>1. \A o \in Overlapped : Outstanding(o) = 0
    BY <1>1 DEF Init, Outstanding, Packets, Done
  <2>2. \A k \in Connections : life[Proxy(k)] = "none" /\ Unknown(Local(k))
    BY <1>1, <2>1, Pairing, Operations, NoneAssumption DEF Init, Unknown, Contexts
  <2> QED
    BY <2>2 DEF SetUpInv
<1>2. TypeOK /\ OwnershipInv /\ SetUpInv /\ [Next]_vars => SetUpInv'
  <2> SUFFICES ASSUME TypeOK, OwnershipInv, SetUpInv, [Next]_vars
               PROVE  SetUpInv'
    OBVIOUS
  <2>1. CASE UNCHANGED vars
    BY <2>1 DEF vars, mainVars, acceptVars, workerVars, workVars, histVars, objVars, ioVars,
       SetUpInv, Unknown, Paired, Outstanding
  <2>2. CASE Next /\ ~UNCHANGED vars
    BY <2>2, AcceptSetUp, WorkerSetUp, OthersSetUp DEF Next, Stopped
  <2> QED
    BY <2>1, <2>2
<1> QED
  BY <1>1, <1>2, TypeCorrect, Ownership, PTL DEF Spec

-----------------------------------------------------------------------------
(* Where the chunk of a direction is.                                      *)

(* The receive of a context that was started is in one place.              *)
LEMMA Placed ==
  ASSUME TypeOK, OwnershipInv, ReceiveInv, NEW c \in Contexts, c[1] \notin Spoiled
  PROVE  /\ NotStarted(c) => Idle(c)
         /\ pending[RecvOp(c)] > 0 =>
              /\ pending[RecvOp(c)] = 1
              /\ ~HoldsChunk(c) /\ ~NotStarted(c) /\ \A w \in Workers : ~Rearming(w, c)
         /\ \A w \in Workers :
              Carrying(w, c) \/ Rearming(w, c) =>
                /\ pending[RecvOp(c)] = 0 /\ port[Done(RecvOp(c), TRUE)] = 0
                /\ \A v \in Workers : Carrying(v, c) \/ Rearming(v, c) => v = w
                /\ ~NotStarted(c)
<1>1. \A w \in Workers : Carrying(w, c) \/ Rearming(w, c) => Receiving(w, c)
  BY DEF Carrying, Rearming, Receiving, Done
<1>2. /\ pending[RecvOp(c)] \in Nat /\ port[Done(RecvOp(c), TRUE)] \in Nat
      /\ port[Done(RecvOp(c), FALSE)] \in Nat
  BY OutstandingType, Operations
<1>3. NotStarted(c) => Idle(c)
  BY UnmadeIsIdle DEF NotStarted, ReceiveInv, FirstReceiveIsFirst
<1>4. ASSUME pending[RecvOp(c)] > 0
      PROVE  /\ pending[RecvOp(c)] = 1
             /\ ~HoldsChunk(c) /\ ~NotStarted(c) /\ \A w \in Workers : ~Rearming(w, c)
  <2>1. Outstanding(RecvOp(c)) > 0 /\ Outstanding(RecvOp(c)) <= 1
    BY <1>2, <1>4 DEF ReceiveInv, OneReceivePerContext, Outstanding, Done
  <2>2. pending[RecvOp(c)] = 1 /\ port[Done(RecvOp(c), TRUE)] = 0
    BY <1>2, <1>4, <2>1 DEF Outstanding, Done
  <2>3. \A w \in Workers : ~Receiving(w, c)
    BY <2>1 DEF ReceiveInv, OneReceivePerContext
  <2> QED
    BY <1>1, <1>3, <2>1, <2>2, <2>3 DEF HoldsChunk, Idle
<1>5. ASSUME NEW w \in Workers, Carrying(w, c) \/ Rearming(w, c)
      PROVE  /\ pending[RecvOp(c)] = 0 /\ port[Done(RecvOp(c), TRUE)] = 0
             /\ \A v \in Workers : Carrying(v, c) \/ Rearming(v, c) => v = w
             /\ ~NotStarted(c)
  <2>1. Receiving(w, c)
    BY <1>1, <1>5
  <2>2. Outstanding(RecvOp(c)) = 0
    BY <2>1 DEF ReceiveInv, OneReceivePerContext
  <2>3. pending[RecvOp(c)] = 0 /\ port[Done(RecvOp(c), TRUE)] = 0
    BY <1>2, <2>2 DEF Outstanding, Done
  <2>4. \A v \in Workers : Carrying(v, c) \/ Rearming(v, c) => v = w
    BY <1>1, <2>1 DEF ReceiveInv, OneReceivePerContext
  <2>5. ~NotStarted(c)
    BY <1>3, <2>1 DEF Idle
  <2> QED
    BY <2>3, <2>4, <2>5
<1> QED
  BY <1>3, <1>4, <1>5

(* Nothing about the direction of c changes.                               *)
LEMMA DirectionStays ==
  ASSUME NEW c \in Contexts,
         HoldsChunk(c)' <=> HoldsChunk(c), AwaitsChunk(c)' <=> AwaitsChunk(c),
         NotStarted(c)' <=> NotStarted(c)
  PROVE  Direction(c)' = Direction(c)
BY DEF Direction

(* A step that moves no operation and no worker.                           *)
LEMMA DirectionsStay ==
  ASSUME UNCHANGED <<wpc, wpkt, wctx, pending, port>>,
         \A c \in Contexts : NotStarted(c)' <=> NotStarted(c)
  PROVE  \A c \in Contexts : Direction(c)' = Direction(c)
<1> SUFFICES ASSUME NEW c \in Contexts
             PROVE  Direction(c)' = Direction(c)
  OBVIOUS
<1>1. HoldsChunk(c)' <=> HoldsChunk(c)
  BY DEF HoldsChunk, Carrying
<1>2. AwaitsChunk(c)' <=> AwaitsChunk(c)
  BY DEF AwaitsChunk, Rearming
<1> QED
  BY <1>1, <1>2, DirectionStays

(* A context with no receive has no chunk.                                 *)
LEMMA IdleHasNone ==
  ASSUME TypeOK, NEW c \in Contexts, Idle(c)
  PROVE  ~HoldsChunk(c) /\ ~AwaitsChunk(c)
<1>1. pending[RecvOp(c)] = 0 /\ port[Done(RecvOp(c), TRUE)] = 0
  BY OutstandingType, Operations DEF Idle, Outstanding, Done
<1>2. \A w \in Workers : ~Carrying(w, c) /\ ~Rearming(w, c)
  BY DEF Idle, Receiving, Carrying, Rearming, Done
<1> QED
  BY <1>1, <1>2 DEF HoldsChunk, AwaitsChunk

-----------------------------------------------------------------------------
(* The steps of ConnectionRelay, in the terms of ProxyRelay.               *)

LEMMA RelayNames ==
  /\ Relay!Ends = Contexts
  /\ \A k \in Connections : Relay!Client(k) = Local(k) /\ Relay!Server(k) = Proxy(k)
  /\ \A c \in Contexts : Relay!Other(c) = Buddy(c)
BY DEF Relay!Ends, Relay!Client, Relay!Server, Relay!Other, Contexts, Local, Proxy, Buddy

(* Nothing that ConnectionRelay sees changes.                              *)
LEMMA StutterStep ==
  ASSUME UNCHANGED Spoiled,
         UNCHANGED life,
         \A c \in Contexts : /\ Direction(c)' = Direction(c)
                             /\ pending'[SendOp(c)] = pending[SendOp(c)]
  PROVE  UNCHANGED Relay!vars
BY DEF Relay!vars, SendOp

(* Directions of one connection end.                                       *)
LEMMA StopStep ==
  ASSUME UNCHANGED Spoiled,
         NEW S \in SUBSET Contexts,
         (\E c \in Contexts : S = {c}) \/ (\E k \in Connections : S = {Local(k), Proxy(k)}),
         \A c \in S : Direction(c) # "ended",
         UNCHANGED life,
         \A c \in Contexts :
           /\ Direction(c)' = IF c \in S THEN "ended" ELSE Direction(c)
           /\ pending'[SendOp(c)] = pending[SendOp(c)]
  PROVE  Relay!Next
<1>1. Relay!Stop(S)
  BY RelayNames DEF Relay!Stop, SendOp
<1> QED
  BY <1>1, RelayNames DEF Relay!Next

(* Contexts are destroyed.                                                 *)
LEMMA CloseStep ==
  ASSUME UNCHANGED Spoiled,
         NEW S \in SUBSET Contexts,
         \A c \in S : life[c] = "live",
         \A k \in Connections :
           Proxy(k) \in S => Local(k) \in S \/ life[Local(k)] = "dead",
         life' = [c \in Contexts |-> IF c \in S THEN "dead" ELSE life[c]],
         \A c \in Contexts : /\ Direction(c)' = Direction(c)
                             /\ pending'[SendOp(c)] = pending[SendOp(c)]
  PROVE  Relay!Next
<1>1. \A c \in S : c = Relay!Server(c[1]) => Relay!Other(c) \in S \/ life[Relay!Other(c)] = "dead"
  BY RelayNames, Pairing
<1>2. Relay!Close(S)
  BY <1>1, RelayNames DEF Relay!Close, SendOp
<1> QED
  BY <1>2, RelayNames DEF Relay!Next

(* A context is made.                                                      *)
LEMMA MakeStep ==
  ASSUME UNCHANGED Spoiled,
         NEW k \in Connections,
         \/ /\ life[Local(k)] = "none" /\ life' = [life EXCEPT ![Local(k)] = "live"]
            /\ \A j \in Connections \ Spoiled :
                 ~(life[Local(j)] = "live" /\ life[Proxy(j)] = "none")
         \/ /\ life[Local(k)] = "live" /\ life[Proxy(k)] = "none"
            /\ life' = [life EXCEPT ![Proxy(k)] = "live"],
         \A c \in Contexts : /\ Direction(c)' = Direction(c)
                             /\ pending'[SendOp(c)] = pending[SendOp(c)]
  PROVE  Relay!Next
<1>1. Relay!Accept(k) \/ Relay!Connect(k)
  BY RelayNames DEF Relay!Accept, Relay!Connect, Relay!HalfMade, SendOp
<1> QED
  BY <1>1, RelayNames DEF Relay!Next

(* One direction moves on, and no send begins or ends.                     *)
LEMMA MoveStep ==
  ASSUME UNCHANGED Spoiled,
         NEW c \in Contexts, UNCHANGED life, life[c] = "live",
         \/ /\ Direction(c) = "new" /\ Direction(c)' = "reading"
            /\ life[Buddy(c)] = "live"
            /\ c = Proxy(c[1]) => Direction(Buddy(c)) # "new"
         \/ Direction(c) = "reading" /\ Direction(c)' = "holding",
         \A d \in Contexts : /\ d # c => Direction(d)' = Direction(d)
                             /\ pending'[SendOp(d)] = pending[SendOp(d)]
  PROVE  Relay!Next
<1>1. c = Relay!Server(c[1]) <=> c = Proxy(c[1])
  BY RelayNames, Pairing
<1>2. Buddy(c) \in Contexts
  BY Pairing
<1>3. Relay!Start(c) \/ Relay!Read(c)
  BY <1>1, <1>2, RelayNames DEF Relay!Start, Relay!Read, SendOp
<1> QED
  BY <1>3, RelayNames DEF Relay!Next

(* A chunk is passed on.                                                   *)
LEMMA PassStep ==
  ASSUME UNCHANGED Spoiled,
         NEW c \in Contexts, UNCHANGED life, life[c] = "live", life[Buddy(c)] = "live",
         Direction(c) = "holding", Direction(c)' = "reading",
         \A d \in Contexts : /\ d # c => Direction(d)' = Direction(d)
                             /\ pending'[SendOp(d)] = IF d = Buddy(c) THEN pending[SendOp(d)] + 1
                                                      ELSE pending[SendOp(d)]
  PROVE  Relay!Next
<1>1. Buddy(c) \in Contexts
  BY Pairing
<1>2. Relay!Pass(c)
  BY <1>1, RelayNames DEF Relay!Pass, SendOp
<1> QED
  BY <1>2, RelayNames DEF Relay!Next

(* A send ends, with or without success.                                   *)
LEMMA FinishStep ==
  ASSUME UNCHANGED Spoiled,
         NEW c \in Contexts, UNCHANGED life, pending[SendOp(c)] > 0,
         \A d \in Contexts : /\ Direction(d)' = Direction(d)
                             /\ pending'[SendOp(d)] = IF d = c THEN pending[SendOp(d)] - 1
                                                      ELSE pending[SendOp(d)]
  PROVE  Relay!Next
<1>1. Relay!Finish(c)
  BY RelayNames DEF Relay!Finish, SendOp
<1> QED
  BY <1>1, RelayNames DEF Relay!Next

(* Connections are spoiled, or things happen to those that are.            *)
LEMMA StrayStep ==
  ASSUME TypeOK, TypeOK', UNCHANGED life, Spoiled \subseteq Spoiled',
         \A c \in Contexts :
           c[1] \notin Spoiled' => /\ Direction(c)' = Direction(c)
                                  /\ pending'[SendOp(c)] = pending[SendOp(c)]
  PROVE  Relay!Next
<1>1. Spoiled' \in SUBSET Connections /\ Spoiled' = Spoiled \cup Spoiled'
  BY DEF TypeOK, Spoiled
<1>2. \A c \in Contexts : Direction(c)' \in Relay!Stages
  BY DEF Direction, Relay!Stages
<1>3. \A c \in Contexts : pending'[SendOp(c)] \in Nat
  BY Operations DEF TypeOK
<1>4. Relay!Stray(Spoiled')
  BY <1>1, <1>2, <1>3, RelayNames DEF Relay!Stray
<1> QED
  BY <1>1, <1>4 DEF Relay!Next

-----------------------------------------------------------------------------
(* The steps of ProxyRelay, as steps of ConnectionRelay.                   *)

(* The accept thread gives up on the first receives of S, contexts of k.   *)
LEMMA GivenUp ==
  ASSUME TypeOK, TypeOK', ReceiveInv,
         UNCHANGED <<wpc, wpkt, wctx, pending, port, life, Spoiled>>,
         NEW k \in Connections, NEW S \in SUBSET {Local(k), Proxy(k)}, S # {},
         \A c \in S : life[c] # "none" /\ BeforeFirstReceive(c) /\ ~BeforeFirstReceive(c)',
         \A c \in Contexts :
           c \notin S => life[c] = "none" \/ (BeforeFirstReceive(c)' <=> BeforeFirstReceive(c))
  PROVE  Relay!Next
<1>1. \A c \in S : c \in Contexts /\ c[1] = k
  BY Pairing
<1>2. \A c \in Contexts :
        (HoldsChunk(c)' <=> HoldsChunk(c)) /\ (AwaitsChunk(c)' <=> AwaitsChunk(c))
  BY DEF HoldsChunk, AwaitsChunk, Carrying, Rearming
<1>3. \A c \in Contexts : c \notin S => Direction(c)' = Direction(c)
  BY <1>2, DirectionStays DEF NotStarted
<1>4. CASE k \in Spoiled
  BY <1>1, <1>3, <1>4, StrayStep
<1>5. CASE k \notin Spoiled
  <2>1. ASSUME NEW c \in S
        PROVE  Direction(c) # "ended" /\ Direction(c)' = "ended"
    <3>1. ~HoldsChunk(c) /\ ~AwaitsChunk(c)
      BY <1>1, <1>5, IdleHasNone DEF ReceiveInv, FirstReceiveIsFirst
    <3> QED
      BY <1>1, <1>2, <3>1 DEF Direction, NotStarted
  <2>2. (\E c \in Contexts : S = {c}) \/ S = {Local(k), Proxy(k)}
    BY Pairing
  <2> QED
    BY <1>1, <1>3, <2>1, <2>2, StopStep
<1> QED
  BY <1>4, <1>5

(* A worker that gives up c's chunk, or its next receive, ends c's         *)
(* direction.                                                              *)
LEMMA Dropped ==
  ASSUME TypeOK, TypeOK', OwnershipInv, ReceiveInv, NEW w \in Workers, NEW c \in Contexts,
         wctx[w] = c, wpc[w] \in {"forward", "fill", "recv"}, NEW s \in {"unsent", "remove"},
         wpc' = [wpc EXCEPT ![w] = s],
         UNCHANGED <<apc, aconn, wpkt, wctx, pending, port, life, Spoiled>>
  PROVE  Relay!Next
<1>1. \A v \in Workers : wpc'[v] = IF v = w THEN s ELSE wpc[v]
  BY DEF TypeOK
<1>2. \A d \in Contexts : NotStarted(d)' <=> NotStarted(d)
  BY DEF NotStarted, BeforeFirstReceive
<1>3. ASSUME NEW d \in Contexts, d # c
      PROVE  Direction(d)' = Direction(d)
  <2>1. \A v \in Workers : /\ Carrying(v, d)' <=> Carrying(v, d)
                           /\ Rearming(v, d)' <=> Rearming(v, d)
    BY <1>1, <1>3 DEF Carrying, Rearming, Done
  <2>2. /\ HoldsChunk(d)' <=> HoldsChunk(d)
        /\ AwaitsChunk(d)' <=> AwaitsChunk(d)
    BY <2>1 DEF HoldsChunk, AwaitsChunk
  <2> QED
    BY <1>2, <2>2, DirectionStays
<1>4. CASE c[1] \in Spoiled
  BY <1>3, <1>4, StrayStep
<1>5. CASE c[1] \notin Spoiled
  <2>0. Carrying(w, c) \/ Rearming(w, c)
    BY DEF Carrying, Rearming
  <2>1. /\ pending[RecvOp(c)] = 0 /\ port[Done(RecvOp(c), TRUE)] = 0
        /\ \A v \in Workers : Carrying(v, c) \/ Rearming(v, c) => v = w
        /\ ~NotStarted(c)
    BY <1>5, <2>0, Placed
  <2>2. \A v \in Workers : ~Carrying(v, c)' /\ ~Rearming(v, c)'
    <3> SUFFICES ASSUME NEW v \in Workers
                 PROVE  ~Carrying(v, c)' /\ ~Rearming(v, c)'
      OBVIOUS
    <3>1. CASE v = w
      <4>1. wpc'[v] = s
        BY <1>1, <3>1
      <4> QED
        BY <4>1 DEF Carrying, Rearming
    <3>2. CASE v # w
      <4>1. (Carrying(v, c)' <=> Carrying(v, c)) /\ (Rearming(v, c)' <=> Rearming(v, c))
        BY <1>1, <3>2 DEF Carrying, Rearming, Done
      <4> QED
        BY <2>1, <3>2, <4>1
    <3> QED
      BY <3>1, <3>2
  <2>3. ~HoldsChunk(c)' /\ ~AwaitsChunk(c)'
    BY <2>1, <2>2 DEF HoldsChunk, AwaitsChunk
  <2>4. Direction(c) # "ended" /\ Direction(c)' = "ended"
    BY <1>2, <2>0, <2>1, <2>3 DEF Direction, HoldsChunk, AwaitsChunk
  <2> DEFINE S == {c}
  <2>5. /\ S \in SUBSET Contexts /\ \E d \in Contexts : S = {d}
        /\ \A d \in S : Direction(d) # "ended"
        /\ \A d \in Contexts : Direction(d)' = IF d \in S THEN "ended" ELSE Direction(d)
    BY <1>3, <2>4
  <2>6. \A d \in Contexts : pending'[SendOp(d)] = pending[SendOp(d)]
    OBVIOUS
  <2> HIDE DEF S
  <2> QED
    BY <2>5, <2>6, StopStep
<1> QED
  BY <1>4, <1>5

RelayInv == OwnershipInv /\ ReceiveInv /\ SetUpInv

(* Owners let go: a proxy context is destroyed with or after its local one. *)
LEMMA ReleaseStep ==
  ASSUME TypeOK, OwnershipInv, SetUpInv, Release(Held(list', ahold', wctx', wfwd')),
         Held(list', ahold', wctx', wfwd') \subseteq Held(list, ahold, wctx, wfwd),
         apc = "associate" => ahold' = ahold, UNCHANGED Spoiled,
         UNCHANGED pending, \A c \in Contexts : Direction(c)' = Direction(c)
  PROVE  Relay!Next
<1> DEFINE held == Held(list', ahold', wctx', wfwd')
           S == Freed(held)
<1>1. /\ S \subseteq Contexts /\ \A c \in S : life[c] = "live" /\ c \notin held
      /\ life' = [c \in Contexts |-> IF c \in S THEN "dead" ELSE life[c]]
      /\ link' = link
  BY DEF Freed, Unkept, Release
<1>2. LinkShape'
  BY OwnersShrink
<1>3. ASSUME NEW k \in Connections, Proxy(k) \in S, Local(k) \notin S,
             life[Local(k)] # "dead"
      PROVE  FALSE
  <2>1. life[Proxy(k)] = "live" /\ life'[Proxy(k)] = "dead" /\ Local(k) \in Contexts
    BY <1>1, <1>3, Pairing
  <2>2. life[Local(k)] = "live" /\ life'[Local(k)] = "live"
    BY <1>1, <1>3, <2>1 DEF OwnershipInv, LifeShape, TypeOK
  <2>3. CASE link[Local(k)] = "strong"
    BY <1>1, <1>2, <2>1, <2>2, <2>3 DEF LinkShape
  <2>4. CASE apc = "associate" /\ aconn = k
    <3>1. Proxy(k) \in ahold'
      BY <2>4 DEF OwnershipInv, AcceptHolds
    <3> QED
      BY <1>1, <1>3, <3>1 DEF Held
  <2> QED
    BY <2>1, <2>3, <2>4 DEF SetUpInv, Paired
<1> QED
  BY <1>1, <1>3, CloseStep

(* The steps of the accept thread.                                         *)
LEMMA AcceptMaps ==
  ASSUME TypeOK, TypeOK', RelayInv, Accept
  PROVE  Relay!Next \/ UNCHANGED Relay!vars
<1> USE DEF RelayInv, mainVars, workerVars, workVars, histVars, objVars, ioVars
<1>a. UNCHANGED Spoiled
  BY DEF Spoiled, Accept, AcceptNothing, AcceptConnection, InitRemoteConnection,
     InitRemoteConnectionFails, AssociateWithIOCP, AddToClientList, PostLocalRecv,
     PostProxyRecv, PostFirstRecv, AcceptReturns, CloseAccepted, DropLocal, DropProxy,
     AbortContext, MakeContext
<1>0. aconn \in Connections \/ apc \in {"off", "wait", "done"}
  BY DEF TypeOK
<1>1. CASE AcceptNothing
  <2>1. \A c \in Contexts : NotStarted(c)' <=> NotStarted(c)
    BY <1>1, LoopTestType DEF AcceptNothing, NotStarted, BeforeFirstReceive
  <2> QED
    BY <1>a, <1>1, <2>1, DirectionsStay, StutterStep DEF AcceptNothing
<1>2. ASSUME NEW k \in Connections, AcceptConnection(k)
      PROVE  Relay!Next
  <2> USE <1>2 DEF AcceptConnection, MakeContext
  <2>1. Local(k) \in Contexts /\ life[Local(k)] = "none" /\ life[Proxy(k)] = "none"
    BY Pairing DEF OwnershipInv, LifeShape
  <2>2. \A c \in Contexts :
          /\ life'[c] = IF c = Local(k) THEN "live" ELSE life[c]
          /\ c[1] = k => life[c] = "none"
    BY <2>1, Pairing DEF TypeOK
  <2>3. \A c \in Contexts : NotStarted(c)' <=> NotStarted(c)
    BY <2>1, <2>2, Pairing DEF NotStarted, BeforeFirstReceive
  <2>4. ASSUME NEW j \in Connections \ Spoiled, life[Local(j)] = "live", life[Proxy(j)] = "none"
        PROVE  FALSE
    <3>1. Local(j) \in Held(list, ahold, wctx, wfwd)
      BY <2>4, Pairing DEF OwnershipInv, NoLeak, BuddyKeeps
    <3>2. Local(j) \notin ahold
      BY DEF OwnershipInv, AcceptHolds
    <3>3. ASSUME NEW w \in Workers, wfwd[w] = Local(j)
          PROVE  FALSE
      <4>1. wctx[w] \in Contexts /\ Local(j) = Buddy(wctx[w])
        BY <2>4, <3>3, Pairing, NoneAssumption DEF TypeOK, Sending, Handling, Contexts
      <4>2. wctx[w] = Proxy(j)
        BY <2>4, <4>1, Pairing
      <4> QED
        BY <2>4, <4>1, <4>2 DEF OwnershipInv, HeldAreLive, Held
    <3>4. Unknown(Local(j))
      BY <2>4 DEF SetUpInv, Spoiled
    <3> QED
      BY <3>1, <3>2, <3>3, <3>4 DEF Unknown, Held
  <2>5. \A c \in Contexts : Direction(c)' = Direction(c)
    BY <2>3, DirectionsStay
  <2> QED
    BY <1>a, <2>1, <2>4, <2>5, MakeStep
<1>3. CASE InitRemoteConnection
  <2> USE <1>3 DEF InitRemoteConnection, MakeContext
  <2>1. /\ aconn \in Connections /\ Proxy(aconn) \in Contexts
        /\ life[Local(aconn)] = "live" /\ life[Proxy(aconn)] = "none"
    BY <1>0, Pairing DEF OwnershipInv, AcceptHolds, HeldAreLive, Held
  <2>2. \A c \in Contexts : life'[c] = IF c = Proxy(aconn) THEN "live" ELSE life[c]
    BY <2>1 DEF TypeOK
  <2>3. \A c \in Contexts : NotStarted(c)' <=> NotStarted(c)
    BY <2>1, <2>2, Pairing DEF NotStarted, BeforeFirstReceive
  <2>4. \A c \in Contexts : Direction(c)' = Direction(c)
    BY <2>3, DirectionsStay
  <2> QED
    BY <1>a, <2>1, <2>4, MakeStep
<1>4. CASE InitRemoteConnectionFails
  <2> USE <1>4 DEF InitRemoteConnectionFails
  <2> DEFINE S == {Local(aconn)}
  <2>1. /\ aconn \in Connections /\ S \subseteq Contexts
        /\ life[Local(aconn)] = "live" /\ life[Proxy(aconn)] = "none"
    BY <1>0, Pairing DEF OwnershipInv, AcceptHolds, HeldAreLive, Held
  <2>2. /\ \A c \in S : life[c] # "none" /\ BeforeFirstReceive(c) /\ ~BeforeFirstReceive(c)'
        /\ \A c \in Contexts :
             c \notin S => life[c] = "none" \/ (BeforeFirstReceive(c)' <=> BeforeFirstReceive(c))
    BY <2>1, Pairing DEF BeforeFirstReceive
  <2>3. S \in SUBSET {Local(aconn), Proxy(aconn)} /\ S # {}
    OBVIOUS
  <2> HIDE DEF S
  <2> QED
    BY <1>a, <2>1, <2>2, <2>3, GivenUp
<1>5. ASSUME apc \in {"associate", "recvLocal"}, apc' = "abort",
             UNCHANGED <<aconn, wpc, wpkt, wctx, pending, port, life>>
      PROVE  Relay!Next
  <2> DEFINE S == {Local(aconn), Proxy(aconn)}
  <2>1. /\ aconn \in Connections /\ S \subseteq Contexts
        /\ \A c \in S : life[c] = "live" /\ c[1] = aconn
    BY <1>0, <1>5, Pairing DEF OwnershipInv, AcceptHolds, HeldAreLive, Held
  <2>2. /\ \A c \in S : life[c] # "none" /\ BeforeFirstReceive(c) /\ ~BeforeFirstReceive(c)'
        /\ \A c \in Contexts :
             c \notin S => life[c] = "none" \/ (BeforeFirstReceive(c)' <=> BeforeFirstReceive(c))
    BY <1>5, <2>1, Pairing DEF BeforeFirstReceive
  <2>3. S \in SUBSET {Local(aconn), Proxy(aconn)} /\ S # {}
    OBVIOUS
  <2> HIDE DEF S
  <2> QED
    BY <1>a, <1>5, <2>1, <2>2, <2>3, GivenUp
<1>6. CASE AssociateWithIOCP
  <2>1. CASE apc' = "abort"
    BY <1>5, <1>6, <2>1 DEF AssociateWithIOCP
  <2>2. CASE apc' = "publish"
    <3>1. \A c \in Contexts : NotStarted(c)' <=> NotStarted(c)
      BY <1>6, <2>2 DEF AssociateWithIOCP, NotStarted, BeforeFirstReceive
    <3> QED
      BY <1>a, <1>6, <3>1, DirectionsStay, StutterStep DEF AssociateWithIOCP
  <2> QED
    BY <1>6, <2>1, <2>2 DEF AssociateWithIOCP
<1>7. CASE AddToClientList \/ CloseAccepted
  <2>1. \A c \in Contexts : NotStarted(c)' <=> NotStarted(c)
    BY <1>7 DEF AddToClientList, CloseAccepted, NotStarted, BeforeFirstReceive
  <2> QED
    BY <1>a, <1>7, <2>1, DirectionsStay, StutterStep DEF AddToClientList, CloseAccepted
<1>8. ASSUME NEW c \in Contexts, NEW next \in {"recvProxy", "return"},
             Post(RecvOp(c)), apc' = next, aconn = c[1], life[Buddy(c)] = "live",
             UNCHANGED <<aconn, workerVars, list, objVars, port>>,
             IF c[2] = "local" THEN apc = "recvLocal" /\ next = "recvProxy"
                               ELSE apc = "recvProxy" /\ next = "return"
      PROVE  Relay!Next
  <2> USE <1>8
  <2>1. /\ life[c] = "live" /\ BeforeFirstReceive(c) /\ ~BeforeFirstReceive(c)'
        /\ RecvOp(c) \in Overlapped
    BY Pairing, PostMade, Operations DEF BeforeFirstReceive
  <2>2. \A o \in Overlapped : pending'[o] = IF o = RecvOp(c) THEN pending[o] + 1 ELSE pending[o]
    BY <2>1 DEF Post, TypeOK
  <2>3. \A d \in Contexts :
          /\ HoldsChunk(d)' <=> HoldsChunk(d)
          /\ d # c => (AwaitsChunk(d)' <=> AwaitsChunk(d))
    BY <2>2, Operations DEF HoldsChunk, AwaitsChunk, Carrying, Rearming
  <2>4. ASSUME NEW d \in Contexts, d # c
        PROVE  Direction(d)' = Direction(d)
    <3>1. NotStarted(d)' <=> NotStarted(d)
      BY <2>4, Pairing DEF NotStarted, BeforeFirstReceive
    <3> QED
      BY <2>3, <2>4, <3>1, DirectionStays
  <2>5. \A d \in Contexts : pending'[SendOp(d)] = pending[SendOp(d)]
    BY <2>2, Operations
  <2>6. CASE c[1] \in Spoiled
    BY <1>a, <2>4, <2>5, <2>6, StrayStep
  <2>7. CASE c[1] \notin Spoiled
    <3>1. ~HoldsChunk(c) /\ ~AwaitsChunk(c) /\ pending[RecvOp(c)] \in Nat
      <4>1. Idle(c)
        BY <2>1, <2>7 DEF ReceiveInv, FirstReceiveIsFirst
      <4> QED
        BY <2>1, <4>1, IdleHasNone, OutstandingType
    <3>2. AwaitsChunk(c)'
      BY <2>1, <2>2, <3>1 DEF AwaitsChunk
    <3>3. Direction(c) = "new" /\ Direction(c)' = "reading"
      BY <2>1, <2>3, <3>1, <3>2 DEF Direction, NotStarted
    <3>4. c = Proxy(c[1]) => Direction(Buddy(c)) # "new"
      BY Pairing DEF Direction, NotStarted, BeforeFirstReceive
    <3> QED
      BY <1>a, <2>1, <2>4, <2>5, <3>3, <3>4, MoveStep
  <2> QED
    BY <2>6, <2>7
<1>9. CASE PostLocalRecv
  <2> USE <1>9 DEF PostLocalRecv, PostFirstRecv
  <2>1. /\ aconn \in Connections /\ Local(aconn) \in Contexts
        /\ life[Buddy(Local(aconn))] = "live"
    BY <1>0, Pairing DEF OwnershipInv, AcceptHolds, HeldAreLive, Held
  <2>2. CASE Post(RecvOp(Local(aconn))) /\ apc' = "recvProxy"
    BY <1>8, <2>1, <2>2, Pairing
  <2>3. CASE UNCHANGED pending /\ apc' = "abort"
    BY <1>5, <2>3
  <2> QED
    BY <2>2, <2>3
<1>10. CASE PostProxyRecv
  <2> USE <1>10 DEF PostProxyRecv, PostFirstRecv
  <2> DEFINE S == {Proxy(aconn)}
  <2>1. /\ aconn \in Connections /\ S \subseteq Contexts
        /\ life[Buddy(Proxy(aconn))] = "live" /\ life[Proxy(aconn)] = "live"
    BY <1>0, Pairing DEF OwnershipInv, AcceptHolds, HeldAreLive, Held
  <2>2. CASE Post(RecvOp(Proxy(aconn))) /\ apc' = "return"
    BY <1>8, <2>1, <2>2, Pairing
  <2>3. CASE UNCHANGED pending /\ apc' = "abort"
    <3>1. /\ \A c \in S : life[c] # "none" /\ BeforeFirstReceive(c) /\ ~BeforeFirstReceive(c)'
          /\ \A c \in Contexts :
               c \notin S => life[c] = "none" \/ (BeforeFirstReceive(c)' <=> BeforeFirstReceive(c))
      BY <2>1, <2>3, Pairing DEF BeforeFirstReceive
    <3>2. S \in SUBSET {Local(aconn), Proxy(aconn)} /\ S # {}
      OBVIOUS
    <3> HIDE DEF S
    <3> QED
      BY <1>a, <2>1, <2>3, <3>1, <3>2, GivenUp
  <2> QED
    BY <2>2, <2>3
<1>11. CASE AcceptReturns \/ DropLocal \/ DropProxy
  <2>1. /\ Release(Held(list', ahold', wctx', wfwd'))
        /\ Held(list', ahold', wctx', wfwd') \subseteq Held(list, ahold, wctx, wfwd)
    BY <1>11 DEF AcceptReturns, DropLocal, DropProxy, AbortContext, Held
  <2>2. \A c \in Contexts : life'[c] = "none" <=> life[c] = "none"
    BY <2>1, OwnersShrink
  <2>3. \A c \in Contexts : NotStarted(c)' <=> NotStarted(c)
    BY <1>11, <2>2, LoopTestType
    DEF AcceptReturns, DropLocal, DropProxy, NotStarted, BeforeFirstReceive
  <2>4. /\ UNCHANGED <<wpc, wpkt, wctx, pending, port>> /\ apc # "associate"
    BY <1>11 DEF AcceptReturns, DropLocal, DropProxy, AbortContext
  <2>5. \A c \in Contexts : Direction(c)' = Direction(c)
    BY <2>3, <2>4, DirectionsStay
  <2> QED
    BY <1>a, <2>1, <2>4, <2>5, ReleaseStep
<1> QED
  BY <1>1, <1>2, <1>3, <1>4, <1>6, <1>7, <1>9, <1>10, <1>11 DEF Accept

(* A worker of an unspoiled connection is nobody's double.                 *)
LEMMA NotTorn ==
  ASSUME TypeOK, ReceiveInv, NEW w \in Workers, NEW c \in Contexts, wctx[w] = c,
         wpc[w] \in {"fill", "recv"}, c[1] \notin Spoiled
  PROVE  ~Torn(w)
BY DEF Torn, Receiving, ReceiveInv, OneReceivePerContext

(* What a worker's call does to the operations.                            *)
LEMMA CallMoves ==
  ASSUME TypeOK, NEW o \in Overlapped, NEW w \in Workers, PostOrTear(w, o)
  PROVE  /\ \A q \in Overlapped : /\ port'[Done(q, TRUE)] = port[Done(q, TRUE)]
                                  /\ q # o => pending'[q] = pending[q]
         /\ ~Torn(w) => pending'[o] = pending[o] + 1
<1>1. CASE Post(o) /\ UNCHANGED port
  BY <1>1 DEF Post, TypeOK
<1>2. CASE Torn(w) /\ UNCHANGED pending /\ port' = [port EXCEPT ![Done(o, FALSE)] = @ + 1]
  <2> SUFFICES ASSUME NEW q \in Overlapped
               PROVE  port'[Done(q, TRUE)] = port[Done(q, TRUE)]
    BY <1>2
  <2>1. Done(q, TRUE) # Done(o, FALSE) /\ Done(q, TRUE) \in Packets
    BY Operations
  <2> QED
    BY <1>2, <2>1 DEF TypeOK
<1> QED
  BY <1>1, <1>2 DEF PostOrTear

(* A worker takes the context and the type of its packet's operation: the  *)
(* chunk stays where it is, or a connection is spoiled.                    *)
LEMMA ReadKeyMaps ==
  ASSUME TypeOK, TypeOK', RelayInv, NEW w \in Workers, ReadKey(w)
  PROVE  Relay!Next \/ UNCHANGED Relay!vars
<1> USE DEF RelayInv, acceptVars, objVars
<1>0. /\ UNCHANGED <<apc, aconn, life, pending, port>>
      /\ \A c \in Contexts : NotStarted(c)' <=> NotStarted(c)
  BY DEF ReadKey, ioVars, NotStarted, BeforeFirstReceive
<1>1. CASE UNCHANGED workerVars
  <2>1. \A c \in Contexts, v \in Workers : /\ Carrying(v, c)' <=> Carrying(v, c)
                                           /\ Rearming(v, c)' <=> Rearming(v, c)
    BY <1>1 DEF workerVars, workVars, Carrying, Rearming, Done
  <2>2. \A c \in Contexts : Direction(c)' = Direction(c)
    BY <1>0, <2>1, DirectionStays DEF HoldsChunk, AwaitsChunk, Done
  <2>3. UNCHANGED Spoiled
    BY <1>1 DEF workerVars, workVars, histVars, Spoiled
  <2> QED
    BY <1>0, <2>2, <2>3, StutterStep
<1>2. CASE ~UNCHANGED workerVars
  <2> DEFINE p == wpkt[w]
             e == wpkt[w].op.ctx
  <2>1. p \in Packets /\ p.op \in Overlapped /\ e \in Contexts /\ p.ok \in BOOLEAN
    BY Operations DEF ReadKey, TypeOK
  <2> PICK c \in SlotContexts(e), t \in IoTypes(p.op) :
         /\ wctx' = [wctx EXCEPT ![w] = c]
         /\ wpkt' = [wpkt EXCEPT ![w] = None]
         /\ wpc' = [wpc EXCEPT ![w] = Dispatch(p.ok, t)]
         /\ crossed' = crossed \cup IF c # e THEN {c[1], e[1]} ELSE {}
         /\ mistyped' = mistyped \cup IF p.ok /\ t # p.op.type THEN {e[1]} ELSE {}
    BY <1>2 DEF ReadKey, workerVars, workVars, histVars
  <2>2. wpc[w] = "deref"
    BY DEF ReadKey
  <2>3. \A v \in Workers :
          /\ wpc'[v] = IF v = w THEN Dispatch(p.ok, t) ELSE wpc[v]
          /\ wctx'[v] = IF v = w THEN c ELSE wctx[v]
          /\ v # w => wpkt'[v] = wpkt[v]
    BY DEF TypeOK
  <2>4. /\ Dispatch(p.ok, t) \in {"forward", "remove", "drop"}
        /\ Dispatch(p.ok, t) = "forward" <=> p.ok /\ t = "OP_READ"
    <3>1. t \in {"OP_READ", "OP_WRITE"}
      BY <2>1 DEF IoTypes, Overlapped
    <3> QED
      BY <2>1, <3>1 DEF Dispatch
  <2>5. \A d \in Contexts :
          p = Done(RecvOp(d), TRUE) <=> p.ok /\ p.op.type = "OP_READ" /\ e = d
    <3> SUFFICES ASSUME NEW d \in Contexts
                 PROVE  p = Done(RecvOp(d), TRUE) <=> p.ok /\ p.op.type = "OP_READ" /\ e = d
      OBVIOUS
    <3>1. p = Done(RecvOp(d), TRUE) => p.ok /\ p.op.type = "OP_READ" /\ e = d
      BY DEF Done, RecvOp
    <3>2. p.op.type = "OP_READ" /\ e = d => p.op = RecvOp(d)
      BY <2>1 DEF Overlapped, RecvOp
    <3>3. p = Done(p.op, p.ok)
      BY <2>1, Operations
    <3> QED
      BY <2>1, <3>1, <3>2, <3>3
  <2>6. /\ Spoiled \subseteq Spoiled'
        /\ e[1] \notin Spoiled' => c = e /\ (p.ok => t = p.op.type)
        /\ c[1] \notin Spoiled' => c = e
    BY DEF Spoiled
  <2>7. wpkt[w] = p
    OBVIOUS
  <2> HIDE DEF p, e
  <2>8. ASSUME NEW d \in Contexts, d[1] \notin Spoiled', NEW v \in Workers
        PROVE  /\ Carrying(v, d)' <=> Carrying(v, d)
               /\ Rearming(v, d)' <=> Rearming(v, d)
    <3>1. CASE v # w
      BY <2>3, <3>1 DEF Carrying, Rearming, Done
    <3>2. CASE v = w
      <4>1. Carrying(w, d) <=> p = Done(RecvOp(d), TRUE)
        BY <2>2, <2>7 DEF Carrying
      <4>2. Carrying(w, d)' <=> p.ok /\ t = "OP_READ" /\ c = d
        BY <2>3, <2>4 DEF Carrying
      <4>3. ~Rearming(w, d) /\ ~Rearming(w, d)'
        BY <2>2, <2>3, <2>4 DEF Rearming
      <4>4. c = d => c[1] \notin Spoiled' /\ e = d
        BY <2>6, <2>8
      <4>5. e = d => c = d /\ (p.ok => t = p.op.type)
        BY <2>6, <2>8
      <4>6. Carrying(w, d)' <=> Carrying(w, d)
        BY <2>5, <4>1, <4>2, <4>4, <4>5
      <4> QED
        BY <3>2, <4>3, <4>6
    <3> QED
      BY <3>1, <3>2
  <2>9. ASSUME NEW d \in Contexts, d[1] \notin Spoiled'
        PROVE  Direction(d)' = Direction(d)
    BY <1>0, <2>8, <2>9, DirectionStays DEF HoldsChunk, AwaitsChunk, Done
  <2> QED
    BY <1>0, <2>6, <2>9, StrayStep
<1> QED
  BY <1>1, <1>2

(* The send of a chunk to the other end.                                   *)
LEMMA PostSendMaps ==
  ASSUME TypeOK, TypeOK', RelayInv, NEW w \in Workers, PostSend(w)
  PROVE  Relay!Next
<1> USE DEF RelayInv, acceptVars, objVars
<1> DEFINE x == wctx[w]
           o == SendOp(Buddy(x))
<1>1. /\ x \in Contexts /\ life[x] = "live" /\ Buddy(x) \in Contexts /\ o \in Overlapped
      /\ wfwd[w] = Buddy(x) /\ life[Buddy(x)] = "live" /\ Carrying(w, x)
  <2>1. x \in Contexts /\ wfwd[w] = Buddy(x)
    BY DEF PostSend, TypeOK, Handling, Sending
  <2>2. Buddy(x) \in Contexts
    BY <2>1, Pairing
  <2> QED
    BY <2>1, <2>2, Operations DEF PostSend, OwnershipInv, HeldAreLive, Held, Carrying
<1>2. UNCHANGED <<apc, aconn, wpkt, wctx, life, Spoiled>> /\ wpc[w] = "fill"
  BY DEF PostSend, workVars, histVars, Spoiled
<1>3. CASE UNCHANGED ioVars /\ wpc' = [wpc EXCEPT ![w] = "unsent"]
  BY <1>1, <1>2, <1>3, Dropped DEF ioVars
<1>4. CASE PostOrTear(w, o) /\ wpc' = [wpc EXCEPT ![w] = "sent"]
  <2>1. \A v \in Workers : wpc'[v] = IF v = w THEN "sent" ELSE wpc[v]
    BY <1>4 DEF TypeOK
  <2>2. /\ \A q \in Overlapped : /\ port'[Done(q, TRUE)] = port[Done(q, TRUE)]
                                 /\ q # o => pending'[q] = pending[q]
        /\ ~Torn(w) => pending'[o] = pending[o] + 1
    BY <1>1, <1>4, CallMoves
  <2>3. \A c \in Contexts : /\ pending'[RecvOp(c)] = pending[RecvOp(c)]
                            /\ port'[Done(RecvOp(c), TRUE)] = port[Done(RecvOp(c), TRUE)]
                            /\ c # Buddy(x) => pending'[SendOp(c)] = pending[SendOp(c)]
    <3>1. \A c, d \in Contexts : SendOp(c) = SendOp(d) => c = d
      BY Operations
    <3>2. \A c \in Contexts : RecvOp(c) \in Overlapped /\ SendOp(c) \in Overlapped /\ RecvOp(c) # o
      BY <1>1, Operations
    <3> HIDE DEF o
    <3>3. \A c \in Contexts : c # Buddy(x) => SendOp(c) # o
      BY <1>1, <3>1 DEF o
    <3> QED
      BY <2>2, <3>2, <3>3
  <2>4. ASSUME NEW c \in Contexts, c # x
        PROVE  Direction(c)' = Direction(c)
    <3>1. \A v \in Workers : /\ Carrying(v, c)' <=> Carrying(v, c)
                             /\ Rearming(v, c)' <=> Rearming(v, c)
      BY <1>2, <2>1, <2>4 DEF Carrying, Rearming, Done
    <3>2. (HoldsChunk(c)' <=> HoldsChunk(c)) /\ (AwaitsChunk(c)' <=> AwaitsChunk(c))
      BY <2>3, <3>1 DEF HoldsChunk, AwaitsChunk, Done
    <3>3. NotStarted(c)' <=> NotStarted(c)
      BY <1>2 DEF NotStarted, BeforeFirstReceive
    <3> QED
      BY <3>2, <3>3, DirectionStays
  <2>5. CASE x[1] \in Spoiled
    <3>1. Buddy(x)[1] = x[1]
      BY <1>1, Pairing
    <3>2. \A c \in Contexts : c[1] \notin Spoiled' => c # x /\ c # Buddy(x)
      BY <1>2, <2>5, <3>1
    <3> QED
      BY <1>2, <2>3, <2>4, <3>2, StrayStep
  <2>6. CASE x[1] \notin Spoiled
    <3>1. pending'[o] = pending[o] + 1
      BY <1>1, <1>2, <2>2, <2>6, NotTorn
    <3>2. /\ port[Done(RecvOp(x), TRUE)] = 0
          /\ \A v \in Workers : Carrying(v, x) => v = w
      BY <1>1, <2>6, Placed
    <3>3. ASSUME NEW v \in Workers PROVE ~Carrying(v, x)'
      <4>1. CASE v = w
        <5>1. wpc'[v] = "sent"
          BY <2>1, <4>1
        <5> QED
          BY <5>1 DEF Carrying
      <4>2. CASE v # w
        <5>1. Carrying(v, x)' <=> Carrying(v, x)
          BY <1>2, <2>1, <4>2 DEF Carrying, Done
        <5> QED
          BY <3>2, <4>2, <5>1
      <4> QED
        BY <4>1, <4>2
    <3>4. ~HoldsChunk(x)'
      BY <1>1, <1>2, <2>3, <3>2, <3>3 DEF HoldsChunk, Done
    <3>5. AwaitsChunk(x)'
      BY <1>2, <2>1 DEF AwaitsChunk, Rearming
    <3>6. Direction(x) = "holding" /\ Direction(x)' = "reading"
      BY <1>1, <1>2, <3>4, <3>5 DEF Direction, HoldsChunk
    <3>7. \A c \in Contexts : pending'[SendOp(c)] = IF c = Buddy(x) THEN pending[SendOp(c)] + 1
                                                    ELSE pending[SendOp(c)]
      BY <2>3, <3>1
    <3> QED
      BY <1>1, <1>2, <2>4, <3>6, <3>7, PassStep
  <2> QED
    BY <2>5, <2>6
<1> QED
  BY <1>1, <1>3, <1>4 DEF PostSend

(* The next receive of a direction.                                        *)
LEMMA RecvMaps ==
  ASSUME TypeOK, TypeOK', RelayInv, NEW w \in Workers, Recv(w)
  PROVE  Relay!Next \/ UNCHANGED Relay!vars
<1> USE DEF RelayInv, acceptVars, objVars
<1> DEFINE x == wctx[w]
           o == RecvOp(x)
<1>1. x \in Contexts /\ o \in Overlapped /\ wpc[w] = "recv"
  BY Operations DEF Recv, TypeOK, Handling
<1>2. UNCHANGED <<apc, aconn, wpkt, wctx, life, Spoiled>>
  BY DEF Recv, workVars, histVars, Spoiled
<1>3. CASE UNCHANGED ioVars /\ wpc' = [wpc EXCEPT ![w] = "remove"]
  BY <1>1, <1>2, <1>3, Dropped DEF ioVars
<1>4. CASE PostOrTear(w, o) /\ wpc' = [wpc EXCEPT ![w] = "drop"]
  <2>1. \A v \in Workers : wpc'[v] = IF v = w THEN "drop" ELSE wpc[v]
    BY <1>4 DEF TypeOK
  <2>2. /\ \A q \in Overlapped : /\ port'[Done(q, TRUE)] = port[Done(q, TRUE)]
                                 /\ q # o => pending'[q] = pending[q]
        /\ ~Torn(w) => pending'[o] = pending[o] + 1
    BY <1>1, <1>4, CallMoves
  <2>3. \A c \in Contexts, v \in Workers : /\ Carrying(v, c)' <=> Carrying(v, c)
                                           /\ c # x => (Rearming(v, c)' <=> Rearming(v, c))
    BY <1>1, <1>2, <2>1 DEF Carrying, Rearming, Done
  <2>4. \A c \in Contexts : /\ HoldsChunk(c)' <=> HoldsChunk(c)
                            /\ c # x => (AwaitsChunk(c)' <=> AwaitsChunk(c))
                            /\ NotStarted(c)' <=> NotStarted(c)
                            /\ pending'[SendOp(c)] = pending[SendOp(c)]
    <3>1. \A c \in Contexts : /\ RecvOp(c) \in Overlapped /\ SendOp(c) \in Overlapped
                              /\ SendOp(c) # o /\ (c # x => RecvOp(c) # o)
      BY <1>1, Operations
    <3>2. \A c \in Contexts :
            NotStarted(c)' <=> NotStarted(c)
      BY <1>2 DEF NotStarted, BeforeFirstReceive
    <3>3. \A c \in Contexts : /\ port'[Done(RecvOp(c), TRUE)] = port[Done(RecvOp(c), TRUE)]
                              /\ pending'[SendOp(c)] = pending[SendOp(c)]
                              /\ c # x => pending'[RecvOp(c)] = pending[RecvOp(c)]
      BY <2>2, <3>1
    <3> QED
      BY <2>3, <3>2, <3>3 DEF HoldsChunk, AwaitsChunk, Done
  <2>5. \A c \in Contexts : c # x => Direction(c)' = Direction(c)
    BY <2>4, DirectionStays
  <2>6. CASE x[1] \in Spoiled
    BY <1>2, <2>4, <2>5, <2>6, StrayStep
  <2>7. CASE x[1] \notin Spoiled
    <3>1. pending'[o] = pending[o] + 1 /\ pending[o] \in Nat
      BY <1>1, <2>2, <2>7, NotTorn DEF TypeOK
    <3>2. pending'[o] > 0
      BY <3>1
    <3>3. AwaitsChunk(x)' /\ AwaitsChunk(x)
      BY <1>1, <1>2, <3>2 DEF AwaitsChunk, Rearming
    <3>4. ASSUME NEW c \in Contexts, c = x
          PROVE  Direction(c)' = Direction(c)
      <4>1. AwaitsChunk(c)' <=> AwaitsChunk(c)
        BY <1>2, <3>3, <3>4
      <4> QED
        BY <2>4, <4>1, DirectionStays
    <3>5. \A c \in Contexts : Direction(c)' = Direction(c)
      BY <2>5, <3>4
    <3> QED
      BY <1>2, <2>4, <3>5, StutterStep
  <2> QED
    BY <2>6, <2>7
<1> QED
  BY <1>3, <1>4 DEF Recv

(* The steps of a worker.                                                  *)
LEMMA WorkerMaps ==
  ASSUME TypeOK, TypeOK', RelayInv, NEW w \in Workers, Worker(w)
  PROVE  Relay!Next \/ UNCHANGED Relay!vars
<1> USE DEF RelayInv, mainVars, acceptVars, objVars
<1>1. ASSUME UNCHANGED <<apc, aconn, life, pending, Spoiled>>,
             \A c \in Contexts : /\ HoldsChunk(c)' <=> HoldsChunk(c)
                                 /\ AwaitsChunk(c)' <=> AwaitsChunk(c)
      PROVE  UNCHANGED Relay!vars
  <2>1. \A c \in Contexts : NotStarted(c)' <=> NotStarted(c)
    BY <1>1 DEF NotStarted, BeforeFirstReceive
  <2> QED
    BY <1>1, <2>1, DirectionStays, StutterStep
<1>2. ASSUME UNCHANGED ioVars,
             \A c \in Contexts, v \in Workers : /\ Carrying(v, c)' <=> Carrying(v, c)
                                                /\ Rearming(v, c)' <=> Rearming(v, c)
      PROVE  \A c \in Contexts : /\ HoldsChunk(c)' <=> HoldsChunk(c)
                                 /\ AwaitsChunk(c)' <=> AwaitsChunk(c)
  BY <1>2 DEF HoldsChunk, AwaitsChunk, ioVars, Done
<1>3. CASE TakeQuit(w) \/ KeyFaults(w) \/ RemoveFromClientListAndCleanUpMemory(w)
  <2>1. \A c \in Contexts, v \in Workers : /\ Carrying(v, c)' <=> Carrying(v, c)
                                           /\ Rearming(v, c)' <=> Rearming(v, c)
    BY <1>3 DEF TakeQuit, KeyFaults, RemoveFromClientListAndCleanUpMemory, workerVars,
       workVars, Carrying, Rearming, Done, TypeOK
  <2>2. UNCHANGED <<apc, aconn, life, ioVars, Spoiled>>
    BY <1>3 DEF TakeQuit, KeyFaults, RemoveFromClientListAndCleanUpMemory, workerVars,
       workVars, histVars, Spoiled
  <2> QED
    BY <1>1, <1>2, <2>1, <2>2 DEF ioVars
<1>4. ASSUME NEW p \in Packets, TakePacket(w, p)
      PROVE  UNCHANGED Relay!vars
  <2>1. \A v \in Workers : /\ wpc'[v] = IF v = w THEN "deref" ELSE wpc[v]
                           /\ wpkt'[v] = IF v = w THEN p ELSE wpkt[v]
    BY <1>4 DEF TakePacket, TypeOK
  <2>2. /\ port' = [port EXCEPT ![p] = @ - 1] /\ port[p] > 0 /\ wpc[w] = "wait"
        /\ UNCHANGED <<apc, aconn, life, wctx, pending, Spoiled>>
    BY <1>4 DEF TakePacket, histVars, Spoiled
  <2>3. ASSUME NEW c \in Contexts
        PROVE  /\ HoldsChunk(c)' <=> HoldsChunk(c)
               /\ AwaitsChunk(c)' <=> AwaitsChunk(c)
    <3>1. \A v \in Workers : Rearming(v, c)' <=> Rearming(v, c)
      BY <2>1, <2>2 DEF Rearming
    <3>2. \A v \in Workers :
            Carrying(v, c)' <=> IF v = w THEN p = Done(RecvOp(c), TRUE) ELSE Carrying(v, c)
      BY <2>1, <2>2 DEF Carrying, Done
    <3>3. ~Carrying(w, c)
      BY <2>2 DEF Carrying
    <3>4. Done(RecvOp(c), TRUE) \in Packets
      BY Operations
    <3>5. p # Done(RecvOp(c), TRUE) => port'[Done(RecvOp(c), TRUE)] = port[Done(RecvOp(c), TRUE)]
      BY <2>2, <3>4 DEF TypeOK
    <3>6. HoldsChunk(c)' <=> port'[Done(RecvOp(c), TRUE)] > 0 \/ \E v \in Workers : Carrying(v, c)'
      BY DEF HoldsChunk, Done
    <3>7. HoldsChunk(c)' <=> HoldsChunk(c)
      BY <2>2, <3>2, <3>3, <3>5, <3>6 DEF HoldsChunk
    <3> QED
      BY <2>2, <3>1, <3>7 DEF AwaitsChunk
  <2> QED
    BY <1>1, <2>2, <2>3
<1>5. CASE Forward(w)
  <2> USE <1>5 DEF Forward
  <2>1. UNCHANGED <<apc, aconn, wpkt, wctx, life, ioVars, Spoiled>> /\ wctx[w] \in Contexts
    BY DEF workVars, histVars, Spoiled, TypeOK, Handling
  <2>2. CASE NoBuddy(wctx[w])
    BY <2>1, <2>2, Dropped DEF ioVars
  <2>3. CASE ~NoBuddy(wctx[w])
    <3>1. \A v \in Workers : wpc'[v] = IF v = w THEN "send" ELSE wpc[v]
      BY <2>3 DEF TypeOK
    <3>2. \A c \in Contexts, v \in Workers : /\ Carrying(v, c)' <=> Carrying(v, c)
                                             /\ Rearming(v, c)' <=> Rearming(v, c)
      BY <2>1, <3>1 DEF Carrying, Rearming, Done
    <3> QED
      BY <1>1, <1>2, <2>1, <3>2 DEF ioVars
  <2> QED
    BY <2>2, <2>3
<1>6. CASE Send(w)
  <2> USE <1>6 DEF Send
  <2>1. UNCHANGED <<apc, aconn, wpkt, wctx, life, ioVars, Spoiled>>
    BY DEF histVars, Spoiled
  <2>2. \A v \in Workers : wpc'[v] = wpc[v] \/ (v = w /\ wpc'[v] = "fill")
    BY DEF TypeOK
  <2>3. \A c \in Contexts, v \in Workers : /\ Carrying(v, c)' <=> Carrying(v, c)
                                           /\ Rearming(v, c)' <=> Rearming(v, c)
    BY <2>1, <2>2 DEF Carrying, Rearming, Done
  <2> QED
    BY <1>1, <1>2, <2>1, <2>3 DEF ioVars
<1>7. CASE EndForward(w) \/ EndIteration(w)
  <2>1. /\ Release(Held(list', ahold', wctx', wfwd'))
        /\ Held(list', ahold', wctx', wfwd') \subseteq Held(list, ahold, wctx, wfwd)
    BY <1>7, WorkerLetsGo
  <2>2. UNCHANGED <<apc, aconn, ahold, wpkt, ioVars, Spoiled>>
    BY <1>7 DEF EndForward, EndIteration, histVars, Spoiled
  <2>3. \A c \in Contexts : NotStarted(c)' <=> NotStarted(c)
    BY <2>1, <2>2, OwnersShrink DEF NotStarted, BeforeFirstReceive
  <2>4. \A c \in Contexts, v \in Workers : /\ Carrying(v, c)' <=> Carrying(v, c)
                                           /\ Rearming(v, c)' <=> Rearming(v, c)
    <3>1. CASE EndForward(w)
      <4>1. \A v \in Workers : wpc'[v] = IF v = w THEN AfterForward(wpc[w]) ELSE wpc[v]
        BY <3>1 DEF EndForward, TypeOK
      <4> QED
        BY <2>2, <3>1, <4>1 DEF EndForward, AfterForward, Carrying, Rearming, Done
    <3>2. CASE EndIteration(w)
      <4>1. \A v \in Workers : /\ wpc'[v] = IF v = w THEN LoopTest ELSE wpc[v]
                               /\ v # w => wctx'[v] = wctx[v]
        BY <3>2 DEF EndIteration, TypeOK
      <4> QED
        BY <2>2, <3>2, <4>1, LoopTestType DEF EndIteration, Carrying, Rearming, Done
    <3> QED
      BY <1>7, <3>1, <3>2
  <2>5. \A c \in Contexts : Direction(c)' = Direction(c)
    BY <1>2, <2>2, <2>3, <2>4, DirectionStays
  <2> QED
    BY <2>1, <2>2, <2>5, ReleaseStep DEF ioVars
<1> QED
  BY <1>3, <1>4, <1>5, <1>6, <1>7, ReadKeyMaps, PostSendMaps, RecvMaps DEF Worker, Handle

(* The steps of the others.                                                *)
LEMMA NetworkMaps ==
  ASSUME TypeOK, TypeOK', RelayInv, Network
  PROVE  Relay!Next \/ UNCHANGED Relay!vars
<1> USE DEF RelayInv, acceptVars, workerVars, workVars, histVars, objVars
<1>1. UNCHANGED <<apc, aconn, wpc, wpkt, wctx, life, Spoiled>>
  BY DEF Network, PeerLeaves, DataArrives, SendCompletes, OperationFails, Complete, Spoiled
<1>2. \A c \in Contexts : /\ NotStarted(c)' <=> NotStarted(c)
                          /\ \A w \in Workers : /\ Carrying(w, c)' <=> Carrying(w, c)
                                                /\ Rearming(w, c)' <=> Rearming(w, c)
  BY <1>1 DEF NotStarted, BeforeFirstReceive, Carrying, Rearming, Done
<1>3. ASSUME NEW c \in Contexts, PeerLeaves(c)
      PROVE  UNCHANGED Relay!vars
  BY <1>1, <1>2, <1>3, DirectionsStay, StutterStep DEF PeerLeaves, ioVars
<1>4. ASSUME NEW o \in Overlapped, NEW ok \in BOOLEAN, Complete(o, ok)
      PROVE  /\ pending[o] > 0
             /\ \A q \in Overlapped :
                  pending'[q] = IF q = o THEN pending[q] - 1 ELSE pending[q]
             /\ \A q \in Overlapped :
                  port'[Done(q, TRUE)] = IF q = o /\ ok THEN port[Done(q, TRUE)] + 1
                                         ELSE port[Done(q, TRUE)]
  <2>1. \A q \in Overlapped : Done(q, TRUE) = Done(o, ok) <=> q = o /\ ok
    BY <1>4, Operations
  <2>2. \A q \in Overlapped : Done(q, TRUE) \in Packets
    BY Operations
  <2> QED
    BY <1>4, <2>1, <2>2 DEF Complete, TypeOK
<1>5. ASSUME NEW c \in Contexts, NEW o \in Overlapped, NEW ok \in BOOLEAN, Complete(o, ok),
             o # RecvOp(c)
      PROVE  Direction(c)' = Direction(c)
  <2>1. RecvOp(c) \in Overlapped
    BY Operations
  <2>2. pending'[RecvOp(c)] = pending[RecvOp(c)]
        /\ port'[Done(RecvOp(c), TRUE)] = port[Done(RecvOp(c), TRUE)]
    BY <1>4, <1>5, <2>1
  <2>3. (HoldsChunk(c)' <=> HoldsChunk(c)) /\ (AwaitsChunk(c)' <=> AwaitsChunk(c))
    BY <1>2, <2>2 DEF HoldsChunk, AwaitsChunk, Done
  <2> QED
    BY <1>2, <2>3, DirectionStays
<1>6. ASSUME NEW c \in Contexts, NEW ok \in BOOLEAN, Complete(SendOp(c), ok)
      PROVE  Relay!Next
  <2>1. \A d \in Contexts : Direction(d)' = Direction(d)
    BY <1>5, <1>6, Operations
  <2>2. \A d \in Contexts : pending'[SendOp(d)] = IF d = c THEN pending[SendOp(d)] - 1
                                                  ELSE pending[SendOp(d)]
    <3>1. \A d \in Contexts : SendOp(d) \in Overlapped /\ (SendOp(d) = SendOp(c) => d = c)
      BY Operations
    <3>2. \A q \in Overlapped :
            pending'[q] = IF q = SendOp(c) THEN pending[q] - 1 ELSE pending[q]
      BY <1>4, <1>6, <3>1
    <3> QED
      BY <3>1, <3>2
  <2>3. pending[SendOp(c)] > 0
    BY <1>6 DEF Complete
  <2> QED
    BY <1>1, <2>1, <2>2, <2>3, FinishStep
<1>7. ASSUME NEW c \in Contexts, NEW ok \in BOOLEAN, Complete(RecvOp(c), ok),
             ok => life[c] = "live"
      PROVE  Relay!Next
  <2> DEFINE o == RecvOp(c)
  <2>0. /\ o \in Overlapped
        /\ \A q \in Overlapped :
             /\ pending'[q] = IF q = o THEN pending[q] - 1 ELSE pending[q]
             /\ port'[Done(q, TRUE)] = IF q = o /\ ok THEN port[Done(q, TRUE)] + 1
                                       ELSE port[Done(q, TRUE)]
    BY <1>4, <1>7, Operations DEF Done
  <2>1. \A d \in Contexts : /\ d # c => Direction(d)' = Direction(d)
                            /\ pending'[SendOp(d)] = pending[SendOp(d)]
    <3>1. ASSUME NEW d \in Contexts, d # c
          PROVE  Direction(d)' = Direction(d)
      <4>1. o # RecvOp(d)
        BY <3>1, Operations
      <4> QED
        BY <1>5, <1>7, <2>0, <3>1, <4>1
    <3>2. \A d \in Contexts : SendOp(d) \in Overlapped /\ SendOp(d) # o
      BY Operations
    <3> QED
      BY <2>0, <3>1, <3>2
  <2>a. CASE c[1] \in Spoiled
    BY <1>1, <2>1, <2>a, StrayStep
  <2>b. CASE c[1] \notin Spoiled
    <3>2. /\ RecvOp(c) \in Overlapped /\ pending[RecvOp(c)] = 1 /\ ~HoldsChunk(c)
          /\ ~NotStarted(c) /\ \A w \in Workers : ~Rearming(w, c)
      BY <1>4, <1>7, <2>b, Placed, Operations
    <3>3. Direction(c) = "reading"
      BY <3>2 DEF Direction, AwaitsChunk
    <3>4. CASE ok
      <4>1. /\ port'[Done(RecvOp(c), TRUE)] = port[Done(RecvOp(c), TRUE)] + 1
            /\ port[Done(RecvOp(c), TRUE)] \in Nat
        BY <2>0, <3>4, OutstandingType
      <4>2. port'[Done(RecvOp(c), TRUE)] > 0
        BY <4>1 DEF Done
      <4>3. HoldsChunk(c)'
        BY <4>2 DEF HoldsChunk, Done
      <4>4. Direction(c)' = "holding"
        BY <4>3 DEF Direction
      <4> QED
        BY <1>1, <1>7, <2>1, <3>3, <3>4, <4>4, MoveStep
    <3>5. CASE ~ok
      <4>1. pending'[RecvOp(c)] = 0 /\ port'[Done(RecvOp(c), TRUE)] = port[Done(RecvOp(c), TRUE)]
        BY <2>0, <3>2, <3>5 DEF Done
      <4>2. ~HoldsChunk(c)' /\ ~AwaitsChunk(c)'
        BY <1>2, <3>2, <4>1 DEF HoldsChunk, AwaitsChunk, Done
      <4>3. Direction(c)' = "ended"
        BY <1>2, <3>2, <4>2 DEF Direction
      <4> DEFINE S == {c}
      <4>4. /\ S \in SUBSET Contexts /\ \E d \in Contexts : S = {d}
            /\ \A d \in S : Direction(d) # "ended"
            /\ \A d \in Contexts :
                 /\ Direction(d)' = IF d \in S THEN "ended" ELSE Direction(d)
                 /\ pending'[SendOp(d)] = pending[SendOp(d)]
        BY <2>1, <3>3, <4>3
      <4> HIDE DEF S
      <4> QED
        BY <1>1, <4>4, StopStep
    <3> QED
      BY <3>4, <3>5
  <2> QED
    BY <2>a, <2>b
<1>8. ASSUME NEW c \in Contexts, sock[c] = "open" PROVE life[c] = "live"
  BY <1>8 DEF OwnershipInv, LifeShape
<1>9. ASSUME NEW o \in Overlapped, OperationFails(o)
      PROVE  Relay!Next
  <2>1. PICK c \in Contexts : o = RecvOp(c) \/ o = SendOp(c)
    BY <1>9, Operations
  <2> QED
    BY <1>6, <1>7, <1>9, <2>1 DEF OperationFails
<1> QED
  BY <1>3, <1>6, <1>7, <1>8, <1>9 DEF Network, DataArrives, SendCompletes

(* Those of main map too.                                                  *)
LEMMA MainMaps ==
  ASSUME TypeOK, RelayInv,
         \/ StartUp \/ KeyHit \/ CleanUp
         \/ \E w \in Workers : AfterDeInitialize(w)
  PROVE  Relay!Next \/ UNCHANGED Relay!vars
<1> USE DEF RelayInv, mainVars, acceptVars, workerVars, workVars, histVars, objVars
<1>1. UNCHANGED <<aconn, wpkt, wctx, ioVars, Spoiled>>
  BY DEF StartUp, Initialize, InitializeFails, SetUpFails, StartAccepting, KeyHit,
     CleanUp, JoinAcceptThread, JoinWorkers, CleanClientList, DeInitialize, Return,
     AfterDeInitialize, PortClosed, UseDeleted, Spoiled
<1>2. \A w \in Workers : wpc'[w] = wpc[w] \/ {wpc[w], wpc'[w]} \subseteq {"off", "wait", "done"}
  BY DEF StartUp, Initialize, InitializeFails, SetUpFails, StartAccepting, KeyHit,
     CleanUp, JoinAcceptThread, JoinWorkers, CleanClientList, DeInitialize, Return,
     AfterDeInitialize, PortClosed, UseDeleted, TypeOK
<1>3. \A c \in Contexts, w \in Workers : /\ Carrying(w, c)' <=> Carrying(w, c)
                                         /\ Rearming(w, c)' <=> Rearming(w, c)
  BY <1>1, <1>2 DEF Carrying, Rearming, Done
<1>4. \A c \in Contexts : BeforeFirstReceive(c)' <=> BeforeFirstReceive(c)
  BY <1>1 DEF StartUp, Initialize, InitializeFails, SetUpFails, StartAccepting, KeyHit,
     CleanUp, JoinAcceptThread, JoinWorkers, CleanClientList, DeInitialize, Return,
     AfterDeInitialize, PortClosed, UseDeleted, BeforeFirstReceive, TypeOK
<1>5. ASSUME \A c \in Contexts : life'[c] = "none" <=> life[c] = "none"
      PROVE  \A c \in Contexts : Direction(c)' = Direction(c)
  BY <1>1, <1>3, <1>4, <1>5, DirectionStays DEF HoldsChunk, AwaitsChunk, NotStarted,
     ioVars, Done
<1>6. CASE CleanClientList
  <2>1. /\ Release(Held(list', ahold', wctx', wfwd')) /\ ahold' = ahold
        /\ Held(list', ahold', wctx', wfwd') \subseteq Held(list, ahold, wctx, wfwd)
    BY <1>6 DEF CleanClientList, Held
  <2>2. \A c \in Contexts : life'[c] = "none" <=> life[c] = "none"
    BY <2>1, OwnersShrink
  <2> QED
    BY <1>1, <1>5, <2>1, <2>2, ReleaseStep DEF ioVars
<1>7. CASE ~CleanClientList
  <2>1. UNCHANGED life
    BY <1>7 DEF StartUp, Initialize, InitializeFails, SetUpFails, StartAccepting, KeyHit,
       CleanUp, JoinAcceptThread, JoinWorkers, DeInitialize, Return, AfterDeInitialize,
       PortClosed, UseDeleted
  <2> QED
    BY <1>1, <1>5, <2>1, StutterStep DEF ioVars
<1> QED
  BY <1>6, <1>7

(* To the connections the proxy is ConnectionRelay: each chunk read from   *)
(* an end is passed on once, to the other end of the same connection, or   *)
(* is the last of its direction, and a server is not closed under its      *)
(* client. A key that yields another context's pointer, or a send taken    *)
(* for a receive, spoils the connections it is about and no others.        *)
THEOREM ProxyRefinesRelay == Spec => RefinesConnectionRelay
<1>1. ASSUME Init PROVE Relay!Init
  <2>0. ASSUME NEW c \in Contexts
        PROVE  /\ life[c] = "none" /\ pending[SendOp(c)] = 0 /\ pending[RecvOp(c)] = 0
               /\ port[Done(RecvOp(c), TRUE)] = 0
               /\ \A w \in Workers : ~Carrying(w, c) /\ ~Rearming(w, c)
    <3>1. /\ SendOp(c) \in Overlapped /\ RecvOp(c) \in Overlapped
          /\ Done(RecvOp(c), TRUE) \in Packets
      BY Operations
    <3> QED
      BY <1>1, <3>1 DEF Init, Carrying, Rearming
  <2>1. \A c \in Contexts : /\ life[c] = "none"
                            /\ ~HoldsChunk(c) /\ ~AwaitsChunk(c)
                            /\ pending[SendOp(c)] = 0
    BY <2>0 DEF HoldsChunk, AwaitsChunk, Done
  <2>2. \A c \in Contexts : Direction(c) = "new"
    BY <2>1 DEF Direction, NotStarted
  <2> QED
    BY <1>1, <2>1, <2>2, RelayNames DEF Init, Relay!Init, Spoiled
<1>2. TypeOK /\ TypeOK' /\ RelayInv /\ [Next]_vars => [Relay!Next]_(Relay!vars)
  <2> SUFFICES ASSUME TypeOK, TypeOK', RelayInv, [Next]_vars
               PROVE  Relay!Next \/ UNCHANGED Relay!vars
    OBVIOUS
  <2>1. CASE UNCHANGED vars
    <3>1. UNCHANGED <<apc, aconn, wpc, wpkt, wctx, pending, port, life, Spoiled>>
      BY <2>1 DEF vars, acceptVars, workerVars, workVars, histVars, ioVars, objVars, Spoiled
    <3>2. \A c \in Contexts : NotStarted(c)' <=> NotStarted(c)
      BY <3>1 DEF NotStarted, BeforeFirstReceive
    <3> QED
      BY <3>1, <3>2, DirectionsStay, StutterStep
  <2>2. CASE Next /\ ~UNCHANGED vars
    BY <2>2, AcceptMaps, WorkerMaps, NetworkMaps, MainMaps DEF Next, Stopped
  <2> QED
    BY <2>1, <2>2
<1>3. OwnershipInv /\ ReceiveInv /\ SetUpInv => RelayInv
  BY DEF RelayInv
<1> QED
  BY <1>1, <1>2, <1>3, TypeCorrect, Ownership, ReceiveInvariance, SetUpInvariance, PTL
  DEF Spec, RefinesConnectionRelay, Relay!Spec
=============================================================================
