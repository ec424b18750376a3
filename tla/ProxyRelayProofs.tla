-------------------------- MODULE ProxyRelayProofs --------------------------
(***************************************************************************)
(* Proofs about ProxyRelay, for any finite set of workers, any set of      *)
(* connections and any outcome of reading a completion key.                *)
(***************************************************************************)
EXTENDS ProxyRelay, TLAPS, FiniteSetTheorems

-----------------------------------------------------------------------------
(* The pairing of contexts.                                                *)

(* Buddy pairs the contexts: it is its own inverse, and a connection has   *)
(* exactly two contexts, each the other's buddy.                           *)
LEMMA Pairing ==
  /\ \A k \in Connections :
       /\ Local(k) \in Contexts /\ Proxy(k) \in Contexts
       /\ Local(k) # Proxy(k)
       /\ Buddy(Local(k)) = Proxy(k) /\ Buddy(Proxy(k)) = Local(k)
       /\ Local(k)[1] = k /\ Local(k)[2] = "local"
       /\ Proxy(k)[1] = k /\ Proxy(k)[2] = "proxy"
  /\ \A c \in Contexts :
       /\ Buddy(c) \in Contexts
       /\ Buddy(c) # c /\ Buddy(Buddy(c)) = c
       /\ c[1] \in Connections
       /\ c = Local(c[1]) \/ c = Proxy(c[1])
BY DEF Contexts, Local, Proxy, Buddy

(* The OVERLAPPEDs of a context are its receive and its send; those of     *)
(* different contexts differ.                                              *)
LEMMA Operations ==
  /\ \A c \in Contexts :
       /\ RecvOp(c) \in Overlapped /\ RecvOp(c).ctx = c
       /\ SendOp(c) \in Overlapped /\ SendOp(c).ctx = c
       /\ RecvOp(c) # SendOp(c)
  /\ \A c, d \in Contexts : RecvOp(c) = RecvOp(d) => c = d
  /\ \A c, d \in Contexts : RecvOp(c) # SendOp(d)
  /\ \A o \in Overlapped : o.ctx \in Contexts /\ (o = RecvOp(o.ctx) \/ o = SendOp(o.ctx))
  /\ \A o \in Overlapped, ok \in BOOLEAN : Done(o, ok) \in Packets
  /\ \A p \in Packets : p.op \in Overlapped /\ p.ok \in BOOLEAN /\ p = Done(p.op, p.ok)
  /\ \A o, q \in Overlapped, ok, kq \in BOOLEAN :
       Done(o, ok) = Done(q, kq) => o = q /\ ok = kq
BY DEF Overlapped, RecvOp, SendOp, Packets, Done

-----------------------------------------------------------------------------
(* Type correctness.                                                       *)

(* The loop test sends a thread to its wait or to its return.              *)
LEMMA LoopTestType == LoopTest \in {"done", "wait"}
BY DEF LoopTest

(* Letting go of contexts keeps life and sock well typed.                  *)
LEMMA ReleaseType ==
  ASSUME NEW held, TypeOK, Release(held)
  PROVE  /\ life' \in [Contexts -> {"none", "live", "dead"}]
         /\ sock' \in [Contexts -> {"none", "open", "gone", "closed"}]
         /\ link' \in [Contexts -> {"none", "strong", "weak"}]
         /\ handle' \in [Contexts -> Contexts]
         /\ undef' \in Undefined
BY DEF TypeOK, Release, Undefined

(* The steps of the accept thread keep the types.                          *)
LEMMA AcceptType ==
  ASSUME TypeOK, Accept
  PROVE  TypeOK'
<1> USE DEF mainVars, workerVars, workVars, histVars, objVars, ioVars
<1>0. apc # "off" /\ main \notin {"start", "setup"}
  BY DEF Accept, AcceptNothing, AcceptConnection, InitRemoteConnection,
     InitRemoteConnectionFails, AssociateWithIOCP, AddToClientList, PostLocalRecv,
     PostProxyRecv, AcceptReturns, CloseAccepted, DropLocal, DropProxy, TypeOK
<1> USE <1>0
<1>1. CASE AcceptNothing
  BY <1>1, LoopTestType DEF AcceptNothing, TypeOK, AcceptStates
<1>2. CASE \E k \in Connections : AcceptConnection(k)
  <2> PICK k \in Connections : AcceptConnection(k)
    BY <1>2
  <2> QED
    BY Pairing DEF AcceptConnection, MakeContext, TypeOK, AcceptStates
<1>3. CASE InitRemoteConnection
  BY <1>3, Pairing DEF InitRemoteConnection, MakeContext, TypeOK, AcceptStates
<1>4. CASE InitRemoteConnectionFails
  BY <1>4 DEF InitRemoteConnectionFails, TypeOK, AcceptStates
<1>5. CASE AssociateWithIOCP
  BY <1>5 DEF AssociateWithIOCP, SetBuddy, TypeOK, AcceptStates
<1>6. CASE AddToClientList
  BY <1>6, Pairing DEF AddToClientList, TypeOK, AcceptStates
<1>7. CASE PostLocalRecv
  BY <1>7 DEF PostLocalRecv, PostFirstRecv, Post, TypeOK, AcceptStates
<1>8. CASE PostProxyRecv
  BY <1>8 DEF PostProxyRecv, PostFirstRecv, Post, TypeOK, AcceptStates
<1>9. CASE AcceptReturns
  BY <1>9, LoopTestType, ReleaseType DEF AcceptReturns, TypeOK, AcceptStates
<1>10. CASE CloseAccepted
  BY <1>10 DEF CloseAccepted, TypeOK, AcceptStates
<1>11. CASE DropLocal
  BY <1>11, ReleaseType DEF DropLocal, AbortContext, TypeOK, AcceptStates
<1>12. CASE DropProxy
  BY <1>12, LoopTestType, ReleaseType DEF DropProxy, AbortContext, TypeOK, AcceptStates
<1> QED
  BY <1>1, <1>2, <1>3, <1>4, <1>5, <1>6, <1>7, <1>8, <1>9, <1>10, <1>11, <1>12
  DEF Accept

(* ReadKey leaves a worker in one of three states that hold a context.     *)
LEMMA DispatchType ==
  ASSUME NEW p \in Packets, NEW t \in IoTypes(p.op)
  PROVE  Dispatch(p.ok, t) \in {"forward", "remove", "drop"}
<1>1. t \in {"OP_READ", "OP_WRITE"} /\ p.ok \in BOOLEAN
  BY DEF IoTypes, Packets, Overlapped
<1> QED
  BY <1>1 DEF Dispatch

(* The steps of a worker keep the types.                                   *)
LEMMA WorkerType ==
  ASSUME TypeOK, NEW w \in Workers, Worker(w)
  PROVE  TypeOK'
<1> USE DEF mainVars, acceptVars, workerVars, workVars, histVars, objVars, ioVars
<1>0. wpc[w] # "off" /\ main # "start"
  BY DEF Worker, Handle, TakeQuit, TakePacket, KeyFaults, ReadKey, Forward, Send,
     PostSend, EndForward, Recv, RemoveFromClientListAndCleanUpMemory, EndIteration,
     TypeOK
<1> USE <1>0
<1>1. CASE TakeQuit(w)
  BY <1>1 DEF TakeQuit, TypeOK, WorkerStates, Handling, Sending
<1>2. CASE \E p \in Packets : TakePacket(w, p)
  <2> PICK p \in Packets : TakePacket(w, p)
    BY <1>2
  <2> QED
    BY DEF TakePacket, TypeOK, WorkerStates, Handling, Sending
<1>3. CASE KeyFaults(w)
  BY <1>3 DEF KeyFaults, TypeOK, Undefined
<1>4. CASE ReadKey(w)
  <2>1. wpkt[w] \in Packets
    BY <1>4 DEF ReadKey, TypeOK
  <2>2. wpc[w] = "deref"
    BY <1>4 DEF ReadKey
  <2>3. SlotContexts(wpkt[w].op.ctx) \subseteq Contexts
    BY <2>1, Operations DEF SlotContexts
  <2>4. CASE UNCHANGED workerVars
    BY <1>4, <2>4 DEF ReadKey, TypeOK, Undefined
  <2>5. CASE ~UNCHANGED workerVars
    <3> DEFINE p == wpkt[w]
    <3> PICK c \in SlotContexts(p.op.ctx), t \in IoTypes(p.op) :
           /\ wctx' = [wctx EXCEPT ![w] = c]
           /\ wpkt' = [wpkt EXCEPT ![w] = None]
           /\ wpc' = [wpc EXCEPT ![w] = Dispatch(p.ok, t)]
           /\ crossed' = crossed \cup IF c # p.op.ctx THEN {c[1], p.op.ctx[1]} ELSE {}
           /\ mistyped' = mistyped \cup
                IF p.ok /\ t # p.op.type THEN {p.op.ctx[1]} ELSE {}
           /\ UNCHANGED undef
      BY <1>4, <2>5 DEF ReadKey
    <3>1. Dispatch(p.ok, t) \in {"forward", "remove", "drop"}
      BY <2>1, DispatchType
    <3>2. c \in Contexts /\ c[1] \in Connections /\ p.op.ctx[1] \in Connections
      BY <2>1, <2>3, Operations, Pairing
    <3>3. crossed' \subseteq Connections /\ mistyped' \subseteq Connections
      BY <3>2 DEF TypeOK
    <3> HIDE DEF p
    <3>4. \A v \in Workers :
            /\ wpc'[v] = IF v = w THEN Dispatch(p.ok, t) ELSE wpc[v]
            /\ wctx'[v] = IF v = w THEN c ELSE wctx[v]
            /\ wpkt'[v] = IF v = w THEN None ELSE wpkt[v]
            /\ wfwd'[v] = wfwd[v]
      BY <1>4 DEF ReadKey, TypeOK
    <3>5. wfwd[w] = None
      BY <2>2 DEF TypeOK, Sending
    <3>6. /\ wpc' \in [Workers -> WorkerStates]
          /\ wpkt' \in [Workers -> Packets \cup {None}]
          /\ wctx' \in [Workers -> Contexts \cup {None}]
          /\ wfwd' \in [Workers -> Contexts \cup {None}]
      BY <1>4, <3>1, <3>2 DEF ReadKey, TypeOK, WorkerStates, Handling, Sending
    <3>7. \A v \in Workers :
            /\ IF wpc'[v] \in Handling THEN wctx'[v] \in Contexts ELSE wctx'[v] = None
            /\ wfwd'[v] = IF wpc'[v] \in Sending THEN Buddy(wctx'[v]) ELSE None
            /\ IF wpc'[v] = "deref" THEN wpkt'[v] \in Packets ELSE wpkt'[v] = None
      BY <3>1, <3>2, <3>4, <3>5 DEF TypeOK, Handling, Sending
    <3> QED
      BY <1>4, <3>3, <3>6, <3>7 DEF ReadKey, TypeOK
  <2> QED
    BY <2>4, <2>5
<1>5. CASE Forward(w)
  BY <1>5 DEF Forward, TypeOK, WorkerStates, Handling, Sending
<1>6. CASE Send(w)
  <2>1. wctx[w] \in Contexts /\ Buddy(wctx[w]) \in Contexts
    BY <1>6, Pairing DEF Send, TypeOK, Handling
  <2>2. CASE NoBuddy(wctx[w])
    BY <1>6, <2>2 DEF Send, TypeOK, Undefined
  <2>3. CASE ~NoBuddy(wctx[w])
    <3>1. \A v \in Workers :
            /\ wpc'[v] = IF v = w THEN "fill" ELSE wpc[v]
            /\ wfwd'[v] = IF v = w THEN Buddy(wctx[w]) ELSE wfwd[v]
      BY <1>6, <2>3 DEF Send, TypeOK
    <3>2. /\ wpc' \in [Workers -> WorkerStates]
          /\ wfwd' \in [Workers -> Contexts \cup {None}]
      BY <1>6, <2>1, <2>3 DEF Send, TypeOK, WorkerStates, Handling, Sending
    <3>3. wpc[w] = "send" /\ UNCHANGED <<wpkt, wctx>>
      BY <1>6 DEF Send
    <3>4. \A v \in Workers :
            /\ IF wpc'[v] \in Handling THEN wctx'[v] \in Contexts ELSE wctx'[v] = None
            /\ wfwd'[v] = IF wpc'[v] \in Sending THEN Buddy(wctx'[v]) ELSE None
            /\ IF wpc'[v] = "deref" THEN wpkt'[v] \in Packets ELSE wpkt'[v] = None
      BY <2>1, <3>1, <3>3 DEF TypeOK, Handling, Sending
    <3> QED
      BY <1>6, <2>3, <3>2, <3>4 DEF Send, TypeOK
  <2> QED
    BY <2>2, <2>3
<1>10. ASSUME NEW o \in Overlapped, PostOrTear(w, o)
       PROVE  pending' \in [Overlapped -> Nat] /\ port' \in [Packets -> Nat]
  <2>1. Done(o, FALSE) \in Packets
    BY DEF Done, Packets
  <2>2. pending \in [Overlapped -> Nat] /\ port \in [Packets -> Nat]
    BY DEF TypeOK
  <2>3. CASE Post(o) /\ UNCHANGED port
    BY <2>2, <2>3 DEF Post
  <2>4. CASE UNCHANGED pending /\ port' = [port EXCEPT ![Done(o, FALSE)] = @ + 1]
    <3> DEFINE q == Done(o, FALSE)
    <3>1. q \in Packets /\ port' = [port EXCEPT ![q] = @ + 1]
      BY <2>1, <2>4
    <3> HIDE DEF q
    <3>2. port' \in [Packets -> Nat]
      BY <2>2, <3>1
    <3> QED
      BY <2>2, <2>4, <3>2
  <2> QED
    BY <1>10, <2>3, <2>4 DEF PostOrTear
<1>11. CASE PostSend(w)
  <2>1. wfwd[w] \in Contexts /\ SendOp(wfwd[w]) \in Overlapped
    BY <1>11, Operations, Pairing DEF PostSend, TypeOK, Handling, Sending
  <2>2. pending' \in [Overlapped -> Nat] /\ port' \in [Packets -> Nat]
    BY <1>10, <1>11, <2>1 DEF PostSend, TypeOK
  <2> QED
    BY <1>11, <2>2 DEF PostSend, TypeOK, WorkerStates, Handling, Sending, Undefined
<1>12. CASE EndForward(w)
  <2>1. AfterForward(wpc[w]) \in {"recv", "remove"}
    BY DEF AfterForward
  <2>2. wctx[w] \in Contexts /\ wpc[w] # "deref"
    BY <1>12 DEF EndForward, TypeOK, Handling, Sending
  <2> QED
    BY <1>12, <2>1, <2>2, ReleaseType
    DEF EndForward, TypeOK, WorkerStates, Handling, Sending
<1>7. CASE Recv(w)
  <2>1. RecvOp(wctx[w]) \in Overlapped
    BY <1>7, Operations DEF Recv, TypeOK, Handling
  <2>2. pending' \in [Overlapped -> Nat] /\ port' \in [Packets -> Nat]
    BY <1>7, <1>10, <2>1 DEF Recv, TypeOK
  <2> QED
    BY <1>7, <2>2 DEF Recv, TypeOK, WorkerStates, Handling, Sending, Undefined
<1>8. CASE RemoveFromClientListAndCleanUpMemory(w)
  BY <1>8 DEF RemoveFromClientListAndCleanUpMemory, TypeOK, WorkerStates, Handling, Sending
<1>9. CASE EndIteration(w)
  BY <1>9, LoopTestType, ReleaseType DEF EndIteration, TypeOK, WorkerStates, Handling,
     Sending
<1> QED
  BY <1>1, <1>2, <1>3, <1>4, <1>5, <1>6, <1>7, <1>8, <1>9, <1>11, <1>12 DEF Worker, Handle

(* The steps of main keep the types.                                       *)
LEMMA MainType ==
  ASSUME TypeOK, StartUp \/ KeyHit \/ CleanUp
  PROVE  TypeOK'
<1> USE DEF mainVars, acceptVars, workerVars, workVars, histVars, objVars, ioVars
<1>0. Cardinality(Workers) \in Nat
  BY WorkersAssumption, FS_CardinalityType
<1>1. CASE KeyHit
  BY <1>1 DEF KeyHit, TypeOK, MainStates
<1>2. CASE JoinAcceptThread
  BY <1>0, <1>2 DEF JoinAcceptThread, TypeOK, MainStates
<1>3. CASE JoinWorkers
  BY <1>3 DEF JoinWorkers, TypeOK, MainStates
<1>4. CASE CleanClientList
  BY <1>4, ReleaseType DEF CleanClientList, TypeOK, MainStates
<1>5. CASE DeInitialize \/ Return
  BY <1>5 DEF DeInitialize, Return, TypeOK, MainStates
<1>6. CASE Initialize
  <2>1. \A w \in Workers :
          /\ wpc'[w] \in {"wait", "off"}
          /\ wctx[w] = None /\ wpkt[w] = None /\ wfwd[w] = None
    BY <1>6 DEF Initialize, TypeOK, Handling, Sending
  <2>2. wpc' \in [Workers -> WorkerStates]
    BY <1>6 DEF Initialize, WorkerStates
  <2> QED
    BY <1>6, <2>1, <2>2 DEF Initialize, TypeOK, MainStates, Handling, Sending
<1>7. CASE InitializeFails \/ SetUpFails
  BY <1>7 DEF InitializeFails, SetUpFails, TypeOK, MainStates
<1>8. CASE StartAccepting
  BY <1>8 DEF StartAccepting, TypeOK, MainStates, AcceptStates
<1> QED
  BY <1>1, <1>2, <1>3, <1>4, <1>5, <1>6, <1>7, <1>8 DEF CleanUp, StartUp

(* The steps of the network keep the types.                                *)
LEMMA NetworkType ==
  ASSUME TypeOK, Network
  PROVE  TypeOK'
<1> USE DEF mainVars, acceptVars, workerVars, workVars, histVars, objVars, ioVars
<1>1. ASSUME NEW o \in Overlapped, NEW ok \in BOOLEAN, Complete(o, ok)
      PROVE  TypeOK'
  BY <1>1, Operations DEF Complete, TypeOK
<1>2. ASSUME NEW c \in Contexts, PeerLeaves(c)
      PROVE  TypeOK'
  BY <1>2 DEF PeerLeaves, TypeOK
<1> QED
  BY <1>1, <1>2, Operations DEF Network, DataArrives, SendCompletes, OperationFails

(* What a worker does after DeInitialize keeps the types.                  *)
LEMMA ClosingType ==
  ASSUME TypeOK, main = "closing", NEW w \in Workers, AfterDeInitialize(w)
  PROVE  TypeOK'
BY DEF AfterDeInitialize, PortClosed, UseDeleted, TypeOK, WorkerStates, Handling, Sending,
   Undefined, mainVars, acceptVars, workerVars, workVars, histVars, objVars, ioVars

(* The type invariant.                                                     *)
THEOREM TypeCorrect == Spec => []TypeOK
<1>1. ASSUME Init PROVE TypeOK
  <2>1. \A w \in Workers : wpc[w] = "off" /\ wpkt[w] = None /\ wctx[w] = None /\ wfwd[w] = None
    BY <1>1 DEF Init
  <2>2. /\ wpc \in [Workers -> WorkerStates]
        /\ wpkt \in [Workers -> Packets \cup {None}]
        /\ wctx \in [Workers -> Contexts \cup {None}]
        /\ wfwd \in [Workers -> Contexts \cup {None}]
    BY <1>1 DEF Init, WorkerStates
  <2>3. /\ life \in [Contexts -> {"none", "live", "dead"}]
        /\ link \in [Contexts -> {"none", "strong", "weak"}]
        /\ sock \in [Contexts -> {"none", "open", "gone", "closed"}]
        /\ handle \in [Contexts -> Contexts]
        /\ pending \in [Overlapped -> Nat]
        /\ port \in [Packets -> Nat]
    BY <1>1 DEF Init
  <2> QED
    BY <1>1, <2>1, <2>2, <2>3
    DEF Init, TypeOK, MainStates, AcceptStates, Handling, Sending, Undefined
<1>2. TypeOK /\ [Next]_vars => TypeOK'
  <2> SUFFICES ASSUME TypeOK, [Next]_vars
               PROVE  TypeOK'
    OBVIOUS
  <2>1. CASE UNCHANGED vars
    BY <2>1 DEF vars, mainVars, acceptVars, workerVars, workVars, histVars, objVars,
       ioVars, TypeOK
  <2>2. CASE Next /\ ~UNCHANGED vars
    BY <2>2, AcceptType, WorkerType, MainType, NetworkType, ClosingType DEF Next, Stopped
  <2> QED
    BY <2>1, <2>2
<1> QED
  BY <1>1, <1>2, PTL DEF Spec

-----------------------------------------------------------------------------
(* Ownership.                                                              *)

(* Only contexts are held.                                                 *)
LEMMA HeldType ==
  ASSUME TypeOK
  PROVE  Held(list, ahold, wctx, wfwd) \subseteq Contexts
BY DEF Held, TypeOK

(* Reference counting frees exactly the contexts out of reach: what is     *)
(* still held stays live, with the proxy of each live local, and what      *)
(* stays live is held or kept by a held local.                             *)
LEMMA ReleaseKeeps ==
  ASSUME TypeOK, LinkShape, LifeShape,
         NEW held \in SUBSET Contexts, \A c \in held : life[c] = "live",
         Release(held)
  PROVE  /\ \A c \in Contexts : life'[c] = "none" <=> life[c] = "none"
         /\ \A c \in held : life'[c] = "live"
         /\ \A c \in Contexts :
              life'[c] = "live" =>
                c \in held \/ (BuddyKeeps(c)' /\ Buddy(c) \in held)
         /\ LinkShape' /\ LifeShape'
<1> DEFINE first == Unkept(held)
<1>1. \A c \in Contexts :
        /\ life'[c] = IF c \in Freed(held) THEN "dead" ELSE life[c]
        /\ sock'[c] = IF c \in Freed(held) THEN "closed" ELSE sock[c]
        /\ link'[c] = link[c]
  BY DEF Release
<1>2. \A c \in Contexts :
        c \in Freed(held) <=>
          life[c] = "live" /\ c \notin held /\ (c \in first \/ Buddy(c) \in first)
  BY DEF Freed, Unkept
<1>3. \A c \in Contexts : life[c] = "none" => c \notin Freed(held)
  BY <1>2
<1>4. \A c \in Contexts : life'[c] = "none" <=> life[c] = "none"
  BY <1>1, <1>3
<1>5. \A c \in held : life'[c] = "live"
  BY <1>1, <1>2
<1>6. \A c \in Contexts :
        life'[c] = "live" => c \in held \/ (BuddyKeeps(c)' /\ Buddy(c) \in held)
  <2> SUFFICES ASSUME NEW c \in Contexts, life'[c] = "live", c \notin held
               PROVE  BuddyKeeps(c)' /\ Buddy(c) \in held
    OBVIOUS
  <2>1. life[c] = "live" /\ c \notin Freed(held)
    BY <1>1
  <2>2. BuddyKeeps(c) /\ Buddy(c) \notin first
    BY <1>2, <2>1 DEF Unkept
  <2>3. link[c] # "strong"
    BY <2>2, Pairing DEF BuddyKeeps, LinkShape
  <2>4. ~BuddyKeeps(Buddy(c))
    BY <2>3, Pairing DEF BuddyKeeps
  <2>5. Buddy(c) \in held
    BY <2>2, <2>4, Pairing DEF Unkept, BuddyKeeps
  <2> QED
    BY <2>2, <2>5, <1>1, <1>5, Pairing DEF BuddyKeeps
<1>7. LinkShape'
  <2> SUFFICES ASSUME NEW k \in Connections,
                      life'[Local(k)] = "live", link'[Local(k)] = "strong"
               PROVE  life'[Proxy(k)] = "live"
    BY <1>1, Pairing DEF LinkShape
  <2>1. life[Local(k)] = "live" /\ Local(k) \notin Freed(held) /\ link[Local(k)] = "strong"
    BY <1>1, Pairing
  <2>2. life[Proxy(k)] = "live" /\ BuddyKeeps(Proxy(k))
    BY <2>1, Pairing DEF LinkShape, BuddyKeeps
  <2>3. Local(k) \notin first
    BY <2>1, Pairing DEF Freed
  <2>4. Proxy(k) \notin Freed(held)
    BY <2>2, <2>3, <1>2, Pairing DEF Unkept
  <2> QED
    BY <1>1, <2>2, <2>4, Pairing
<1>8. LifeShape'
  BY <1>1, <1>4, Pairing DEF LifeShape
<1> QED
  BY <1>4, <1>5, <1>6, <1>7, <1>8

(* No pointer is dropped and no context dies.                              *)
LEMMA OwnersGrow ==
  ASSUME TypeOK, OwnershipInv, UNCHANGED <<life, link>>,
         Held(list, ahold, wctx, wfwd) \subseteq Held(list', ahold', wctx', wfwd'),
         \A c \in Held(list', ahold', wctx', wfwd') :
           c \in Held(list, ahold, wctx, wfwd) \/ life[c] = "live"
  PROVE  HeldAreLive' /\ LinkShape' /\ NoLeak'
<1>1. HeldAreLive'
  BY DEF OwnershipInv, HeldAreLive
<1>2. LinkShape'
  BY DEF OwnershipInv, LinkShape
<1>3. NoLeak'
  BY DEF OwnershipInv, NoLeak, BuddyKeeps
<1> QED
  BY <1>1, <1>2, <1>3

(* Pointers are dropped.                                                   *)
LEMMA OwnersShrink ==
  ASSUME TypeOK, OwnershipInv, Release(Held(list', ahold', wctx', wfwd')),
         Held(list', ahold', wctx', wfwd') \subseteq Held(list, ahold, wctx, wfwd)
  PROVE  /\ HeldAreLive' /\ LinkShape' /\ LifeShape' /\ NoLeak'
         /\ \A c \in Contexts : life'[c] = "none" <=> life[c] = "none"
<1> DEFINE held == Held(list', ahold', wctx', wfwd')
<1>1. held \in SUBSET Contexts /\ \A c \in held : life[c] = "live"
  BY HeldType DEF OwnershipInv, HeldAreLive
<1>2. LinkShape /\ LifeShape
  BY DEF OwnershipInv
<1>3. /\ \A c \in Contexts : life'[c] = "none" <=> life[c] = "none"
      /\ \A c \in held : life'[c] = "live"
      /\ \A c \in Contexts :
           life'[c] = "live" => c \in held \/ (BuddyKeeps(c)' /\ Buddy(c) \in held)
      /\ LinkShape' /\ LifeShape'
  <2> HIDE DEF held
  <2>1. Release(held)
    BY DEF held
  <2> QED
    BY <1>1, <1>2, <2>1, ReleaseKeeps
<1>4. HeldAreLive'
  BY <1>3 DEF HeldAreLive
<1>5. NoLeak'
  BY <1>3 DEF NoLeak
<1> QED
  BY <1>3, <1>4, <1>5

(* Operations stay with contexts that were made.                           *)
LEMMA IoStays ==
  ASSUME TypeOK, IoOfMade,
         \A c \in Contexts : /\ life[c] # "none" => life'[c] # "none"
                             /\ link[c] # "none" => link'[c] # "none",
         \A o \in Overlapped :
           (pending'[o] > 0 \/ \E ok \in BOOLEAN : port'[Done(o, ok)] > 0) =>
             \/ pending[o] > 0 \/ \E ok \in BOOLEAN : port[Done(o, ok)] > 0
             \/ life[o.ctx] # "none",
         \A w \in Workers :
           /\ wpc'[w] = "deref" =>
                 wpc[w] = "deref" /\ wpkt'[w] = wpkt[w]
           /\ wpc'[w] = "send" =>
                 /\ wctx'[w] = wctx[w]
                 /\ wpc[w] = "send" \/ (wpc[w] = "forward" /\ link[wctx[w]] # "none")
  PROVE  IoOfMade'
<1>1. \A o \in Overlapped :
        (pending'[o] > 0 \/ \E ok \in BOOLEAN : port'[Done(o, ok)] > 0) =>
          life'[o.ctx] # "none"
  BY Operations DEF IoOfMade
<1>2. \A w \in Workers : wpc'[w] = "deref" => life'[wpkt'[w].op.ctx] # "none"
  BY Operations DEF IoOfMade, TypeOK
<1>3. \A w \in Workers : wpc'[w] = "send" => link'[wctx'[w]] # "none"
  <2> SUFFICES ASSUME NEW w \in Workers, wpc'[w] = "send"
               PROVE  link'[wctx'[w]] # "none"
    OBVIOUS
  <2>1. link[wctx[w]] # "none" /\ wctx'[w] = wctx[w]
    BY DEF IoOfMade
  <2>2. wctx[w] \in Contexts
    BY DEF TypeOK, Handling
  <2> QED
    BY <2>1, <2>2
<1> QED
  BY <1>1, <1>2, <1>3 DEF IoOfMade

(* An operation is posted on a context whose socket is ours.               *)
LEMMA PostMade ==
  ASSUME TypeOK, OwnershipInv, NEW c \in Contexts, NEW o \in {RecvOp(c), SendOp(c)}, Post(o)
  PROVE  /\ o \in Overlapped /\ o.ctx = c /\ life[c] = "live"
         /\ \A q \in Overlapped : pending'[q] > 0 => pending[q] > 0 \/ life[q.ctx] # "none"
<1>1. o \in Overlapped /\ o.ctx = c
  BY Operations
<1>2. life[c] = "live"
  BY <1>1 DEF Post, OwnershipInv, LifeShape
<1> QED
  BY <1>1, <1>2 DEF Post, TypeOK

(* The same when a worker posts it, torn or not.                           *)
LEMMA PostOrTearMade ==
  ASSUME TypeOK, OwnershipInv, NEW c \in Contexts, NEW o \in {RecvOp(c), SendOp(c)},
         NEW w \in Workers, PostOrTear(w, o)
  PROVE  \A q \in Overlapped :
           (pending'[q] > 0 \/ \E ok \in BOOLEAN : port'[Done(q, ok)] > 0) =>
             \/ pending[q] > 0 \/ \E ok \in BOOLEAN : port[Done(q, ok)] > 0
             \/ life[q.ctx] # "none"
<1>1. o \in Overlapped /\ o.ctx = c
  BY Operations
<1>2. CASE Post(o) /\ UNCHANGED port
  BY <1>2, PostMade
<1>3. CASE sock[c] \in {"open", "gone"} /\ UNCHANGED pending
             /\ port' = [port EXCEPT ![Done(o, FALSE)] = @ + 1]
  <2>1. life[c] # "none"
    BY <1>3 DEF OwnershipInv, LifeShape
  <2>2. \A q \in Overlapped, ok \in BOOLEAN :
          q # o => port'[Done(q, ok)] = port[Done(q, ok)]
    BY <1>1, <1>3 DEF TypeOK, Packets, Done
  <2> QED
    BY <1>1, <1>3, <2>1, <2>2
<1> QED
  BY <1>1, <1>2, <1>3 DEF PostOrTear

(* A context made by the accept thread, and held by it, keeps the          *)
(* ownership invariant.                                                    *)
LEMMA MakeContextOwns ==
  ASSUME TypeOK, OwnershipInv, NEW c \in Contexts, MakeContext(c),
         life[c] = "none", c[2] = "proxy" => life[Buddy(c)] # "none"
  PROVE  HeldAreLive' /\ LinkShape' /\ LifeShape' /\ NoLeak' /\ IoOfMade'
<1> USE DEF mainVars, workerVars, workVars, histVars, ioVars
<1>1. /\ \A d \in Contexts : life'[d] = IF d = c THEN "live" ELSE life[d]
      /\ \A d \in Contexts : sock'[d] = IF d = c THEN "open" ELSE sock[d]
      /\ link' = link
  BY DEF MakeContext, TypeOK
<1>2. Held(list', ahold', wctx', wfwd') = Held(list, ahold, wctx, wfwd) \cup {c}
  BY DEF MakeContext, Held
<1>3. link[c] = "none" /\ link[Buddy(c)] = "none"
  BY Pairing DEF OwnershipInv, LifeShape, LinkShape
<1>4. HeldAreLive'
  BY <1>1, <1>2, HeldType DEF OwnershipInv, HeldAreLive
<1>5. LinkShape'
  BY <1>1, <1>3, Pairing DEF OwnershipInv, LinkShape
<1>6. LifeShape'
  BY <1>1, Pairing DEF OwnershipInv, LifeShape
<1>7. NoLeak'
  BY <1>1, <1>2, <1>3, Pairing DEF OwnershipInv, NoLeak, BuddyKeeps
<1>8. IoOfMade'
  <2>1. wpc' = wpc /\ wpkt' = wpkt /\ wctx' = wctx /\ pending' = pending /\ port' = port
    BY DEF MakeContext
  <2>2. \A w \in Workers : wpc[w] = "send" => wctx[w] \in Contexts
    BY DEF TypeOK, Handling
  <2> QED
    BY <1>1, <2>1, IoStays DEF OwnershipInv
<1> QED
  BY <1>4, <1>5, <1>6, <1>7, <1>8

(* The steps of the accept thread keep the ownership invariant.            *)
LEMMA AcceptOwns ==
  ASSUME TypeOK, OwnershipInv, Accept
  PROVE  OwnershipInv'
<1> USE DEF mainVars, workerVars, workVars, histVars, objVars, ioVars
<1>0. aconn \in Connections \/ apc \in {"off", "wait", "done"}
  BY DEF TypeOK
<1>1. ASSUME UNCHANGED <<ahold, workerVars, list, objVars, ioVars>>
      PROVE  HeldAreLive' /\ LinkShape' /\ LifeShape' /\ NoLeak' /\ IoOfMade'
  <2>1. Held(list', ahold', wctx', wfwd') = Held(list, ahold, wctx, wfwd)
    BY <1>1
  <2>2. LifeShape' /\ IoOfMade'
    BY <1>1 DEF OwnershipInv, LifeShape, IoOfMade
  <2> QED
    BY <1>1, <2>1, <2>2, OwnersGrow
<1>2. CASE AcceptNothing
  BY <1>1, <1>2, LoopTestType DEF AcceptNothing, OwnershipInv, AcceptHolds
<1>3. CASE \E k \in Connections : AcceptConnection(k)
  <2> PICK k \in Connections : AcceptConnection(k)
    BY <1>3
  <2>1. HeldAreLive' /\ LinkShape' /\ LifeShape' /\ NoLeak' /\ IoOfMade'
    BY Pairing, MakeContextOwns DEF AcceptConnection
  <2>2. AcceptHolds'
    BY Pairing DEF AcceptConnection, MakeContext, OwnershipInv, AcceptHolds, LifeShape,
       TypeOK
  <2> QED
    BY <2>1, <2>2 DEF OwnershipInv
<1>4. CASE InitRemoteConnection
  <2>1. /\ aconn \in Connections /\ ahold = {Local(aconn)}
        /\ life[Proxy(aconn)] = "none" /\ life[Local(aconn)] = "live"
    BY <1>4, <1>0 DEF InitRemoteConnection, OwnershipInv, AcceptHolds, HeldAreLive, Held
  <2>2. HeldAreLive' /\ LinkShape' /\ LifeShape' /\ NoLeak' /\ IoOfMade'
    BY <1>4, <2>1, Pairing, MakeContextOwns DEF InitRemoteConnection
  <2>3. link[Local(aconn)] = "none"
    BY <2>1, Pairing DEF OwnershipInv, LifeShape, LinkShape
  <2>4. AcceptHolds'
    BY <1>4, <2>1, <2>3 DEF InitRemoteConnection, MakeContext, AcceptHolds
  <2> QED
    BY <2>2, <2>4 DEF OwnershipInv
<1>5. CASE InitRemoteConnectionFails
  BY <1>1, <1>5 DEF InitRemoteConnectionFails, OwnershipInv, AcceptHolds
<1>6. CASE AssociateWithIOCP
  <2> DEFINE k == aconn
  <2>1. /\ k \in Connections /\ ahold = {Local(k), Proxy(k)}
        /\ life[Local(k)] = "live" /\ life[Proxy(k)] = "live"
        /\ link[Local(k)] = "none" /\ link[Proxy(k)] = "none"
    BY <1>6, <1>0 DEF AssociateWithIOCP, OwnershipInv, AcceptHolds, HeldAreLive, Held,
       LinkShape
  <2>2. \A c \in Contexts :
          link'[c] = IF c = Local(k) THEN "strong" ELSE IF c = Proxy(k) THEN "weak" ELSE link[c]
    BY <1>6, <2>1, Pairing DEF AssociateWithIOCP, SetBuddy, TypeOK
  <2>3. /\ Held(list', ahold', wctx', wfwd') = Held(list, ahold, wctx, wfwd)
        /\ UNCHANGED <<life, sock>>
    BY <1>6 DEF AssociateWithIOCP
  <2>4. HeldAreLive'
    BY <2>3 DEF OwnershipInv, HeldAreLive
  <2>5. LinkShape'
    BY <2>1, <2>2, <2>3, Pairing DEF OwnershipInv, LinkShape
  <2>6. LifeShape'
    BY <2>1, <2>2, <2>3, Pairing DEF OwnershipInv, LifeShape
  <2>7. NoLeak'
    <3> SUFFICES ASSUME NEW c \in Contexts, life[c] = "live",
                        c \notin Held(list, ahold, wctx, wfwd)
                 PROVE  BuddyKeeps(c)' /\ Buddy(c) \in Held(list, ahold, wctx, wfwd)
      BY <2>3 DEF NoLeak
    <3>1. BuddyKeeps(c) /\ Buddy(c) \in Held(list, ahold, wctx, wfwd)
      BY DEF OwnershipInv, NoLeak
    <3>2. c # Local(k) /\ c # Proxy(k)
      BY <2>1 DEF Held
    <3>3. Buddy(c) # Local(k) /\ Buddy(c) # Proxy(k)
      BY <2>1, <3>2, Pairing
    <3> QED
      BY <2>2, <2>3, <3>1, <3>3, Pairing DEF BuddyKeeps
  <2>8. IoOfMade'
    <3>1. /\ wpc' = wpc /\ wpkt' = wpkt /\ wctx' = wctx
          /\ pending' = pending /\ port' = port /\ life' = life
      BY <1>6 DEF AssociateWithIOCP
    <3>2. \A c \in Contexts : link[c] # "none" => link'[c] # "none"
      BY <2>2
    <3> QED
      BY <3>1, <3>2, IoStays DEF OwnershipInv
  <2>9. AcceptHolds'
    BY <1>6, <2>1 DEF AssociateWithIOCP, AcceptHolds
  <2> QED
    BY <2>4, <2>5, <2>6, <2>7, <2>8, <2>9 DEF OwnershipInv
<1>7. CASE AddToClientList
  <2>1. ahold = {Local(aconn), Proxy(aconn)}
    BY <1>7 DEF AddToClientList, OwnershipInv, AcceptHolds
  <2>2. Held(list', ahold', wctx', wfwd') = Held(list, ahold, wctx, wfwd)
    BY <1>7, <2>1 DEF AddToClientList, Held
  <2>3. HeldAreLive' /\ LinkShape' /\ NoLeak'
    BY <1>7, <2>2, OwnersGrow DEF AddToClientList
  <2>4. LifeShape' /\ IoOfMade'
    BY <1>7 DEF AddToClientList, OwnershipInv, LifeShape, IoOfMade
  <2>5. AcceptHolds'
    BY <1>7 DEF AddToClientList, OwnershipInv, AcceptHolds
  <2> QED
    BY <2>3, <2>4, <2>5 DEF OwnershipInv
<1>8. ASSUME NEW c \in Contexts, NEW next \in {"recvProxy", "return"},
             apc \in {"recvLocal", "recvProxy"}, PostFirstRecv(c, next)
      PROVE  OwnershipInv'
  <2>1. Held(list', ahold', wctx', wfwd') = Held(list, ahold, wctx, wfwd) /\ UNCHANGED objVars
    BY <1>8 DEF PostFirstRecv
  <2>2. HeldAreLive' /\ LinkShape' /\ NoLeak' /\ LifeShape'
    BY <2>1, OwnersGrow DEF OwnershipInv, LifeShape
  <2>3. AcceptHolds'
    BY <1>8 DEF PostFirstRecv, OwnershipInv, AcceptHolds
  <2>4. \A q \in Overlapped : pending'[q] > 0 => pending[q] > 0 \/ life[q.ctx] # "none"
    BY <1>8, PostMade DEF PostFirstRecv
  <2>5. IoOfMade'
    BY <1>8, <2>4, IoStays DEF PostFirstRecv, OwnershipInv
  <2> QED
    BY <2>2, <2>3, <2>5 DEF OwnershipInv
<1>9. CASE PostLocalRecv
  BY <1>8, <1>9, <1>0, Pairing DEF PostLocalRecv
<1>10. CASE PostProxyRecv
  BY <1>8, <1>10, <1>0, Pairing DEF PostProxyRecv
<1>11. ASSUME Held(list', ahold', wctx', wfwd') \subseteq Held(list, ahold, wctx, wfwd),
              Release(Held(list', ahold', wctx', wfwd')), UNCHANGED <<workerVars, ioVars>>
       PROVE  HeldAreLive' /\ LinkShape' /\ LifeShape' /\ NoLeak' /\ IoOfMade'
  <2>1. /\ HeldAreLive' /\ LinkShape' /\ LifeShape' /\ NoLeak'
        /\ \A c \in Contexts : life'[c] = "none" <=> life[c] = "none"
    BY <1>11, OwnersShrink
  <2>2. link' = link
    BY <1>11 DEF Release
  <2>3. IoOfMade'
    BY <1>11, <2>1, <2>2, IoStays DEF OwnershipInv
  <2> QED
    BY <2>1, <2>3
<1>12. CASE AcceptReturns
  <2>1. Held(list', ahold', wctx', wfwd') \subseteq Held(list, ahold, wctx, wfwd)
    BY <1>12 DEF AcceptReturns, Held
  <2>2. AcceptHolds'
    BY <1>12, LoopTestType DEF AcceptReturns, AcceptHolds
  <2>3. Release(Held(list', ahold', wctx', wfwd'))
    BY <1>12 DEF AcceptReturns
  <2> QED
    BY <1>11, <1>12, <2>1, <2>2, <2>3 DEF AcceptReturns, OwnershipInv
<1>13. CASE CloseAccepted
  <2>1. /\ Held(list', ahold', wctx', wfwd') = Held(list, ahold, wctx, wfwd)
        /\ UNCHANGED <<life, link>>
    BY <1>13 DEF CloseAccepted
  <2>2. HeldAreLive' /\ LinkShape' /\ NoLeak'
    BY <2>1, OwnersGrow
  <2>3. LifeShape'
    BY <1>13 DEF CloseAccepted, OwnershipInv, LifeShape, TypeOK
  <2>4. IoOfMade'
    BY <1>13 DEF CloseAccepted, OwnershipInv, IoOfMade
  <2>5. AcceptHolds'
    BY <1>13 DEF CloseAccepted, OwnershipInv, AcceptHolds
  <2> QED
    BY <2>2, <2>3, <2>4, <2>5 DEF OwnershipInv
<1>14. ASSUME NEW c \in Contexts, AbortContext(c)
       PROVE  HeldAreLive' /\ LinkShape' /\ LifeShape' /\ NoLeak' /\ IoOfMade'
  <2>1. Held(list', ahold', wctx', wfwd') \subseteq Held(list, ahold, wctx, wfwd)
    BY <1>14 DEF AbortContext, Held
  <2>2. Release(Held(list', ahold', wctx', wfwd'))
    BY <1>14 DEF AbortContext
  <2> QED
    BY <1>11, <1>14, <2>1, <2>2 DEF AbortContext
<1>15. CASE DropLocal
  <2>1. AcceptHolds'
    BY <1>15 DEF DropLocal, AbortContext, OwnershipInv, AcceptHolds
  <2> QED
    BY <1>14, <1>15, <1>0, <2>1, Pairing DEF DropLocal, OwnershipInv
<1>16. CASE DropProxy
  <2>1. AcceptHolds'
    BY <1>16, LoopTestType DEF DropProxy, AbortContext, OwnershipInv, AcceptHolds
  <2> QED
    BY <1>14, <1>16, <1>0, <2>1, Pairing DEF DropProxy, OwnershipInv
<1> QED
  BY <1>2, <1>3, <1>4, <1>5, <1>6, <1>7, <1>9, <1>10, <1>12, <1>13, <1>15, <1>16
  DEF Accept

(* The steps of a worker keep the ownership invariant.                     *)
LEMMA WorkerOwns ==
  ASSUME TypeOK, OwnershipInv, NEW w \in Workers, Worker(w)
  PROVE  OwnershipInv'
<1> USE DEF mainVars, acceptVars, workerVars, workVars, histVars, objVars, ioVars
<1>0. AcceptHolds'
  <2>1. CASE UNCHANGED <<acceptVars, life, link>>
    BY <2>1 DEF OwnershipInv, AcceptHolds
  <2>2. CASE EndIteration(w) \/ EndForward(w)
    <3>1. \A c \in Contexts : life[c] = "none" => life'[c] = "none"
      BY <2>2 DEF EndIteration, EndForward, Release, Freed, Unkept
    <3>2. UNCHANGED <<acceptVars, link>>
      BY <2>2 DEF EndIteration, EndForward, Release
    <3>3. apc = "connect" => Proxy(aconn) \in Contexts
      BY Pairing DEF TypeOK
    <3> QED
      BY <3>1, <3>2, <3>3 DEF OwnershipInv, AcceptHolds
  <2> QED
    BY <2>1, <2>2 DEF Worker, Handle, TakeQuit, TakePacket, KeyFaults, ReadKey,
                      Forward, Send, PostSend, Recv, RemoveFromClientListAndCleanUpMemory
<1>1. ASSUME UNCHANGED <<list, ahold, wctx, wfwd, objVars>>
      PROVE  HeldAreLive' /\ LinkShape' /\ LifeShape' /\ NoLeak'
  <2>1. Held(list', ahold', wctx', wfwd') = Held(list, ahold, wctx, wfwd)
    BY <1>1
  <2> QED
    BY <1>1, <2>1, OwnersGrow DEF OwnershipInv, LifeShape
<1>2. CASE TakeQuit(w)
  <2>1. \A v \in Workers : wpc'[v] \in {"deref", "send"} => wpc'[v] = wpc[v]
    BY <1>2 DEF TakeQuit, TypeOK
  <2>2. IoOfMade'
    BY <1>2, <2>1, IoStays DEF TakeQuit, OwnershipInv
  <2> QED
    BY <1>0, <1>1, <1>2, <2>2 DEF TakeQuit, OwnershipInv
<1>3. CASE \E p \in Packets : TakePacket(w, p)
  <2> PICK p \in Packets : TakePacket(w, p)
    BY <1>3
  <2>1. life[p.op.ctx] # "none"
    BY Operations DEF TakePacket, OwnershipInv, IoOfMade
  <2>2. \A q \in Packets : port'[q] > 0 => port[q] > 0
    BY DEF TakePacket, TypeOK
  <2>3. \A o \in Overlapped :
          (pending'[o] > 0 \/ \E ok \in BOOLEAN : port'[Done(o, ok)] > 0) =>
            (pending[o] > 0 \/ \E ok \in BOOLEAN : port[Done(o, ok)] > 0)
    BY <2>2, Operations DEF TakePacket
  <2>4. \A v \in Workers : /\ wpc'[v] = IF v = w THEN "deref" ELSE wpc[v]
                           /\ wpkt'[v] = IF v = w THEN p ELSE wpkt[v]
    BY DEF TakePacket, TypeOK
  <2>5. IoOfMade'
    BY <2>1, <2>3, <2>4 DEF TakePacket, OwnershipInv, IoOfMade
  <2> QED
    BY <1>0, <1>1, <2>5 DEF TakePacket, OwnershipInv
<1>4. CASE KeyFaults(w)
  <2>1. IoOfMade'
    BY <1>4 DEF KeyFaults, OwnershipInv, IoOfMade
  <2> QED
    BY <1>0, <1>1, <1>4, <2>1 DEF KeyFaults, OwnershipInv
<1>5. CASE ReadKey(w)
  <2>1. CASE UNCHANGED workerVars
    <3>1. IoOfMade'
      BY <1>5, <2>1 DEF ReadKey, OwnershipInv, IoOfMade
    <3> QED
      BY <1>0, <1>1, <1>5, <2>1, <3>1 DEF ReadKey, OwnershipInv
  <2>2. CASE ~UNCHANGED workerVars
    <3>1. wpkt[w] \in Packets /\ wpkt[w].op.ctx \in Contexts
      BY <1>5, Operations DEF ReadKey, TypeOK
    <3>2. life[wpkt[w].op.ctx] # "none"
      BY <1>5 DEF ReadKey, OwnershipInv, IoOfMade
    <3> PICK c \in SlotContexts(wpkt[w].op.ctx), t \in IoTypes(wpkt[w].op) :
           /\ life[c] # "dead"
           /\ wctx' = [wctx EXCEPT ![w] = c]
           /\ wpkt' = [wpkt EXCEPT ![w] = None]
           /\ wpc' = [wpc EXCEPT ![w] = Dispatch(wpkt[w].ok, t)]
      BY <1>5, <2>2 DEF ReadKey
    <3>3. c \in Contexts /\ life[c] = "live"
      BY <3>1, <3>2 DEF SlotContexts, TypeOK
    <3>4. \A v \in Workers : wctx'[v] = IF v = w THEN c ELSE wctx[v]
      BY DEF TypeOK
    <3>5. wctx[w] = None
      BY <1>5 DEF ReadKey, TypeOK, Handling, Sending
    <3>6. Held(list', ahold', wctx', wfwd') = Held(list, ahold, wctx, wfwd) \cup {c}
      BY <1>5, <3>3, <3>4, <3>5, NoneAssumption DEF ReadKey, Held, Contexts
    <3>7. HeldAreLive' /\ LinkShape' /\ NoLeak'
      BY <1>5, <3>3, <3>6, OwnersGrow DEF ReadKey
    <3>8. LifeShape'
      BY <1>5 DEF ReadKey, OwnershipInv, LifeShape
    <3>9. Dispatch(wpkt[w].ok, t) \notin {"deref", "send"}
      BY <3>1, DispatchType
    <3>10. \A v \in Workers :
             wpc'[v] \in {"deref", "send"} =>
               v # w /\ wpc'[v] = wpc[v] /\ wpkt'[v] = wpkt[v] /\ wctx'[v] = wctx[v]
      BY <3>4, <3>9 DEF TypeOK
    <3>11. IoOfMade'
      BY <1>5, <3>10, IoStays DEF ReadKey, OwnershipInv
    <3> QED
      BY <1>0, <3>7, <3>8, <3>11 DEF OwnershipInv
  <2> QED
    BY <2>1, <2>2
<1>6. CASE Forward(w)
  <2>1. wctx[w] \in Contexts
    BY <1>6 DEF Forward, TypeOK, Handling
  <2>2. wpc'[w] = "send" => link[wctx[w]] # "none"
    BY <1>6 DEF Forward, NoBuddy, TypeOK
  <2>3. \A v \in Workers : wpc'[v] \in {"deref", "send"} => v = w \/ wpc'[v] = wpc[v]
    BY <1>6 DEF Forward, TypeOK
  <2>4. wpc'[w] # "deref" /\ wpc[w] = "forward"
    BY <1>6 DEF Forward, TypeOK
  <2>5. IoOfMade'
    BY <1>6, <2>2, <2>3, <2>4, IoStays DEF Forward, OwnershipInv
  <2> QED
    BY <1>0, <1>1, <1>6, <2>5 DEF Forward, OwnershipInv
<1>7. CASE Send(w)
  <2>1. wctx[w] \in Contexts /\ wpc[w] = "send"
    BY <1>7 DEF Send, TypeOK, Handling
  <2>2. \A v \in Workers : wpc'[v] \in {"deref", "send"} => wpc'[v] = wpc[v]
    BY <1>7 DEF Send, TypeOK
  <2>3. IoOfMade'
    BY <1>7, <2>2, IoStays DEF Send, OwnershipInv
  <2>4. CASE NoBuddy(wctx[w])
    BY <1>0, <1>1, <1>7, <2>3, <2>4 DEF Send, OwnershipInv
  <2>5. CASE ~NoBuddy(wctx[w])
    <3> DEFINE b == Buddy(wctx[w])
    <3>1. b \in Contexts /\ life[b] = "live"
      BY <2>1, <2>5, Pairing DEF NoBuddy
    <3>2. \A v \in Workers : wfwd'[v] = IF v = w THEN b ELSE wfwd[v]
      BY <1>7, <2>5 DEF Send, TypeOK
    <3>3. wfwd[w] = None
      BY <2>1 DEF TypeOK, Sending
    <3> HIDE DEF b
    <3>4. Held(list', ahold', wctx', wfwd') = Held(list, ahold, wctx, wfwd) \cup {b}
      BY <1>7, <3>1, <3>2, <3>3, NoneAssumption DEF Send, Held, Contexts
    <3>5. HeldAreLive' /\ LinkShape' /\ NoLeak'
      BY <1>7, <3>1, <3>4, OwnersGrow DEF Send
    <3>6. LifeShape'
      BY <1>7 DEF Send, OwnershipInv, LifeShape
    <3> QED
      BY <1>0, <2>3, <3>5, <3>6 DEF OwnershipInv
  <2> QED
    BY <2>4, <2>5
<1>11. CASE PostSend(w)
  <2>1. wfwd[w] \in Contexts
    BY <1>11, Pairing DEF PostSend, TypeOK, Handling, Sending
  <2>2. \A q \in Overlapped :
          (pending'[q] > 0 \/ \E ok \in BOOLEAN : port'[Done(q, ok)] > 0) =>
            \/ pending[q] > 0 \/ \E ok \in BOOLEAN : port[Done(q, ok)] > 0
            \/ life[q.ctx] # "none"
    BY <1>11, <2>1, PostOrTearMade DEF PostSend
  <2>3. \A v \in Workers : wpc'[v] \in {"deref", "send"} => wpc'[v] = wpc[v]
    BY <1>11 DEF PostSend, TypeOK
  <2>4. IoOfMade'
    BY <1>11, <2>2, <2>3, IoStays DEF PostSend, OwnershipInv
  <2> QED
    BY <1>0, <1>1, <1>11, <2>4 DEF PostSend, OwnershipInv
<1>12. CASE EndForward(w)
  <2> USE <1>12 DEF EndForward
  <2>1. \A v \in Workers : wfwd'[v] = IF v = w THEN None ELSE wfwd[v]
    BY DEF TypeOK
  <2>2. Held(list', ahold', wctx', wfwd') \subseteq Held(list, ahold, wctx, wfwd)
    BY <2>1, NoneAssumption DEF Held, Contexts
  <2>3. Release(Held(list', ahold', wctx', wfwd'))
    OBVIOUS
  <2>4. /\ HeldAreLive' /\ LinkShape' /\ LifeShape' /\ NoLeak'
        /\ \A c \in Contexts : life'[c] = "none" <=> life[c] = "none"
    BY <2>2, <2>3, OwnersShrink
  <2>5. \A v \in Workers :
          wpc'[v] \in {"deref", "send"} => wpc'[v] = wpc[v] /\ wctx'[v] = wctx[v]
    BY DEF TypeOK, AfterForward
  <2>6. IoOfMade'
    BY <2>4, <2>5, IoStays DEF OwnershipInv, Release
  <2> QED
    BY <1>0, <2>4, <2>6 DEF OwnershipInv
<1>8. CASE Recv(w)
  <2>1. wctx[w] \in Contexts
    BY <1>8 DEF Recv, TypeOK, Handling
  <2>2. \A q \in Overlapped :
          (pending'[q] > 0 \/ \E ok \in BOOLEAN : port'[Done(q, ok)] > 0) =>
            \/ pending[q] > 0 \/ \E ok \in BOOLEAN : port[Done(q, ok)] > 0
            \/ life[q.ctx] # "none"
    BY <1>8, <2>1, PostOrTearMade DEF Recv
  <2>3. \A v \in Workers : wpc'[v] \in {"deref", "send"} => wpc'[v] = wpc[v]
    BY <1>8 DEF Recv, TypeOK
  <2>4. IoOfMade'
    BY <1>8, <2>2, <2>3, IoStays DEF Recv, OwnershipInv
  <2> QED
    BY <1>0, <1>1, <1>8, <2>4 DEF Recv, OwnershipInv
<1>9. CASE RemoveFromClientListAndCleanUpMemory(w)
  <2> USE <1>9 DEF RemoveFromClientListAndCleanUpMemory
  <2>1. wctx[w] \in Contexts
    BY DEF TypeOK, Handling
  <2>2. Held(list', ahold', wctx', wfwd') = Held(list, ahold, wctx, wfwd)
    BY <2>1 DEF Held
  <2>3. HeldAreLive' /\ LinkShape' /\ NoLeak'
    BY <2>2, OwnersGrow
  <2>4. \A v \in Workers : wpc'[v] \in {"deref", "send"} => wpc'[v] = wpc[v]
    BY DEF TypeOK
  <2>5. LifeShape' /\ IoOfMade'
    BY <2>4, IoStays DEF OwnershipInv, LifeShape
  <2> QED
    BY <1>0, <2>3, <2>5 DEF OwnershipInv
<1>10. CASE EndIteration(w)
  <2> USE <1>10 DEF EndIteration
  <2>1. \A v \in Workers : wctx'[v] = IF v = w THEN None ELSE wctx[v]
    BY DEF TypeOK
  <2>2. Held(list', ahold', wctx', wfwd') \subseteq Held(list, ahold, wctx, wfwd)
    BY <2>1, NoneAssumption DEF Held, Contexts
  <2>3. Release(Held(list', ahold', wctx', wfwd'))
    OBVIOUS
  <2>4. /\ HeldAreLive' /\ LinkShape' /\ LifeShape' /\ NoLeak'
        /\ \A c \in Contexts : life'[c] = "none" <=> life[c] = "none"
    BY <2>2, <2>3, OwnersShrink
  <2>5. \A v \in Workers :
          wpc'[v] \in {"deref", "send"} => wpc'[v] = wpc[v] /\ wctx'[v] = wctx[v]
    BY <2>1, LoopTestType DEF TypeOK
  <2>6. IoOfMade'
    BY <2>4, <2>5, IoStays DEF OwnershipInv, Release
  <2> QED
    BY <1>0, <2>4, <2>6 DEF OwnershipInv
<1> QED
  BY <1>2, <1>3, <1>4, <1>5, <1>6, <1>7, <1>8, <1>9, <1>10, <1>11, <1>12 DEF Worker, Handle

(* The steps of main keep the ownership invariant.                         *)
LEMMA MainOwns ==
  ASSUME TypeOK, OwnershipInv,
         \/ StartUp \/ KeyHit \/ CleanUp
         \/ \E w \in Workers : AfterDeInitialize(w)
  PROVE  OwnershipInv'
<1> USE DEF mainVars, acceptVars, workerVars, workVars, histVars, objVars, ioVars
<1>1. ASSUME UNCHANGED <<aconn, ahold, wpkt, wctx, wfwd, list, objVars, ioVars>>,
             apc' = apc \/ (apc = "off" /\ apc' \in {"off", "wait"}),
             \A w \in Workers : wpc'[w] = wpc[w] \/ wpc'[w] \in {"off", "wait", "done"}
      PROVE  OwnershipInv'
  <2>1. Held(list', ahold', wctx', wfwd') = Held(list, ahold, wctx, wfwd)
    BY <1>1
  <2>2. HeldAreLive' /\ LinkShape' /\ NoLeak'
    BY <1>1, <2>1, OwnersGrow
  <2>3. LifeShape' /\ AcceptHolds'
    BY <1>1 DEF OwnershipInv, LifeShape, AcceptHolds
  <2>4. IoOfMade'
    BY <1>1 DEF OwnershipInv, IoOfMade
  <2> QED
    BY <2>2, <2>3, <2>4 DEF OwnershipInv
<1>2. CASE CleanClientList
  <2> USE <1>2 DEF CleanClientList
  <2>1. Held(list', ahold', wctx', wfwd') \subseteq Held(list, ahold, wctx, wfwd)
    BY DEF Held
  <2>2. Release(Held(list', ahold', wctx', wfwd'))
    OBVIOUS
  <2>3. /\ HeldAreLive' /\ LinkShape' /\ LifeShape' /\ NoLeak'
        /\ \A c \in Contexts : life'[c] = "none" <=> life[c] = "none"
    BY <2>1, <2>2, OwnersShrink
  <2>4. UNCHANGED link
    BY DEF Release
  <2>5. IoOfMade'
    BY <2>3, <2>4, IoStays DEF OwnershipInv
  <2>6. apc = "connect" => Proxy(aconn) \in Contexts
    BY Pairing DEF TypeOK
  <2>7. AcceptHolds'
    BY <2>3, <2>4, <2>6 DEF OwnershipInv, AcceptHolds
  <2> QED
    BY <2>3, <2>5, <2>7 DEF OwnershipInv
<1>3. CASE Initialize
  BY <1>1, <1>3 DEF Initialize
<1>4. CASE StartAccepting
  BY <1>1, <1>4 DEF StartAccepting, TypeOK
<1>5. CASE InitializeFails \/ SetUpFails \/ KeyHit
  BY <1>1, <1>5 DEF InitializeFails, SetUpFails, KeyHit
<1>6. CASE JoinAcceptThread \/ JoinWorkers \/ DeInitialize \/ Return
  BY <1>1, <1>6 DEF JoinAcceptThread, JoinWorkers, DeInitialize, Return
<1>7. CASE \E w \in Workers : AfterDeInitialize(w)
  BY <1>1, <1>7 DEF AfterDeInitialize, PortClosed, UseDeleted, TypeOK
<1> QED
  BY <1>2, <1>3, <1>4, <1>5, <1>6, <1>7 DEF CleanUp, StartUp

(* The steps of the network keep the ownership invariant.                  *)
LEMMA NetworkOwns ==
  ASSUME TypeOK, OwnershipInv, Network
  PROVE  OwnershipInv'
<1> USE DEF mainVars, acceptVars, workerVars, workVars, histVars, objVars, ioVars
<1>1. UNCHANGED <<acceptVars, workerVars, list, life, link>>
  BY DEF Network, PeerLeaves, DataArrives, SendCompletes, OperationFails, Complete
<1>2. HeldAreLive' /\ LinkShape' /\ NoLeak' /\ AcceptHolds'
  <2>1. Held(list', ahold', wctx', wfwd') = Held(list, ahold, wctx, wfwd)
    BY <1>1
  <2> QED
    BY <1>1, <2>1, OwnersGrow DEF OwnershipInv, AcceptHolds
<1>3. ASSUME NEW o \in Overlapped, NEW ok \in BOOLEAN, Complete(o, ok)
      PROVE  OwnershipInv'
  <2>1. life[o.ctx] # "none"
    BY <1>3 DEF Complete, OwnershipInv, IoOfMade
  <2>2. \A q \in Overlapped : pending'[q] > 0 => pending[q] > 0
    BY <1>3 DEF Complete, TypeOK
  <2>3. \A q \in Overlapped, kq \in BOOLEAN :
          port'[Done(q, kq)] > 0 => port[Done(q, kq)] > 0 \/ q = o
    BY <1>3, Operations DEF Complete, TypeOK
  <2>4. IoOfMade'
    BY <1>1, <2>1, <2>2, <2>3, IoStays DEF OwnershipInv
  <2>5. LifeShape'
    BY <1>3 DEF Complete, OwnershipInv, LifeShape
  <2> QED
    BY <1>2, <2>4, <2>5 DEF OwnershipInv
<1>4. ASSUME NEW c \in Contexts, PeerLeaves(c)
      PROVE  OwnershipInv'
  <2>1. LifeShape'
    BY <1>4 DEF PeerLeaves, OwnershipInv, LifeShape, TypeOK
  <2>2. IoOfMade'
    BY <1>4 DEF PeerLeaves, OwnershipInv, IoOfMade
  <2> QED
    BY <1>2, <2>1, <2>2 DEF OwnershipInv
<1> QED
  BY <1>3, <1>4, Operations DEF Network, DataArrives, SendCompletes, OperationFails

(* Whatever the completion keys yield, shared_ptrs point to live contexts, *)
(* the buddy pointers form no cycle, and no live context is out of reach.  *)
THEOREM Ownership == Spec => []OwnershipInv
<1>1. ASSUME Init PROVE OwnershipInv
  <2>1. Held(list, ahold, wctx, wfwd) = {}
    BY <1>1, NoneAssumption DEF Init, Held, Contexts
  <2>2. \A k \in Connections :
          /\ life[Local(k)] = "none" /\ link[Local(k)] = "none"
          /\ life[Proxy(k)] = "none" /\ link[Proxy(k)] = "none"
    BY <1>1, Pairing DEF Init
  <2>3. HeldAreLive /\ LinkShape /\ NoLeak
    BY <1>1, <2>1, <2>2 DEF Init, HeldAreLive, LinkShape, NoLeak
  <2>4. LifeShape /\ AcceptHolds
    BY <1>1, <2>2 DEF Init, LifeShape, AcceptHolds
  <2>5. IoOfMade
    BY <1>1, Operations DEF Init, IoOfMade
  <2> QED
    BY <2>3, <2>4, <2>5 DEF OwnershipInv
<1>2. TypeOK /\ OwnershipInv /\ [Next]_vars => OwnershipInv'
  <2> SUFFICES ASSUME TypeOK, OwnershipInv, [Next]_vars
               PROVE  OwnershipInv'
    OBVIOUS
  <2>1. CASE UNCHANGED vars
    BY <2>1 DEF vars, mainVars, acceptVars, workerVars, workVars, histVars, objVars,
       ioVars, OwnershipInv, HeldAreLive, LinkShape, LifeShape, AcceptHolds, IoOfMade,
       NoLeak, BuddyKeeps
  <2>2. CASE Next /\ ~UNCHANGED vars
    BY <2>2, AcceptOwns, WorkerOwns, MainOwns, NetworkOwns DEF Next, Stopped
  <2> QED
    BY <2>1, <2>2
<1> QED
  BY <1>1, <1>2, TypeCorrect, PTL DEF Spec

(* No live context is ever out of reach.                                   *)
COROLLARY NoContextLeaks == Spec => []NoLeak
BY Ownership, PTL DEF OwnershipInv

(* The second lookup of a buddy fails on a proxy context only: a client's  *)
(* data never meets a null server context between check and use.           *)
THEOREM NullBuddyFromProxy == Spec => []NullBuddyOnlyFromProxy
<1>1. Init => NullBuddyOnlyFromProxy
  BY DEF Init, NullBuddyOnlyFromProxy
<1>2. TypeOK /\ OwnershipInv /\ NullBuddyOnlyFromProxy /\ [Next]_vars
        => NullBuddyOnlyFromProxy'
  <2> SUFFICES ASSUME TypeOK, OwnershipInv, NullBuddyOnlyFromProxy, [Next]_vars
               PROVE  NullBuddyOnlyFromProxy'
    OBVIOUS
  <2> USE DEF mainVars, acceptVars, workerVars, workVars, histVars, objVars, ioVars
  <2>1. CASE UNCHANGED vars
    BY <2>1 DEF vars, NullBuddyOnlyFromProxy, NoBuddy
  <2>2. ASSUME undef' # "nullBuddy"
        PROVE  NullBuddyOnlyFromProxy'
    BY <2>2 DEF NullBuddyOnlyFromProxy
  <2>3. ASSUME NEW w \in Workers, Send(w), undef' = "nullBuddy", Running
        PROVE  NullBuddyOnlyFromProxy'
    <3>1. wctx[w] \in Contexts /\ link[wctx[w]] # "none"
      BY <2>3 DEF Send, TypeOK, Handling, OwnershipInv, IoOfMade
    <3>2. NoBuddy(wctx[w]) /\ UNCHANGED <<wpc, wctx, life, link>>
      BY <2>3 DEF Send, Running
    <3>3. wctx[w] # Local(wctx[w][1])
      <4> SUFFICES ASSUME wctx[w] = Local(wctx[w][1]) PROVE FALSE
        OBVIOUS
      <4> DEFINE k == wctx[w][1]
      <4>1. k \in Connections /\ Buddy(wctx[w]) = Proxy(k)
        BY <3>1, Pairing
      <4>2. life[wctx[w]] = "live"
        BY <3>1 DEF OwnershipInv, HeldAreLive, Held
      <4>3. link[wctx[w]] = "strong"
        BY <3>1, <4>1, Pairing DEF OwnershipInv, LinkShape, TypeOK
      <4>4. life[Proxy(k)] = "live"
        BY <4>1, <4>2, <4>3 DEF OwnershipInv, LinkShape
      <4> QED
        BY <3>1, <3>2, <4>1, <4>4 DEF NoBuddy
    <3>4. wctx[w][2] = "proxy"
      BY <3>1, <3>3, Pairing
    <3> QED
      BY <2>3, <3>2, <3>4 DEF NullBuddyOnlyFromProxy, NoBuddy, Send
  <2>4. CASE Running /\ Next /\ undef' = "nullBuddy"
    <3>1. undef = "none"
      BY <2>4 DEF Running
    <3>2. ~Accept
      BY <2>4, <3>1 DEF Release, Accept, AcceptNothing, AcceptConnection,
         InitRemoteConnection, InitRemoteConnectionFails, AssociateWithIOCP,
         AddToClientList, PostLocalRecv, PostProxyRecv, PostFirstRecv, AcceptReturns,
         CloseAccepted, DropLocal, DropProxy, AbortContext, MakeContext
    <3>3. ~StartUp /\ ~KeyHit /\ ~CleanUp /\ ~Network
      BY <2>4, <3>1 DEF Release, StartUp, Initialize, InitializeFails, SetUpFails,
         StartAccepting, KeyHit, CleanUp, JoinAcceptThread, JoinWorkers, CleanClientList,
         DeInitialize, Return, Network, PeerLeaves, DataArrives, SendCompletes,
         OperationFails, Complete
    <3>4. \A w \in Workers : ~AfterDeInitialize(w)
      BY <2>4, <3>1 DEF AfterDeInitialize, PortClosed, UseDeleted
    <3>5. PICK w \in Workers : Worker(w)
      BY <2>4, <3>2, <3>3, <3>4 DEF Next, Stopped
    <3>6. Send(w)
      BY <2>4, <3>1, <3>5 DEF Release, Worker, Handle, TakeQuit, TakePacket, KeyFaults,
         ReadKey, Forward, PostSend, EndForward, Recv, RemoveFromClientListAndCleanUpMemory,
         EndIteration
    <3> QED
      BY <2>3, <2>4, <3>6
  <2> QED
    BY <2>1, <2>2, <2>4 DEF Next, Stopped, Serving
<1> QED
  BY <1>1, <1>2, TypeCorrect, Ownership, PTL DEF Spec

-----------------------------------------------------------------------------
(* Start-up and shutdown.                                                  *)

(* Threads that returned, and those that were not made, stay so.           *)
LEMMA ThreadsStayDone ==
  ASSUME TypeOK, [Next]_vars
  PROVE  /\ apc = "done" => apc' = "done"
         /\ apc = "off" => apc' = "off" \/ StartAccepting
         /\ \A w \in Workers : wpc[w] = "done" => wpc'[w] = "done" \/ Initialize
         /\ \A w \in Workers : wpc[w] = "off" => wpc'[w] = "off" \/ Initialize
         /\ Initialize => main = "start" /\ \A w \in Workers : wpc[w] = "off"
<1> USE DEF mainVars, acceptVars, workerVars, workVars, histVars, objVars, ioVars
<1>1. CASE UNCHANGED vars
  BY <1>1 DEF vars, Initialize, TypeOK
<1>2. CASE Accept
  BY <1>2 DEF Accept, AcceptNothing, AcceptConnection, InitRemoteConnection,
     InitRemoteConnectionFails, AssociateWithIOCP, AddToClientList, PostLocalRecv,
     PostProxyRecv, PostFirstRecv, AcceptReturns, CloseAccepted, DropLocal, DropProxy,
     AbortContext, MakeContext, Initialize, TypeOK
<1>3. ASSUME NEW w \in Workers, Worker(w)
      PROVE  /\ UNCHANGED apc
             /\ \A v \in Workers : wpc[v] \in {"done", "off"} => wpc'[v] = wpc[v]
  BY <1>3 DEF Worker, Handle, TakeQuit, TakePacket, KeyFaults, ReadKey, Forward, Send,
     PostSend, EndForward, Recv, RemoveFromClientListAndCleanUpMemory, EndIteration,
     TypeOK
<1>4. CASE KeyHit \/ CleanUp
  BY <1>4 DEF KeyHit, CleanUp, JoinAcceptThread, JoinWorkers, CleanClientList, DeInitialize,
     Return, Initialize, TypeOK
<1>5. CASE StartUp
  BY <1>5 DEF StartUp, Initialize, InitializeFails, SetUpFails, StartAccepting, TypeOK
<1>6. CASE Network
  BY <1>6 DEF Network, PeerLeaves, DataArrives, SendCompletes, OperationFails, Complete,
     Initialize, TypeOK
<1>7. ASSUME NEW w \in Workers, AfterDeInitialize(w)
      PROVE  /\ UNCHANGED apc
             /\ \A v \in Workers : wpc[v] \in {"done", "off"} => wpc'[v] = wpc[v]
  BY <1>7 DEF AfterDeInitialize, PortClosed, UseDeleted, TypeOK
<1>8. Initialize => main = "start" /\ \A w \in Workers : wpc[w] = "off"
  BY DEF Initialize, TypeOK
<1> QED
  BY <1>1, <1>2, <1>3, <1>4, <1>5, <1>6, <1>7, <1>8 DEF Next, Stopped

(* Only main moves main.                                                   *)
LEMMA MainMoves ==
  ASSUME [Next]_vars, main' # main
  PROVE  StartUp \/ KeyHit \/ CleanUp
<1> USE DEF mainVars, acceptVars, workerVars, workVars, histVars, objVars, ioVars
<1>1. ~UNCHANGED vars
  BY DEF vars
<1>2. ~Accept
  BY DEF Accept, AcceptNothing, AcceptConnection, InitRemoteConnection,
     InitRemoteConnectionFails, AssociateWithIOCP, AddToClientList, PostLocalRecv,
     PostProxyRecv, PostFirstRecv, AcceptReturns, CloseAccepted, DropLocal, DropProxy,
     AbortContext, MakeContext
<1>3. \A w \in Workers : ~Worker(w)
  BY DEF Worker, Handle, TakeQuit, TakePacket, KeyFaults, ReadKey, Forward, Send,
     PostSend, EndForward, Recv, RemoveFromClientListAndCleanUpMemory, EndIteration
<1>4. ~Network
  BY DEF Network, PeerLeaves, DataArrives, SendCompletes, OperationFails, Complete
<1>5. \A w \in Workers : ~AfterDeInitialize(w)
  BY DEF AfterDeInitialize, PortClosed, UseDeleted
<1> QED
  BY <1>1, <1>2, <1>3, <1>4, <1>5 DEF Next, Stopped

(* Before the accept thread is made nothing was accepted and no worker has *)
(* anything to do.                                                         *)
Early ==
  main \in {"start", "setup", "error"} =>
    /\ quits = 0 /\ apc = "off"
    /\ \A w \in Workers : wpc[w] \in {"off", "wait"}
    /\ \A c \in Contexts : life[c] = "none"

LEMMA NothingBeforeAccept == Spec => []Early
<1>1. Init => Early
  BY DEF Init, Early
<1>2. TypeOK /\ OwnershipInv /\ Early /\ [Next]_vars => Early'
  <2> SUFFICES ASSUME TypeOK, OwnershipInv, Early, [Next]_vars,
                      main' \in {"start", "setup", "error"}
               PROVE  /\ quits' = 0 /\ apc' = "off"
                      /\ \A w \in Workers : wpc'[w] \in {"off", "wait"}
                      /\ \A c \in Contexts : life'[c] = "none"
    BY DEF Early
  <2> USE DEF mainVars, acceptVars, workerVars, workVars, histVars, objVars, ioVars
  <2>1. CASE StartUp \/ KeyHit \/ CleanUp
    BY <2>1 DEF StartUp, Initialize, InitializeFails, SetUpFails, StartAccepting, KeyHit,
       CleanUp, JoinAcceptThread, JoinWorkers, CleanClientList, DeInitialize, Return, Early
  <2>2. CASE main' = main
    <3>1. /\ quits = 0 /\ apc = "off"
          /\ \A w \in Workers : wpc[w] \in {"off", "wait"}
          /\ \A c \in Contexts : life[c] = "none"
      BY <2>2 DEF Early
    <3>2. ~Accept
      BY <3>1 DEF Accept, AcceptNothing, AcceptConnection, InitRemoteConnection,
         InitRemoteConnectionFails, AssociateWithIOCP, AddToClientList, PostLocalRecv,
         PostProxyRecv, AcceptReturns, CloseAccepted, DropLocal, DropProxy
    <3>3. \A w \in Workers : ~Worker(w)
      <4> SUFFICES ASSUME NEW w \in Workers, Worker(w)
                   PROVE  FALSE
        OBVIOUS
      <4>1. PICK p \in Packets : TakePacket(w, p)
        BY <3>1 DEF Worker, Handle, TakeQuit, KeyFaults, ReadKey, Forward, Send, PostSend,
           EndForward, Recv, RemoveFromClientListAndCleanUpMemory, EndIteration
      <4>2. life[p.op.ctx] # "none" /\ p.op.ctx \in Contexts
        BY <4>1, Operations DEF TakePacket, OwnershipInv, IoOfMade
      <4> QED
        BY <3>1, <4>2
    <3>4. CASE Network
      BY <3>1, <3>4 DEF Network, PeerLeaves, DataArrives, SendCompletes, OperationFails,
         Complete
    <3>5. CASE UNCHANGED vars
      BY <3>1, <3>5 DEF vars
    <3> QED
      BY <2>1, <2>2, <3>2, <3>3, <3>4, <3>5 DEF Next, Stopped
  <2> QED
    BY <2>1, <2>2, MainMoves
<1> QED
  BY <1>1, <1>2, TypeCorrect, Ownership, PTL DEF Spec

(* When CreateThread never fails: every thread exists, main has waited for *)
(* the accept thread, and a worker that outlives DeInitialize is one that  *)
(* has never had anything to do.                                           *)
ThreadsMade ==
  /\ main \notin {"start", "exited"} => \A w \in Workers : wpc[w] # "off"
  /\ main \in {"running", "joinAccept", "joinWorkers", "cleanList", "deinit"} => apc # "off"

AcceptJoined == main \in {"joinWorkers", "cleanList", "deinit"} => apc = "done"

ClosingAlone ==
  main = "closing" =>
    \A w \in Workers :
      \/ wpc[w] = "done"
      \/ wpc[w] = "wait" /\ \A c \in Contexts : life[c] = "none"

SoloInv == ThreadsMade /\ AcceptJoined /\ WorkersGoneBeforeCleanup /\ ClosingAlone

LEMMA Solo ==
  ASSUME Cardinality(Workers) <= MaximumWaitObjects, ThreadsFail = FALSE
  PROVE  Spec => []SoloInv
<1>1. Init => SoloInv
  BY DEF Init, SoloInv, ThreadsMade, AcceptJoined, WorkersGoneBeforeCleanup, ClosingAlone
<1>2. TypeOK /\ Early /\ SoloInv /\ [Next]_vars => SoloInv'
  <2> SUFFICES ASSUME TypeOK, Early, SoloInv, [Next]_vars
               PROVE  SoloInv'
    OBVIOUS
  <2> USE DEF mainVars, acceptVars, workerVars, workVars, histVars, objVars, ioVars,
              SoloInv, ThreadsMade, AcceptJoined, WorkersGoneBeforeCleanup, ClosingAlone
  <2>1. Initialize => SoloInv'
    BY DEF Initialize
  <2>2. StartAccepting => SoloInv'
    BY DEF StartAccepting, TypeOK
  <2>3. InitializeFails \/ SetUpFails \/ KeyHit \/ JoinAcceptThread \/ CleanClientList
          \/ Return => SoloInv'
    BY DEF InitializeFails, SetUpFails, KeyHit, JoinAcceptThread, CleanClientList, Return
  <2>4. JoinWorkers => SoloInv'
    <3>1. Cardinality(Workers) \in Nat /\ MaximumWaitObjects \in Nat
      BY WorkersAssumption, BoundsAssumption, FS_CardinalityType
    <3> QED
      BY <3>1 DEF JoinWorkers
  <2>5. DeInitialize => SoloInv'
    BY DEF DeInitialize, Early
  <2>6. CASE main' = main /\ main # "closing" /\ ~StartUp
    <3>1. ~Initialize /\ ~StartAccepting
      BY <2>6 DEF StartUp
    <3>2. \A w \in Workers : wpc'[w] = "off" => wpc[w] = "off"
      <4>1. ASSUME NEW w \in Workers, Worker(w)
            PROVE  \A v \in Workers : wpc'[v] = "off" => wpc[v] = "off"
        <5>1. CASE ReadKey(w)
          <6>1. \A t \in IoTypes(wpkt[w].op) : Dispatch(wpkt[w].ok, t) # "off"
            BY <5>1, DispatchType DEF ReadKey, TypeOK
          <6> QED
            BY <5>1, <6>1 DEF ReadKey, TypeOK
        <5>2. CASE EndIteration(w)
          BY <5>2, LoopTestType DEF EndIteration, TypeOK
        <5>3. CASE EndForward(w)
          BY <5>3 DEF EndForward, AfterForward, TypeOK
        <5> QED
          BY <4>1, <5>1, <5>2, <5>3 DEF Worker, Handle, TakeQuit, TakePacket, KeyFaults,
             Forward, Send, PostSend, Recv, RemoveFromClientListAndCleanUpMemory, TypeOK
      <4>2. CASE Accept \/ KeyHit \/ CleanUp \/ Network \/ UNCHANGED vars
        BY <4>2 DEF vars, Accept, AcceptNothing, AcceptConnection, InitRemoteConnection,
           InitRemoteConnectionFails, AssociateWithIOCP, AddToClientList, PostLocalRecv,
           PostProxyRecv, PostFirstRecv, AcceptReturns, CloseAccepted, DropLocal, DropProxy,
           AbortContext, MakeContext, KeyHit, CleanUp, JoinAcceptThread, JoinWorkers,
           CleanClientList, DeInitialize, Return, Network, PeerLeaves, DataArrives,
           SendCompletes, OperationFails, Complete
      <4> QED
        BY <2>6, <4>1, <4>2 DEF Next, Stopped
    <3>3. apc' = "off" => apc = "off"
      <4>1. Accept => apc' # "off"
        BY LoopTestType DEF Accept, AcceptNothing, AcceptConnection, InitRemoteConnection,
           InitRemoteConnectionFails, AssociateWithIOCP, AddToClientList, PostLocalRecv,
           PostProxyRecv, PostFirstRecv, AcceptReturns, CloseAccepted, DropLocal, DropProxy
      <4>2. KeyHit \/ CleanUp \/ Network \/ (\E w \in Workers : Worker(w)) \/ UNCHANGED vars
              => apc' = apc
        BY DEF vars, Worker, Handle, TakeQuit, TakePacket, KeyFaults, ReadKey, Forward,
           Send, PostSend, EndForward, Recv, RemoveFromClientListAndCleanUpMemory,
           EndIteration, KeyHit, CleanUp, JoinAcceptThread, JoinWorkers, CleanClientList,
           DeInitialize, Return, Network, PeerLeaves, DataArrives, SendCompletes,
           OperationFails, Complete
      <4> QED
        BY <2>6, <4>1, <4>2 DEF Next, Stopped
    <3> QED
      BY <2>6, <3>1, <3>2, <3>3, ThreadsStayDone
  <2>7. CASE main' = main /\ main = "closing"
    <3>1. CASE \E w \in Workers : AfterDeInitialize(w)
      BY <2>7, <3>1 DEF AfterDeInitialize, PortClosed, UseDeleted, TypeOK
    <3>2. CASE UNCHANGED vars
      BY <3>2 DEF vars
    <3> QED
      BY <2>7, <3>1, <3>2 DEF Next, Stopped, Serving, CleanUp, JoinAcceptThread,
         JoinWorkers, CleanClientList, DeInitialize, Return
  <2>8. CASE StartUp \/ KeyHit \/ CleanUp
    BY <2>1, <2>2, <2>3, <2>4, <2>5, <2>8 DEF StartUp, CleanUp
  <2> QED
    BY <2>6, <2>7, <2>8, MainMoves
<1> QED
  BY <1>1, <1>2, TypeCorrect, NothingBeforeAccept, PTL DEF Spec

(* The list is cleaned with no thread left to use it, as long as           *)
(* CreateThread never fails and the workers fit into one wait.             *)
THEOREM CleanupRunsAlone ==
  ASSUME Cardinality(Workers) <= MaximumWaitObjects, ThreadsFail = FALSE
  PROVE  Spec => []WorkersGoneBeforeCleanup
BY Solo, PTL DEF SoloInv

(* Under the same conditions no thread enters a critical section that      *)
(* DeInitialize deleted, after CleanUp or on the error exit of main.       *)
THEOREM NothingAfterDeInitialize ==
  ASSUME Cardinality(Workers) <= MaximumWaitObjects, ThreadsFail = FALSE
  PROVE  Spec => []DeInitializeIsLast
<1>1. Init => DeInitializeIsLast
  BY DEF Init, DeInitializeIsLast
<1>2. SoloInv /\ DeInitializeIsLast /\ [Next]_vars => DeInitializeIsLast'
  <2> SUFFICES ASSUME SoloInv, DeInitializeIsLast, [Next]_vars, undef' = "deletedLock"
               PROVE  FALSE
    BY DEF DeInitializeIsLast
  <2> USE DEF mainVars, acceptVars, workerVars, workVars, histVars, objVars, ioVars,
     DeInitializeIsLast
  <2>1. ~UNCHANGED vars
    BY DEF vars
  <2>2. ~Accept
    BY DEF Release, Accept, AcceptNothing, AcceptConnection, InitRemoteConnection,
       InitRemoteConnectionFails, AssociateWithIOCP, AddToClientList, PostLocalRecv,
       PostProxyRecv, PostFirstRecv, AcceptReturns, CloseAccepted, DropLocal, DropProxy,
       AbortContext, MakeContext
  <2>3. \A w \in Workers : ~Worker(w)
    BY DEF Release, Worker, Handle, TakeQuit, TakePacket, KeyFaults, ReadKey, Forward,
       Send, PostSend, EndForward, Recv, RemoveFromClientListAndCleanUpMemory,
       EndIteration
  <2>4. ~StartUp /\ ~KeyHit /\ ~CleanUp /\ ~Network
    BY DEF Release, StartUp, Initialize, InitializeFails, SetUpFails, StartAccepting,
       KeyHit, CleanUp, JoinAcceptThread, JoinWorkers, CleanClientList, DeInitialize,
       Return, Network, PeerLeaves, DataArrives, SendCompletes, OperationFails, Complete
  <2>5. PICK w \in Workers : UseDeleted(w) /\ main = "closing"
    BY <2>1, <2>2, <2>3, <2>4 DEF Next, Stopped, AfterDeInitialize, PortClosed
  <2> QED
    BY <2>5 DEF UseDeleted, SoloInv, ClosingAlone, Handling, Sending
<1> QED
  BY <1>1, <1>2, Solo, PTL DEF Spec

(* With nothing held, releasing destroys everything: a live context could  *)
(* only be kept by a buddy that nobody keeps.                              *)
LEMMA ReleaseAll ==
  ASSUME TypeOK, LinkShape, Release({})
  PROVE  \A c \in Contexts : life'[c] # "live"
<1> SUFFICES ASSUME NEW c \in Contexts, life[c] = "live"
             PROVE  c \in Freed({})
  BY DEF Release
<1>1. CASE ~BuddyKeeps(c)
  BY <1>1 DEF Freed, Unkept
<1>2. CASE BuddyKeeps(c)
  <2>1. link[c] # "strong"
    BY <1>2, Pairing DEF BuddyKeeps, LinkShape
  <2>2. Buddy(c) \in Unkept({})
    BY <1>2, <2>1, Pairing DEF BuddyKeeps, Unkept
  <2> QED
    BY <2>2 DEF Freed
<1> QED
  BY <1>1, <1>2

(* The process ends with no context and no open socket left, also when it  *)
(* never got to accept a connection.                                       *)
THEOREM ExitReleasesAll ==
  ASSUME Cardinality(Workers) <= MaximumWaitObjects, ThreadsFail = FALSE
  PROVE  Spec => []AllReleasedAtExit
<1> DEFINE Bare == main \in {"start", "setup", "error", "deinit", "closing", "exited"}
           Freeing == Bare => \A c \in Contexts : life[c] # "live"
<1>1. Init => Freeing
  BY DEF Init
<1>2. TypeOK /\ OwnershipInv /\ Early /\ Early' /\ SoloInv /\ Freeing /\ [Next]_vars
        => Freeing'
  <2> SUFFICES ASSUME TypeOK, OwnershipInv, Early, Early', SoloInv, Freeing, [Next]_vars, Bare'
               PROVE  \A c \in Contexts : life'[c] # "live"
    OBVIOUS
  <2> USE DEF mainVars, acceptVars, workerVars, workVars, histVars, objVars, ioVars, SoloInv
  <2>1. CASE CleanClientList
    <3>1. \A w \in Workers : wctx[w] = None /\ wfwd[w] = None
      BY <2>1 DEF CleanClientList, WorkersGoneBeforeCleanup, TypeOK, Handling, Sending
    <3>2. ahold = {}
      BY <2>1 DEF CleanClientList, AcceptJoined, OwnershipInv, AcceptHolds
    <3>3. Held(list', ahold, wctx, wfwd) = {}
      BY <2>1, <3>1, <3>2, NoneAssumption DEF CleanClientList, Held, Contexts
    <3> QED
      BY <2>1, <3>3, ReleaseAll DEF CleanClientList, OwnershipInv
  <2>2. CASE StartUp \/ KeyHit \/ JoinAcceptThread \/ JoinWorkers \/ DeInitialize \/ Return
    BY <2>2 DEF StartUp, Initialize, InitializeFails, SetUpFails, StartAccepting, KeyHit,
       JoinAcceptThread, JoinWorkers, DeInitialize, Return
  <2>3. CASE main' = main /\ main = "deinit"
    <3>1. apc = "done" /\ \A w \in Workers : wpc[w] = "done"
      BY <2>3 DEF WorkersGoneBeforeCleanup, AcceptJoined, ThreadsMade
    <3>2. ~Accept
      BY <3>1 DEF Accept, AcceptNothing, AcceptConnection, InitRemoteConnection,
         InitRemoteConnectionFails, AssociateWithIOCP, AddToClientList, PostLocalRecv,
         PostProxyRecv, AcceptReturns, CloseAccepted, DropLocal, DropProxy
    <3>3. \A w \in Workers : ~Worker(w)
      BY <3>1 DEF Worker, Handle, TakeQuit, TakePacket, KeyFaults, ReadKey, Forward, Send,
         PostSend, EndForward, Recv, RemoveFromClientListAndCleanUpMemory, EndIteration
    <3>4. CASE Network
      BY <2>3, <3>4 DEF Network, PeerLeaves, DataArrives, SendCompletes, OperationFails,
         Complete
    <3>5. CASE UNCHANGED vars
      BY <2>3, <3>5 DEF vars
    <3> QED
      BY <2>1, <2>2, <2>3, <3>2, <3>3, <3>4, <3>5 DEF Next, Stopped, CleanUp
  <2>4. CASE main' = main /\ main \in {"start", "setup", "error"}
    BY <2>4 DEF Early
  <2>5. CASE main' = main /\ main \in {"closing", "exited"}
    <3>1. CASE \E w \in Workers : AfterDeInitialize(w)
      BY <2>5, <3>1 DEF AfterDeInitialize, PortClosed, UseDeleted
    <3>2. CASE UNCHANGED vars
      BY <2>5, <3>2 DEF vars
    <3> QED
      BY <2>2, <2>5, <3>1, <3>2 DEF Next, Stopped, Serving, Running, CleanUp,
         CleanClientList
  <2> QED
    BY <2>1, <2>2, <2>3, <2>4, <2>5, MainMoves DEF CleanUp
<1>3. TypeOK /\ OwnershipInv /\ Freeing => AllReleasedAtExit
  BY DEF TypeOK, OwnershipInv, LifeShape, AllReleasedAtExit
<1> QED
  BY <1>1, <1>2, <1>3, TypeCorrect, Ownership, NothingBeforeAccept, Solo, PTL DEF Spec

-----------------------------------------------------------------------------
(* Handles closed twice.                                                   *)

Open(c) == sock[c] \in {"open", "gone"}

AcceptIdle == apc \in {"off", "wait", "done"}

(* A handle value has one open socket; only the accepted socket of an      *)
(* aborted connection is closed under its context, which the accept thread *)
(* then drops at once, and which no later connection takes for its own.    *)
HandleNames ==
  \A c \in Contexts :
    /\ life[c] = "none" => handle[c] = c
    /\ handle[c] # c => life[handle[c]] # "none"
    /\ life[c] # "none" => sock[c] # "none"

OneOpen == \A c, d \in Contexts : Open(c) /\ Open(d) /\ handle[c] = handle[d] => c = d

DanglingIsDropped ==
  \A c \in Contexts :
    Dangling(c) =>
      /\ c[2] = "local"
      /\ c \notin list \cup ahold \/ (apc = "dropLocal" /\ c[1] = aconn)

MisdirectedIsOld ==
  \A c \in Contexts : Misdirected(c) => AcceptIdle \/ c[1] # aconn

HandleInv == HandleNames /\ OneOpen /\ DanglingIsDropped /\ MisdirectedIsOld

(* No socket is made, and none is closed under its context.                *)
LEMMA HandlesStay ==
  ASSUME TypeOK, HandleInv, UNCHANGED handle,
         \A c \in Contexts :
           /\ life'[c] = "none" <=> life[c] = "none"
           /\ sock'[c] = "none" => sock[c] = "none"
           /\ Open(c)' => Open(c)
           /\ Dangling(c)' => Dangling(c)
           /\ Dangling(c)' /\ c \in list' \cup ahold' =>
                /\ c \in list \cup ahold
                /\ apc = "dropLocal" /\ c[1] = aconn => apc' = "dropLocal" /\ aconn' = aconn
           /\ ~AcceptIdle' /\ c[1] = aconn' => ~AcceptIdle /\ c[1] = aconn
  PROVE  HandleInv'
<1>1. HandleNames'
  BY DEF HandleInv, HandleNames, TypeOK
<1>2. OneOpen'
  BY DEF HandleInv, OneOpen
<1>3. DanglingIsDropped'
  BY DEF HandleInv, DanglingIsDropped
<1>4. MisdirectedIsOld'
  <2> SUFFICES ASSUME NEW c \in Contexts, Misdirected(c)', ~AcceptIdle', c[1] = aconn'
               PROVE  FALSE
    BY DEF MisdirectedIsOld
  <2>1. Dangling(c)
    BY DEF Misdirected
  <2>2. InUse(handle[c])
    BY DEF Misdirected, InUse, Open
  <2> QED
    BY <2>1, <2>2 DEF HandleInv, MisdirectedIsOld, Misdirected
<1> QED
  BY <1>1, <1>2, <1>3, <1>4 DEF HandleInv

(* A new socket gets a new handle value or that of a dangling context.     *)
LEMMA HandlesMade ==
  ASSUME TypeOK, OwnershipInv, HandleInv, NEW c \in Contexts, MakeContext(c),
         life[c] = "none", apc \in {"wait", "connect"},
         \A d \in Contexts : Dangling(d) => d[1] # aconn'
  PROVE  HandleInv'
<1> USE DEF mainVars, workerVars, workVars, histVars, ioVars
<1>1. /\ \A d \in Contexts : life'[d] = IF d = c THEN "live" ELSE life[d]
      /\ \A d \in Contexts : sock'[d] = IF d = c THEN "open" ELSE sock[d]
      /\ list' = list /\ ahold' = ahold \cup {c}
  BY DEF MakeContext, TypeOK
<1>2. handle[c] = c
  BY DEF HandleInv, HandleNames
<1>3. PICK h \in Contexts :
        /\ \A d \in Contexts : handle'[d] = IF d = c THEN h ELSE handle[d]
        /\ h = c \/ \E a \in Contexts : Dangling(a) /\ ~InUse(handle[a]) /\ h = handle[a]
  BY <1>2 DEF MakeContext, TypeOK
<1>4. \A d \in Contexts : Dangling(d)' <=> Dangling(d) /\ d # c
  BY <1>1 DEF Dangling
<1>5. h # c => life[h] # "none"
  BY <1>3 DEF HandleInv, HandleNames, Dangling
<1>6. \A d \in Contexts : d # c /\ Open(d) => handle[d] # h
  <2> SUFFICES ASSUME NEW d \in Contexts, d # c, Open(d), handle[d] = h
               PROVE  FALSE
    OBVIOUS
  <2>1. CASE h = c
    BY <2>1 DEF HandleInv, HandleNames
  <2>2. CASE h # c
    BY <1>3, <2>2 DEF InUse, Open
  <2> QED
    BY <2>1, <2>2
<1>7. HandleNames'
  BY <1>1, <1>3, <1>5 DEF HandleInv, HandleNames, TypeOK
<1>8. OneOpen'
  BY <1>1, <1>3, <1>6 DEF HandleInv, OneOpen, Open
<1>9. DanglingIsDropped'
  BY <1>1, <1>4 DEF HandleInv, DanglingIsDropped
<1>10. MisdirectedIsOld'
  BY <1>4 DEF MisdirectedIsOld, Misdirected
<1> QED
  BY <1>7, <1>8, <1>9, <1>10 DEF HandleInv

(* The steps of the accept thread keep the handle invariant.               *)
LEMMA AcceptHandles ==
  ASSUME TypeOK, OwnershipInv, HandleInv, Accept
  PROVE  HandleInv'
<1> USE DEF mainVars, workerVars, workVars, histVars, objVars, ioVars
<1>0. aconn \in Connections \/ apc \in {"off", "wait", "done"}
  BY DEF TypeOK
<1>1. \A d \in Contexts : Dangling(d) => d = Local(d[1])
  BY Pairing DEF HandleInv, DanglingIsDropped
<1>2. CASE \E k \in Connections : AcceptConnection(k)
  <2> PICK k \in Connections : AcceptConnection(k)
    BY <1>2
  <2>1. \A d \in Contexts : Dangling(d) => d[1] # k
    BY <1>1 DEF AcceptConnection, Dangling
  <2> QED
    BY <2>1, HandlesMade, Pairing DEF AcceptConnection
<1>3. CASE InitRemoteConnection
  <2>1. /\ aconn \in Connections /\ ahold = {Local(aconn)} /\ life[Proxy(aconn)] = "none"
    BY <1>3, <1>0 DEF InitRemoteConnection, OwnershipInv, AcceptHolds
  <2>2. \A d \in Contexts : Dangling(d) => d \notin ahold
    BY <1>3 DEF InitRemoteConnection, HandleInv, DanglingIsDropped
  <2>3. \A d \in Contexts : Dangling(d) => d[1] # aconn
    BY <1>1, <2>1, <2>2
  <2> QED
    BY <1>3, <2>1, <2>3, HandlesMade, Pairing DEF InitRemoteConnection
<1>4. CASE CloseAccepted
  <2> DEFINE l == Local(aconn)
  <2>1. l \in Contexts /\ l \in ahold /\ l[1] = aconn /\ l[2] = "local" /\ apc = "abort"
    BY <1>4, <1>0, Pairing DEF CloseAccepted, OwnershipInv, AcceptHolds
  <2>2. life[l] = "live"
    BY <2>1 DEF OwnershipInv, HeldAreLive, Held
  <2>3. \A d \in Contexts : sock'[d] = IF d = l THEN "closed" ELSE sock[d]
    BY <1>4 DEF CloseAccepted, TypeOK
  <2>4. UNCHANGED <<life, handle, list, ahold, aconn>> /\ apc' = "dropLocal"
    BY <1>4 DEF CloseAccepted
  <2>5. Open(l)
    BY <2>1, <2>2 DEF Open, HandleInv, HandleNames, DanglingIsDropped, Dangling, TypeOK
  <2>6. HandleNames'
    BY <2>3, <2>4 DEF HandleInv, HandleNames
  <2>7. OneOpen'
    BY <2>3, <2>4 DEF HandleInv, OneOpen, Open
  <2>8. \A d \in Contexts : Dangling(d)' <=> Dangling(d) \/ d = l
    BY <2>2, <2>3, <2>4 DEF Dangling
  <2>9. DanglingIsDropped'
    BY <2>1, <2>4, <2>8 DEF HandleInv, DanglingIsDropped
  <2>10. \A d \in Contexts : InUse(handle[d])' => InUse(handle[d])
    BY <2>3, <2>4 DEF InUse
  <2>11. ~InUse(handle[l])'
    <3>1. SUFFICES ASSUME NEW d \in Contexts, handle'[d] = handle'[l],
                          sock'[d] \in {"open", "gone"}
                   PROVE  FALSE
      BY <2>4 DEF InUse
    <3>2. d # l
      BY <2>3, <3>1
    <3>3. Open(d) /\ handle[d] = handle[l]
      BY <2>3, <2>4, <3>1, <3>2 DEF Open
    <3> QED
      BY <2>1, <2>5, <3>2, <3>3 DEF HandleInv, OneOpen
  <2>12. MisdirectedIsOld'
    <3> SUFFICES ASSUME NEW d \in Contexts, Misdirected(d)', d[1] = aconn
                 PROVE  FALSE
      BY <2>4 DEF MisdirectedIsOld
    <3>1. d # l /\ Dangling(d)
      BY <2>4, <2>8, <2>11 DEF Misdirected
    <3> QED
      BY <1>1, <3>1
  <2> QED
    BY <2>6, <2>7, <2>9, <2>12 DEF HandleInv
<1>5. ASSUME NEW held, Release(held)
      PROVE  /\ UNCHANGED handle
             /\ \A c \in Contexts :
                  /\ life'[c] = "none" <=> life[c] = "none"
                  /\ sock'[c] = "none" => sock[c] = "none"
                  /\ Open(c)' => Open(c)
                  /\ Dangling(c)' => Dangling(c)
  BY <1>5 DEF Release, Freed, Unkept, Dangling, Open
<1>6. CASE AcceptReturns
  BY <1>5, <1>6, LoopTestType, HandlesStay DEF AcceptReturns, AcceptIdle
<1>7. CASE DropLocal
  <2>1. \A c \in Contexts : Dangling(c) /\ c \in list' \cup ahold' => c[1] # aconn
    BY <1>1, <1>7 DEF DropLocal, AbortContext
  <2> QED
    BY <1>5, <1>7, <2>1, HandlesStay DEF DropLocal, AbortContext, AcceptIdle
<1>8. CASE DropProxy
  BY <1>5, <1>8, LoopTestType, HandlesStay DEF DropProxy, AbortContext, AcceptIdle
<1>9. CASE AddToClientList
  <2>1. list' \cup ahold' = list \cup ahold
    BY <1>9 DEF AddToClientList, OwnershipInv, AcceptHolds
  <2> QED
    BY <1>9, <2>1, HandlesStay DEF AddToClientList, AcceptIdle, Dangling, Open
<1>10. CASE AcceptNothing
  BY <1>10, LoopTestType, HandlesStay DEF AcceptNothing, AcceptIdle, Dangling, Open
<1>11. CASE InitRemoteConnectionFails \/ AssociateWithIOCP
  BY <1>11, HandlesStay DEF InitRemoteConnectionFails, AssociateWithIOCP, AcceptIdle,
     Dangling, Open
<1>12. CASE PostLocalRecv \/ PostProxyRecv
  BY <1>12, HandlesStay DEF PostLocalRecv, PostProxyRecv, PostFirstRecv, AcceptIdle,
     Dangling, Open
<1> QED
  BY <1>2, <1>3, <1>4, <1>6, <1>7, <1>8, <1>9, <1>10, <1>11, <1>12 DEF Accept

(* So do the steps of all the others.                                      *)
LEMMA OthersHandles ==
  ASSUME TypeOK, HandleInv,
         \/ StartUp \/ KeyHit \/ CleanUp \/ Network
         \/ \E w \in Workers : Worker(w) \/ AfterDeInitialize(w)
  PROVE  HandleInv'
<1> USE DEF mainVars, acceptVars, workerVars, workVars, histVars, objVars, ioVars
<1>1. /\ list' \cup ahold' \subseteq list \cup ahold
      /\ UNCHANGED <<handle, aconn>>
      /\ apc' = apc \/ (AcceptIdle /\ AcceptIdle')
  BY DEF StartUp, Initialize, InitializeFails, SetUpFails, StartAccepting, KeyHit,
     CleanUp, JoinAcceptThread, JoinWorkers, CleanClientList, DeInitialize, Return,
     Network, PeerLeaves, DataArrives, SendCompletes, OperationFails, Complete,
     AfterDeInitialize, PortClosed, UseDeleted, Worker, Handle, TakeQuit, TakePacket,
     KeyFaults, ReadKey, Forward, Send, PostSend, EndForward, Recv,
     RemoveFromClientListAndCleanUpMemory, EndIteration, Release, AcceptIdle, TypeOK
<1>2. \A c \in Contexts :
        /\ life'[c] = "none" <=> life[c] = "none"
        /\ sock'[c] = "none" => sock[c] = "none"
        /\ Open(c)' => Open(c)
        /\ Dangling(c)' => Dangling(c)
  <2>1. CASE UNCHANGED <<life, sock>>
    BY <2>1 DEF Open, Dangling
  <2>2. ASSUME NEW held, Release(held)
        PROVE  \A c \in Contexts :
                 /\ life'[c] = "none" <=> life[c] = "none"
                 /\ sock'[c] = "none" => sock[c] = "none"
                 /\ Open(c)' => Open(c)
                 /\ Dangling(c)' => Dangling(c)
    BY <2>2 DEF Release, Freed, Unkept, Dangling, Open
  <2>3. CASE \E c \in Contexts : PeerLeaves(c)
    BY <2>3 DEF PeerLeaves, Dangling, Open, TypeOK
  <2>4. CASE CleanClientList \/ \E w \in Workers : EndIteration(w) \/ EndForward(w)
    BY <2>2, <2>4 DEF CleanClientList, EndIteration, EndForward
  <2> QED
    BY <2>1, <2>3, <2>4 DEF StartUp, Initialize, InitializeFails, SetUpFails,
       StartAccepting, KeyHit, CleanUp, JoinAcceptThread, JoinWorkers, DeInitialize,
       Return, Network, DataArrives, SendCompletes, OperationFails, Complete,
       AfterDeInitialize, PortClosed, UseDeleted, Worker, Handle, TakeQuit, TakePacket,
       KeyFaults, ReadKey, Forward, Send, PostSend, EndForward, Recv,
       RemoveFromClientListAndCleanUpMemory
<1> QED
  BY <1>1, <1>2, HandlesStay DEF AcceptIdle

(* A handle value that is closed twice and was given to another socket in  *)
(* between: a worker still holds the context that will close it again.     *)
THEOREM StaleHandles == Spec => []StaleHandleInWorkerOnly
<1>1. ASSUME Init PROVE HandleInv
  BY <1>1 DEF Init, HandleInv, HandleNames, OneOpen, DanglingIsDropped, MisdirectedIsOld,
     Misdirected, Dangling, Open
<1>2. TypeOK /\ OwnershipInv /\ HandleInv /\ [Next]_vars => HandleInv'
  <2> SUFFICES ASSUME TypeOK, OwnershipInv, HandleInv, [Next]_vars
               PROVE  HandleInv'
    OBVIOUS
  <2>1. CASE UNCHANGED vars
    BY <2>1, HandlesStay DEF vars, objVars, acceptVars, Open, Dangling, AcceptIdle
  <2>2. CASE Next /\ ~UNCHANGED vars
    BY <2>2, AcceptHandles, OthersHandles DEF Next, Stopped
  <2> QED
    BY <2>1, <2>2
<1>3. TypeOK /\ OwnershipInv /\ HandleInv => StaleHandleInWorkerOnly
  <2> SUFFICES ASSUME TypeOK, OwnershipInv, HandleInv, NEW c \in Contexts, Misdirected(c)
               PROVE  c \notin list \cup ahold /\ \E w \in Workers : c \in {wctx[w], wfwd[w]}
    BY DEF StaleHandleInWorkerOnly
  <2>1. Dangling(c) /\ c[2] = "local" /\ c \notin list \cup ahold
    BY DEF Misdirected, HandleInv, DanglingIsDropped, MisdirectedIsOld, AcceptIdle
  <2>2. Buddy(c) = Proxy(c[1]) /\ c[1] \in Connections
    BY <2>1, Pairing
  <2>3. ~BuddyKeeps(c)
    BY <2>2 DEF BuddyKeeps, OwnershipInv, LinkShape
  <2> QED
    BY <2>1, <2>3 DEF OwnershipInv, NoLeak, Held, Dangling
<1> QED
  BY <1>1, <1>2, <1>3, TypeCorrect, Ownership, PTL DEF Spec
=============================================================================
