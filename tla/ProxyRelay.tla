----------------------------- MODULE ProxyRelay -----------------------------
(***************************************************************************)
(* The I/O engine of MdProxyService: the accept thread, the pool of        *)
(* completion-port workers, the shutdown sequence of main, and the objects *)
(* they share -- the list of socket contexts, the contexts themselves      *)
(* (reference counted, linked in local/proxy pairs), and the I/O           *)
(* completion port.                                                        *)
(*                                                                         *)
(* One accepted connection owns two contexts: the "local" one for the      *)
(* redirected client and the "proxy" one for the original destination.     *)
(* Each context embeds one OVERLAPPED for receives and one for sends.      *)
(*                                                                         *)
(* Behaviour the C++ standard leaves undefined (a stale completion key, a  *)
(* freed context, a null buddy), and the use of a socket handle closed     *)
(* before and since given to another connection, set undef; nothing is     *)
(* claimed after that, so no step follows it.                              *)
(*                                                                         *)
(* A definition whose comment begins "Fault:" is a wrong version of the    *)
(* definition after it and is used nowhere: put in its place, it makes a   *)
(* property below fail.                                                    *)
(***************************************************************************)
EXTENDS Integers, FiniteSets

CONSTANTS
  Connections,        \* connections the accept thread may be offered
  Workers,            \* the g_nThreads worker threads
  ThreadsFail,        \* CreateThread may fail
  SlotReads,          \* what reading a completion key may yield, see SlotContexts
  MaxSends,           \* bound: data arrives only while fewer sends are unfinished
  MaximumWaitObjects, \* MAXIMUM_WAIT_OBJECTS of the Windows SDK
  None

ASSUME WorkersAssumption == IsFiniteSet(Workers) /\ Workers # {}
ASSUME ThreadsFailAssumption == ThreadsFail \in BOOLEAN
ASSUME SlotReadsAssumption == SlotReads \subseteq {"own", "other", "fault"}
ASSUME NoneAssumption == None \notin Connections \X {"local", "proxy"}
ASSUME BoundsAssumption == MaxSends \in Nat /\ MaximumWaitObjects \in Nat

-----------------------------------------------------------------------------
(* Contexts, the OVERLAPPEDs inside them and the packets of the port.      *)

Contexts == Connections \X {"local", "proxy"}

Local(k) == <<k, "local">>
Proxy(k) == <<k, "proxy">>

Buddy(c) == IF c[2] = "local" THEN Proxy(c[1]) ELSE Local(c[1])

Overlapped == [ctx : Contexts, type : {"OP_READ", "OP_WRITE"}]

RecvOp(c) == [ctx |-> c, type |-> "OP_READ"]
SendOp(c) == [ctx |-> c, type |-> "OP_WRITE"]

(* ok is FALSE for a failed completion and for one of zero bytes: the      *)
(* worker treats both as "connection gone".                                *)
Packets == [op : Overlapped, ok : BOOLEAN]

Done(o, ok) == [op |-> o, ok |-> ok]

VARIABLES
  main,     \* where main is
  shutdown, \* g_hShutdownEvent is signalled
  quits,    \* null packets queued
  apc,      \* where the accept thread is
  aconn,    \* the connection it is setting up
  ahold,    \* contexts its local shared_ptrs hold
  wpc,      \* where each worker is
  wpkt,     \* the packet a worker took and has not looked at yet
  wctx,     \* the context a worker's pClientContext holds
  wfwd,     \* the buddy a worker's Forward holds while it is in its Send
  list,     \* g_ClientContext
  life,     \* each context: not yet made, live, or destroyed
  link,     \* each context's m_pBuddy: empty, strong or weak
  sock,     \* each context's socket; "gone": ours is open, the far end left
  handle,   \* the value of its socket handle, named by the first to have it
  pending,  \* operations the kernel holds, for each OVERLAPPED
  port,     \* completion packets queued, as a bag
  undef,    \* the undefined behaviour reached, if any
  crossed,  \* history: connections with a packet handled on another context
  mistyped  \* history: connections with a send taken for a receive

mainVars == <<main, shutdown, quits>>
acceptVars == <<apc, aconn, ahold>>
histVars == <<crossed, mistyped>>
workVars == <<wpkt, wctx, wfwd, histVars>>
workerVars == <<wpc, workVars>>
objVars == <<life, link, sock, handle>>
ioVars == <<pending, port>>
vars == <<mainVars, acceptVars, workerVars, list, objVars, ioVars, undef>>

MainStates == {"start", "setup", "error", "running", "joinAccept", "joinWorkers",
               "cleanList", "deinit", "closing", "exited"}
AcceptStates == {"off", "wait", "connect", "associate", "publish",
                 "recvLocal", "recvProxy", "return",
                 "abort", "dropLocal", "dropProxy", "done"}
Sending == {"fill", "sent", "unsent"}
Handling == Sending \cup {"forward", "send", "recv", "remove", "drop"}
WorkerStates == Handling \cup {"off", "wait", "deref", "done"}
Undefined == {"none", "staleKey", "deadContext", "nullBuddy", "staleHandle",
              "deletedLock"}

Init ==
  /\ main = "start" /\ shutdown = FALSE /\ quits = 0
  /\ apc = "off" /\ aconn = None /\ ahold = {}
  /\ wpc = [w \in Workers |-> "off"]
  /\ wpkt = [w \in Workers |-> None]
  /\ wctx = [w \in Workers |-> None]
  /\ wfwd = [w \in Workers |-> None]
  /\ list = {}
  /\ life = [c \in Contexts |-> "none"]
  /\ link = [c \in Contexts |-> "none"]
  /\ sock = [c \in Contexts |-> "none"]
  /\ handle = [c \in Contexts |-> c]
  /\ pending = [o \in Overlapped |-> 0]
  /\ port = [p \in Packets |-> 0]
  /\ undef = "none"
  /\ crossed = {} /\ mistyped = {}

-----------------------------------------------------------------------------
(* Ownership. A context is kept by the list, by a shared_ptr local of a    *)
(* thread, or by a live buddy whose m_pBuddy is strong.                    *)

Held(ls, ah, wc, wf) ==
  ls \cup ah \cup {c \in Contexts : \E w \in Workers : wc[w] = c \/ wf[w] = c}

BuddyKeeps(c) == life[Buddy(c)] = "live" /\ link[Buddy(c)] = "strong"

Unkept(held) == {c \in Contexts : life[c] = "live" /\ c \notin held /\ ~BuddyKeeps(c)}

(* Destroying a context destroys its m_pBuddy, which may have been the     *)
(* last owner of the other one.                                            *)
Freed(held) ==
  LET first == Unkept(held)
  IN  first \cup {c \in Contexts : life[c] = "live" /\ c \notin held /\ Buddy(c) \in first}

(* The context lives and its handle was closed: the system may give the    *)
(* same value to another socket.                                           *)
Dangling(c) == life[c] = "live" /\ sock[c] = "closed"

(* A socket has handle value h.                                            *)
InUse(h) == \E d \in Contexts : handle[d] = h /\ sock[d] \in {"open", "gone"}

(* c's handle value was closed and is another socket's by now.             *)
Misdirected(c) == Dangling(c) /\ InUse(handle[c])

(* The last owners let go: ~SocketContext cancels the I/O and closes the   *)
(* handle. CancelIoEx only asks: what is pending stays with the kernel     *)
(* until OperationFails delivers it.                                       *)
Release(held) ==
  /\ life' = [c \in Contexts |-> IF c \in Freed(held) THEN "dead" ELSE life[c]]
  /\ sock' = [c \in Contexts |-> IF c \in Freed(held) THEN "closed" ELSE sock[c]]
  /\ undef' = IF \E c \in Freed(held) : Misdirected(c)
              THEN "staleHandle" ELSE undef
  /\ UNCHANGED <<link, handle>>

(* m_pBuddy.Get() yields a null pointer.                                   *)
NoBuddy(c) == link[c] = "none" \/ life[Buddy(c)] # "live"

(* Fault: both pointers strong, or both weak.                              *)
SetBuddyStrong(lk, c) == [lk EXCEPT ![c] = "strong"]
SetBuddyWeak(lk, c) == [lk EXCEPT ![c] = "weak"]

(* c's m_pBuddy is set to its buddy: strong while the buddy itself has no  *)
(* buddy yet, weak otherwise.                                              *)
SetBuddy(lk, c) ==
  [lk EXCEPT ![c] = IF lk[Buddy(c)] = "none" THEN "strong" ELSE "weak"]

(* WSARecv or WSASend takes operation o, or fails, which either may do at  *)
(* any time and must do on a socket we closed.                             *)
Post(o) ==
  /\ sock[o.ctx] \in {"open", "gone"}
  /\ pending' = [pending EXCEPT ![o] = @ + 1]

Outstanding(o) == pending[o] + port[Done(o, TRUE)] + port[Done(o, FALSE)]

(* The test of g_hShutdownEvent at the head of both thread loops, taken    *)
(* with the end of the iteration before.                                   *)
LoopTest == IF shutdown THEN "done" ELSE "wait"

-----------------------------------------------------------------------------
(* The accept thread.                                                      *)

(* The wait times out, or the event or WSAAccept brings no socket.         *)
AcceptNothing ==
  /\ apc = "wait"
  /\ apc' = LoopTest
  /\ UNCHANGED <<mainVars, aconn, ahold, workerVars, list, objVars, ioVars, undef>>

(* A context is made around the socket of c, whose far end is up. Its      *)
(* handle is new, or one that was closed under a live context.             *)
MakeContext(c) ==
  /\ \/ UNCHANGED handle
     \/ \E a \in Contexts :
          /\ Dangling(a) /\ ~InUse(handle[a])
          /\ handle' = [handle EXCEPT ![c] = handle[a]]
  /\ ahold' = ahold \cup {c}
  /\ life' = [life EXCEPT ![c] = "live"]
  /\ sock' = [sock EXCEPT ![c] = "open"]
  /\ UNCHANGED <<mainVars, workerVars, list, link, ioVars, undef>>

AcceptConnection(k) ==
  /\ apc = "wait"
  /\ life[Local(k)] = "none"
  /\ apc' = "connect" /\ aconn' = k
  /\ MakeContext(Local(k))

InitRemoteConnection ==
  /\ apc = "connect"
  /\ apc' = "associate" /\ UNCHANGED aconn
  /\ MakeContext(Proxy(aconn))

(* One of the redirect ioctls, WSASocket or WSAConnect fails.              *)
InitRemoteConnectionFails ==
  /\ apc = "connect"
  /\ apc' = "abort"
  /\ UNCHANGED <<mainVars, aconn, ahold, workerVars, list, objVars, ioVars, undef>>

(* The pair is linked and both sockets are tied to the port; either        *)
(* CreateIoCompletionPort may fail, before anything is listed.             *)
AssociateWithIOCP ==
  /\ apc = "associate"
  /\ link' = SetBuddy(SetBuddy(link, Local(aconn)), Proxy(aconn))
  /\ apc' \in {"publish", "abort"}
  /\ UNCHANGED <<mainVars, aconn, ahold, workerVars, list, life, sock, handle, ioVars, undef>>

(* Both contexts of the pair: no operation of theirs has been posted yet.  *)
AddToClientList ==
  /\ apc = "publish"
  /\ list' = list \cup {Local(aconn), Proxy(aconn)}
  /\ apc' = "recvLocal"
  /\ UNCHANGED <<mainVars, aconn, ahold, workerVars, objVars, ioVars, undef>>

PostFirstRecv(c, next) ==
  /\ \/ Post(RecvOp(c)) /\ apc' = next
     \/ UNCHANGED pending /\ apc' = "abort"
  /\ UNCHANGED <<mainVars, aconn, ahold, workerVars, list, objVars, port, undef>>

PostLocalRecv == apc = "recvLocal" /\ PostFirstRecv(Local(aconn), "recvProxy")
PostProxyRecv == apc = "recvProxy" /\ PostFirstRecv(Proxy(aconn), "return")

(* AcceptConnection returns and its two shared_ptrs go out of scope.       *)
AcceptReturns ==
  /\ apc = "return"
  /\ apc' = LoopTest /\ aconn' = None /\ ahold' = {}
  /\ Release(Held(list, ahold', wctx, wfwd))
  /\ UNCHANGED <<mainVars, workerVars, list, ioVars>>

(* The error exit closes the accepted socket under its context.            *)
CloseAccepted ==
  /\ apc = "abort"
  /\ apc' = "dropLocal"
  /\ sock' = [sock EXCEPT ![Local(aconn)] = "closed"]
  /\ UNCHANGED <<mainVars, aconn, ahold, workerVars, list, life, link, handle, ioVars, undef>>

(* Fault: the error exit forgets the list.                                 *)
AbortContextListed(c) ==
  /\ ahold' = ahold \ {c}
  /\ Release(Held(list, ahold', wctx, wfwd))
  /\ UNCHANGED <<mainVars, workerVars, list, ioVars>>

(* ... then takes each context off the list and drops it.                  *)
AbortContext(c) ==
  /\ list' = list \ {c}
  /\ ahold' = ahold \ {c}
  /\ Release(Held(list', ahold', wctx, wfwd))
  /\ UNCHANGED <<mainVars, workerVars, ioVars>>

DropLocal ==
  /\ apc = "dropLocal"
  /\ apc' = "dropProxy" /\ UNCHANGED aconn
  /\ AbortContext(Local(aconn))

DropProxy ==
  /\ apc = "dropProxy"
  /\ apc' = LoopTest /\ aconn' = None
  /\ AbortContext(Proxy(aconn))

Accept ==
  \/ AcceptNothing
  \/ \E k \in Connections : AcceptConnection(k)
  \/ InitRemoteConnection \/ InitRemoteConnectionFails
  \/ AssociateWithIOCP \/ AddToClientList
  \/ PostLocalRecv \/ PostProxyRecv \/ AcceptReturns
  \/ CloseAccepted \/ DropLocal \/ DropProxy

-----------------------------------------------------------------------------
(* A worker thread.                                                        *)

(* GetQueuedCompletionStatus yields a null packet: the worker returns.     *)
TakeQuit(w) ==
  /\ wpc[w] = "wait"
  /\ quits > 0
  /\ quits' = quits - 1
  /\ wpc' = [wpc EXCEPT ![w] = "done"]
  /\ UNCHANGED <<main, shutdown, acceptVars, workVars, list, objVars, ioVars, undef>>

(* ... or the packet of an operation. The port is first-in first-out; the  *)
(* bag allows every order, a superset.                                     *)
TakePacket(w, p) ==
  /\ wpc[w] = "wait"
  /\ port[p] > 0
  /\ port' = [port EXCEPT ![p] = @ - 1]
  /\ wpkt' = [wpkt EXCEPT ![w] = p]
  /\ wpc' = [wpc EXCEPT ![w] = "deref"]
  /\ UNCHANGED <<mainVars, acceptVars, wctx, wfwd, histVars, list, objVars, pending, undef>>

(* The completion key is the address of the by-value parameter of          *)
(* AssociateWithIOCP, a slot of the accept thread's stack that is dead     *)
(* when a worker reads it. It may still hold the bits of the pointer to    *)
(* the packet's own context, those of another context passed there (both   *)
(* calls use the same slot), or anything else.                             *)
SlotContexts(c) ==
  (IF "own" \in SlotReads THEN {c} ELSE {})
    \cup (IF "other" \in SlotReads THEN {d \in Contexts : life[d] # "none"} ELSE {})

KeyFaults(w) ==
  /\ wpc[w] = "deref"
  /\ "fault" \in SlotReads
  /\ undef' = "staleKey"
  /\ UNCHANGED <<mainVars, acceptVars, workerVars, list, objVars, ioVars>>

(* A worker is in c's Send, between ZeroMemory and WSASend.                *)
Filling(c) == \E v \in Workers : wpc[v] = "fill" /\ wfwd[v] = c

(* What reading IoType of o may yield. m_IoSend serves every send of its   *)
(* context: when a worker looks at the packet of one, another worker may   *)
(* be in the next Send, which zeroes IoType -- OP_READ is 0 -- before it   *)
(* stores OP_WRITE.                                                        *)
IoTypes(o) ==
  {o.type} \cup
    IF o.type = "OP_WRITE" /\ Filling(o.ctx) THEN {"OP_READ"} ELSE {}

(* Fault: the case of OP_READ falls into a Recv for OP_WRITE too.          *)
DispatchRearms(ok, type) ==
  IF ~ok THEN "remove" ELSE IF type = "OP_READ" THEN "forward" ELSE "recv"

(* Fault: a failed completion is not treated as a closed connection.       *)
DispatchIgnoresFailure(ok, type) ==
  IF ok /\ type = "OP_READ" THEN "forward" ELSE "drop"

(* Where the worker goes with a packet of that outcome and IoType.         *)
Dispatch(ok, type) ==
  CASE ~ok -> "remove"
    [] ok /\ type = "OP_READ" -> "forward"
    [] ok /\ type = "OP_WRITE" -> "drop"

(* The worker copies the shared_ptr behind the key and looks at the        *)
(* packet for the last time. Copying a pointer whose context is destroyed, *)
(* or reading the IoType of a destroyed OVERLAPPED, is undefined. The two  *)
(* reads are one step, taken where IoType is read: with a key of its own   *)
(* the copy keeps nothing alive until then that the other worker's Send    *)
(* would not.                                                              *)
ReadKey(w) ==
  LET p == wpkt[w] IN
  /\ wpc[w] = "deref"
  /\ \E c \in SlotContexts(p.op.ctx), t \in IoTypes(p.op) :
       IF life[c] = "dead" \/ (p.ok /\ life[p.op.ctx] = "dead")
       THEN undef' = "deadContext" /\ UNCHANGED <<wpc, wpkt, wctx, histVars>>
       ELSE /\ wctx' = [wctx EXCEPT ![w] = c]
            /\ wpkt' = [wpkt EXCEPT ![w] = None]
            /\ wpc' = [wpc EXCEPT ![w] = Dispatch(p.ok, t)]
            /\ crossed' = crossed \cup
                 IF c # p.op.ctx THEN {c[1], p.op.ctx[1]} ELSE {}
            /\ mistyped' = mistyped \cup
                 IF p.ok /\ t # p.op.type THEN {p.op.ctx[1]} ELSE {}
            /\ UNCHANGED undef
  /\ UNCHANGED <<mainVars, acceptVars, wfwd, list, objVars, ioVars>>

(* Forward, first half: is there a buddy?                                  *)
Forward(w) ==
  /\ wpc[w] = "forward"
  /\ wpc' = [wpc EXCEPT ![w] = IF NoBuddy(wctx[w]) THEN "remove" ELSE "send"]
  /\ UNCHANGED <<mainVars, acceptVars, workVars, list, objVars, ioVars, undef>>

(* Forward, second half: the buddy is looked up again, is held from here   *)
(* on, and its Send zeroes m_IoSend and starts to fill it in.              *)
Send(w) ==
  /\ wpc[w] = "send"
  /\ IF NoBuddy(wctx[w])
     THEN undef' = "nullBuddy" /\ UNCHANGED <<wpc, wfwd>>
     ELSE /\ wfwd' = [wfwd EXCEPT ![w] = Buddy(wctx[w])]
          /\ wpc' = [wpc EXCEPT ![w] = "fill"]
          /\ UNCHANGED undef
  /\ UNCHANGED <<mainVars, acceptVars, wpkt, wctx, histVars, list, objVars, ioVars>>

(* Another worker is at the same place with the same context, so that the  *)
(* buffer description in its OVERLAPPED may be zeroed when the call reads  *)
(* it. An operation on no bytes completes like a closed connection.        *)
Torn(w) == \E v \in Workers \ {w} : wpc[v] = wpc[w] /\ wctx[v] = wctx[w]

PostOrTear(w, o) ==
  \/ Post(o) /\ UNCHANGED port
  \/ /\ Torn(w) /\ sock[o.ctx] \in {"open", "gone"}
     /\ port' = [port EXCEPT ![Done(o, FALSE)] = @ + 1]
     /\ UNCHANGED pending

(* Send calls WSASend. A handle that names another socket by now           *)
(* misdirects it, as it does Recv.                                         *)
PostSend(w) ==
  /\ wpc[w] = "fill"
  /\ \/ PostOrTear(w, SendOp(wfwd[w])) /\ wpc' = [wpc EXCEPT ![w] = "sent"]
     \/ UNCHANGED ioVars /\ wpc' = [wpc EXCEPT ![w] = "unsent"]
  /\ undef' = IF Misdirected(wfwd[w]) THEN "staleHandle" ELSE undef
  /\ UNCHANGED <<mainVars, acceptVars, workVars, list, objVars>>

(* Fault: the result of Send is not looked at.                             *)
AfterForwardUnchecked(pc) == "recv"

(* Where the result of Forward leads.                                      *)
AfterForward(pc) == IF pc = "sent" THEN "recv" ELSE "remove"

(* Forward returns; its pointer to the buddy may have been the last one.   *)
EndForward(w) ==
  /\ wpc[w] \in {"sent", "unsent"}
  /\ wpc' = [wpc EXCEPT ![w] = AfterForward(wpc[w])]
  /\ wfwd' = [wfwd EXCEPT ![w] = None]
  /\ Release(Held(list, ahold, wctx, wfwd'))
  /\ UNCHANGED <<mainVars, acceptVars, wpkt, wctx, histVars, list, ioVars>>

(* Fault: the result of the next receive is not looked at.                 *)
RecvUnchecked(w) ==
  /\ wpc[w] = "recv"
  /\ Post(RecvOp(wctx[w])) \/ UNCHANGED pending
  /\ wpc' = [wpc EXCEPT ![w] = "drop"]
  /\ UNCHANGED <<mainVars, acceptVars, workVars, list, objVars, port, undef>>

Recv(w) ==
  /\ wpc[w] = "recv"
  /\ \/ PostOrTear(w, RecvOp(wctx[w])) /\ wpc' = [wpc EXCEPT ![w] = "drop"]
     \/ UNCHANGED ioVars /\ wpc' = [wpc EXCEPT ![w] = "remove"]
  /\ undef' = IF Misdirected(wctx[w]) THEN "staleHandle" ELSE undef
  /\ UNCHANGED <<mainVars, acceptVars, workVars, list, objVars>>

RemoveFromClientListAndCleanUpMemory(w) ==
  /\ wpc[w] = "remove"
  /\ list' = list \ {wctx[w]}
  /\ wpc' = [wpc EXCEPT ![w] = "drop"]
  /\ UNCHANGED <<mainVars, acceptVars, workVars, objVars, ioVars, undef>>

(* Fault: pClientContext is declared outside the loop and outlives it.     *)
EndIterationKeeps(w) ==
  /\ wpc[w] = "drop"
  /\ wpc' = [wpc EXCEPT ![w] = LoopTest]
  /\ UNCHANGED <<mainVars, acceptVars, workVars, list, objVars, ioVars, undef>>

(* The end of the iteration: pClientContext goes out of scope.             *)
EndIteration(w) ==
  /\ wpc[w] = "drop"
  /\ wpc' = [wpc EXCEPT ![w] = LoopTest]
  /\ wctx' = [wctx EXCEPT ![w] = None]
  /\ Release(Held(list, ahold, wctx', wfwd))
  /\ UNCHANGED <<mainVars, acceptVars, wpkt, wfwd, histVars, list, ioVars>>

Handle(w) ==
  \/ KeyFaults(w) \/ ReadKey(w)
  \/ Forward(w) \/ Send(w) \/ PostSend(w) \/ EndForward(w) \/ Recv(w)
  \/ RemoveFromClientListAndCleanUpMemory(w) \/ EndIteration(w)

Worker(w) ==
  \/ TakeQuit(w)
  \/ \E p \in Packets : TakePacket(w, p)
  \/ Handle(w)

-----------------------------------------------------------------------------
(* The main thread: start-up, the key loop, CleanUp and DeInitialize.      *)

(* The port is made and its workers are started. CreateThread's result is  *)
(* not looked at: a worker that could not be made is a null handle.        *)
Initialize ==
  /\ main = "start"
  /\ main' = "setup"
  /\ wpc' \in [Workers -> IF ThreadsFail THEN {"wait", "off"} ELSE {"wait"}]
  /\ UNCHANGED <<shutdown, quits, acceptVars, workVars, list, objVars, ioVars, undef>>

(* The driver, Winsock or the port is not to be had.                       *)
InitializeFails ==
  /\ main = "start"
  /\ main' = "exited"
  /\ UNCHANGED <<shutdown, quits, acceptVars, workerVars, list, objVars, ioVars, undef>>

(* The listening socket or its event is not to be had; workers run.        *)
SetUpFails ==
  /\ main = "setup"
  /\ main' = "error"
  /\ UNCHANGED <<shutdown, quits, acceptVars, workerVars, list, objVars, ioVars, undef>>

StartAccepting ==
  /\ main = "setup"
  /\ main' = "running"
  /\ apc' \in IF ThreadsFail THEN {"wait", "off"} ELSE {"wait"}
  /\ UNCHANGED <<shutdown, quits, aconn, ahold, workerVars, list, objVars, ioVars, undef>>

StartUp == Initialize \/ InitializeFails \/ SetUpFails \/ StartAccepting

(* Fault: the shutdown event is not signalled.                             *)
KeyHitQuiet ==
  /\ main = "running"
  /\ main' = "joinAccept"
  /\ UNCHANGED <<shutdown, quits, acceptVars, workerVars, list, objVars, ioVars, undef>>

KeyHit ==
  /\ main = "running"
  /\ main' = "joinAccept"
  /\ shutdown' = TRUE
  /\ UNCHANGED <<quits, acceptVars, workerVars, list, objVars, ioVars, undef>>

(* Fault: the accept thread is not waited for.                             *)
JoinAcceptThreadNoWait ==
  /\ main = "joinAccept"
  /\ quits' = quits + Cardinality(Workers)
  /\ main' = "joinWorkers"
  /\ UNCHANGED <<shutdown, acceptVars, workerVars, list, objVars, ioVars, undef>>

(* Fault: one null packet too few.                                         *)
JoinAcceptThreadOneShort ==
  /\ main = "joinAccept"
  /\ apc = "done"
  /\ quits' = quits + Cardinality(Workers) - 1
  /\ main' = "joinWorkers"
  /\ UNCHANGED <<shutdown, acceptVars, workerVars, list, objVars, ioVars, undef>>

JoinAcceptThread ==
  /\ main = "joinAccept"
  /\ apc \in {"done", "off"}
  /\ quits' = quits + Cardinality(Workers)
  /\ main' = "joinWorkers"
  /\ UNCHANGED <<shutdown, acceptVars, workerVars, list, objVars, ioVars, undef>>

(* Fault: main waits for any worker, not for all.                          *)
JoinWorkersAny ==
  /\ main = "joinWorkers"
  /\ \E w \in Workers : wpc[w] = "done"
  /\ main' = "cleanList"
  /\ UNCHANGED <<shutdown, quits, acceptVars, workerVars, list, objVars, ioVars, undef>>

(* WaitForMultipleObjects fails at once when given a null handle or more   *)
(* handles than MAXIMUM_WAIT_OBJECTS, and its result is not looked at.     *)
JoinWorkers ==
  /\ main = "joinWorkers"
  /\ \/ \A w \in Workers : wpc[w] = "done"
     \/ \E w \in Workers : wpc[w] = "off"
     \/ Cardinality(Workers) > MaximumWaitObjects
  /\ main' = "cleanList"
  /\ UNCHANGED <<shutdown, quits, acceptVars, workerVars, list, objVars, ioVars, undef>>

CleanClientList ==
  /\ main = "cleanList"
  /\ list' = {}
  /\ Release(Held(list', ahold, wctx, wfwd))
  /\ main' = "deinit"
  /\ UNCHANGED <<shutdown, quits, acceptVars, workerVars, ioVars>>

(* The critical sections and the port are gone, after CleanUp or on the    *)
(* error exit of main.                                                     *)
DeInitialize ==
  /\ main \in {"deinit", "error"}
  /\ main' = "closing"
  /\ UNCHANGED <<shutdown, quits, acceptVars, workerVars, list, objVars, ioVars, undef>>

(* main returns: the process ends.                                         *)
Return ==
  /\ main = "closing"
  /\ main' = "exited"
  /\ UNCHANGED <<shutdown, quits, acceptVars, workerVars, list, objVars, ioVars, undef>>

CleanUp == JoinAcceptThread \/ JoinWorkers \/ CleanClientList \/ DeInitialize \/ Return

(* A worker still at GetQueuedCompletionStatus after DeInitialize: the call *)
(* fails and leaves lpContext as it was, null if it never took a packet.   *)
PortClosed(w) ==
  /\ wpc[w] = "wait"
  /\ wpc' = [wpc EXCEPT ![w] = "done"]
  /\ UNCHANGED <<mainVars, acceptVars, workVars, list, objVars, ioVars, undef>>

(* ... otherwise, or in the middle of an iteration, it goes on to enter a  *)
(* critical section that is deleted.                                       *)
UseDeleted(w) ==
  /\ \/ wpc[w] \in Handling \cup {"deref"}
     \/ wpc[w] = "wait" /\ \E c \in Contexts : life[c] # "none"
  /\ undef' = "deletedLock"
  /\ UNCHANGED <<mainVars, acceptVars, workerVars, list, objVars, ioVars>>

AfterDeInitialize(w) == PortClosed(w) \/ UseDeleted(w)

-----------------------------------------------------------------------------
(* The network and the kernel.                                             *)

PeerLeaves(c) ==
  /\ sock[c] = "open"
  /\ sock' = [sock EXCEPT ![c] = "gone"]
  /\ UNCHANGED <<mainVars, acceptVars, workerVars, list, life, link, handle, ioVars, undef>>

Complete(o, ok) ==
  /\ pending[o] > 0
  /\ pending' = [pending EXCEPT ![o] = @ - 1]
  /\ port' = [port EXCEPT ![Done(o, ok)] = @ + 1]
  /\ UNCHANGED <<mainVars, acceptVars, workerVars, list, objVars, undef>>

(* MaxSends bounds how far the network runs ahead of the sends.            *)
DataArrives(c) ==
  /\ sock[c] = "open"
  /\ \A d \in Contexts : Outstanding(SendOp(d)) < MaxSends
  /\ Complete(RecvOp(c), TRUE)

(* The far end may take what is sent after it has sent its own last.       *)
SendCompletes(c) ==
  /\ sock[c] \in {"open", "gone"}
  /\ Complete(SendOp(c), TRUE)

(* The connection is gone, or its I/O was cancelled by closing the socket. *)
OperationFails(o) ==
  /\ sock[o.ctx] \in {"gone", "closed"}
  /\ Complete(o, FALSE)

Network ==
  \/ \E c \in Contexts : PeerLeaves(c) \/ DataArrives(c) \/ SendCompletes(c)
  \/ \E o \in Overlapped : OperationFails(o)

-----------------------------------------------------------------------------

Running == undef = "none" /\ main # "exited"

(* The critical sections and the port exist, or main has yet to make them. *)
Serving == Running /\ main # "closing"

(* The process has ended, or its behaviour is no longer defined.           *)
Stopped == ~Running /\ UNCHANGED vars

Next ==
  \/ Serving /\ (StartUp \/ Accept \/ (\E w \in Workers : Worker(w)) \/ KeyHit \/ Network)
  \/ Running /\ CleanUp
  \/ Running /\ main = "closing" /\ \E w \in Workers : AfterDeInitialize(w)
  \/ Stopped

Spec == Init /\ [][Next]_vars

(* The scheduler runs every thread that can run. It does not force a key   *)
(* press or a new connection.                                              *)
ThreadFairness ==
  /\ WF_vars(Serving /\ Accept)
  /\ WF_vars(Running /\ CleanUp)
  /\ \A w \in Workers :
       WF_vars(Serving /\ TakeQuit(w)) /\ WF_vars(Serving /\ Handle(w))

(* The port is first-in first-out, so no OVERLAPPED with a packet in it is *)
(* passed over for ever. The kernel completes sends and reports a          *)
(* connection that is gone. Nothing obliges the far end to send or leave.  *)
PortFairness ==
  /\ \A o \in Overlapped :
       SF_vars(Serving /\ \E w \in Workers, ok \in BOOLEAN : TakePacket(w, Done(o, ok)))
  /\ \A c \in Contexts :
       /\ WF_vars(Serving /\ OperationFails(RecvOp(c)))
       /\ WF_vars(Serving /\ (SendCompletes(c) \/ OperationFails(SendOp(c))))

ThreadSpec == Spec /\ ThreadFairness
FairSpec == ThreadSpec /\ PortFairness

-----------------------------------------------------------------------------
(* Properties.                                                             *)

(* Types; no thread runs before main makes it; and where the pointers of   *)
(* each thread are set: a worker's pClientContext lives exactly within one *)
(* iteration of its loop and its pointer to the buddy within one Send, and *)
(* a connection is being set up exactly within one AcceptConnection.       *)
TypeOK ==
  /\ main \in MainStates /\ shutdown \in BOOLEAN
  /\ apc \in AcceptStates
  /\ IF apc \in {"off", "wait", "done"} THEN aconn = None ELSE aconn \in Connections
  /\ ahold \subseteq Contexts
  /\ wpc \in [Workers -> WorkerStates]
  /\ wpkt \in [Workers -> Packets \cup {None}]
  /\ wctx \in [Workers -> Contexts \cup {None}]
  /\ wfwd \in [Workers -> Contexts \cup {None}]
  /\ \A w \in Workers :
       /\ IF wpc[w] \in Handling THEN wctx[w] \in Contexts ELSE wctx[w] = None
       /\ wfwd[w] = IF wpc[w] \in Sending THEN Buddy(wctx[w]) ELSE None
       /\ IF wpc[w] = "deref" THEN wpkt[w] \in Packets ELSE wpkt[w] = None
  /\ list \subseteq Contexts
  /\ life \in [Contexts -> {"none", "live", "dead"}]
  /\ link \in [Contexts -> {"none", "strong", "weak"}]
  /\ sock \in [Contexts -> {"none", "open", "gone", "closed"}]
  /\ handle \in [Contexts -> Contexts]
  /\ pending \in [Overlapped -> Nat]
  /\ port \in [Packets -> Nat]
  /\ quits \in Nat
  /\ undef \in Undefined
  /\ crossed \subseteq Connections /\ mistyped \subseteq Connections
  /\ main = "start" => \A w \in Workers : wpc[w] = "off"
  /\ main \in {"start", "setup"} => apc = "off"

(* No live context is out of everybody's reach: following the owners of a  *)
(* live context leads to the list or to a thread. The strong/weak split of *)
(* the buddy pointers is what breaks the cycle of the pair.                *)
NoLeak ==
  \A c \in Contexts :
    LET held == Held(list, ahold, wctx, wfwd) IN
    life[c] = "live" => c \in held \/ (BuddyKeeps(c) /\ Buddy(c) \in held)

(* The inductive form of NoLeak, over the facts it rests on.               *)

(* Every shared_ptr points to a live context.                              *)
HeldAreLive == \A c \in Held(list, ahold, wctx, wfwd) : life[c] = "live"

(* The pair is linked strongly one way and weakly the other, and while its *)
(* local context lives the proxy context does.                             *)
LinkShape ==
  \A k \in Connections :
    /\ link[Proxy(k)] # "strong" /\ link[Local(k)] # "weak"
    /\ link[Local(k)] = "none" <=> link[Proxy(k)] = "none"
    /\ life[Local(k)] = "live" /\ link[Local(k)] = "strong" => life[Proxy(k)] = "live"

(* Contexts are made local first, and our socket is open only in a live one. *)
LifeShape ==
  /\ \A k \in Connections : life[Local(k)] = "none" => life[Proxy(k)] = "none"
  /\ \A c \in Contexts :
       /\ sock[c] \in {"open", "gone"} => life[c] = "live"
       /\ life[c] = "none" => link[c] = "none"

(* What the accept thread holds at each point, and that the pair it is     *)
(* setting up has no proxy context, then no link, yet.                     *)
AcceptHolds ==
  /\ apc \in {"off", "wait", "done"} => ahold = {}
  /\ apc = "connect" =>
       ahold = {Local(aconn)} /\ life[Proxy(aconn)] = "none"
  /\ apc = "associate" => link[Local(aconn)] = "none"
  /\ apc \in {"associate", "publish", "recvLocal", "recvProxy", "return"} =>
       ahold = {Local(aconn), Proxy(aconn)}
  /\ apc \in {"abort", "dropLocal"} =>
       Local(aconn) \in ahold /\ ahold \subseteq {Local(aconn), Proxy(aconn)}
  /\ apc = "dropProxy" => ahold \subseteq {Proxy(aconn)}

(* Operations and packets belong to contexts that were made, and a worker  *)
(* about to send has found a buddy once.                                   *)
IoOfMade ==
  /\ \A o \in Overlapped :
       (pending[o] > 0 \/ \E ok \in BOOLEAN : port[Done(o, ok)] > 0) =>
         life[o.ctx] # "none"
  /\ \A w \in Workers :
       /\ wpc[w] = "deref" => life[wpkt[w].op.ctx] # "none"
       /\ wpc[w] = "send" => link[wctx[w]] # "none"

(* The six facts together: whatever the completion keys yield, the         *)
(* shared_ptr graph of list, threads and buddy pointers stays sound.       *)
OwnershipInv ==
  HeldAreLive /\ LinkShape /\ LifeShape /\ AcceptHolds /\ IoOfMade /\ NoLeak

(* A worker forwarding from a client to its server never loses the server  *)
(* context between the check of m_pBuddy and its use. Only the other       *)
(* direction, where the pointer is weak, can.                              *)
NullBuddyOnlyFromProxy ==
  undef = "nullBuddy" =>
    \E w \in Workers : wpc[w] = "send" /\ wctx[w][2] = "proxy" /\ NoBuddy(wctx[w])

(* The error exit closes the accepted socket's handle and the destructor   *)
(* of its context closes the same value again. By then it may be another   *)
(* connection's: only a worker that took the failed receive of the aborted *)
(* connection can get there, since no list, accept thread or buddy keeps   *)
(* the context that long.                                                  *)
StaleHandleInWorkerOnly ==
  \A c \in Contexts :
    Misdirected(c) =>
      c \notin list \cup ahold /\ \E w \in Workers : c \in {wctx[w], wfwd[w]}

(* A worker that holds the receive of c: it took the packet and has        *)
(* neither posted the next one nor given up.                               *)
Receiving(w, c) ==
  \/ wpc[w] = "deref" /\ wpkt[w].op = RecvOp(c)
  \/ wpc[w] \in {"forward", "send", "fill", "sent", "recv"} /\ wctx[w] = c

(* Two kinds of mistake spoil a connection: a packet handled on another    *)
(* context, and a send taken for a receive.                                *)
Spoiled == crossed \cup mistyped

(* m_IoRecv, one OVERLAPPED and one buffer for each context, serves one    *)
(* receive at a time: it is with the kernel, in the port, or with exactly  *)
(* one worker -- as long as the connection is not spoiled. Nothing else    *)
(* brings a second receive.                                                *)
OneReceivePerContext ==
  \A c \in Contexts : c[1] \notin Spoiled =>
    /\ Outstanding(RecvOp(c)) <= 1
    /\ \A w \in Workers :
         Receiving(w, c) => /\ Outstanding(RecvOp(c)) = 0
                           /\ \A v \in Workers : Receiving(v, c) => v = w

(* The accept thread still has to post c's first receive or to remove c.   *)
AcceptOwes(c) ==
  /\ aconn = c[1]
  /\ \/ apc \in {"recvLocal", "abort", "dropLocal"}
     \/ c[2] = "proxy" /\ apc \in {"recvProxy", "dropProxy"}

(* Nothing listed is forgotten: a context in g_ClientContext has a receive *)
(* somewhere whose completion will bring a worker to it, or somebody is    *)
(* about to post one or to remove the context. A send taken for a receive  *)
(* does not change that, a packet handled on another context does.         *)
ListedHasReceive ==
  \A c \in list : c[1] \notin crossed =>
    \/ Outstanding(RecvOp(c)) > 0
    \/ AcceptOwes(c)
    \/ \E w \in Workers : Receiving(w, c) \/ (wpc[w] \in {"unsent", "remove"} /\ wctx[w] = c)

(* While main waits for the workers there is a null packet for every       *)
(* worker that still needs one.                                            *)
EnoughQuits ==
  main = "joinWorkers" => 
    quits >= Cardinality({w \in Workers : wpc[w] \notin {"off", "done"}})

(* CleanClientList and DeInitialize run alone: comment "Let Worker Threads *)
(* shutdown" in CleanUp. No thread that was made is left to touch the      *)
(* list, the critical sections or the port.                                *)
WorkersGoneBeforeCleanup ==
  main \in {"cleanList", "deinit"} =>
    apc \in {"done", "off"} /\ \A w \in Workers : wpc[w] \in {"done", "off"}

(* Nothing comes after DeInitialize, on the error exit of main either,     *)
(* where the workers have been started and nobody waits for them: no       *)
(* thread enters a critical section that was deleted.                      *)
DeInitializeIsLast == undef # "deletedLock"

(* CleanUp leaves no context and no open socket behind.                    *)
AllReleasedAtExit ==
  main \in {"deinit", "closing", "exited"} =>
    \A c \in Contexts : life[c] # "live" /\ sock[c] \in {"none", "closed"}

(* Once a key is hit, or setting up failed, the process ends.              *)
ShutdownCompletes ==
  (main \in {"joinAccept", "error"}) ~> (main = "exited" \/ undef # "none")

(* A context whose far end is gone leaves the list: its receive completes  *)
(* and a worker removes it.                                                *)
GoneIsDelisted ==
  \A c \in Contexts :
    (c \in list /\ sock[c] = "gone") ~> (c \notin list \/ undef # "none")

(* When both ends of a connection are gone both contexts are destroyed.    *)
ConnectionReclaimed ==
  \A k \in Connections :
    (sock[Local(k)] = "gone" /\ sock[Proxy(k)] = "gone")
      ~> (undef # "none" \/ (life[Local(k)] = "dead" /\ life[Proxy(k)] = "dead"))

(* A direction is what is read from one end of a connection and passed on  *)
(* to the other.                                                           *)

(* c's first receive is still to be posted.                                *)
BeforeFirstReceive(c) ==
  /\ aconn = c[1]
  /\ \/ apc \in {"connect", "associate", "publish", "recvLocal"}
     \/ apc = "recvProxy" /\ c[2] = "proxy"

(* A worker has a chunk read from c that is not with a send of the buddy.  *)
Carrying(w, c) ==
  \/ wpc[w] = "deref" /\ wpkt[w] = Done(RecvOp(c), TRUE)
  \/ wpc[w] \in {"forward", "send", "fill"} /\ wctx[w] = c

(* A worker has passed on the last chunk read from c.                      *)
Rearming(w, c) == wpc[w] \in {"sent", "recv"} /\ wctx[w] = c

HoldsChunk(c) ==
  port[Done(RecvOp(c), TRUE)] > 0 \/ \E w \in Workers : Carrying(w, c)

AwaitsChunk(c) ==
  pending[RecvOp(c)] > 0 \/ \E w \in Workers : Rearming(w, c)

NotStarted(c) == life[c] = "none" \/ BeforeFirstReceive(c)

Direction(c) ==
  IF HoldsChunk(c) THEN "holding"
  ELSE IF AwaitsChunk(c) THEN "reading"
  ELSE IF NotStarted(c) THEN "new"
  ELSE "ended"

Relay == INSTANCE ConnectionRelay WITH
  end <- life,
  direction <- [c \in Contexts |-> Direction(c)],
  sends <- [c \in Contexts |-> pending[SendOp(c)]],
  spoiled <- Spoiled

(* To the connections the pairs of contexts are those of ConnectionRelay:  *)
(* a chunk read from one end is passed on once, to the other end of the    *)
(* same connection, or is the last of its direction, and the server's end  *)
(* is not closed under the client's. A connection on which a worker took   *)
(* the wrong context or the wrong type of operation is promised the last   *)
(* of these only.                                                          *)
RefinesConnectionRelay == Relay!Spec

(* Claims of comments in the code that the code does not keep.             *)

(* SocketContext.cpp: "the completion will be called here". A destroyed    *)
(* context leaves no operation of its own behind, neither with the kernel  *)
(* nor in the port.                                                        *)
NoCompletionAfterDestructor ==
  \A c \in Contexts :
    life[c] = "dead" =>
      \A o \in {RecvOp(c), SendOp(c)} :
        pending[o] = 0 /\ \A ok \in BOOLEAN : port[Done(o, ok)] = 0

(* AssociateWithIOCP: "here we are only passing reference to our client    *)
(* context". A worker handles a packet on the context it belongs to.       *)
HandledOnOwnContext ==
  [][\A w \in Workers :
       wpc[w] = "deref" /\ wpc'[w] # "deref" => wctx'[w] = wpkt[w].op.ctx]_vars

(* SocketContext.h: "IO operation type: such as READ or WRITE". IoType is  *)
(* the type of the operation a packet is of: no send is taken for a        *)
(* receive.                                                                *)
SendsKeepTheirType == mistyped = {}
=============================================================================
