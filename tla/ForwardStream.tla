--------------------------- MODULE ForwardStream ---------------------------
(***************************************************************************)
(* One direction of one pair of contexts, with the bytes: the receive of   *)
(* the context the data come in on (m_IoRecv), the send of its buddy       *)
(* (m_IoSend), the workers between them, and the network at both ends.     *)
(* The other direction is the same over the other two buffers.             *)
(*                                                                         *)
(* A byte is a natural number, 0 the byte that ends a C string. A chunk    *)
(* [from, len] is what one receive brings: bytes from + 1 .. from + len of *)
(* Input. The code knows its len only.                                     *)
(*                                                                         *)
(* A definition whose comment begins "Fault:" is a wrong version of the    *)
(* definition after it and is used nowhere.                                *)
(***************************************************************************)
EXTENDS Naturals, Sequences, FiniteSets

CONSTANTS
  Input,          \* the bytes the source sends
  Workers,        \* the worker threads
  MAX_BUFFER_LEN,
  MaxChunk,       \* the most bytes one receive brings
  MaxSends,       \* bound: data arrives only while fewer sends are unfinished
  Keeps,          \* whether the stack keeps reading the buffer of an
                  \* unfinished send (TRUE) or has copied it (FALSE)
  Overlap,        \* whether data arrives while a kept send is unfinished
  None

ASSUME InputAssumption == Input \in Seq(Nat)
ASSUME WorkersAssumption == Workers # {}
ASSUME BufferAssumption ==
  MAX_BUFFER_LEN \in Nat \ {0} /\ MaxChunk \in 1 .. MAX_BUFFER_LEN
ASSUME StreamBounds == MaxSends \in Nat \ {0} /\ Keeps \subseteq BOOLEAN /\ Overlap \in BOOLEAN
ASSUME NoChunkAssumption == None \notin [from : Nat, len : Nat]

VARIABLES
  read,      \* how many bytes of Input receives have brought
  posted,    \* receives with the kernel
  port,      \* chunks whose packets are queued
  recvBuf,   \* m_IoRecv.buffer
  wpc,       \* where each worker is
  wchunk,    \* the chunk it handles
  sendBuf,   \* m_IoSend.buffer of the buddy
  kernel,    \* the sends not yet finished, oldest first
  delivered, \* the bytes the destination has received
  open,      \* FALSE once a worker has given the connection up
  undef      \* strcpy has run out of its buffers

recvVars == <<read, posted, recvBuf>>
sendVars == <<sendBuf, kernel>>
workerVars == <<wpc, wchunk>>
vars == <<recvVars, port, workerVars, sendVars, delivered, open, undef>>

Chunks == [from : 0 .. Len(Input), len : 1 .. MaxChunk]

Buffers == [1 .. MAX_BUFFER_LEN -> Nat]

(* ZeroMemory over an IO_OPERATION_DATA.                                   *)
Zeroed == [i \in 1 .. MAX_BUFFER_LEN |-> 0]

Init ==
  /\ read = 0 /\ posted = 1 /\ port = {} /\ recvBuf = Zeroed
  /\ wpc = [w \in Workers |-> "wait"] /\ wchunk = [w \in Workers |-> None]
  /\ sendBuf = Zeroed /\ kernel = <<>>
  /\ delivered = <<>> /\ open = TRUE /\ undef = FALSE

(* strcpy into a zeroed buffer: the bytes before the first zero, then      *)
(* zeros.                                                                  *)
Strcpy(src) ==
  [i \in 1 .. MAX_BUFFER_LEN |-> IF \A j \in 1 .. i : src[j] # 0 THEN src[i] ELSE 0]

(* strcpy finds no zero inside the source buffer.                          *)
Unterminated(src) == \A i \in 1 .. MAX_BUFFER_LEN : src[i] # 0

-----------------------------------------------------------------------------
(* The stack reads the send buffer no more.                                *)
Settled == \A i \in 1 .. Len(kernel) : ~kernel[i].keep

(* The receive completes with the next bytes of the source.                *)
DataArrives ==
  /\ posted > 0
  /\ Len(kernel) < MaxSends /\ (Overlap \/ Settled)
  /\ \E n \in 1 .. MaxChunk :
       /\ read + n <= Len(Input)
       /\ read' = read + n
       /\ port' = port \cup {[from |-> read, len |-> n]}
       /\ recvBuf' = [i \in 1 .. MAX_BUFFER_LEN |-> IF i <= n THEN Input[read + i] ELSE recvBuf[i]]
  /\ posted' = posted - 1
  /\ UNCHANGED <<workerVars, sendVars, delivered, open, undef>>

(* Fault: the next receive is posted before the data are forwarded.        *)
TakePacketRearms(w) ==
  /\ wpc[w] = "wait"
  /\ \E p \in port :
       /\ port' = port \ {p}
       /\ wchunk' = [wchunk EXCEPT ![w] = p]
  /\ wpc' = [wpc EXCEPT ![w] = "send"]
  /\ posted' = posted + 1 /\ recvBuf' = Zeroed
  /\ UNCHANGED <<read, sendVars, delivered, open, undef>>

(* A worker dequeues the packet of a receive.                              *)
TakePacket(w) ==
  /\ wpc[w] = "wait"
  /\ \E p \in port :
       /\ port' = port \ {p}
       /\ wchunk' = [wchunk EXCEPT ![w] = p]
  /\ wpc' = [wpc EXCEPT ![w] = "send"]
  /\ UNCHANGED <<recvVars, sendVars, delivered, open, undef>>

(* Fault: the chunk of the iteration outlives it.                          *)
WaitsKeeping(w) ==
  /\ wpc' = [wpc EXCEPT ![w] = "wait"]
  /\ UNCHANGED wchunk

(* The worker is done with the packet and waits for another.               *)
Waits(w) ==
  /\ wpc' = [wpc EXCEPT ![w] = "wait"]
  /\ wchunk' = [wchunk EXCEPT ![w] = None]

(* Forward finds no buddy: the context is given up.                        *)
ForwardFails(w) ==
  /\ wpc[w] = "send"
  /\ open' = FALSE
  /\ Waits(w)
  /\ UNCHANGED <<recvVars, port, sendVars, delivered, undef>>

(* Send copies the receive buffer to the send buffer, whether or not the   *)
(* send before has finished, and hands it to WSASend, which may refuse it. *)
Send(w) ==
  /\ wpc[w] = "send"
  /\ ~Unterminated(recvBuf)
  /\ sendBuf' = Strcpy(recvBuf)
  /\ \/ /\ \E keep \in Keeps :
             kernel' = Append(kernel, [chunk |-> wchunk[w], keep |-> keep, copy |-> sendBuf'])
          /\ wpc' = [wpc EXCEPT ![w] = "recv"]
          /\ UNCHANGED <<wchunk, open>>
     \/ open' = FALSE /\ Waits(w) /\ UNCHANGED kernel
  /\ UNCHANGED <<recvVars, port, delivered, undef>>

SendOverruns(w) ==
  /\ wpc[w] = "send"
  /\ Unterminated(recvBuf)
  /\ undef' = TRUE
  /\ UNCHANGED <<recvVars, port, workerVars, sendVars, delivered, open>>

(* Fault: after a chunk of one byte no receive is posted again.            *)
RecvSkips(w) ==
  /\ wpc[w] = "recv"
  /\ recvBuf' = Zeroed
  /\ \/ posted' = (IF wchunk[w].len = 1 THEN posted ELSE posted + 1) /\ UNCHANGED open
     \/ UNCHANGED posted /\ open' = FALSE
  /\ Waits(w)
  /\ UNCHANGED <<read, port, sendVars, delivered, undef>>

(* Recv clears the receive buffer and posts it again, or fails.            *)
Recv(w) ==
  /\ wpc[w] = "recv"
  /\ recvBuf' = Zeroed
  /\ \/ posted' = posted + 1 /\ UNCHANGED open
     \/ UNCHANGED posted /\ open' = FALSE
  /\ Waits(w)
  /\ UNCHANGED <<read, port, sendVars, delivered, undef>>

(* The stack transmits the oldest send, from its copy or, if it keeps the  *)
(* caller's buffer, from what that holds now.                              *)
Transmit ==
  /\ kernel # <<>>
  /\ LET send == Head(kernel)
         bytes == IF send.keep THEN sendBuf ELSE send.copy
     IN  delivered' = delivered \o SubSeq(bytes, 1, send.chunk.len)
  /\ kernel' = Tail(kernel)
  /\ UNCHANGED <<recvVars, port, workerVars, sendBuf, open, undef>>

Handle(w) == ForwardFails(w) \/ Send(w) \/ SendOverruns(w) \/ Recv(w)

(* All is sent, the connection is given up, or nothing is defined.         *)
Stopped ==
  /\ undef \/ ~open \/ Len(delivered) = Len(Input)
  /\ UNCHANGED vars

Next ==
  \/ ~undef /\ DataArrives
  \/ ~undef /\ Transmit
  \/ \E w \in Workers : ~undef /\ (TakePacket(w) \/ Handle(w))
  \/ Stopped

Spec == Init /\ [][Next]_vars

(* Threads run, the source sends what it has, the stack transmits.         *)
Fairness ==
  /\ WF_vars(~undef /\ DataArrives)
  /\ WF_vars(~undef /\ Transmit)
  /\ WF_vars(~undef /\ \E w \in Workers : TakePacket(w))
  /\ \A w \in Workers : WF_vars(~undef /\ Handle(w))

FairSpec == Spec /\ Fairness

-----------------------------------------------------------------------------
(* Properties.                                                             *)

(* Types. A worker has a chunk in hand exactly while it handles one.       *)
TypeOK ==
  /\ read \in 0 .. Len(Input) /\ posted \in Nat
  /\ port \subseteq Chunks
  /\ recvBuf \in Buffers /\ sendBuf \in Buffers
  /\ wpc \in [Workers -> {"wait", "send", "recv"}]
  /\ wchunk \in [Workers -> Chunks \cup {None}]
  /\ \A w \in Workers : wpc[w] = "wait" <=> wchunk[w] = None
  /\ kernel \in Seq([chunk : Chunks, keep : BOOLEAN, copy : Buffers])
  /\ delivered \in Seq(Nat)
  /\ open \in BOOLEAN /\ undef \in BOOLEAN

(* SocketContext.cpp: "Forward data from recv buffer of client socket to   *)
(* send buffer of fwd socket and send it to destination". What has reached *)
(* the destination is what the source sent, so far.                        *)
DeliveredAsSent == delivered = SubSeq(Input, 1, Len(delivered))

(* The inductive form of DeliveredAsSent: every byte read is, in order,    *)
(* delivered, with the stack, or in the hands of one worker or packet.     *)

(* One thing at a time has the receive buffer: the kernel, the packet of   *)
(* its completion, or a worker.                                            *)
OneTurn ==
  /\ posted <= 1
  /\ posted = 1 => port = {}
  /\ \A p, q \in port : p = q
  /\ \A w \in Workers :
       wpc[w] # "wait" =>
         posted = 0 /\ port = {} /\ \A v \in Workers : wpc[v] # "wait" => v = w

(* How many bytes have been handed to the stack.                           *)
Handed ==
  IF kernel = <<>> THEN Len(delivered)
  ELSE LET last == kernel[Len(kernel)].chunk IN last.from + last.len

(* p is the last chunk read, the next to hand over, alone in recvBuf.      *)
Received(p) ==
  /\ p.from = Handed /\ p.from + p.len = read
  /\ \A i \in 1 .. MAX_BUFFER_LEN :
       recvBuf[i] = IF i <= p.len THEN Input[p.from + i] ELSE 0

(* The receive buffer holds the chunk in hand and nothing else.            *)
InHand ==
  /\ posted = 1 => Handed = read /\ recvBuf = Zeroed
  /\ \A p \in port : Received(p)
  /\ \A w \in Workers :
       /\ wpc[w] = "send" => Received(wchunk[w])
       /\ wpc[w] = "recv" => Handed = read

(* The sends of the stack follow each other without gap or overlap, each   *)
(* with the bytes of its chunk.                                            *)
SendsInOrder ==
  /\ Len(delivered) <= Len(Input)
  /\ \A i \in 1 .. Len(kernel) :
       LET chunk == kernel[i].chunk IN
       /\ chunk.from = IF i = 1 THEN Len(delivered)
                       ELSE kernel[i - 1].chunk.from + kernel[i - 1].chunk.len
       /\ chunk.from + chunk.len <= Len(Input)
       /\ \A j \in 1 .. chunk.len : kernel[i].copy[j] = Input[chunk.from + j]

(* A send that still reads the send buffer finds its own bytes there.      *)
SendBufferKept ==
  /\ \A i \in 1 .. Len(kernel) :
       kernel[i].keep => TRUE \in Keeps /\ kernel[i].copy = sendBuf
  /\ ~Overlap => /\ port # {} => Settled
                 /\ \A w \in Workers : wpc[w] = "send" => Settled

(* The five facts together.                                                *)
StreamInv == OneTurn /\ InHand /\ SendsInOrder /\ SendBufferKept /\ DeliveredAsSent

(* The channel breaks where a worker gives up, or strcpy runs wild.        *)
Channel == INSTANCE ByteChannel WITH out <- delivered, open <- open /\ ~undef

(* Forwarding implements the byte channel: the destination receives the    *)
(* bytes of the source unchanged and in order.                             *)
RefinesByteChannel == Channel!Safe

(* ... and all of them, unless the connection breaks.                      *)
ForwardsEverything == Channel!Spec

(* strcpy runs out of its buffers only where a worker is about to send a   *)
(* chunk that filled the whole receive buffer without a zero: what an      *)
(* earlier or a later receive left there is not what makes it run on. The  *)
(* channel is broken from then on, so its refinement does not see this.    *)
OverrunsOnFullChunk ==
  undef =>
    \E w \in Workers :
      /\ wpc[w] = "send" /\ wchunk[w].len = MAX_BUFFER_LEN
      /\ \A i \in 1 .. MAX_BUFFER_LEN : Input[wchunk[w].from + i] # 0
=============================================================================
