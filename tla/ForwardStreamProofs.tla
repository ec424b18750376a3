------------------------ MODULE ForwardStreamProofs ------------------------
(***************************************************************************)
(* Types of ForwardStream, when its strcpy may run out of its buffers, and *)
(* that it implements the safety part of ByteChannel while the bytes       *)
(* contain no zero and either the stack copies what it is given or the     *)
(* source waits for each send to finish.                                   *)
(***************************************************************************)
EXTENDS ForwardStream, SequenceTheorems, TLAPS

Sends == [chunk : Chunks, keep : BOOLEAN, copy : Buffers]

(* What the chunks, the buffers and the lengths are made of.               *)
LEMMA Data ==
  /\ Len(Input) \in Nat /\ \A i \in 1 .. Len(Input) : Input[i] \in Nat
  /\ MAX_BUFFER_LEN \in Nat \ {0} /\ MaxChunk \in Nat /\ MaxChunk <= MAX_BUFFER_LEN
  /\ \A p \in Chunks : /\ p.from \in Nat /\ p.len \in Nat \ {0}
                       /\ p.len <= MaxChunk /\ p # None
  /\ Zeroed \in Buffers
  /\ \A b \in Buffers : Strcpy(b) \in Buffers
<1>1. Len(Input) \in Nat /\ \A i \in 1 .. Len(Input) : Input[i] \in Nat
  BY InputAssumption, LenProperties
<1>2. \A p \in Chunks : p # None
  BY <1>1, NoChunkAssumption, BufferAssumption DEF Chunks
<1>3. \A b \in Buffers : Strcpy(b) \in Buffers
  BY DEF Strcpy, Buffers
<1> QED
  BY <1>1, <1>2, <1>3, BufferAssumption DEF Chunks, Zeroed, Buffers

(* What a transmitted send delivers are its bytes.                         *)
LEMMA Transmitted ==
  ASSUME TypeOK, Transmit
  PROVE  LET send == kernel[1]
             bytes == IF send.keep THEN sendBuf ELSE send.copy
         IN  /\ send \in Sends
             /\ kernel' \in Seq(Sends) /\ Len(kernel') = Len(kernel) - 1
             /\ \A i \in 1 .. Len(kernel) - 1 : kernel'[i] = kernel[i + 1]
             /\ delivered' = delivered \o SubSeq(bytes, 1, send.chunk.len)
             /\ SubSeq(bytes, 1, send.chunk.len) \in Seq(Nat)
             /\ Len(SubSeq(bytes, 1, send.chunk.len)) = send.chunk.len
             /\ \A i \in 1 .. send.chunk.len : SubSeq(bytes, 1, send.chunk.len)[i] = bytes[i]
             /\ bytes \in Buffers /\ send.chunk \in Chunks
<1> DEFINE send == kernel[1]
           bytes == IF send.keep THEN sendBuf ELSE send.copy
<1>1. kernel \in Seq(Sends) /\ kernel # <<>> /\ kernel' = Tail(kernel) /\ Head(kernel) = send
  BY DEF TypeOK, Transmit, Sends
<1>2. send \in Sends /\ Len(kernel) \in Nat \ {0}
  BY <1>1, ElementOfSeq, EmptySeq
<1>3. send.chunk \in Chunks /\ bytes \in Buffers
  BY <1>2 DEF Sends, TypeOK
<1>4. \A i \in 1 .. send.chunk.len : bytes[i] \in Nat
  BY <1>3, Data DEF Buffers
<1>5. send.chunk.len \in Nat \ {0}
  BY <1>3, Data
<1>6. /\ SubSeq(bytes, 1, send.chunk.len) \in Seq(Nat)
      /\ Len(SubSeq(bytes, 1, send.chunk.len)) = send.chunk.len
      /\ \A i \in 1 .. send.chunk.len : SubSeq(bytes, 1, send.chunk.len)[i] = bytes[i]
  <2> HIDE DEF send, bytes
  <2> QED
    BY <1>4, <1>5, SubSeqProperties
<1>7. Tail(kernel) \in Seq(Sends) /\ Len(Tail(kernel)) = Len(kernel) - 1
      /\ \A i \in 1 .. Len(kernel) - 1 : Tail(kernel)[i] = kernel[i + 1]
  BY <1>1, HeadTailProperties
<1>8. delivered' = delivered \o SubSeq(bytes, 1, send.chunk.len)
  BY <1>1 DEF Transmit
<1> QED
  BY <1>1, <1>2, <1>3, <1>6, <1>7, <1>8

(* The send handed over by a worker comes last.                            *)
LEMMA Appended ==
  ASSUME TypeOK, NEW s \in Sends, kernel' = Append(kernel, s)
  PROVE  /\ kernel' \in Seq(Sends) /\ kernel' # <<>>
         /\ Len(kernel) \in Nat /\ Len(kernel') = Len(kernel) + 1
         /\ \A i \in 1 .. Len(kernel) : kernel'[i] = kernel[i]
         /\ kernel'[Len(kernel) + 1] = s
<1>1. kernel \in Seq(Sends)
  BY DEF TypeOK, Sends
<1> QED
  BY <1>1, AppendProperties, LenProperties

(* Every step of a worker keeps the types.                                 *)
LEMMA WorkerTypes ==
  ASSUME TypeOK, NEW w \in Workers, TakePacket(w) \/ Handle(w)
  PROVE  TypeOK'
<1> USE DEF recvVars, sendVars, workerVars
<1>1. CASE TakePacket(w)
  BY <1>1, Data DEF TakePacket, TypeOK
<1>2. CASE ForwardFails(w)
  BY <1>2 DEF ForwardFails, Waits, TypeOK
<1>3. CASE Send(w)
  <2>1. sendBuf' \in Buffers
    BY <1>3, Data DEF Send, TypeOK
  <2>2. kernel' \in Seq(Sends)
    <3>1. ASSUME NEW keep \in Keeps,
                 kernel' = Append(kernel, [chunk |-> wchunk[w], keep |-> keep, copy |-> sendBuf'])
          PROVE  kernel' \in Seq(Sends)
      <4>1. wchunk[w] \in Chunks
        BY <1>3 DEF Send, TypeOK
      <4>2. [chunk |-> wchunk[w], keep |-> keep, copy |-> sendBuf'] \in Sends
        BY <2>1, <4>1, StreamBounds DEF Sends
      <4> QED
        BY <3>1, <4>2, Appended
    <3> QED
      BY <1>3, <3>1 DEF Send, TypeOK, Sends
  <2>3. wpc' \in [Workers -> {"wait", "send", "recv"}]
        /\ wchunk' \in [Workers -> Chunks \cup {None}]
        /\ \A v \in Workers : wpc'[v] = "wait" <=> wchunk'[v] = None
    BY <1>3 DEF Send, Waits, TypeOK
  <2> QED
    BY <1>3, <2>1, <2>2, <2>3 DEF Send, TypeOK, Sends
<1>4. CASE SendOverruns(w)
  BY <1>4 DEF SendOverruns, TypeOK
<1>5. CASE Recv(w)
  <2>1. recvBuf' \in Buffers
    BY <1>5, Data DEF Recv
  <2>3. posted' \in Nat
    BY <1>5 DEF Recv, TypeOK
  <2>4. open' \in BOOLEAN
    BY <1>5 DEF Recv, TypeOK
  <2>2. wpc' \in [Workers -> {"wait", "send", "recv"}]
        /\ wchunk' \in [Workers -> Chunks \cup {None}]
        /\ \A v \in Workers : wpc'[v] = "wait" <=> wchunk'[v] = None
    BY <1>5 DEF Recv, Waits, TypeOK
  <2> QED
    BY <1>5, <2>1, <2>2, <2>3, <2>4 DEF Recv, TypeOK
<1> QED
  BY <1>1, <1>2, <1>3, <1>4, <1>5 DEF Handle

(* The type invariant.                                                     *)
THEOREM StreamTypes == Spec => []TypeOK
<1> USE DEF recvVars, sendVars, workerVars
<1>1. Init => TypeOK
  <2>1. <<>> \in Seq(Sends) /\ <<>> \in Seq(Nat)
    BY EmptySeq
  <2> QED
    <3> SUFFICES ASSUME Init PROVE TypeOK
      OBVIOUS
    <3>1. recvBuf \in Buffers /\ sendBuf \in Buffers
      BY Data DEF Init
    <3>2. read \in 0 .. Len(Input) /\ posted \in Nat
      BY Data DEF Init
    <3> QED
      BY <2>1, <3>1, <3>2 DEF Init, TypeOK, Sends
<1>2. TypeOK /\ [Next]_vars => TypeOK'
  <2> SUFFICES ASSUME TypeOK, [Next]_vars PROVE TypeOK'
    OBVIOUS
  <2>1. CASE DataArrives
    <3>1. PICK n \in 1 .. MaxChunk :
            /\ read + n <= Len(Input)
            /\ read' = read + n
            /\ port' = port \cup {[from |-> read, len |-> n]}
            /\ recvBuf' = [i \in 1 .. MAX_BUFFER_LEN |->
                             IF i <= n THEN Input[read + i] ELSE recvBuf[i]]
      BY <2>1 DEF DataArrives
    <3>2. [from |-> read, len |-> n] \in Chunks
      BY DEF TypeOK, Chunks
    <3>3. recvBuf' \in Buffers
      BY <3>1, Data DEF TypeOK, Buffers
    <3> QED
      BY <2>1, <3>1, <3>2, <3>3, Data DEF DataArrives, TypeOK
  <2>2. CASE Transmit
    <3>1. delivered' \in Seq(Nat) /\ kernel' \in Seq(Sends)
      <4>1. PICK t \in Seq(Nat) : delivered' = delivered \o t
        BY <2>2, Transmitted
      <4> QED
        BY <2>2, <4>1, Transmitted, ConcatProperties DEF TypeOK
    <3> QED
      BY <2>2, <3>1 DEF Transmit, TypeOK, Sends
  <2>3. ASSUME NEW w \in Workers, TakePacket(w) \/ Handle(w)
        PROVE  TypeOK'
    BY <2>3, WorkerTypes
  <2>4. CASE UNCHANGED vars
    BY <2>4 DEF vars, TypeOK
  <2> QED
    BY <2>1, <2>2, <2>3, <2>4 DEF Next, Stopped
<1> QED
  BY <1>1, <1>2, PTL DEF Spec

-----------------------------------------------------------------------------
(* The stream.                                                             *)

NoZeros == \A i \in 1 .. Len(Input) : Input[i] # 0

(* No send is kept while the buffer it reads is filled again.              *)
NoOverlap == Keeps \subseteq {FALSE} \/ ~Overlap

(* The sends of the stack, element by element.                             *)
LEMMA Stack ==
  ASSUME TypeOK
  PROVE  /\ kernel \in Seq(Sends) /\ Len(kernel) \in Nat
         /\ kernel = <<>> <=> Len(kernel) = 0
         /\ \A i \in 1 .. Len(kernel) :
              /\ kernel[i] \in Sends /\ kernel[i].chunk \in Chunks
              /\ kernel[i].copy \in Buffers /\ kernel[i].keep \in BOOLEAN
         /\ delivered \in Seq(Nat) /\ Len(delivered) \in Nat /\ Handed \in Int
<1>1. kernel \in Seq(Sends) /\ delivered \in Seq(Nat)
  BY DEF TypeOK, Sends
<1>2. Len(kernel) \in Nat /\ Len(delivered) \in Nat /\ (kernel = <<>> <=> Len(kernel) = 0)
  BY <1>1, LenProperties, EmptySeq
<1>3. \A i \in 1 .. Len(kernel) : kernel[i] \in Sends
  BY <1>1, ElementOfSeq
<1>4. Handed \in Int
  <2>1. CASE kernel = <<>>
    BY <1>2, <2>1 DEF Handed
  <2>2. CASE kernel # <<>>
    <3>1. kernel[Len(kernel)].chunk \in Chunks
      BY <1>2, <1>3, <2>2 DEF Sends
    <3> QED
      BY <2>2, <3>1, Data DEF Handed
  <2> QED
    BY <2>1, <2>2
<1> QED
  BY <1>1, <1>2, <1>3, <1>4 DEF Sends

(* strcpy copies a chunk without zeros whole.                              *)
LEMMA StrcpyCopies ==
  ASSUME NoZeros, TypeOK, NEW p \in Chunks, Received(p)
  PROVE  \A j \in 1 .. p.len : Strcpy(recvBuf)[j] = Input[p.from + j]
<1> SUFFICES ASSUME NEW j \in 1 .. p.len
             PROVE  Strcpy(recvBuf)[j] = Input[p.from + j]
  OBVIOUS
<1>1. p.from \in Nat /\ p.len \in Nat /\ p.len <= MAX_BUFFER_LEN /\ MAX_BUFFER_LEN \in Nat
  BY Data
<1>2. p.from + p.len <= Len(Input)
  BY DEF Received, TypeOK
<1>3. \A i \in 1 .. j : recvBuf[i] = Input[p.from + i] /\ recvBuf[i] # 0
  <2> SUFFICES ASSUME NEW i \in 1 .. j
               PROVE  recvBuf[i] = Input[p.from + i] /\ recvBuf[i] # 0
    OBVIOUS
  <2>1. i \in 1 .. MAX_BUFFER_LEN /\ i <= p.len /\ p.from + i \in 1 .. Len(Input)
    BY <1>1, <1>2, Data
  <2> QED
    BY <2>1 DEF Received, NoZeros
<1>4. j \in 1 .. MAX_BUFFER_LEN /\ j \in 1 .. j
  BY <1>1
<1> QED
  BY <1>3, <1>4 DEF Strcpy

(* A step that leaves the sends alone keeps what is said of them.          *)
LEMMA SendsStay ==
  ASSUME StreamInv, UNCHANGED <<sendVars, delivered>>
  PROVE  /\ Handed' = Handed /\ SendsInOrder' /\ DeliveredAsSent'
         /\ \A i \in 1 .. Len(kernel)' :
              kernel'[i].keep => TRUE \in Keeps /\ kernel'[i].copy = sendBuf'
BY DEF StreamInv, sendVars, Handed, SendsInOrder, DeliveredAsSent, SendBufferKept

(* The network fills the receive buffer.                                   *)
LEMMA ArrivesStream ==
  ASSUME TypeOK, StreamInv, DataArrives
  PROVE  StreamInv'
<1> USE DEF recvVars, workerVars
<1>1. posted = 1 /\ posted' = 0 /\ port = {} /\ (\A w \in Workers : wpc[w] = "wait")
  BY DEF DataArrives, StreamInv, OneTurn, TypeOK
<1>2. PICK n \in 1 .. MaxChunk :
        /\ read + n <= Len(Input) /\ read' = read + n
        /\ port' = port \cup {[from |-> read, len |-> n]}
        /\ recvBuf' = [i \in 1 .. MAX_BUFFER_LEN |->
                         IF i <= n THEN Input[read + i] ELSE recvBuf[i]]
  BY DEF DataArrives
<1>3. Handed = read /\ recvBuf = Zeroed
  BY <1>1 DEF StreamInv, InHand
<1>4. /\ Handed' = Handed /\ SendsInOrder' /\ DeliveredAsSent'
      /\ \A i \in 1 .. Len(kernel)' :
           kernel'[i].keep => TRUE \in Keeps /\ kernel'[i].copy = sendBuf'
  BY SendsStay DEF DataArrives
<1>5. PICK p : p = [from |-> read, len |-> n]
  OBVIOUS
<1>6. Received(p)'
  BY <1>2, <1>3, <1>4, <1>5 DEF Received, Zeroed
<1>7. ~Overlap => Settled'
  BY DEF DataArrives, sendVars, Settled
<1>8. OneTurn'
  BY <1>1, <1>2 DEF OneTurn, DataArrives
<1>9. InHand'
  BY <1>1, <1>2, <1>6, <1>5 DEF InHand, DataArrives
<1>10. SendBufferKept'
  BY <1>4, <1>7 DEF SendBufferKept
<1> QED
  BY <1>4, <1>8, <1>9, <1>10 DEF StreamInv

(* The stack transmits a send.                                             *)
LEMMA TransmitStream ==
  ASSUME NoOverlap, TypeOK, StreamInv, Transmit
  PROVE  StreamInv'
<1> DEFINE send == kernel[1]
           bytes == IF send.keep THEN sendBuf ELSE send.copy
           len == send.chunk.len
           sent == SubSeq(bytes, 1, len)
<1> USE DEF recvVars, workerVars
<1>1. /\ kernel' \in Seq(Sends) /\ Len(kernel') = Len(kernel) - 1
      /\ \A i \in 1 .. Len(kernel) - 1 : kernel'[i] = kernel[i + 1]
      /\ delivered' = delivered \o sent
      /\ sent \in Seq(Nat) /\ Len(sent) = len
      /\ \A i \in 1 .. len : sent[i] = bytes[i]
  BY Transmitted
<1>2. /\ Len(kernel) \in Nat \ {0} /\ kernel # <<>>
      /\ \A i \in 1 .. Len(kernel) : kernel[i].chunk.from \in Nat /\ kernel[i].chunk.len \in Nat \ {0}
      /\ delivered \in Seq(Nat) /\ Len(delivered) \in Nat
  BY Stack, Data DEF Transmit
<1>3. /\ send.chunk.from = Len(delivered) /\ Len(delivered) + len <= Len(Input)
      /\ \A j \in 1 .. len : send.copy[j] = Input[Len(delivered) + j]
      /\ send.keep => send.copy = sendBuf
  <2>1. 1 \in 1 .. Len(kernel)
    BY <1>2
  <2>2. /\ send.chunk.from = Len(delivered) /\ send.chunk.from + len <= Len(Input)
        /\ \A j \in 1 .. len : send.copy[j] = Input[send.chunk.from + j]
    BY <2>1 DEF StreamInv, SendsInOrder
  <2>3. send.keep => send.copy = sendBuf
    BY <2>1 DEF StreamInv, SendBufferKept
  <2> QED
    BY <2>2, <2>3
<1>4. len \in Nat \ {0} /\ Len(delivered') = Len(delivered) + len
  BY <1>1, <1>2, ConcatProperties
<1>5. sent = SubSeq(Input, Len(delivered) + 1, Len(delivered) + len)
  <2> DEFINE next == SubSeq(Input, Len(delivered) + 1, Len(delivered) + len)
  <2>1. /\ next \in Seq(Nat) /\ Len(next) = len
        /\ \A i \in 1 .. len : next[i] = Input[Len(delivered) + i]
    <3> HIDE DEF len
    <3>1. \A i \in Len(delivered) + 1 .. Len(delivered) + len : Input[i] \in Nat
      BY <1>2, <1>3, <1>4, Data
    <3> QED
      BY <1>2, <1>4, <3>1, SubSeqProperties
  <2>2. \A i \in 1 .. len : sent[i] = next[i]
    <3> SUFFICES ASSUME NEW i \in 1 .. len PROVE sent[i] = next[i]
      OBVIOUS
    <3>1. bytes[i] = send.copy[i]
      BY <1>3
    <3>2. send.copy[i] = Input[Len(delivered) + i]
      BY <1>3
    <3> HIDE DEF bytes, next, sent, len
    <3> QED
      BY <1>1, <2>1, <3>1, <3>2
  <2> HIDE DEF next, sent
  <2>3. sent = next
    BY <1>1, <2>1, <2>2, SeqEqual
  <2> QED
    BY <2>3 DEF next
<1>6. DeliveredAsSent'
  <2> HIDE DEF len, sent
  <2>1. SubSeq(Input, 1, Len(delivered)) \o SubSeq(Input, Len(delivered) + 1, Len(delivered) + len)
          = SubSeq(Input, 1, Len(delivered) + len)
    <3>1. /\ 1 \in 1 .. Len(Input) + 1 /\ Len(delivered) \in 1 - 1 .. Len(Input)
          /\ Len(delivered) + len \in Len(delivered) .. Len(Input)
      BY <1>2, <1>3, <1>4, Data
    <3> QED
      BY <3>1, InputAssumption, ConcatAdjacentSubSeq
  <2> QED
    BY <1>1, <1>4, <1>5, <2>1 DEF StreamInv, DeliveredAsSent
<1>7. Handed' = Handed
  <2>1. CASE Len(kernel) = 1
    <3>1. kernel' = <<>>
      BY <1>1, <2>1, EmptySeq
    <3> QED
      BY <1>2, <1>3, <1>4, <2>1, <3>1 DEF Handed
  <2>2. CASE Len(kernel) # 1
    <3>1. kernel'[Len(kernel')] = kernel[Len(kernel)] /\ kernel' # <<>>
      BY <1>1, <1>2, <2>2, EmptySeq
    <3> QED
      BY <1>2, <3>1 DEF Handed
  <2> QED
    BY <2>1, <2>2
<1>8. SendsInOrder'
  <2>1. Len(delivered') <= Len(Input)
    BY <1>3, <1>4
  <2>2. ASSUME NEW i \in 1 .. Len(kernel')
        PROVE  LET chunk == kernel'[i].chunk IN
               /\ chunk.from = IF i = 1 THEN Len(delivered')
                               ELSE kernel'[i - 1].chunk.from + kernel'[i - 1].chunk.len
               /\ chunk.from + chunk.len <= Len(Input)
               /\ \A j \in 1 .. chunk.len : kernel'[i].copy[j] = Input[chunk.from + j]
    <3>1. /\ i + 1 \in 1 .. Len(kernel) /\ i + 1 # 1 /\ (i + 1) - 1 = i
          /\ kernel'[i] = kernel[i + 1]
          /\ i # 1 => kernel'[i - 1] = kernel[i]
      <4>1. i \in 1 .. Len(kernel) - 1
        BY <1>1
      <4>2. i # 1 => i - 1 \in 1 .. Len(kernel) - 1 /\ (i - 1) + 1 = i
        BY <1>2, <4>1
      <4>3. i + 1 \in 1 .. Len(kernel) /\ i + 1 # 1 /\ (i + 1) - 1 = i
        BY <1>2, <4>1
      <4> HIDE DEF send, sent, len, bytes
      <4> QED
        BY <1>1, <4>1, <4>2, <4>3
    <3>2. kernel[i + 1].chunk.from = kernel[i].chunk.from + kernel[i].chunk.len
      BY <3>1 DEF StreamInv, SendsInOrder
    <3>3. /\ kernel[i + 1].chunk.from + kernel[i + 1].chunk.len <= Len(Input)
          /\ \A j \in 1 .. kernel[i + 1].chunk.len :
               kernel[i + 1].copy[j] = Input[kernel[i + 1].chunk.from + j]
      BY <3>1 DEF StreamInv, SendsInOrder
    <3>4. i = 1 => kernel[i + 1].chunk.from = Len(delivered')
      BY <1>3, <1>4, <3>2
    <3> QED
      BY <3>1, <3>2, <3>3, <3>4
  <2> QED
    BY <2>1, <2>2 DEF SendsInOrder
<1>9. SendBufferKept'
  <2>1. \A i \in 1 .. Len(kernel') : kernel'[i].keep => TRUE \in Keeps /\ kernel'[i].copy = sendBuf'
    <3> SUFFICES ASSUME NEW i \in 1 .. Len(kernel')
                 PROVE  kernel'[i].keep => TRUE \in Keeps /\ kernel'[i].copy = sendBuf'
      OBVIOUS
    <3>1. kernel'[i] = kernel[i + 1] /\ i + 1 \in 1 .. Len(kernel)
      BY <1>1, <1>2
    <3> QED
      BY <3>1 DEF StreamInv, SendBufferKept, Transmit
  <2>2. Settled => Settled'
    <3> SUFFICES ASSUME Settled, NEW i \in 1 .. Len(kernel') PROVE ~kernel'[i].keep
      BY DEF Settled
    <3>1. kernel'[i] = kernel[i + 1] /\ i + 1 \in 1 .. Len(kernel)
      BY <1>1, <1>2
    <3> QED
      BY <3>1 DEF Settled
  <2>3. UNCHANGED <<port, wpc>>
    BY DEF Transmit
  <2> QED
    BY <2>1, <2>2, <2>3 DEF StreamInv, SendBufferKept
<1>10. OneTurn' /\ InHand'
  BY <1>7 DEF StreamInv, OneTurn, InHand, Received, Transmit
<1> QED
  BY <1>6, <1>8, <1>9, <1>10 DEF StreamInv

(* A worker dequeues, forwards, and receives again.                        *)
LEMMA WorkerStream ==
  ASSUME NoZeros, NoOverlap, TypeOK, StreamInv, NEW w \in Workers, TakePacket(w) \/ Handle(w)
  PROVE  StreamInv'
<1> USE DEF recvVars
<1>1. CASE TakePacket(w)
  <2>1. PICK p \in port : port' = port \ {p} /\ wchunk' = [wchunk EXCEPT ![w] = p]
    BY <1>1 DEF TakePacket
  <2>2. /\ Handed' = Handed /\ SendsInOrder' /\ DeliveredAsSent'
        /\ \A i \in 1 .. Len(kernel)' :
             kernel'[i].keep => TRUE \in Keeps /\ kernel'[i].copy = sendBuf'
    BY <1>1, SendsStay DEF TakePacket
  <2>3. port' = {} /\ posted = 0 /\ (\A v \in Workers : wpc[v] = "wait")
    BY <2>1 DEF StreamInv, OneTurn, TypeOK
  <2>4. /\ \A v \in Workers : wpc'[v] = IF v = w THEN "send" ELSE "wait"
        /\ wchunk'[w] = p
    BY <1>1, <2>1, <2>3 DEF TakePacket, TypeOK
  <2>5. Received(p)'
    BY <1>1, <2>2 DEF StreamInv, InHand, Received, TakePacket
  <2>6. OneTurn' /\ InHand'
    BY <1>1, <2>3, <2>4, <2>5 DEF OneTurn, InHand, TakePacket
  <2>7. ~Overlap => Settled'
    BY <1>1, <2>1 DEF StreamInv, SendBufferKept, Settled, TakePacket, sendVars
  <2> QED
    BY <2>2, <2>3, <2>6, <2>7 DEF StreamInv, SendBufferKept
<1>2. CASE ForwardFails(w)
  <2>1. /\ Handed' = Handed /\ SendsInOrder' /\ DeliveredAsSent'
        /\ \A i \in 1 .. Len(kernel)' :
             kernel'[i].keep => TRUE \in Keeps /\ kernel'[i].copy = sendBuf'
    BY <1>2, SendsStay DEF ForwardFails
  <2>2. posted = 0 /\ port = {} /\ \A v \in Workers : wpc'[v] = "wait"
    BY <1>2 DEF ForwardFails, Waits, StreamInv, OneTurn, TypeOK
  <2> QED
    BY <1>2, <2>1, <2>2 DEF ForwardFails, StreamInv, OneTurn, InHand, SendBufferKept
<1>3. CASE Send(w)
  <2> USE <1>3
  <2>1. /\ posted = 0 /\ port = {} /\ \A v \in Workers : v # w => wpc[v] = "wait"
        /\ wchunk[w] \in Chunks /\ Received(wchunk[w])
        /\ ~Overlap => Settled
    BY DEF Send, StreamInv, OneTurn, InHand, SendBufferKept, TypeOK
  <2>2. /\ posted' = 0 /\ port' = {}
        /\ \A v \in Workers : wpc'[v] \in {"wait", "recv"} /\ (v # w => wpc'[v] = "wait")
    BY <2>1 DEF Send, Waits, TypeOK
  <2>3. \A i \in 1 .. Len(kernel) : ~kernel[i].keep
    <3>1. CASE ~Overlap
      BY <2>1, <3>1 DEF Settled
    <3>2. CASE Keeps \subseteq {FALSE}
      <4>1. TRUE \notin Keeps
        BY <3>2
      <4> QED
        BY <4>1 DEF StreamInv, SendBufferKept
    <3> QED
      BY <3>1, <3>2 DEF NoOverlap
  <2>4. OneTurn'
    BY <2>2 DEF OneTurn
  <2>5. CASE UNCHANGED kernel
    <3>1. Handed' = Handed /\ SendsInOrder' /\ DeliveredAsSent'
      BY <2>5 DEF Send, Handed, StreamInv, SendsInOrder, DeliveredAsSent
    <3>2. \A v \in Workers : wpc'[v] = "wait"
      <4>1. CASE wpc' = [wpc EXCEPT ![w] = "wait"]
        BY <2>1, <4>1 DEF TypeOK
      <4>2. ASSUME NEW keep \in Keeps,
                   kernel' = Append(kernel, [chunk |-> wchunk[w], keep |-> keep, copy |-> sendBuf'])
            PROVE  FALSE
        <5>1. sendBuf' \in Buffers
          BY Data DEF Send, TypeOK
        <5>2. [chunk |-> wchunk[w], keep |-> keep, copy |-> sendBuf'] \in Sends
          BY <2>1, <5>1, StreamBounds DEF Sends
        <5> QED
          BY <2>5, <4>2, <5>2, Appended
      <4> QED
        BY <4>1, <4>2 DEF Send, Waits
    <3>3. SendBufferKept'
      BY <2>2, <2>3, <2>5, <3>2 DEF SendBufferKept
    <3>4. InHand'
      BY <2>2, <3>2 DEF InHand
    <3> QED
      BY <2>4, <3>1, <3>3, <3>4 DEF StreamInv
  <2>6. ASSUME NEW keep \in Keeps,
               kernel' = Append(kernel, [chunk |-> wchunk[w], keep |-> keep, copy |-> sendBuf']),
               wpc' = [wpc EXCEPT ![w] = "recv"]
        PROVE  StreamInv'
    <3> DEFINE s == [chunk |-> wchunk[w], keep |-> keep, copy |-> sendBuf']
    <3>1. sendBuf' \in Buffers /\ sendBuf' = Strcpy(recvBuf)
      BY Data DEF Send, TypeOK
    <3>2. s \in Sends /\ s.chunk = wchunk[w] /\ s.copy = sendBuf' /\ s.keep = keep
      BY <2>1, <3>1, StreamBounds DEF Sends
    <3> HIDE DEF s
    <3>3. /\ kernel' # <<>> /\ Len(kernel) \in Nat /\ Len(kernel') = Len(kernel) + 1
          /\ \A i \in 1 .. Len(kernel) : kernel'[i] = kernel[i]
          /\ kernel'[Len(kernel) + 1] = s
      BY <2>6, <3>2, Appended DEF s
    <3>4. /\ s.chunk.from = Handed /\ s.chunk.from + s.chunk.len = read /\ read <= Len(Input)
          /\ \A j \in 1 .. s.chunk.len : s.copy[j] = Input[s.chunk.from + j]
      <4>1. wchunk[w].from = Handed /\ wchunk[w].from + wchunk[w].len = read /\ read <= Len(Input)
        BY <2>1 DEF Received, TypeOK
      <4>2. \A j \in 1 .. wchunk[w].len : sendBuf'[j] = Input[wchunk[w].from + j]
        BY <2>1, <3>1, StrcpyCopies
      <4> QED
        BY <3>2, <4>1, <4>2
    <3>5. Handed' = read
      BY <3>3, <3>4 DEF Handed
    <3>6. UNCHANGED <<delivered, read>>
      BY DEF Send
    <3>7. SendsInOrder'
      <4>1. ASSUME NEW i \in 1 .. Len(kernel')
            PROVE  LET chunk == kernel'[i].chunk IN
                   /\ chunk.from = IF i = 1 THEN Len(delivered')
                                   ELSE kernel'[i - 1].chunk.from + kernel'[i - 1].chunk.len
                   /\ chunk.from + chunk.len <= Len(Input)
                   /\ \A j \in 1 .. chunk.len : kernel'[i].copy[j] = Input[chunk.from + j]
        <5>1. CASE i \in 1 .. Len(kernel)
          <6>1. kernel'[i] = kernel[i] /\ (i # 1 => kernel'[i - 1] = kernel[i - 1])
            BY <3>3, <5>1
          <6> QED
            BY <3>6, <5>1, <6>1 DEF StreamInv, SendsInOrder
        <5>2. CASE i = Len(kernel) + 1
          <6>1. /\ kernel'[i] = s /\ i - 1 = Len(kernel) /\ (i = 1 <=> kernel = <<>>)
                /\ i # 1 => kernel'[i - 1] = kernel[i - 1]
            BY <3>3, <5>2, Stack
          <6>2. s.chunk.from = IF i = 1 THEN Len(delivered)
                               ELSE kernel'[i - 1].chunk.from + kernel'[i - 1].chunk.len
            BY <3>4, <6>1 DEF Handed
          <6> QED
            BY <3>4, <3>6, <6>1, <6>2
        <5> QED
          BY <3>3, <5>1, <5>2
      <4> QED
        BY <3>6, <4>1 DEF StreamInv, SendsInOrder
    <3>8. SendBufferKept'
      <4>1. \A i \in 1 .. Len(kernel') :
              kernel'[i].keep => TRUE \in Keeps /\ kernel'[i].copy = sendBuf'
        <5> SUFFICES ASSUME NEW i \in 1 .. Len(kernel'), kernel'[i].keep
                     PROVE  TRUE \in Keeps /\ kernel'[i].copy = sendBuf'
          OBVIOUS
        <5>1. kernel'[i] = s
          <6>1. i \in 1 .. Len(kernel) \/ i = Len(kernel) + 1
            BY <3>3
          <6>2. i \notin 1 .. Len(kernel)
            BY <2>3, <3>3
          <6> QED
            BY <3>3, <6>1, <6>2
        <5>2. keep = TRUE
          BY <3>2, <5>1, StreamBounds
        <5> QED
          BY <3>2, <5>1, <5>2
      <4>2. port' = {} /\ \A v \in Workers : wpc'[v] # "send"
        BY <2>2
      <4> QED
        BY <4>1, <4>2 DEF SendBufferKept
    <3>9. InHand'
      BY <2>2, <3>5, <3>6 DEF InHand
    <3>10. DeliveredAsSent'
      BY <3>6 DEF StreamInv, DeliveredAsSent
    <3> QED
      BY <2>4, <3>7, <3>8, <3>9, <3>10 DEF StreamInv
  <2> QED
    BY <2>5, <2>6 DEF Send
<1>4. CASE SendOverruns(w)
  <2>1. UNCHANGED <<read, posted, recvBuf, port, wpc, wchunk, sendBuf, kernel, delivered>>
    BY <1>4 DEF SendOverruns, sendVars, workerVars
  <2> QED
    BY <2>1 DEF StreamInv, OneTurn, InHand, Received, Handed, SendsInOrder, SendBufferKept,
       Settled, DeliveredAsSent
<1>5. CASE Recv(w)
  <2>1. /\ Handed' = Handed /\ SendsInOrder' /\ DeliveredAsSent'
        /\ \A i \in 1 .. Len(kernel)' :
             kernel'[i].keep => TRUE \in Keeps /\ kernel'[i].copy = sendBuf'
    BY <1>5, SendsStay DEF Recv
  <2>2. posted = 0 /\ port = {} /\ \A v \in Workers : wpc'[v] = "wait"
    BY <1>5 DEF Recv, Waits, StreamInv, OneTurn, TypeOK
  <2>3. Handed = read
    BY <1>5 DEF Recv, StreamInv, InHand
  <2>4. posted' \in {0, 1} /\ port' = {} /\ recvBuf' = Zeroed /\ read' = read
    BY <1>5, <2>2 DEF Recv
  <2> QED
    <3>1. OneTurn'
      BY <2>2, <2>4 DEF OneTurn
    <3>2. InHand'
      BY <2>1, <2>2, <2>3, <2>4 DEF InHand
    <3>3. SendBufferKept'
      BY <2>1, <2>2, <2>4 DEF SendBufferKept
    <3> QED
      BY <2>1, <3>1, <3>2, <3>3 DEF StreamInv
<1> QED
  BY <1>1, <1>2, <1>3, <1>4, <1>5 DEF Handle

(* Every byte read is, in order, delivered, with the stack, or in the      *)
(* hands of one packet or worker.                                          *)
THEOREM StreamInOrder ==
  ASSUME NoZeros, NoOverlap
  PROVE  Spec => []StreamInv
<1>1. Init => StreamInv
  <2> SUFFICES ASSUME Init PROVE StreamInv
    OBVIOUS
  <2>1. Len(delivered) = 0 /\ Len(kernel) = 0 /\ SubSeq(Input, 1, 0) = <<>>
    BY EmptySeq, SubSeqEmpty DEF Init
  <2>2. DeliveredAsSent
    BY <2>1 DEF Init, DeliveredAsSent
  <2> QED
    BY <2>1, <2>2, Data DEF Init, StreamInv, OneTurn, InHand, Handed, SendsInOrder, SendBufferKept
<1>2. TypeOK /\ StreamInv /\ [Next]_vars => StreamInv'
  <2> SUFFICES ASSUME TypeOK, StreamInv, [Next]_vars PROVE StreamInv'
    OBVIOUS
  <2>1. CASE UNCHANGED vars
    BY <2>1 DEF vars, recvVars, workerVars, sendVars, StreamInv, OneTurn, InHand, Received,
       Handed, SendsInOrder, SendBufferKept, Settled, DeliveredAsSent
  <2> QED
    BY <2>1, ArrivesStream, TransmitStream, WorkerStream DEF Next, Stopped
<1> QED
  BY <1>1, <1>2, StreamTypes, PTL DEF Spec

(* Without a zero and without an overlap the comment on Forward is true:   *)
(* what was delivered is what was sent, so far.                            *)
COROLLARY TextArrivesAsSent ==
  ASSUME NoZeros, NoOverlap
  PROVE  Spec => []DeliveredAsSent
<1>1. StreamInv => DeliveredAsSent
  BY DEF StreamInv
<1> QED
  BY <1>1, StreamInOrder, PTL

(* Forwarding implements the safety part of the byte channel.              *)
THEOREM StreamRefinesChannel ==
  ASSUME NoZeros, NoOverlap
  PROVE  Spec => RefinesByteChannel
<1>1. Init => Channel!Init
  BY DEF Init, Channel!Init
<1>2. TypeOK /\ StreamInv /\ StreamInv' /\ [Next]_vars => [Channel!Next]_(Channel!vars)
  <2> SUFFICES ASSUME TypeOK, StreamInv, StreamInv', [Next]_vars
               PROVE  [Channel!Next]_(Channel!vars)
    OBVIOUS
  <2>1. CASE Transmit
    <3>1. Len(delivered') \in Len(delivered) + 1 .. Len(Input)
      <4>1. /\ delivered' = delivered \o SubSeq(IF kernel[1].keep THEN sendBuf ELSE kernel[1].copy,
                                                1, kernel[1].chunk.len)
            /\ SubSeq(IF kernel[1].keep THEN sendBuf ELSE kernel[1].copy,
                      1, kernel[1].chunk.len) \in Seq(Nat)
            /\ Len(SubSeq(IF kernel[1].keep THEN sendBuf ELSE kernel[1].copy,
                          1, kernel[1].chunk.len)) = kernel[1].chunk.len
            /\ kernel[1].chunk \in Chunks
        BY <2>1, Transmitted
      <4>2. PICK t \in Seq(Nat) : delivered' = delivered \o t /\ Len(t) \in Nat \ {0}
        BY <4>1, Data
      <4>3. Len(delivered') = Len(delivered) + Len(t) /\ Len(delivered) \in Nat
        BY <4>2, ConcatProperties, LenProperties DEF TypeOK
      <4> QED
        BY <4>2, <4>3, Data DEF StreamInv, SendsInOrder
    <3>2. delivered' = SubSeq(Input, 1, Len(delivered'))
      BY DEF StreamInv, DeliveredAsSent
    <3>3. (open' /\ ~undef') = (open /\ ~undef)
      BY <2>1 DEF Transmit
    <3> QED
      BY <3>1, <3>2, <3>3 DEF Channel!Next, Channel!Deliver
  <2>2. CASE delivered' = delivered /\ (open' /\ ~undef') = FALSE
    BY <2>2 DEF Channel!Next, Channel!Break
  <2>3. CASE delivered' = delivered /\ open' = open /\ undef' = undef
    BY <2>3 DEF Channel!vars
  <2>4. CASE DataArrives \/ UNCHANGED vars
    BY <2>3, <2>4 DEF DataArrives, vars
  <2>5. ASSUME NEW w \in Workers, TakePacket(w) \/ Handle(w)
        PROVE  /\ delivered' = delivered
               /\ (open' /\ ~undef') = FALSE \/ (open' = open /\ undef' = undef)
    BY <2>5 DEF TakePacket, Handle, ForwardFails, Send, SendOverruns, Recv
  <2> QED
    BY <2>1, <2>2, <2>3, <2>4, <2>5 DEF Next, Stopped
<1> QED
  BY <1>1, <1>2, StreamTypes, StreamInOrder, PTL DEF Spec, RefinesByteChannel, Channel!Safe

-----------------------------------------------------------------------------
(* The receive buffer, whatever the bytes are and whoever overlaps.        *)

Holds(p) ==
  \A i \in 1 .. MAX_BUFFER_LEN : recvBuf[i] = IF i <= p.len THEN Input[p.from + i] ELSE 0

BufferInv ==
  /\ OneTurn
  /\ posted = 1 => recvBuf = Zeroed
  /\ \A p \in port : Holds(p)
  /\ \A w \in Workers : wpc[w] = "send" => Holds(wchunk[w])
  /\ OverrunsOnFullChunk

(* A worker's steps keep what is in the receive buffer.                    *)
LEMMA WorkerBuffer ==
  ASSUME TypeOK, BufferInv, ~undef, NEW w \in Workers, TakePacket(w) \/ Handle(w)
  PROVE  BufferInv'
<1> USE DEF recvVars
<1>1. CASE TakePacket(w)
  <2>1. PICK p \in port : port' = port \ {p} /\ wchunk' = [wchunk EXCEPT ![w] = p]
    BY <1>1 DEF TakePacket
  <2>2. port' = {} /\ posted = 0 /\ (\A v \in Workers : wpc[v] = "wait")
    BY <2>1 DEF BufferInv, OneTurn, TypeOK
  <2>3. /\ \A v \in Workers : wpc'[v] = IF v = w THEN "send" ELSE "wait"
        /\ wchunk'[w] = p
    BY <1>1, <2>1, <2>2 DEF TakePacket, TypeOK
  <2> QED
    BY <1>1, <2>1, <2>2, <2>3
    DEF TakePacket, BufferInv, OneTurn, Holds, OverrunsOnFullChunk
<1>2. CASE Handle(w) /\ ~SendOverruns(w)
  <2>1. posted = 0 /\ port = {} /\ \A v \in Workers : v # w => wpc[v] = "wait"
    BY <1>2 DEF Handle, ForwardFails, Send, Recv, BufferInv, OneTurn, TypeOK
  <2>2. \A v \in Workers : wpc'[v] \in {"wait", "recv"} /\ (v # w => wpc'[v] = "wait")
    BY <1>2, <2>1 DEF Handle, ForwardFails, Send, Recv, Waits, TypeOK
  <2>3. UNCHANGED <<port, undef>>
    BY <1>2 DEF Handle, ForwardFails, Send, Recv
  <2>4. \/ UNCHANGED <<posted, recvBuf>>
        \/ posted' \in {0, 1} /\ recvBuf' = Zeroed /\ \A v \in Workers : wpc'[v] = "wait"
    <3>1. CASE Recv(w)
      BY <2>1, <3>1 DEF Recv, Waits, TypeOK
    <3>2. CASE ~Recv(w)
      BY <1>2, <3>2 DEF Handle, ForwardFails, Send
    <3> QED
      BY <3>1, <3>2
  <2> QED
    BY <2>1, <2>2, <2>3, <2>4 DEF BufferInv, OneTurn, OverrunsOnFullChunk
<1>3. CASE SendOverruns(w)
  <2>1. /\ wchunk[w] \in Chunks /\ wpc[w] = "send" /\ Holds(wchunk[w])
        /\ \A i \in 1 .. MAX_BUFFER_LEN : recvBuf[i] # 0
    BY <1>3 DEF SendOverruns, Unterminated, BufferInv, TypeOK
  <2>2. \A i \in 1 .. MAX_BUFFER_LEN : i <= wchunk[w].len /\ Input[wchunk[w].from + i] # 0
    BY <2>1 DEF Holds
  <2>3. MAX_BUFFER_LEN \in 1 .. MAX_BUFFER_LEN
    BY Data
  <2>4. wchunk[w].len = MAX_BUFFER_LEN
    BY <2>1, <2>2, <2>3, Data
  <2>5. OverrunsOnFullChunk'
    BY <1>3, <2>1, <2>2, <2>4 DEF SendOverruns, workerVars, OverrunsOnFullChunk
  <2> QED
    BY <1>3, <2>5 DEF SendOverruns, workerVars, BufferInv, OneTurn, Holds
<1> QED
  BY <1>1, <1>2, <1>3

(* strcpy runs out of its buffers only on a chunk that filled the receive  *)
(* buffer without a zero, whatever the bytes are, however the chunks are   *)
(* cut and whether or not sends overlap.                                   *)
THEOREM OverrunNeedsFullChunk == Spec => []OverrunsOnFullChunk
<1>1. Init => BufferInv
  BY DEF Init, BufferInv, OneTurn, OverrunsOnFullChunk
<1>2. TypeOK /\ BufferInv /\ [Next]_vars => BufferInv'
  <2> SUFFICES ASSUME TypeOK, BufferInv, [Next]_vars PROVE BufferInv'
    OBVIOUS
  <2> USE DEF recvVars, workerVars
  <2>1. CASE DataArrives /\ ~undef
    <3>1. posted = 1 /\ posted' = 0 /\ port = {} /\ (\A w \in Workers : wpc[w] = "wait")
      BY <2>1 DEF DataArrives, BufferInv, OneTurn, TypeOK
    <3>2. PICK n \in 1 .. MaxChunk :
            /\ port' = port \cup {[from |-> read, len |-> n]}
            /\ recvBuf' = [i \in 1 .. MAX_BUFFER_LEN |->
                             IF i <= n THEN Input[read + i] ELSE recvBuf[i]]
      BY <2>1 DEF DataArrives
    <3>3. PICK p : p = [from |-> read, len |-> n]
      OBVIOUS
    <3>4. Holds(p)'
      BY <3>1, <3>2, <3>3 DEF Holds, BufferInv, Zeroed
    <3> QED
      BY <2>1, <3>1, <3>2, <3>3, <3>4
      DEF DataArrives, BufferInv, OneTurn, OverrunsOnFullChunk
  <2>2. ASSUME NEW w \in Workers, ~undef, TakePacket(w) \/ Handle(w)
        PROVE  BufferInv'
    BY <2>2, WorkerBuffer
  <2>3. CASE Transmit \/ UNCHANGED vars
    BY <2>3 DEF Transmit, vars, BufferInv, OneTurn, Holds, OverrunsOnFullChunk
  <2> QED
    BY <2>1, <2>2, <2>3 DEF Next, Stopped
<1>3. BufferInv => OverrunsOnFullChunk
  BY DEF BufferInv
<1> QED
  BY <1>1, <1>2, <1>3, StreamTypes, PTL DEF Spec
=============================================================================
