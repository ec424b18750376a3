------------------------- MODULE IoctlDeviceProofs -------------------------
(***************************************************************************)
(* Proofs about IoctlDevice, for any set of requests and any LONG.         *)
(***************************************************************************)
EXTENDS IoctlDevice, TLAPS, SequenceTheorems

-----------------------------------------------------------------------------
(* Arithmetic modulo the number of LONGs.                                  *)

(* Quotient and remainder, and the remainder of q * m + r.                 *)
LEMMA Division ==
  ASSUME NEW m \in Nat \ {0}, NEW x \in Nat
  PROVE  x % m \in 0 .. m - 1 /\ x \div m \in Nat /\ x = m * (x \div m) + (x % m)
BY SMT

LEMMA Remainder ==
  ASSUME NEW m \in Nat \ {0}, NEW q \in Nat, NEW r \in 0 .. m - 1
  PROVE  (m * q + r) % m = r
BY SMT

(* Adding 1 before or after the remainder is taken is the same.            *)
LEMMA RemainderNext ==
  ASSUME NEW m \in Nat \ {0}, NEW x \in Nat
  PROVE  ((x % m) + 1) % m = (x + 1) % m
<1> DEFINE q == x \div m
           r == x % m
<1>1. r \in 0 .. m - 1 /\ q \in Nat /\ x = m * q + r
  BY Division
<1> HIDE DEF q, r
<1>2. CASE r + 1 < m
  <2>1. r + 1 \in 0 .. m - 1 /\ x + 1 = m * q + (r + 1) /\ r + 1 = m * 0 + (r + 1)
    BY <1>1, <1>2
  <2>2. (m * q + (r + 1)) % m = r + 1 /\ (m * 0 + (r + 1)) % m = r + 1
    BY <1>1, <2>1, Remainder
  <2> QED
    BY <2>1, <2>2 DEF r
<1>3. CASE r + 1 = m
  <2>1. x + 1 = m * (q + 1) + 0 /\ r + 1 = m * 1 + 0
    BY <1>1, <1>3
  <2>2. (m * (q + 1) + 0) % m = 0 /\ (m * 1 + 0) % m = 0
    BY <1>1, Remainder
  <2> QED
    BY <2>1, <2>2 DEF r
<1> QED
  BY <1>1, <1>2, <1>3

(* Different numbers with the same remainder are at least m apart.         *)
LEMMA RemainderWindow ==
  ASSUME NEW m \in Nat \ {0}, NEW x \in Nat, NEW y \in Nat, x % m = y % m, x > y
  PROVE  x - y >= m
<1> DEFINE p == x \div m
           q == y \div m
           r == x % m
<1>1. p \in Nat /\ q \in Nat /\ r \in 0 .. m - 1 /\ x = m * p + r /\ y = m * q + r
  BY Division
<1> HIDE DEF p, q, r
<1>2. p > q
  <2> SUFFICES ASSUME p <= q PROVE FALSE
    BY <1>1
  <2>1. m * p <= m * q
    BY <1>1, SMT
  <2> QED
    BY <1>1, <2>1
<1>3. m * p - m * q >= m
  BY <1>1, <1>2, SMT
<1> QED
  BY <1>1, <1>3

(* An addition of LONGs yields a LONG, ...                                 *)
LEMMA ToLongType == \A n \in Nat : ToLong(n) \in Longs
<1> SUFFICES ASSUME NEW n \in Nat PROVE ToLong(n) \in Longs
  OBVIOUS
<1>1. (n + LONG_MAX + 1) % (2 * LONG_MAX + 2) \in 0 .. 2 * LONG_MAX + 1
  BY LongAssumption, Division
<1> QED
  BY <1>1, LongAssumption DEF ToLong, Longs

(* ... which counts on as the integers do ...                              *)
LEMMA ToLongNext == \A n \in Nat : ToLong(ToLong(n) + 1) = ToLong(n + 1)
<1> SUFFICES ASSUME NEW n \in Nat PROVE ToLong(ToLong(n) + 1) = ToLong(n + 1)
  OBVIOUS
<1> DEFINE m == 2 * LONG_MAX + 2
           x == n + LONG_MAX + 1
<1>1. m \in Nat \ {0} /\ x \in Nat /\ LONG_MAX \in Nat
  BY LongAssumption
<1>2. x % m \in 0 .. m - 1 /\ ((x % m) + 1) % m = (x + 1) % m
  BY <1>1, Division, RemainderNext
<1>3. ToLong(n) = (x % m) - LONG_MAX - 1
  BY DEF ToLong
<1>4. ToLong(n) + 1 + LONG_MAX + 1 = (x % m) + 1 /\ n + 1 + LONG_MAX + 1 = x + 1
  <2> HIDE DEF m
  <2> QED
    BY <1>1, <1>2, <1>3
<1>5. /\ ToLong(ToLong(n) + 1) = (((x % m) + 1) % m) - LONG_MAX - 1
      /\ ToLong(n + 1) = ((x + 1) % m) - LONG_MAX - 1
  <2> HIDE DEF x
  <2> QED
    BY <1>4 DEF ToLong
<1> QED
  BY <1>2, <1>5

(* ... until all LONGs have been used.                                     *)
LEMMA ToLongWindow ==
  ASSUME NEW a \in Nat, NEW b \in Nat, ToLong(a) = ToLong(b), a > b
  PROVE  a - b >= 2 * LONG_MAX + 2
<1> DEFINE m == 2 * LONG_MAX + 2
           x == a + LONG_MAX + 1
           y == b + LONG_MAX + 1
<1>1. m \in Nat \ {0} /\ x \in Nat /\ y \in Nat /\ LONG_MAX \in Nat /\ x > y
  BY LongAssumption
<1>2. x % m \in 0 .. m - 1 /\ y % m \in 0 .. m - 1
  BY <1>1, Division
<1>3. x % m = y % m
  <2>1. ToLong(a) = (x % m) - LONG_MAX - 1 /\ ToLong(b) = (y % m) - LONG_MAX - 1
    BY DEF ToLong
  <2>2. (x % m) - LONG_MAX - 1 = (y % m) - LONG_MAX - 1
    BY <2>1
  <2>3. x % m \in Int /\ y % m \in Int
    BY <1>1, <1>2
  <2> DEFINE r == x % m
             s == y % m
  <2> HIDE DEF r, s
  <2> QED
    BY <1>1, <2>2, <2>3 DEF r, s
<1>4. x - y >= m
  <2> HIDE DEF m, x, y
  <2> QED
    BY <1>1, <1>3, RemainderWindow
<1> QED
  BY <1>1, <1>4
-----------------------------------------------------------------------------
(* The queue: who is in it after a request was added or taken out.         *)

Occurs(s, e) == \E i \in DOMAIN s : s[i] = e
Unique(s) == \A i, j \in DOMAIN s : s[i] = s[j] => i = j

LEMMA AfterAppend ==
  ASSUME NEW S, NEW s \in Seq(S), NEW e \in S
  PROVE  /\ Append(s, e) \in Seq(S)
         /\ \A x \in S : Occurs(Append(s, e), x) <=> Occurs(s, x) \/ x = e
         /\ Unique(s) /\ ~Occurs(s, e) => Unique(Append(s, e))
<1> DEFINE t == Append(s, e)
<1>1. /\ t \in Seq(S) /\ Len(t) = Len(s) + 1
      /\ \A i \in 1 .. Len(s) : t[i] = s[i]
      /\ t[Len(s) + 1] = e
  BY AppendProperties
<1>2. Len(s) \in Nat /\ DOMAIN s = 1 .. Len(s) /\ DOMAIN t = 1 .. Len(s) + 1
  BY <1>1, LenProperties
<1> HIDE DEF t
<1>3. \A x \in S : Occurs(t, x) <=> Occurs(s, x) \/ x = e
  BY <1>1, <1>2 DEF Occurs
<1>4. Unique(s) /\ ~Occurs(s, e) => Unique(t)
  <2> SUFFICES ASSUME Unique(s), ~Occurs(s, e),
                      NEW i \in 1 .. Len(s) + 1, NEW j \in 1 .. Len(s) + 1, t[i] = t[j]
               PROVE  i = j
    BY <1>2 DEF Unique
  <2>1. \A k \in 1 .. Len(s) : t[k] # e
    BY <1>1, <1>2 DEF Occurs
  <2>2. CASE i = Len(s) + 1 \/ j = Len(s) + 1
    BY <1>1, <1>2, <2>1, <2>2
  <2>3. CASE i \in 1 .. Len(s) /\ j \in 1 .. Len(s)
    BY <1>1, <1>2, <2>3 DEF Unique
  <2> QED
    BY <1>2, <2>2, <2>3
<1> QED
  BY <1>1, <1>3, <1>4 DEF t

LEMMA AfterTail ==
  ASSUME NEW S, NEW s \in Seq(S), s # <<>>, Unique(s)
  PROVE  /\ Tail(s) \in Seq(S) /\ Head(s) \in S
         /\ Occurs(s, Head(s))
         /\ \A x \in S : Occurs(Tail(s), x) <=> Occurs(s, x) /\ x # Head(s)
         /\ Unique(Tail(s))
<1> DEFINE t == Tail(s)
           h == Head(s)
<1>1. /\ t \in Seq(S) /\ h \in S /\ Len(t) = Len(s) - 1
      /\ \A i \in 1 .. Len(t) : t[i] = s[i + 1]
  BY HeadTailProperties
<1>2. /\ Len(s) \in Nat \ {0} /\ DOMAIN s = 1 .. Len(s) /\ DOMAIN t = 1 .. Len(s) - 1
      /\ h = s[1]
  BY <1>1, LenProperties, EmptySeq
<1> HIDE DEF t, h
<1>3. Occurs(s, h)
  BY <1>2 DEF Occurs
<1>4. \A x \in S : Occurs(t, x) <=> Occurs(s, x) /\ x # h
  <2> TAKE x \in S
  <2>1. ASSUME Occurs(t, x) PROVE Occurs(s, x) /\ x # h
    <3> PICK i \in 1 .. Len(s) - 1 : t[i] = x
      BY <1>2, <2>1 DEF Occurs
    <3>1. i + 1 \in 1 .. Len(s) /\ s[i + 1] = x /\ i + 1 # 1
      BY <1>1, <1>2
    <3> QED
      BY <1>2, <3>1 DEF Occurs, Unique
  <2>2. ASSUME Occurs(s, x), x # h PROVE Occurs(t, x)
    <3> PICK i \in 1 .. Len(s) : s[i] = x
      BY <1>2, <2>2 DEF Occurs
    <3>1. i - 1 \in 1 .. Len(s) - 1 /\ t[i - 1] = x
      BY <1>1, <1>2, <2>2
    <3> QED
      BY <1>2, <3>1 DEF Occurs
  <2> QED
    BY <2>1, <2>2
<1>5. Unique(t)
  <2> SUFFICES ASSUME NEW i \in 1 .. Len(s) - 1, NEW j \in 1 .. Len(s) - 1, t[i] = t[j]
               PROVE  i = j
    BY <1>2 DEF Unique
  <2>1. i + 1 \in DOMAIN s /\ j + 1 \in DOMAIN s /\ s[i + 1] = s[j + 1]
    BY <1>1, <1>2
  <2>2. i + 1 = j + 1
    BY <2>1 DEF Unique
  <2> QED
    BY <2>2
<1> QED
  BY <1>1, <1>3, <1>4, <1>5 DEF t, h

LEMMA AfterWithout ==
  ASSUME NEW S, NEW s \in Seq(S), NEW i \in DOMAIN s, Unique(s)
  PROVE  /\ Without(s, i) \in Seq(S) /\ s[i] \in S
         /\ Occurs(s, s[i])
         /\ \A x \in S : Occurs(Without(s, i), x) <=> Occurs(s, x) /\ x # s[i]
         /\ Unique(Without(s, i))
<1> DEFINE t == Without(s, i)
           f(j) == IF j < i THEN j ELSE j + 1
<1>1. Len(s) \in Nat /\ DOMAIN s = 1 .. Len(s) /\ i \in 1 .. Len(s)
      /\ \A j \in 1 .. Len(s) : s[j] \in S
  BY LenProperties, ElementOfSeq
<1>2. /\ DOMAIN t = 1 .. Len(s) - 1
      /\ \A j \in 1 .. Len(s) - 1 : t[j] = s[f(j)]
  BY DEF Without
<1>3. \A j \in 1 .. Len(s) - 1 : f(j) \in 1 .. Len(s) /\ f(j) # i
  BY <1>1
<1>4. t \in Seq(S)
  <2>1. t \in [1 .. Len(s) - 1 -> S]
    BY <1>1, <1>3 DEF Without
  <2>2. Len(s) - 1 \in Nat
    BY <1>1
  <2> HIDE DEF t
  <2> QED
    BY <2>1, <2>2, SeqDef
<1>5. Occurs(s, s[i])
  BY DEF Occurs
<1>6. \A x \in S : Occurs(t, x) <=> Occurs(s, x) /\ x # s[i]
  <2> TAKE x \in S
  <2>1. ASSUME Occurs(t, x) PROVE Occurs(s, x) /\ x # s[i]
    <3> PICK j \in 1 .. Len(s) - 1 : t[j] = x
      BY <1>2, <2>1 DEF Occurs
    <3> QED
      BY <1>1, <1>2, <1>3 DEF Occurs, Unique
  <2>2. ASSUME Occurs(s, x), x # s[i] PROVE Occurs(t, x)
    <3> PICK k \in 1 .. Len(s) : s[k] = x
      BY <1>1, <2>2 DEF Occurs
    <3> DEFINE j == IF k < i THEN k ELSE k - 1
    <3>1. j \in 1 .. Len(s) - 1 /\ f(j) = k
      BY <1>1, <2>2
    <3> HIDE DEF t, j
    <3> QED
      BY <1>2, <3>1 DEF Occurs
  <2> QED
    BY <2>1, <2>2
<1>7. Unique(t)
  <2> SUFFICES ASSUME NEW j \in 1 .. Len(s) - 1, NEW k \in 1 .. Len(s) - 1, t[j] = t[k]
               PROVE  j = k
    BY <1>2 DEF Unique
  <2>1. f(j) = f(k)
    BY <1>1, <1>2, <1>3 DEF Unique
  <2> QED
    BY <1>1, <2>1
<1> QED
  BY <1>1, <1>4, <1>5, <1>6, <1>7 DEF t
-----------------------------------------------------------------------------
(* Types and holders.                                                      *)

(* OneHolder in the words of the lemmas above.                             *)
LEMMA HolderForm ==
  ASSUME TypeOK
  PROVE  /\ \A r \in Requests : InQueue(r) <=> Occurs(queue, r)
         /\ OneHolder <=>
              /\ Unique(queue)
              /\ \A r \in Requests :
                   /\ completed[r] =
                        IF pc[r] = "returned" /\ ~Occurs(queue, r) /\ ~Retrieved(r) THEN 1 ELSE 0
                   /\ Occurs(queue, r) \/ Retrieved(r) =>
                        pc[r] = "returned" /\ ~(Occurs(queue, r) /\ Retrieved(r))
                   /\ \A p, q \in Requests : retrieved[p] = r /\ retrieved[q] = r => p = q
<1>1. \A i \in DOMAIN queue : queue[i] \in Requests
  BY LenProperties, ElementOfSeq DEF TypeOK
<1>2. \A r \in Requests : InQueue(r) <=> Occurs(queue, r)
  BY DEF InQueue, Occurs
<1>3. (\A r \in Requests : \A i, j \in DOMAIN queue : queue[i] = r /\ queue[j] = r => i = j)
        <=> Unique(queue)
  BY <1>1 DEF Unique
<1> QED
  BY <1>2, <1>3 DEF OneHolder

(* A step keeps the types and the holders.                                 *)
LEMMA HolderStep ==
  ASSUME TypeOK, OneHolder, [Next]_vars
  PROVE  TypeOK' /\ OneHolder'
<1> USE DEF callVars, answerVars, numberVars, CallStates
<1>0. /\ Unique(queue)
      /\ \A r \in Requests :
           /\ completed[r] =
                IF pc[r] = "returned" /\ ~Occurs(queue, r) /\ ~Retrieved(r) THEN 1 ELSE 0
           /\ Occurs(queue, r) \/ Retrieved(r) =>
                pc[r] = "returned" /\ ~(Occurs(queue, r) /\ Retrieved(r))
           /\ \A p, q \in Requests : retrieved[p] = r /\ retrieved[q] = r => p = q
  BY HolderForm
<1> DEFINE Holders ==
      /\ Unique(queue)
      /\ \A r \in Requests :
           /\ completed[r] =
                IF pc[r] = "returned" /\ ~Occurs(queue, r) /\ ~Retrieved(r) THEN 1 ELSE 0
           /\ Occurs(queue, r) \/ Retrieved(r) =>
                pc[r] = "returned" /\ ~(Occurs(queue, r) /\ Retrieved(r))
           /\ \A p, q \in Requests : retrieved[p] = r /\ retrieved[q] = r => p = q
<1>a. ASSUME TypeOK', Holders' PROVE OneHolder'
  <2>1. \A i \in DOMAIN queue' : queue'[i] \in Requests
    BY <1>a, LenProperties, ElementOfSeq DEF TypeOK
  <2>2. \A r \in Requests : InQueue(r)' <=> Occurs(queue, r)'
    BY DEF InQueue, Occurs
  <2> QED
    BY <1>a, <2>1, <2>2 DEF OneHolder, Unique
(* Steps of a call that only move it on.                                   *)
<1>1. ASSUME NEW r \in Requests,
             Dispatch(r) \/ AnswerAtOnce(r) \/ SimulateEvent(r) \/ SetDeviceContextData(r)
      PROVE  TypeOK' /\ OneHolder'
  <2>1. /\ pc[r] \in {"unsent", "switch"}
        /\ \E s \in {"switch", "complete", "retrieve"} : pc' = [pc EXCEPT ![r] = s]
        /\ UserModeAppProcessId' \in {r, UserModeAppProcessId}
        /\ UNCHANGED <<retrieved, value, queue, answerVars, numberVars>>
    BY <1>1 DEF Dispatch, AnswerAtOnce, SimulateEvent, SetDeviceContextData, Goto
  <2>2. TypeOK'
    BY <2>1 DEF TypeOK
  <2>3. Holders'
    BY <2>1, <1>0 DEF Retrieved, TypeOK
  <2> QED
    BY <1>a, <2>2, <2>3
<1>2. ASSUME NEW r \in Requests, ForwardToIoQueue(r)
      PROVE  TypeOK' /\ OneHolder'
  <2>1. CASE queue' = Append(queue, r) /\ Goto(r, "returned")
    <3>1. queue \in Seq(Requests) /\ ~Occurs(queue, r) /\ ~Retrieved(r)
      BY <1>0, <1>2 DEF ForwardToIoQueue, TypeOK
    <3>2. /\ queue' \in Seq(Requests) /\ Unique(queue')
          /\ \A x \in Requests : Occurs(queue', x) <=> Occurs(queue, x) \/ x = r
      BY <2>1, <3>1, <1>0, AfterAppend
    <3>3. TypeOK'
      BY <1>2, <2>1, <3>2 DEF ForwardToIoQueue, Goto, TypeOK
    <3>4. Holders'
      BY <1>0, <1>2, <2>1, <3>1, <3>2 DEF ForwardToIoQueue, Goto, Retrieved, TypeOK
    <3> QED
      BY <1>a, <3>3, <3>4
  <2>2. CASE UNCHANGED queue /\ Goto(r, "complete")
    <3>1. TypeOK'
      BY <1>2, <2>2 DEF ForwardToIoQueue, Goto, TypeOK
    <3>2. Holders'
      BY <1>0, <1>2, <2>2 DEF ForwardToIoQueue, Goto, Retrieved, TypeOK
    <3> QED
      BY <1>a, <3>1, <3>2
  <2> QED
    BY <1>2, <2>1, <2>2 DEF ForwardToIoQueue
<1>3. ASSUME NEW r \in Requests, RetrieveNextRequest(r)
      PROVE  TypeOK' /\ OneHolder'
  <2>1. CASE queue = <<>>
    <3>1. TypeOK'
      BY <1>3, <2>1 DEF RetrieveNextRequest, Goto, TypeOK
    <3>2. Holders'
      BY <1>0, <1>3, <2>1 DEF RetrieveNextRequest, Goto, Retrieved, TypeOK
    <3> QED
      BY <1>a, <3>1, <3>2
  <2>2. CASE queue # <<>>
    <3> DEFINE h == Head(queue)
    <3>1. /\ queue' = Tail(queue) /\ pc[r] = "retrieve" /\ pc' = [pc EXCEPT ![r] = "number"]
          /\ retrieved' = [retrieved EXCEPT ![r] = h]
          /\ UNCHANGED <<value, UserModeAppProcessId, answerVars, numberVars>>
      BY <1>3, <2>2 DEF RetrieveNextRequest, Goto
    <3>2. /\ queue' \in Seq(Requests) /\ Unique(queue') /\ h \in Requests
          /\ Occurs(queue, h)
          /\ \A x \in Requests : Occurs(queue', x) <=> Occurs(queue, x) /\ x # h
      BY <2>2, <3>1, <1>0, AfterTail DEF TypeOK
    <3>3. pc[h] = "returned" /\ ~Retrieved(h) /\ h # r
      BY <1>0, <3>1, <3>2
    <3> HIDE DEF h
    <3>4. TypeOK'
      BY <3>1, <3>2, NoneAssumption DEF TypeOK
    <3>5. \A x \in Requests : Retrieved(x)' <=> Retrieved(x) \/ x = h
      <4>1. retrieved[r] = None
        BY <3>1 DEF TypeOK
      <4> QED
        BY <3>1, <4>1, NoneAssumption DEF Retrieved, TypeOK
    <3>6. \A x \in Requests, p, q \in Requests : retrieved'[p] = x /\ retrieved'[q] = x => p = q
      BY <1>0, <3>1, <3>3 DEF Retrieved, TypeOK
    <3>7. Holders'
      BY <1>0, <3>1, <3>2, <3>3, <3>5, <3>6 DEF TypeOK
    <3> QED
      BY <1>a, <3>4, <3>7
  <2> QED
    BY <2>1, <2>2
<1>4. ASSUME NEW r \in Requests, TakeNumber(r)
      PROVE  TypeOK' /\ OneHolder'
  <2>0. Sequence + 1 \in Int /\ ToLong(Sequence + 1) \in Longs
    <3>1. Sequence + 1 \in Int
      BY LongAssumption DEF TypeOK, Longs
    <3>2. Sequence + 1 + LONG_MAX + 1 \in Nat
      BY LongAssumption DEF TypeOK, Longs
    <3>3. (Sequence + 1 + LONG_MAX + 1) % (2 * LONG_MAX + 2) \in 0 .. 2 * LONG_MAX + 1
      <4> DEFINE m == 2 * LONG_MAX + 2
                 x == Sequence + 1 + LONG_MAX + 1
      <4>1. m \in Nat \ {0} /\ m - 1 = 2 * LONG_MAX + 1
        BY LongAssumption
      <4>2. x % m \in 0 .. m - 1
        <5> HIDE DEF m, x
        <5>1. x \in Nat
          BY <3>2 DEF x
        <5> QED
          BY <4>1, <5>1, Division
      <4> QED
        BY <4>1, <4>2
    <3> QED
      BY <3>1, <3>3, LongAssumption DEF ToLong, Longs
  <2>1. TypeOK'
    BY <1>4, <2>0, NoneAssumption DEF TakeNumber, Goto, TypeOK, Longs
  <2>2. Holders'
    BY <1>0, <1>4 DEF TakeNumber, Goto, Retrieved, TypeOK
  <2> QED
    BY <1>a, <2>1, <2>2
<1>5. ASSUME NEW r \in Requests, Notify(r)
      PROVE  TypeOK' /\ OneHolder'
  <2> DEFINE q == retrieved[r]
  <2>1. /\ pc[r] = "notify" /\ pc' = [pc EXCEPT ![r] = "complete"]
        /\ completed' = [completed EXCEPT ![q] = @ + 1]
        /\ retrieved' = [retrieved EXCEPT ![r] = None]
        /\ value' = [value EXCEPT ![r] = None]
        /\ buffer' = [buffer EXCEPT ![q] = value[r]]
        /\ callRank' = [callRank EXCEPT ![r] = 0]
        /\ toldRank' = [toldRank EXCEPT ![q] = callRank[r]]
        /\ UNCHANGED <<queue, UserModeAppProcessId, Sequence, given>>
    BY <1>5 DEF Notify, Goto, WdfRequestComplete
  <2>2. q \in Requests /\ value[r] \in Longs
    BY <2>1 DEF TypeOK
  <2>3. pc[q] = "returned" /\ q # r /\ Retrieved(q) /\ ~Occurs(queue, q) /\ completed[q] = 0
    BY <1>0, <2>1, <2>2 DEF Retrieved
  <2>4. \A x \in Requests : Retrieved(x)' <=> Retrieved(x) /\ x # q
    BY <1>0, <2>1, <2>2, NoneAssumption DEF Retrieved, TypeOK
  <2> HIDE DEF q
  <2>5. TypeOK'
    <3>1. /\ completed' \in [Requests -> Nat]
          /\ buffer' \in [Requests -> Longs \cup {None}]
          /\ callRank' \in [Requests -> Nat] /\ toldRank' \in [Requests -> Nat]
      BY <2>1, <2>2 DEF TypeOK
    <3>2. /\ pc' \in [Requests -> CallStates]
          /\ retrieved' \in [Requests -> Requests \cup {None}]
          /\ value' \in [Requests -> Longs \cup {None}]
      BY <2>1 DEF TypeOK
    <3>3. \A x \in Requests :
            /\ retrieved'[x] # None <=> pc'[x] \in {"number", "notify"}
            /\ value'[x] # None <=> pc'[x] = "notify"
      BY <2>1 DEF TypeOK
    <3> QED
      BY <2>1, <3>1, <3>2, <3>3 DEF TypeOK
  <2>6. \A x \in Requests, a, b \in Requests : retrieved'[a] = x /\ retrieved'[b] = x => a = b
    BY <1>0, <2>1, NoneAssumption DEF TypeOK
  <2>7. Holders'
    BY <1>0, <2>1, <2>2, <2>3, <2>4, <2>6 DEF TypeOK
  <2> QED
    BY <1>a, <2>5, <2>7
<1>6. ASSUME NEW r \in Requests, CompleteRequest(r)
      PROVE  TypeOK' /\ OneHolder'
  <2>1. TypeOK'
    BY <1>6 DEF CompleteRequest, WdfRequestComplete, Goto, TypeOK
  <2>2. Holders'
    BY <1>0, <1>6 DEF CompleteRequest, WdfRequestComplete, Goto, Retrieved, TypeOK
  <2> QED
    BY <1>a, <2>1, <2>2
<1>7. ASSUME NEW i \in DOMAIN queue, Cancel(i)
      PROVE  TypeOK' /\ OneHolder'
  <2> DEFINE c == queue[i]
  <2>1. /\ queue' = Without(queue, i) /\ completed' = [completed EXCEPT ![c] = @ + 1]
        /\ UNCHANGED <<callVars, UserModeAppProcessId, buffer, numberVars>>
    BY <1>7 DEF Cancel, WdfRequestComplete
  <2>2. /\ queue' \in Seq(Requests) /\ Unique(queue') /\ c \in Requests
        /\ Occurs(queue, c)
        /\ \A x \in Requests : Occurs(queue', x) <=> Occurs(queue, x) /\ x # c
    BY <2>1, <1>0, AfterWithout DEF TypeOK
  <2> HIDE DEF c
  <2>3. pc[c] = "returned" /\ ~Retrieved(c) /\ completed[c] = 0
    BY <1>0, <2>2
  <2>4. TypeOK'
    <3>1. completed' \in [Requests -> Nat]
      BY <2>1, <2>2 DEF TypeOK
    <3>2. UNCHANGED <<pc, retrieved, value, UserModeAppProcessId, buffer,
                      Sequence, given, callRank, toldRank>>
      BY <2>1
    <3> QED
      BY <2>2, <3>1, <3>2 DEF TypeOK
  <2>5. Holders'
    BY <1>0, <2>1, <2>2, <2>3 DEF Retrieved, TypeOK
  <2> QED
    BY <1>a, <2>4, <2>5
<1>8. CASE UNCHANGED vars
  <2>1. TypeOK'
    BY <1>8 DEF vars, TypeOK
  <2>2. Holders'
    BY <1>0, <1>8 DEF vars, Retrieved
  <2> QED
    BY <1>a, <2>1, <2>2
<1> QED
  BY <1>1, <1>2, <1>3, <1>4, <1>5, <1>6, <1>7, <1>8 DEF Next, EvtIoDeviceControl

LEMMA HolderInit == Init => TypeOK /\ OneHolder
<1> SUFFICES ASSUME Init PROVE TypeOK /\ OneHolder
  OBVIOUS
<1>1. queue = <<>> /\ queue \in Seq(Requests) /\ DOMAIN queue = {}
  BY EmptySeq DEF Init
<1>2. ToLong(1) \in Longs /\ None \notin Longs
  BY ToLongType, NoneAssumption DEF Longs
<1>3. TypeOK
  BY <1>1, <1>2 DEF Init, TypeOK, CallStates
<1>4. OneHolder
  BY <1>1, NoneAssumption DEF Init, OneHolder, InQueue, Retrieved
<1> QED
  BY <1>3, <1>4

(* The type invariant.                                                     *)
THEOREM DeviceTypeCorrect == Spec => []TypeOK
<1>1. TypeOK /\ OneHolder /\ [Next]_vars => TypeOK' /\ OneHolder'
  BY HolderStep
<1> QED
  BY HolderInit, <1>1, PTL DEF Spec

(* Every request has one holder and is completed once, however many calls  *)
(* run at a time.                                                          *)
THEOREM RequestsCompletedOnce == Spec => []OneHolder
<1>1. TypeOK /\ OneHolder /\ [Next]_vars => TypeOK' /\ OneHolder'
  BY HolderStep
<1> QED
  BY HolderInit, <1>1, PTL DEF Spec
-----------------------------------------------------------------------------
(* Numbers.                                                                *)

(* A request told a number is completed: no call and no queue has it.      *)
LEMMA ToldIsFree ==
  ASSUME TypeOK, OneHolder, NumbersInv, NEW r \in Requests,
         pc[r] # "returned" \/ InQueue(r) \/ Retrieved(r)
  PROVE  completed[r] = 0 /\ toldRank[r] = 0
BY DEF OneHolder, NumbersInv

(* A step that takes no number and tells none.                             *)
LEMMA NumbersKept ==
  ASSUME TypeOK, NumbersInv, UNCHANGED <<value, buffer, numberVars>>,
         \A r \in Requests : pc'[r] = "notify" <=> pc[r] = "notify",
         \A r \in Requests : completed'[r] = completed[r] \/ completed[r] = 0
  PROVE  NumbersInv'
<1>1. UNCHANGED <<value, buffer, Sequence, given, callRank, toldRank>>
  BY DEF numberVars
<1> QED
  BY <1>1 DEF NumbersInv

LEMMA NumbersStep ==
  ASSUME TypeOK, OneHolder, NumbersInv, [Next]_vars
  PROVE  NumbersInv'
<1> USE DEF callVars, answerVars, CallStates
<1>1. ASSUME NEW r \in Requests,
             \/ Dispatch(r) \/ AnswerAtOnce(r) \/ SimulateEvent(r) \/ SetDeviceContextData(r)
             \/ ForwardToIoQueue(r) \/ RetrieveNextRequest(r)
      PROVE  NumbersInv'
  <2>1. /\ pc[r] \in {"unsent", "switch", "retrieve"}
        /\ \E s \in CallStates \ {"notify"} : pc' = [pc EXCEPT ![r] = s]
        /\ UNCHANGED <<value, completed, buffer, numberVars>>
    BY <1>1 DEF Dispatch, AnswerAtOnce, SimulateEvent, SetDeviceContextData, ForwardToIoQueue,
                RetrieveNextRequest, Goto
  <2>2. \A q \in Requests : pc'[q] = "notify" <=> pc[q] = "notify"
    BY <2>1 DEF TypeOK
  <2> QED
    BY <2>1, <2>2, NumbersKept
<1>2. ASSUME NEW r \in Requests, TakeNumber(r)
      PROVE  NumbersInv'
  <2>1. /\ pc[r] = "number" /\ pc' = [pc EXCEPT ![r] = "notify"]
        /\ value' = [value EXCEPT ![r] = Sequence]
        /\ Sequence' = ToLong(Sequence + 1) /\ given' = given + 1
        /\ callRank' = [callRank EXCEPT ![r] = given + 1]
        /\ UNCHANGED <<completed, buffer, toldRank>>
    BY <1>2 DEF TakeNumber, Goto
  <2>2. given \in Nat /\ given + 1 \in Nat /\ given' + 1 = (given + 1) + 1
    BY <2>1 DEF TypeOK
  <2>3. Sequence' = ToLong(given' + 1)
    <3>1. ToLong(ToLong(given + 1) + 1) = ToLong((given + 1) + 1)
      BY <2>2, ToLongNext
    <3> QED
      BY <2>1, <2>2, <3>1 DEF NumbersInv
  <2>4. value'[r] = ToLong(given + 1) /\ callRank'[r] = given + 1
    BY <2>1 DEF NumbersInv, TypeOK
  <2>5. \A x \in Requests : x # r =>
          pc'[x] = pc[x] /\ value'[x] = value[x] /\ callRank'[x] = callRank[x]
    BY <2>1 DEF TypeOK
  <2>6. \A x \in Requests :
          callRank[x] \in Nat /\ toldRank[x] \in Nat /\ callRank[x] <= given /\ toldRank[x] <= given
    BY DEF NumbersInv, TypeOK
  <2>7. \A x \in Requests :
          /\ callRank'[x] <= given' /\ toldRank'[x] <= given'
          /\ callRank'[x] # 0 <=> pc'[x] = "notify"
          /\ callRank'[x] # 0 => value'[x] = ToLong(callRank'[x])
    <3> TAKE x \in Requests
    <3>1. CASE x = r
      BY <2>1, <2>2, <2>4, <2>6, <3>1 DEF TypeOK
    <3>2. CASE x # r
      BY <2>1, <2>2, <2>5, <2>6, <3>2 DEF NumbersInv
    <3> QED
      BY <3>1, <3>2
  <2>8. \A x, y \in Requests :
          /\ callRank'[x] # 0 => callRank'[x] # toldRank'[y]
          /\ x # y /\ callRank'[x] # 0 => callRank'[x] # callRank'[y]
    <3> TAKE x, y \in Requests
    <3>1. CASE x # r /\ y # r
      BY <2>1, <2>5, <3>1 DEF NumbersInv
    <3>2. CASE x = r \/ y = r
      BY <2>1, <2>2, <2>4, <2>5, <2>6, <3>2 DEF NumbersInv
    <3> QED
      BY <3>1, <3>2
  <2> QED
    BY <2>1, <2>3, <2>7, <2>8 DEF NumbersInv
<1>3. ASSUME NEW r \in Requests, Notify(r)
      PROVE  NumbersInv'
  <2> DEFINE q == retrieved[r]
  <2>1. /\ pc[r] = "notify" /\ pc' = [pc EXCEPT ![r] = "complete"]
        /\ completed' = [completed EXCEPT ![q] = @ + 1]
        /\ value' = [value EXCEPT ![r] = None]
        /\ buffer' = [buffer EXCEPT ![q] = value[r]]
        /\ callRank' = [callRank EXCEPT ![r] = 0]
        /\ toldRank' = [toldRank EXCEPT ![q] = callRank[r]]
        /\ UNCHANGED <<Sequence, given>>
    BY <1>3 DEF Notify, Goto, WdfRequestComplete
  <2>2. q \in Requests /\ value[r] # None /\ Retrieved(q)
    BY <2>1 DEF TypeOK, Retrieved
  <2>3. completed[q] = 0 /\ toldRank[q] = 0
    BY <2>2, ToldIsFree
  <2>4. /\ callRank[r] # 0 /\ callRank[r] \in Nat /\ callRank[r] <= given
        /\ value[r] = ToLong(callRank[r])
        /\ \A s \in Requests : callRank[r] # toldRank[s] /\ (s # r => callRank[r] # callRank[s])
    BY <2>1 DEF NumbersInv, TypeOK
  <2> HIDE DEF q
  <2>5. /\ callRank'[r] = 0 /\ pc'[r] = "complete"
        /\ toldRank'[q] = callRank[r] /\ buffer'[q] = value[r] /\ completed'[q] = 1
        /\ \A x \in Requests : x # r =>
             callRank'[x] = callRank[x] /\ pc'[x] = pc[x] /\ value'[x] = value[x]
        /\ \A x \in Requests : x # q =>
             toldRank'[x] = toldRank[x] /\ buffer'[x] = buffer[x] /\ completed'[x] = completed[x]
    BY <2>1, <2>2, <2>3 DEF TypeOK
  <2>6. \A x \in Requests :
          /\ callRank'[x] <= given' /\ toldRank'[x] <= given'
          /\ callRank'[x] # 0 <=> pc'[x] = "notify"
          /\ callRank'[x] # 0 => value'[x] = ToLong(callRank'[x])
          /\ toldRank'[x] # 0 <=> buffer'[x] # None
          /\ toldRank'[x] # 0 => buffer'[x] = ToLong(toldRank'[x]) /\ completed'[x] = 1
    <3> TAKE x \in Requests
    <3>1. /\ callRank'[x] <= given'
          /\ callRank'[x] # 0 <=> pc'[x] = "notify"
          /\ callRank'[x] # 0 => value'[x] = ToLong(callRank'[x])
      <4>1. CASE x = r
        <5>1. given \in Nat /\ given' = given
          BY <2>1 DEF TypeOK
        <5> QED
          BY <2>5, <4>1, <5>1
      <4>2. CASE x # r
        BY <2>1, <2>5, <4>2 DEF NumbersInv
      <4> QED
        BY <4>1, <4>2
    <3>2. /\ toldRank'[x] <= given'
          /\ toldRank'[x] # 0 <=> buffer'[x] # None
          /\ toldRank'[x] # 0 => buffer'[x] = ToLong(toldRank'[x]) /\ completed'[x] = 1
      <4>1. CASE x = q
        BY <2>1, <2>2, <2>4, <2>5, <4>1
      <4>2. CASE x # q
        BY <2>1, <2>5, <4>2 DEF NumbersInv
      <4> QED
        BY <4>1, <4>2
    <3> QED
      BY <3>1, <3>2
  <2>7. \A x, y \in Requests :
          /\ callRank'[x] # 0 => callRank'[x] # toldRank'[y]
          /\ x # y /\ callRank'[x] # 0 => callRank'[x] # callRank'[y]
          /\ x # y /\ toldRank'[x] # 0 => toldRank'[x] # toldRank'[y]
    <3> TAKE x, y \in Requests
    <3>1. callRank'[x] # 0 => callRank'[x] # toldRank'[y]
      BY <2>4, <2>5 DEF NumbersInv
    <3>2. x # y /\ callRank'[x] # 0 => callRank'[x] # callRank'[y]
      BY <2>4, <2>5 DEF NumbersInv
    <3>3. x # y /\ toldRank'[x] # 0 => toldRank'[x] # toldRank'[y]
      BY <2>4, <2>5 DEF NumbersInv
    <3> QED
      BY <3>1, <3>2, <3>3
  <2> QED
    BY <2>1, <2>6, <2>7 DEF NumbersInv
<1>4. ASSUME NEW r \in Requests, CompleteRequest(r)
      PROVE  NumbersInv'
  <2>1. /\ pc[r] = "complete" /\ pc' = [pc EXCEPT ![r] = "returned"]
        /\ completed' = [completed EXCEPT ![r] = @ + 1]
        /\ UNCHANGED <<value, buffer, numberVars>>
    BY <1>4 DEF CompleteRequest, Goto, WdfRequestComplete
  <2>2. completed[r] = 0
    BY <2>1, ToldIsFree
  <2>3. /\ \A x \in Requests : pc'[x] = "notify" <=> pc[x] = "notify"
        /\ \A x \in Requests : completed'[x] = completed[x] \/ completed[x] = 0
    BY <2>1, <2>2 DEF TypeOK
  <2> QED
    BY <2>1, <2>3, NumbersKept
<1>5. ASSUME NEW i \in DOMAIN queue, Cancel(i)
      PROVE  NumbersInv'
  <2>1. /\ completed' = [completed EXCEPT ![queue[i]] = @ + 1]
        /\ UNCHANGED <<pc, value, buffer, numberVars>>
    BY <1>5 DEF Cancel, WdfRequestComplete
  <2>2. queue[i] \in Requests /\ InQueue(queue[i])
    BY LenProperties, ElementOfSeq DEF TypeOK, InQueue
  <2>3. completed[queue[i]] = 0
    BY <2>2, ToldIsFree
  <2>4. \A x \in Requests : completed'[x] = completed[x] \/ completed[x] = 0
    BY <2>1, <2>3 DEF TypeOK
  <2> QED
    BY <2>1, <2>4, NumbersKept
<1>6. CASE UNCHANGED vars
  BY <1>6, NumbersKept DEF vars
<1> QED
  BY <1>1, <1>2, <1>3, <1>4, <1>5, <1>6 DEF Next, EvtIoDeviceControl

LEMMA NumbersInit == Init => NumbersInv
<1> SUFFICES ASSUME Init PROVE NumbersInv
  OBVIOUS
<1>1. ToLong(given + 1) = ToLong(1)
  BY DEF Init
<1> QED
  BY <1>1 DEF Init, NumbersInv

(* Sequence counts the numbers taken, each was taken by one call, and what *)
(* a request is told is what a call took for it.                           *)
THEOREM NumbersCount == Spec => []NumbersInv
<1>1. TypeOK /\ OneHolder /\ NumbersInv /\ [Next]_vars => TypeOK' /\ OneHolder' /\ NumbersInv'
  BY HolderStep, NumbersStep
<1> QED
  BY HolderInit, NumbersInit, <1>1, PTL DEF Spec

(* Equal numbers are a whole round of LONGs apart.                         *)
THEOREM NumbersDistinct == Spec => []DistinctNumbers
<1>1. TypeOK /\ NumbersInv => DistinctNumbers
  <2> SUFFICES ASSUME TypeOK, NumbersInv, NEW r \in Requests, NEW s \in Requests,
                      r # s, buffer[r] # None, buffer[s] # None, buffer[r] = buffer[s]
               PROVE  \/ toldRank[r] - toldRank[s] >= 2 * LONG_MAX + 2
                      \/ toldRank[s] - toldRank[r] >= 2 * LONG_MAX + 2
    BY DEF DistinctNumbers
  <2>1. /\ toldRank[r] \in Nat /\ toldRank[s] \in Nat /\ toldRank[r] # toldRank[s]
        /\ ToLong(toldRank[r]) = ToLong(toldRank[s])
    BY DEF NumbersInv, TypeOK
  <2>2. CASE toldRank[r] > toldRank[s]
    BY <2>1, <2>2, ToLongWindow
  <2>3. CASE toldRank[s] > toldRank[r]
    BY <2>1, <2>3, ToLongWindow
  <2> QED
    BY <2>1, <2>2, <2>3
<1> QED
  BY <1>1, DeviceTypeCorrect, NumbersCount, PTL

-----------------------------------------------------------------------------
(* Refinement.                                                             *)

(* The device implements the abstract one of Notifications.                *)
THEOREM DeviceNotifies == Spec => RefinesNotifications
<1> DEFINE waiting == {r \in Requests : InQueue(r) \/ Retrieved(r)}
<1>1. Init => Abstract!Init
  <2> SUFFICES ASSUME Init PROVE Abstract!Init
    OBVIOUS
  <2>1. DOMAIN queue = {}
    BY EmptySeq DEF Init
  <2> QED
    BY <2>1, NoneAssumption DEF Init, Abstract!Init, InQueue, Retrieved
<1>2. ASSUME TypeOK, OneHolder, NumbersInv, [Next]_vars
      PROVE  [Abstract!Next]_Abstract!vars
  <2> USE DEF callVars, answerVars, numberVars
  <2>0. OneHolder' /\ TypeOK'
    BY <1>2, HolderStep
  <2>q. /\ \A x \in Requests : InQueue(x) <=> Occurs(queue, x)
        /\ \A x \in Requests : InQueue(x)' <=> Occurs(queue', x)
        /\ Unique(queue) /\ queue \in Seq(Requests)
    BY <1>2, HolderForm DEF InQueue, Occurs, TypeOK
  <2>s. ASSUME UNCHANGED toldRank, \A x \in Requests : x \in waiting' <=> x \in waiting
        PROVE  UNCHANGED Abstract!vars
    BY <2>s DEF Abstract!vars
  <2>1. ASSUME NEW r \in Requests,
               \/ Dispatch(r) \/ AnswerAtOnce(r) \/ SimulateEvent(r) \/ SetDeviceContextData(r)
               \/ TakeNumber(r) \/ CompleteRequest(r)
        PROVE  UNCHANGED Abstract!vars
    <3>1. UNCHANGED <<retrieved, queue, toldRank>>
      BY <2>1 DEF Dispatch, AnswerAtOnce, SimulateEvent, SetDeviceContextData, TakeNumber,
                  CompleteRequest
    <3> QED
      BY <2>s, <3>1 DEF InQueue, Retrieved
  <2>2. ASSUME NEW r \in Requests, ForwardToIoQueue(r)
        PROVE  [Abstract!Next]_Abstract!vars
    <3>1. UNCHANGED <<retrieved, toldRank>> /\ pc[r] = "switch"
      BY <2>2 DEF ForwardToIoQueue
    <3>2. CASE UNCHANGED queue
      BY <2>s, <3>1, <3>2 DEF InQueue, Retrieved
    <3>3. CASE queue' = Append(queue, r)
      <4>1. \A x \in Requests : Occurs(queue', x) <=> Occurs(queue, x) \/ x = r
        BY <2>q, <3>3, AfterAppend
      <4>2. ~InQueue(r) /\ ~Retrieved(r) /\ toldRank[r] = 0
        BY <1>2, <3>1, ToldIsFree DEF OneHolder
      <4>3. Abstract!Ask(r)
        BY <2>q, <3>1, <4>1, <4>2 DEF Abstract!Ask, Retrieved
      <4> QED
        BY <4>3 DEF Abstract!Next
    <3> QED
      BY <2>2, <3>2, <3>3 DEF ForwardToIoQueue
  <2>3. ASSUME NEW r \in Requests, RetrieveNextRequest(r)
        PROVE  UNCHANGED Abstract!vars
    <3>1. CASE queue = <<>>
      BY <2>3, <2>s, <3>1 DEF RetrieveNextRequest, InQueue, Retrieved
    <3>2. CASE queue # <<>>
      <4>1. /\ retrieved' = [retrieved EXCEPT ![r] = Head(queue)] /\ queue' = Tail(queue)
            /\ retrieved[r] = None /\ UNCHANGED toldRank
        BY <1>2, <2>3, <3>2 DEF RetrieveNextRequest, TypeOK
      <4>2. /\ Head(queue) \in Requests /\ Occurs(queue, Head(queue))
            /\ \A x \in Requests : Occurs(queue', x) <=> Occurs(queue, x) /\ x # Head(queue)
        BY <2>q, <3>2, <4>1, AfterTail
      <4>3. \A x \in Requests : Retrieved(x)' <=> Retrieved(x) \/ x = Head(queue)
        BY <1>2, <4>1, <4>2, NoneAssumption DEF Retrieved, TypeOK
      <4> QED
        BY <2>q, <2>s, <4>1, <4>2, <4>3
    <3> QED
      BY <3>1, <3>2
  <2>4. ASSUME NEW r \in Requests, Notify(r)
        PROVE  [Abstract!Next]_Abstract!vars
    <3> DEFINE q == retrieved[r]
    <3>1. /\ pc[r] = "notify"
          /\ retrieved' = [retrieved EXCEPT ![r] = None]
          /\ toldRank' = [toldRank EXCEPT ![q] = callRank[r]]
          /\ UNCHANGED queue
      BY <2>4 DEF Notify
    <3>2. q \in Requests /\ Retrieved(q) /\ ~InQueue(q)
      BY <1>2, <3>1 DEF TypeOK, OneHolder, Retrieved
    <3>3. callRank[r] \in Nat \ {0} /\ \A s \in Requests : toldRank[s] # callRank[r]
      BY <1>2, <3>1 DEF TypeOK, NumbersInv
    <3>4. \A x \in Requests : Retrieved(x)' <=> Retrieved(x) /\ x # q
      <4>1. retrieved'[r] = None /\ \A p \in Requests \ {r} : retrieved'[p] = retrieved[p]
        BY <1>2, <3>1 DEF TypeOK
      <4>2. \A p \in Requests : retrieved[p] = q <=> p = r
        BY <1>2, <3>2 DEF OneHolder
      <4>3. None \notin Requests
        BY NoneAssumption
      <4> HIDE DEF q
      <4>4. ASSUME NEW x \in Requests PROVE Retrieved(x)' <=> Retrieved(x) /\ x # q
        BY <4>1, <4>2, <4>3 DEF Retrieved
      <4> QED
        BY <4>4
    <3>5. \A x \in Requests : InQueue(x)' <=> InQueue(x)
      BY <3>1 DEF InQueue
    <3> HIDE DEF q
    <3>6. toldRank'[q] = callRank[r]
      BY <1>2, <3>1, <3>2 DEF TypeOK
    <3>7. waiting' = waiting \ {q}
      BY <3>2, <3>4, <3>5
    <3>8. Abstract!Tell(q)
      BY <3>1, <3>2, <3>3, <3>6, <3>7 DEF Abstract!Tell
    <3> QED
      BY <3>2, <3>8 DEF Abstract!Next
  <2>5. ASSUME NEW i \in DOMAIN queue, Cancel(i)
        PROVE  [Abstract!Next]_Abstract!vars
    <3> DEFINE c == queue[i]
    <3>1. queue' = Without(queue, i) /\ UNCHANGED <<retrieved, toldRank>>
      BY <2>5 DEF Cancel
    <3>2. /\ c \in Requests /\ Occurs(queue, c)
          /\ \A x \in Requests : Occurs(queue', x) <=> Occurs(queue, x) /\ x # c
      BY <2>q, <3>1, AfterWithout
    <3>3. ~Retrieved(c)
      BY <1>2, <2>q, <3>2 DEF OneHolder
    <3>4. \A x \in Requests : Retrieved(x)' <=> Retrieved(x)
      BY <3>1 DEF Retrieved
    <3> HIDE DEF c
    <3>5. waiting' = waiting \ {c}
      BY <2>q, <3>2, <3>3, <3>4
    <3>6. Abstract!GiveBack(c)
      BY <2>q, <3>1, <3>2, <3>5 DEF Abstract!GiveBack
    <3> QED
      BY <3>2, <3>6 DEF Abstract!Next
  <2>6. CASE UNCHANGED vars
    BY <2>6, <2>s DEF vars, InQueue, Retrieved
  <2> QED
    BY <1>2, <2>1, <2>2, <2>3, <2>4, <2>5, <2>6 DEF Next, EvtIoDeviceControl
<1>3. TypeOK /\ OneHolder /\ NumbersInv /\ [Next]_vars => TypeOK' /\ OneHolder' /\ NumbersInv'
  BY HolderStep, NumbersStep
<1> QED
  BY HolderInit, NumbersInit, <1>1, <1>2, <1>3, PTL DEF Spec, RefinesNotifications, Abstract!Spec
=============================================================================
