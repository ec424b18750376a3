---------------------------- MODULE IoctlDevice ----------------------------
(***************************************************************************)
(* The control device of MyNetworkFilter: EvtIoDeviceControl, which the    *)
(* framework calls for many requests at a time (parallel dispatching), the *)
(* manual queue that holds the requests of an application waiting for a    *)
(* notification, and WfpNotify, which answers them one by one.             *)
(*                                                                         *)
(* A request is known by who holds it: the call that handles it, the       *)
(* notification queue, the call of WfpNotify that retrieved it, or nobody  *)
(* once it is completed. Completing a request somebody else holds, or      *)
(* holding one for ever, are the mistakes a driver can make here.          *)
(*                                                                         *)
(* A definition whose comment begins "Fault:" is a wrong version of the    *)
(* definition after it and is used nowhere.                                *)
(***************************************************************************)
EXTENDS Integers, Sequences, FiniteSets

CONSTANTS
  Requests, \* the requests applications send, each once
  LONG_MAX, \* the largest LONG; the smallest is -LONG_MAX - 1
  None

ASSUME LongAssumption == LONG_MAX \in Nat
ASSUME NoneAssumption == None \notin Requests \cup (-LONG_MAX - 1 .. LONG_MAX)

VARIABLES
  pc,        \* where EvtIoDeviceControl is with each request
  retrieved, \* the request each call's WfpNotify took from the queue
  value,     \* valueToReturn of each call
  queue,     \* devContext->NotificationQueue
  Sequence,  \* devContext->Sequence
  UserModeAppProcessId, \* whose process id the device holds, None for 0
  completed, \* how often each request was completed
  buffer,    \* the number written to each request's output buffer
  given,     \* how many numbers were taken so far
  callRank,  \* which of them each call took and has not written, 0 for none
  toldRank   \* which of them each request was told, 0 for none

(* completed, given, callRank and toldRank are not in the code: the        *)
(* properties speak of what happened.                                      *)
callVars == <<pc, retrieved, value>>
answerVars == <<completed, buffer>>
numberVars == <<Sequence, given, callRank, toldRank>>
vars == <<callVars, queue, UserModeAppProcessId, answerVars, numberVars>>

CallStates == {"unsent", "switch", "retrieve", "number", "notify", "complete", "returned"}
Longs == -LONG_MAX - 1 .. LONG_MAX

(* Fault: the counter stops at the largest LONG.                           *)
ToLongStops(n) == IF n > LONG_MAX THEN LONG_MAX ELSE n

(* What an addition of LONGs leaves of the integer n.                      *)
ToLong(n) == ((n + LONG_MAX + 1) % (2 * LONG_MAX + 2)) - LONG_MAX - 1

Init ==
  /\ pc = [r \in Requests |-> "unsent"]
  /\ retrieved = [r \in Requests |-> None]
  /\ value = [r \in Requests |-> None]
  /\ queue = <<>>
  /\ Sequence = ToLong(1)
  /\ UserModeAppProcessId = None
  /\ completed = [r \in Requests |-> 0]
  /\ buffer = [r \in Requests |-> None]
  /\ given = 0
  /\ callRank = [r \in Requests |-> 0]
  /\ toldRank = [r \in Requests |-> 0]

-----------------------------------------------------------------------------
(* s without its i-th element.                                             *)
Without(s, i) == [j \in 1 .. Len(s) - 1 |-> s[IF j < i THEN j ELSE j + 1]]

Goto(r, s) == pc' = [pc EXCEPT ![r] = s]

(* The end of EvtIoDeviceControl: WdfRequestCompleteWithInformation.       *)
WdfRequestComplete(r) == completed' = [completed EXCEPT ![r] = @ + 1]

(* An application sends r and the default queue presents it.               *)
Dispatch(r) ==
  /\ pc[r] = "unsent"
  /\ Goto(r, "switch")
  /\ UNCHANGED <<retrieved, value, queue, UserModeAppProcessId, answerVars, numberVars>>

(* IOCTL_WFP_NOTIFICATION that brings data, or has no room for a number,   *)
(* and an unknown control code: completed at once.                         *)
AnswerAtOnce(r) ==
  /\ pc[r] = "switch"
  /\ Goto(r, "complete")
  /\ UNCHANGED <<retrieved, value, queue, UserModeAppProcessId, answerVars, numberVars>>

(* Fault: the call goes on to complete a request it has forwarded.         *)
ForwardAndComplete(r) ==
  /\ pc[r] = "switch"
  /\ queue' = Append(queue, r) /\ Goto(r, "complete")
  /\ UNCHANGED <<retrieved, value, UserModeAppProcessId, answerVars, numberVars>>

(* IOCTL_WFP_NOTIFICATION with room for a number: the request goes to the  *)
(* notification queue and the call returns without it, or the queue does   *)
(* not take it and the call completes it with the error.                   *)
ForwardToIoQueue(r) ==
  /\ pc[r] = "switch"
  /\ \/ queue' = Append(queue, r) /\ Goto(r, "returned")
     \/ UNCHANGED queue /\ Goto(r, "complete")
  /\ UNCHANGED <<retrieved, value, UserModeAppProcessId, answerVars, numberVars>>

(* IOCTL_WFP_SIMULATE_EVENT calls WfpNotify.                               *)
SimulateEvent(r) ==
  /\ pc[r] = "switch"
  /\ Goto(r, "retrieve")
  /\ UNCHANGED <<retrieved, value, queue, UserModeAppProcessId, answerVars, numberVars>>

(* IOCTL_WFP_SET_DEVICE_CONTEXT_DATA with a whole input buffer; a short    *)
(* one is answered at once.                                                *)
SetDeviceContextData(r) ==
  /\ pc[r] = "switch"
  /\ UserModeAppProcessId' = r
  /\ Goto(r, "complete")
  /\ UNCHANGED <<retrieved, value, queue, answerVars, numberVars>>

(* Fault: the request is looked at and left in the queue.                  *)
FindRequest(r) ==
  /\ pc[r] = "retrieve"
  /\ IF queue = <<>>
     THEN Goto(r, "complete") /\ UNCHANGED retrieved
     ELSE /\ retrieved' = [retrieved EXCEPT ![r] = Head(queue)]
          /\ Goto(r, "number")
  /\ UNCHANGED <<queue, value, UserModeAppProcessId, answerVars, numberVars>>

(* Fault: the event waits until a request is there.                        *)
RetrieveWaits(r) ==
  /\ pc[r] = "retrieve"
  /\ queue # <<>>
  /\ retrieved' = [retrieved EXCEPT ![r] = Head(queue)]
  /\ queue' = Tail(queue)
  /\ Goto(r, "number")
  /\ UNCHANGED <<value, UserModeAppProcessId, answerVars, numberVars>>

(* WfpNotify takes the oldest request out of the queue; with none there it *)
(* returns, and the event is lost.                                         *)
RetrieveNextRequest(r) ==
  /\ pc[r] = "retrieve"
  /\ IF queue = <<>>
     THEN Goto(r, "complete") /\ UNCHANGED <<queue, retrieved>>
     ELSE /\ retrieved' = [retrieved EXCEPT ![r] = Head(queue)]
          /\ queue' = Tail(queue)
          /\ Goto(r, "number")
  /\ UNCHANGED <<value, UserModeAppProcessId, answerVars, numberVars>>

(* Fault: a plain increment, lost when two calls overlap.                  *)
TakeNumberPlain(r) ==
  /\ pc[r] = "number"
  /\ value' = [value EXCEPT ![r] = Sequence]
  /\ \/ Sequence' = ToLong(Sequence + 1)
     \/ (\E q \in Requests \ {r} : pc[q] = "number") /\ UNCHANGED Sequence
  /\ given' = given + 1
  /\ callRank' = [callRank EXCEPT ![r] = given + 1]
  /\ Goto(r, "notify")
  /\ UNCHANGED <<retrieved, queue, UserModeAppProcessId, answerVars, toldRank>>

(* Fault: the counter is wider than the number it yields.                  *)
TakeNumberWide(r) ==
  /\ pc[r] = "number"
  /\ value' = [value EXCEPT ![r] = Sequence]
  /\ Sequence' = Sequence + 1
  /\ given' = given + 1
  /\ callRank' = [callRank EXCEPT ![r] = given + 1]
  /\ Goto(r, "notify")
  /\ UNCHANGED <<retrieved, queue, UserModeAppProcessId, answerVars, toldRank>>

(* InterlockedExchangeAdd: a call that retrieved a later request may have  *)
(* taken its number before.                                                *)
TakeNumber(r) ==
  /\ pc[r] = "number"
  /\ value' = [value EXCEPT ![r] = Sequence]
  /\ Sequence' = ToLong(Sequence + 1)
  /\ given' = given + 1
  /\ callRank' = [callRank EXCEPT ![r] = given + 1]
  /\ Goto(r, "notify")
  /\ UNCHANGED <<retrieved, queue, UserModeAppProcessId, answerVars, toldRank>>

(* Fault: the request is completed with no bytes of output.                *)
NotifyEmpty(r) ==
  /\ pc[r] = "notify"
  /\ callRank' = [callRank EXCEPT ![r] = 0]
  /\ WdfRequestComplete(retrieved[r])
  /\ retrieved' = [retrieved EXCEPT ![r] = None]
  /\ value' = [value EXCEPT ![r] = None]
  /\ Goto(r, "complete")
  /\ UNCHANGED <<queue, UserModeAppProcessId, buffer, Sequence, given, toldRank>>

(* WfpNotify completes the retrieved request with the number.              *)
Notify(r) ==
  LET q == retrieved[r] IN
  /\ pc[r] = "notify"
  /\ buffer' = [buffer EXCEPT ![q] = value[r]]
  /\ callRank' = [callRank EXCEPT ![r] = 0]
  /\ toldRank' = [toldRank EXCEPT ![q] = callRank[r]]
  /\ WdfRequestComplete(q)
  /\ retrieved' = [retrieved EXCEPT ![r] = None]
  /\ value' = [value EXCEPT ![r] = None]
  /\ Goto(r, "complete")
  /\ UNCHANGED <<queue, UserModeAppProcessId, Sequence, given>>

CompleteRequest(r) ==
  /\ pc[r] = "complete"
  /\ WdfRequestComplete(r)
  /\ Goto(r, "returned")
  /\ UNCHANGED <<retrieved, value, queue, UserModeAppProcessId, buffer, numberVars>>

EvtIoDeviceControl(r) ==
  \/ AnswerAtOnce(r) \/ ForwardToIoQueue(r) \/ SimulateEvent(r) \/ SetDeviceContextData(r)
  \/ RetrieveNextRequest(r) \/ TakeNumber(r) \/ Notify(r) \/ CompleteRequest(r)

(* The application takes a waiting request back, or closes its handle: the *)
(* framework removes the request from the queue and completes it. A        *)
(* request that was retrieved cannot be cancelled.                         *)
Cancel(i) ==
  /\ queue' = Without(queue, i)
  /\ WdfRequestComplete(queue[i])
  /\ UNCHANGED <<callVars, UserModeAppProcessId, buffer, numberVars>>

Next ==
  \/ \E r \in Requests : Dispatch(r) \/ EvtIoDeviceControl(r)
  \/ \E i \in DOMAIN queue : Cancel(i)

Spec == Init /\ [][Next]_vars

(* The system runs every call it has begun. Nothing obliges an application *)
(* to send an event, or to cancel.                                         *)
FairSpec == Spec /\ \A r \in Requests : WF_vars(EvtIoDeviceControl(r))

-----------------------------------------------------------------------------
(* Properties.                                                             *)

(* Types, and what a call holds at each point of WfpNotify.                *)
TypeOK ==
  /\ pc \in [Requests -> CallStates]
  /\ retrieved \in [Requests -> Requests \cup {None}]
  /\ value \in [Requests -> Longs \cup {None}]
  /\ \A r \in Requests :
       /\ retrieved[r] # None <=> pc[r] \in {"number", "notify"}
       /\ value[r] # None <=> pc[r] = "notify"
  /\ queue \in Seq(Requests)
  /\ Sequence \in Longs
  /\ UserModeAppProcessId \in Requests \cup {None}
  /\ completed \in [Requests -> Nat]
  /\ buffer \in [Requests -> Longs \cup {None}]
  /\ given \in Nat
  /\ callRank \in [Requests -> Nat]
  /\ toldRank \in [Requests -> Nat]

(* The places a request can be at besides its own call.                    *)
InQueue(r) == \E i \in DOMAIN queue : queue[i] = r
Retrieved(r) == \E q \in Requests : retrieved[q] = r

(* A request that was sent is at exactly one place -- with its own call,   *)
(* once in the queue, with one WfpNotify, or completed, once. Nobody       *)
(* completes a request another holds, and none is forgotten.               *)
OneHolder ==
  \A r \in Requests :
    /\ completed[r] = IF pc[r] = "returned" /\ ~InQueue(r) /\ ~Retrieved(r) THEN 1 ELSE 0
    /\ InQueue(r) \/ Retrieved(r) => pc[r] = "returned" /\ ~(InQueue(r) /\ Retrieved(r))
    /\ \A i, j \in DOMAIN queue : queue[i] = r /\ queue[j] = r => i = j
    /\ \A p, q \in Requests : retrieved[p] = r /\ retrieved[q] = r => p = q

(* Two requests are told the same number only if all LONGs were given in   *)
(* between.                                                                *)
DistinctNumbers ==
  \A r, s \in Requests :
    r # s /\ buffer[r] # None /\ buffer[s] # None /\ buffer[r] = buffer[s] =>
      toldRank[r] - toldRank[s] >= 2 * LONG_MAX + 2
        \/ toldRank[s] - toldRank[r] >= 2 * LONG_MAX + 2

(* The inductive form of DistinctNumbers: Sequence is what is left of the  *)
(* count of numbers taken, each number was taken once, and the one in a    *)
(* request's buffer is the one a call took for it.                         *)
NumbersInv ==
  /\ Sequence = ToLong(given + 1)
  /\ \A r \in Requests :
       /\ callRank[r] <= given /\ toldRank[r] <= given
       /\ callRank[r] # 0 <=> pc[r] = "notify"
       /\ callRank[r] # 0 => value[r] = ToLong(callRank[r])
       /\ toldRank[r] # 0 <=> buffer[r] # None
       /\ toldRank[r] # 0 => buffer[r] = ToLong(toldRank[r]) /\ completed[r] = 1
       /\ \A s \in Requests :
            /\ callRank[r] # 0 => callRank[r] # toldRank[s]
            /\ r # s /\ callRank[r] # 0 => callRank[r] # callRank[s]
            /\ r # s /\ toldRank[r] # 0 => toldRank[r] # toldRank[s]

(* Every call ends: the request it was called for is completed, waits in   *)
(* the queue, or was handed to a call of WfpNotify.                        *)
CallsReturn == \A r \in Requests : (pc[r] = "switch") ~> (pc[r] = "returned")

(* A request that an event has taken out of the queue is told its number.  *)
RetrievedIsTold ==
  \A r \in Requests : Retrieved(r) ~> (completed[r] = 1 /\ buffer[r] # None)

(* To the applications that wait for notifications the device is the       *)
(* abstract one of Notifications.                                          *)
Abstract == INSTANCE Notifications WITH
  waiting <- {r \in Requests : InQueue(r) \/ Retrieved(r)}, told <- toldRank

RefinesNotifications == Abstract!Spec
=============================================================================
