# A verification of MdProxyService and MyNetworkFilter

The program redirects every outgoing TCP connection of a Windows machine through
a local proxy. A kernel driver (`MyNetworkFilter`) rewrites the destination of
each connection at the connect-redirect layer of the Windows Filtering Platform;
a user-mode service (`MdProxyService`) accepts the redirected connections, asks
for the original destination, connects there, and forwards bytes both ways with
overlapped I/O and one completion port.

The repository has no tests and no design documents. What the program promises
is taken from its code and from the comments in it.

## Inventory

| Part | State | Operations | Talks to |
|---|---|---|---|
| Accept thread (`MdProxyService.cpp` 291-420) | the two `shared_ptr` locals of `AcceptConnection` | accept, make the pair, link it, associate it with the port, list it, post the two first receives, error exit | list, contexts, port, shutdown event |
| Worker pool (`IODataHandling.cpp`) | `pClientContext` of the iteration, the packet taken | wait, dereference the key, dispatch, forward, receive again, remove, drop | port, list, contexts |
| Socket contexts (`SocketContext.*`) | socket, one receive and one send `OVERLAPPED` with their buffers, strong or weak pointer to the buddy | `Recv`, `Send`, `Forward`, `SetBuddySocketContext`, destructor | kernel, buddy |
| Client list (`MdProxyService.cpp` 626-685) | `g_ClientContext` under `g_csClientList` | add, remove, clean | owns contexts |
| Shutdown (`MdProxyService.cpp` 131-153, 237-289) | shutdown event, thread handles | key press, join, null packets, clean, delete, the error exit of main | all of the above |
| Remote connection set-up (`MdProxyService.cpp` 424-568) | three heap buffers | query redirect records and original destination, connect | driver (through WFP), network |
| Service start-up (`MdProxyService.cpp` 34-135, 155-235) | critical sections, event, port, threads | `Initialize`, `InitializeIOCP`, error exits | |
| Registration (`KernelCommunicator.cpp`) | none | send the process id to the driver | device control queue |
| Device control queue (`ioctl.c`) | registered process id, sequence number, queue of waiting requests | set process id, wait for an event, simulate an event | service |
| Connect redirection (`wfp.c` 48-255) | classify handle, redirect handle, writable layer data | `ClassifyCallback` | registration, proxy |
| WFP registration (`wfp.c` 20-43, 287-457) | engine, callout, sublayer and filter ids | `InitializeWfp`, `UnInitializeWfp` | driver entry |
| Driver entry and unload (`wfp_driver_src.c`) | device object | `DriverEntry`, `DriverUnload` | WFP registration, queue |

What is hard, and what makes each part correct:

* **Contexts and list.** A context is shared by the list, the accept thread, any
  worker handling one of its packets, and its buddy. Every thread lets go at its
  own time, so the questions are who lets go last, whether anybody still can
  (`NoLeak`, `ConnectionReclaimed`, `AllReleasedAtExit`), and whether the pointers
  that remain are good (`OwnershipInv`, `NullBuddyOnlyFromProxy`).
* **Operations.** A context embeds one `OVERLAPPED` and one buffer for receives.
  There must be exactly one receive on it while it is listed: two would share
  the buffer, none would leave the connection deaf (`OneReceivePerContext`,
  `ListedHasReceive`, `GoneIsDelisted`). All sends of a context share one other
  `OVERLAPPED`, with the byte that says what kind of operation it is: a worker may read
  that byte while another one refills it (`SendsKeepTheirType`).
* **Set-up against traffic.** The first receive of the client side completes on
  a worker while the accept thread is still posting the one of the server side,
  or taking the pair apart because that failed.
* **Completion keys.** `AssociateWithIOCP` passes the address of its by-value
  parameter as the key; a worker dereferences it long after.
* **Forwarding.** Bytes must come out in order and unchanged although receives
  complete on different threads and one send buffer serves all sends
  (`RefinesByteChannel`, `ForwardsEverything`), and to the other end of the same
  connection, once (`RefinesConnectionRelay`).
* **Start and shutdown.** Main waits without a limit for threads that may be blocked
  without a limit (`EnoughQuits`, `ShutdownCompletes`), and deletes what they use
  (`WorkersGoneBeforeCleanup`, `DeInitializeIsLast`), on its error exits as well, where
  workers run and nobody joins them. `CreateThread` may have failed.
* **Handle values.** The error exit of `AcceptConnection` closes the accepted socket
  by handle and the context's destructor closes the same value again, which may be
  another connection's by then (`StaleHandleInWorkerOnly`).
* **Requests.** The device's calls run in parallel. A request must be completed
  once, by whoever holds it, and told a number of its own (`OneHolder`,
  `DistinctNumbers`, `RetrievedIsTold`).
* **Loading and unloading.** Any step may fail and what is there has to be undone;
  filter, callout and sublayer outlive the driver if it is not (`NothingLeft`,
  `FilterBacked`, `UnloadEnds`).
* **Redirection.** The callback decides from a process id it read before, while
  instances of the service come and go, and may be asked about one connection
  twice (`NoLoop`, `OriginKept`, `HandlesReleased`, `Settles`). Taken together: an
  application is connected once and where it asked to be (`RefinesRedirection`).

PROJECT.json lists each hazard at its line.

## Modules

| Module | What it is |
|---|---|
| `ProxyRelay` | accept thread, workers, contexts, list, port and shutdown |
| `MCProxyRelay` | the symmetry set and the bounds after a misread type, for TLC |
| `ProxyRelayProofs` | types, ownership, shutdown order and release at exit, for all constants |
| `ProxyRelayReceiveProofs` | what alone can bring a context a second receive or none, and enough null packets |
| `ConnectionRelay` | what the proxy promises each connection: a chunk goes on once, to the other end, or is the last of its direction |
| `ProxyRelayRefinementProofs` | `ProxyRelay` implements `ConnectionRelay`, for all constants |
| `ByteChannel` | what forwarding promises: the destination gets a growing prefix of what the source sent, in the end all of it |
| `ForwardStream` | one direction of one pair with the bytes in its two buffers; implements `ByteChannel` |
| `MCForwardStream` | streams for TLC |
| `ForwardStreamProofs` | types, the stream invariant, the overrun and the refinement, for all constants |
| `Notifications` | what the device promises an application that waits to be notified |
| `IoctlDevice` | the control device: parallel calls, the manual queue, the sequence number; implements `Notifications` |
| `MCIoctlDevice` | the bound on the kinds of request, for TLC |
| `IoctlDeviceProofs` | one holder for each request, distinct numbers and the refinement, for all constants |
| `DriverLoad` | loading and unloading the driver |
| `DriverLoadProofs` | lemmas about the steps of loading |
| `Interception` | extends `DriverLoad`: the callout, connections, service processes and their registration |
| `MCInterception` | the module TLC runs |
| `InterceptionProofs` | the safety properties of `DriverLoad` and `Interception`, for all constants |
| `Redirection` | what redirection promises an application: connected once, where it asked to be, or not at all |
| `InterceptionRefinementProofs` | `Interception` implements `Redirection`, for all constants |

### ProxyRelay and the code

`apc`, `wpc` and `main` are the program counters of the three kinds of thread; a
value names what the thread does next. `aconn` and `ahold` are the connection
`AcceptConnection` works on and the contexts its two locals own; `wpkt[w]` is the
packet a worker has dequeued and `wctx[w]` its `pClientContext`; `wfwd[w]` is the buddy
that the pointer returned by `GetBuddySocketContext` keeps alive during its `Send`.
`list` is `g_ClientContext`. For each context `life` says whether it exists, `link` which
of `_strong` and `_weak` is set, `sock` the state of its socket and `handle` the value
of its handle. A value is named by the context that had it first; a new socket gets
its own, or one that was closed while its context lives on. Values that no live
context remembers are no different from new ones. `pending` counts, for each
`OVERLAPPED`, operations the kernel holds, and `port` the packets queued.

`main` begins before `Initialize`. A thread that does not exist yet, or could not be
made (`ThreadsFail`), is `off`. After `DeInitialize` (`main` is `closing`) every step of
another thread is one of two: a worker that has never taken a packet finds the port
closed and a null `lpContext` and returns (`PortClosed`), since a call of
`GetQueuedCompletionStatus` that dequeues nothing leaves `lpContext` alone; any other
goes on to a critical section that was deleted (`UseDeleted`). That is why the error
exit of main, which does not wait for the workers it started, is harmless: no
connection has been accepted there.

Reference counts are not counters here: a context is owned by the list, by a
thread's local, or by a live buddy with a strong pointer, so the count is the
number of owners, and `Release` destroys what has none, the buddy that only the
destroyed context owned included.

Each action is a stretch of code with no access to shared state in the middle
that another thread could tell apart:

* The lookup of the buddy in `Forward` and the lookup in the call of `Send` are
  two actions, because the weak pointer may expire in between. `Send` itself is two
  more: it zeroes `m_IoSend` and fills it in (`Send`, after which the worker is at
  `fill`), and it calls `WSASend` (`PostSend`); when it returns, `Forward`'s pointer to the
  buddy goes (`EndForward`).
* A worker copies the pointer behind the completion key and reads `IoType` in one
  action, `ReadKey`, at the time of the second read. With a key that yields the packet's
  own context the first read only keeps that context alive from a little earlier on,
  which a worker that is in its `Send` does as well.
* Removal from the list and the end of the iteration are two actions; the end of
  the iteration and the next test of the shutdown event are one, as are the end
  of `AcceptConnection` and the next test in `AcceptThread`. A thread that tests
  an earlier value of the event is a thread that ended its iteration earlier.
* Linking the pair and associating it is one action: nothing else can reach the
  pair yet. So is listing both contexts.

**The type of an operation.** `OP_READ` is 0, and `Send` zeroes `m_IoSend`, `IoType`
included, before it stores `OP_WRITE`. While a worker is at `fill` for a context (`Filling`),
another one that looks at the completion of an earlier send of that context may read
either value (`IoTypes`), and with `OP_READ` goes on to `Forward` and to a second `Recv`.
`mistyped` remembers the connections this happened to, as `crossed` remembers those with
a packet handled on another context; both are history, and `Spoiled` is their union.
`Recv` zeroes its own `OVERLAPPED` too, but 0 is what `IoType` is to be there. Two workers in
`Recv` or in `Send` for one context at the same time write the same `OVERLAPPED` and buffer
description; `PostOrTear` lets the call that reads it half zeroed (`Torn`) complete like a
closed connection, which is what an operation on no bytes does. That the accept
thread's first `Recv` might be torn too is not modelled: no completion has brought a
worker to that context yet, unless a key of another one did. What a packet in the
port says of its operation (bytes, success) is the port's and not read from the zeroed
`OVERLAPPED`.

The kernel and the network are the environment. An operation may be refused when
posted; one that was accepted completes with data (`DataArrives`), completes as
sent (`SendCompletes`), or fails once the far end is gone or the socket was closed
(`OperationFails`). `CancelIoEx` only asks, so a cancelled operation stays with the
kernel until `OperationFails`, after the destructor perhaps. The port is a bag, not
a queue: any packet may come next, a superset of first-in first-out.

**Undefined behaviour.** Some steps of the code have no defined outcome: reading
a completion key whose stack slot no longer holds a pointer (`staleKey`), copying
a pointer to a destroyed context or reading a destroyed `OVERLAPPED`
(`deadContext`), calling `Send` on an expired buddy (`nullBuddy`), and entering a deleted
critical section (`deletedLock`). Using a handle value that has become another
connection's (`staleHandle`) is defined, but not what this code means. The model
records which and stops there: no property says anything about what follows.
What a dead stack slot may yield is the constant `SlotReads`: the packet's own
context, another context that was passed through the same slot, or anything
else. `own` is what the code's author relies on and the most favourable reading;
the ownership results hold for all three.

`ConnectionRelay` is the promise to the connections, without threads, packets or
pointers: an end is made, lives and dies; the direction that reads from it is new,
reading, holding a chunk, or ended; a chunk is passed on to the other end of the same
connection, once, or is the last of its direction; and a server's end is not closed
under its client. `Close` takes a set of ends because one release may destroy a pair,
and `CleanUp` many. The refinement mapping is `end <- life`, `sends <-` the sends the
kernel holds for a context, `direction <- Direction`: a direction holds a chunk while a
successful receive is in the port (`HoldsChunk`) or a worker has it (`Carrying`), it reads
while a receive is with the kernel or a worker is about to post the next one
(`Rearming`), it is new until its first receive is posted (`BeforeFirstReceive`), and has
ended when none of this holds. That a context has one receive is what makes the
cases exclude each other. On a connection where that is lost, because a worker took
another context's pointer or misread a type, nothing is promised of what is read and
sent any more (`Stray`); its ends still live in turn, and no other connection is
touched. `spoiled <- Spoiled`. The bytes are `ForwardStream`'s subject.

On the error exit of main after `bind` or `listen` failed, `closesocket(ListenSocket)` is
called twice (lines 90 or 102, and 150); `SetUpFails` does not show it. The second
call would close whatever has got the value by then; no other thread of this program
makes a handle at that point.

### ForwardStream and the code

The module follows one direction of one pair: `recvBuf` is the `m_IoRecv.buffer` of
the context the data come in on, `sendBuf` the `m_IoSend.buffer` of its buddy,
`posted` and `port` the receive with the kernel and its packet, `kernel` the
sends the stack has not finished, `delivered` what the destination has got. A byte
is a number, 0 the byte that ends a C string. `Strcpy` is what `strcpy` into a
zeroed buffer leaves there; `SendOverruns` is its undefined case, a source with no
zero. A send remembers the bytes it was given and whether the stack copied them
(`keep` FALSE) or goes on reading `sendBuf` (`keep` TRUE); `WSASend` allows both until
the send completes. The field `from` of a chunk is history: the code knows only
the length.

Completions of sends end with the sends here: their dispatch, and that one may be
taken for a receive, are `ProxyRelay`'s subject. An overrun of `strcpy` (`undef`) counts as
a break of the channel, so the refinement does not see it; `OverrunsOnFullChunk` says
when alone it can happen. With a zero in a chunk, `Strcpy` yields zeros for the bytes
after it: that is plain from the definition, and the runs and theorems about the
channel are for streams without one.

Failures of `Forward`, `Send` and `Recv` end in `open` FALSE: the worker gives the
context up and posts nothing any more, while sends already accepted may still go
out. The life of the contexts, and who frees them, is `ProxyRelay`'s subject and is
left out here. That there is one receive at a time is not assumed: it is counted,
and part of `StreamInv`.

`ByteChannel` is the promise: `out` is always a prefix of `Input`, grows by at least a
byte, and reaches the end unless the connection breaks. The refinement mapping is
`out <- delivered, open <- open /\ ~undef`.

### IoctlDevice and the code

A request `r` stands for the call of `EvtIoDeviceControl` that handles it as well:
`pc[r]` is where that call is, `retrieved[r]` and `value[r]` are the `notifyRequest` and
`valueToReturn` of its `WfpNotify`. A simulated event is a request too. Retrieving,
taking the number and completing are three steps, so two events may take their
numbers in the opposite order of their requests; that is why `DistinctNumbers` and
not an order is stated. The failures of `WdfRequestRetrieveOutputBuffer` (line 25) and
`WdfRequestRetrieveInputBuffer` (lines 86 and 134) are left out, since they cannot
happen: they fail for a buffer shorter than the length asked for, a request is
forwarded only with room for a `LONG`, and the input is retrieved only after its
length was compared (lines 80 and 128). `LONG_MAX` is a constant, and
`ToLong` wraps. `completed`, `given`, `callRank` and `toldRank` are history.

The refinement mapping is `waiting <-` requests in the queue or with a `WfpNotify`,
`told <- toldRank`: the abstract number is the rank of the number taken, that is, the
number before `LONG` wraps it.

### DriverLoad, Interception and the code

`DriverLoad` is the sequence of `DriverEntry` with every step failing or not, and that
of `UnInitializeWfp`, which runs on unload, and after a failure of `InitializeWfp`.
`objects` is what the base filtering engine holds; it outlives the driver, since the
session is not dynamic. An object left from an earlier load makes the engine refuse
a second one of its key. The engine may refuse a delete at most `MaxRefused` times;
that callout and sublayer cannot be deleted under a filter is not counted.

`Interception` adds the connections. `<<a, 0>>` is the one application `a` makes to port
80, `<<a, n + 1>>` the one the service makes for `<<a, n>>`; both match the filter.
`at` is where a connection is: in the callback (each call of the platform is an
action of `ClassifyCallback`, the release of each of the two handles included),
classified, or settled.
`seen` is the process id the callback read when it began. `modified` remembers which
load's filter modified the connection, which is what the chain of previous versions
tells; `context` is the sockaddr the callback attached. `svc` is where the main of each
instance is and `lost` which running instances are no longer registered.

`Redirection` is the promise to an application: its journey is under way, then has
arrived or failed, for good, at no destination but its own; each proxy it passes
after the first is paid for by a displacement. The refinement mapping takes the
journey from the hops of the application (`Journey`: under way while one of them is
`Underway`), `reached <-` the destinations of those that were made directly,
`proxy <- acceptor`, `displaced <- lost`.

What is not in `src/` is external, and the weakest that the code relies on:

* Unregistering the callout waits for the callbacks that run; the driver is not
  unloaded while a process has its device open.
* What `FwpsQueryConnectionRedirectState0` answers is open for a connection that was
  modified or carries redirect records, and "not redirected" for a fresh one. The
  proxy's protection against loops rests on nothing but its process id in this
  model.
* A connection that leaves the callback without being modified goes where it
  was going. The exits that set no `actionType` are treated alike.
* Only an application's connection can come from port 1598: the proxy's own
  sockets are not bound.
* The allocation of the context (`HLPR_NEW_ARRAY`) and the conversion of the proxy's
  address end: in `Modify` either may lead to the callback's exit with nothing applied.
* `localRedirectContextSize` is twice the size of a pointer, not of the storage; a
  `sockaddr_in` fits in that, and no more.
* A process id is not reused.

## Runs

| Run | Instance | Question |
|---|---|---|
| `RelayOwn` | 1 connection, 2 workers, 1 send ahead, keys `own`, types misread once | leaks, receives, shutdown order, release at exit, nothing after `DeInitialize`, expired buddies; does the proxy implement `ConnectionRelay`? |
| `RelayTwo` | 2 connections, 2 workers, threads that may fail, every kind of key, no data | set-up of one pair against the end of another: ownership, which does not depend on the keys, and reused handle values |
| `RelayLive` | 1 connection, 1 worker, threads, port and kernel fair | is a dead connection delisted, and then freed? does a key press, or an error of main, end the process? |
| `RelayDestructor` | 1 connection, 2 workers | finding: cancelled operations outlive the destructor |
| `RelayKey` | keys `own` and `other` | finding: a packet is handled on the other context |
| `RelayNullHandle` | 2 workers, either of which may not have been made | finding: the join fails on a null handle and is ignored |
| `RelayIoType` | 2 workers, types misread | finding: a send is taken for a receive |
| `StreamText` | 5 bytes, none zero, 2 workers, chunks of 1 to 3 in a buffer of 3, sends copied or kept, no data while one is kept, fair | does forwarding implement the channel: everything arrives, unchanged, in order, unless the connection breaks? when does `strcpy` leave its buffer? |
| `StreamOverlap` | data also arrives while a send is kept | finding: bytes of one chunk replaced by the next |
| `Ioctl` | 3 events and 3 other requests, numbers -1 and 0, fair | one holder and one answer for each request, distinct numbers, does every call return, does the device implement `Notifications`? |
| `Interception` | 1 application, 1 further hop, 2 instances, 2 loads, 1 refused delete, fair | loops, destinations, handles, what loading leaves behind, does everything settle, and does it all implement `Redirection`? |
| `SecondInstance` | 2 instances, 1 load | finding: a second instance takes the registration away, and the check of the process id passes the proxy's own connection |

**Bounds.** `Connections` and `Workers` are the only sets. A pair of contexts never
touches another pair but through the list, the keys and the workers' attention,
so two connections show every sharing; a context is disputed by the accept
thread and two workers at most at a time in any of the counterexamples the
mutants give. `MaxSends` stops data from arriving while that many sends of one
context are with the kernel or in the port. A packet that a worker has taken is in
neither, so with 1 the next send of a context is filled in while the previous one's
completion is looked at, which is the case of the misread type. After one misreading
`RelayOwn` explores what the two workers do to the connection while its ends stay, nobody
stops the process, no further data arrives and no second type is misread
(`QuietAfterMistake`, `OneMistake`); each misreading posts one more send and one more
receive, so without a bound there would be no end of them. The proofs have none of
these bounds. `RelayTwo` takes 0: its contexts get only the
failures of their receives, which is what removal and release are about; that no
data goes through a handle that became another socket's is left to the proof of
`StaleHandles`. `ThreadsFail` is FALSE where a property rests on the join, TRUE in
`RelayTwo` and in `RelayNullHandle`, which is about it. `RelayLive` has one worker, so it shows
progress and not what two workers at once can do: that is `RelayOwn`. `MaximumWaitObjects`
is 64: more workers than that take more processors than a 32-bit Windows, for which
alone the cast of `lpContext` to `LPDWORD` is right, has, so a run that exceeds it would say
little of this program; the theorems name it as a condition. Workers are symmetric in the
safety runs; no symmetry is used where liveness is checked. A finished process,
or one past an undefined step, stutters, so deadlock checking stays on and means
something: the process never stops otherwise.

**Fairness.** `ThreadFairness` is the scheduler: a thread that can run does. It
forces neither a key press nor a connection, nor that main gets past its start.
`PortFairness` adds that the port is first-in first-out, so that an `OVERLAPPED` with a
packet in it is not passed over for ever (strong fairness for each `OVERLAPPED`, since
another worker may be quicker), that the kernel completes what can be completed, and
that it reports the failure of a receive on a connection that is gone. No fairness
makes the far end send or leave.

In `ForwardStream` five different bytes make every loss, repetition and exchange
visible; chunks of 1 to 3 in a buffer of 3 leave room for a terminating zero or do
not, and where they do not the copy is undefined (`SendOverruns`) and the channel
counts as broken. `MaxSends` is the number of unfinished sends at which the source
pauses; three let a send be given while two are outstanding. `Overlap` says whether
data may arrive while the stack still reads the buffer of an earlier send
(`Settled` says it does not): with FALSE the source waits for a kept send, while
copied sends may pile up. `Fairness` there says that threads run, that
the stack transmits, and that the source sends what it has: without the last,
"everything arrives" would not be a question.

In `Ioctl` up to three requests wait while three events overlap, or do anything else.
`LONG_MAX` is 0, so there are two numbers, -1 and 0, and the third event's is the first
one's again: the cycle is completed within the run and a number told twice.
`KindsInOrder` says which requests are events, and that those of a kind are sent in the
order of their names, which is no restriction, since nothing else tells them apart.
An application need not send anything, so a run may stop. The fairness is that the system runs a call it has
begun.

In `Interception` the second load meets what the first left, and the second instance
the first one's registration; a third of either adds no new pairing of old and new.
The loop is one hop: `<<a, 1>>` sent back to the proxy. `FairSpec` says that callbacks run
on, that the platform makes what was classified, and that an unload that has begun is
carried out. Nobody has to connect, to register or to unload.

## Theorems

`ProxyRelayProofs` and `ProxyRelayReceiveProofs` hold for any number of
connections and workers, from the assumptions in `ProxyRelay` alone (`Workers` is
finite and not empty, `None` is not a context, the bounds are naturals).

* `TypeCorrect` is inductive as it stands, because `TypeOK` ties each thread's
  pointers to its program counter.
* `Ownership`. `NoLeak` alone is not inductive. It needs that shared pointers go
  to live contexts (`HeldAreLive`), that a pair is linked strongly from local to
  proxy and weakly back, and that a live, linked local has a live proxy
  (`LinkShape`), which contexts the accept thread holds at each point
  (`AcceptHolds`), the order in which contexts are made (`LifeShape`), and that
  operations belong to contexts that were made (`IoOfMade`). `ReleaseKeeps` is the
  lemma all of it turns on: what a release leaves alive is still owned. The
  theorem makes no assumption on the keys.
* `NoContextLeaks` and `NullBuddyFromProxy` follow: the second uses that a held
  local keeps its proxy alive, so only the weak direction can expire.
* `CleanupRunsAlone`, `NothingAfterDeInitialize` and `ExitReleasesAll` assume what `JoinWorkers`
  needs, no more workers than `MaximumWaitObjects` and no failing `CreateThread`.
  `RelayNullHandle` is the counterexample without the second. The invariant `SoloInv`
  says which threads exist, that main has waited for the accept thread before it
  waits for the workers, and that a worker that outlives `DeInitialize` is one for which
  nothing was ever accepted. That every thread has returned leaves only main to own
  anything; `ReleaseAll` says that a release with no owner destroys every context.
* `StaleHandles` needs none of these conditions. Its invariant: a handle value has one
  open socket; only the accepted context of an aborted set-up is closed under its
  context, and it is in no list and with no thread but a worker from the moment another
  socket can be made; and no buddy keeps it, since only locals are strong.
* `OneReceive` and `Receives` make no assumption on the keys or on the types a worker
  reads. They say how a second receive, or none, can come about: only by a packet
  handled on another context (`crossed`) or, for the second receive, by a send taken for
  a receive (`mistyped`). `RelayKey` and `RelayIoType` show that both do happen. Their
  invariant `ReceiveInv` adds that a context whose first receive is still to be posted has
  no operation and no worker, on connections where neither has happened.
* `QuitsSuffice` counts null packets against the workers still to return.

`ProxyRelayRefinementProofs` concludes `ProxyRefinesRelay`: for any number of connections
and workers, whatever the keys yield and whichever types are misread, `ProxyRelay`
implements `ConnectionRelay`. Three things are needed beside the invariants above:

* `SetUpInv`, inductive together with `TypeOK` and `OwnershipInv`: until the server's context
  is made nobody but the accept thread knows the client's, and once it is made the two
  are linked, or that is what the accept thread does next. This gives the guards of
  `Accept` and `Close`: a live client's server is owned by it.
* `Placed`, from `OneReceive`: at most one of the places in `Direction` has the receive of
  a context. A step that moves a receive from one place to the next then changes
  the direction of that context and of no other.
* One lemma for each action of `ConnectionRelay` (`MakeStep`, `MoveStep`, `PassStep`,
  `FinishStep`, `StopStep`, `CloseStep`, `StrayStep`, and `StutterStep`), one for releases, and the four
  lemmas that map the steps of the accept thread, the workers, the network and main.
  A worker's `PostSend` is `Pass`; every exit that drops the packet is `Stop`; on a spoiled
  connection, and where one becomes spoiled, a step is `Stray`.

`ForwardStreamProofs` holds for any stream, workers and buffer length.

* `StreamInOrder` is the invariant `StreamInv`: the sends of the stack continue
  `delivered` without gap or overlap, what is in hand continues them, the receive
  buffer holds exactly that, and only one packet or worker has it. It assumes
  `NoZeros` (no byte of the stream is zero) and `NoOverlap` (the stack copies, or
  no data arrives while it keeps a send); `StreamOverlap` is the
  counterexample without the second.
* `TextArrivesAsSent` follows under the same two conditions: what was delivered is what
  was sent, so far.
* `StreamRefinesChannel` concludes that the specification implements the safety
  part of `ByteChannel`.
* `OverrunNeedsFullChunk` needs neither: `strcpy` leaves its buffer only when a worker
  sends a chunk that filled the whole receive buffer with bytes other than zero.
  `Recv` offers the whole buffer to `WSARecv`, so that does happen. The invariant is
  that the receive buffer holds the chunk of the one packet or worker there is, and
  zeros behind it: what an earlier receive left there is gone.

`IoctlDeviceProofs` holds for any requests and any width of `LONG`. `RequestsCompletedOnce` is
inductive with `TypeOK`: the queue, the calls that retrieved and the count of
completions exclude each other. `NumbersDistinct` follows from `NumbersInv` (`NumbersCount`): `Sequence` is the
count of numbers taken, wrapped, and each rank was taken once; two equal wrapped
numbers of different ranks are a multiple of the cycle apart. `DeviceNotifies` maps each
step to one of `Notifications` or a stutter.

`InterceptionProofs` holds for any instances, applications, hops, loads and refused
deletes. One invariant (`IInv`) carries all results:

* For `ProxyNotRedirected`: an instance that listens is registered or in `lost`, and so
  is the process of a connection whose callback saw another id. A registration
  precedes the first connection of its instance, so a callback cannot have begun
  before it.
* For `DestinationKept`: a connection is modified only if this load's filter has not
  modified it, and a connection of an earlier load's filter is not asked about again.
* For `DriverLeavesNothing` and `FilterHasCallout`: at each point of loading and unloading
  exactly the objects that were added and not yet deleted are there, but for those
  whose delete was refused.

`LoneProxyRecognised` adds a condition, one instance of the service and one load of the
driver: then a registration is lost only when the driver has gone for good, and the
comment "Check if packet is coming from proxy application" is true at every check,
whatever the callback read before. `SecondInstance` is the counterexample with two.

`InterceptionRefinementProofs` concludes `InterceptionRefines`, without any condition. It
adds to `IInv` that the hops of an application form a chain (`ChainInv`: a hop that has a
successor was carried on) and that a connection has an acceptor exactly from when it
is accepted (`AcceptedInv`). So one hop at most is neither unused nor carried on
(`OneTip`), and the journey is what the state of that hop says (`TipJourney`). The guard
of `Pass`, that the proxy passed before was displaced, is `HopInv`.

Liveness (`ShutdownCompletes`, `GoneIsDelisted`, `ConnectionReclaimed`,
`ForwardsEverything`, `CallsReturn`, `RetrievedIsTold`, `Settles`, `UnloadEnds`) is only
model-checked: it depends on fairness, which the prover does not reach.

## Findings

1. `RelayDestructor`: `~SocketContext` waits with `SleepEx(0, TRUE)` and the comment
   "the completion will be called here". Sockets bound to a completion port
   queue their completions to it; none is called there.
2. `RelayKey`: "here we are only passing reference to our client context", but the
   reference is to a parameter that dies with the call, and both calls of
   `AcceptConnection` use one slot.
3. `RelayNullHandle`: "Let Worker Threads shutdown" does not wait when a worker could
   not be made: `CreateThread`'s result is not looked at, `WaitForMultipleObjects` fails on
   the null handle, and nobody looks at that either. The list is cleaned and the
   critical sections are deleted while the other workers run.
4. `RelayIoType`: "IO operation type: such as READ or WRITE" is READ for a moment in every
   `Send`, because `ZeroMemory` clears it. A worker with the completion of the previous send
   of the same context may see that, forward whatever `m_IoRecv.buffer` holds a second
   time and post a second receive on the `OVERLAPPED` of the first.
5. `StreamOverlap`: "Forward data from recv buffer of client socket to send buffer of fwd
   socket and send it to destination" holds for sends in turn only. A second chunk
   overwrites the buffer of a pending send.
6. `SecondInstance`: "Check if packet is coming from proxy application" compares with
   the process that registered last. An instance registers before it binds; one that
   cannot bind exits and leaves its id behind, and the running proxy's own connections
   pass the check. What the run shows ends there. Whether such a connection is then
   redirected is the platform's answer at `wfp.c` 140: the proxy sets the redirect records
   it was given on its socket (`MdProxyService.cpp` 501), which may identify the connection
   as redirected by this driver. A reload of the driver forgets the id with the same
   effect.

Weaknesses the properties delimit without a comment of the code to contradict:

* A worker that took the failed receive of an aborted connection closes the accepted
  socket's handle a second time when it lets go. `StaleHandles` says that this is the
  only way to close a later connection's socket.
* A proxy context that was taken off the list stays open for as long as its client's
  context lives, which owns it; the client is not told that the server left.
* A byte after a zero byte of a chunk arrives as a zero: `strcpy` stops at the zero,
  while the length sent is the length received. A chunk that fills the receive buffer and
  has no zero makes it run on (`OverrunsOnFullChunk`).
* A refused delete of the filter leaves a filter without callout, which blocks
  connections to port 80, and whose callout and sublayer keep the next load from
  succeeding.

## Not modelled

* Console output, `SOCK_CNTXT_COUNT` and the ids: logging. The lock of the console is
  part of what `DeInitialize` deletes.
* The three buffers of `InitRemoteConnection`, which live within the call; the second
  sockaddr in the redirect context, which nobody reads; `localRedirectTargetPID`, which
  nothing in `src/` reads back.
* What the platform does with a callback that has acquired the writable layer data and
  leaves without applying it (`wfp.c` 178 and 223).
* The unused setters and getters of `SocketContext.h`, and the commented-out map.
* Build and installation files.
* What follows undefined behaviour.

## Plan

Done: `ProxyRelay` from the start of main to its return, `ByteChannel` and `ForwardStream`,
`Notifications` and `IoctlDevice`, `DriverLoad` and `Interception`, with their runs and proofs;
the abstract specifications `ConnectionRelay` and `Redirection`, with the proofs that
`ProxyRelay` and `Interception` implement them.

Left:

1. The composition of `Interception` with `ProxyRelay`: what a client sees when the
   driver sends it to a proxy that shuts down.
2. `RelayTwo` with data: two connections with sends exceed what a run can explore
   here. `ProxyRefinesRelay` covers it by proof.
