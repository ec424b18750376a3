---------------------------- MODULE Interception ----------------------------
(***************************************************************************)
(* What becomes of an application's connection to port 80 while the driver *)
(* is loaded and unloaded and service processes come and go. The platform  *)
(* calls ClassifyCallback for each connection the filter matches; the      *)
(* callback sends it to 127.0.0.1:1598 with the original destination       *)
(* attached, unless it belongs to the process registered with the device.  *)
(* The service that listens there asks for that destination and connects   *)
(* to it: a connection the filter matches again.                           *)
(*                                                                         *)
(* <<a, 0>> is the connection of application a, <<a, n + 1>> the one the   *)
(* service makes for <<a, n>>.                                             *)
(*                                                                         *)
(* A definition whose comment begins "Fault:" is a wrong version of the    *)
(* definition after it and is used nowhere.                                *)
(***************************************************************************)
EXTENDS DriverLoad

CONSTANTS
  Instances, \* processes of MdProxyService
  Apps,      \* applications; each connects once, to a destination of its own
  MaxHops,   \* bound: how often a connection is carried on
  Proxy      \* the address 127.0.0.1:1598

ASSUME InterceptionAssumption ==
  /\ MaxHops \in Nat
  /\ Instances \cap Apps = {} /\ NoProcess \notin Instances \cup Apps
  /\ Proxy \notin Apps \cup {NoProcess}

VARIABLES
  svc,      \* main of each instance: "off", "registered", "listening", "done"
  lost,     \* running instances whose registration with the device is gone
  at,       \* where each connection is
  dest,     \* its remoteAddressAndPort; an application names its destination
  context,  \* its localRedirectContext, NoProcess for none
  modified, \* the load of the driver whose filter modified it, 0 for none
  again,    \* connections that were classified a second time
  seen,     \* proxyAppProcessID of the callback that runs for it
  holds,    \* the handles its classification holds
  acceptor  \* the instance that accepted it, NoProcess for none

classifyVars == <<seen, holds>>
connVars == <<at, dest, context, modified, again, acceptor>>
svcVars == <<svc, lost>>
vars == <<loadVars, svcVars, connVars, classifyVars>>

Conns == Apps \X (0 .. MaxHops)
NextHop(c) == <<c[1], c[2] + 1>>
PrevHop(c) == <<c[1], c[2] - 1>>
Classifying ==
  {"check", "create", "query", "acquire", "writable", "previous", "modify", "exit", "destroy"}
Settled == {"accepted", "carried", "dropped", "direct", "unreachable", "blocked"}
ConnStates == Classifying \cup Settled \cup {"unused", "classified"}

(* inMetaValues->processId: the process a connection belongs to.           *)
Process(c) == IF c[2] = 0 THEN c[1] ELSE acceptor[PrevHop(c)]

Running == {i \in Instances : svc[i] \in {"registered", "listening"}}

Init ==
  /\ LoadInit
  /\ svc = [i \in Instances |-> "off"] /\ lost = {}
  /\ at = [c \in Conns |-> "unused"]
  /\ dest = [c \in Conns |-> c[1]]
  /\ context = [c \in Conns |-> NoProcess]
  /\ modified = [c \in Conns |-> 0] /\ again = {}
  /\ seen = [c \in Conns |-> NoProcess]
  /\ holds = [c \in Conns |-> {}]
  /\ acceptor = [c \in Conns |-> NoProcess]

-----------------------------------------------------------------------------
(* The driver, beside the connections. A new context has no process id.    *)
LoadStep ==
  /\ \/ DriverEntry \/ DriverUnload
     \/ UnInitializeWfp /\ (entry = "unregister" => \A c \in Conns : at[c] \notin Classifying)
  /\ lost' = IF pid' = pid THEN lost ELSE lost \cup Running
  /\ UNCHANGED <<svc, connVars, classifyVars>>

(* UpdateKernelWithUserAppProcessId, the first thing main does: the device *)
(* keeps one process id, the last.                                         *)
Register(i) ==
  /\ svc[i] = "off"
  /\ \/ /\ device = "open"
        /\ pid' = i /\ svc' = [svc EXCEPT ![i] = "registered"] /\ lost' = lost \cup Running
     \/ svc' = [svc EXCEPT ![i] = "done"] /\ UNCHANGED <<pid, lost>>
  /\ UNCHANGED <<entry, device, wfpVars, countVars, connVars, classifyVars>>

(* Fault: main goes on when the driver did not take its process id.        *)
BindRegardless(i) ==
  /\ svc[i] \in {"off", "registered"}
  /\ \/ (\A j \in Instances : svc[j] # "listening") /\ svc' = [svc EXCEPT ![i] = "listening"]
     \/ svc' = [svc EXCEPT ![i] = "done"]
  /\ UNCHANGED <<loadVars, lost, connVars, classifyVars>>

(* main binds port 1598, which one socket at a time can have, and listens. *)
(* An instance that cannot exits; the device keeps its process id.         *)
Bind(i) ==
  /\ svc[i] = "registered"
  /\ \/ (\A j \in Instances : svc[j] # "listening") /\ svc' = [svc EXCEPT ![i] = "listening"]
     \/ svc' = [svc EXCEPT ![i] = "done"]
  /\ UNCHANGED <<loadVars, lost, connVars, classifyVars>>

(* Its accept thread connects for one client at a time.                    *)
Connecting(i) == \E c \in Conns : c[2] > 0 /\ Process(c) = i /\ at[c] \in Classifying \cup {"classified"}

(* CleanUp and return: it has waited for the accept thread.                *)
ServiceExit(i) ==
  /\ svc[i] = "listening" /\ ~Connecting(i)
  /\ svc' = [svc EXCEPT ![i] = "done"]
  /\ UNCHANGED <<loadVars, lost, connVars, classifyVars>>

-----------------------------------------------------------------------------
(* What the platform does with a new connection: without the filter it is  *)
(* none of the driver's, without the callout it is blocked.                *)
FirstState ==
  IF "filter" \notin objects THEN "classified" ELSE IF registered THEN "check" ELSE "blocked"

(* The callback begins with proxyAppProcessID = GetUserAppProcessId().     *)
GetUserAppProcessId == IF FirstState = "check" THEN pid ELSE NoProcess

Connect(c) ==
  /\ c[2] = 0 /\ at[c] = "unused"
  /\ at' = [at EXCEPT ![c] = FirstState]
  /\ seen' = [seen EXCEPT ![c] = GetUserAppProcessId]
  /\ UNCHANGED <<loadVars, svcVars, dest, context, modified, again, acceptor, holds>>

(* Fault: it connects to where the accepted connection goes itself.        *)
InitRemoteAsAccepted(c) ==
  /\ at[c] = "accepted" /\ c[2] < MaxHops
  /\ svc[acceptor[c]] = "listening" /\ ~Connecting(acceptor[c])
  /\ \/ at' = [at EXCEPT ![c] = "dropped"] /\ UNCHANGED <<dest, seen>>
     \/ /\ at' = [at EXCEPT ![c] = "carried", ![NextHop(c)] = FirstState]
        /\ dest' = [dest EXCEPT ![NextHop(c)] = dest[c]]
        /\ seen' = [seen EXCEPT ![NextHop(c)] = GetUserAppProcessId]
  /\ UNCHANGED <<loadVars, svcVars, context, modified, again, acceptor, holds>>

(* The accept thread takes connection c, asks for its redirect records and *)
(* context, and connects a socket with these records to the address in     *)
(* the context. Any call may fail; AcceptConnection then closes c.         *)
InitRemoteConnection(c) ==
  /\ at[c] = "accepted" /\ c[2] < MaxHops
  /\ svc[acceptor[c]] = "listening" /\ ~Connecting(acceptor[c])
  /\ \/ at' = [at EXCEPT ![c] = "dropped"] /\ UNCHANGED <<dest, seen>>
     \/ /\ at' = [at EXCEPT ![c] = "carried", ![NextHop(c)] = FirstState]
        /\ dest' = [dest EXCEPT ![NextHop(c)] = context[c]]
        /\ seen' = [seen EXCEPT ![NextHop(c)] = GetUserAppProcessId]
  /\ UNCHANGED <<loadVars, svcVars, context, modified, again, acceptor, holds>>

(* A classified connection is made: to the address it names, or to the     *)
(* instance that listens on the port of the proxy.                         *)
Establish(c) ==
  /\ at[c] = "classified"
  /\ \/ dest[c] # Proxy /\ at' = [at EXCEPT ![c] = "direct"] /\ UNCHANGED acceptor
     \/ /\ dest[c] = Proxy
        /\ \E i \in Instances :
             /\ svc[i] = "listening"
             /\ at' = [at EXCEPT ![c] = "accepted"] /\ acceptor' = [acceptor EXCEPT ![c] = i]
     \/ /\ dest[c] = Proxy /\ \A i \in Instances : svc[i] # "listening"
        /\ at' = [at EXCEPT ![c] = "unreachable"] /\ UNCHANGED acceptor
  /\ UNCHANGED <<loadVars, svcVars, dest, context, modified, again, classifyVars>>

(* Another callout changed the connection after this one: it was applied   *)
(* with REAUTHORIZE_IF_MODIFIED_BY_OTHERS, and the same filter is asked.   *)
Reclassify(c) ==
  /\ at[c] = "classified" /\ c \notin again
  /\ modified[c] = loads /\ "filter" \in objects /\ registered
  /\ at' = [at EXCEPT ![c] = "check"] /\ again' = again \cup {c}
  /\ seen' = [seen EXCEPT ![c] = pid]
  /\ UNCHANGED <<loadVars, svcVars, dest, context, modified, acceptor, holds>>

-----------------------------------------------------------------------------
(* ClassifyCallback, a call of which runs for every connection at a time.  *)
Step(c, from, to) == at[c] = from /\ at' = [at EXCEPT ![c] = to]
Quiet == UNCHANGED <<loadVars, svcVars, dest, again, acceptor>>

(* Not without the right to write; not from source port 1598, which only a *)
(* connection of an application can have; not from the process whose id    *)
(* the callback read when it began.                                        *)
Check(c) ==
  /\ \/ Step(c, "check", "classified") /\ seen' = [seen EXCEPT ![c] = NoProcess]
     \/ Step(c, "check", "exit") /\ (c[2] = 0 \/ seen[c] = Process(c)) /\ UNCHANGED seen
     \/ Step(c, "check", "create") /\ seen[c] # Process(c) /\ UNCHANGED seen
  /\ Quiet /\ UNCHANGED <<context, modified, holds>>

RedirectHandleCreate(c) ==
  /\ \/ Step(c, "create", "exit") /\ UNCHANGED holds
     \/ Step(c, "create", "query") /\ holds' = [holds EXCEPT ![c] = @ \cup {"redirectHandle"}]
  /\ Quiet /\ UNCHANGED <<context, modified, seen>>

(* Fault: a connection redirected before is left without cleaning up.      *)
QueryReturns(c) ==
  /\ \/ Step(c, "query", "classified") /\ (c[2] > 0 \/ modified[c] # 0)
     \/ Step(c, "query", "acquire")
  /\ Quiet /\ UNCHANGED <<context, modified, holds, seen>>

(* What the platform answers about a connection that carries redirect      *)
(* records, or was modified, is the platform's.                            *)
QueryConnectionRedirectState(c) ==
  /\ \/ Step(c, "query", "exit") /\ (c[2] > 0 \/ modified[c] # 0)
     \/ Step(c, "query", "acquire")
  /\ Quiet /\ UNCHANGED <<context, modified, holds, seen>>

AcquireClassifyHandle(c) ==
  /\ \/ Step(c, "acquire", "exit") /\ UNCHANGED holds
     \/ Step(c, "acquire", "writable") /\ holds' = [holds EXCEPT ![c] = @ \cup {"classifyHandle"}]
  /\ Quiet /\ UNCHANGED <<context, modified, seen>>

AcquireWritableLayerDataPointer(c) ==
  /\ Step(c, "writable", "exit") \/ Step(c, "writable", "previous")
  /\ Quiet /\ UNCHANGED <<context, modified, holds, seen>>

(* Fault: the loop over the previous versions does not advance.            *)
PreviousVersionStays(c) ==
  /\ modified[c] # loads /\ Step(c, "previous", "modify")
  /\ Quiet /\ UNCHANGED <<context, modified, holds, seen>>

(* Fault: no look at the previous versions.                                *)
PreviousVersionSkipped(c) ==
  /\ Step(c, "previous", "modify")
  /\ Quiet /\ UNCHANGED <<context, modified, holds, seen>>

(* Not what this filter has modified before.                               *)
PreviousVersion(c) ==
  /\ Step(c, "previous", IF modified[c] = loads THEN "exit" ELSE "modify")
  /\ Quiet /\ UNCHANGED <<context, modified, holds, seen>>

(* Fault: the redirected connection is given no context.                   *)
ModifyBare(c) ==
  /\ Step(c, "modify", "exit")
  /\ dest' = [dest EXCEPT ![c] = Proxy]
  /\ modified' = [modified EXCEPT ![c] = loads]
  /\ UNCHANGED <<loadVars, svcVars, context, again, acceptor, classifyVars>>

(* The destination is copied to the context, as much of it as fits in two  *)
(* pointers, which a sockaddr_in does, then replaced by the proxy's. With  *)
(* no memory for the context, or an address it cannot read, the callback   *)
(* leaves: the copy it may have written to is not applied.                 *)
Modify(c) ==
  /\ Step(c, "modify", "exit")
  /\ \/ /\ context' = [context EXCEPT ![c] = dest[c]]
        /\ dest' = [dest EXCEPT ![c] = Proxy]
        /\ modified' = [modified EXCEPT ![c] = loads]
     \/ UNCHANGED <<context, dest, modified>>
  /\ UNCHANGED <<loadVars, svcVars, again, acceptor, classifyVars>>

(* Whichever exit it came by, it gives back the handles it has, each if it *)
(* has it.                                                                 *)
ReleaseClassifyHandle(c) ==
  /\ Step(c, "exit", "destroy")
  /\ holds' = [holds EXCEPT ![c] = @ \ {"classifyHandle"}]
  /\ Quiet /\ UNCHANGED <<context, modified, seen>>

RedirectHandleDestroy(c) ==
  /\ Step(c, "destroy", "classified")
  /\ holds' = [holds EXCEPT ![c] = @ \ {"redirectHandle"}]
  /\ seen' = [seen EXCEPT ![c] = NoProcess]
  /\ Quiet /\ UNCHANGED <<context, modified>>

ClassifyCallback(c) ==
  \/ Check(c) \/ RedirectHandleCreate(c) \/ QueryConnectionRedirectState(c)
  \/ AcquireClassifyHandle(c) \/ AcquireWritableLayerDataPointer(c)
  \/ PreviousVersion(c) \/ Modify(c)
  \/ ReleaseClassifyHandle(c) \/ RedirectHandleDestroy(c)

Next ==
  \/ LoadStep
  \/ \E i \in Instances : Register(i) \/ Bind(i) \/ ServiceExit(i)
  \/ \E c \in Conns :
       Connect(c) \/ InitRemoteConnection(c) \/ Establish(c) \/ Reclassify(c) \/ ClassifyCallback(c)

Spec == Init /\ [][Next]_vars

(* A callback that runs gets on, its allocator finds memory or gives up,   *)
(* the platform makes what is classified, and an unload that has begun is  *)
(* carried out. Nobody has to connect, to register or to unload.           *)
FairSpec ==
  /\ Spec
  /\ \A c \in Conns : WF_vars(ClassifyCallback(c)) /\ WF_vars(Establish(c))
  /\ WF_vars(LoadStep /\ entry \in Stopping)

-----------------------------------------------------------------------------
(* Properties.                                                             *)

(* Types; a connection is redirected with a context or not at all.         *)
TypeOK ==
  /\ LoadTypeOK /\ pid \in Instances \cup {NoProcess}
  /\ svc \in [Instances -> {"off", "registered", "listening", "done"}]
  /\ lost \subseteq Instances
  /\ at \in [Conns -> ConnStates]
  /\ dest \in [Conns -> Apps \cup {Proxy}]
  /\ context \in [Conns -> Apps \cup {Proxy, NoProcess}]
  /\ modified \in [Conns -> 0 .. MaxLoads] /\ again \subseteq Conns
  /\ seen \in [Conns -> Instances \cup {NoProcess}]
  /\ holds \in [Conns -> SUBSET {"redirectHandle", "classifyHandle"}]
  /\ acceptor \in [Conns -> Instances \cup {NoProcess}]
  /\ \A c \in Conns : context[c] = NoProcess <=> modified[c] = 0

(* The proxy's own connection is sent back to the proxy only if another    *)
(* instance, or a new load of the driver, took its registration: whatever  *)
(* a callback read before, the process id of a registered proxy is there   *)
(* before its first connection.                                            *)
NoLoop == \A c \in Conns : c[2] > 0 /\ modified[c] # 0 => Process(c) \in lost

(* However often a connection is classified, modified by others, and       *)
(* carried on by the proxy, the destination the application named is the   *)
(* one in the context and the one the last hop connects to.                *)
OriginKept ==
  \A c \in Conns :
    /\ context[c] \in {c[1], NoProcess}
    /\ dest[c] = IF modified[c] = 0 THEN c[1] ELSE Proxy

(* A callback asks about and changes a connection with the handles for it  *)
(* in hand, and one that has returned, by whichever of its exits, has left *)
(* none that the next callback for the connection would begin with.        *)
HandlesReleased ==
  \A c \in Conns :
    /\ at[c] \in {"query", "acquire"} => holds[c] = {"redirectHandle"}
    /\ at[c] \in {"writable", "previous", "modify"} => holds[c] = {"redirectHandle", "classifyHandle"}
    /\ at[c] \notin Classifying \ {"check", "create"} => holds[c] = {}

(* What the comment before the check says: a connection coming from the    *)
(* proxy application is recognised by it.                                  *)
ProxyRecognised ==
  [][\A c \in Conns :
       c[2] > 0 /\ at[c] = "check" /\ at'[c] = "create" => svc[Process(c)] # "listening"]_vars

(* The refinement mapping to Redirection. A hop is under way until it is   *)
(* made, refused or carried on by the next one.                            *)
Hops(a) == {c \in Conns : c[1] = a}
Underway(c) == at[c] \in Classifying \cup {"classified", "accepted"}

Journey(a) ==
  IF \A c \in Hops(a) : at[c] = "unused" THEN "none"
  ELSE IF \E c \in Hops(a) : Underway(c) THEN "underway"
  ELSE IF \E c \in Hops(a) : at[c] = "direct" THEN "arrived"
  ELSE "failed"

Reached(a) == {dest[c] : c \in {d \in Hops(a) : at[d] = "direct"}}

Redirected == INSTANCE Redirection WITH
  journey <- [a \in Apps |-> Journey(a)],
  reached <- [a \in Apps |-> Reached(a)],
  proxy <- acceptor,
  displaced <- lost

(* However many callbacks, proxies and loads of the driver its connection  *)
(* meets, an application is connected once and where it asked to be, or    *)
(* not at all, and passes a second proxy only after the first was          *)
(* displaced.                                                              *)
RefinesRedirection == Redirected!Spec

(* Every connection is made, refused or carried on: none hangs.            *)
Settles == \A c \in Conns : (at[c] # "unused") ~> (at[c] \in Settled)

(* An unload ends, although it waits for the callbacks that run.           *)
UnloadEnds == (entry \in Stopping) ~> (entry = "absent")
=============================================================================
