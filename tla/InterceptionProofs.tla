------------------------- MODULE InterceptionProofs -------------------------
(***************************************************************************)
(* Proofs about Interception, for every number of applications, service    *)
(* instances, hops and loads: no handle is kept, the original destination  *)
(* survives, the proxy's connections come back to it only after it lost    *)
(* its registration, and what DriverLoadProofs shows of the driver.        *)
(***************************************************************************)
EXTENDS Interception, DriverLoadProofs

(* The device holds the process id of a running instance, or somebody took *)
(* its place.                                                              *)
Registration == \A i \in Instances : i \in Running => pid = i \/ i \in lost

(* A callback runs only while the callout is registered, and therefore     *)
(* within one load of the driver: what it finds modified by this filter    *)
(* is all that this driver modified.                                       *)
ConnInv(c) ==
  /\ at[c] \in Classifying => registered /\ (modified[c] = 0 \/ modified[c] = loads)
  /\ at[c] = "modify" => modified[c] = 0
  /\ at[c] \in {"accepted", "carried", "dropped"} => acceptor[c] \in Instances /\ modified[c] # 0
  /\ at[c] = "unused" => modified[c] = 0
  /\ context[c] = c[1] \/ context[c] = NoProcess
  /\ modified[c] = 0 => dest[c] = c[1]
  /\ modified[c] # 0 => dest[c] = Proxy
  /\ at[c] \notin Classifying \ {"check", "create"} => holds[c] = {}
  /\ at[c] \in {"query", "acquire"} => holds[c] = {"redirectHandle"}
  /\ at[c] \in {"writable", "previous", "modify"} => holds[c] = {"redirectHandle", "classifyHandle"}
  /\ at[c] = "destroy" => holds[c] \subseteq {"redirectHandle"}

(* A proxy's own connection belongs to an instance that listens, and got   *)
(* past the check of the process id only if that instance lost its         *)
(* registration.                                                           *)
HopInv(c) ==
  c[2] > 0 /\ at[c] # "unused" =>
    /\ at[PrevHop(c)] = "carried"
    /\ at[c] \in Classifying \cup {"classified"} => svc[Process(c)] = "listening"
    /\ at[c] \in Classifying => seen[c] = Process(c) \/ Process(c) \in lost
    /\ at[c] \in Classifying \ {"check", "exit", "destroy"} => Process(c) \in lost
    /\ modified[c] # 0 => Process(c) \in lost

IInv ==
  /\ TypeOK /\ LoadInv /\ Registration
  /\ \A c \in Conns : ConnInv(c)
  /\ \A c \in Conns : HopInv(c)

-----------------------------------------------------------------------------
(* Going to the next hop and back.                                         *)
LEMMA HopFacts ==
  ASSUME NEW c \in Conns
  PROVE  /\ c[1] \in Apps /\ c[2] \in 0 .. MaxHops
         /\ c[2] > 0 => PrevHop(c) \in Conns /\ PrevHop(c) # c /\ NextHop(PrevHop(c)) = c
         /\ c[2] < MaxHops => /\ NextHop(c) \in Conns /\ NextHop(c) # c /\ NextHop(c)[1] = c[1]
                              /\ NextHop(c)[2] > 0 /\ PrevHop(NextHop(c)) = c
<1> PICK a \in Apps, n \in 0 .. MaxHops : c = <<a, n>>
  BY DEF Conns
<1> USE InterceptionAssumption
<1>1. c[1] = a /\ c[2] = n
  OBVIOUS
<1>2. ASSUME n > 0
      PROVE  PrevHop(c) \in Conns /\ PrevHop(c) # c /\ NextHop(PrevHop(c)) = c
  <2>1. PrevHop(c) = <<a, n - 1>> /\ n - 1 \in 0 .. MaxHops
    BY <1>1, <1>2 DEF PrevHop
  <2>2. NextHop(PrevHop(c)) = <<a, n - 1 + 1>> /\ n - 1 + 1 = n
    BY <2>1 DEF NextHop
  <2> QED
    BY <2>1, <2>2 DEF Conns
<1>3. ASSUME n < MaxHops
      PROVE  /\ NextHop(c) \in Conns /\ NextHop(c) # c /\ NextHop(c)[1] = c[1]
             /\ NextHop(c)[2] > 0 /\ PrevHop(NextHop(c)) = c
  <2>1. NextHop(c) = <<a, n + 1>> /\ n + 1 \in 0 .. MaxHops
    BY <1>1, <1>3 DEF NextHop
  <2>2. PrevHop(NextHop(c)) = <<a, n + 1 - 1>> /\ n + 1 - 1 = n
    BY <2>1 DEF PrevHop
  <2> QED
    BY <1>1, <2>1, <2>2 DEF Conns
<1> QED
  BY <1>1, <1>2, <1>3

(* A connection a step does not touch, nor the one before it in a way that *)
(* matters.                                                                *)
LEMMA Untouched ==
  ASSUME NEW d \in Conns, ConnInv(d), HopInv(d),
         at'[d] = at[d], dest'[d] = dest[d], context'[d] = context[d],
         modified'[d] = modified[d], seen'[d] = seen[d], holds'[d] = holds[d],
         acceptor'[d] = acceptor[d],
         registered' = registered, loads' = loads, svc' = svc, lost \subseteq lost',
         d[2] > 0 /\ at[d] # "unused" => at'[PrevHop(d)] = at[PrevHop(d)]
                                         /\ acceptor'[PrevHop(d)] = acceptor[PrevHop(d)]
  PROVE  ConnInv(d)' /\ HopInv(d)'
<1>1. ConnInv(d)'
  BY DEF ConnInv
<1>2. HopInv(d)'
  <2> SUFFICES ASSUME d[2] > 0, at[d] # "unused" PROVE HopInv(d)'
    BY DEF HopInv
  <2>1. Process(d)' = Process(d)
    BY HopFacts DEF Process
  <2> QED
    BY <2>1 DEF HopInv
<1> QED
  BY <1>1, <1>2

(* The invariant holds at the start.                                       *)
LEMMA InitIInv == Init => IInv
<1> SUFFICES ASSUME Init PROVE IInv
  OBVIOUS
<1>1. LoadInv /\ LoadTypeOK
  BY LoadInvInit DEF Init, LoadInv
<1>2. TypeOK
  <2>1. \A c \in Conns : c[1] \in Apps
    BY HopFacts
  <2>2. 0 \in 0 .. MaxLoads
    BY LoadsAssumption
  <2> QED
    BY <1>1, <2>1, <2>2, InterceptionAssumption DEF Init, LoadInit, TypeOK, ConnStates
<1>3. Registration
  BY DEF Init, Registration, Running
<1>4. ASSUME NEW c \in Conns PROVE ConnInv(c) /\ HopInv(c)
  BY DEF Init, ConnInv, HopInv, Classifying
<1> QED
  BY <1>1, <1>2, <1>3, <1>4 DEF IInv

-----------------------------------------------------------------------------
(* The driver's part: only LoadStep touches the driver, and Register the   *)
(* process id.                                                             *)
LEMMA DriverPart == LoadInv /\ [Next]_vars => LoadInv'
<1> SUFFICES ASSUME LoadInv, [Next]_vars PROVE LoadInv'
  OBVIOUS
<1>1. CASE LoadStep
  BY <1>1, LoadInvStep DEF LoadStep, LoadNext
<1>2. CASE UNCHANGED <<entry, device, wfpVars, countVars>>
  BY <1>2, LoadInvStutter
<1>3. CASE \E i \in Instances : Register(i) \/ Bind(i) \/ ServiceExit(i)
  BY <1>2, <1>3 DEF Register, Bind, ServiceExit, loadVars
<1>4. CASE \E c \in Conns : Connect(c) \/ InitRemoteConnection(c) \/ Establish(c) \/ Reclassify(c)
  BY <1>2, <1>4 DEF Connect, InitRemoteConnection, Establish, Reclassify, loadVars
<1>5. CASE \E c \in Conns : ClassifyCallback(c)
  BY <1>2, <1>5 DEF ClassifyCallback, Check, RedirectHandleCreate, QueryConnectionRedirectState,
       AcquireClassifyHandle, AcquireWritableLayerDataPointer, PreviousVersion, Modify,
       ReleaseClassifyHandle, RedirectHandleDestroy, Quiet, loadVars
<1>6. CASE UNCHANGED vars
  BY <1>2, <1>6 DEF vars, loadVars
<1> QED
  BY <1>1, <1>3, <1>4, <1>5, <1>6 DEF Next

(* What every step of ClassifyCallback is to the rest: the connection      *)
(* moves on, and nothing but its own entries changes.                      *)
LEMMA CallbackStep ==
  ASSUME TypeOK, NEW c \in Conns, ClassifyCallback(c)
  PROVE  /\ at[c] \in Classifying /\ at'[c] \in Classifying \cup {"classified"}
         /\ at' = [at EXCEPT ![c] = at'[c]]
         /\ dest' = [dest EXCEPT ![c] = dest'[c]]
         /\ context' = [context EXCEPT ![c] = context'[c]]
         /\ modified' = [modified EXCEPT ![c] = modified'[c]]
         /\ seen' = [seen EXCEPT ![c] = seen'[c]]
         /\ holds' = [holds EXCEPT ![c] = holds'[c]]
         /\ UNCHANGED <<loadVars, svcVars, again, acceptor>>
<1> USE DEF Step, Quiet, TypeOK, Classifying
<1>1. CASE Check(c)
  BY <1>1 DEF Check
<1>2. CASE RedirectHandleCreate(c)
  BY <1>2 DEF RedirectHandleCreate
<1>3. CASE QueryConnectionRedirectState(c)
  BY <1>3 DEF QueryConnectionRedirectState
<1>4. CASE AcquireClassifyHandle(c)
  BY <1>4 DEF AcquireClassifyHandle
<1>5. CASE AcquireWritableLayerDataPointer(c)
  BY <1>5 DEF AcquireWritableLayerDataPointer
<1>6. CASE PreviousVersion(c)
  BY <1>6 DEF PreviousVersion
<1>7. CASE Modify(c)
  BY <1>7 DEF Modify, classifyVars
<1>8. CASE ReleaseClassifyHandle(c) \/ RedirectHandleDestroy(c)
  BY <1>8 DEF ReleaseClassifyHandle, RedirectHandleDestroy
<1> QED
  BY <1>1, <1>2, <1>3, <1>4, <1>5, <1>6, <1>7, <1>8 DEF ClassifyCallback

(* The values a step of ClassifyCallback gives to the connection.          *)
LEMMA CallbackValues ==
  ASSUME TypeOK, LoadInv, NEW c \in Conns, ClassifyCallback(c), ConnInv(c)
  PROVE  /\ dest'[c] \in Apps \cup {Proxy}
         /\ context'[c] \in Apps \cup {Proxy, NoProcess}
         /\ modified'[c] \in 0 .. MaxLoads
         /\ seen'[c] = seen[c] \/ seen'[c] = NoProcess
         /\ holds'[c] \subseteq {"redirectHandle", "classifyHandle"}
         /\ context'[c] = NoProcess <=> modified'[c] = 0
<1> USE DEF Step, Quiet, TypeOK
<1>1. CASE Check(c)
  BY <1>1 DEF Check
<1>2. CASE RedirectHandleCreate(c)
  BY <1>2 DEF RedirectHandleCreate
<1>3. CASE QueryConnectionRedirectState(c)
  BY <1>3 DEF QueryConnectionRedirectState
<1>4. CASE AcquireClassifyHandle(c)
  BY <1>4 DEF AcquireClassifyHandle
<1>5. CASE AcquireWritableLayerDataPointer(c)
  BY <1>5 DEF AcquireWritableLayerDataPointer
<1>6. CASE PreviousVersion(c)
  BY <1>6 DEF PreviousVersion
<1>7. CASE Modify(c)
  <2>1. /\ \/ dest'[c] = Proxy /\ context'[c] = dest[c] /\ modified'[c] = loads
           \/ UNCHANGED <<dest, context, modified>>
        /\ at[c] = "modify" /\ UNCHANGED <<seen, holds>>
    BY <1>7 DEF Modify, classifyVars
  <2>2. loads \in 0 .. MaxLoads /\ loads # 0
    BY <2>1 DEF LoadInv, LoadTypeOK, PointInv, ConnInv, Classifying
  <2> QED
    BY <2>1, <2>2, InterceptionAssumption
<1>8. CASE ReleaseClassifyHandle(c) \/ RedirectHandleDestroy(c)
  BY <1>8 DEF ReleaseClassifyHandle, RedirectHandleDestroy
<1> QED
  BY <1>1, <1>2, <1>3, <1>4, <1>5, <1>6, <1>7, <1>8 DEF ClassifyCallback

(* Every step keeps the types.                                             *)
LEMMA TypeStep == IInv /\ [Next]_vars => TypeOK'
<1> SUFFICES ASSUME IInv, [Next]_vars PROVE TypeOK'
  OBVIOUS
<1>1. LoadTypeOK'
  BY DriverPart DEF IInv, LoadInv
<1>2. TypeOK
  BY DEF IInv
<1>3. CASE LoadStep
  <2>1. pid' \in Instances \cup {NoProcess}
    BY <1>2, <1>3 DEF TypeOK, LoadStep, DriverEntry, CreateDevice, InitializeQueue, InitializeWfp,
         OpenEngine, WfpRegisterCallout, WfpAddCallout, WfpAddSublayer, WfpAddFilter, DriverUnload,
         UnInitializeWfp, DeleteFilter, DeleteSublayer, DeleteCallout, UnregisterCallout,
         CloseEngine, Absent
  <2>2. lost' \subseteq Instances
    BY <1>2, <1>3 DEF TypeOK, LoadStep, Running
  <2>3. UNCHANGED <<svc, at, dest, context, modified, again, seen, holds, acceptor>>
    BY <1>3 DEF LoadStep, connVars, classifyVars
  <2> QED
    BY <1>1, <1>2, <2>1, <2>2, <2>3 DEF TypeOK
<1>4. ASSUME NEW i \in Instances, Register(i) \/ Bind(i) \/ ServiceExit(i)
      PROVE  TypeOK'
  <2>1. /\ pid' \in Instances \cup {NoProcess} /\ lost' \subseteq Instances
        /\ svc' \in [Instances -> {"off", "registered", "listening", "done"}]
    BY <1>2, <1>4 DEF TypeOK, Register, Bind, ServiceExit, Running, loadVars
  <2>2. UNCHANGED <<at, dest, context, modified, again, seen, holds, acceptor>>
    BY <1>4 DEF Register, Bind, ServiceExit, connVars, classifyVars
  <2> QED
    BY <1>1, <1>2, <2>1, <2>2 DEF TypeOK
<1>5. FirstState \in ConnStates /\ GetUserAppProcessId \in Instances \cup {NoProcess}
  BY <1>2 DEF TypeOK, FirstState, GetUserAppProcessId, ConnStates, Classifying, Settled
<1>6. ASSUME NEW c \in Conns, Connect(c)
      PROVE  TypeOK'
  <2>1. /\ at' \in [Conns -> ConnStates] /\ seen' \in [Conns -> Instances \cup {NoProcess}]
        /\ UNCHANGED <<pid, svc, lost, dest, context, modified, again, holds, acceptor>>
    BY <1>2, <1>5, <1>6 DEF TypeOK, Connect, loadVars, svcVars
  <2> QED
    BY <1>1, <1>2, <2>1 DEF TypeOK
<1>7. ASSUME NEW c \in Conns, InitRemoteConnection(c)
      PROVE  TypeOK'
  <2>1. context[c] \in Apps
    BY <1>2, <1>7, HopFacts DEF IInv, ConnInv, TypeOK, InitRemoteConnection
  <2>2. c[2] < MaxHops /\ NextHop(c) \in Conns
    BY <1>7, HopFacts DEF InitRemoteConnection
  <2>3. UNCHANGED <<pid, svc, lost, context, modified, again, holds, acceptor>>
    BY <1>7 DEF InitRemoteConnection, loadVars, svcVars
  <2>4. at' \in [Conns -> ConnStates]
    BY <1>2, <1>5, <1>7, <2>2 DEF TypeOK, InitRemoteConnection, ConnStates, Settled
  <2>5. dest' \in [Conns -> Apps \cup {Proxy}] /\ seen' \in [Conns -> Instances \cup {NoProcess}]
    BY <1>2, <1>5, <1>7, <2>1, <2>2 DEF TypeOK, InitRemoteConnection
  <2> QED
    BY <1>1, <1>2, <2>3, <2>4, <2>5 DEF TypeOK
<1>8. ASSUME NEW c \in Conns, Establish(c)
      PROVE  TypeOK'
  <2>1. /\ at' \in [Conns -> ConnStates] /\ acceptor' \in [Conns -> Instances \cup {NoProcess}]
        /\ UNCHANGED <<pid, svc, lost, dest, context, modified, again, seen, holds>>
    BY <1>2, <1>8 DEF TypeOK, Establish, ConnStates, Settled, loadVars, svcVars, classifyVars
  <2> QED
    BY <1>1, <1>2, <2>1 DEF TypeOK
<1>9. ASSUME NEW c \in Conns, Reclassify(c)
      PROVE  TypeOK'
  <2>1. /\ at' \in [Conns -> ConnStates] /\ seen' \in [Conns -> Instances \cup {NoProcess}]
        /\ again' \subseteq Conns
        /\ UNCHANGED <<pid, svc, lost, dest, context, modified, holds, acceptor>>
    BY <1>2, <1>5, <1>9 DEF TypeOK, Reclassify, ConnStates, Classifying, loadVars, svcVars
  <2> QED
    BY <1>1, <1>2, <2>1 DEF TypeOK
<1>10. ASSUME NEW c \in Conns, ClassifyCallback(c)
       PROVE  TypeOK'
  <2>1. ConnInv(c) /\ LoadInv
    BY DEF IInv
  <2>2. at' \in [Conns -> ConnStates] /\ UNCHANGED <<pid, svc, lost, again, acceptor>>
    BY <1>2, <1>10, CallbackStep DEF TypeOK, ConnStates, loadVars, svcVars
  <2>3. /\ dest' \in [Conns -> Apps \cup {Proxy}]
        /\ context' \in [Conns -> Apps \cup {Proxy, NoProcess}]
        /\ modified' \in [Conns -> 0 .. MaxLoads]
    BY <1>2, <1>10, <2>1, CallbackStep, CallbackValues DEF TypeOK
  <2>4. /\ seen' \in [Conns -> Instances \cup {NoProcess}]
        /\ holds' \in [Conns -> SUBSET {"redirectHandle", "classifyHandle"}]
    BY <1>2, <1>10, <2>1, CallbackStep, CallbackValues DEF TypeOK
  <2>5. \A d \in Conns : context'[d] = NoProcess <=> modified'[d] = 0
    BY <1>2, <1>10, <2>1, CallbackStep, CallbackValues DEF TypeOK
  <2> QED
    BY <1>1, <1>2, <2>2, <2>3, <2>4, <2>5 DEF TypeOK
<1>11. CASE UNCHANGED vars
  BY <1>1, <1>2, <1>11 DEF TypeOK, vars, loadVars, svcVars, connVars, classifyVars
<1> QED
  BY <1>3, <1>4, <1>6, <1>7, <1>8, <1>9, <1>10, <1>11 DEF Next

-----------------------------------------------------------------------------
(* A running instance is registered, or is known to have lost it: a new    *)
(* registration or a new load counts all that ran as lost.                 *)
LEMMA RegistrationStep == IInv /\ [Next]_vars => Registration'
<1> SUFFICES ASSUME IInv, [Next]_vars PROVE Registration'
  OBVIOUS
<1> USE DEF IInv, TypeOK, Registration, Running
<1>1. CASE LoadStep
  BY <1>1 DEF LoadStep
<1>2. ASSUME NEW i \in Instances, Register(i)
      PROVE  Registration'
  BY <1>2 DEF Register
<1>3. ASSUME NEW i \in Instances, Bind(i) \/ ServiceExit(i)
      PROVE  Registration'
  BY <1>3 DEF Bind, ServiceExit, loadVars
<1>4. CASE UNCHANGED <<loadVars, svcVars>>
  BY <1>4 DEF loadVars, svcVars
<1>5. CASE \E c \in Conns : Connect(c) \/ InitRemoteConnection(c) \/ Establish(c) \/ Reclassify(c)
  BY <1>4, <1>5 DEF Connect, InitRemoteConnection, Establish, Reclassify
<1>6. CASE \E c \in Conns : ClassifyCallback(c)
  BY <1>4, <1>6, CallbackStep
<1>7. CASE UNCHANGED vars
  BY <1>4, <1>7 DEF vars
<1> QED
  BY <1>1, <1>2, <1>3, <1>5, <1>6, <1>7 DEF Next

(* While a callback runs, no step of the driver unregisters it or starts   *)
(* another load.                                                           *)
LEMMA LoadStepWaits ==
  ASSUME LoadInv, LoadStep, NEW c \in Conns, at[c] \in Classifying, registered
  PROVE  registered' /\ loads' = loads
<1>1. entry # "absent"
  BY DEF LoadInv, PointInv
<1>2. entry # "unregister"
  BY DEF LoadStep, UnInitializeWfp, DeleteFilter, DeleteSublayer, DeleteCallout, CloseEngine,
     DriverEntry, CreateDevice, InitializeQueue, InitializeWfp, OpenEngine, WfpRegisterCallout,
     WfpAddCallout, WfpAddSublayer, WfpAddFilter, DriverUnload
<1> QED
  BY <1>1, <1>2 DEF LoadStep, UnInitializeWfp, DeleteFilter, DeleteSublayer, DeleteCallout,
     CloseEngine, UnregisterCallout, DriverEntry, CreateDevice, InitializeQueue, InitializeWfp,
     OpenEngine, WfpRegisterCallout, WfpAddCallout, WfpAddSublayer, WfpAddFilter, DriverUnload,
     Fail, wfpVars, countVars

(* Steps of the driver and of the services keep what is said of            *)
(* connections.                                                            *)
LEMMA OutsideStep ==
  ASSUME IInv, NEW c \in Conns,
         LoadStep \/ \E i \in Instances : Register(i) \/ Bind(i) \/ ServiceExit(i)
  PROVE  ConnInv(c)' /\ HopInv(c)'
<1>1. LoadInv /\ ConnInv(c) /\ HopInv(c) /\ TypeOK
  BY DEF IInv
<1>2. UNCHANGED <<at, dest, context, modified, seen, holds, acceptor>> /\ lost \subseteq lost'
  BY DEF LoadStep, Register, Bind, ServiceExit, connVars, classifyVars
<1>3. at[c] \in Classifying => registered' /\ loads' = loads
  <2>1. CASE LoadStep
    BY <1>1, <2>1, LoadStepWaits DEF ConnInv
  <2>2. CASE \E i \in Instances : Register(i) \/ Bind(i) \/ ServiceExit(i)
    BY <1>1, <2>2 DEF Register, Bind, ServiceExit, loadVars, wfpVars, countVars, ConnInv
  <2> QED
    BY <2>1, <2>2
<1>4. ConnInv(c)'
  BY <1>1, <1>2, <1>3 DEF ConnInv
<1>5. Process(c)' = Process(c)
  BY <1>2 DEF Process
<1>6. ASSUME c[2] > 0, at[c] \in Classifying \cup {"classified"}, svc[Process(c)] = "listening"
      PROVE  svc'[Process(c)] = "listening"
  <2>1. CASE LoadStep
    BY <1>6, <2>1 DEF LoadStep
  <2>2. ASSUME NEW i \in Instances, Register(i) \/ Bind(i)
        PROVE  svc'[Process(c)] = "listening"
    <3>1. Process(c) # i /\ \E s \in {"registered", "listening", "done"} : svc' = [svc EXCEPT ![i] = s]
      BY <1>6, <2>2 DEF Register, Bind
    <3>2. Process(c) \in Instances
      <4>1. PrevHop(c) \in Conns /\ at[PrevHop(c)] = "carried"
        BY <1>1, <1>6, HopFacts DEF HopInv, Classifying
      <4>2. Process(c) = acceptor[PrevHop(c)]
        BY <1>6, HopFacts DEF Process
      <4> QED
        BY <4>1, <4>2 DEF IInv, ConnInv
    <3> QED
      BY <1>1, <1>6, <3>1, <3>2 DEF TypeOK
  <2>3. ASSUME NEW i \in Instances, ServiceExit(i)
        PROVE  svc'[Process(c)] = "listening"
    BY <1>1, <1>6, <2>3 DEF ServiceExit, Connecting, TypeOK
  <2> QED
    BY <2>1, <2>2, <2>3
<1>7. HopInv(c)'
  BY <1>1, <1>2, <1>5, <1>6 DEF HopInv
<1> QED
  BY <1>4, <1>7

(* A connection that begins: an application's, or one the proxy makes,     *)
(* which is registered then or has lost its registration.                  *)
LEMMA ConnectStep ==
  ASSUME IInv, NEW c \in Conns, Connect(c), NEW d \in Conns
  PROVE  ConnInv(d)' /\ HopInv(d)'
<1>1. /\ TypeOK /\ LoadInv /\ ConnInv(c) /\ ConnInv(d) /\ HopInv(d)
      /\ c[2] = 0 /\ at[c] = "unused"
  BY DEF IInv, Connect
<1>2. /\ at' = [at EXCEPT ![c] = FirstState] /\ seen' = [seen EXCEPT ![c] = GetUserAppProcessId]
      /\ UNCHANGED <<dest, context, modified, holds, acceptor, svc, lost, registered, loads>>
  BY DEF Connect, loadVars, svcVars, wfpVars, countVars
<1>3. CASE d = c
  <2>1. ConnInv(d)'
    BY <1>1, <1>2, <1>3 DEF ConnInv, FirstState, Classifying, TypeOK
  <2> QED
    BY <1>1, <1>2, <1>3, <2>1 DEF HopInv
<1>4. CASE d # c
  <2>1. d[2] > 0 /\ at[d] # "unused" => PrevHop(d) # c /\ PrevHop(d) \in Conns
    BY <1>1, HopFacts DEF HopInv
  <2>2. at'[d] = at[d] /\ seen'[d] = seen[d]
    BY <1>1, <1>2, <1>4 DEF TypeOK
  <2>3. d[2] > 0 /\ at[d] # "unused" => at'[PrevHop(d)] = at[PrevHop(d)]
    BY <1>1, <1>2, <2>1 DEF TypeOK
  <2> QED
    BY <1>1, <1>2, <2>2, <2>3, Untouched
<1> QED
  BY <1>3, <1>4

LEMMA InitRemoteStep ==
  ASSUME IInv, NEW c \in Conns, InitRemoteConnection(c), NEW d \in Conns
  PROVE  ConnInv(d)' /\ HopInv(d)'
<1> DEFINE n == NextHop(c)
<1>1. /\ TypeOK /\ LoadInv /\ Registration /\ ConnInv(c) /\ HopInv(c) /\ ConnInv(d) /\ HopInv(d)
      /\ at[c] = "accepted" /\ c[2] < MaxHops /\ svc[acceptor[c]] = "listening"
  BY DEF IInv, InitRemoteConnection
<1>2. UNCHANGED <<context, modified, holds, acceptor, svc, lost, registered, loads>>
  BY DEF InitRemoteConnection, loadVars, svcVars, wfpVars, countVars
<1>3. /\ n \in Conns /\ n # c /\ n[1] = c[1] /\ n[2] > 0 /\ PrevHop(n) = c
      /\ c[1] \in Apps /\ MaxHops \in Nat
  BY <1>1, HopFacts, InterceptionAssumption
<1>4. /\ ConnInv(n) /\ HopInv(n) /\ at[n] = "unused"
      /\ \A x \in Conns : x[2] > 0 /\ PrevHop(x) = c => at[x] = "unused"
  BY <1>1, <1>3 DEF IInv, HopInv
<1>5. acceptor[c] \in Instances /\ modified[c] # 0 /\ context[c] = c[1]
  BY <1>1 DEF ConnInv, TypeOK
<1>6. CASE d # c /\ d # n
  <2>1. at'[d] = at[d] /\ seen'[d] = seen[d] /\ dest'[d] = dest[d]
    BY <1>1, <1>3, <1>6 DEF InitRemoteConnection, TypeOK
  <2>2. d[2] > 0 /\ at[d] # "unused" =>
          PrevHop(d) # c /\ PrevHop(d) # n /\ PrevHop(d) \in Conns
    BY <1>1, <1>4, HopFacts DEF HopInv
  <2>3. d[2] > 0 /\ at[d] # "unused" => at'[PrevHop(d)] = at[PrevHop(d)]
    BY <1>1, <1>3, <2>2 DEF InitRemoteConnection, TypeOK
  <2> HIDE DEF n
  <2> QED
    BY <1>1, <1>2, <2>1, <2>3, Untouched
<1>7. CASE d = c
  <2>1. at'[c] \in {"dropped", "carried"} /\ seen'[c] = seen[c] /\ dest'[c] = dest[c]
    BY <1>1, <1>3 DEF InitRemoteConnection, TypeOK
  <2>2. ConnInv(c)'
    BY <1>1, <1>2, <1>5, <2>1 DEF ConnInv, Classifying
  <2>3. c[2] > 0 => at'[PrevHop(c)] = at[PrevHop(c)]
    <3>1. c[2] > 0 => PrevHop(c) \in Conns /\ PrevHop(c) # c /\ at[PrevHop(c)] = "carried"
      BY <1>1, HopFacts DEF HopInv
    <3>2. c[2] > 0 => PrevHop(c) # n
      BY <1>4, <3>1
    <3> QED
      BY <1>1, <1>3, <3>1, <3>2 DEF InitRemoteConnection, TypeOK
  <2>4. Process(c)' = Process(c)
    BY <1>2 DEF Process
  <2>5. HopInv(c)'
    BY <1>1, <1>2, <2>1, <2>3, <2>4 DEF HopInv, Classifying
  <2> QED
    BY <1>7, <2>2, <2>5
<1>8. CASE d = n
  <2>1. CASE at' = [at EXCEPT ![c] = "dropped"] /\ UNCHANGED <<dest, seen>>
    <3>1. at'[n] = "unused" /\ seen'[n] = seen[n] /\ dest'[n] = dest[n]
      BY <1>1, <1>3, <1>4, <2>1 DEF TypeOK
    <3> HIDE DEF n
    <3> QED
      BY <1>2, <1>3, <1>4, <1>8, <3>1, Untouched
  <2>2. CASE /\ at' = [at EXCEPT ![c] = "carried", ![n] = FirstState]
             /\ dest' = [dest EXCEPT ![n] = context[c]]
             /\ seen' = [seen EXCEPT ![n] = GetUserAppProcessId]
    <3>1. /\ at'[n] = FirstState /\ at'[c] = "carried" /\ dest'[n] = context[c]
          /\ seen'[n] = GetUserAppProcessId
      BY <1>1, <1>3, <2>2 DEF TypeOK
    <3>2. ConnInv(n)'
      BY <1>2, <1>3, <1>4, <1>5, <3>1 DEF ConnInv, FirstState, Classifying
    <3>3. Process(n) = acceptor[c] /\ Process(n)' = acceptor[c]
      BY <1>2, <1>3, HopFacts DEF Process
    <3>4. FirstState = "check" => GetUserAppProcessId = acceptor[c] \/ acceptor[c] \in lost
      BY <1>1, <1>5 DEF GetUserAppProcessId, Registration, Running
    <3>5. HopInv(n)'
      BY <1>1, <1>2, <1>3, <1>4, <3>1, <3>3, <3>4 DEF HopInv, ConnInv, FirstState, Classifying
    <3> QED
      BY <1>8, <3>2, <3>5
  <2> QED
    BY <2>1, <2>2 DEF InitRemoteConnection
<1> QED
  BY <1>6, <1>7, <1>8

LEMMA EstablishStep ==
  ASSUME IInv, NEW c \in Conns, Establish(c), NEW d \in Conns
  PROVE  ConnInv(d)' /\ HopInv(d)'
<1>1. /\ TypeOK /\ ConnInv(c) /\ HopInv(c) /\ ConnInv(d) /\ HopInv(d) /\ at[c] = "classified"
      /\ c[1] \in Apps
  BY HopFacts DEF IInv, Establish
<1>2. UNCHANGED <<dest, context, modified, seen, holds, svc, lost, registered, loads>>
  BY DEF Establish, loadVars, svcVars, wfpVars, countVars, classifyVars
<1>3. /\ at' = [at EXCEPT ![c] = at'[c]] /\ acceptor' = [acceptor EXCEPT ![c] = acceptor'[c]]
      /\ at'[c] \in {"direct", "accepted", "unreachable"}
      /\ at'[c] = "accepted" => dest[c] = Proxy /\ acceptor'[c] \in Instances
  BY <1>1 DEF Establish, TypeOK
<1>4. \A x \in Conns : x[2] > 0 /\ at[x] # "unused" => PrevHop(x) # c /\ PrevHop(x) \in Conns
  BY <1>1, HopFacts DEF IInv, HopInv
<1>5. \A x \in Conns : x[2] > 0 /\ at[x] # "unused" =>
        at'[PrevHop(x)] = at[PrevHop(x)] /\ acceptor'[PrevHop(x)] = acceptor[PrevHop(x)]
  BY <1>1, <1>3, <1>4 DEF TypeOK
<1>6. CASE d = c
  <2>1. ConnInv(c)'
    BY <1>1, <1>2, <1>3, InterceptionAssumption DEF ConnInv, Classifying
  <2>2. Process(c)' = Process(c)
    BY <1>1, <1>5, HopFacts DEF Process
  <2>3. HopInv(c)'
    BY <1>1, <1>2, <1>3, <1>5, <2>2 DEF HopInv, Classifying
  <2> QED
    BY <1>6, <2>1, <2>3
<1>7. CASE d # c
  <2>1. at'[d] = at[d] /\ acceptor'[d] = acceptor[d]
    BY <1>1, <1>3, <1>7 DEF TypeOK
  <2> QED
    BY <1>1, <1>2, <1>5, <2>1, Untouched
<1> QED
  BY <1>6, <1>7

LEMMA ReclassifyStep ==
  ASSUME IInv, NEW c \in Conns, Reclassify(c), NEW d \in Conns
  PROVE  ConnInv(d)' /\ HopInv(d)'
<1>1. /\ TypeOK /\ Registration /\ ConnInv(c) /\ HopInv(c) /\ ConnInv(d) /\ HopInv(d)
      /\ at[c] = "classified" /\ modified[c] = loads /\ registered /\ "filter" \in objects
  BY DEF IInv, Reclassify
<1>2. /\ at' = [at EXCEPT ![c] = "check"] /\ seen' = [seen EXCEPT ![c] = pid]
      /\ UNCHANGED <<dest, context, modified, holds, acceptor, svc, lost, registered, loads>>
  BY <1>1 DEF Reclassify, GetUserAppProcessId, FirstState, loadVars, svcVars, wfpVars, countVars
<1>3. \A x \in Conns : x[2] > 0 /\ at[x] # "unused" => PrevHop(x) # c /\ PrevHop(x) \in Conns
  BY <1>1, HopFacts DEF IInv, HopInv
<1>4. \A x \in Conns : x[2] > 0 /\ at[x] # "unused" => at'[PrevHop(x)] = at[PrevHop(x)]
  BY <1>1, <1>2, <1>3 DEF TypeOK
<1>5. CASE d = c
  <2>1. ConnInv(c)'
    BY <1>1, <1>2 DEF ConnInv, Classifying, TypeOK
  <2>2. Process(c)' = Process(c)
    BY <1>2 DEF Process
  <2>3. c[2] > 0 => pid = Process(c) \/ Process(c) \in lost
    <3>1. c[2] > 0 => svc[Process(c)] = "listening" /\ PrevHop(c) \in Conns
      BY <1>1, HopFacts DEF HopInv
    <3>2. c[2] > 0 => Process(c) \in Instances
      <4>1. c[2] > 0 => ConnInv(PrevHop(c)) /\ at[PrevHop(c)] = "carried"
        BY <1>1, <3>1 DEF IInv, HopInv
      <4>2. c[2] > 0 => Process(c) = acceptor[PrevHop(c)]
        BY HopFacts DEF Process
      <4> QED
        BY <4>1, <4>2 DEF ConnInv
    <3> QED
      BY <1>1, <3>1, <3>2 DEF Registration, Running
  <2>4. at'[c] = "check" /\ seen'[c] = pid
    BY <1>1, <1>2 DEF TypeOK
  <2>5. HopInv(c)'
    BY <1>1, <1>2, <1>4, <2>2, <2>3, <2>4 DEF HopInv, Classifying
  <2> QED
    BY <1>5, <2>1, <2>5
<1>6. CASE d # c
  <2>1. at'[d] = at[d] /\ seen'[d] = seen[d]
    BY <1>1, <1>2, <1>6 DEF TypeOK
  <2> QED
    BY <1>1, <1>2, <1>4, <2>1, Untouched
<1> QED
  BY <1>5, <1>6

(* A step of ClassifyCallback on its own connection: only the check lets   *)
(* it past, and only the look at the previous versions lets it modify.     *)
LEMMA CallbackOwn ==
  ASSUME IInv, NEW c \in Conns, ClassifyCallback(c), Process(c)' = Process(c)
  PROVE  /\ ConnInv(c)'
         /\ c[2] > 0 /\ at'[c] \in Classifying => seen'[c] = Process(c) \/ Process(c) \in lost
         /\ c[2] > 0 /\ at'[c] \in Classifying \ {"check", "exit", "destroy"} => Process(c) \in lost
         /\ c[2] > 0 /\ modified'[c] # 0 => Process(c) \in lost
<1>1. TypeOK /\ LoadInv /\ ConnInv(c) /\ HopInv(c)
  BY DEF IInv
<1>2. registered' = registered /\ loads' = loads
  BY <1>1, CallbackStep DEF loadVars, wfpVars, countVars
<1> USE DEF Step, Quiet, TypeOK, ConnInv, HopInv, Classifying
<1>3. CASE Check(c)
  BY <1>1, <1>2, <1>3 DEF Check
<1>4. CASE RedirectHandleCreate(c)
  BY <1>1, <1>2, <1>4 DEF RedirectHandleCreate
<1>5. CASE QueryConnectionRedirectState(c)
  BY <1>1, <1>2, <1>5 DEF QueryConnectionRedirectState
<1>6. CASE AcquireClassifyHandle(c)
  BY <1>1, <1>2, <1>6 DEF AcquireClassifyHandle
<1>7. CASE AcquireWritableLayerDataPointer(c)
  BY <1>1, <1>2, <1>7 DEF AcquireWritableLayerDataPointer
<1>8. CASE PreviousVersion(c)
  BY <1>1, <1>2, <1>8 DEF PreviousVersion
<1>9. CASE Modify(c)
  <2>1. loads # 0
    BY <1>1, <1>9 DEF Modify, LoadInv, PointInv
  <2> QED
    BY <1>1, <1>2, <1>9, <2>1 DEF Modify, classifyVars
<1>10. CASE ReleaseClassifyHandle(c) \/ RedirectHandleDestroy(c)
  BY <1>1, <1>2, <1>10 DEF ReleaseClassifyHandle, RedirectHandleDestroy
<1> QED
  BY <1>3, <1>4, <1>5, <1>6, <1>7, <1>8, <1>9, <1>10 DEF ClassifyCallback

LEMMA CallbackStepInv ==
  ASSUME IInv, NEW c \in Conns, ClassifyCallback(c), NEW d \in Conns
  PROVE  ConnInv(d)' /\ HopInv(d)'
<1>1. /\ TypeOK /\ HopInv(c) /\ ConnInv(d) /\ HopInv(d)
  BY DEF IInv
<1>2. /\ at[c] \in Classifying /\ at'[c] \in Classifying \cup {"classified"}
      /\ at' = [at EXCEPT ![c] = at'[c]]
      /\ dest' = [dest EXCEPT ![c] = dest'[c]]
      /\ context' = [context EXCEPT ![c] = context'[c]]
      /\ modified' = [modified EXCEPT ![c] = modified'[c]]
      /\ seen' = [seen EXCEPT ![c] = seen'[c]]
      /\ holds' = [holds EXCEPT ![c] = holds'[c]]
      /\ UNCHANGED <<acceptor, svc, lost, registered, loads>>
  BY <1>1, CallbackStep DEF loadVars, svcVars, wfpVars, countVars
<1>3. \A x \in Conns : x[2] > 0 /\ at[x] # "unused" => PrevHop(x) # c /\ PrevHop(x) \in Conns
  BY <1>2, HopFacts DEF IInv, HopInv, Classifying
<1>4. \A x \in Conns : x[2] > 0 /\ at[x] # "unused" => at'[PrevHop(x)] = at[PrevHop(x)]
  BY <1>1, <1>2, <1>3 DEF TypeOK
<1>5. CASE d = c
  <2>1. Process(c)' = Process(c)
    BY <1>2 DEF Process
  <2>2. c[2] > 0 => at'[PrevHop(c)] = "carried" /\ svc'[Process(c)] = "listening"
    BY <1>1, <1>2, <1>4 DEF HopInv, Classifying
  <2>3. HopInv(c)'
    BY <1>2, <2>1, <2>2, CallbackOwn DEF HopInv
  <2> QED
    BY <1>5, <2>1, <2>3, CallbackOwn
<1>6. CASE d # c
  <2>1. /\ at'[d] = at[d] /\ dest'[d] = dest[d] /\ context'[d] = context[d]
        /\ modified'[d] = modified[d] /\ seen'[d] = seen[d] /\ holds'[d] = holds[d]
    BY <1>1, <1>2, <1>6 DEF TypeOK
  <2> QED
    BY <1>1, <1>2, <1>4, <2>1, Untouched
<1> QED
  BY <1>5, <1>6

(* The invariant is inductive.                                             *)
LEMMA IInvStep == IInv /\ [Next]_vars => IInv'
<1> SUFFICES ASSUME IInv, [Next]_vars PROVE IInv'
  OBVIOUS
<1>1. TypeOK' /\ LoadInv' /\ Registration'
  BY TypeStep, DriverPart, RegistrationStep DEF IInv
<1>2. ASSUME NEW d \in Conns
      PROVE  ConnInv(d)' /\ HopInv(d)'
  <2>1. CASE UNCHANGED vars
    <3>1. ConnInv(d) /\ HopInv(d)
      BY DEF IInv
    <3> QED
      BY <2>1, <3>1, Untouched DEF vars, loadVars, wfpVars, countVars, svcVars, connVars, classifyVars
  <2> QED
    BY <2>1, OutsideStep, ConnectStep, InitRemoteStep, EstablishStep, ReclassifyStep,
       CallbackStepInv DEF Next
<1> QED
  BY <1>1, <1>2 DEF IInv

THEOREM Invariance == Spec => []IInv
BY InitIInv, IInvStep, PTL DEF Spec

(* The types, and that a connection is redirected with a context.          *)
THEOREM InterceptionTypeCorrect == Spec => []TypeOK
<1>1. IInv => TypeOK
  BY DEF IInv
<1> QED
  BY <1>1, Invariance, PTL

(* The proxy's own connections are not redirected while its registration   *)
(* stands, however registrations, unloads and callbacks interleave.        *)
THEOREM ProxyNotRedirected == Spec => []NoLoop
<1>1. IInv => NoLoop
  BY DEF IInv, ConnInv, HopInv, NoLoop
<1> QED
  BY <1>1, Invariance, PTL

(* The destination the application named is the one that is kept.          *)
THEOREM DestinationKept == Spec => []OriginKept
<1>1. IInv => OriginKept
  BY DEF IInv, ConnInv, OriginKept
<1> QED
  BY <1>1, Invariance, PTL

(* ClassifyCallback uses handles it has, and no exit of it keeps one.      *)
THEOREM CallbackReleases == Spec => []HandlesReleased
<1>1. IInv => HandlesReleased
  BY DEF IInv, ConnInv, HandlesReleased
<1> QED
  BY <1>1, Invariance, PTL

(* A driver that is gone has left nothing it could delete.                 *)
THEOREM DriverLeavesNothing == Spec => []NothingLeft
<1>1. IInv => NothingLeft
  BY LoadInvNothingLeft DEF IInv
<1> QED
  BY <1>1, Invariance, PTL

(* A filter of this driver has its callout registered, or was refused      *)
(* deletion.                                                               *)
THEOREM FilterHasCallout == Spec => []FilterBacked
<1>1. IInv => FilterBacked
  BY LoadInvFilterBacked DEF IInv
<1> QED
  BY <1>1, Invariance, PTL

-----------------------------------------------------------------------------
(* One service on one load of the driver.                                  *)

(* A registration is lost only when the driver goes.                       *)
LostIsOver ==
  /\ lost # {} => entry = "absent" /\ loads = MaxLoads
  /\ entry \in {"absent", "queue"} => pid = NoProcess /\ device # "open"

LEMMA LostStep ==
  ASSUME \A i, j \in Instances : i = j, MaxLoads = 1,
         IInv, LostIsOver, [Next]_vars
  PROVE  LostIsOver'
<1> USE DEF LostIsOver, loadVars, wfpVars, countVars
<1>2. CASE LoadStep
  <2>1. /\ lost' = IF pid' = pid THEN lost ELSE lost \cup Running
        /\ DriverEntry \/ DriverUnload \/ UnInitializeWfp
    BY <1>2 DEF LoadStep
  <2>2. entry # "absent" => loads = 1
    BY DEF IInv, LoadInv, PointInv, LoadTypeOK
  <2>3. CASE CreateDevice
    BY <2>1, <2>3 DEF CreateDevice
  <2>4. CASE InitializeQueue \/ OpenEngine
    BY <2>1, <2>2, <2>4 DEF InitializeQueue, OpenEngine, Absent
  <2>5. CASE CloseEngine
    BY <2>1, <2>2, <2>5 DEF CloseEngine, Absent
  <2>6. CASE WfpRegisterCallout \/ WfpAddCallout \/ WfpAddSublayer \/ WfpAddFilter \/ DriverUnload
    BY <2>1, <2>6 DEF WfpRegisterCallout, WfpAddCallout, WfpAddSublayer, WfpAddFilter, Fail,
       DriverUnload
  <2>7. CASE DeleteFilter \/ DeleteSublayer \/ DeleteCallout \/ UnregisterCallout
    BY <2>1, <2>7 DEF DeleteFilter, DeleteSublayer, DeleteCallout, UnregisterCallout
  <2> QED
    BY <2>1, <2>3, <2>4, <2>5, <2>6, <2>7 DEF DriverEntry, InitializeWfp, UnInitializeWfp
<1>3. ASSUME NEW i \in Instances, Register(i)
      PROVE  LostIsOver'
  <2>1. svc[i] = "off" /\ (lost' = lost \cup Running \/ lost' = lost)
    BY <1>3 DEF Register
  <2>2. Running = {}
    BY <2>1 DEF Running
  <2> QED
    BY <1>3, <2>1, <2>2 DEF Register
<1>4. CASE UNCHANGED <<loadVars, lost>>
  BY <1>4
<1>5. CASE \E i \in Instances : Bind(i) \/ ServiceExit(i)
  BY <1>4, <1>5 DEF Bind, ServiceExit
<1>6. CASE \E c \in Conns : Connect(c) \/ InitRemoteConnection(c) \/ Establish(c) \/ Reclassify(c)
  BY <1>4, <1>6 DEF Connect, InitRemoteConnection, Establish, Reclassify, svcVars
<1>7. CASE \E c \in Conns : ClassifyCallback(c)
  BY <1>4, <1>7, CallbackStep DEF IInv, svcVars
<1>8. CASE UNCHANGED vars
  BY <1>4, <1>8 DEF vars, svcVars
<1> QED
  BY <1>2, <1>3, <1>5, <1>6, <1>7, <1>8 DEF Next

(* With one instance of the service and one load of the driver the comment *)
(* in ClassifyCallback is true: a connection of the proxy application is   *)
(* recognised, whatever the callback read and whenever it did.             *)
THEOREM LoneProxyRecognised ==
  ASSUME \A i, j \in Instances : i = j, MaxLoads = 1
  PROVE  Spec => ProxyRecognised
<1>1. Init => LostIsOver
  BY DEF Init, LoadInit, LostIsOver
<1>2. IInv /\ LostIsOver /\ [Next]_vars => LostIsOver'
  BY LostStep
<1>3. IInv /\ LostIsOver /\ [Next]_vars =>
        [\A c \in Conns : c[2] > 0 /\ at[c] = "check" /\ at'[c] = "create"
                            => svc[Process(c)] # "listening"]_vars
  <2> SUFFICES ASSUME IInv, LostIsOver, Next,
                      NEW c \in Conns, c[2] > 0, at[c] = "check", at'[c] = "create"
               PROVE  FALSE
    OBVIOUS
  <2>1. registered /\ HopInv(c) /\ NothingLeft
    BY LoadInvNothingLeft DEF IInv, ConnInv, Classifying
  <2>2. lost = {}
    BY <2>1 DEF LostIsOver, NothingLeft
  <2>3. seen[c] = Process(c)
    BY <2>1, <2>2 DEF HopInv, Classifying
  <2>4. CASE \E d \in Conns : ClassifyCallback(d)
    <3>1. PICK d \in Conns : ClassifyCallback(d)
      BY <2>4
    <3>2. d = c
      BY <3>1, CallbackStep DEF IInv, TypeOK
    <3>3. Check(c)
      BY <3>1, <3>2 DEF ClassifyCallback, Check, RedirectHandleCreate,
         QueryConnectionRedirectState, AcquireClassifyHandle, AcquireWritableLayerDataPointer,
         PreviousVersion, Modify, ReleaseClassifyHandle, RedirectHandleDestroy, Step
    <3>4. at'[c] = "create" /\ at \in [Conns -> ConnStates]
      BY DEF IInv, TypeOK
    <3> QED
      BY <2>3, <3>3, <3>4 DEF Check, Step
  <2>5. CASE UNCHANGED at
    BY <2>5
  <2>6. CASE LoadStep \/ \E i \in Instances : Register(i) \/ Bind(i) \/ ServiceExit(i)
    BY <2>5, <2>6 DEF LoadStep, Register, Bind, ServiceExit, connVars
  <2>7. CASE \E d \in Conns : Connect(d) \/ InitRemoteConnection(d) \/ Establish(d) \/ Reclassify(d)
    BY <2>7 DEF Connect, InitRemoteConnection, Establish, Reclassify, FirstState, IInv, TypeOK
  <2> QED
    BY <2>4, <2>6, <2>7 DEF Next
<1> QED
  BY <1>1, <1>2, <1>3, Invariance, PTL DEF Spec, ProxyRecognised
=============================================================================
