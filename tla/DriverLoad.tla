----------------------------- MODULE DriverLoad -----------------------------
(***************************************************************************)
(* Loading and unloading MyNetworkFilter: DriverEntry creates the control  *)
(* device, then InitializeWfp opens the filter engine, registers the       *)
(* callout with the kernel and adds callout, sublayer and filter to the    *)
(* base filtering engine, in this order. Each step may fail, and           *)
(* UnInitializeWfp then has to undo what is there, as it does on unload.   *)
(* The session of the engine is not dynamic: what is not deleted outlives  *)
(* the driver. UnInitializeWfp looks at no result: a delete may be refused *)
(* and the next one is tried all the same.                                 *)
(*                                                                         *)
(* A definition whose comment begins "Fault:" is a wrong version of the    *)
(* definition after it and is used nowhere.                                *)
(***************************************************************************)
EXTENDS Naturals, FiniteSets

CONSTANTS
  MaxLoads,  \* bound: how often the driver is started
  MaxRefused, \* bound: how many deletes are refused for no reason of the driver
  NoProcess  \* UserModeAppProcessId = 0

ASSUME LoadsAssumption == MaxLoads \in Nat /\ MaxRefused \in Nat

VARIABLES
  entry,      \* where DriverEntry or UnInitializeWfp is
  device,     \* the control device: "none", "created", "open" to processes
  pid,        \* devContext->UserModeAppProcessId
  engine,     \* FilterEngineHandle is an open handle
  ids,        \* which of RegCalloutId, AddCalloutId, FilterId are not 0
  registered, \* ClassifyCallback is registered with the kernel
  objects,    \* what the base filtering engine holds of this driver
  loads,      \* how often the driver was started
  refused,    \* objects left behind because their delete was refused
  refusals    \* how many deletes were refused

wfpVars == <<engine, ids, registered, objects>>
countVars == <<loads, refused, refusals>>
loadVars == <<entry, device, pid, wfpVars, countVars>>

Objects == {"callout", "sublayer", "filter"}
Ids == {"RegCalloutId", "AddCalloutId", "FilterId"}
Starting == {"queue", "engine", "register", "addCallout", "addSublayer", "addFilter"}
Stopping == {"deleteFilter", "deleteSublayer", "deleteCallout", "unregister", "close"}

LoadInit ==
  /\ entry = "absent" /\ device = "none" /\ pid = NoProcess
  /\ engine = FALSE /\ ids = {} /\ registered = FALSE
  /\ objects = {} /\ loads = 0 /\ refused = {} /\ refusals = 0

-----------------------------------------------------------------------------
(* InitDriverObjects up to the device; a failure before it leaves nothing. *)
CreateDevice ==
  /\ entry = "absent" /\ loads < MaxLoads
  /\ entry' = "queue" /\ device' = "created" /\ loads' = loads + 1
  /\ UNCHANGED <<pid, wfpVars, refused, refusals>>

(* DriverEntry fails: the framework deletes the device, with its context,  *)
(* and the image goes.                                                     *)
Absent == entry' = "absent" /\ device' = "none" /\ pid' = NoProcess

(* InitializeQueue clears the device's context and creates link and        *)
(* queues; then WdfControlFinishInitializing lets processes in.            *)
InitializeQueue ==
  /\ entry = "queue"
  /\ \/ entry' = "engine" /\ device' = "open" /\ pid' = NoProcess
     \/ Absent
  /\ UNCHANGED <<wfpVars, countVars>>

(* FwpmEngineOpen0: without a handle UnInitializeWfp does nothing.         *)
OpenEngine ==
  /\ entry = "engine"
  /\ \/ engine' = TRUE /\ entry' = "register" /\ UNCHANGED <<device, pid>>
     \/ Absent /\ UNCHANGED engine
  /\ UNCHANGED <<ids, registered, objects, countVars>>

(* One of the following steps fails, which calls UnInitializeWfp.          *)
Fail == entry' = "deleteFilter" /\ UNCHANGED <<ids, registered, objects>>

(* Fault: the result of the registration is not looked at.                 *)
WfpRegisterUnchecked ==
  /\ entry = "register" /\ entry' = "addCallout"
  /\ \/ registered' = TRUE /\ ids' = ids \cup {"RegCalloutId"}
     \/ UNCHANGED <<registered, ids>>
  /\ UNCHANGED <<device, pid, engine, objects, countVars>>

WfpRegisterCallout ==
  /\ entry = "register"
  /\ \/ /\ registered' = TRUE /\ ids' = ids \cup {"RegCalloutId"}
        /\ entry' = "addCallout" /\ UNCHANGED objects
     \/ Fail
  /\ UNCHANGED <<device, pid, engine, countVars>>

(* An object left from before makes the engine refuse a second of its key. *)
WfpAddCallout ==
  /\ entry = "addCallout"
  /\ \/ /\ "callout" \notin objects
        /\ objects' = objects \cup {"callout"} /\ ids' = ids \cup {"AddCalloutId"}
        /\ entry' = "addSublayer" /\ UNCHANGED registered
     \/ Fail
  /\ UNCHANGED <<device, pid, engine, countVars>>

WfpAddSublayer ==
  /\ entry = "addSublayer"
  /\ \/ /\ "sublayer" \notin objects
        /\ objects' = objects \cup {"sublayer"}
        /\ entry' = "addFilter" /\ UNCHANGED <<ids, registered>>
     \/ Fail
  /\ UNCHANGED <<device, pid, engine, countVars>>

WfpAddFilter ==
  /\ entry = "addFilter"
  /\ \/ /\ objects' = objects \cup {"filter"} /\ ids' = ids \cup {"FilterId"}
        /\ entry' = "loaded" /\ UNCHANGED registered
     \/ Fail
  /\ UNCHANGED <<device, pid, engine, countVars>>

(* The driver is told to unload: nobody opens the device any more.         *)
DriverUnload ==
  /\ entry = "loaded"
  /\ entry' = "deleteFilter" /\ device' = "created"
  /\ UNCHANGED <<pid, wfpVars, countVars>>

-----------------------------------------------------------------------------
(* The engine deletes o, or refuses to.                                    *)
Delete(o) ==
  \/ objects' = objects \ {o} /\ refused' = refused \ {o} /\ UNCHANGED refusals
  \/ /\ refusals < MaxRefused /\ o \in objects
     /\ refusals' = refusals + 1 /\ refused' = refused \cup {o} /\ UNCHANGED objects

(* Callout and sublayer cannot be deleted while a filter names them.       *)
DeleteNamed(o) ==
  IF "filter" \in objects THEN UNCHANGED <<objects, refused, refusals>> ELSE Delete(o)

DeleteFilter ==
  /\ entry = "deleteFilter" /\ entry' = "deleteSublayer"
  /\ IF "FilterId" \in ids THEN Delete("filter") ELSE UNCHANGED <<objects, refused, refusals>>
  /\ UNCHANGED <<device, pid, engine, ids, registered, loads>>

(* The sublayer has no id: it is deleted by key, whoever added it.         *)
DeleteSublayer ==
  /\ entry = "deleteSublayer" /\ entry' = "deleteCallout"
  /\ DeleteNamed("sublayer")
  /\ UNCHANGED <<device, pid, engine, ids, registered, loads>>

(* Fault: another object's id is tested.                                   *)
DeleteCalloutOther ==
  /\ entry = "deleteCallout" /\ entry' = "unregister"
  /\ IF "FilterId" \in ids THEN DeleteNamed("callout") ELSE UNCHANGED <<objects, refused, refusals>>
  /\ UNCHANGED <<device, pid, engine, ids, registered, loads>>

DeleteCallout ==
  /\ entry = "deleteCallout" /\ entry' = "unregister"
  /\ IF "AddCalloutId" \in ids THEN DeleteNamed("callout") ELSE UNCHANGED <<objects, refused, refusals>>
  /\ UNCHANGED <<device, pid, engine, ids, registered, loads>>

UnregisterCallout ==
  /\ entry = "unregister" /\ entry' = "close"
  /\ registered' = (registered /\ "RegCalloutId" \notin ids)
  /\ UNCHANGED <<device, pid, engine, ids, objects, countVars>>

(* FwpmEngineClose; the driver's image and its globals go.                 *)
CloseEngine ==
  /\ entry = "close"
  /\ Absent /\ engine' = FALSE /\ ids' = {}
  /\ UNCHANGED <<registered, objects, countVars>>

InitializeWfp == OpenEngine \/ WfpRegisterCallout \/ WfpAddCallout \/ WfpAddSublayer \/ WfpAddFilter
UnInitializeWfp == DeleteFilter \/ DeleteSublayer \/ DeleteCallout \/ UnregisterCallout \/ CloseEngine
DriverEntry == CreateDevice \/ InitializeQueue \/ InitializeWfp

-----------------------------------------------------------------------------
(* Properties.                                                             *)

LoadTypeOK ==
  /\ entry \in {"absent", "loaded"} \cup Starting \cup Stopping
  /\ device \in {"none", "created", "open"}
  /\ engine \in BOOLEAN /\ registered \in BOOLEAN
  /\ ids \subseteq Ids /\ objects \subseteq Objects /\ refused \subseteq Objects
  /\ loads \in 0 .. MaxLoads /\ refusals \in 0 .. MaxRefused

(* However far DriverEntry came, and wherever it is interrupted by a       *)
(* failure, a driver that is gone leaves no registration, no open engine,  *)
(* and no object but for a delete that was refused; a sublayer left behind *)
(* goes with the next attempt to load.                                     *)
NothingLeft ==
  entry = "absent" =>
    ~registered /\ ~engine /\ device = "none" /\ (refused = {} => objects = {})

(* A filter names this driver's callout, so the platform asks the driver   *)
(* about every connection the filter matches, and blocks the connection    *)
(* with no callout registered. As long as no delete was refused a filter   *)
(* has callout, sublayer, registration and device behind it.               *)
FilterBacked ==
  "filter" \in objects /\ "filter" \notin refused =>
    /\ registered /\ {"callout", "sublayer"} \subseteq objects
    /\ device # "none" /\ entry \in {"loaded", "deleteFilter"}
=============================================================================
