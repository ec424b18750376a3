-------------------------- MODULE DriverLoadProofs --------------------------
(***************************************************************************)
(* Proofs about DriverLoad, for every bound and whichever steps fail:      *)
(* that a driver that is gone leaves nothing but what was refused          *)
(* deletion, and that a filter is backed. They are stated of the driver's  *)
(* steps; InterceptionProofs carries them over to the whole system.        *)
(***************************************************************************)
EXTENDS DriverLoad, TLAPS

LoadNext == DriverEntry \/ DriverUnload \/ UnInitializeWfp

(* What is open and registered at each point of DriverEntry and            *)
(* UnInitializeWfp.                                                        *)
PointInv ==
  /\ entry \in {"absent", "queue", "engine"} => ids = {} /\ ~engine
  /\ entry = "register" => ids = {}
  /\ device = "none" <=> entry = "absent"
  /\ loads = 0 => entry = "absent"
  /\ registered <=> "RegCalloutId" \in ids /\ entry # "close"
  /\ entry \in {"addCallout", "addSublayer", "addFilter", "loaded"} => "RegCalloutId" \in ids

(* What the ids say of the objects, while they may.                        *)
IdInv ==
  /\ entry = "loaded" => "FilterId" \in ids
  /\ entry \in {"addSublayer", "addFilter"} =>
       "filter" \notin objects /\ "callout" \in objects /\ "AddCalloutId" \in ids
  /\ entry = "addFilter" => "sublayer" \in objects /\ "sublayer" \notin refused
  /\ "FilterId" \in ids =>
       /\ entry \in {"loaded"} \cup Stopping
       /\ "RegCalloutId" \in ids /\ "AddCalloutId" \in ids
  /\ "FilterId" \in ids /\ entry \in {"loaded", "deleteFilter"} =>
       /\ "filter" \in objects /\ "callout" \in objects /\ "sublayer" \in objects
       /\ "filter" \notin refused /\ "callout" \notin refused /\ "sublayer" \notin refused
  /\ "AddCalloutId" \in ids /\ entry # "unregister" /\ entry # "close" =>
       "callout" \in objects /\ "callout" \notin refused

(* Which delete accounts for each object, unless it, or the filter that    *)
(* names it, was refused deletion.                                         *)
ObjectInv ==
  /\ \A o \in refused : o \in objects
  /\ "filter" \in objects => "callout" \in objects /\ "sublayer" \in objects
  /\ "filter" \in objects /\ "filter" \notin refused =>
       "FilterId" \in ids /\ entry \in {"loaded", "deleteFilter"}
  /\ "sublayer" \in objects /\ "filter" \notin refused /\ "sublayer" \notin refused =>
       entry \in {"addFilter", "loaded", "deleteFilter", "deleteSublayer"}
  /\ "callout" \in objects /\ "filter" \notin refused /\ "callout" \notin refused =>
       "AddCalloutId" \in ids /\ entry # "unregister" /\ entry # "close"

LoadInv == LoadTypeOK /\ PointInv /\ IdInv /\ ObjectInv

(* Nothing is there before the first load.                                 *)
LEMMA LoadInvInit == LoadInit => LoadInv
<1> SUFFICES ASSUME LoadInit PROVE LoadInv
  OBVIOUS
<1>1. LoadTypeOK
  <2>1. loads \in 0 .. MaxLoads /\ refusals \in 0 .. MaxRefused
    BY LoadsAssumption DEF LoadInit
  <2>2. entry = "absent" /\ device = "none" /\ engine = FALSE /\ registered = FALSE
    BY DEF LoadInit
  <2>3. ids = {} /\ objects = {} /\ refused = {}
    BY DEF LoadInit
  <2> QED
    BY <2>1, <2>2, <2>3 DEF LoadTypeOK
<1>2. PointInv /\ IdInv /\ ObjectInv
  BY DEF LoadInit, PointInv, IdInv, ObjectInv
<1> QED
  BY <1>1, <1>2 DEF LoadInv

(* A delete, refused or not, keeps the types.                              *)
LEMMA DeleteType ==
  ASSUME LoadTypeOK, NEW o \in Objects, Delete(o)
  PROVE  objects' \subseteq Objects /\ refused' \subseteq Objects /\ refusals' \in 0 .. MaxRefused
<1>1. objects' \subseteq Objects /\ refused' \subseteq Objects
  BY DEF Delete, LoadTypeOK
<1>2. refusals' \in 0 .. MaxRefused
  BY LoadsAssumption DEF Delete, LoadTypeOK
<1> QED
  BY <1>1, <1>2

(* Every step of DriverEntry, DriverUnload and UnInitializeWfp keeps it.   *)
LEMMA LoadInvStep == LoadInv /\ LoadNext => LoadInv'
<1> SUFFICES ASSUME LoadInv, LoadNext PROVE LoadInv'
  OBVIOUS
<1> USE DEF LoadInv, wfpVars, countVars
<1>1. CASE CreateDevice
  <2>1. LoadTypeOK'
    BY <1>1, LoadsAssumption DEF CreateDevice, LoadTypeOK, Starting, Stopping, Objects, Ids
  <2>2. PointInv'
    BY <1>1 DEF CreateDevice, PointInv, LoadTypeOK
  <2>3. IdInv'
    BY <1>1 DEF CreateDevice, PointInv, IdInv, ObjectInv, LoadTypeOK, Stopping
  <2>4. ObjectInv'
    BY <1>1 DEF CreateDevice, PointInv, IdInv, ObjectInv, LoadTypeOK, Stopping
  <2> QED
    BY <2>1, <2>2, <2>3, <2>4
<1>2. CASE InitializeQueue
  <2>1. LoadTypeOK'
    BY <1>2, LoadsAssumption DEF InitializeQueue, Absent, LoadTypeOK, Starting, Stopping, Objects, Ids
  <2>2. PointInv'
    BY <1>2 DEF InitializeQueue, Absent, PointInv, LoadTypeOK
  <2>3. IdInv'
    BY <1>2 DEF InitializeQueue, Absent, PointInv, IdInv, ObjectInv, LoadTypeOK, Stopping
  <2>4. ObjectInv'
    BY <1>2 DEF InitializeQueue, Absent, PointInv, IdInv, ObjectInv, LoadTypeOK, Stopping
  <2> QED
    BY <2>1, <2>2, <2>3, <2>4
<1>3. CASE OpenEngine
  <2>1. LoadTypeOK'
    BY <1>3, LoadsAssumption DEF OpenEngine, Absent, LoadTypeOK, Starting, Stopping, Objects, Ids
  <2>2. PointInv'
    BY <1>3 DEF OpenEngine, Absent, PointInv, LoadTypeOK
  <2>3. IdInv'
    BY <1>3 DEF OpenEngine, Absent, PointInv, IdInv, ObjectInv, LoadTypeOK, Stopping
  <2>4. ObjectInv'
    BY <1>3 DEF OpenEngine, Absent, PointInv, IdInv, ObjectInv, LoadTypeOK, Stopping
  <2> QED
    BY <2>1, <2>2, <2>3, <2>4
<1>4. CASE WfpRegisterCallout
  <2>1. LoadTypeOK'
    BY <1>4, LoadsAssumption DEF WfpRegisterCallout, Fail, LoadTypeOK, Starting, Stopping, Objects, Ids
  <2>2. PointInv'
    BY <1>4 DEF WfpRegisterCallout, Fail, PointInv, LoadTypeOK
  <2>3. IdInv'
    BY <1>4 DEF WfpRegisterCallout, Fail, PointInv, IdInv, ObjectInv, LoadTypeOK, Stopping
  <2>4. ObjectInv'
    BY <1>4 DEF WfpRegisterCallout, Fail, PointInv, IdInv, ObjectInv, LoadTypeOK, Stopping
  <2> QED
    BY <2>1, <2>2, <2>3, <2>4
<1>5. CASE WfpAddCallout
  <2>1. LoadTypeOK'
    BY <1>5, LoadsAssumption DEF WfpAddCallout, Fail, LoadTypeOK, Starting, Stopping, Objects, Ids
  <2>2. PointInv'
    BY <1>5 DEF WfpAddCallout, Fail, PointInv, LoadTypeOK
  <2>3. IdInv'
    BY <1>5 DEF WfpAddCallout, Fail, PointInv, IdInv, ObjectInv, LoadTypeOK, Stopping
  <2>4. ObjectInv'
    BY <1>5 DEF WfpAddCallout, Fail, PointInv, IdInv, ObjectInv, LoadTypeOK, Stopping
  <2> QED
    BY <2>1, <2>2, <2>3, <2>4
<1>6. CASE WfpAddSublayer
  <2>1. LoadTypeOK'
    BY <1>6, LoadsAssumption DEF WfpAddSublayer, Fail, LoadTypeOK, Starting, Stopping, Objects, Ids
  <2>2. PointInv'
    BY <1>6 DEF WfpAddSublayer, Fail, PointInv, LoadTypeOK
  <2>3. IdInv'
    BY <1>6 DEF WfpAddSublayer, Fail, PointInv, IdInv, ObjectInv, LoadTypeOK, Stopping
  <2>4. ObjectInv'
    BY <1>6 DEF WfpAddSublayer, Fail, PointInv, IdInv, ObjectInv, LoadTypeOK, Stopping
  <2> QED
    BY <2>1, <2>2, <2>3, <2>4
<1>7. CASE WfpAddFilter
  <2>1. LoadTypeOK'
    BY <1>7, LoadsAssumption DEF WfpAddFilter, Fail, LoadTypeOK, Starting, Stopping, Objects, Ids
  <2>2. PointInv'
    BY <1>7 DEF WfpAddFilter, Fail, PointInv, LoadTypeOK
  <2>3. IdInv'
    BY <1>7 DEF WfpAddFilter, Fail, PointInv, IdInv, ObjectInv, LoadTypeOK, Stopping
  <2>4. ObjectInv'
    BY <1>7 DEF WfpAddFilter, Fail, PointInv, IdInv, ObjectInv, LoadTypeOK, Stopping
  <2> QED
    BY <2>1, <2>2, <2>3, <2>4
<1>8. CASE DriverUnload
  <2>1. LoadTypeOK'
    BY <1>8, LoadsAssumption DEF DriverUnload, LoadTypeOK, Starting, Stopping, Objects, Ids
  <2>2. PointInv'
    BY <1>8 DEF DriverUnload, PointInv, LoadTypeOK
  <2>3. IdInv'
    BY <1>8 DEF DriverUnload, PointInv, IdInv, ObjectInv, LoadTypeOK, Stopping
  <2>4. ObjectInv'
    BY <1>8 DEF DriverUnload, PointInv, IdInv, ObjectInv, LoadTypeOK, Stopping
  <2> QED
    BY <2>1, <2>2, <2>3, <2>4
<1>9. CASE DeleteFilter
  <2>1. LoadTypeOK'
    <3>1. /\ objects' \subseteq Objects /\ refused' \subseteq Objects /\ refusals' \in 0 .. MaxRefused
      <4>1. CASE Delete("filter")
        BY <4>1, DeleteType DEF Objects
      <4>2. CASE UNCHANGED <<objects, refused, refusals>>
        BY <4>2 DEF LoadTypeOK
      <4> QED
        BY <1>9, <4>1, <4>2 DEF DeleteFilter
    <3>2. entry' \in Stopping /\ UNCHANGED <<device, engine, ids, registered, loads>>
      BY <1>9 DEF DeleteFilter, Stopping
    <3> QED
      BY <3>1, <3>2 DEF LoadTypeOK
  <2>2. PointInv'
    BY <1>9 DEF DeleteFilter, Delete, PointInv, LoadTypeOK
  <2>3. IdInv'
    BY <1>9 DEF DeleteFilter, Delete, PointInv, IdInv, ObjectInv, LoadTypeOK, Stopping
  <2>4. ObjectInv'
    BY <1>9 DEF DeleteFilter, Delete, PointInv, IdInv, ObjectInv, LoadTypeOK, Stopping
  <2> QED
    BY <2>1, <2>2, <2>3, <2>4
<1>10. CASE DeleteSublayer
  <2>1. LoadTypeOK'
    <3>1. /\ objects' \subseteq Objects /\ refused' \subseteq Objects /\ refusals' \in 0 .. MaxRefused
      <4>1. CASE Delete("sublayer")
        BY <4>1, DeleteType DEF Objects
      <4>2. CASE UNCHANGED <<objects, refused, refusals>>
        BY <4>2 DEF LoadTypeOK
      <4> QED
        BY <1>10, <4>1, <4>2 DEF DeleteSublayer, DeleteNamed
    <3>2. entry' \in Stopping /\ UNCHANGED <<device, engine, ids, registered, loads>>
      BY <1>10 DEF DeleteSublayer, Stopping
    <3> QED
      BY <3>1, <3>2 DEF LoadTypeOK
  <2>2. PointInv'
    BY <1>10 DEF DeleteSublayer, DeleteNamed, Delete, PointInv, LoadTypeOK
  <2>3. IdInv'
    BY <1>10 DEF DeleteSublayer, DeleteNamed, Delete, PointInv, IdInv, ObjectInv, LoadTypeOK, Stopping
  <2>4. ObjectInv'
    BY <1>10 DEF DeleteSublayer, DeleteNamed, Delete, PointInv, IdInv, ObjectInv, LoadTypeOK, Stopping
  <2> QED
    BY <2>1, <2>2, <2>3, <2>4
<1>11. CASE DeleteCallout
  <2>1. LoadTypeOK'
    <3>1. /\ objects' \subseteq Objects /\ refused' \subseteq Objects /\ refusals' \in 0 .. MaxRefused
      <4>1. CASE Delete("callout")
        BY <4>1, DeleteType DEF Objects
      <4>2. CASE UNCHANGED <<objects, refused, refusals>>
        BY <4>2 DEF LoadTypeOK
      <4> QED
        BY <1>11, <4>1, <4>2 DEF DeleteCallout, DeleteNamed
    <3>2. entry' \in Stopping /\ UNCHANGED <<device, engine, ids, registered, loads>>
      BY <1>11 DEF DeleteCallout, Stopping
    <3> QED
      BY <3>1, <3>2 DEF LoadTypeOK
  <2>2. PointInv'
    BY <1>11 DEF DeleteCallout, DeleteNamed, Delete, PointInv, LoadTypeOK
  <2>3. IdInv'
    BY <1>11 DEF DeleteCallout, DeleteNamed, Delete, PointInv, IdInv, ObjectInv, LoadTypeOK, Stopping
  <2>4. ObjectInv'
    BY <1>11 DEF DeleteCallout, DeleteNamed, Delete, PointInv, IdInv, ObjectInv, LoadTypeOK, Stopping
  <2> QED
    BY <2>1, <2>2, <2>3, <2>4
<1>12. CASE UnregisterCallout
  <2>1. LoadTypeOK'
    BY <1>12, LoadsAssumption DEF UnregisterCallout, LoadTypeOK, Starting, Stopping, Objects, Ids
  <2>2. PointInv'
    BY <1>12 DEF UnregisterCallout, PointInv, LoadTypeOK
  <2>3. IdInv'
    BY <1>12 DEF UnregisterCallout, PointInv, IdInv, ObjectInv, LoadTypeOK, Stopping
  <2>4. ObjectInv'
    BY <1>12 DEF UnregisterCallout, PointInv, IdInv, ObjectInv, LoadTypeOK, Stopping
  <2> QED
    BY <2>1, <2>2, <2>3, <2>4
<1>13. CASE CloseEngine
  <2>1. LoadTypeOK'
    BY <1>13, LoadsAssumption DEF CloseEngine, Absent, LoadTypeOK, Starting, Stopping, Objects, Ids
  <2>2. PointInv'
    BY <1>13 DEF CloseEngine, Absent, PointInv, LoadTypeOK
  <2>3. IdInv'
    BY <1>13 DEF CloseEngine, Absent, PointInv, IdInv, ObjectInv, LoadTypeOK, Stopping
  <2>4. ObjectInv'
    BY <1>13 DEF CloseEngine, Absent, PointInv, IdInv, ObjectInv, LoadTypeOK, Stopping
  <2> QED
    BY <2>1, <2>2, <2>3, <2>4
<1> QED
  BY <1>1, <1>2, <1>3, <1>4, <1>5, <1>6, <1>7, <1>8, <1>9, <1>10, <1>11, <1>12, <1>13 DEF LoadNext, DriverEntry, InitializeWfp, UnInitializeWfp

(* What does not touch the driver keeps it; the process id may change.     *)
LEMMA LoadInvStutter ==
  LoadInv /\ UNCHANGED <<entry, device, wfpVars, countVars>> => LoadInv'
<1> SUFFICES ASSUME LoadInv, UNCHANGED <<entry, device, wfpVars, countVars>> PROVE LoadInv'
  OBVIOUS
<1>1. LoadTypeOK'
  BY DEF LoadInv, LoadTypeOK, wfpVars, countVars
<1>2. (PointInv /\ IdInv /\ ObjectInv)'
  BY DEF LoadInv, PointInv, IdInv, ObjectInv, wfpVars, countVars
<1> QED
  BY <1>1, <1>2 DEF LoadInv

LEMMA LoadInvNothingLeft == LoadInv => NothingLeft
BY DEF LoadInv, LoadTypeOK, PointInv, IdInv, ObjectInv, NothingLeft, Objects

LEMMA LoadInvFilterBacked == LoadInv => FilterBacked
BY DEF LoadInv, LoadTypeOK, PointInv, IdInv, ObjectInv, FilterBacked
=============================================================================
