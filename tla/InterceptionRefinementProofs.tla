-------------------- MODULE InterceptionRefinementProofs --------------------
(***************************************************************************)
(* Interception implements Redirection, for every number of applications,  *)
(* service instances, hops and loads of the driver. The invariant of       *)
(* InterceptionProofs says where a hop goes and what it costs; what it     *)
(* lacks is that the hops of one application form a chain, of which only   *)
(* the last is still anybody's business.                                   *)
(***************************************************************************)
EXTENDS InterceptionProofs

(* A hop that another one follows has been carried on.                     *)
ChainInv ==
  \A c, d \in Conns :
    c[1] = d[1] /\ c[2] < d[2] /\ at[d] # "unused" => at[c] = "carried"

(* A connection has an acceptor from the moment it is accepted.            *)
AcceptedInv ==
  \A c \in Conns : acceptor[c] # NoProcess <=> at[c] \in {"accepted", "carried", "dropped"}

RInv == IInv /\ ChainInv /\ AcceptedInv

(* What the state of the last hop says of the journey.                     *)
Stage(s) ==
  IF s \in Classifying \cup {"classified", "accepted"} THEN "underway"
  ELSE IF s = "direct" THEN "arrived" ELSE "failed"

(* Over: nobody does anything more for this hop.                           *)
Past == {"unused", "carried"}

LEMMA HopPair ==
  ASSUME NEW c \in Conns
  PROVE  c = <<c[1], c[2]>> /\ c[1] \in Apps /\ c[2] \in 0 .. MaxHops /\ c[2] \in Nat
BY InterceptionAssumption DEF Conns

(* Only one hop of an application, its last, is neither unused nor carried *)
(* on.                                                                     *)
LEMMA OneTip ==
  ASSUME ChainInv, NEW c \in Conns, at[c] \notin Past,
         NEW d \in Conns, d[1] = c[1], d # c
  PROVE  at[d] \in Past
<1>1. c = <<c[1], c[2]>> /\ d = <<d[1], d[2]>> /\ c[2] \in Nat /\ d[2] \in Nat
  BY HopPair
<1>2. d[2] < c[2] \/ c[2] < d[2]
  BY <1>1
<1> QED
  BY <1>2 DEF ChainInv, Past

(* The journey of an application is that of its last hop.                  *)
LEMMA TipJourney ==
  ASSUME ChainInv, NEW c \in Conns, at[c] \notin Past
  PROVE  /\ Journey(c[1]) = Stage(at[c])
         /\ Reached(c[1]) = IF at[c] = "direct" THEN {dest[c]} ELSE {}
<1>1. \A d \in Hops(c[1]) : d \in Conns /\ (d = c \/ at[d] \in Past)
  BY OneTip DEF Hops
<1>2. c \in Hops(c[1])
  BY DEF Hops
<1>3. Journey(c[1]) = Stage(at[c])
  BY <1>1, <1>2 DEF Journey, Stage, Underway, Past, Classifying
<1>4. Reached(c[1]) = IF at[c] = "direct" THEN {dest[c]} ELSE {}
  BY <1>1, <1>2 DEF Reached, Past
<1> QED
  BY <1>3, <1>4

TipsTell ==
  \A c \in Conns : at[c] \notin Past =>
    /\ Journey(c[1]) = Stage(at[c])
    /\ Reached(c[1]) = IF at[c] = "direct" THEN {dest[c]} ELSE {}

LEMMA ChainTells == ChainInv => TipsTell
BY TipJourney DEF TipsTell

(* The same in the next state.                                             *)
LEMMA ChainTellsNext == ChainInv' => TipsTell'
BY ChainTells, PTL

-----------------------------------------------------------------------------
(* The chain stays one: a hop that moves on is the last of its chain, and  *)
(* only a connection of the application itself begins without another.     *)
LEMMA MoveKeepsChain ==
  ASSUME TypeOK, ChainInv, NEW c \in Conns, at[c] # "carried",
         at[c] # "unused" \/ c[2] = 0,
         at' = [at EXCEPT ![c] = at'[c]]
  PROVE  ChainInv'
<1> SUFFICES ASSUME NEW x \in Conns, NEW y \in Conns,
                    x[1] = y[1], x[2] < y[2], at'[y] # "unused"
             PROVE  at'[x] = "carried"
  BY DEF ChainInv
<1>1. x[2] \in Nat /\ y[2] \in Nat
  BY HopPair
<1>2. CASE y = c
  <2>1. at[x] = "carried" /\ x # c
    BY <1>1, <1>2 DEF ChainInv
  <2> QED
    BY <2>1 DEF TypeOK
<1>3. CASE y # c
  <2>1. at[x] = "carried"
    BY <1>3 DEF ChainInv, TypeOK
  <2> QED
    BY <2>1 DEF TypeOK
<1> QED
  BY <1>2, <1>3

LEMMA CarryKeepsChain ==
  ASSUME TypeOK, ChainInv, NEW c \in Conns, at[c] = "accepted", c[2] < MaxHops,
         at' = [at EXCEPT ![c] = "carried", ![NextHop(c)] = FirstState]
  PROVE  ChainInv'
<1> DEFINE n == NextHop(c)
<1>1. n \in Conns /\ n[1] = c[1] /\ n[2] = c[2] + 1 /\ n # c
  BY HopFacts DEF NextHop
<1> HIDE DEF n
<1>2. at'[c] = "carried" /\ \A d \in Conns : d # c /\ d # n => at'[d] = at[d]
  BY <1>1 DEF TypeOK, n
<1> SUFFICES ASSUME NEW x \in Conns, NEW y \in Conns,
                    x[1] = y[1], x[2] < y[2], at'[y] # "unused"
             PROVE  at'[x] = "carried"
  BY DEF ChainInv
<1>3. /\ x = <<x[1], x[2]>> /\ c = <<c[1], c[2]>> /\ n = <<n[1], n[2]>>
      /\ x[2] \in Nat /\ y[2] \in Nat /\ c[2] \in Nat
  BY <1>1, HopPair
<1>4. CASE y = n
  <2>1. CASE x[2] = c[2]
    BY <1>1, <1>2, <1>3, <1>4, <2>1
  <2>2. CASE x[2] < c[2]
    <3>1. at[x] = "carried"
      BY <1>1, <1>4, <2>2 DEF ChainInv
    <3>2. x # n
      BY <1>1, <1>3, <2>2
    <3> QED
      BY <1>2, <3>1, <3>2
  <2> QED
    BY <1>1, <1>3, <1>4, <2>1, <2>2
<1>5. CASE y # n
  <2>1. at[y] # "unused"
    BY <1>2, <1>5
  <2>2. at[x] = "carried"
    BY <2>1 DEF ChainInv
  <2>3. x # n
    <3>1. SUFFICES ASSUME x = n PROVE FALSE
      OBVIOUS
    <3>2. c[1] = y[1] /\ c[2] < y[2]
      BY <1>1, <1>3, <3>1
    <3> QED
      BY <2>1, <3>2 DEF ChainInv
  <2> QED
    BY <1>2, <2>2, <2>3
<1> QED
  BY <1>4, <1>5

(* What the steps are to the places of the connections. A step of the      *)
(* driver or of a service's main moves none.                               *)
LEMMA OutsideMoves ==
  ASSUME LoadStep \/ (\E i \in Instances : Register(i) \/ Bind(i) \/ ServiceExit(i)) \/ UNCHANGED vars
  PROVE  /\ UNCHANGED <<at, dest, acceptor>>
         /\ lost' = lost \/ lost' = lost \cup Running
BY DEF LoadStep, Register, Bind, ServiceExit, vars, svcVars, connVars

(* The invariant holds at the start, and every step keeps it.              *)
LEMMA InitRInv == Init => RInv
BY InitIInv DEF Init, RInv, ChainInv, AcceptedInv

LEMMA RInvStep == RInv /\ [Next]_vars => RInv'
<1> SUFFICES ASSUME RInv, [Next]_vars PROVE ChainInv' /\ AcceptedInv'
  BY IInvStep DEF RInv
<1>1. TypeOK /\ ChainInv /\ AcceptedInv
  BY DEF RInv, IInv
<1>2. CASE LoadStep \/ (\E i \in Instances : Register(i) \/ Bind(i) \/ ServiceExit(i)) \/ UNCHANGED vars
  BY <1>1, <1>2, OutsideMoves DEF ChainInv, AcceptedInv
<1>3. ASSUME NEW c \in Conns, Connect(c)
      PROVE  ChainInv' /\ AcceptedInv'
  <2>1. /\ at[c] = "unused" /\ c[2] = 0 /\ at' = [at EXCEPT ![c] = FirstState]
        /\ acceptor' = acceptor
    BY <1>3 DEF Connect
  <2>2. at' = [at EXCEPT ![c] = at'[c]] /\ at'[c] = FirstState
    BY <1>1, <2>1 DEF TypeOK
  <2>3. AcceptedInv'
    BY <1>1, <2>1, <2>2 DEF AcceptedInv, TypeOK, FirstState
  <2> QED
    BY <1>1, <2>1, <2>2, <2>3, MoveKeepsChain
<1>4. ASSUME NEW c \in Conns, InitRemoteConnection(c)
      PROVE  ChainInv' /\ AcceptedInv'
  <2>1. at[c] = "accepted" /\ c[2] < MaxHops /\ acceptor' = acceptor
    BY <1>4 DEF InitRemoteConnection
  <2>2. CASE at' = [at EXCEPT ![c] = "dropped"]
    <3>1. at' = [at EXCEPT ![c] = at'[c]]
      BY <1>1, <2>2 DEF TypeOK
    <3>2. AcceptedInv'
      BY <1>1, <2>1, <2>2 DEF AcceptedInv, TypeOK
    <3> QED
      BY <1>1, <2>1, <3>1, <3>2, MoveKeepsChain
  <2>3. CASE at' = [at EXCEPT ![c] = "carried", ![NextHop(c)] = FirstState]
    <3>1. NextHop(c) \in Conns /\ NextHop(c) # c
      BY <2>1, HopFacts
    <3>2. at[NextHop(c)] = "unused"
      <4>1. NextHop(c)[1] = c[1] /\ c[2] < NextHop(c)[2]
        BY <3>1, HopPair DEF NextHop
      <4> QED
        BY <1>1, <2>1, <3>1, <4>1 DEF ChainInv
    <3>3. AcceptedInv'
      BY <1>1, <2>1, <2>3, <3>1, <3>2 DEF AcceptedInv, TypeOK, FirstState
    <3> QED
      BY <1>1, <2>1, <2>3, <3>3, CarryKeepsChain
  <2> QED
    BY <1>4, <2>2, <2>3 DEF InitRemoteConnection
<1>5. ASSUME NEW c \in Conns, Establish(c)
      PROVE  ChainInv' /\ AcceptedInv'
  <2>1. /\ at[c] = "classified" /\ at' = [at EXCEPT ![c] = at'[c]]
        /\ acceptor' = [acceptor EXCEPT ![c] = acceptor'[c]]
        /\ \/ at'[c] = "accepted" /\ acceptor'[c] \in Instances
           \/ at'[c] \in {"direct", "unreachable"} /\ acceptor'[c] = acceptor[c]
    BY <1>1, <1>5 DEF Establish, TypeOK
  <2>2. AcceptedInv'
    BY <1>1, <2>1, InterceptionAssumption DEF AcceptedInv, TypeOK
  <2> QED
    BY <1>1, <2>1, <2>2, MoveKeepsChain
<1>6. ASSUME NEW c \in Conns, Reclassify(c) \/ ClassifyCallback(c)
      PROVE  ChainInv' /\ AcceptedInv'
  <2>1. /\ at[c] \in Classifying \cup {"classified"} /\ at'[c] \in Classifying \cup {"classified"}
        /\ at' = [at EXCEPT ![c] = at'[c]] /\ acceptor' = acceptor
    BY <1>1, <1>6, CallbackStep DEF Reclassify, TypeOK, Classifying
  <2>2. AcceptedInv'
    BY <1>1, <2>1 DEF AcceptedInv, TypeOK, Classifying
  <2> QED
    BY <1>1, <2>1, <2>2, MoveKeepsChain DEF Classifying
<1> QED
  BY <1>2, <1>3, <1>4, <1>5, <1>6 DEF Next

(* Only the last hop of an application is still on its way.                *)
THEOREM HopsChain == Spec => []RInv
BY InitRInv, RInvStep, PTL DEF Spec

-----------------------------------------------------------------------------
(* The states of Redirection, as functions.                                *)
Journeys == [a \in Apps |-> Journey(a)]
Reaches == [a \in Apps |-> Reached(a)]

(* A step that touches the hops of one application only is, to             *)
(* Redirection, what it makes of the last of them.                         *)
LEMMA OneJourney ==
  ASSUME ChainInv', NEW t \in Conns, at'[t] \notin Past,
         \A d \in Conns : d[1] # t[1] => at'[d] = at[d] /\ dest'[d] = dest[d]
  PROVE  /\ Journeys' = [Journeys EXCEPT ![t[1]] = Stage(at'[t])]
         /\ Reaches' = [Reaches EXCEPT ![t[1]] = IF at'[t] = "direct" THEN {dest'[t]} ELSE {}]
<1>1. /\ Journey(t[1])' = Stage(at'[t])
      /\ Reached(t[1])' = IF at'[t] = "direct" THEN {dest'[t]} ELSE {}
  BY ChainTellsNext DEF TipsTell
<1>2. ASSUME NEW a \in Apps, a # t[1]
      PROVE  Journey(a)' = Journey(a) /\ Reached(a)' = Reached(a)
  <2>1. \A d \in Hops(a) : d \in Conns /\ at'[d] = at[d] /\ dest'[d] = dest[d]
    BY <1>2 DEF Hops
  <2>2. Journey(a)' = Journey(a)
    BY <2>1 DEF Journey, Underway
  <2>3. Reached(a)' = Reached(a)
    BY <2>1 DEF Reached
  <2> QED
    BY <2>2, <2>3
<1>3. Journeys' = [Journeys EXCEPT ![t[1]] = Stage(at'[t])]
  BY <1>1, <1>2 DEF Journeys
<1>4. Reaches' = [Reaches EXCEPT ![t[1]] = IF at'[t] = "direct" THEN {dest'[t]} ELSE {}]
  BY <1>1, <1>2 DEF Reaches
<1> QED
  BY <1>3, <1>4

(* Where the journey of a hop's application is.                            *)
LEMMA TipAt ==
  ASSUME ChainInv, NEW t \in Conns, at[t] \notin Past
  PROVE  /\ t[1] \in Apps
         /\ Journeys[t[1]] = Stage(at[t])
         /\ Reaches[t[1]] = IF at[t] = "direct" THEN {dest[t]} ELSE {}
BY TipJourney, HopPair DEF Journeys, Reaches

(* The actions of Redirection, in terms of the functions above.            *)
LEMMA StutterMaps ==
  ASSUME UNCHANGED <<Journeys, Reaches, acceptor, lost>>
  PROVE  UNCHANGED Redirected!vars
BY DEF Redirected!vars, Journeys, Reaches

LEMMA SetOutMaps ==
  ASSUME NEW a \in Apps, NEW j \in {"underway", "failed"},
         Journeys[a] = "none", Journeys' = [Journeys EXCEPT ![a] = j],
         UNCHANGED <<Reaches, acceptor, lost>>
  PROVE  Redirected!Next
BY DEF Redirected!Next, Redirected!SetOut, Journeys, Reaches

LEMMA FailMaps ==
  ASSUME NEW a \in Apps,
         Journeys[a] = "underway", Journeys' = [Journeys EXCEPT ![a] = "failed"],
         UNCHANGED <<Reaches, acceptor, lost>>
  PROVE  Redirected!Next
BY DEF Redirected!Next, Redirected!Fail, Journeys, Reaches

LEMMA ArriveMaps ==
  ASSUME NEW a \in Apps,
         Journeys[a] = "underway", Journeys' = [Journeys EXCEPT ![a] = "arrived"],
         Reaches' = [Reaches EXCEPT ![a] = {a}], UNCHANGED <<acceptor, lost>>
  PROVE  Redirected!Next
BY DEF Redirected!Next, Redirected!Arrive, Journeys, Reaches

LEMMA PassMaps ==
  ASSUME NEW a \in Apps, NEW n \in 0 .. MaxHops, NEW i \in Instances,
         Journeys[a] = "underway", acceptor[<<a, n>>] = NoProcess,
         n > 0 => acceptor[<<a, n - 1>>] \in lost,
         acceptor' = [acceptor EXCEPT ![<<a, n>>] = i],
         UNCHANGED <<Journeys, Reaches, lost>>
  PROVE  Redirected!Next
BY DEF Redirected!Next, Redirected!Pass, Journeys, Reaches

LEMMA DisplaceMaps ==
  ASSUME NEW S \in SUBSET Instances, lost' = lost \cup S,
         UNCHANGED <<Journeys, Reaches, acceptor>>
  PROVE  Redirected!Next
BY DEF Redirected!Next, Redirected!Displace, Journeys, Reaches

-----------------------------------------------------------------------------
(* The initial states map to initial states.                               *)
LEMMA RedirectionInit == Init => Redirected!Init
<1> SUFFICES ASSUME Init PROVE Redirected!Init
  OBVIOUS
<1>1. \A c \in Conns : at[c] = "unused"
  BY DEF Init
<1>2. \A a \in Apps : Journey(a) = "none" /\ Reached(a) = {}
  BY <1>1 DEF Journey, Reached, Hops
<1> QED
  BY <1>2 DEF Init, Conns, Redirected!Init

(* A registration, or a load of the driver, displaces the proxies that     *)
(* run; a service that comes or goes, and a driver's step that forgets     *)
(* nobody, are invisible.                                                  *)
LEMMA OutsideMaps ==
  ASSUME LoadStep \/ (\E i \in Instances : Register(i) \/ Bind(i) \/ ServiceExit(i)) \/ UNCHANGED vars
  PROVE  Redirected!Next \/ UNCHANGED Redirected!vars
<1>1. UNCHANGED <<Journeys, Reaches, acceptor>> /\ (lost' = lost \/ lost' = lost \cup Running)
  BY OutsideMoves DEF Journeys, Reaches, Journey, Reached, Underway
<1>2. Running \in SUBSET Instances
  BY DEF Running
<1>3. CASE lost' = lost
  BY <1>1, <1>3, StutterMaps
<1>4. CASE lost' = lost \cup Running
  BY <1>1, <1>2, <1>4, DisplaceMaps
<1> QED
  BY <1>1, <1>3, <1>4

(* An application's connection sets out, or is blocked at once.            *)
LEMMA ConnectMaps ==
  ASSUME RInv, RInv', NEW c \in Conns, Connect(c)
  PROVE  Redirected!Next
<1>1. /\ TypeOK /\ ChainInv /\ ChainInv' /\ at[c] = "unused" /\ c[2] = 0
      /\ at' = [at EXCEPT ![c] = FirstState] /\ UNCHANGED <<dest, acceptor, lost>>
  BY DEF RInv, IInv, Connect, svcVars
<1>2. at'[c] = FirstState /\ \A d \in Conns : d # c => at'[d] = at[d]
  BY <1>1 DEF TypeOK
<1>3. FirstState \in {"classified", "check", "blocked"}
  BY DEF FirstState
<1>4. c[1] \in Apps /\ \A d \in Hops(c[1]) : at[d] = "unused"
  <2>1. ASSUME NEW d \in Conns, d[1] = c[1], d # c PROVE at[d] = "unused"
    <3>1. d = <<d[1], d[2]>> /\ c = <<c[1], c[2]>> /\ d[2] \in Nat
      BY HopPair
    <3>2. c[2] < d[2]
      BY <1>1, <2>1, <3>1
    <3> QED
      BY <1>1, <2>1, <3>2 DEF ChainInv
  <2> QED
    BY <1>1, <2>1, HopPair DEF Hops
<1>5. Journeys[c[1]] = "none" /\ Reaches[c[1]] = {}
  BY <1>4 DEF Journeys, Journey, Reaches, Reached
<1>6. /\ Journeys' = [Journeys EXCEPT ![c[1]] = Stage(FirstState)]
      /\ Reaches' = [Reaches EXCEPT ![c[1]] = {}]
  BY <1>1, <1>2, <1>3, OneJourney DEF Past
<1>7. Reaches' = Reaches
  BY <1>4, <1>5, <1>6 DEF Reaches
<1>8. Stage(FirstState) \in {"underway", "failed"}
  BY <1>3 DEF Stage, Classifying
<1> QED
  BY <1>1, <1>4, <1>5, <1>6, <1>7, <1>8, SetOutMaps

(* A hop that is under way stays so, or fails, and reaches nothing: what   *)
(* the accept thread and the callback do.                                  *)
LEMMA OnTheWay ==
  ASSUME RInv, RInv', NEW c \in Conns, Underway(c),
         NEW t \in Conns, t[1] = c[1], at'[t] \notin Past, at'[t] # "direct",
         \A d \in Conns : d[1] # c[1] => at'[d] = at[d] /\ dest'[d] = dest[d],
         UNCHANGED <<acceptor, lost>>
  PROVE  Redirected!Next \/ UNCHANGED Redirected!vars
<1>1. ChainInv /\ ChainInv' /\ at[c] \notin Past /\ at[c] # "direct"
  BY DEF RInv, Underway, Past, Classifying
<1>2. c[1] \in Apps /\ Journeys[c[1]] = "underway" /\ Reaches[c[1]] = {}
  BY <1>1, TipAt DEF Stage, Underway
<1>3. /\ Journeys' = [Journeys EXCEPT ![c[1]] = Stage(at'[t])]
      /\ Reaches' = [Reaches EXCEPT ![c[1]] = {}]
  <2>1. \A d \in Conns : d[1] # t[1] => at'[d] = at[d] /\ dest'[d] = dest[d]
    OBVIOUS
  <2>2. /\ Journeys' = [Journeys EXCEPT ![t[1]] = Stage(at'[t])]
        /\ Reaches' = [Reaches EXCEPT ![t[1]] = IF at'[t] = "direct" THEN {dest'[t]} ELSE {}]
    BY <1>1, <2>1, OneJourney
  <2> QED
    BY <2>2
<1>4. Reaches' = Reaches
  BY <1>2, <1>3 DEF Reaches
<1>5. CASE Stage(at'[t]) = "underway"
  <2>1. Journeys' = Journeys
    BY <1>2, <1>3, <1>5 DEF Journeys
  <2> QED
    BY <1>4, <2>1, StutterMaps
<1>6. CASE Stage(at'[t]) = "failed"
  BY <1>2, <1>3, <1>4, <1>6, FailMaps
<1> QED
  BY <1>5, <1>6 DEF Stage

LEMMA InitRemoteMaps ==
  ASSUME RInv, RInv', NEW c \in Conns, InitRemoteConnection(c)
  PROVE  Redirected!Next \/ UNCHANGED Redirected!vars
<1> DEFINE n == NextHop(c)
<1>1. /\ TypeOK /\ ChainInv' /\ at[c] = "accepted" /\ c[2] < MaxHops
      /\ UNCHANGED <<acceptor, lost>>
  BY DEF RInv, IInv, InitRemoteConnection, svcVars
<1>2. n \in Conns /\ n[1] = c[1] /\ n # c
  BY <1>1, HopFacts
<1>3. Underway(c)
  BY <1>1 DEF Underway
<1>4. CASE at' = [at EXCEPT ![c] = "dropped"] /\ UNCHANGED <<dest, seen>>
  <2>1. at'[c] = "dropped" /\ \A d \in Conns : d[1] # c[1] => at'[d] = at[d] /\ dest'[d] = dest[d]
    BY <1>1, <1>4 DEF TypeOK
  <2> QED
    BY <1>1, <1>3, <2>1, OnTheWay DEF Past
<1>5. CASE at' = [at EXCEPT ![c] = "carried", ![n] = FirstState] /\ dest' = [dest EXCEPT ![n] = context[c]]
  <2>1. at'[n] = FirstState /\ \A d \in Conns : d[1] # c[1] => at'[d] = at[d] /\ dest'[d] = dest[d]
    BY <1>1, <1>2, <1>5 DEF TypeOK
  <2>2. at'[n] \in {"classified", "check", "blocked"}
    BY <2>1 DEF FirstState
  <2>3. at'[n] \notin Past /\ at'[n] # "direct"
    BY <2>2 DEF Past
  <2> HIDE DEF n
  <2> QED
    BY <1>1, <1>2, <1>3, <2>1, <2>3, OnTheWay
<1> QED
  BY <1>4, <1>5 DEF InitRemoteConnection

(* A step of the callback, and another call of it.                         *)
LEMMA ClassifyMaps ==
  ASSUME RInv, RInv', NEW c \in Conns, Reclassify(c) \/ ClassifyCallback(c)
  PROVE  Redirected!Next \/ UNCHANGED Redirected!vars
<1>1. /\ TypeOK
      /\ at[c] \in Classifying \cup {"classified"} /\ at'[c] \in Classifying \cup {"classified"}
      /\ at' = [at EXCEPT ![c] = at'[c]] /\ dest' = [dest EXCEPT ![c] = dest'[c]]
      /\ UNCHANGED <<acceptor, lost>>
  BY CallbackStep DEF RInv, IInv, Reclassify, TypeOK, Classifying, svcVars
<1>2. \A d \in Conns : d[1] # c[1] => at'[d] = at[d] /\ dest'[d] = dest[d]
  BY <1>1 DEF TypeOK
<1>3. Underway(c) /\ at'[c] \notin Past /\ at'[c] # "direct"
  BY <1>1 DEF Underway, Past, Classifying
<1> QED
  BY <1>1, <1>2, <1>3, OnTheWay

(* A connection is made: to the destination the application named, or to a *)
(* proxy, where a hop of a proxy gets only if that one was displaced.      *)
LEMMA EstablishMaps ==
  ASSUME RInv, RInv', NEW c \in Conns, Establish(c)
  PROVE  Redirected!Next \/ UNCHANGED Redirected!vars
<1>1. /\ TypeOK /\ ChainInv /\ ChainInv' /\ AcceptedInv /\ at[c] = "classified"
      /\ UNCHANGED <<dest, lost>>
  BY DEF RInv, IInv, Establish, svcVars
<1>2. \A d \in Conns : d[1] # c[1] => at'[d] = at[d] /\ dest'[d] = dest[d]
  BY <1>1 DEF Establish, TypeOK
<1>3. /\ Underway(c) /\ c[1] \in Apps /\ c[2] \in 0 .. MaxHops /\ c = <<c[1], c[2]>>
      /\ Journeys[c[1]] = "underway" /\ Reaches[c[1]] = {}
  BY <1>1, TipAt, HopPair DEF Underway, Past, Stage
<1>4. CASE dest[c] # Proxy /\ at' = [at EXCEPT ![c] = "direct"] /\ UNCHANGED acceptor
  <2>1. at'[c] = "direct" /\ dest'[c] = c[1]
    BY <1>1, <1>4 DEF RInv, IInv, ConnInv, TypeOK
  <2>2. /\ Journeys' = [Journeys EXCEPT ![c[1]] = "arrived"]
        /\ Reaches' = [Reaches EXCEPT ![c[1]] = {c[1]}]
    BY <1>1, <1>2, <2>1, OneJourney DEF Past, Stage, Classifying
  <2> QED
    BY <1>1, <1>3, <1>4, <2>2, ArriveMaps
<1>5. ASSUME NEW i \in Instances, dest[c] = Proxy, at' = [at EXCEPT ![c] = "accepted"],
             acceptor' = [acceptor EXCEPT ![c] = i]
      PROVE  Redirected!Next
  <2>1. at'[c] = "accepted"
    BY <1>1, <1>5 DEF TypeOK
  <2>2. /\ Journeys' = [Journeys EXCEPT ![c[1]] = "underway"]
        /\ Reaches' = [Reaches EXCEPT ![c[1]] = {}]
    BY <1>1, <1>2, <2>1, OneJourney DEF Past, Stage
  <2>3. UNCHANGED <<Journeys, Reaches>>
    BY <1>3, <2>2 DEF Journeys, Reaches
  <2>4. acceptor[c] = NoProcess
    BY <1>1 DEF AcceptedInv
  <2>5. c[2] > 0 => acceptor[<<c[1], c[2] - 1>>] \in lost
    <3>1. modified[c] # 0
      BY <1>5, <1>3, InterceptionAssumption DEF RInv, IInv, ConnInv
    <3>2. c[2] > 0 => Process(c) \in lost
      BY <1>1, <3>1 DEF RInv, IInv, HopInv
    <3>3. c[2] > 0 => Process(c) = acceptor[<<c[1], c[2] - 1>>]
      BY <1>3 DEF Process, PrevHop
    <3> QED
      BY <3>2, <3>3
  <2> QED
    BY <1>1, <1>3, <1>5, <2>3, <2>4, <2>5, PassMaps
<1>6. CASE at' = [at EXCEPT ![c] = "unreachable"] /\ UNCHANGED acceptor
  <2>1. at'[c] = "unreachable"
    BY <1>1, <1>6 DEF TypeOK
  <2> QED
    BY <1>1, <1>2, <1>3, <1>6, <2>1, OnTheWay DEF Past
<1> QED
  BY <1>4, <1>5, <1>6 DEF Establish

(* Interception implements Redirection: whatever callbacks, registrations, *)
(* services and loads of the driver interleave, an application is          *)
(* connected once and to the destination it named, or not at all, and its  *)
(* connection passes a second proxy only after the first was displaced.    *)
THEOREM InterceptionRefines == Spec => RefinesRedirection
<1>1. RInv /\ RInv' /\ [Next]_vars => [Redirected!Next]_(Redirected!vars)
  <2> SUFFICES ASSUME RInv, RInv', [Next]_vars
               PROVE  Redirected!Next \/ UNCHANGED Redirected!vars
    OBVIOUS
  <2> QED
    BY OutsideMaps, ConnectMaps, InitRemoteMaps, ClassifyMaps, EstablishMaps DEF Next
<1> QED
  BY <1>1, RedirectionInit, HopsChain, PTL DEF Spec, RefinesRedirection, Redirected!Spec
=============================================================================
