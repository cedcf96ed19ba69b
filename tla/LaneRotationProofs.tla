------------------------- MODULE LaneRotationProofs -------------------------
(***************************************************************************)
(* Machine-checked proofs about LaneRotation, for any choice of lanes.     *)
(***************************************************************************)
EXTENDS LaneRotation, FiniteSetTheorems, TLAPS

LEMMA LaneNodesType ==
    ASSUME NEW l
    PROVE  LaneNodes(l) \in Seq(Nodes) /\ Len(LaneNodes(l)) \in 1..4
<1>1. ASSUME LaneNodes(l) = <<"spark2">>
      PROVE  LaneNodes(l) \in Seq(Nodes) /\ Len(LaneNodes(l)) \in 1..4
  <2>1. <<"spark2">> \in Seq(Nodes) /\ Len(<<"spark2">>) = 1
    BY DEF Nodes
  <2>2. QED
    BY <1>1, <2>1
<1>2. ASSUME LaneNodes(l) = <<"spark3", "spark4">>
      PROVE  LaneNodes(l) \in Seq(Nodes) /\ Len(LaneNodes(l)) \in 1..4
  <2>1. <<"spark3", "spark4">> \in Seq(Nodes) /\ Len(<<"spark3", "spark4">>) = 2
    BY DEF Nodes
  <2>2. QED
    BY <1>2, <2>1
<1>3. ASSUME LaneNodes(l) = <<"spark1", "spark3", "spark4">>
      PROVE  LaneNodes(l) \in Seq(Nodes) /\ Len(LaneNodes(l)) \in 1..4
  <2>1. <<"spark1", "spark3", "spark4">> \in Seq(Nodes) /\ Len(<<"spark1", "spark3", "spark4">>) = 3
    BY DEF Nodes
  <2>2. QED
    BY <1>3, <2>1
<1>4. ASSUME LaneNodes(l) = AllNodes
      PROVE  LaneNodes(l) \in Seq(Nodes) /\ Len(LaneNodes(l)) \in 1..4
  <2>1. AllNodes \in Seq(Nodes) /\ Len(AllNodes) = 4
    BY DEF AllNodes, Nodes
  <2>2. QED
    BY <1>4, <2>1
<1>5. \/ LaneNodes(l) = <<"spark2">>
      \/ LaneNodes(l) = <<"spark3", "spark4">>
      \/ LaneNodes(l) = <<"spark1", "spark3", "spark4">>
      \/ LaneNodes(l) = AllNodes
  <2>1. CASE l \in SpareNodeLanes /\ l \notin TwoNodeLanes /\ l \notin ThreeNodeLanes
    BY <2>1, Zenon DEF LaneNodes
  <2>2. CASE l \notin SpareNodeLanes /\ l \in TwoNodeLanes /\ l \notin ThreeNodeLanes
    BY <2>2, Zenon DEF LaneNodes
  <2>3. CASE l \notin SpareNodeLanes /\ l \notin TwoNodeLanes /\ l \in ThreeNodeLanes
    BY <2>3, Zenon DEF LaneNodes
  <2>4. CASE l \notin SpareNodeLanes /\ l \notin TwoNodeLanes /\ l \notin ThreeNodeLanes
    BY <2>4, Zenon DEF LaneNodes
  <2>5. QED
    BY <2>1, <2>2, <2>3, <2>4 DEF SpareNodeLanes, TwoNodeLanes, ThreeNodeLanes
<1>6. QED
  BY <1>1, <1>2, <1>3, <1>4, <1>5

LEMMA LaneShape ==
    ASSUME NEW l
    PROVE  /\ Len(LaneNodes(l)) \in 1..4
           /\ \A i \in 1..Len(LaneNodes(l)) : LaneNodes(l)[i] \in Nodes
  BY LaneNodesType

LEMMA NodesOfLane ==
    ASSUME NEW l
    PROVE  NodesOf(l) = {LaneNodes(l)[i] : i \in 1..Len(LaneNodes(l))}
  BY LaneNodesType DEF NodesOf

LEMMA NodesOfType ==
    ASSUME NEW l
    PROVE  NodesOf(l) \subseteq Nodes
  BY LaneShape, NodesOfLane

LEMMA NextIndex ==
    ASSUME NEW i \in 1..4, NEW last \in 1..4, i < last
    PROVE  i + 1 \in 1..4 /\ i + 1 <= last
  OBVIOUS

(* A lane in use is a lane of the registry, and None is not one. *)
LEMMA NoneIsNoLane == None \notin Lanes
  BY RotationAssumption

LEMMA ProbesType ==
    ASSUME running \in [Nodes -> SUBSET Lanes], NEW n \in Nodes, NEW occupants \in Probes(n)
    PROVE  occupants \subseteq Lanes
  BY DEF Probes, Occupants, Tenants

(***************************************************************************)
(* Type correctness.                                                       *)
(***************************************************************************)
LEMMA InitTypeOK == Init => TypeOK
  BY DEF Init, TypeOK, Places, Verdicts, Silence

LEMMA NextTypeOK == TypeOK /\ [Next]_vars => TypeOK'
<1> SUFFICES ASSUME TypeOK, [Next]_vars
             PROVE  TypeOK'
  OBVIOUS
<1> USE NoneIsNoLane DEF TypeOK, Places, world, commandVars
<1>1. ASSUME NEW l \in Lanes, BeginUp(l) \/ BeginDown(l) \/ BeginRotate(l)
      PROVE  TypeOK'
  <2>1. said' \in Verdicts
    BY <1>1 DEF BeginUp, BeginDown, BeginRotate, Verdicts
  <2> NodesOf(l) \subseteq Nodes /\ Len(LaneNodes(l)) \in 1..4
    BY LaneShape, NodesOfType
  <2>2. CASE BeginUp(l)
    <3>1. lane' = l /\ at' = 1
      BY <2>2 DEF BeginUp, EnterUp
    <3>2. at' <= Len(LaneNodes(lane'))
      BY <3>1
    <3>3. QED
      BY <2>1, <2>2, <3>1, <3>2 DEF BeginUp, EnterUp
  <2>3. CASE BeginDown(l)
    <3>1. lane' = l /\ at' = 1
      BY <2>3 DEF BeginDown, EnterDown
    <3>2. at' <= Len(LaneNodes(lane'))
      BY <3>1
    <3>3. QED
      BY <2>1, <2>3, <3>1, <3>2 DEF BeginDown, EnterDown
  <2>4. CASE BeginRotate(l)
    BY <2>1, <2>4, LaneShape DEF BeginRotate
  <2>5. QED
    BY <1>1, <2>2, <2>3, <2>4
<1>2. CASE Interrupt
  <2>1. late' \subseteq Nodes \X (Lanes \intersect Detached)
    BY <1>2 DEF Interrupt, LeaveScript
  <2>2. QED
    BY <1>2, <2>1, LaneShape DEF Interrupt, ToIdle, Verdicts, Silence
<1>3. CASE StartFails
  <2>1. late' \subseteq Nodes \X (Lanes \intersect Detached)
    BY <1>3 DEF StartFails, LeaveScript
  <2>2. QED
    BY <1>3, <2>1, LaneShape DEF StartFails, EndUp, Say, ToIdle, Verdicts
<1>4. CASE Census
  <2>1. target \in Lanes /\ LaneNodes(target)[at] \in Nodes
    BY <1>4, LaneShape DEF Census
  <2>2. seen' \subseteq Lanes
    BY <1>4, <2>1, ProbesType DEF Census
  <2>3. Parks(target, seen') \subseteq seen'
    BY DEF Parks
  <2>4. CASE at < Len(LaneNodes(target))
    BY <1>4, <2>1, <2>2, <2>4, LaneShape DEF Census, Loop
  <2>5. CASE ~(at < Len(LaneNodes(target)))
    <3>1. /\ pc' = "park" /\ at' = 1 /\ parks' = Parks(target, seen')
          /\ UNCHANGED <<lane, target, todo, said, running, late>>
      BY <1>4, <2>5 DEF Census, Loop
    <3>2. at' <= Len(LaneNodes(lane'))
      BY <3>1, LaneShape
    <3>3. QED
      BY <2>1, <2>2, <2>3, <3>1, <3>2
  <2>6. QED
    BY <2>4, <2>5
<1>5. CASE ParkNext
  <2>1. said' \in Verdicts
    BY <1>5 DEF ParkNext, Verdicts
  <2> NodesOf(target) \subseteq Nodes /\ Len(LaneNodes(target)) \in 1..4
    BY LaneShape, NodesOfType
  <2>2. CASE EnterUp(target) /\ UNCHANGED parks
    BY <1>5, <2>1, <2>2 DEF ParkNext, EnterUp
  <2>3. ASSUME NEW m \in parks, EnterDown(m), parks' = parks \ {m}
        PROVE  TypeOK'
    <3>1. lane' = m /\ at' = 1 /\ at' <= Len(LaneNodes(lane'))
      BY <2>3, LaneShape DEF EnterDown
    <3>2. QED
      BY <1>5, <2>1, <2>3, <3>1 DEF ParkNext, EnterDown
  <2>4. QED
    BY <1>5, <2>2, <2>3 DEF ParkNext
<1>6. CASE Occupancy
  <2>1. lane \in Lanes /\ LaneNodes(lane)[at] \in Nodes /\ Len(LaneNodes(lane)) \in 1..4
    BY <1>6, LaneShape DEF Occupancy
  <2>2. PICK occupants \in Probes(LaneNodes(lane)[at]) : Occupancy!2!(occupants)
    BY <1>6 DEF Occupancy
  <2>3. seen \union Conflict(lane, occupants) \subseteq Lanes
    BY <2>1, ProbesType DEF Conflict
  <2>4. CASE at < Len(LaneNodes(lane))
    <3>1. /\ pc = "occupancy" /\ at' = at + 1
          /\ seen' = seen \union Conflict(lane, occupants)
          /\ UNCHANGED <<pc, lane, target, parks, todo, said, running, late>>
      BY <1>6, <2>2, <2>4 DEF Occupancy
    <3>2. at + 1 \in 1..4 /\ at + 1 <= Len(LaneNodes(lane))
      BY <2>1, <2>4, NextIndex
    <3>3. at' \in 1..4 /\ at' <= Len(LaneNodes(lane'))
      BY <3>1, <3>2
    <3>4. QED
      BY <2>1, <2>3, <3>1, <3>3
  <2>5. CASE ~(at < Len(LaneNodes(lane)))
    BY <1>6, <2>1, <2>2, <2>5 DEF Occupancy, EndUp, Say, ToIdle, Verdicts
  <2>6. QED
    BY <2>4, <2>5
<1>7. CASE AlreadyUp
  BY <1>7, LaneShape, NodesOfType DEF AlreadyUp, EndUp, Say, ToIdle, Verdicts
<1>8. ASSUME NEW n \in Nodes, StartRank(n)
      PROVE  TypeOK'
  BY <1>8 DEF StartRank
<1>9. CASE StartDone
  BY <1>9 DEF StartDone
<1>10. CASE Wait
  <2>1. late' \subseteq Nodes \X (Lanes \intersect Detached)
    BY <1>10 DEF Wait, LeaveScript
  <2>2. QED
    BY <1>10, <2>1, LaneShape DEF Wait, EndUp, Say, ToIdle, Verdicts
<1>11. CASE Stop
  BY <1>11, LaneShape DEF Stop, Without, EndDown, Say, ToIdle, Verdicts
<1>12. CASE StopNode
  BY <1>12, LaneShape DEF StopNode, Without, Loop
<1>13. CASE VerifyDown
  BY <1>13, LaneShape DEF VerifyDown, StillThere, EndDown, Say, ToIdle, Verdicts
<1>14. ASSUME NEW n \in Nodes, NEW l \in Lanes, RankDies(n, l) \/ LateStart(n, l)
       PROVE  TypeOK'
  BY <1>14 DEF RankDies, LateStart
<1>15. CASE UNCHANGED vars
  BY <1>15 DEF vars
<1>16. QED
  BY <1>1, <1>2, <1>3, <1>4, <1>5, <1>6, <1>7, <1>8, <1>9, <1>10, <1>11, <1>12, <1>13, <1>14, <1>15
  DEF Next, Begin, CommandStep

(***************************************************************************)
(* What the promises of up and down need: no start script of a lane with   *)
(* containers starts anything after the command that ran it has ended (the *)
(* run lanes_late shows that this cannot be left out).                     *)
(***************************************************************************)
OrphanStart == \E n \in Nodes, l \in Lanes \ Hidden : LateStart(n, l)

NoOrphanStarts == [][~OrphanStart]_vars

(* It is so by itself where the lanes in use start in the foreground, but  *)
(* for the Studio, which no probe shows.                                   *)
Attended == Lanes \intersect Detached \subseteq Hidden

LEMMA LateIsHidden ==
    ASSUME [~OrphanStart]_vars, NEW n \in Nodes, NEW l \in Lanes, LateStart(n, l)
    PROVE  l \in Hidden
<1>1. late' # late
  BY DEF LateStart
<1>2. ~OrphanStart
  BY <1>1 DEF vars, world
<1>3. QED
  BY <1>2 DEF OrphanStart

(* Nothing but the command adds containers, so what its probes have found  *)
(* stays true while it goes on: the nodes asked so far, if they answer,    *)
(* hold nothing in the way, or none of the lane that is being stopped.     *)
Clear(l, n) == Conflict(l, Tenants(n)) = {}

PlaceInv ==
    /\ pc \in {"already", "occupancy", "start", "wait"} => todo \subseteq NodesOf(lane)
    /\ pc = "already" => lane \in AsksFirst \union AsksLater
    /\ pc \in {"already", "stop"} => at = 1

(* Where the probe names one GLM lane only, there is only one.             *)
OneGlm == \A n \in Answering : \A l, m \in running[n] : ~Outranks(l, m)

ClearUpTo(k) ==
    \A i \in 1..k : LaneNodes(lane)[i] \in Answering => Clear(lane, LaneNodes(lane)[i])

AllClear == \A n \in NodesOf(lane) \intersect Answering : Clear(lane, n)

ClearInv ==
    /\ pc = "occupancy" /\ seen = {} => ClearUpTo(at - 1)
    /\ pc = "already" /\ lane \notin AsksFirst => AllClear
    /\ pc \in {"start", "wait"} /\ lane \notin Unchecked => AllClear

StillOn(n) == n \in Answering /\ lane \in running[n]

StoppedInv ==
    pc = "verify" /\ seen = {} => \A i \in 1..(at - 1) : ~StillOn(LaneNodes(lane)[i])

IInv == TypeOK /\ PlaceInv /\ OneGlm /\ ClearInv /\ StoppedInv

LEMMA InitIInv == Init => IInv
  BY InitTypeOK DEF Init, IInv, PlaceInv, OneGlm, ClearInv, ClearUpTo, StoppedInv, Answering

LEMMA NextPlaceInv == PlaceInv /\ [Next]_vars => PlaceInv'
<1> SUFFICES ASSUME PlaceInv, [Next]_vars
             PROVE  PlaceInv'
  OBVIOUS
<1> USE DEF PlaceInv, world, commandVars
<1>1. ASSUME NEW l \in Lanes, BeginUp(l) \/ BeginDown(l) \/ BeginRotate(l)
      PROVE  PlaceInv'
  BY <1>1 DEF BeginUp, BeginDown, BeginRotate, EnterUp, EnterDown
<1>2. CASE Interrupt
  BY <1>2 DEF Interrupt, ToIdle
<1>3. CASE StartFails
  BY <1>3 DEF StartFails, EndUp, ToIdle
<1>4. CASE Census
  BY <1>4 DEF Census, Loop
<1>5. CASE ParkNext
  BY <1>5 DEF ParkNext, EnterUp, EnterDown
<1>6. CASE Occupancy
  BY <1>6 DEF Occupancy, EndUp, ToIdle
<1>7. CASE AlreadyUp
  BY <1>7 DEF AlreadyUp, EndUp, ToIdle
<1>8. ASSUME NEW n \in Nodes, StartRank(n)
      PROVE  PlaceInv'
  BY <1>8 DEF StartRank
<1>9. CASE StartDone \/ Wait
  BY <1>9 DEF StartDone, Wait, EndUp, ToIdle
<1>10. CASE Stop
  BY <1>10 DEF Stop, EndDown, ToIdle
<1>11. CASE StopNode
  BY <1>11 DEF StopNode, Loop
<1>12. CASE VerifyDown
  BY <1>12 DEF VerifyDown, EndDown, ToIdle
<1>13. ASSUME NEW n \in Nodes, NEW l \in Lanes, RankDies(n, l) \/ LateStart(n, l)
       PROVE  PlaceInv'
  BY <1>13 DEF RankDies, LateStart
<1>14. CASE UNCHANGED vars
  BY <1>14 DEF vars
<1>15. QED
  BY <1>1, <1>2, <1>3, <1>4, <1>5, <1>6, <1>7, <1>8, <1>9, <1>10, <1>11, <1>12, <1>13, <1>14
  DEF Next, Begin, CommandStep

(* Fewer occupants leave fewer conflicts. *)
LEMMA ClearStays ==
    ASSUME NEW l, NEW n, Clear(l, n), Tenants(n)' \subseteq Tenants(n) \union {l}
    PROVE  Conflict(l, Tenants(n)') = {}
  BY DEF Clear, Conflict

LEMMA DeathLeavesLess ==
    ASSUME TypeOK, [~OrphanStart]_vars, NEW m \in Nodes, NEW k \in Lanes,
           RankDies(m, k) \/ LateStart(m, k), NEW n \in Nodes
    PROVE  Tenants(n)' \subseteq Tenants(n)
<1>1. CASE RankDies(m, k)
  BY <1>1 DEF TypeOK, RankDies, Tenants
<1>2. CASE LateStart(m, k)
  BY <1>2, LateIsHidden DEF TypeOK, LateStart, Tenants
<1>3. QED
  BY <1>1, <1>2

LEMMA OccupancyKeepsClear == IInv /\ Occupancy => ClearInv'
<1> SUFFICES ASSUME IInv, Occupancy
             PROVE  ClearInv'
  OBVIOUS
<1> DEFINE node == LaneNodes(lane)[at]
<1>1. lane \in Lanes /\ at \in 1..Len(LaneNodes(lane)) /\ Len(LaneNodes(lane)) \in 1..4
  BY LaneShape, NoneIsNoLane DEF IInv, TypeOK, Occupancy
<1>2. pc = "occupancy" /\ UNCHANGED running
  BY DEF Occupancy, world
<1>3. PICK occupants \in Probes(node) : Occupancy!2!(occupants)
  BY DEF Occupancy
<1>4. node \in Answering => occupants = Tenants(node)
  BY <1>3 DEF Probes, Answering, Occupants, Tenants, IInv, OneGlm
<1>5. \A l, n : Clear(l, n) => Conflict(l, Tenants(n)') = {}
  BY <1>2 DEF Clear, Tenants
<1>6. seen \union Conflict(lane, occupants) = {} => ClearUpTo(at)
  BY <1>1, <1>2, <1>4 DEF IInv, ClearInv, ClearUpTo, Clear
<1>7. CASE at < Len(LaneNodes(lane))
  <2>1. UNCHANGED <<pc, lane>> /\ at' = at + 1 /\ seen' = seen \union Conflict(lane, occupants)
    BY <1>3, <1>7
  <2>2. at' - 1 = at
    BY <1>1, <2>1
  <2>3. QED
    BY <1>2, <1>5, <1>6, <2>1, <2>2 DEF ClearInv, ClearUpTo, Clear
<1>8. CASE ~(at < Len(LaneNodes(lane)))
  <2>1. CASE seen \union Conflict(lane, occupants) # {}
    BY <1>3, <1>8, <2>1 DEF EndUp, ToIdle, ClearInv
  <2>2. CASE seen \union Conflict(lane, occupants) = {}
    <3>1. pc' \in {"already", "start"} /\ lane' = lane
      BY <1>3, <1>8, <2>2
    <3>2. at = Len(LaneNodes(lane))
      BY <1>1, <1>8
    <3>3. AllClear
      BY <1>6, <2>2, <3>2, NodesOfLane DEF ClearUpTo, AllClear
    <3>4. QED
      BY <1>5, <3>1, <3>3 DEF ClearInv, AllClear, Clear
  <2>3. QED
    BY <2>1, <2>2
<1>9. QED
  BY <1>7, <1>8

LEMMA AlreadyUpKeepsClear == IInv /\ AlreadyUp => ClearInv'
<1> SUFFICES ASSUME IInv, AlreadyUp
             PROVE  ClearInv'
  OBVIOUS
<1>1. pc = "already" /\ at = 1 /\ UNCHANGED running
  BY DEF AlreadyUp, IInv, PlaceInv, world
<1>2. \A l, n : Clear(l, n) => Conflict(l, Tenants(n)') = {}
  BY <1>1 DEF Clear, Tenants
<1>3. CASE pc' = "idle"
  BY <1>3 DEF ClearInv
<1>4. CASE pc' = "occupancy"
  <2>1. at' = 1
    BY <1>1, <1>4 DEF AlreadyUp, EndUp, ToIdle
  <2>2. QED
    BY <1>4, <2>1 DEF ClearInv, ClearUpTo
<1>5. CASE pc' = "start"
  <2>1. lane' = lane /\ (lane \in Unchecked \/ lane \notin AsksFirst)
    BY <1>5 DEF AlreadyUp, EndUp, ToIdle
  <2>2. QED
    BY <1>1, <1>2, <1>5, <2>1 DEF ClearInv, AllClear, IInv, Clear
<1>6. QED
  BY <1>3, <1>4, <1>5 DEF AlreadyUp, EndUp, ToIdle

LEMMA NextClearInv == IInv /\ [Next]_vars /\ [~OrphanStart]_vars => ClearInv'
<1> SUFFICES ASSUME IInv, [Next]_vars, [~OrphanStart]_vars
             PROVE  ClearInv'
  OBVIOUS
<1> USE DEF IInv, ClearInv, world, commandVars
<1>1. ASSUME pc' \notin {"already", "occupancy", "start", "wait"}
      PROVE  ClearInv'
  BY <1>1
<1>2. ASSUME NEW l \in Lanes, BeginUp(l) \/ BeginDown(l) \/ BeginRotate(l)
      PROVE  ClearInv'
  BY <1>2 DEF BeginUp, BeginDown, BeginRotate, EnterUp, EnterDown, ClearUpTo
<1>3. CASE ParkNext
  BY <1>3 DEF ParkNext, EnterUp, EnterDown, ClearUpTo
<1>4. CASE Occupancy
  BY <1>4, OccupancyKeepsClear
<1>5. CASE AlreadyUp
  BY <1>5, AlreadyUpKeepsClear
<1>6. ASSUME NEW n \in Nodes, StartRank(n)
      PROVE  ClearInv'
  <2>1. pc \in {"start", "wait"} /\ UNCHANGED <<pc, lane>>
    BY <1>6 DEF StartRank
  <2>2. \A m \in NodesOf(lane) : Tenants(m)' \subseteq Tenants(m) \union {lane}
    BY <1>6, NodesOfType DEF StartRank, Tenants, TypeOK
  <2>3. lane \notin Unchecked =>
            \A m \in NodesOf(lane) \intersect Answering : Conflict(lane, Tenants(m)') = {}
    BY <2>1, <2>2, ClearStays DEF AllClear
  <2>4. QED
    BY <2>1, <2>3 DEF AllClear, Clear
<1>7. ASSUME NEW n \in Nodes, NEW l \in Lanes, RankDies(n, l) \/ LateStart(n, l)
      PROVE  ClearInv'
  <2>1. UNCHANGED <<pc, lane, at, seen>>
    BY <1>7 DEF RankDies, LateStart
  <2>2. \A m \in Nodes : Clear(lane, m) => Conflict(lane, Tenants(m)') = {}
    BY <1>7, DeathLeavesLess, ClearStays
  <2>3. pc = "occupancy" => \A i \in 1..(at - 1) : LaneNodes(lane)[i] \in Nodes
    BY LaneShape DEF TypeOK
  <2>4. NodesOf(lane) \subseteq Nodes
    BY NodesOfType
  <2>5. QED
    BY <2>1, <2>2, <2>3, <2>4 DEF ClearUpTo, AllClear, Clear
<1>8. CASE Interrupt \/ StartFails \/ Wait
  BY <1>1, <1>8 DEF Interrupt, StartFails, Wait, EndUp, ToIdle
<1>9. CASE StartDone
  BY <1>9 DEF StartDone, AllClear, Clear, Tenants
<1>10. CASE Census \/ Stop \/ StopNode \/ VerifyDown
  BY <1>1, <1>10 DEF Census, Stop, StopNode, VerifyDown, Loop, EndDown, ToIdle
<1>11. CASE UNCHANGED vars
  BY <1>11 DEF vars, ClearUpTo, AllClear, Clear, Tenants
<1>12. QED
  BY <1>2, <1>3, <1>4, <1>5, <1>6, <1>7, <1>8, <1>9, <1>10, <1>11 DEF Next, Begin, CommandStep

(* The Studio, the one lane that no probe shows, has one node. *)
LEMMA HiddenHasOneNode == \A l \in Hidden : Len(LaneNodes(l)) = 1
<1>1. \A l \in Hidden : l \in SpareNodeLanes /\ l \notin TwoNodeLanes /\ l \notin ThreeNodeLanes
  BY DEF Hidden, SpareNodeLanes, TwoNodeLanes, ThreeNodeLanes
<1>2. \A l \in Hidden : LaneNodes(l) = <<"spark2">>
  BY <1>1, Zenon DEF LaneNodes
<1>3. QED
  BY <1>2

LEMMA KinHasLane == ASSUME NEW l PROVE l \in Kin(l)
<1>1. CASE l \in {"dsv41-tf4", "dsv41-tf4-ablit"} /\ l \notin {"glm53-tp4", "glm53-tp4-ablit"}
  BY <1>1, Zenon DEF Kin
<1>2. CASE l \notin {"dsv41-tf4", "dsv41-tf4-ablit"} /\ l \in {"glm53-tp4", "glm53-tp4-ablit"}
  BY <1>2, Zenon DEF Kin
<1>3. CASE l \notin {"dsv41-tf4", "dsv41-tf4-ablit"} /\ l \notin {"glm53-tp4", "glm53-tp4-ablit"}
  <2>1. Kin(l) = {l}
    BY <1>3, Zenon DEF Kin
  <2>2. QED
    BY <2>1
<1>4. QED
  BY <1>1, <1>2, <1>3

(* A node that answers and shows nothing has no container of the lane. *)
LEMMA StillThereShowsLane ==
    ASSUME NEW n, StillThere(n) = {}
    PROVE  lane \notin running[n]
  BY KinHasLane DEF StillThere

LEMMA NextStoppedInv == IInv /\ [Next]_vars /\ [~OrphanStart]_vars => StoppedInv'
<1> SUFFICES ASSUME IInv, [Next]_vars, [~OrphanStart]_vars
             PROVE  StoppedInv'
  OBVIOUS
<1> USE DEF IInv, StoppedInv, world, commandVars
<1>1. ASSUME pc' # "verify" \/ at' = 1
      PROVE  StoppedInv'
  BY <1>1
<1>2. ASSUME NEW l \in Lanes, BeginUp(l) \/ BeginDown(l) \/ BeginRotate(l)
      PROVE  StoppedInv'
  BY <1>1, <1>2 DEF BeginUp, BeginDown, BeginRotate, EnterUp, EnterDown
<1>3. CASE Interrupt \/ StartFails \/ Wait
  BY <1>1, <1>3 DEF Interrupt, StartFails, Wait, EndUp, ToIdle
<1>4. CASE Census \/ ParkNext \/ StartDone
  BY <1>1, <1>4 DEF Census, ParkNext, StartDone, EnterUp, EnterDown, Loop
<1>5. CASE Occupancy \/ AlreadyUp
  BY <1>1, <1>5 DEF Occupancy, AlreadyUp, EndUp, ToIdle
<1>6. ASSUME NEW n \in Nodes, StartRank(n)
      PROVE  StoppedInv'
  BY <1>1, <1>6 DEF StartRank
<1>7. CASE Stop
  BY <1>1, <1>7 DEF Stop, EndDown, ToIdle, PlaceInv
<1>8. CASE StopNode
  BY <1>1, <1>8 DEF StopNode, Loop
<1>9. CASE VerifyDown
  <2>1. CASE at < Len(LaneNodes(lane))
    <3>1. /\ pc = "verify" /\ UNCHANGED <<pc, lane, running>>
          /\ at' = at + 1
          /\ LaneNodes(lane)[at] \in Answering => seen' = seen \union StillThere(LaneNodes(lane)[at])
          /\ seen' = {} => seen = {}
      BY <1>9, <2>1 DEF VerifyDown, Answering
    <3>2. at' - 1 = at /\ at \in 1..4
      BY <3>1 DEF TypeOK
    <3>3. seen' = {} => ~StillOn(LaneNodes(lane)[at])
      BY <3>1, StillThereShowsLane DEF StillOn
    <3>4. QED
      BY <3>1, <3>2, <3>3 DEF StillOn
  <2>2. CASE ~(at < Len(LaneNodes(lane)))
    BY <1>1, <1>9, <2>2 DEF VerifyDown, EndDown, ToIdle
  <2>3. QED
    BY <2>1, <2>2
<1>10. ASSUME NEW n \in Nodes, NEW l \in Lanes, RankDies(n, l)
       PROVE  StoppedInv'
  <2>1. UNCHANGED <<pc, lane, at, seen>>
    BY <1>10 DEF RankDies
  <2>2. \A m \in Nodes : running'[m] \subseteq running[m]
    BY <1>10 DEF RankDies, TypeOK
  <2>3. pc = "verify" => \A i \in 1..(at - 1) : LaneNodes(lane)[i] \in Nodes
    BY LaneShape DEF TypeOK
  <2>4. QED
    BY <2>1, <2>2, <2>3 DEF StillOn
<1>11. ASSUME NEW n \in Nodes, NEW l \in Lanes, LateStart(n, l)
       PROVE  StoppedInv'
  <2>1. UNCHANGED <<pc, lane, at, seen>> /\ l \in Hidden
    BY <1>11, LateIsHidden DEF LateStart
  <2>2. CASE lane = l
    <3>1. pc = "verify" => at = 1
      <4>1. Len(LaneNodes(lane)) = 1
        BY <2>1, <2>2, HiddenHasOneNode
      <4>2. lane # None /\ at \in 1..4 /\ (pc = "verify" => at <= Len(LaneNodes(lane)))
        BY <2>2, NoneIsNoLane DEF TypeOK
      <4>3. QED
        BY <4>1, <4>2
    <3>2. QED
      BY <1>1, <2>1, <3>1
  <2>3. CASE lane # l
    <3>1. \A m \in Nodes : lane \in running'[m] => lane \in running[m]
      BY <1>11, <2>3 DEF LateStart, TypeOK
    <3>2. pc = "verify" => \A i \in 1..(at - 1) : LaneNodes(lane)[i] \in Nodes
      BY LaneShape DEF TypeOK
    <3>3. QED
      BY <2>1, <3>1, <3>2 DEF StillOn
  <2>4. QED
    BY <2>2, <2>3
<1>12. CASE UNCHANGED vars
  BY <1>12 DEF vars, StillOn
<1>13. QED
  BY <1>2, <1>3, <1>4, <1>5, <1>6, <1>7, <1>8, <1>9, <1>10, <1>11, <1>12 DEF Next, Begin, CommandStep

LEMMA OutrankedAreGlm ==
    ASSUME NEW l, NEW m, Outranks(l, m)
    PROVE  /\ {l, m} \intersect (Hidden \union Unchecked) = {}
           /\ l # m /\ {l, m} \notin CoTenants /\ {m, l} \notin CoTenants
<1>1. /\ l \in {"glm53-gr8", "glm53-tp4", "glm53-tp4-ablit", "glm53-tp3"}
      /\ m \in {"glm53-tp4", "glm53-tp4-ablit", "glm53-tp3", "glm53-tf2"}
      /\ l # m
  BY DEF Outranks, GlmPrecedence
<1>2. {l, m} = {m, l} /\ "comfy-studio-4x" \notin {l, m}
  BY <1>1
<1>3. QED
  BY <1>1, <1>2 DEF Hidden, Unchecked, CoTenants

(* A GLM lane that asks first finds no other one on a node that answers.   *)
LEMMA NextOneGlm == IInv /\ [Next]_vars /\ [~OrphanStart]_vars => OneGlm'
<1> SUFFICES ASSUME IInv, [Next]_vars, [~OrphanStart]_vars
             PROVE  OneGlm'
  OBVIOUS
<1> USE DEF IInv, OneGlm, Answering, world, commandVars
<1>1. ASSUME \A n \in Nodes : running'[n] \subseteq running[n]
      PROVE  OneGlm'
  BY <1>1
<1>2. ASSUME NEW n \in Nodes, StartRank(n)
      PROVE  OneGlm'
  <2>1. /\ pc \in {"start", "wait"} /\ n \in NodesOf(lane)
        /\ running' = [running EXCEPT ![n] = @ \union {lane}]
    BY <1>2 DEF StartRank, PlaceInv
  <2>2. SUFFICES ASSUME NEW m \in Answering, NEW k \in running'[m], NEW l \in running'[m], Outranks(k, l)
                 PROVE  FALSE
    OBVIOUS
  <2>3. CASE k \in running[m] /\ l \in running[m]
    BY <2>2, <2>3
  <2>4. CASE k \notin running[m] \/ l \notin running[m]
    <3>1. m = n /\ lane \in {k, l}
      BY <2>1, <2>4 DEF TypeOK
    <3>2. lane \notin Unchecked /\ k \notin Hidden /\ l \notin Hidden /\ k # l
      BY <2>2, <3>1, OutrankedAreGlm
    <3>3. Clear(lane, n)
      BY <2>1, <3>1, <3>2 DEF ClearInv, AllClear
    <3>4. PICK other \in {k, l} : other # lane
      BY <3>2
    <3>5. other \in Tenants(n) /\ {lane, other} \notin CoTenants
      BY <2>1, <2>2, <3>1, <3>2, <3>4, OutrankedAreGlm DEF Tenants, TypeOK
    <3>6. QED
      BY <3>3, <3>4, <3>5 DEF Clear, Conflict
  <2>5. QED
    BY <2>3, <2>4
<1>3. ASSUME NEW n \in Nodes, NEW l \in Lanes, RankDies(n, l)
      PROVE  OneGlm'
  BY <1>1, <1>3 DEF RankDies, TypeOK
<1>4. ASSUME NEW n \in Nodes, NEW l \in Lanes, LateStart(n, l)
      PROVE  OneGlm'
  <2>1. l \in Hidden /\ running' = [running EXCEPT ![n] = @ \union {l}]
    BY <1>4, LateIsHidden DEF LateStart
  <2>2. \A k, m : Outranks(k, m) => k \notin Hidden /\ m \notin Hidden
    BY OutrankedAreGlm
  <2>3. QED
    BY <2>1, <2>2 DEF TypeOK
<1>5. CASE Stop \/ StopNode
  BY <1>1, <1>5 DEF Stop, StopNode, Without
<1>6. CASE Begin \/ StartFails \/ Interrupt
  BY <1>1, <1>6 DEF Begin, BeginUp, BeginDown, BeginRotate, StartFails, Interrupt
<1>7. CASE Census \/ ParkNext \/ Occupancy \/ AlreadyUp \/ StartDone \/ Wait \/ VerifyDown
  BY <1>1, <1>7 DEF Census, ParkNext, Occupancy, AlreadyUp, StartDone, Wait, VerifyDown
<1>8. CASE UNCHANGED vars
  BY <1>1, <1>8 DEF vars
<1>9. QED
  BY <1>2, <1>3, <1>4, <1>5, <1>6, <1>7, <1>8 DEF Next, CommandStep

LEMMA Inductive == Spec /\ NoOrphanStarts => []IInv
<1>1. IInv /\ [Next]_vars /\ [~OrphanStart]_vars => IInv'
  BY NextTypeOK, NextPlaceInv, NextOneGlm, NextClearInv, NextStoppedInv DEF IInv
<1>2. QED
  BY InitIInv, <1>1, PTL DEF Spec, NoOrphanStarts

----------------------------------------------------------------------------
(* Every command is well formed at each of its steps: it works on a lane   *)
(* and a node of it, and reports on a lane in use (spark-lane 3168-3200).  *)
THEOREM LaneTypeCorrect == Spec => []TypeOK
<1>1. QED
  BY InitTypeOK, NextTypeOK, PTL DEF Spec

(* On a node that answers, no lane that asks first is ever started over    *)
(* another one, however many commands fail, hang or are interrupted on the *)
(* way, and whatever becomes of the other nodes (spark-lane 690-709).      *)
THEOREM NeverClobbers ==
    Spec /\ NoOrphanStarts => NoClobber
<1> DEFINE Started == \A n \in Answering : \A l \in (running'[n] \ running[n]) \ Unchecked :
                         Conflict(l, Tenants(n)) = {}
<1>1. IInv /\ [Next]_vars /\ [~OrphanStart]_vars => [Started]_vars
  <2> SUFFICES ASSUME IInv, [Next]_vars, [~OrphanStart]_vars,
                      NEW n \in Answering, NEW l \in (running'[n] \ running[n]) \ Unchecked
               PROVE  Conflict(l, Tenants(n)) = {}
    OBVIOUS
  <2> USE DEF IInv, world, commandVars
  <2>0. n \in Nodes
    BY DEF Answering
  <2>1. ASSUME NEW m \in Nodes, StartRank(m)
        PROVE  Conflict(l, Tenants(n)) = {}
    <3>1. /\ pc \in {"start", "wait"} /\ m \in todo
          /\ running' = [running EXCEPT ![m] = @ \union {lane}]
      BY <2>1 DEF StartRank
    <3>2. n = m /\ l = lane
      BY <2>0, <3>1 DEF TypeOK
    <3>3. m \in NodesOf(lane)
      BY <3>1 DEF PlaceInv
    <3>4. QED
      BY <3>1, <3>2, <3>3 DEF ClearInv, AllClear, Clear
  <2>2. ASSUME NEW m \in Nodes, NEW k \in Lanes, RankDies(m, k) \/ LateStart(m, k)
        PROVE  FALSE
    <3>1. CASE RankDies(m, k)
      BY <2>0, <3>1 DEF RankDies, TypeOK
    <3>2. CASE LateStart(m, k)
      BY <2>0, <3>2, LateIsHidden DEF LateStart, TypeOK, Hidden, Unchecked
    <3>3. QED
      BY <2>2, <3>1, <3>2
  <2>3. CASE Stop \/ StopNode
    BY <2>0, <2>3 DEF Stop, StopNode, Without
  <2>4. CASE UNCHANGED running
    BY <2>4
  <2>5. CASE Begin \/ StartFails \/ Interrupt
    BY <2>4, <2>5 DEF Begin, BeginUp, BeginDown, BeginRotate, StartFails, Interrupt
  <2>6. CASE Census \/ ParkNext \/ Occupancy \/ AlreadyUp \/ StartDone \/ Wait \/ VerifyDown
    BY <2>4, <2>6 DEF Census, ParkNext, Occupancy, AlreadyUp, StartDone, Wait, VerifyDown
  <2>7. QED
    BY <2>1, <2>2, <2>3, <2>4, <2>5, <2>6 DEF Next, CommandStep, vars
<1>2. QED
  BY Inductive, <1>1, PTL DEF Spec, NoOrphanStarts, NoClobber

(* A down that passes has left no container of its lane on any node that   *)
(* answers, also when its scripts failed half-way (17).                    *)
THEOREM ParkedIsStopped ==
    Spec /\ NoOrphanStarts => PassMeansParked
<1> DEFINE Parked == Says("down", "pass") =>
                        \A n \in NodesOf(said'.lane) \intersect Answering : said'.lane \notin running'[n]
<1>1. IInv /\ [Next]_vars => [Parked]_vars
  <2> SUFFICES ASSUME IInv, [Next]_vars, Says("down", "pass")
               PROVE  \A n \in NodesOf(said'.lane) \intersect Answering : said'.lane \notin running'[n]
    OBVIOUS
  <2> USE DEF Says, Say, Silence, world, commandVars
  <2>1. CASE VerifyDown
    <3>1. at = Len(LaneNodes(lane)) /\ pc = "verify"
      <4>1. at <= Len(LaneNodes(lane)) /\ Len(LaneNodes(lane)) \in 1..4 /\ at \in 1..4
        BY <2>1, LaneShape DEF IInv, TypeOK, VerifyDown
      <4>2. ~(at < Len(LaneNodes(lane)))
        BY <2>1 DEF VerifyDown
      <4>3. QED
        BY <2>1, <4>1, <4>2 DEF VerifyDown
    <3>2. /\ said'.lane = lane /\ UNCHANGED running
          /\ seen = {}
          /\ LaneNodes(lane)[at] \in Answering => StillThere(LaneNodes(lane)[at]) = {}
      BY <2>1, <3>1 DEF VerifyDown, EndDown, Answering
    <3>3. ~StillOn(LaneNodes(lane)[at])
      BY <3>2, StillThereShowsLane DEF StillOn
    <3>4. \A i \in 1..Len(LaneNodes(lane)) : ~StillOn(LaneNodes(lane)[i])
      BY <3>1, <3>2, <3>3, LaneShape DEF IInv, StoppedInv
    <3>5. QED
      BY <3>2, <3>4, NodesOfLane DEF StillOn
  <2>2. CASE Stop
    BY <2>2 DEF Stop, EndDown
  <2>3. CASE said' = said \/ said' = Silence \/ said'.action = "up"
    BY <2>3
  <2>4. CASE Begin \/ Interrupt \/ ParkNext
    BY <2>3, <2>4 DEF Begin, BeginUp, BeginDown, BeginRotate, Interrupt, ParkNext
  <2>5. CASE StartFails \/ Wait \/ Occupancy \/ AlreadyUp
    BY <2>3, <2>5 DEF StartFails, Wait, Occupancy, AlreadyUp, EndUp
  <2>6. CASE Census \/ StopNode
    BY <2>3, <2>6 DEF Census, StopNode, Loop
  <2>7. ASSUME NEW n \in Nodes, NEW l \in Lanes, StartRank(n) \/ RankDies(n, l) \/ LateStart(n, l)
        PROVE  said' = said
    BY <2>7 DEF StartRank, RankDies, LateStart
  <2>8. CASE StartDone \/ UNCHANGED vars
    BY <2>3, <2>8 DEF StartDone, vars
  <2>9. ASSUME NEW n \in Nodes, StartRank(n)
        PROVE  said' = said
    BY <2>9 DEF StartRank
  <2>10. QED
    BY <2>1, <2>2, <2>3, <2>4, <2>5, <2>6, <2>7, <2>8, <2>9 DEF Next, CommandStep
<1>2. QED
  BY Inductive, <1>1, PTL DEF Spec, PassMeansParked

(***************************************************************************)
(* What PassMeansUp needs besides: no two lanes in use answer on each      *)
(* node's own port, and the head, which all other lanes with a port in     *)
(* common share, answers the occupancy check.                              *)
(***************************************************************************)
PortTellsLane ==
    /\ ~({"comfy-engine", "comfy-studio-4x"} \subseteq Lanes)
    /\ HeadNode \in Answering

LEMMA PortsOfLanes ==
    ASSUME NEW l
    PROVE  /\ Port(l) = ComfyPort <=> l \in {"comfy-engine", "comfy-studio-4x"}
           /\ Port(l) = StudioPort <=> l = "studio-2"
<1>1. CASE l \in {"comfy-engine", "comfy-studio-4x"} /\ l \notin {"dsv41-tf2", "dsv41-tf3"} /\ l # "studio-2"
  <2>1. Port(l) = ComfyPort
    BY <1>1, Zenon DEF Port
  <2>2. QED
    BY <1>1, <2>1 DEF ComfyPort, StudioPort
<1>2. CASE l \notin {"comfy-engine", "comfy-studio-4x"} /\ l \in {"dsv41-tf2", "dsv41-tf3"} /\ l # "studio-2"
  <2>1. Port(l) = SmallPort
    BY <1>2, Zenon DEF Port
  <2>2. QED
    BY <1>2, <2>1 DEF ComfyPort, SmallPort, StudioPort
<1>3. CASE l \notin {"comfy-engine", "comfy-studio-4x"} /\ l \notin {"dsv41-tf2", "dsv41-tf3"} /\ l = "studio-2"
  <2>1. Port(l) = StudioPort
    BY <1>3, Zenon DEF Port
  <2>2. QED
    BY <1>3, <2>1 DEF ComfyPort, StudioPort
<1>4. CASE l \notin {"comfy-engine", "comfy-studio-4x"} /\ l \notin {"dsv41-tf2", "dsv41-tf3"} /\ l # "studio-2"
  <2>1. Port(l) = EnginePort
    BY <1>4, Zenon DEF Port
  <2>2. QED
    BY <1>4, <2>1 DEF ComfyPort, EnginePort, StudioPort
<1>5. QED
  BY <1>1, <1>2, <1>3, <1>4

LEMMA HeadIsShared ==
    ASSUME NEW l, l \notin SpareNodeLanes
    PROVE  HeadNode \in NodesOf(l)
<1>1. CASE l \in TwoNodeLanes /\ l \notin ThreeNodeLanes
  <2>1. LaneNodes(l) = <<"spark3", "spark4">>
    BY <1>1, Zenon DEF LaneNodes
  <2>2. LaneNodes(l)[1] = HeadNode /\ 1 \in 1..Len(LaneNodes(l))
    BY <2>1 DEF HeadNode
  <2>3. QED
    BY <2>2, NodesOfLane
<1>2. CASE l \notin TwoNodeLanes /\ l \in ThreeNodeLanes
  <2>1. LaneNodes(l) = <<"spark1", "spark3", "spark4">>
    BY <1>2, Zenon DEF LaneNodes
  <2>2. LaneNodes(l)[2] = HeadNode /\ 2 \in 1..Len(LaneNodes(l))
    BY <2>1 DEF HeadNode
  <2>3. QED
    BY <2>2, NodesOfLane
<1>3. CASE l \notin TwoNodeLanes /\ l \notin ThreeNodeLanes
  <2>1. LaneNodes(l) = AllNodes
    BY <1>3, Zenon DEF LaneNodes
  <2>2. LaneNodes(l)[3] = HeadNode /\ 3 \in 1..Len(LaneNodes(l))
    BY <2>1 DEF HeadNode, AllNodes
  <2>3. QED
    BY <2>2, NodesOfLane
<1>4. QED
  BY <1>1, <1>2, <1>3 DEF TwoNodeLanes, ThreeNodeLanes

(* Whoever answers for a lane that has been cleared is that lane. *)
LEMMA ServingIsOwn ==
    ASSUME PortTellsLane, TypeOK, lane \in Lanes, Serving(lane),
           lane \notin AsksFirst => AllClear
    PROVE  \A n \in NodesOf(lane) : lane \in running[n]
<1>1. CASE lane \in {"comfy-engine", "comfy-studio-4x"}
  <2>1. SUFFICES ASSUME NEW n \in NodesOf(lane)
                 PROVE  lane \in running[n]
    OBVIOUS
  <2>2. PICK m \in running[n] : m \in {"comfy-engine", "comfy-studio-4x"}
    BY <1>1, PortsOfLanes DEF Serving, Answers
  <2>3. m \in Lanes
    BY <2>2, NodesOfType DEF TypeOK
  <2>4. QED
    BY <1>1, <2>2, <2>3 DEF PortTellsLane
<1>2. CASE lane \notin {"comfy-engine", "comfy-studio-4x"}
  <2>1. SUFFICES ASSUME NEW n \in NodesOf(lane)
                 PROVE  Whole(lane)
    BY DEF Whole
  <2>2. PICK m \in Lanes : Port(m) = Port(lane) /\ Whole(m)
    BY <1>2, <2>1, PortsOfLanes DEF Serving, Answers
  <2>3. SUFFICES ASSUME m # lane
                 PROVE  FALSE
    BY <2>2
  <2>4. m \notin AsksFirst /\ lane \notin AsksFirst
    BY <1>2, <2>2, <2>3, PortsOfLanes DEF AsksFirst
  <2>5. HeadNode \in NodesOf(lane) /\ HeadNode \in NodesOf(m)
    BY <2>4, HeadIsShared DEF AsksFirst, SpareNodeLanes
  <2>6. m \in Tenants(HeadNode)
    BY <2>2, <2>4, <2>5 DEF Whole, Tenants, Hidden, AsksFirst
  <2>7. {lane, m} \notin CoTenants
    BY <2>4 DEF CoTenants, AsksFirst
  <2>8. Clear(lane, HeadNode)
    BY <2>4, <2>5 DEF AllClear, PortTellsLane
  <2>9. QED
    BY <2>3, <2>6, <2>7, <2>8 DEF Clear, Conflict
<1>3. QED
  BY <1>1, <1>2

(* An up that passes, at once or in the end, has its lane on all of its    *)
(* nodes, although all it asks is who answers on a port (5-6).             *)
THEOREM PassedIsUp ==
    ASSUME PortTellsLane
    PROVE  Spec /\ NoOrphanStarts => PassMeansUp
<1> DEFINE Up == Says("up", "pass") => \A n \in NodesOf(said'.lane) : said'.lane \in running'[n]
<1>1. IInv /\ [Next]_vars => [Up]_vars
  <2> SUFFICES ASSUME IInv, [Next]_vars, Says("up", "pass")
               PROVE  \A n \in NodesOf(said'.lane) : said'.lane \in running'[n]
    OBVIOUS
  <2> USE DEF Says, Say, Silence, world, commandVars
  <2>1. CASE Wait
    <3>1. Serving(lane) /\ pc = "wait" /\ said'.lane = lane /\ UNCHANGED running
      BY <2>1 DEF Wait, EndUp, Healthy
    <3>2. lane \in Lanes /\ (lane \notin AsksFirst => AllClear)
      BY <3>1, NoneIsNoLane DEF IInv, TypeOK, ClearInv, Unchecked, AsksFirst
    <3>3. QED
      BY <3>1, <3>2, ServingIsOwn DEF IInv
  <2>2. CASE AlreadyUp
    <3>1. /\ pc = "already" /\ said'.lane = lane /\ UNCHANGED running
          /\ \A n \in NodesOf(lane) : Answers(lane, n)
      BY <2>2 DEF AlreadyUp, EndUp
    <3>2. lane \in Lanes /\ (lane \notin AsksFirst => AllClear)
      BY <3>1, NoneIsNoLane DEF IInv, TypeOK, ClearInv
    <3>3. QED
      BY <3>1, <3>2, ServingIsOwn DEF IInv, Serving
  <2>3. CASE said' = said \/ said' = Silence \/ said'.action = "down" \/ said'.verdict = "fail"
    BY <2>3
  <2>4. CASE Begin \/ Interrupt \/ ParkNext
    BY <2>3, <2>4 DEF Begin, BeginUp, BeginDown, BeginRotate, Interrupt, ParkNext
  <2>5. CASE StartFails \/ Occupancy
    BY <2>3, <2>5 DEF StartFails, Occupancy, EndUp
  <2>6. CASE Census \/ StopNode
    BY <2>3, <2>6 DEF Census, StopNode, Loop
  <2>7. CASE Stop \/ VerifyDown
    BY <2>3, <2>7 DEF Stop, VerifyDown, EndDown
  <2>8. ASSUME NEW n \in Nodes, NEW l \in Lanes, RankDies(n, l) \/ LateStart(n, l)
        PROVE  said' = said
    BY <2>8 DEF RankDies, LateStart
  <2>9. ASSUME NEW n \in Nodes, StartRank(n)
        PROVE  said' = said
    BY <2>9 DEF StartRank
  <2>10. CASE StartDone \/ UNCHANGED vars
    BY <2>3, <2>10 DEF StartDone, vars
  <2>11. QED
    BY <2>1, <2>2, <2>4, <2>5, <2>6, <2>7, <2>8, <2>9, <2>10 DEF Next, CommandStep
<1>2. QED
  BY Inductive, <1>1, PTL DEF Spec, PassMeansUp

(* Where every lane in use is started by the command itself, but for the   *)
(* Studio, a start script that outlives its command can start no lane a    *)
(* probe shows: LeaveScript is all that ever leaves one behind (the start  *)
(* scripts' docker runs in the foreground ssh of every other up).          *)
THEOREM AttendedHasNoOrphans ==
    ASSUME Attended
    PROVE  Spec => NoOrphanStarts
<1>1. TypeOK /\ [Next]_vars => [~OrphanStart]_vars
  <2> SUFFICES ASSUME TypeOK, NEW n \in Nodes, NEW l \in Lanes \ Hidden, LateStart(n, l)
               PROVE  FALSE
    BY DEF OrphanStart
  <2>1. l \in Lanes \intersect Detached
    BY DEF TypeOK, LateStart
  <2>2. QED
    BY <2>1 DEF Attended
<1>2. QED
  BY LaneTypeCorrect, <1>1, PTL DEF Spec, NoOrphanStarts

(***************************************************************************)
(* How long a verdict holds: until the next command, if nothing dies.      *)
(***************************************************************************)
Death == \E n \in Nodes, l \in Lanes : RankDies(n, l)

NoDeaths == [][~Death]_vars

(* Said of a lane that is up, and still true. *)
UpStands ==
    said.action = "up" /\ said.verdict = "pass" => pc = "idle" /\ Whole(said.lane)

(* What an up that passed has reported stays so until the next command     *)
(* begins: no other lane's late ranks and no probe takes a rank away       *)
(* (5-6, and every command that only reads).                               *)
THEOREM UpStaysUp ==
    ASSUME PortTellsLane
    PROVE  Spec /\ NoOrphanStarts /\ NoDeaths => []UpStands
<1> DEFINE Up == Says("up", "pass") => \A n \in NodesOf(said'.lane) : said'.lane \in running'[n]
<1>1. Init => UpStands
  BY DEF Init, UpStands, Silence
<1>2. TypeOK /\ UpStands /\ [Next]_vars /\ [Up]_vars /\ [~Death]_vars => UpStands'
  <2> SUFFICES ASSUME TypeOK, UpStands, [Next]_vars, [Up]_vars, [~Death]_vars,
                      said'.action = "up", said'.verdict = "pass"
               PROVE  pc' = "idle" /\ Whole(said.lane)'
    BY DEF UpStands
  <2> USE DEF UpStands, world, commandVars
  <2>1. ASSUME UNCHANGED said, \A n \in Nodes : running[n] \subseteq running'[n], UNCHANGED pc
        PROVE  pc' = "idle" /\ Whole(said.lane)'
    BY <2>1, NodesOfType DEF Whole
  <2>2. ASSUME pc' = "idle", said' # said
        PROVE  pc' = "idle" /\ Whole(said.lane)'
    BY <2>2 DEF Says, Whole, vars
  <2>3. CASE Begin \/ Interrupt \/ ParkNext
    BY <2>3 DEF Begin, BeginUp, BeginDown, BeginRotate, Interrupt, ParkNext, Silence
  <2>4. ASSUME pc # "idle"
        PROVE  said.action # "up" \/ said.verdict # "pass"
    BY <2>4
  <2>5. CASE StartFails \/ Wait \/ AlreadyUp
    <3>1. pc # "idle"
      BY <2>5 DEF StartFails, Wait, AlreadyUp
    <3>2. said' = said \/ pc' = "idle"
      BY <2>5 DEF StartFails, Wait, AlreadyUp, EndUp, ToIdle
    <3>3. QED
      BY <2>2, <2>4, <3>1, <3>2
  <2>6. CASE Occupancy
    <3>1. pc # "idle"
      BY <2>6 DEF Occupancy
    <3>2. said' = said \/ pc' = "idle"
      BY <2>6 DEF Occupancy, EndUp, ToIdle
    <3>3. QED
      BY <2>2, <2>4, <3>1, <3>2
  <2>7. CASE Census \/ StopNode
    BY <2>4, <2>7 DEF Census, StopNode, Loop
  <2>8. CASE Stop \/ VerifyDown
    BY <2>4, <2>8 DEF Stop, VerifyDown, EndDown, Say
  <2>9. CASE StartDone
    BY <2>4, <2>9 DEF StartDone
  <2>10. ASSUME NEW n \in Nodes, StartRank(n)
         PROVE  FALSE
    BY <2>4, <2>10 DEF StartRank
  <2>11. ASSUME NEW n \in Nodes, NEW l \in Lanes, RankDies(n, l)
         PROVE  pc' = "idle" /\ Whole(said.lane)'
    <3>1. vars' = vars
      BY <2>11 DEF Death
    <3>2. QED
      BY <2>1, <3>1 DEF vars
  <2>12. ASSUME NEW n \in Nodes, NEW l \in Lanes, LateStart(n, l)
         PROVE  pc' = "idle" /\ Whole(said.lane)'
    BY <2>1, <2>12 DEF LateStart, TypeOK
  <2>13. CASE UNCHANGED vars
    BY <2>1, <2>13 DEF vars
  <2>14. QED
    BY <2>3, <2>5, <2>6, <2>7, <2>8, <2>9, <2>10, <2>11, <2>12, <2>13 DEF Next, CommandStep
<1>3. QED
  BY LaneTypeCorrect, PassedIsUp, <1>1, <1>2, PTL DEF Spec, NoOrphanStarts, NoDeaths, PassMeansUp

(***************************************************************************)
(* Every command ends.  What a command has before it: the steps of its     *)
(* own, less the nodes a loop has been at, the ranks still to start, and   *)
(* in a rotation the lanes still to park and the up after them.            *)
(***************************************************************************)
OwnSteps == [idle |-> 0, wait |-> 1, start |-> 2, already |-> 7, occupancy |-> 12, verify |-> 5,
             stopNodes |-> 9, stop |-> 9, park |-> 0, census |-> 98]

Passed == IF pc \in {"census", "occupancy", "stopNodes", "verify"} THEN at ELSE 0
ToStart == IF pc \in {"start", "wait"} THEN Cardinality(todo) ELSE 0
ToAsk == IF pc = "already" /\ lane \in AsksFirst THEN 5 ELSE 0
Pending ==
    IF pc \in {"park", "stop", "stopNodes", "verify"} /\ target # None
    THEN 13 + 10 * Cardinality(parks) ELSE 0

StepsLeft == OwnSteps[pc] - Passed + ToStart + ToAsk + Pending

OnlyParkable == parks \subseteq Parkable

LEMMA NextOnlyParkable == OnlyParkable /\ [Next]_vars => OnlyParkable'
<1> SUFFICES ASSUME OnlyParkable, [Next]_vars
             PROVE  OnlyParkable'
  OBVIOUS
<1> USE DEF OnlyParkable, world, commandVars
<1>1. ASSUME NEW l \in Lanes, BeginUp(l) \/ BeginDown(l) \/ BeginRotate(l)
      PROVE  OnlyParkable'
  BY <1>1 DEF BeginUp, BeginDown, BeginRotate, EnterUp, EnterDown
<1>2. CASE Interrupt \/ StartFails
  BY <1>2 DEF Interrupt, StartFails, EndUp, ToIdle
<1>3. CASE Census
  <2>1. UNCHANGED parks \/ parks' = Parks(target, seen')
    BY <1>3 DEF Census, Loop
  <2>2. Parks(target, seen') \subseteq Parkable
    BY DEF Parks
  <2>3. QED
    BY <2>1, <2>2
<1>4. CASE ParkNext
  BY <1>4 DEF ParkNext, EnterUp, EnterDown
<1>5. CASE Occupancy \/ AlreadyUp
  BY <1>5 DEF Occupancy, AlreadyUp, EndUp, ToIdle
<1>6. ASSUME NEW n \in Nodes, StartRank(n)
      PROVE  OnlyParkable'
  BY <1>6 DEF StartRank
<1>7. CASE StartDone \/ Wait
  BY <1>7 DEF StartDone, Wait, EndUp, ToIdle
<1>8. CASE Stop
  BY <1>8 DEF Stop, EndDown, ToIdle
<1>9. CASE StopNode
  BY <1>9 DEF StopNode, Loop
<1>10. CASE VerifyDown
  BY <1>10 DEF VerifyDown, EndDown, ToIdle
<1>11. ASSUME NEW n \in Nodes, NEW l \in Lanes, RankDies(n, l) \/ LateStart(n, l)
       PROVE  OnlyParkable'
  BY <1>11 DEF RankDies, LateStart
<1>12. CASE UNCHANGED vars
  BY <1>12 DEF vars
<1>13. QED
  BY <1>1, <1>2, <1>3, <1>4, <1>5, <1>6, <1>7, <1>8, <1>9, <1>10, <1>11, <1>12
  DEF Next, Begin, CommandStep

LEMMA ParkableIsSmall ==
    ASSUME NEW S \in SUBSET Parkable
    PROVE  IsFiniteSet(S) /\ Cardinality(S) \in 0..8
<1>1. ParkList \in Surjection(1..8, Parkable)
  <2>1. DOMAIN ParkList = 1..8 /\ ParkList = [i \in 1..8 |-> ParkList[i]]
    BY DEF ParkList
  <2>2. QED
    BY <2>1 DEF Surjection, Parkable
<1>2. IsFiniteSet(1..8) /\ Cardinality(1..8) = 8
  <2>1. 1 \in Int /\ 8 \in Int
    OBVIOUS
  <2>2. IsFiniteSet(1..8) /\ Cardinality(1..8) = IF 1 > 8 THEN 0 ELSE 8 - 1 + 1
    BY <2>1, FS_Interval, Zenon
  <2>3. QED
    BY <2>2
<1>3. IsFiniteSet(Parkable) /\ Cardinality(Parkable) <= 8
  BY <1>1, <1>2, FS_Surjection
<1>4. IsFiniteSet(S) /\ Cardinality(S) <= Cardinality(Parkable)
  BY <1>3, FS_Subset
<1>5. QED
  BY <1>3, <1>4, FS_CardinalityType

LEMMA NodesAreFour ==
    ASSUME NEW S \in SUBSET Nodes
    PROVE  IsFiniteSet(S) /\ Cardinality(S) \in 0..4
<1>1. AllNodes \in Surjection(1..4, Nodes)
  <2>1. DOMAIN AllNodes = 1..4 /\ AllNodes = [i \in 1..4 |-> AllNodes[i]]
        /\ Nodes = {AllNodes[1], AllNodes[2], AllNodes[3], AllNodes[4]}
    BY DEF AllNodes, Nodes
  <2>2. QED
    BY <2>1 DEF Surjection
<1>2. IsFiniteSet(1..4) /\ Cardinality(1..4) = 4
  <2>1. 1 \in Int /\ 4 \in Int
    OBVIOUS
  <2>2. IsFiniteSet(1..4) /\ Cardinality(1..4) = IF 1 > 4 THEN 0 ELSE 4 - 1 + 1
    BY <2>1, FS_Interval, Zenon
  <2>3. QED
    BY <2>2
<1>3. IsFiniteSet(Nodes) /\ Cardinality(Nodes) <= 4
  BY <1>1, <1>2, FS_Surjection
<1>4. IsFiniteSet(S) /\ Cardinality(S) <= Cardinality(Nodes)
  BY <1>3, FS_Subset
<1>5. QED
  BY <1>3, <1>4, FS_CardinalityType

(* What the proofs about single steps need to know of the counts. *)
Counts == Cardinality(parks) \in 0..8 /\ Cardinality(todo) \in 0..4 /\ at \in 1..4

LEMMA CountsHold == TypeOK /\ OnlyParkable => Counts
  BY ParkableIsSmall, NodesAreFour DEF TypeOK, OnlyParkable, Counts

SInv == TypeOK /\ PlaceInv /\ OnlyParkable

Bounded == SInv /\ Counts /\ StepsLeft \in 0..102 /\ (StepsLeft = 0 <=> pc = "idle")

(* The bound: a down begins, with all eight lanes still to park. *)
LEMMA StepsLeftType == SInv => Bounded
<1> SUFFICES ASSUME SInv
             PROVE  Bounded
  OBVIOUS
<1>1. Counts /\ pc \in Places /\ (pc = "park" => target # None)
  BY CountsHold DEF SInv, TypeOK
<1>2. OwnSteps[pc] \in 0..98 /\ Passed \in 0..4 /\ ToStart \in 0..4 /\ ToAsk \in {0, 5}
  BY <1>1 DEF Counts, Places, OwnSteps, Passed, ToStart, ToAsk
<1>3. Pending \in 0..93
  BY <1>1 DEF Counts, Pending
<1>4. CASE pc \in {"idle", "wait", "start", "already", "occupancy", "census"}
  BY <1>1, <1>2, <1>4 DEF SInv, Bounded, Counts, StepsLeft, OwnSteps, Passed, ToStart, ToAsk, Pending
<1>5. CASE pc \in {"park", "stop", "stopNodes", "verify"}
  <2>1. StepsLeft = OwnSteps[pc] - Passed + Pending /\ OwnSteps[pc] \in 0..9 /\ OwnSteps[pc] - Passed \in 0..9
    BY <1>1, <1>3, <1>5 DEF Counts, StepsLeft, OwnSteps, Passed, ToStart, ToAsk
  <2>2. OwnSteps[pc] - Passed > 0 \/ Pending > 0
    BY <1>1, <1>5 DEF Counts, OwnSteps, Passed, Pending
  <2>3. QED
    BY <1>1, <1>3, <1>5, <2>1, <2>2 DEF Bounded
<1>6. QED
  BY <1>1, <1>4, <1>5 DEF Places

(* Where the next place has fewer steps before it. *)
LEMMA EndsNow ==
    ASSUME Bounded, Bounded', pc # "idle", pc' = "idle"
    PROVE  StepsLeft' < StepsLeft
<1>1. StepsLeft \in 0..102 /\ StepsLeft # 0
  BY DEF Bounded
<1>2. StepsLeft' = 0
  BY DEF Bounded
<1>3. QED
  BY <1>1, <1>2

LEMMA DownEnds ==
    ASSUME Bounded, Bounded', pc \in {"stop", "verify"}, NEW verdict, EndDown(verdict)
    PROVE  StepsLeft' < StepsLeft
<1>1. CASE target = None
  BY <1>1, EndsNow DEF EndDown, ToIdle
<1>2. CASE target # None
  <2>1. pc' = "park" /\ UNCHANGED <<target, parks>>
    BY <1>2 DEF EndDown
  <2>2. Counts
    BY DEF Bounded
  <2>3. QED
    BY <1>2, <2>1, <2>2 DEF Counts, StepsLeft, OwnSteps, Passed, ToStart, ToAsk, Pending
<1>3. QED
  BY <1>1, <1>2

LEMMA UpCounts ==
    ASSUME Bounded, Bounded', Occupancy \/ AlreadyUp \/ StartDone \/ Wait \/ \E n \in Nodes : StartRank(n)
    PROVE  StepsLeft' < StepsLeft
<1> USE DEF StepsLeft, OwnSteps, Passed, ToStart, ToAsk, Pending, Counts
<1>1. Counts /\ Counts'
  BY DEF Bounded
<1>2. CASE Occupancy
  <2>1. CASE pc' = "idle"
    BY <1>2, <2>1, EndsNow DEF Occupancy
  <2>2. CASE pc' = "occupancy" /\ at' = at + 1
    BY <1>1, <1>2, <2>2 DEF Occupancy
  <2>3. CASE pc' \in {"already", "start"}
    <3>1. pc = "occupancy" /\ pc' = IF lane \in AsksLater THEN "already" ELSE "start"
      BY <1>2, <2>3 DEF Occupancy, EndUp, ToIdle
    <3>2. lane' = lane /\ (lane \in AsksLater => lane \notin AsksFirst)
      BY <1>2, <2>3 DEF Occupancy, EndUp, ToIdle, AsksLater, AsksFirst
    <3>3. QED
      BY <1>1, <3>1, <3>2
  <2>4. QED
    BY <1>2, <2>1, <2>2, <2>3 DEF Occupancy, EndUp, ToIdle
<1>3. CASE AlreadyUp
  <2>1. CASE pc' = "idle"
    BY <1>3, <2>1, EndsNow DEF AlreadyUp
  <2>2. CASE pc' # "idle"
    <3>1. /\ pc = "already" /\ pc' = IF lane \in AsksFirst \ Unchecked THEN "occupancy" ELSE "start"
          /\ at' = at
      BY <1>3, <2>2 DEF AlreadyUp, EndUp, ToIdle
    <3>2. at = 1
      BY <3>1 DEF Bounded, SInv, PlaceInv
    <3>3. QED
      BY <1>1, <3>1, <3>2
  <2>3. QED
    BY <2>1, <2>2
<1>4. CASE StartDone
  BY <1>1, <1>4 DEF StartDone
<1>5. CASE Wait
  BY <1>5, EndsNow DEF Wait, EndUp, ToIdle
<1>6. ASSUME NEW n \in Nodes, StartRank(n)
      PROVE  StepsLeft' < StepsLeft
  <2>1. pc \in {"start", "wait"} /\ UNCHANGED <<pc, lane>> /\ n \in todo /\ todo' = todo \ {n}
    BY <1>6 DEF StartRank
  <2>2. IsFiniteSet(todo)
    BY NodesAreFour DEF Bounded, SInv, TypeOK
  <2>3. Cardinality(todo \ {n}) = Cardinality(todo) - 1
    BY <2>1, <2>2, FS_RemoveElement
  <2>4. QED
    BY <1>1, <2>1, <2>3
<1>7. QED
  BY <1>2, <1>3, <1>4, <1>5, <1>6

LEMMA DownCounts ==
    ASSUME Bounded, Bounded', Stop \/ StopNode \/ VerifyDown
    PROVE  StepsLeft' < StepsLeft
<1> USE DEF StepsLeft, OwnSteps, Passed, ToStart, ToAsk, Pending, Counts
<1>1. Counts /\ Counts'
  BY DEF Bounded
<1>2. CASE Stop
  <2>1. CASE EndDown("fail")
    BY <1>2, <2>1, DownEnds DEF Stop
  <2>2. CASE pc' \in {"stopNodes", "verify"} /\ UNCHANGED <<at, target, parks>>
    <3>1. pc = "stop"
      BY <1>2 DEF Stop
    <3>2. at = 1
      BY <3>1 DEF Bounded, SInv, PlaceInv
    <3>3. QED
      BY <1>1, <2>2, <3>1, <3>2
  <2>3. QED
    BY <1>2, <2>1, <2>2 DEF Stop
<1>3. CASE StopNode
  <2>1. /\ pc = "stopNodes" /\ UNCHANGED <<target, parks>>
        /\ \/ pc' = pc /\ at' = at + 1
           \/ pc' = "verify" /\ at' = 1
    BY <1>3 DEF StopNode, Loop
  <2>2. QED
    BY <1>1, <2>1
<1>4. CASE VerifyDown
  <2>1. CASE pc' = "verify" /\ at' = at + 1 /\ UNCHANGED <<target, parks>>
    BY <1>1, <1>4, <2>1 DEF VerifyDown
  <2>2. CASE EndDown("pass") \/ EndDown("fail")
    BY <1>4, <2>2, DownEnds DEF VerifyDown
  <2>3. QED
    BY <1>4, <2>1, <2>2 DEF VerifyDown
<1>5. QED
  BY <1>2, <1>3, <1>4

LEMMA RotateCounts ==
    ASSUME Bounded, Bounded', Census \/ ParkNext
    PROVE  StepsLeft' < StepsLeft
<1> USE DEF StepsLeft, OwnSteps, Passed, ToStart, ToAsk, Pending, Counts
<1>1. Counts /\ Counts'
  BY DEF Bounded
<1>2. CASE Census
  <2>1. /\ pc = "census"
        /\ \/ pc' = "census" /\ at' = at + 1
           \/ pc' = "park"
    BY <1>2 DEF Census, Loop
  <2>2. QED
    BY <1>1, <2>1
<1>3. CASE ParkNext
  <2>1. pc = "park" /\ target # None /\ target' = target
    BY <1>3 DEF ParkNext, Bounded, SInv, TypeOK
  <2>2. CASE pc' \in {"already", "occupancy"} /\ at' = 1
    BY <1>1, <2>1, <2>2
  <2>3. ASSUME NEW m \in parks, EnterDown(m), parks' = parks \ {m}
        PROVE  StepsLeft' < StepsLeft
    <3>1. pc' \in {"stop", "stopNodes"} /\ at' = 1
      BY <2>3 DEF EnterDown
    <3>2. IsFiniteSet(parks)
      BY ParkableIsSmall DEF Bounded, SInv, OnlyParkable
    <3>3. Cardinality(parks \ {m}) = Cardinality(parks) - 1
      BY <3>2, FS_RemoveElement
    <3>4. Cardinality(parks') = Cardinality(parks) - 1
      BY <2>3, <3>3
    <3>5. QED
      BY <1>1, <2>1, <3>1, <3>4
  <2>4. QED
    BY <1>3, <2>2, <2>3 DEF ParkNext, EnterUp
<1>4. QED
  BY <1>2, <1>3

(* Every step of a command brings it nearer to its end, and nothing that   *)
(* happens on the nodes takes it back: an up, a down or a rotation is over *)
(* after at most 102 steps of its own, whatever fails, dies or comes up    *)
(* late while it runs (3113-3200: no loop of spark-lane goes back).        *)
CommandsCountDown ==
    [][pc # "idle" =>
          /\ StepsLeft' <= StepsLeft
          /\ CommandStep => StepsLeft' < StepsLeft]_vars

THEOREM EveryCommandEnds == Spec => [](StepsLeft \in 0..102) /\ CommandsCountDown
<1> DEFINE A == pc # "idle" => /\ StepsLeft' <= StepsLeft
                               /\ CommandStep => StepsLeft' < StepsLeft
<1>1. Init => SInv
  BY InitTypeOK DEF Init, SInv, PlaceInv, OnlyParkable
<1>2. SInv /\ [Next]_vars => SInv'
  BY NextTypeOK, NextPlaceInv, NextOnlyParkable DEF SInv
<1>3. SInv => Bounded
  BY StepsLeftType
<1>4. Bounded /\ Bounded' /\ [Next]_vars => [A]_vars
  <2> SUFFICES ASSUME Bounded, Bounded', Next, pc # "idle"
               PROVE  StepsLeft' <= StepsLeft /\ (CommandStep => StepsLeft' < StepsLeft)
    OBVIOUS
  <2>1. StepsLeft \in 0..102 /\ StepsLeft' \in 0..102
    BY DEF Bounded
  <2>2. ASSUME CommandStep
        PROVE  StepsLeft' < StepsLeft
    BY <2>2, UpCounts, DownCounts, RotateCounts DEF CommandStep
  <2>3. CASE StartFails \/ Interrupt
    <3>1. pc' = "idle"
      BY <2>3 DEF StartFails, Interrupt, EndUp, ToIdle
    <3>2. StepsLeft' < StepsLeft
      BY <3>1, EndsNow
    <3>3. QED
      BY <2>1, <3>2
  <2>4. ASSUME NEW n \in Nodes, NEW l \in Lanes, RankDies(n, l) \/ LateStart(n, l)
        PROVE  StepsLeft' = StepsLeft
    BY <2>4 DEF RankDies, LateStart, commandVars, StepsLeft, Passed, ToStart, ToAsk, Pending
  <2>5. ~Begin
    BY DEF Begin, BeginUp, BeginDown, BeginRotate
  <2>6. QED
    BY <2>1, <2>2, <2>3, <2>4, <2>5 DEF Next
<1>5. Bounded => StepsLeft \in 0..102
  BY DEF Bounded
<1>6. QED
  BY <1>1, <1>2, <1>3, <1>4, <1>5, PTL DEF Spec, CommandsCountDown

=============================================================================
