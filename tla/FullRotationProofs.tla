------------------------- MODULE FullRotationProofs -------------------------
(***************************************************************************)
(* Machine-checked proofs about FullRotation, for any calls and any lanes. *)
(***************************************************************************)
EXTENDS FullRotation, LaneRotationProofs

Listed(c) == {AllLanesOf(c)[i] : i \in DOMAIN AllLanesOf(c)}

Left == {queue[i] : i \in DOMAIN queue}

LEMMA ListedType == ASSUME NEW c PROVE AllLanesOf(c) \in Seq(Listed(c))
<1>1. AllLanesOf(c) = <<c.only>> \/ AllLanesOf(c) = ScriptLanes
  BY DEF AllLanesOf
<1>2. ASSUME AllLanesOf(c) = <<c.only>>
      PROVE  AllLanesOf(c) \in Seq(Listed(c))
  <2>1. DOMAIN <<c.only>> = {1} /\ <<c.only>>[1] = c.only
    OBVIOUS
  <2>2. Listed(c) = {c.only}
    BY <1>2, <2>1 DEF Listed
  <2>3. QED
    BY <1>2, <2>2
<1>3. ASSUME AllLanesOf(c) = ScriptLanes
      PROVE  AllLanesOf(c) \in Seq(Listed(c))
  <2>1. DOMAIN ScriptLanes = 1..4
    BY DEF ScriptLanes
  <2>2. \A i \in 1..4 : ScriptLanes[i] \in Listed(c)
    BY <1>3, <2>1 DEF Listed
  <2>3. {"creative-engine", "dsv41-tp3", "dsv41-tp4", "glm53-tp3"} \subseteq Listed(c)
    BY <2>2 DEF ScriptLanes
  <2>4. QED
    BY <1>3, <2>3 DEF ScriptLanes
<1>4. QED
  BY <1>1, <1>2, <1>3

LEMMA HeadAndRest ==
    ASSUME NEW S, NEW q \in Seq(S), q # <<>>
    PROVE  /\ Head(q) \in S /\ Tail(q) \in Seq(S)
           /\ \A i \in DOMAIN q : q[i] = Head(q) \/ \E j \in DOMAIN Tail(q) : q[i] = Tail(q)[j]
<1>1. Head(q) = q[1] /\ Len(q) \in Nat /\ Len(q) > 0 /\ DOMAIN q = 1..Len(q) /\ Tail(q) \in Seq(S)
  OBVIOUS
<1>2. Len(Tail(q)) = Len(q) - 1 /\ DOMAIN Tail(q) = 1..(Len(q) - 1)
  BY <1>1
<1>3. ASSUME NEW i \in DOMAIN q, i # 1
      PROVE  i - 1 \in DOMAIN Tail(q) /\ q[i] = Tail(q)[i - 1]
  BY <1>1, <1>2, <1>3
<1>4. QED
  BY <1>1, <1>3

(***************************************************************************)
(* What is left of the list comes from the list.                           *)
(***************************************************************************)
QueueInv ==
    /\ call \in Calls /\ queue \in Seq(Listed(call))
    /\ script \in {"rotating", "verifying"} => queue # <<>>

LEMMA InitQueueInv == RotationInit => QueueInv
  BY DEF RotationInit, QueueInv

LEMMA NextQueueInv == QueueInv /\ [RotationNext]_<<vars, scriptVars>> => QueueInv'
<1> SUFFICES ASSUME QueueInv, [RotationNext]_<<vars, scriptVars>>
             PROVE  QueueInv'
  OBVIOUS
<1> USE DEF QueueInv, scriptVars
<1>1. ASSUME NEW c \in Calls, Start(c)
      PROVE  QueueInv'
  BY <1>1, ListedType DEF Start
<1>2. ASSUME UNCHANGED call, script' \notin {"rotating", "verifying"},
             queue' = queue \/ (queue # <<>> /\ queue' = Tail(queue))
      PROVE  QueueInv'
  BY <1>2, HeadAndRest
<1>3. CASE Skip
  BY <1>2, <1>3 DEF Skip
<1>4. CASE RotateToUnknown
  BY <1>2, <1>4 DEF RotateToUnknown
<1>5. CASE RotateToNext
  BY <1>5 DEF RotateToNext
<1>6. CASE Rotated
  BY <1>2, <1>6 DEF Rotated
<1>7. CASE Verify
  BY <1>2, <1>7 DEF Verify
<1>8. CASE Finish
  BY <1>2, <1>8 DEF Finish
<1>9. CASE Ended \/ Summary
  BY <1>2, <1>9 DEF Ended, Summary
<1>10. CASE OperatorBegins \/ CommandGoesOn \/ UNCHANGED <<vars, scriptVars>>
  BY <1>10 DEF OperatorBegins, CommandGoesOn
<1>11. QED
  BY <1>1, <1>3, <1>4, <1>5, <1>6, <1>7, <1>8, <1>9, <1>10 DEF RotationNext, ScriptStep

(* A lane the script rotates to is a lane in use. *)
LEMMA NextIsInUse ==
    ASSUME QueueInv, queue # <<>>, Head(queue) \in AllLanes \ call.skip
    PROVE  Head(queue) \in Lanes
<1>1. Head(queue) \in Listed(call)
  BY HeadAndRest DEF QueueInv
<1>2. Head(queue) \in Asked(call)
  BY <1>1 DEF Asked, Listed
<1>3. QED
  BY <1>2, CallsAssumption DEF QueueInv

LEMMA EndIsInUse ==
    ASSUME QueueInv, EndOf(call) # {}, call.end \in AllLanes
    PROVE  call.end \in Lanes /\ EndOf(call) = {call.end}
<1>1. EndOf(call) = {call.end}
  BY DEF EndOf
<1>2. QED
  BY <1>1, CallsAssumption DEF QueueInv

LEMMA StepIsLaneStep == QueueInv /\ [RotationNext]_<<vars, scriptVars>> => [Next]_vars
<1> SUFFICES ASSUME QueueInv, [RotationNext]_<<vars, scriptVars>>
             PROVE  [Next]_vars
  OBVIOUS
<1> USE DEF scriptVars
<1>1. ASSUME NEW c \in Calls, Start(c)
      PROVE  UNCHANGED vars
  BY <1>1 DEF Start
<1>2. CASE RotateToNext
  BY <1>2, NextIsInUse DEF RotateToNext, Next, Begin
<1>3. CASE Finish
  BY <1>3, EndIsInUse DEF Finish, Next, Begin
<1>4. CASE Skip \/ RotateToUnknown \/ Rotated \/ Verify \/ Ended \/ Summary
  BY <1>4 DEF Skip, RotateToUnknown, Rotated, Verify, Ended, Summary
<1>5. CASE OperatorBegins \/ CommandGoesOn
  BY <1>5 DEF OperatorBegins, CommandGoesOn, Next
<1>6. CASE UNCHANGED <<vars, scriptVars>>
  BY <1>6
<1>7. QED
  BY <1>1, <1>2, <1>3, <1>4, <1>5, <1>6 DEF RotationNext, ScriptStep

(* The script does with spark-lane only what an operator may do: whatever  *)
(* is proved of spark-lane holds under it as well (rotate-all.sh 56-64,    *)
(* 104: it calls rotate and verify, one at a time).                        *)
THEOREM ScriptIsAnOperator == RotationSpec => Spec
<1>1. RotationSpec => []QueueInv
  BY InitQueueInv, NextQueueInv, PTL DEF RotationSpec
<1>2. RotationInit => Init
  BY DEF RotationInit
<1>3. QED
  BY <1>1, <1>2, StepIsLaneStep, PTL DEF RotationSpec, Spec

(***************************************************************************)
(* What the report rests on: every lane asked for has passed, has failed   *)
(* or is still in the list, and what spark-lane says during the last       *)
(* rotation it says of the end lane.                                       *)
(***************************************************************************)
Bringing == {"already", "occupancy", "start", "wait"}

EndingInv ==
    script = "ending" =>
        /\ EndOf(call) = {call.end}
        /\ pc # "idle" => target = call.end
        /\ pc \in Bringing => lane = call.end
        /\ said.action = "up" => said.lane = call.end

EndIsUp == \A l \in EndOf(call) : said = [action |-> "up", lane |-> l, verdict |-> "pass"]

Accounted == \A l \in Asked(call) \ passed : \E i \in DOMAIN queue : queue[i] = l

ReportInv ==
    /\ script \in {"next", "verifying", "summary"} => pc = "idle"
    /\ script \in {"ending", "summary"} => queue = <<>>
    /\ script # "off" => failed # {} \/ Accounted
    /\ script = "summary" => failed # {} \/ EndIsUp

RInv == QueueInv /\ EndingInv /\ ReportInv

LEMMA InitRInv == RotationInit => RInv
  BY InitQueueInv DEF RotationInit, RInv, EndingInv, ReportInv

(* Between two commands nothing is said. *)
LEMMA IdleIsQuiet ==
    ASSUME pc = "idle", CommandGoesOn
    PROVE  UNCHANGED <<pc, said>>
<1> USE DEF CommandGoesOn, commandVars, world
<1>1. UNCHANGED pc
  OBVIOUS
<1>2. ASSUME NEW l \in Lanes, BeginUp(l) \/ BeginDown(l) \/ BeginRotate(l)
      PROVE  FALSE
  BY <1>1, <1>2 DEF BeginUp, BeginDown, BeginRotate, EnterUp, EnterDown
<1>3. ASSUME NEW n \in Nodes, NEW l \in Lanes, RankDies(n, l) \/ LateStart(n, l)
      PROVE  UNCHANGED said
  BY <1>3 DEF RankDies, LateStart
<1>4. ~CommandStep /\ ~StartFails /\ ~Interrupt
  BY DEF CommandStep, Census, ParkNext, Occupancy, AlreadyUp, StartDone, Wait, StartRank, Stop,
         StopNode, VerifyDown, StartFails, Interrupt
<1>5. QED
  BY <1>1, <1>2, <1>3, <1>4 DEF Next, Begin

LEMMA EndingGoesOn ==
    ASSUME EndingInv, script = "ending", CommandGoesOn
    PROVE  EndingInv'
<1> DEFINE Ending == /\ pc' # "idle" => target' = call.end
                     /\ pc' \in Bringing => lane' = call.end
                     /\ said'.action = "up" => said'.lane = call.end
<1> USE DEF EndingInv, CommandGoesOn, scriptVars, Bringing, commandVars, world
<1>1. SUFFICES Ending
  OBVIOUS
<1>2. CASE pc = "idle"
  BY <1>2, IdleIsQuiet
<1>3. CASE pc # "idle"
  <2>1. CASE Interrupt
    BY <2>1 DEF Interrupt, ToIdle, Silence
  <2>2. CASE StartFails \/ Wait
    BY <1>3, <2>2 DEF StartFails, Wait, EndUp, Say, ToIdle
  <2>3. CASE Census
    BY <1>3, <2>3 DEF Census, Loop
  <2>4. CASE ParkNext
    BY <1>3, <2>4 DEF ParkNext, EnterUp, EnterDown, Silence
  <2>5. CASE Occupancy
    BY <1>3, <2>5 DEF Occupancy, EndUp, Say, ToIdle
  <2>6. CASE AlreadyUp
    BY <1>3, <2>6 DEF AlreadyUp, EndUp, Say, ToIdle
  <2>7. CASE StartDone
    BY <1>3, <2>7 DEF StartDone
  <2>8. ASSUME NEW n \in Nodes, StartRank(n)
        PROVE  Ending
    BY <1>3, <2>8 DEF StartRank
  <2>9. CASE Stop
    BY <1>3, <2>9 DEF Stop, EndDown, Say, ToIdle
  <2>10. CASE StopNode
    BY <1>3, <2>10 DEF StopNode, Loop
  <2>11. CASE VerifyDown
    BY <1>3, <2>11 DEF VerifyDown, EndDown, Say, ToIdle
  <2>12. ASSUME NEW n \in Nodes, NEW l \in Lanes, RankDies(n, l) \/ LateStart(n, l)
         PROVE  Ending
    BY <1>3, <2>12 DEF RankDies, LateStart
  <2>13. CASE Begin
    BY <1>3, <2>13 DEF Begin, BeginUp, BeginDown, BeginRotate
  <2>14. QED
    BY <2>1, <2>2, <2>3, <2>4, <2>5, <2>6, <2>7, <2>8, <2>9, <2>10, <2>11, <2>12, <2>13
    DEF Next, CommandStep
<1>4. QED
  BY <1>2, <1>3

LEMMA NextEndingInv == RInv /\ [RotationNext]_<<vars, scriptVars>> => EndingInv'
<1> SUFFICES ASSUME RInv, [RotationNext]_<<vars, scriptVars>>
             PROVE  EndingInv'
  OBVIOUS
<1>1. ASSUME script' # "ending"
      PROVE  EndingInv'
  BY <1>1 DEF EndingInv
<1>2. CASE Finish
  <2>1. CASE EndOf(call) # {} /\ call.end \in AllLanes
    <3>1. EndOf(call) = {call.end} /\ UNCHANGED call /\ BeginRotate(call.end)
      BY <1>2, <2>1, EndIsInUse DEF Finish, RInv
    <3>2. /\ target' = call.end /\ pc' = "census" /\ said' = Silence
          /\ EndOf(call') = {call'.end}
      BY <3>1 DEF BeginRotate
    <3>3. QED
      BY <3>1, <3>2 DEF EndingInv, Bringing, Silence
  <2>2. CASE EndOf(call) = {} \/ call.end \notin AllLanes
    BY <1>1, <1>2, <2>2 DEF Finish
  <2>3. QED
    BY <2>1, <2>2
<1>3. CASE CommandGoesOn
  BY <1>1, <1>3, EndingGoesOn DEF RInv, CommandGoesOn, scriptVars
<1>4. ASSUME NEW c \in Calls, Start(c)
      PROVE  EndingInv'
  BY <1>1, <1>4 DEF Start
<1>5. CASE Skip \/ RotateToUnknown \/ RotateToNext \/ Rotated \/ Verify \/ Ended \/ Summary \/ OperatorBegins
  BY <1>1, <1>5 DEF Skip, RotateToUnknown, RotateToNext, Rotated, Verify, Ended, Summary, OperatorBegins
<1>6. CASE UNCHANGED <<vars, scriptVars>>
  BY <1>6 DEF RInv, EndingInv, vars, commandVars, scriptVars
<1>7. QED
  BY <1>2, <1>3, <1>4, <1>5, <1>6 DEF RotationNext, ScriptStep

(* A lane that leaves the head of the list passed, failed or is skipped. *)
LEMMA HeadAccounted ==
    ASSUME QueueInv, Accounted, queue # <<>>, queue' = Tail(queue), UNCHANGED call,
           Head(queue) \in passed' \/ Head(queue) \in call.skip, passed \subseteq passed'
    PROVE  Accounted'
<1>1. \A i \in DOMAIN queue : queue[i] = Head(queue) \/ \E j \in DOMAIN Tail(queue) : queue[i] = Tail(queue)[j]
  BY HeadAndRest DEF QueueInv
<1>2. QED
  BY <1>1 DEF Accounted, Asked

LEMMA NextReportInv == RInv /\ TypeOK /\ [RotationNext]_<<vars, scriptVars>> => ReportInv'
<1> SUFFICES ASSUME RInv, TypeOK, [RotationNext]_<<vars, scriptVars>>
             PROVE  ReportInv'
  OBVIOUS
<1> USE DEF RInv, ReportInv, scriptVars
<1>1. ASSUME NEW c \in Calls, Start(c)
      PROVE  ReportInv'
  BY <1>1 DEF Start, Accounted, Asked, vars, commandVars
<1>2. CASE Skip
  <2>1. Accounted => Accounted'
    BY <1>2, HeadAccounted DEF Skip
  <2>2. QED
    BY <1>2, <2>1 DEF Skip, vars, commandVars
<1>3. CASE RotateToUnknown
  BY <1>3 DEF RotateToUnknown, Fails, vars, commandVars
<1>4. CASE RotateToNext
  BY <1>4 DEF RotateToNext, Accounted
<1>5. CASE Rotated
  BY <1>5 DEF Rotated, Fails, Accounted, vars, commandVars
<1>6. CASE Verify
  <2>1. CASE Serving(Head(queue))
    <3>1. Accounted => Accounted'
      BY <1>6, <2>1, HeadAccounted DEF Verify, QueueInv
    <3>2. QED
      BY <1>6, <2>1, <3>1 DEF Verify, vars, commandVars
  <2>2. CASE ~Serving(Head(queue))
    BY <1>6, <2>2 DEF Verify, Fails, vars, commandVars
  <2>3. QED
    BY <2>1, <2>2
<1>7. CASE Finish
  <2>1. Accounted => Accounted'
    BY <1>7 DEF Finish, Accounted
  <2>2. CASE EndOf(call) = {}
    BY <1>7, <2>1, <2>2 DEF Finish, EndIsUp, vars, commandVars
  <2>3. CASE EndOf(call) # {}
    BY <1>7, <2>1, <2>3 DEF Finish, vars, commandVars
  <2>4. QED
    BY <2>2, <2>3
<1>8. CASE Ended
  <2>1. Accounted => Accounted'
    BY <1>8 DEF Ended, Fails, Accounted
  <2>2. CASE Succeeded
    <3>1. said \in Verdicts /\ said.action = "up" /\ said.verdict = "pass"
      BY <2>2 DEF TypeOK, Succeeded
    <3>2. said = [action |-> "up", lane |-> said.lane, verdict |-> "pass"]
      BY <3>1 DEF Verdicts, Silence
    <3>3. EndIsUp
      BY <1>8, <3>1, <3>2 DEF Ended, EndingInv, EndIsUp
    <3>4. QED
      BY <1>8, <2>1, <2>2, <3>3 DEF Ended, EndIsUp, vars, commandVars
  <2>3. CASE ~Succeeded
    BY <1>8, <2>1, <2>3 DEF Ended, Fails, vars, commandVars
  <2>4. QED
    BY <2>2, <2>3
<1>9. CASE Summary
  BY <1>9 DEF Summary
<1>10. CASE OperatorBegins
  BY <1>10 DEF OperatorBegins
<1>11. CASE CommandGoesOn
  <2>1. pc = "idle" => UNCHANGED <<pc, said>>
    BY <1>11, IdleIsQuiet
  <2>2. QED
    BY <1>11, <2>1 DEF CommandGoesOn, Accounted, EndIsUp
<1>12. CASE UNCHANGED <<vars, scriptVars>>
  BY <1>12 DEF vars, commandVars, Accounted, EndIsUp
<1>13. QED
  BY <1>1, <1>2, <1>3, <1>4, <1>5, <1>6, <1>7, <1>8, <1>9, <1>10, <1>11, <1>12 DEF RotationNext, ScriptStep

(* A PASS is printed only when every lane asked for has passed and the     *)
(* last word of spark-lane was that the end lane is up, whatever failed,   *)
(* died or was interrupted on the way (rotate-all.sh 83-132).              *)
THEOREM PassIsOnEnd == RotationSpec => PassLeavesFleetOnEnd
<1> DEFINE Reported ==
        report' = "pass" /\ report # "pass" =>
            /\ Asked(call) \subseteq passed
            /\ \A l \in EndOf(call) : said = [action |-> "up", lane |-> l, verdict |-> "pass"]
<1>1. RotationSpec => []TypeOK
  BY ScriptIsAnOperator, LaneTypeCorrect, PTL
<1>2. RInv /\ TypeOK /\ [RotationNext]_<<vars, scriptVars>> => RInv'
  BY NextQueueInv, NextEndingInv, NextReportInv DEF RInv
<1>3. RInv /\ [RotationNext]_<<vars, scriptVars>> => [Reported]_<<vars, scriptVars>>
  <2> SUFFICES ASSUME RInv, [RotationNext]_<<vars, scriptVars>>, report' = "pass" /\ report # "pass"
               PROVE  Reported
    OBVIOUS
  <2>1. CASE Summary
    <3>1. script = "summary" /\ failed = {}
      BY <2>1 DEF Summary
    <3>2. Accounted /\ EndIsUp /\ queue = <<>>
      BY <3>1 DEF RInv, ReportInv
    <3>3. QED
      BY <3>2 DEF Accounted, EndIsUp
  <2>2. CASE ~Summary
    BY <2>2 DEF RotationNext, ScriptStep, Start, Skip, RotateToUnknown, RotateToNext, Rotated, Verify,
                Finish, Ended, OperatorBegins, CommandGoesOn, scriptVars
  <2>3. QED
    BY <2>1, <2>2
<1>4. QED
  BY InitRInv, <1>1, <1>2, <1>3, PTL DEF RotationSpec, PassLeavesFleetOnEnd

(***************************************************************************)
(* What the runs check under the script, from what is proved of spark-lane *)
(* alone: the script adds calls, but none an operator could not make.      *)
(***************************************************************************)

(* No lane starts on a node that answers and holds a lane it may not share *)
(* with, whoever calls spark-lane (spark-lane 5, 16, 690-709).             *)
THEOREM ScriptNeverClobbers ==
    RotationSpec /\ NoOrphanStarts => NoClobber
BY ScriptIsAnOperator, NeverClobbers, PTL

(* A down in the middle of a rotation, whose verdict nobody looks at, says *)
(* pass only of a lane that is gone (spark-lane 17, 3180-3200).            *)
THEOREM ScriptParksForReal ==
    RotationSpec /\ NoOrphanStarts => PassMeansParked
BY ScriptIsAnOperator, ParkedIsStopped, PTL

(* The word "pass" that the script reads is said of a lane that is up on   *)
(* all of its nodes (spark-lane 5-6, rotate-all.sh 64-81).                 *)
THEOREM ScriptPassesAreUp ==
    ASSUME PortTellsLane
    PROVE  RotationSpec /\ NoOrphanStarts => PassMeansUp
BY ScriptIsAnOperator, PassedIsUp, PTL

(* RESULT: PASS is true of the fleet and not only of what was said: if     *)
(* nothing has died, the end lane runs on every one of its nodes at the    *)
(* moment the script prints it (rotate-all.sh 93-132).                     *)
FleetIsOnEnd ==
    [][report' = "pass" /\ report # "pass" => \A l \in EndOf(call) : Whole(l)]_<<vars, scriptVars>>

THEOREM PassIsTrueOfTheFleet ==
    ASSUME PortTellsLane
    PROVE  RotationSpec /\ NoOrphanStarts /\ NoDeaths => FleetIsOnEnd
<1>1. ASSUME UpStands,
             report' = "pass" /\ report # "pass" =>
                 /\ Asked(call) \subseteq passed
                 /\ \A l \in EndOf(call) : said = [action |-> "up", lane |-> l, verdict |-> "pass"]
      PROVE  report' = "pass" /\ report # "pass" => \A l \in EndOf(call) : Whole(l)
  BY <1>1 DEF UpStands
<1>2. QED
  BY ScriptIsAnOperator, PassIsOnEnd, UpStaysUp, <1>1, PTL DEF PassLeavesFleetOnEnd, FleetIsOnEnd

(***************************************************************************)
(* The script ends.  Three steps of its own for a lane of its list, and    *)
(* three for the end lane and the report; in between it waits for rotates, *)
(* which end (EveryCommandEnds).                                           *)
(***************************************************************************)
Scripts == {"off", "next", "rotating", "verifying", "ending", "summary"}

ScriptSteps == [off |-> 0, summary |-> 1, ending |-> 2, next |-> 3, rotating |-> 2, verifying |-> 1]

ToVisit == IF script \in {"next", "rotating", "verifying"} THEN 3 * Len(queue) ELSE 0

ScriptStepsLeft == ScriptSteps[script] + ToVisit

ScriptTypeInv == script \in Scripts /\ Len(queue) \in 0..4

ScriptBounded == QueueInv /\ ScriptTypeInv /\ ScriptStepsLeft \in 0..15

LEMMA ListIsShort == ASSUME NEW c PROVE Len(AllLanesOf(c)) \in 0..4
<1>1. AllLanesOf(c) = <<c.only>> \/ AllLanesOf(c) = ScriptLanes
  BY DEF AllLanesOf
<1>2. Len(<<c.only>>) = 1 /\ Len(ScriptLanes) = 4
  BY DEF ScriptLanes
<1>3. QED
  BY <1>1, <1>2

LEMMA QueueShrinks ==
    ASSUME QueueInv, ScriptTypeInv, queue # <<>>
    PROVE  Len(queue) \in 1..4 /\ Len(Tail(queue)) = Len(queue) - 1
<1>1. queue \in Seq(Listed(call))
  BY DEF QueueInv
<1>2. Len(queue) \in Nat /\ Len(queue) # 0 /\ Len(Tail(queue)) = Len(queue) - 1
  BY <1>1
<1>3. QED
  BY <1>2 DEF ScriptTypeInv

LEMMA ScriptMoves ==
    ASSUME QueueInv, ScriptStep
    PROVE  \/ script = "next" /\ script' = "next" /\ queue # <<>> /\ queue' = Tail(queue)
           \/ script = "next" /\ script' = "rotating" /\ queue' = queue
           \/ script = "rotating" /\ script' = "verifying" /\ queue' = queue
           \/ script \in {"rotating", "verifying"} /\ script' = "next" /\ queue # <<>> /\ queue' = Tail(queue)
           \/ script = "next" /\ script' \in {"summary", "ending"} /\ queue = <<>> /\ queue' = queue
           \/ script = "ending" /\ script' = "summary" /\ queue' = queue
           \/ script = "summary" /\ script' = "off" /\ queue' = queue
<1>1. CASE Skip \/ RotateToUnknown \/ RotateToNext
  BY <1>1 DEF Skip, RotateToUnknown, RotateToNext
<1>2. CASE Rotated \/ Verify
  BY <1>2 DEF Rotated, Verify, QueueInv
<1>3. CASE Finish
  BY <1>3 DEF Finish
<1>4. CASE Ended \/ Summary
  BY <1>4 DEF Ended, Summary
<1>5. QED
  BY <1>1, <1>2, <1>3, <1>4 DEF ScriptStep

LEMMA NextScriptTypeInv ==
    QueueInv /\ ScriptTypeInv /\ [RotationNext]_<<vars, scriptVars>> => ScriptTypeInv'
<1> SUFFICES ASSUME QueueInv, ScriptTypeInv, [RotationNext]_<<vars, scriptVars>>
             PROVE  ScriptTypeInv'
  OBVIOUS
<1>1. ASSUME NEW c \in Calls, Start(c)
      PROVE  ScriptTypeInv'
  BY <1>1, ListIsShort DEF Start, ScriptTypeInv, Scripts
<1>2. CASE ScriptStep
  <2>1. script' \in Scripts /\ (queue' = queue \/ (queue # <<>> /\ queue' = Tail(queue)))
    BY <1>2, ScriptMoves DEF Scripts
  <2>2. CASE queue' = queue
    BY <2>1, <2>2 DEF ScriptTypeInv
  <2>3. CASE queue # <<>> /\ queue' = Tail(queue)
    <3>1. Len(queue) \in 1..4 /\ Len(queue') = Len(queue) - 1
      BY <2>3, QueueShrinks
    <3>2. QED
      BY <2>1, <3>1 DEF ScriptTypeInv
  <2>4. QED
    BY <2>1, <2>2, <2>3
<1>3. CASE OperatorBegins \/ CommandGoesOn \/ UNCHANGED <<vars, scriptVars>>
  BY <1>3 DEF OperatorBegins, CommandGoesOn, scriptVars, ScriptTypeInv
<1>4. QED
  BY <1>1, <1>2, <1>3 DEF RotationNext

LEMMA ScriptStepsLeftType == QueueInv /\ ScriptTypeInv => ScriptBounded
<1> SUFFICES ASSUME QueueInv, ScriptTypeInv
             PROVE  ScriptBounded
  OBVIOUS
<1>1. ScriptSteps[script] \in 0..3
  BY DEF ScriptTypeInv, Scripts, ScriptSteps
<1>2. ToVisit \in 0..12
  <2>1. Len(queue) \in 0..4
    BY DEF ScriptTypeInv
  <2>2. \A k \in 0..4 : 3 * k \in 0..12
    OBVIOUS
  <2>3. 3 * Len(queue) \in 0..12
    BY <2>1, <2>2
  <2>4. QED
    BY <2>3 DEF ToVisit
<1>3. ScriptStepsLeft \in 0..15
  BY <1>1, <1>2 DEF ScriptStepsLeft
<1>4. QED
  BY <1>3 DEF ScriptBounded

LEMMA ScriptCounts ==
    ASSUME ScriptBounded, ScriptBounded', ScriptStep
    PROVE  ScriptStepsLeft' < ScriptStepsLeft
<1> USE DEF ScriptBounded, ScriptTypeInv, ScriptSteps, ToVisit, ScriptStepsLeft
<1>1. CASE script = "next" /\ script' = "next" /\ queue # <<>> /\ queue' = Tail(queue)
  BY <1>1, QueueShrinks
<1>2. CASE script = "next" /\ script' = "rotating" /\ queue' = queue
  BY <1>2
<1>3. CASE script = "rotating" /\ script' = "verifying" /\ queue' = queue
  BY <1>3
<1>4. CASE script \in {"rotating", "verifying"} /\ script' = "next" /\ queue # <<>> /\ queue' = Tail(queue)
  BY <1>4, QueueShrinks
<1>5. CASE script = "next" /\ script' \in {"summary", "ending"} /\ queue = <<>> /\ queue' = queue
  BY <1>5
<1>6. CASE script = "ending" /\ script' = "summary"
  BY <1>6
<1>7. CASE script = "summary" /\ script' = "off"
  BY <1>7
<1>8. QED
  BY <1>1, <1>2, <1>3, <1>4, <1>5, <1>6, <1>7, ScriptMoves

(* A script that nobody stops ends, whatever fails in it: each step of its *)
(* own brings it nearer to its report, there are at most 15 of them, no    *)
(* command takes it back, and each rotate it waits for ends by itself      *)
(* (rotate-all.sh 56-132).                                                 *)
ScriptCountsDown ==
    [][script # "off" =>
          /\ ScriptStepsLeft' <= ScriptStepsLeft
          /\ ScriptStep => ScriptStepsLeft' < ScriptStepsLeft]_<<vars, scriptVars>>

THEOREM EveryScriptEnds ==
    RotationSpec => [](ScriptStepsLeft \in 0..15) /\ ScriptCountsDown /\ CommandsCountDown
<1> DEFINE A == script # "off" => /\ ScriptStepsLeft' <= ScriptStepsLeft
                                  /\ ScriptStep => ScriptStepsLeft' < ScriptStepsLeft
<1>1. RotationInit => QueueInv /\ ScriptTypeInv
  BY InitQueueInv DEF RotationInit, ScriptTypeInv, Scripts
<1>2. QueueInv /\ ScriptTypeInv /\ [RotationNext]_<<vars, scriptVars>> => QueueInv' /\ ScriptTypeInv'
  BY NextQueueInv, NextScriptTypeInv
<1>3. QueueInv /\ ScriptTypeInv => ScriptBounded
  BY ScriptStepsLeftType
<1>4. ScriptBounded => ScriptStepsLeft \in 0..15
  BY DEF ScriptBounded
<1>5. ScriptBounded /\ ScriptBounded' /\ [RotationNext]_<<vars, scriptVars>> => [A]_<<vars, scriptVars>>
  <2> SUFFICES ASSUME ScriptBounded, ScriptBounded', RotationNext, script # "off"
               PROVE  A
    OBVIOUS
  <2>1. ScriptStepsLeft \in 0..15 /\ ScriptStepsLeft' \in 0..15
    BY DEF ScriptBounded
  <2>2. CASE ScriptStep
    BY <2>1, <2>2, ScriptCounts
  <2>3. CASE ~ScriptStep
    <3>1. CommandGoesOn
      BY <2>3 DEF RotationNext, Start, OperatorBegins
    <3>2. ScriptStepsLeft' = ScriptStepsLeft
      BY <3>1 DEF CommandGoesOn, scriptVars, ScriptStepsLeft, ToVisit
    <3>3. QED
      BY <2>1, <2>3, <3>2
  <2>4. QED
    BY <2>2, <2>3
<1>6. QED
  BY ScriptIsAnOperator, EveryCommandEnds, <1>1, <1>2, <1>3, <1>4, <1>5, PTL
  DEF RotationSpec, ScriptCountsDown

=============================================================================
