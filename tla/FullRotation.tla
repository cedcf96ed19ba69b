---------------------------- MODULE FullRotation ----------------------------
(***************************************************************************)
(* ops/rotate-all.sh: rotates through a fixed list of lanes with           *)
(* spark-lane, verifies each with a canary, ends on a lane of the caller's *)
(* choice and reports.  It goes on after a failure, and it names lanes     *)
(* that spark-lane no longer knows.                                        *)
(***************************************************************************)
EXTENDS LaneRotation

CONSTANT Calls         \* options the script is called with

ScriptLanes == <<"creative-engine", "dsv41-tp3", "dsv41-tp4", "glm53-tp3">>

AllLanesOf(c) == IF c.only # None THEN <<c.only>> ELSE ScriptLanes

(* The lanes a call rotates to. *)
Asked(c) == {AllLanesOf(c)[i] : i \in DOMAIN AllLanesOf(c)} \ c.skip
EndOf(c) == IF c.only = None THEN {c.end} \ c.skip ELSE {}

ASSUME CallsAssumption ==
    \A c \in Calls : (Asked(c) \union EndOf(c)) \intersect AllLanes \subseteq Lanes

VARIABLES
    script,            \* what the script does
    call,              \* its options
    queue,             \* lanes still to be rotated to
    passed, failed,    \* lanes that passed and lanes that failed
    report             \* the result it prints

scriptVars == <<script, call, queue, passed, failed, report>>

RotationInit ==
    /\ Init
    /\ script = "off" /\ call \in Calls /\ queue = <<>>
    /\ passed = {} /\ failed = {}
    /\ report = "none"

----------------------------------------------------------------------------
Start(c) ==
    /\ script = "off" /\ pc = "idle"
    /\ script' = "next" /\ call' = c /\ queue' = AllLanesOf(c)
    /\ passed' = {} /\ failed' = {} /\ report' = "none"
    /\ UNCHANGED vars

Fails(l) == failed' = failed \union {l} /\ UNCHANGED passed

(* Mutant: a lane nobody knows fails even if the caller skips it. *)
SkipKnown ==
    /\ script = "next" /\ queue # <<>>
    /\ Head(queue) \in call.skip
    /\ queue' = Tail(queue)
    /\ IF Head(queue) \in AllLanes THEN UNCHANGED <<passed, failed>> ELSE Fails(Head(queue))
    /\ UNCHANGED <<vars, script, call, report>>

Skip ==
    /\ script = "next" /\ queue # <<>>
    /\ Head(queue) \in call.skip
    /\ queue' = Tail(queue)
    /\ UNCHANGED <<vars, script, call, passed, failed, report>>

(* spark-lane refuses the name, before it parks anything. *)
RotateToUnknown ==
    /\ script = "next" /\ queue # <<>>
    /\ Head(queue) \notin call.skip \union AllLanes
    /\ Fails(Head(queue))
    /\ queue' = Tail(queue)
    /\ UNCHANGED <<vars, script, call, report>>

RotateToNext ==
    /\ script = "next" /\ queue # <<>>
    /\ Head(queue) \in AllLanes \ call.skip
    /\ BeginRotate(Head(queue))
    /\ script' = "rotating"
    /\ UNCHANGED <<call, queue, passed, failed, report>>

Succeeded == said.action = "up" /\ said.verdict = "pass"

Rotated ==
    /\ script = "rotating" /\ pc = "idle"
    /\ IF Succeeded
       THEN script' = "verifying" /\ UNCHANGED <<queue, passed, failed>>
       ELSE script' = "next" /\ queue' = Tail(queue) /\ Fails(Head(queue))
    /\ UNCHANGED <<vars, call, report>>

(* spark-lane verify: the canary asks whoever answers on the lane's port.  *)
Verify ==
    /\ script = "verifying"
    /\ IF Serving(Head(queue))
       THEN passed' = passed \union {Head(queue)} /\ UNCHANGED failed
       ELSE Fails(Head(queue))
    /\ script' = "next" /\ queue' = Tail(queue)
    /\ UNCHANGED <<vars, call, report>>

(* After the list: back to the end lane, in the list or not. *)
Finish ==
    /\ script = "next" /\ queue = <<>>
    /\ IF EndOf(call) = {}
       THEN script' = "summary" /\ UNCHANGED <<vars, failed>>
       ELSE IF call.end \notin AllLanes
            THEN script' = "summary" /\ failed' = failed \union {call.end} /\ UNCHANGED vars
            ELSE BeginRotate(call.end) /\ script' = "ending" /\ UNCHANGED failed
    /\ UNCHANGED <<call, queue, passed, report>>

(* Mutant: the last rotation is not asked how it went. *)
EndedUnasked ==
    /\ script = "ending" /\ pc = "idle"
    /\ script' = "summary"
    /\ UNCHANGED <<vars, call, queue, passed, failed, report>>

Ended ==
    /\ script = "ending" /\ pc = "idle"
    /\ script' = "summary"
    /\ IF Succeeded THEN UNCHANGED <<passed, failed>> ELSE Fails(call.end)
    /\ UNCHANGED <<vars, call, queue, report>>

Summary ==
    /\ script = "summary"
    /\ report' = IF failed = {} THEN "pass" ELSE "fail"
    /\ script' = "off" /\ passed' = {} /\ failed' = {}
    /\ UNCHANGED <<vars, call, queue>>

ScriptStep ==
    \/ Skip \/ RotateToUnknown \/ RotateToNext \/ Rotated \/ Verify
    \/ Finish \/ Ended \/ Summary

(* The operator leaves spark-lane to a script that runs. *)
OperatorBegins ==
    /\ script = "off"
    /\ Begin
    /\ report' = "none"
    /\ UNCHANGED <<script, call, queue, passed, failed>>

CommandGoesOn ==
    /\ Next
    /\ pc = "idle" => UNCHANGED commandVars
    /\ UNCHANGED scriptVars

RotationNext == (\E c \in Calls : Start(c)) \/ ScriptStep \/ OperatorBegins \/ CommandGoesOn

RotationSpec == RotationInit /\ [][RotationNext]_<<vars, scriptVars>>

(* A script that nobody stops goes on. *)
FairRotationSpec ==
    RotationSpec /\ WF_vars(CommandStep) /\ WF_<<vars, scriptVars>>(ScriptStep)

----------------------------------------------------------------------------
(* "The end lane must ALWAYS be rotated to after the loop" (93-97): a PASS *)
(* is printed only when every lane asked for has passed, and the last      *)
(* thing spark-lane said is that the end lane is up.                       *)
PassLeavesFleetOnEnd ==
    [][report' = "pass" /\ report # "pass" =>
          /\ Asked(call) \subseteq passed
          /\ \A l \in EndOf(call) : said = [action |-> "up", lane |-> l, verdict |-> "pass"]
      ]_<<vars, scriptVars>>

(* "can be invoked with zero judgement: it parks whatever is running,      *)
(* brings up the target lane, waits for it, verifies it, and moves on"     *)
(* (5-7): called for lanes that spark-lane knows, with nothing failing, it *)
(* ends with a PASS.                                                       *)
RotationPasses ==
    \A c \in Calls :
        Asked(c) \union EndOf(c) \subseteq AllLanes =>
            (script = "next" /\ call = c ~> report = "pass")

=============================================================================
