---------------------------- MODULE LaneRotation ----------------------------
(***************************************************************************)
(* spark-lane: one operator brings lanes up and down and rotates between   *)
(* them, over ssh, on nodes that may not answer, with engines that may     *)
(* fail to start, hang or die, and may interrupt a command at any moment.  *)
(* Nothing is persisted: what runs on the nodes is the only state there    *)
(* is between two commands.                                                *)
(***************************************************************************)
EXTENDS LaneRegistry, FiniteSets, Naturals

CONSTANTS
    Lanes,             \* the lanes of the registry that are in use
    Unreachable,       \* nodes whose ssh may fail
    MayFail,           \* scripts, canaries and ranks may fail, and the operator may interrupt
    None

ASSUME RotationAssumption ==
    /\ Lanes \subseteq AllLanes
    /\ Unreachable \subseteq Nodes
    /\ MayFail \in BOOLEAN
    /\ None \notin AllLanes

VARIABLES
    running,           \* lanes whose container or app runs on each node
    late,              \* ranks that a start script may still start, though its command has ended
    pc,                \* where the command is
    lane,              \* the lane it works on
    target,            \* the lane it rotates to; None in a plain up or down
    at,                \* position in the lane's nodes, in a loop over them
    seen,              \* lanes its probes have found
    parks,             \* lanes rotate has still to park
    todo,              \* nodes whose rank has still to be started
    said               \* the verdict printed last

commandVars == <<pc, lane, target, at, seen, parks, todo>>
world == <<running, late>>
vars == <<world, commandVars, said>>

Places == {"idle", "census", "park", "already", "occupancy", "start", "wait",
           "stop", "stopNodes", "verify"}
Silence == [action |-> "none", lane |-> None, verdict |-> "none"]
Verdicts == [action : {"up", "down"}, lane : Lanes, verdict : {"pass", "fail"}] \union {Silence}

TypeOK ==
    /\ running \in [Nodes -> SUBSET Lanes]
    /\ late \subseteq Nodes \X (Lanes \intersect Detached)
    /\ pc \in Places
    /\ lane \in Lanes \union {None} /\ target \in Lanes \union {None}
    /\ (pc \notin {"idle", "census", "park"} => lane # None)
    /\ (pc \in {"census", "park"} => target # None)
    /\ at \in 1..4
    /\ (lane # None /\ pc # "census" => at <= Len(LaneNodes(lane)))
    /\ (pc = "census" => at <= Len(LaneNodes(target)))
    /\ seen \in SUBSET Lanes
    /\ parks \in SUBSET Lanes
    /\ todo \in SUBSET Nodes
    /\ said \in Verdicts

Init ==
    /\ running = [n \in Nodes |-> {}] /\ late = {}
    /\ pc = "idle" /\ lane = None /\ target = None
    /\ at = 1 /\ seen = {} /\ parks = {} /\ todo = {}
    /\ said = Silence

----------------------------------------------------------------------------
(* What a command can see *)

NodesOf(l) == {LaneNodes(l)[i] : i \in DOMAIN LaneNodes(l)}

(* Lanes with containers on a node, and those of them that a probe names.  *)
Tenants(n) == running[n] \ Hidden
Occupants(n) == {m \in Tenants(n) : \A l \in Tenants(n) : ~Outranks(l, m)}

(* A node that does not answer looks free. *)
Probes(n) == {Occupants(n)} \union (IF n \in Unreachable THEN {{}} ELSE {})

Conflict(l, occupants) == {m \in occupants : m # l /\ {l, m} \notin CoTenants}

Whole(l) == \A n \in NodesOf(l) : l \in running[n]

(* Somebody answers on the lane's port: any lane that has it. *)
Answers(l, n) ==
    IF Port(l) = ComfyPort
    THEN \E m \in running[n] : Port(m) = ComfyPort
    ELSE \E m \in Lanes : Port(m) = Port(l) /\ Whole(m)

Serving(l) == \A n \in NodesOf(l) : Answers(l, n)

(* What up asks at the end: a container of its own, its ranks, or an       *)
(* answer to a completion under the served name.                           *)
Healthy(l) ==
    /\ Serving(l)
    /\ l = "comfy-engine" => l \in running["spark2"]
    /\ l \in CountsRanks => Whole(l)

----------------------------------------------------------------------------
(* Moving through a command *)

Say(action, verdict) == said' = [action |-> action, lane |-> lane, verdict |-> verdict]

ToIdle ==
    /\ pc' = "idle" /\ lane' = None /\ target' = None
    /\ at' = 1 /\ seen' = {} /\ parks' = {} /\ todo' = {}

EndUp(verdict) == Say("up", verdict) /\ ToIdle

(* Mutant: a plain down goes on as if it were part of a rotation. *)
EndDownGoingOn(verdict) ==
    /\ Say("down", verdict)
    /\ pc' = "park" /\ at' = 1 /\ seen' = {} /\ UNCHANGED <<lane, target, parks, todo>>

(* In a rotation the verdict of a down is ignored. *)
EndDown(verdict) ==
    /\ Say("down", verdict)
    /\ IF target = None
       THEN ToIdle
       ELSE pc' = "park" /\ at' = 1 /\ seen' = {} /\ UNCHANGED <<lane, target, parks, todo>>

EnterUp(l) ==
    /\ lane' = l
    /\ pc' = IF l \in AsksFirst THEN "already" ELSE "occupancy"
    /\ at' = 1 /\ seen' = {}
    /\ todo' = NodesOf(l)

EnterDown(l) ==
    /\ lane' = l
    /\ pc' = IF l \in StoppedPerNode THEN "stopNodes" ELSE "stop"
    /\ at' = 1 /\ seen' = {}
    /\ UNCHANGED todo

(* A detached start script outlives its command. *)
LeaveScript ==
    late' = late \union IF pc \in {"start", "wait"} /\ lane \in Detached THEN todo \X {lane} ELSE {}

(* The next node of the loop, or what follows it. *)
Loop(l, whenDone) ==
    IF at < Len(LaneNodes(l))
    THEN at' = at + 1 /\ UNCHANGED <<pc, lane, target, parks, todo, said>>
    ELSE whenDone

----------------------------------------------------------------------------
(* The operator *)

BeginUp(l) ==
    /\ pc = "idle"
    /\ EnterUp(l)
    /\ said' = Silence
    /\ UNCHANGED <<world, target, parks>>

BeginDown(l) ==
    /\ pc = "idle"
    /\ EnterDown(l)
    /\ said' = Silence
    /\ UNCHANGED <<world, target, parks>>

BeginRotate(l) ==
    /\ pc = "idle"
    /\ pc' = "census" /\ target' = l
    /\ at' = 1 /\ seen' = {}
    /\ said' = Silence
    /\ UNCHANGED <<world, lane, parks, todo>>

(* The operator or a lost session ends the command where it is. *)
Interrupt ==
    /\ MayFail
    /\ pc # "idle"
    /\ ToIdle
    /\ said' = Silence
    /\ LeaveScript
    /\ UNCHANGED running

----------------------------------------------------------------------------
(* rotate *)

Parkable == {ParkList[i] : i \in DOMAIN ParkList}

(* Mutant: the first occupant of a node stands for all of them. *)
ParksOfFirst(l, found) == {m \in found : m # l /\ m \in Parkable /\ m = CHOOSE k \in found : TRUE}

Parks(l, found) == IF l = "studio-2" THEN {} ELSE {m \in found : m # l /\ m \in Parkable}

Census ==
    /\ pc = "census"
    /\ \E occupants \in Probes(LaneNodes(target)[at]) :
          /\ seen' = seen \union occupants
          /\ Loop(target, /\ pc' = "park" /\ at' = 1
                          /\ parks' = Parks(target, seen')
                          /\ UNCHANGED <<lane, target, todo, said>>)
    /\ UNCHANGED world

ParksFirst(m) ==
    \E i \in DOMAIN ParkList : ParkList[i] = m /\ \A j \in 1..(i - 1) : ParkList[j] \notin parks

ParkNext ==
    /\ pc = "park"
    /\ \/ parks = {} /\ EnterUp(target) /\ UNCHANGED parks
       \/ \E m \in parks :
             /\ ParksFirst(m)
             /\ EnterDown(m) /\ parks' = parks \ {m}
    /\ said' = Silence
    /\ UNCHANGED <<world, target>>

----------------------------------------------------------------------------
(* up *)

(* Mutant: only containers nobody knows are in the way. *)
OccupancyIgnoringLanes ==
    /\ pc = "occupancy"
    /\ Loop(lane, /\ pc' = IF lane \in AsksLater THEN "already" ELSE "start"
                  /\ at' = 1
                  /\ UNCHANGED <<lane, target, parks, todo, said>>)
    /\ UNCHANGED <<world, seen>>

(* A node that another lane holds refuses the up; all nodes are asked. *)
Occupancy ==
    /\ pc = "occupancy"
    /\ \E occupants \in Probes(LaneNodes(lane)[at]) :
          LET found == seen \union Conflict(lane, occupants) IN
          IF at < Len(LaneNodes(lane))
          THEN seen' = found /\ at' = at + 1 /\ UNCHANGED <<pc, lane, target, parks, todo, said>>
          ELSE IF found # {}
               THEN EndUp("fail")
               ELSE /\ pc' = IF lane \in AsksLater THEN "already" ELSE "start"
                    /\ at' = 1 /\ seen' = {}
                    /\ UNCHANGED <<lane, target, parks, todo, said>>
    /\ UNCHANGED world

(* A lane that serves already is left alone; the four-node ComfyUI starts  *)
(* where nothing answers.  A hung engine does not answer.                  *)
AlreadyUp ==
    /\ pc = "already"
    /\ \E deaf \in IF MayFail THEN SUBSET NodesOf(lane) ELSE {{}} :
          LET silent == deaf \union {n \in NodesOf(lane) : ~Answers(lane, n)} IN
          IF silent = {}
          THEN EndUp("pass")
          ELSE /\ pc' = IF lane \in AsksFirst \ Unchecked THEN "occupancy" ELSE "start"
               /\ todo' = IF lane = "comfy-studio-4x" THEN silent ELSE NodesOf(lane)
               /\ UNCHANGED <<lane, target, at, seen, parks, said>>
    /\ UNCHANGED world

StartRank(n) ==
    /\ pc \in {"start", "wait"}
    /\ n \in todo
    /\ todo' = todo \ {n}
    /\ running' = [running EXCEPT ![n] = @ \union {lane}]
    /\ UNCHANGED <<late, pc, lane, target, at, seen, parks, said>>

(* A preflight, a start script or a node fails, or the budget runs out:    *)
(* what was started stays.                                                 *)
StartFails ==
    /\ MayFail
    /\ pc \in {"start", "wait"}
    /\ EndUp("fail")
    /\ LeaveScript
    /\ UNCHANGED running

(* A start in the foreground ends with its last rank; whoever waits for a  *)
(* detached one goes on once the port answers.                             *)
StartDone ==
    /\ pc = "start"
    /\ \/ todo = {}
       \/ lane \in Detached /\ Serving(lane)
    /\ pc' = "wait"
    /\ UNCHANGED <<world, lane, target, at, seen, parks, todo, said>>

(* Mutant: the port answers. *)
WaitForPort ==
    /\ pc = "wait"
    /\ EndUp(IF \E n \in NodesOf(lane) : lane \in running[n] THEN "pass" ELSE "fail")
    /\ LeaveScript
    /\ UNCHANGED running

Wait ==
    /\ pc = "wait"
    /\ EndUp(IF Healthy(lane) THEN "pass" ELSE "fail")
    /\ LeaveScript
    /\ UNCHANGED running

----------------------------------------------------------------------------
(* down *)

Without(nodes) == [n \in Nodes |-> IF n \in nodes THEN running[n] \ Kin(lane) ELSE running[n]]

(* The lane's own script, run on the head with a time limit. *)
Stop ==
    /\ pc = "stop"
    /\ UNCHANGED late
    /\ \/ /\ running' = Without(NodesOf(lane))
          /\ pc' = IF lane \in Swept THEN "stopNodes" ELSE "verify"
          /\ UNCHANGED <<lane, target, at, seen, parks, todo, said>>
       \/ /\ MayFail \/ HeadNode \in Unreachable
          /\ \E stopped \in SUBSET NodesOf(lane) : running' = Without(stopped)
          /\ IF lane \in Swept
             THEN pc' = "stopNodes" /\ UNCHANGED <<lane, target, at, seen, parks, todo, said>>
             ELSE EndDown("fail")

(* Node by node; a node that does not answer is passed over. *)
StopNode ==
    /\ pc = "stopNodes"
    /\ LET n == LaneNodes(lane)[at] IN
       \/ running' = Without({n})
       \/ (MayFail \/ n \in Unreachable) /\ UNCHANGED running
    /\ Loop(lane, pc' = "verify" /\ at' = 1 /\ UNCHANGED <<lane, target, parks, todo, said>>)
    /\ UNCHANGED <<late, seen>>

(* Mutant: the script's word is enough. *)
VerifyTrusting ==
    /\ pc = "verify"
    /\ EndDown("pass")
    /\ UNCHANGED world

StillThere(n) == IF lane = "studio-2" THEN running[n] ELSE running[n] \intersect Kin(lane)

VerifyDown ==
    /\ pc = "verify"
    /\ LET n == LaneNodes(lane)[at] IN
       \E left \in {StillThere(n)} \union (IF n \in Unreachable THEN {{}} ELSE {}) :
          IF at < Len(LaneNodes(lane))
          THEN /\ seen' = seen \union left /\ at' = at + 1
               /\ UNCHANGED <<pc, lane, target, parks, todo, said>>
          ELSE EndDown(IF seen \union left = {} THEN "pass" ELSE "fail")
    /\ UNCHANGED world

----------------------------------------------------------------------------
(* A rank dies: out of memory, a crash, a reboot. *)
RankDies(n, l) ==
    /\ MayFail
    /\ l \in running[n]
    /\ running' = [running EXCEPT ![n] = @ \ {l}]
    /\ UNCHANGED <<late, commandVars, said>>

(* A script that nobody waits for any more starts its next rank. *)
LateStart(n, l) ==
    /\ <<n, l>> \in late
    /\ late' = late \ {<<n, l>>}
    /\ running' = [running EXCEPT ![n] = @ \union {l}]
    /\ UNCHANGED <<commandVars, said>>

Begin == \E l \in Lanes : BeginUp(l) \/ BeginDown(l) \/ BeginRotate(l)

CommandStep ==
    \/ Census \/ ParkNext
    \/ Occupancy \/ AlreadyUp \/ StartDone \/ Wait
    \/ \E n \in Nodes : StartRank(n)
    \/ Stop \/ StopNode \/ VerifyDown

Next ==
    \/ Begin
    \/ CommandStep
    \/ StartFails \/ Interrupt
    \/ \E n \in Nodes, l \in Lanes : RankDies(n, l) \/ LateStart(n, l)

Spec == Init /\ [][Next]_vars

(* Every script and every loop of the program has a time limit. *)
FairSpec == Spec /\ WF_vars(CommandStep)

----------------------------------------------------------------------------
Answering == Nodes \ Unreachable

Says(action, verdict) == said' # said /\ said'.action = action /\ said'.verdict = verdict

(* "refuses to clobber a running lane", "up: refuses if a node is taken":  *)
(* no checked lane starts on a node that answers and holds a lane it may   *)
(* not share with, whatever fails on the nodes that do not answer          *)
(* (5, 16, 690-709, and the occupancy step of every up).                   *)
NoClobber ==
    [][\A n \in Answering : \A l \in (running'[n] \ running[n]) \ Unchecked :
          Conflict(l, Tenants(n)) = {}]_vars

(* "park a lane (verifies it really stopped)": a down that passes has left *)
(* none of the lane's containers on any node that answers (17).            *)
PassMeansParked ==
    [][Says("down", "pass") => \A n \in NodesOf(said'.lane) \intersect Answering : said'.lane \notin running'[n]]_vars

(* The same, word for word: of every node (17).                            *)
DownReallyStops ==
    [][Says("down", "pass") => \A n \in NodesOf(said'.lane) : said'.lane \notin running'[n]]_vars

(* "verifies with a real chat canary (not just an open port)": an up that  *)
(* passes has the lane it names on all of its nodes (5-6).                 *)
PassMeansUp ==
    [][Says("up", "pass") => \A n \in NodesOf(said'.lane) : said'.lane \in running'[n]]_vars

(* "rotate: park whatever conflicts, then bring it up": a rotation that    *)
(* nothing hinders ends with its lane up (19, 3180-3200).                  *)
RotateEndsUp ==
    \A l \in Lanes : target = l ~> said = [action |-> "up", lane |-> l, verdict |-> "pass"]

=============================================================================
