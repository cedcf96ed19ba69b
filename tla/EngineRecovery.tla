--------------------------- MODULE EngineRecovery ---------------------------
(***************************************************************************)
(* The TP4 vLLM world on the four nodes and its two scripts on forge:      *)
(* scripts/dsv41-recover.sh, started by an operator, a watchdog or, once   *)
(* per boot of forge, by the unit dsv41-world.service, and the launcher it *)
(* calls, scripts/launch-dsv41-vllm-tp4.sh.                                *)
(*                                                                         *)
(* Rank n runs in one container on node n; rank 0 is the head on forge and *)
(* serves the API.  The scripts act on one node at a time, over ssh, so a  *)
(* node can reboot, a rank can die and docker can restart a container      *)
(* between any two of their steps.  Time is kept only where the scripts    *)
(* read it: "young" says that the head container started less than 15      *)
(* minutes ago.                                                            *)
(***************************************************************************)
EXTENDS Naturals

CONSTANTS
    LastRank,       \* the ranks are 0 .. LastRank (3 in the scripts)
    Operators,      \* people and watchdogs that run the script, again and again
    Unit,           \* the boot service of forge
    Nobody,         \* the lock is free
    MaxMishaps      \* bound on faults and forced restarts together

ASSUME RankAssumption == LastRank \in Nat /\ LastRank > 0
ASSUME RunAssumption == Unit \notin Operators /\ Nobody \notin Operators /\ Nobody # Unit
ASSUME MishapAssumption == MaxMishaps \in Nat

Ranks == 0 .. LastRank
Workers == 1 .. LastRank
Head == 0
Runs == Operators \union {Unit}

VARIABLES
    node,       \* "down", "settling" (reachable, clock lock not active), "up"
    unitDue,    \* forge has booted and the unit's run is still to start
    box,        \* the container of each rank
    armed,      \* its restart policy is unless-stopped
    gated,      \* it was there when the launcher's spec gate passed
    young,      \* the head container started less than 15 minutes ago
    stale,      \* the head waits for, or works with, a worker that went away
    wedged,     \* the engine accepts requests and answers none
    lock,       \* who holds /tmp/dsv41-recover.lock
    pc,         \* the step each run is at
    at,         \* the rank that step is for
    launched,   \* the ranks whose container this run created
    spared,     \* the removals by this run that failed on the head (history)
    mishaps     \* faults and forced restarts so far

world == <<box, armed, gated, young, stale, wedged>>
vars == <<node, unitDue, world, lock, pc, at, launched, spared, mishaps>>

Labels == {"idle", "list", "ping", "guard", "reach", "clock", "clear", "drain",
           "restop", "preflight", "launch", "await", "sweep", "gate", "stop",
           "arm", "confirm", "rearm", "recovered"}

TypeOK ==
    /\ node \in [Ranks -> {"down", "settling", "up"}]
    /\ box \in [Ranks -> {"none", "exited", "restarting", "booting", "serving"}]
    /\ armed \in [Ranks -> BOOLEAN] /\ gated \in [Ranks -> BOOLEAN]
    /\ unitDue \in BOOLEAN /\ young \in BOOLEAN /\ stale \in BOOLEAN /\ wedged \in BOOLEAN
    /\ lock \in Runs \union {Nobody}
    /\ pc \in [Runs -> Labels] /\ at \in [Runs -> Ranks]
    /\ launched \in [Runs -> SUBSET Ranks]
    /\ spared \in [Runs -> SUBSET {"clear", "restop"}]
    /\ mishaps \in 0 .. MaxMishaps

---------------------------------------------------------------------------
(* The engine, as its clients see it.                                      *)

Reachable(n) == node[n] # "down"

(* Docker's State.Running, which stays true while docker waits, up to a    *)
(* minute, before it restarts a container whose process has died.          *)
Running(n) == box[n] \in {"restarting", "booting", "serving"}
Alive(n) == box[n] \in {"booting", "serving"}

(* GET /v1/models: the front end in the head answers, whatever the ranks do. *)
Listed == box[Head] = "serving"

(* A completion: every rank has to take part. *)
Answers == ~wedged /\ \A n \in Ranks : box[n] = "serving"

(* All ranks are on their way to the head's rendezvous. *)
CanStart == ~stale /\ \A n \in Ranks : box[n] = "booting"

(* Or they will be, once docker has restarted them. *)
WillStart == ~stale /\ \A n \in Ranks : box[n] \in {"restarting", "booting"}

Init ==
    /\ node = [n \in Ranks |-> "up"] /\ unitDue = FALSE
    /\ \/ /\ box = [n \in Ranks |-> "none"]
          /\ armed = [n \in Ranks |-> FALSE]
       \/ /\ box = [n \in Ranks |-> "serving"]
          /\ armed = [n \in Ranks |-> TRUE]
    /\ gated = armed
    /\ young = FALSE /\ stale = FALSE /\ wedged = FALSE
    /\ lock = Nobody
    /\ pc = [r \in Runs |-> "idle"] /\ at = [r \in Runs |-> Head]
    /\ launched = [r \in Runs |-> {}] /\ spared = [r \in Runs |-> {}]
    /\ mishaps = 0

Mishap == mishaps < MaxMishaps /\ mishaps' = mishaps + 1

---------------------------------------------------------------------------
(* What docker does to one container, and what that does to the engine.    *)

(* The head loses a worker of its world, or one that joined its rendezvous, *)
(* and never gets over it.                                                 *)
LosesWorker(n) == n # Head /\ Alive(n) /\ box[n] = box[Head]

Remove(n) ==
    /\ box' = [box EXCEPT ![n] = "none"]
    /\ armed' = [armed EXCEPT ![n] = FALSE]
    /\ gated' = [gated EXCEPT ![n] = FALSE]
    /\ young' = (young /\ n # Head)
    /\ wedged' = (wedged /\ n # Head)
    /\ stale' = (n # Head /\ (stale \/ LosesWorker(n)))

(* Mutant: docker run --restart unless-stopped. *)
CreateArmed(n) ==
    /\ box' = [box EXCEPT ![n] = "booting"]
    /\ armed' = [armed EXCEPT ![n] = TRUE]
    /\ gated' = [gated EXCEPT ![n] = FALSE]
    /\ young' = (young \/ n = Head)
    /\ UNCHANGED <<stale, wedged>>

(* docker run --restart no. *)
Create(n) ==
    /\ box' = [box EXCEPT ![n] = "booting"]
    /\ armed' = [armed EXCEPT ![n] = FALSE]
    /\ gated' = [gated EXCEPT ![n] = FALSE]
    /\ young' = (young \/ n = Head)
    /\ UNCHANGED <<stale, wedged>>

(* A new process in an existing container, under its restart policy. *)
Restarts(n) ==
    /\ box' = [box EXCEPT ![n] = "booting"]
    /\ young' = (young \/ n = Head)
    /\ wedged' = (wedged /\ n # Head)
    /\ stale' = (n # Head /\ (stale \/ LosesWorker(n)))
    /\ UNCHANGED <<armed, gated>>

(* Its process is gone: the container is out, or docker will restart it. *)
Halts(n, left) ==
    /\ box' = [box EXCEPT ![n] = left]
    /\ wedged' = (wedged /\ n # Head)
    /\ stale' = (n # Head /\ (stale \/ LosesWorker(n)))
    /\ UNCHANGED <<armed, gated, young>>

Stops(n) == Halts(n, "exited")

---------------------------------------------------------------------------
(* The recovery script.  Only one run at a time gets past the lock; the    *)
(* others exit 0.  A run of an operator that is refused changes nothing    *)
(* and is not an action here; the unit's run is then over for this boot.   *)

MoveTo(r, label, n) ==
    /\ pc' = [pc EXCEPT ![r] = label]
    /\ at' = [at EXCEPT ![r] = n]
    /\ UNCHANGED <<node, unitDue, lock, launched>>

Goto(r, label, n) == MoveTo(r, label, n) /\ UNCHANGED spared

(* The process ends, with whatever status, and its lock goes with it. *)
Exit(r) ==
    /\ pc' = [pc EXCEPT ![r] = "idle"]
    /\ at' = [at EXCEPT ![r] = Head]
    /\ launched' = [launched EXCEPT ![r] = {}]
    /\ spared' = [spared EXCEPT ![r] = {}]
    /\ lock' = IF lock = r THEN Nobody ELSE lock
    /\ UNCHANGED <<node, unitDue>>

(* Mutant: a run does not ask for the lock. *)
BeginUnlocked(r) ==
    /\ Reachable(Head) /\ pc[r] = "idle" /\ (r = Unit => unitDue)
    /\ lock' = r
    /\ unitDue' = (unitDue /\ r # Unit)
    /\ pc' = [pc EXCEPT ![r] = "list"]
    /\ UNCHANGED <<node, world, at, launched, spared, mishaps>>

Begin(r) ==
    /\ Reachable(Head) /\ pc[r] = "idle" /\ (r = Unit => unitDue)
    /\ lock = Nobody
    /\ lock' = r
    /\ unitDue' = (unitDue /\ r # Unit)
    /\ pc' = [pc EXCEPT ![r] = "list"]
    /\ UNCHANGED <<node, world, at, launched, spared, mishaps>>

UnitRefused ==
    /\ Reachable(Head) /\ unitDue /\ lock # Nobody
    /\ unitDue' = FALSE
    /\ UNCHANGED <<node, world, lock, pc, at, launched, spared, mishaps>>

(* Mutant: a listed model is enough, as before 2026-09-13. *)
ListModelsTrusting(r) ==
    /\ pc[r] = "list"
    /\ \/ ~Listed /\ Goto(r, "guard", Head) /\ UNCHANGED mishaps
       \/ Listed /\ Exit(r) /\ UNCHANGED mishaps
       \/ Listed /\ r # Unit /\ Goto(r, "guard", Head) /\ Mishap
    /\ UNCHANGED world

(* A listed model is pinged, unless the run was told to restart. *)
ListModels(r) ==
    /\ pc[r] = "list"
    /\ \/ Goto(r, IF Listed THEN "ping" ELSE "guard", Head) /\ UNCHANGED mishaps
       \/ Listed /\ r # Unit /\ Goto(r, "guard", Head) /\ Mishap
    /\ UNCHANGED world

(* Four minutes for one token.  A world so busy that it takes longer is    *)
(* taken for a wedged one.                                                 *)
Ping(r) ==
    /\ pc[r] = "ping"
    /\ \/ Answers /\ Exit(r) /\ UNCHANGED mishaps
       \/ ~Answers /\ Goto(r, "guard", Head) /\ UNCHANGED mishaps
       \/ Answers /\ Goto(r, "guard", Head) /\ Mishap
    /\ UNCHANGED world

(* A head container that started a short while ago is a boot in progress.  *)
BootInProgress == box[Head] # "none" /\ young

BootGuard(r) ==
    /\ pc[r] = "guard"
    /\ IF BootInProgress THEN Exit(r) ELSE Goto(r, "reach", Head)
    /\ UNCHANGED <<world, mishaps>>

(* The two loops over the nodes only read; each is one step here. *)
CheckNodes(r) ==
    /\ \/ /\ pc[r] = "reach"
          /\ IF \A n \in Ranks : Reachable(n) THEN Goto(r, "clock", Head) ELSE Exit(r)
       \/ /\ pc[r] = "clock"
          /\ IF \A n \in Ranks : node[n] = "up" THEN Goto(r, "clear", Head) ELSE Exit(r)
    /\ UNCHANGED <<world, mishaps>>

(* docker rm -f, head first, in the script ("clear") and again in the      *)
(* launcher ("restop").  A failure, or a node that is away, is ignored.    *)
RemoveAll(r, label, next) ==
    LET n == at[r] IN
    /\ pc[r] = label
    /\ IF n = LastRank THEN MoveTo(r, next, Head) ELSE MoveTo(r, label, n + 1)
    /\ \/ Reachable(n) /\ Remove(n) /\ UNCHANGED <<spared, mishaps>>
       \/ ~Reachable(n) /\ UNCHANGED <<world, spared, mishaps>>
       \/ /\ Mishap /\ UNCHANGED world
          /\ spared' = [spared EXCEPT ![r] = IF n = Head THEN @ \union {label} ELSE @]

Clear(r) == RemoveAll(r, "clear", "drain")

(* Mutant: the launcher relies on the removals of its caller. *)
RestopNothing(r) ==
    /\ pc[r] = "restop"
    /\ Goto(r, "preflight", Head)
    /\ UNCHANGED <<world, mishaps>>

Restop(r) == RemoveAll(r, "restop", "preflight")

(* Whether nvidia-smi may list a compute process: a rank that boots gets   *)
(* its CUDA context at some point on the way, and a container that is out  *)
(* or waits for docker has none.  No answer reads as none.                 *)
ComputeApps(n) ==
    IF Reachable(n) /\ Alive(n)
    THEN IF box[n] = "serving" THEN {TRUE} ELSE BOOLEAN
    ELSE {FALSE}

(* An ssh or nvidia-smi that fails reads as none, too. *)
Drain(r) ==
    LET n == at[r] IN
    /\ pc[r] = "drain"
    /\ \/ TRUE \in ComputeApps(n) /\ Exit(r) /\ UNCHANGED mishaps
       \/ /\ IF n = LastRank THEN Goto(r, "restop", Head) ELSE Goto(r, "drain", n + 1)
          /\ (FALSE \in ComputeApps(n) /\ UNCHANGED mishaps) \/ Mishap
    /\ UNCHANGED world

---------------------------------------------------------------------------
(* The launcher.                                                           *)

(* Mutant: the launch starts one rank too high. *)
PreflightOneTooMany(r) ==
    LET n == at[r] IN
    /\ pc[r] = "preflight"
    /\ IF n = LastRank THEN Goto(r, "launch", LastRank + 1) ELSE Goto(r, "preflight", n + 1)
    /\ UNCHANGED <<world, mishaps>>

(* Here an ssh or nvidia-smi that fails ends the run, and so does a rank   *)
(* that serves even if only its process is missed, by the memory it holds. *)
Preflight(r) ==
    LET n == at[r] IN
    /\ pc[r] = "preflight"
    /\ \/ /\ ~Reachable(n) \/ TRUE \in ComputeApps(n)
          /\ Exit(r) /\ UNCHANGED mishaps
       \/ /\ Reachable(n) /\ FALSE \in ComputeApps(n)
          /\ IF n = LastRank THEN Goto(r, "launch", LastRank) ELSE Goto(r, "preflight", n + 1)
          /\ UNCHANGED mishaps
       \/ Exit(r) /\ Mishap
    /\ UNCHANGED world

(* Workers from the last rank down, then the head.  A node that is away or *)
(* a name that is still taken fails the docker run, and nobody looks.      *)
LaunchRank(r) ==
    LET n == at[r] IN
    /\ pc[r] = "launch"
    /\ pc' = [pc EXCEPT ![r] = IF n = Head THEN "await" ELSE "launch"]
    /\ at' = [at EXCEPT ![r] = IF n = Head THEN Head ELSE n - 1]
    /\ IF Reachable(n) /\ box[n] = "none"
       THEN Create(n) /\ launched' = [launched EXCEPT ![r] = @ \union {n}]
       ELSE UNCHANGED <<world, launched>>
    /\ UNCHANGED <<node, unitDue, lock, spared, mishaps>>

(* Up to 40 minutes, which no young head outlasts, and no boot that can    *)
(* complete: it takes about ten.                                           *)
AwaitApi(r) ==
    /\ pc[r] = "await"
    /\ \/ Listed /\ Goto(r, "gate", Head)
       \/ ~Running(Head) /\ Goto(r, "sweep", 1)
       \/ Running(Head) /\ ~Listed /\ ~young /\ ~WillStart /\ Exit(r)
    /\ UNCHANGED <<world, mishaps>>

(* The head died: the workers are removed and the launcher fails. *)
SweepWorkers(r) ==
    LET n == at[r] IN
    /\ pc[r] = "sweep"
    /\ IF n = LastRank THEN Exit(r) ELSE Goto(r, "sweep", n + 1)
    /\ IF Reachable(n) THEN Remove(n) ELSE UNCHANGED world
    /\ UNCHANGED mishaps

(* The metrics of the head name the draft counters once it serves, whether *)
(* or not the warm-up request came back.  Failing the gate on a world that *)
(* answers takes a wrong configuration.                                    *)
SpecGate(r) ==
    /\ pc[r] = "gate"
    /\ \/ /\ Listed
          /\ gated' = [n \in Ranks |-> gated[n] \/ box[n] # "none"]
          /\ Goto(r, "arm", Head)
          /\ UNCHANGED <<box, armed, young, stale, wedged, mishaps>>
       \/ ~Answers /\ Goto(r, "stop", Head) /\ UNCHANGED <<world, mishaps>>
       \/ Answers /\ Goto(r, "stop", Head) /\ Mishap /\ UNCHANGED world

StopRank(r) ==
    LET n == at[r] IN
    /\ pc[r] = "stop"
    /\ IF n = LastRank THEN Exit(r) ELSE Goto(r, "stop", n + 1)
    /\ IF Reachable(n) /\ Running(n) THEN Stops(n) ELSE UNCHANGED world
    /\ UNCHANGED mishaps

(* docker update --restart=unless-stopped: the launcher's ("arm") and the  *)
(* recovery script's own ("rearm").                                        *)
ArmAll(r, label, next) ==
    LET n == at[r] IN
    /\ pc[r] = label
    /\ IF n = LastRank THEN Goto(r, next, Head) ELSE Goto(r, label, n + 1)
    /\ armed' = [armed EXCEPT ![n] = @ \/ (Reachable(n) /\ box[n] # "none")]
    /\ UNCHANGED <<box, gated, young, stale, wedged, mishaps>>

Arm(r) == ArmAll(r, "arm", "confirm")
Rearm(r) == ArmAll(r, "rearm", "recovered")

(* The recovery script again: the API has to list the model. *)
Confirm(r) ==
    /\ pc[r] = "confirm"
    /\ IF Listed THEN Goto(r, "rearm", Head) ELSE Exit(r)
    /\ UNCHANGED <<world, mishaps>>

Recovered(r) == pc[r] = "recovered" /\ Exit(r) /\ UNCHANGED <<world, mishaps>>

RunStep(r) ==
    \/ ListModels(r) \/ Ping(r) \/ BootGuard(r) \/ CheckNodes(r) \/ Clear(r) \/ Drain(r)
    \/ Restop(r) \/ Preflight(r) \/ LaunchRank(r) \/ AwaitApi(r) \/ SweepWorkers(r)
    \/ SpecGate(r) \/ StopRank(r) \/ Arm(r) \/ Confirm(r) \/ Rearm(r) \/ Recovered(r)

---------------------------------------------------------------------------
(* The nodes, docker and the engine.                                       *)

EngineReady ==
    /\ CanStart
    /\ box' = [n \in Ranks |-> "serving"]
    /\ UNCHANGED <<node, unitDue, armed, gated, young, stale, wedged, lock, pc, at,
                   launched, spared, mishaps>>

HeadAges ==
    /\ young /\ young' = FALSE
    /\ UNCHANGED <<node, unitDue, box, armed, gated, stale, wedged, lock, pc, at,
                   launched, spared, mishaps>>

Wedges ==
    /\ Answers /\ Mishap /\ wedged' = TRUE
    /\ UNCHANGED <<node, unitDue, box, armed, gated, young, stale, lock, pc, at, launched,
                   spared>>

(* A rank that lost its world may notice (NCCL's heartbeat) or hang.       *)
Bereft(n) == IF n = Head THEN stale ELSE box[n] = "serving" /\ box[Head] # "serving"

(* A fault, or the consequence of one. *)
RankDies(n) ==
    /\ Alive(n)
    /\ Mishap \/ (Bereft(n) /\ UNCHANGED mishaps)
    /\ Halts(n, IF armed[n] THEN "restarting" ELSE "exited")
    /\ UNCHANGED <<node, unitDue, lock, pc, at, launched, spared>>

(* The end of docker's wait. *)
DockerRestarts(n) ==
    /\ box[n] = "restarting"
    /\ Restarts(n)
    /\ UNCHANGED <<node, unitDue, lock, pc, at, launched, spared, mishaps>>

(* The scripts run on forge and die with it. *)
NodeDown(n) ==
    /\ Reachable(n) /\ Mishap
    /\ node' = [node EXCEPT ![n] = "down"]
    /\ IF Running(n) THEN Stops(n) ELSE UNCHANGED world
    /\ IF n = Head
       THEN /\ pc' = [r \in Runs |-> "idle"] /\ at' = [r \in Runs |-> Head]
            /\ launched' = [r \in Runs |-> {}] /\ spared' = [r \in Runs |-> {}]
            /\ lock' = Nobody /\ unitDue' = FALSE
       ELSE UNCHANGED <<pc, at, launched, spared, lock, unitDue>>

(* Docker starts the armed containers, systemd on forge starts the unit. *)
NodeBoots(n) ==
    /\ node[n] = "down"
    /\ node' = [node EXCEPT ![n] = "settling"]
    /\ IF armed[n] /\ box[n] # "none" THEN Restarts(n) ELSE UNCHANGED world
    /\ unitDue' = (unitDue \/ n = Head)
    /\ UNCHANGED <<lock, pc, at, launched, spared, mishaps>>

ClockLocks(n) ==
    /\ node[n] = "settling"
    /\ node' = [node EXCEPT ![n] = "up"]
    /\ UNCHANGED <<unitDue, world, lock, pc, at, launched, spared, mishaps>>

(* An operator's interrupt, or systemd's time limit on the unit's run. *)
RunKilled(r) == pc[r] # "idle" /\ Exit(r) /\ Mishap /\ UNCHANGED world

Next ==
    \/ \E r \in Runs : Begin(r) \/ RunStep(r) \/ RunKilled(r)
    \/ UnitRefused
    \/ EngineReady \/ HeadAges \/ Wedges
    \/ \E n \in Ranks :
          \/ RankDies(n) \/ DockerRestarts(n)
          \/ NodeDown(n) \/ NodeBoots(n) \/ ClockLocks(n)

Fairness ==
    /\ \A r \in Runs : WF_vars(Begin(r)) /\ WF_vars(RunStep(r))
    /\ WF_vars(UnitRefused) /\ WF_vars(HeadAges)
    /\ WF_vars(EngineReady)
    /\ \A n \in Ranks :
          WF_vars(DockerRestarts(n)) /\ WF_vars(NodeBoots(n)) /\ WF_vars(ClockLocks(n))

Spec == Init /\ [][Next]_vars /\ Fairness

---------------------------------------------------------------------------
Launching(r) == pc[r] \in {"launch", "await"}

(* "a flock prevents two concurrent runs", "a watchdog that fires then     *)
(* would kill the boot it is trying to fix": while a run starts the ranks  *)
(* and waits for them, none of the containers it created is removed        *)
(* (dsv41-recover.sh 48-55, 83-98).                                        *)
BootUndisturbed ==
    [][\A r \in Runs : \A n \in launched[r] :
          Launching(r) /\ box[n] # "none" => box'[n] # "none"]_vars

(* "disarmed boot -> API up -> spec gate -> arm unless-stopped": docker     *)
(* only ever restarts a container that a world with a passed gate left, so *)
(* a configuration that fails cannot come back by itself (launcher 9,      *)
(* 183-189, 219-238).                                                      *)
ArmedPassedGate == \A n \in Ranks : armed[n] => gated[n]

(* The API a run finds behind its launch, gates, arms and calls RECOVERED  *)
(* is that of the head it started, unless both of its removals failed on   *)
(* an older one.  One is not enough, although the checks for processes in  *)
(* between do not see a head that docker is about to restart: no other run *)
(* or reboot brings a head back under its name (recover 123-143, launcher  *)
(* 63-79, 183-202).                                                        *)
Adopts(r) == pc[r] \in {"gate", "arm", "confirm", "rearm", "recovered"}

RecoveredIsOwnHead ==
    \A r \in Runs :
        Adopts(r) => Head \in launched[r] \/ spared[r] = {"clear", "restop"}

(* "Idempotent: running it twice converges to the same state": once the    *)
(* faults stop, a script that is run again and again ends with a world     *)
(* that answers, and leaves it alone, whatever the faults left behind: a   *)
(* wedged engine whose API still lists the model, half a launch, a dead    *)
(* rank, a lock of a killed run (dsv41-recover.sh 4-9, 68-98).             *)
WorldRecovers == <>[]Answers
=============================================================================
