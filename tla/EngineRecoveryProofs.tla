------------------------ MODULE EngineRecoveryProofs ------------------------
(***************************************************************************)
(* Machine-checked proofs about EngineRecovery, for any number of ranks,   *)
(* operators and mishaps.                                                  *)
(***************************************************************************)
EXTENDS EngineRecovery, TLAPS

ControlTypes ==
    /\ node \in [Ranks -> {"down", "settling", "up"}] /\ unitDue \in BOOLEAN
    /\ lock \in Runs \union {Nobody}
    /\ pc \in [Runs -> Labels] /\ at \in [Runs -> Ranks]
    /\ launched \in [Runs -> SUBSET Ranks]
    /\ spared \in [Runs -> SUBSET {"clear", "restop"}]

WorldTypes ==
    /\ box \in [Ranks -> {"none", "exited", "restarting", "booting", "serving"}]
    /\ armed \in [Ranks -> BOOLEAN] /\ gated \in [Ranks -> BOOLEAN]
    /\ young \in BOOLEAN /\ stale \in BOOLEAN /\ wedged \in BOOLEAN

MishapTypes == mishaps \in 0 .. MaxMishaps

LEMMA TypeParts ==
    /\ TypeOK <=> ControlTypes /\ WorldTypes /\ MishapTypes
    /\ TypeOK' <=> ControlTypes' /\ WorldTypes' /\ MishapTypes'
  BY DEF TypeOK, ControlTypes, WorldTypes, MishapTypes

LEMMA RankFacts ==
    /\ Head \in Ranks /\ LastRank \in Ranks /\ 1 \in Ranks
    /\ \A n \in Ranks : n # LastRank => n + 1 \in Ranks
    /\ \A n \in Ranks : n # Head => n - 1 \in Ranks
  BY RankAssumption DEF Ranks, Head

LEMMA GotoTypes ==
    ASSUME ControlTypes, NEW r \in Runs, NEW label \in Labels, NEW n \in Ranks,
           Goto(r, label, n)
    PROVE  ControlTypes'
  BY DEF ControlTypes, Goto, MoveTo

LEMMA ExitTypes ==
    ASSUME ControlTypes, NEW r \in Runs, Exit(r)
    PROVE  ControlTypes'
  BY RankFacts DEF ControlTypes, Exit, Labels

LEMMA MishapKept ==
    ASSUME MishapTypes, Mishap \/ UNCHANGED mishaps
    PROVE  MishapTypes'
  BY MishapAssumption DEF MishapTypes, Mishap

LEMMA WorldKept ==
    ASSUME WorldTypes, NEW n \in Ranks,
           \/ Remove(n) \/ Create(n) \/ Restarts(n) \/ UNCHANGED world
           \/ \E left \in {"exited", "restarting"} : Halts(n, left)
    PROVE  WorldTypes'
<1>1. CASE Remove(n)
  BY <1>1 DEF WorldTypes, Remove
<1>2. CASE Create(n)
  BY <1>2 DEF WorldTypes, Create
<1>3. CASE Restarts(n)
  BY <1>3 DEF WorldTypes, Restarts
<1>4. ASSUME NEW left \in {"exited", "restarting"}, Halts(n, left)
      PROVE  WorldTypes'
  BY <1>4 DEF WorldTypes, Halts
<1>5. CASE UNCHANGED world
  BY <1>5 DEF WorldTypes, world
<1>6. QED
  BY <1>1, <1>2, <1>3, <1>4, <1>5

LEMMA RemoveAllTypes ==
    ASSUME TypeOK, NEW r \in Runs, NEW label \in {"clear", "restop"}, NEW next \in Labels,
           RemoveAll(r, label, next)
    PROVE  TypeOK'
<1>1. ControlTypes /\ WorldTypes /\ MishapTypes /\ at[r] \in Ranks
  BY TypeParts DEF ControlTypes
<1>2. MoveTo(r, next, Head) \/ (at[r] # LastRank /\ MoveTo(r, label, at[r] + 1))
  BY DEF RemoveAll
<1>3. \/ UNCHANGED spared
      \/ spared' = [spared EXCEPT ![r] = IF at[r] = Head THEN @ \union {label} ELSE @]
  BY DEF RemoveAll
<1>4. spared' \in [Runs -> SUBSET {"clear", "restop"}]
  BY <1>1, <1>3 DEF ControlTypes
<1>5. ControlTypes'
  BY <1>1, <1>2, <1>4, RankFacts DEF ControlTypes, MoveTo, Labels
<1>6. Remove(at[r]) \/ UNCHANGED world
  BY DEF RemoveAll, world
<1>7. WorldTypes'
  BY <1>1, <1>6, WorldKept
<1>8. Mishap \/ UNCHANGED mishaps
  BY DEF RemoveAll
<1>9. MishapTypes'
  BY <1>1, <1>8, MishapKept
<1>10. QED
  BY <1>5, <1>7, <1>9, TypeParts

LEMMA ArmAllTypes ==
    ASSUME TypeOK, NEW r \in Runs, NEW label \in Labels, NEW next \in Labels,
           ArmAll(r, label, next)
    PROVE  TypeOK'
<1>1. ControlTypes /\ WorldTypes /\ MishapTypes /\ at[r] \in Ranks
  BY TypeParts DEF ControlTypes
<1>2. Goto(r, next, Head) \/ (at[r] # LastRank /\ Goto(r, label, at[r] + 1))
  BY DEF ArmAll
<1>3. ControlTypes'
  BY <1>1, <1>2, RankFacts, GotoTypes
<1>4. WorldTypes' /\ MishapTypes'
  BY <1>1 DEF ArmAll, WorldTypes, MishapTypes
<1>5. QED
  BY <1>3, <1>4, TypeParts

(* The steps that only move a run on, or end it. *)
LEMMA ReadingTypes ==
    ASSUME TypeOK, NEW r \in Runs,
           \/ ListModels(r) \/ Ping(r) \/ BootGuard(r) \/ CheckNodes(r) \/ Drain(r)
           \/ Preflight(r) \/ AwaitApi(r) \/ Confirm(r) \/ Recovered(r)
    PROVE  TypeOK'
<1>1. ControlTypes /\ WorldTypes /\ MishapTypes /\ at[r] \in Ranks
  BY TypeParts DEF ControlTypes
<1>2. \/ Exit(r)
      \/ \E label \in Labels, n \in Ranks : Goto(r, label, n)
  <2>1. {"ping", "guard", "reach", "clock", "clear", "drain", "restop", "preflight",
         "launch", "gate", "sweep", "rearm"} \subseteq Labels
    BY DEF Labels
  <2>2. CASE ListModels(r) \/ Ping(r) \/ BootGuard(r) \/ CheckNodes(r)
    BY <2>1, <2>2, RankFacts DEF ListModels, Ping, BootGuard, CheckNodes
  <2>3. CASE Drain(r) \/ Preflight(r)
    BY <2>1, <2>3, <1>1, RankFacts DEF Drain, Preflight
  <2>4. CASE AwaitApi(r) \/ Confirm(r) \/ Recovered(r)
    BY <2>1, <2>4, RankFacts DEF AwaitApi, Confirm, Recovered
  <2>5. QED
    BY <2>2, <2>3, <2>4
<1>3. ControlTypes'
  BY <1>1, <1>2, GotoTypes, ExitTypes
<1>4. UNCHANGED world /\ (Mishap \/ UNCHANGED mishaps)
  BY DEF ListModels, Ping, BootGuard, CheckNodes, Drain, Preflight, AwaitApi, Confirm,
         Recovered, world
<1>5. WorldTypes' /\ MishapTypes'
  BY <1>1, <1>4, WorldKept, MishapKept, RankFacts
<1>6. QED
  BY <1>3, <1>5, TypeParts

LEMMA ActingTypes ==
    ASSUME TypeOK, NEW r \in Runs,
           LaunchRank(r) \/ SweepWorkers(r) \/ SpecGate(r) \/ StopRank(r)
    PROVE  TypeOK'
<1>1. ControlTypes /\ WorldTypes /\ MishapTypes /\ at[r] \in Ranks
  BY TypeParts DEF ControlTypes
<1>2. {"await", "launch", "sweep", "arm", "stop"} \subseteq Labels
  BY DEF Labels
<1>3. CASE LaunchRank(r)
  <2>1. pc' \in [Runs -> Labels] /\ at' \in [Runs -> Ranks]
    BY <1>1, <1>2, <1>3, RankFacts DEF LaunchRank, ControlTypes
  <2>2. launched' \in [Runs -> SUBSET Ranks] /\ UNCHANGED spared
    BY <1>1, <1>3 DEF LaunchRank, ControlTypes
  <2>3. Create(at[r]) \/ UNCHANGED world
    BY <1>3 DEF LaunchRank, world
  <2>4. WorldTypes'
    BY <1>1, <2>3, WorldKept
  <2>5. ControlTypes' /\ MishapTypes'
    BY <1>1, <1>3, <2>1, <2>2 DEF LaunchRank, ControlTypes, MishapTypes
  <2>6. QED
    BY <2>4, <2>5, TypeParts
<1>4. CASE SweepWorkers(r)
  <2>1. Exit(r) \/ (at[r] # LastRank /\ Goto(r, "sweep", at[r] + 1))
    BY <1>4 DEF SweepWorkers
  <2>2. ControlTypes'
    BY <1>1, <1>2, <2>1, RankFacts, GotoTypes, ExitTypes
  <2>3. Remove(at[r]) \/ UNCHANGED world
    BY <1>4 DEF SweepWorkers, world
  <2>4. WorldTypes' /\ MishapTypes'
    BY <1>1, <1>4, <2>3, WorldKept DEF SweepWorkers, MishapTypes
  <2>5. QED
    BY <2>2, <2>4, TypeParts
<1>5. CASE SpecGate(r)
  <2>1. Goto(r, "arm", Head) \/ Goto(r, "stop", Head)
    BY <1>5 DEF SpecGate
  <2>2. ControlTypes'
    BY <1>1, <1>2, <2>1, RankFacts, GotoTypes
  <2>3. Mishap \/ UNCHANGED mishaps
    BY <1>5 DEF SpecGate
  <2>4. MishapTypes'
    BY <1>1, <2>3, MishapKept
  <2>5. WorldTypes'
    BY <1>1, <1>5 DEF SpecGate, WorldTypes, world
  <2>6. QED
    BY <2>2, <2>4, <2>5, TypeParts
<1>6. CASE StopRank(r)
  <2>1. Exit(r) \/ (at[r] # LastRank /\ Goto(r, "stop", at[r] + 1))
    BY <1>6 DEF StopRank
  <2>2. ControlTypes'
    BY <1>1, <1>2, <2>1, RankFacts, GotoTypes, ExitTypes
  <2>3. Halts(at[r], "exited") \/ UNCHANGED world
    BY <1>6 DEF StopRank, Stops, world
  <2>4. WorldTypes' /\ MishapTypes'
    BY <1>1, <1>6, <2>3, WorldKept DEF StopRank, MishapTypes
  <2>5. QED
    BY <2>2, <2>4, TypeParts
<1>7. QED
  BY <1>3, <1>4, <1>5, <1>6

LEMMA RunStepTypes ==
    ASSUME TypeOK, NEW r \in Runs, RunStep(r)
    PROVE  TypeOK'
<1>1. {"clear", "drain", "restop", "preflight", "arm", "confirm", "rearm", "recovered"}
          \subseteq Labels
  BY DEF Labels
<1>2. CASE Clear(r) \/ Restop(r)
  BY <1>1, <1>2, RemoveAllTypes DEF Clear, Restop
<1>3. CASE Arm(r) \/ Rearm(r)
  BY <1>1, <1>3, ArmAllTypes DEF Arm, Rearm
<1>4. QED
  BY <1>2, <1>3, ReadingTypes, ActingTypes DEF RunStep

LEMMA NodeTypes ==
    ASSUME TypeOK, NEW n \in Ranks,
           RankDies(n) \/ DockerRestarts(n) \/ NodeDown(n) \/ NodeBoots(n) \/ ClockLocks(n)
    PROVE  TypeOK'
<1>1. ControlTypes /\ WorldTypes /\ MishapTypes
  BY TypeParts
<1>2. \/ Restarts(n) \/ UNCHANGED world
      \/ \E left \in {"exited", "restarting"} : Halts(n, left)
  BY DEF RankDies, DockerRestarts, NodeDown, NodeBoots, ClockLocks, Stops, world
<1>3. WorldTypes'
  BY <1>1, <1>2, WorldKept
<1>4. Mishap \/ UNCHANGED mishaps
  BY DEF RankDies, DockerRestarts, NodeDown, NodeBoots, ClockLocks
<1>5. MishapTypes'
  BY <1>1, <1>4, MishapKept
<1>6. CASE RankDies(n) \/ DockerRestarts(n)
  BY <1>1, <1>3, <1>5, <1>6, TypeParts DEF RankDies, DockerRestarts, ControlTypes
<1>7. CASE NodeDown(n)
  <2>1. "idle" \in Labels
    BY DEF Labels
  <2>2. ControlTypes'
    BY <1>1, <1>7, <2>1, RankFacts DEF NodeDown, ControlTypes
  <2>3. QED
    BY <1>3, <1>5, <2>2, TypeParts
<1>8. CASE NodeBoots(n) \/ ClockLocks(n)
  <2>1. ControlTypes'
    BY <1>1, <1>8 DEF NodeBoots, ClockLocks, ControlTypes
  <2>2. QED
    BY <1>3, <1>5, <2>1, TypeParts
<1>9. QED
  BY <1>6, <1>7, <1>8

LEMMA NextTypeOK == TypeOK /\ [Next]_vars => TypeOK'
<1> SUFFICES ASSUME TypeOK, [Next]_vars
             PROVE  TypeOK'
  OBVIOUS
<1>1. ASSUME NEW r \in Runs, Begin(r)
      PROVE  TypeOK'
  <2>1. "list" \in Labels
    BY DEF Labels
  <2>2. QED
    BY <1>1, <2>1 DEF Begin, TypeOK, world
<1>2. ASSUME NEW r \in Runs, RunKilled(r)
      PROVE  TypeOK'
  <2>1. ControlTypes'
    BY <1>2, TypeParts, ExitTypes DEF RunKilled
  <2>2. WorldTypes' /\ MishapTypes'
    BY <1>2, TypeParts, MishapKept DEF RunKilled, world, WorldTypes
  <2>3. QED
    BY <2>1, <2>2, TypeParts
<1>3. CASE UnitRefused \/ HeadAges
  BY <1>3 DEF UnitRefused, HeadAges, TypeOK, world
<1>4. CASE EngineReady
  BY <1>4 DEF EngineReady, TypeOK
<1>5. CASE Wedges
  BY <1>5, MishapAssumption DEF Wedges, TypeOK, Mishap
<1>6. CASE UNCHANGED vars
  BY <1>6 DEF vars, world, TypeOK
<1>7. QED
  BY <1>1, <1>2, <1>3, <1>4, <1>5, <1>6, RunStepTypes, NodeTypes DEF Next

LEMMA InitTypeOK == Init => TypeOK
<1> SUFFICES ASSUME Init
             PROVE  TypeOK
  OBVIOUS
<1>1. /\ box \in [Ranks -> {"none", "exited", "restarting", "booting", "serving"}]
      /\ armed \in [Ranks -> BOOLEAN] /\ gated \in [Ranks -> BOOLEAN]
  BY DEF Init
<1>2. 0 \in 0 .. MaxMishaps /\ "idle" \in Labels
  BY MishapAssumption DEF Labels
<1>3. QED
  BY <1>1, <1>2, RankFacts DEF Init, TypeOK

(* Ranks, runs and their processes keep their types. *)
THEOREM TypeCorrect == Spec => []TypeOK
  BY InitTypeOK, NextTypeOK, PTL DEF Spec

---------------------------------------------------------------------------
(* One run at a time, and only while forge is up. *)
OneRun == \A r \in Runs : pc[r] # "idle" => lock = r /\ Reachable(Head)

(* A head that is there although a run has been past it is one that its    *)
(* removal failed on, or one the run launched: nothing else creates a      *)
(* container under that name while the run holds the lock.                 *)
PastClear(label, n) ==
    (label = "clear" /\ n # Head) \/ label = "drain" \/ (label = "restop" /\ n = Head)

PastRestop(label, n) ==
    (label = "restop" /\ n # Head) \/ label \in {"preflight", "launch", "await"}

OldHeadSpared ==
    \A r \in Runs :
        /\ PastClear(pc[r], at[r]) /\ box[Head] # "none" => "clear" \in spared[r]
        /\ (PastRestop(pc[r], at[r]) /\ box[Head] # "none") \/ Adopts(r) =>
              Head \in launched[r] \/ spared[r] = {"clear", "restop"}

(* While a run arms, every container there is passed the gate. *)
AllGated ==
    \A r \in Runs :
        pc[r] \in {"arm", "confirm", "rearm"} => \A n \in Ranks : box[n] # "none" => gated[n]

(* A head that lost a worker is not behind a world that answers. *)
StaleBreaks == stale => \E n \in Ranks : box[n] # "serving"

IInv == TypeOK /\ OneRun /\ OldHeadSpared /\ ArmedPassedGate /\ AllGated /\ StaleBreaks

LEMMA InitIInv == Init => IInv
<1> SUFFICES ASSUME Init
             PROVE  IInv
  OBVIOUS
<1>1. OneRun /\ OldHeadSpared /\ AllGated /\ StaleBreaks
  BY DEF Init, OneRun, OldHeadSpared, PastClear, PastRestop, Adopts, AllGated, StaleBreaks
<1>2. ArmedPassedGate
  BY DEF Init, ArmedPassedGate
<1>3. QED
  BY <1>1, <1>2, InitTypeOK DEF IInv

(* A step of a run is a step of that run alone. *)
LEMMA RunStepShape ==
    ASSUME TypeOK, NEW q \in Runs, RunStep(q)
    PROVE  /\ pc[q] # "idle"
           /\ node' = node
           /\ \A r \in Runs \ {q} :
                 /\ pc'[r] = pc[r] /\ at'[r] = at[r]
                 /\ launched'[r] = launched[r] /\ spared'[r] = spared[r]
           /\ pc'[q] = "idle" \/ lock' = lock
<1> USE DEF TypeOK, Goto, MoveTo, Exit
<1>1. CASE ListModels(q) \/ Ping(q) \/ BootGuard(q) \/ CheckNodes(q)
  BY <1>1 DEF ListModels, Ping, BootGuard, CheckNodes
<1>2. CASE Clear(q) \/ Restop(q)
  BY <1>2 DEF Clear, Restop, RemoveAll
<1>3. CASE Drain(q) \/ Preflight(q)
  BY <1>3 DEF Drain, Preflight
<1>4. CASE LaunchRank(q)
  BY <1>4 DEF LaunchRank
<1>5. CASE AwaitApi(q) \/ SweepWorkers(q)
  BY <1>5 DEF AwaitApi, SweepWorkers
<1>6. CASE SpecGate(q) \/ StopRank(q)
  BY <1>6 DEF SpecGate, StopRank
<1>7. CASE Arm(q) \/ Rearm(q)
  BY <1>7 DEF Arm, Rearm, ArmAll
<1>8. CASE Confirm(q) \/ Recovered(q)
  BY <1>8 DEF Confirm, Recovered
<1>9. QED
  BY <1>1, <1>2, <1>3, <1>4, <1>5, <1>6, <1>7, <1>8 DEF RunStep

LEMMA OthersIdle ==
    ASSUME IInv, NEW q \in Runs, RunStep(q)
    PROVE  \A r \in Runs \ {q} : pc[r] = "idle" /\ pc'[r] = "idle"
  BY RunStepShape DEF IInv, OneRun

LEMMA NextOneRun == IInv /\ [Next]_vars => OneRun'
<1> SUFFICES ASSUME IInv, [Next]_vars
             PROVE  OneRun'
  OBVIOUS
<1> USE DEF IInv, TypeOK, OneRun, Reachable
<1>1. ASSUME NEW q \in Runs, Begin(q)
      PROVE  OneRun'
  BY <1>1, RunAssumption DEF Begin, Runs
<1>2. ASSUME NEW q \in Runs, RunStep(q)
      PROVE  OneRun'
  BY <1>2, RunStepShape, OthersIdle
<1>3. ASSUME NEW q \in Runs, RunKilled(q)
      PROVE  OneRun'
  BY <1>3 DEF RunKilled, Exit
<1>4. CASE UnitRefused \/ EngineReady \/ HeadAges \/ Wedges
  BY <1>4 DEF UnitRefused, EngineReady, HeadAges, Wedges
<1>5. ASSUME NEW n \in Ranks, RankDies(n) \/ DockerRestarts(n) \/ NodeDown(n) \/ NodeBoots(n) \/ ClockLocks(n)
      PROVE  OneRun'
  BY <1>5, RankFacts DEF RankDies, DockerRestarts, NodeDown, NodeBoots, ClockLocks
<1>6. CASE UNCHANGED vars
  BY <1>6 DEF vars
<1>7. QED
  BY <1>1, <1>2, <1>3, <1>4, <1>5, <1>6 DEF Next

(* What a run that goes on may rely on when nobody but the engine, docker  *)
(* or the nodes move.                                                      *)
LEMMA WorldMoves ==
    ASSUME IInv,
           \/ UnitRefused \/ EngineReady \/ HeadAges \/ Wedges
           \/ \E n \in Ranks : RankDies(n) \/ DockerRestarts(n) \/ NodeDown(n) \/ NodeBoots(n) \/ ClockLocks(n),
           NEW r \in Runs, pc'[r] # "idle"
    PROVE  /\ pc'[r] = pc[r] /\ at'[r] = at[r]
           /\ launched'[r] = launched[r] /\ spared'[r] = spared[r]
           /\ \A m \in Ranks : (box'[m] = "none" <=> box[m] = "none")
           /\ armed' = armed /\ gated' = gated
<1> USE RankFacts DEF IInv, TypeOK
<1>1. CASE UnitRefused \/ HeadAges \/ Wedges
  BY <1>1 DEF UnitRefused, HeadAges, Wedges, world
<1>2. CASE EngineReady
  BY <1>2 DEF EngineReady, CanStart
<1>3. CASE \E n \in Ranks : RankDies(n) \/ DockerRestarts(n)
  BY <1>3 DEF RankDies, DockerRestarts, Restarts, Halts, Alive
<1>4. CASE \E n \in Ranks : NodeDown(n)
  BY <1>4 DEF NodeDown, Stops, Halts, Running, world
<1>5. CASE \E n \in Ranks : NodeBoots(n)
  BY <1>5 DEF NodeBoots, Restarts, world, OneRun, Reachable
<1>6. CASE \E n \in Ranks : ClockLocks(n)
  BY <1>6 DEF ClockLocks, world
<1>7. QED
  BY <1>1, <1>2, <1>3, <1>4, <1>5, <1>6

LEMMA OldHeadStep ==
    ASSUME IInv, NEW r \in Runs, RunStep(r)
    PROVE  /\ PastClear(pc'[r], at'[r]) /\ box'[Head] # "none" => "clear" \in spared'[r]
           /\ (PastRestop(pc'[r], at'[r]) /\ box'[Head] # "none") \/ Adopts(r)' =>
                 Head \in launched'[r] \/ spared'[r] = {"clear", "restop"}
<1> USE RankFacts DEF IInv, TypeOK, OldHeadSpared, PastClear, PastRestop, Adopts, Goto, Exit, MoveTo
<1>1. CASE ListModels(r) \/ Ping(r) \/ BootGuard(r) \/ CheckNodes(r)
  BY <1>1 DEF ListModels, Ping, BootGuard, CheckNodes
<1>2. CASE Clear(r)
  <2>1. CASE at[r] = Head
    BY <1>2, <2>1 DEF Clear, RemoveAll, Remove, OneRun
  <2>2. CASE at[r] # Head
    BY <1>2, <2>2 DEF Clear, RemoveAll, Remove, world
  <2>3. QED
    BY <2>1, <2>2
<1>3. CASE Restop(r)
  <2>1. pc[r] = "restop" /\ pc'[r] \in {"restop", "preflight"} /\ Reachable(Head)
    BY <1>3 DEF Restop, RemoveAll, OneRun
  <2>2. (at'[r] = at[r] + 1 /\ at[r] # LastRank) \/ pc'[r] = "preflight"
    BY <1>3 DEF Restop, RemoveAll
  <2>3. at'[r] = Head => pc'[r] = "preflight"
    BY <2>2, RankAssumption DEF Ranks, Head
  <2>4. box'[Head] # "none" => Head \in launched'[r] \/ spared'[r] = {"clear", "restop"}
    <3>1. CASE at[r] = Head
      <4>1. \/ Remove(Head)
            \/ UNCHANGED world /\ spared' = [spared EXCEPT ![r] = @ \union {"restop"}]
        BY <1>3, <2>1, <3>1 DEF Restop, RemoveAll
      <4>2. CASE Remove(Head)
        BY <4>2 DEF Remove
      <4>3. CASE UNCHANGED world /\ spared' = [spared EXCEPT ![r] = @ \union {"restop"}]
        <5>1. box[Head] # "none" => "clear" \in spared[r]
          BY <2>1, <3>1
        <5>2. UNCHANGED box /\ spared'[r] = spared[r] \union {"restop"}
          BY <4>3 DEF world
        <5>3. QED
          BY <5>1, <5>2
      <4>4. QED
        BY <4>1, <4>2, <4>3
    <3>2. CASE at[r] # Head
      <4>1. box[Head] # "none" => Head \in launched[r] \/ spared[r] = {"clear", "restop"}
        BY <2>1, <3>2
      <4>2. UNCHANGED launched /\ spared'[r] = spared[r]
        BY <1>3, <3>2 DEF Restop, RemoveAll
      <4>3. box'[Head] = box[Head]
        BY <1>3, <3>2 DEF Restop, RemoveAll, Remove, world
      <4>4. QED
        BY <4>1, <4>2, <4>3
    <3>3. QED
      BY <3>1, <3>2
  <2>5. QED
    BY <2>1, <2>3, <2>4
<1>4. CASE Drain(r)
  BY <1>4 DEF Drain, world
<1>5. CASE Preflight(r)
  BY <1>5 DEF Preflight, world
<1>6. CASE LaunchRank(r)
  <2>1. CASE Reachable(at[r]) /\ box[at[r]] = "none"
    BY <1>6, <2>1 DEF LaunchRank, Create
  <2>2. CASE ~(Reachable(at[r]) /\ box[at[r]] = "none")
    BY <1>6, <2>2 DEF LaunchRank, world
  <2>3. QED
    BY <2>1, <2>2
<1>7. CASE AwaitApi(r)
  BY <1>7 DEF AwaitApi, Listed, world
<1>8. CASE SweepWorkers(r) \/ StopRank(r)
  BY <1>8 DEF SweepWorkers, StopRank
<1>9. CASE SpecGate(r)
  BY <1>9 DEF SpecGate
<1>10. CASE Arm(r) \/ Rearm(r)
  BY <1>10 DEF Arm, Rearm, ArmAll
<1>11. CASE Confirm(r) \/ Recovered(r)
  BY <1>11 DEF Confirm, Recovered
<1>12. QED
  BY <1>1, <1>2, <1>3, <1>4, <1>5, <1>6, <1>7, <1>8, <1>9, <1>10, <1>11 DEF RunStep

(* The runs that a step of another run, or of the world, does not touch. *)
LEMMA BeginKeeps ==
    ASSUME IInv, NEW q \in Runs, Begin(q) \/ RunKilled(q)
    PROVE  /\ UNCHANGED <<world, node>>
           /\ \A r \in Runs : pc'[r] \in {"idle", "list"} \/
                 /\ pc'[r] = pc[r] /\ at'[r] = at[r]
                 /\ launched'[r] = launched[r] /\ spared'[r] = spared[r]
  BY DEF IInv, TypeOK, Begin, RunKilled, Exit, world

LEMMA NextOldHead == IInv /\ [Next]_vars => OldHeadSpared'
<1> SUFFICES ASSUME IInv, [Next]_vars
             PROVE  OldHeadSpared'
  OBVIOUS
<1>1. ASSUME NEW q \in Runs, RunStep(q)
      PROVE  OldHeadSpared'
  <2>1. \A r \in Runs \ {q} : pc'[r] = "idle"
    BY <1>1, OthersIdle
  <2>2. QED
    BY <1>1, <2>1, OldHeadStep DEF OldHeadSpared, PastClear, PastRestop, Adopts
<1>2. ASSUME NEW q \in Runs, Begin(q) \/ RunKilled(q)
      PROVE  OldHeadSpared'
  BY <1>2, BeginKeeps DEF OldHeadSpared, PastClear, PastRestop, Adopts, IInv, world
<1>3. CASE \/ UnitRefused \/ EngineReady \/ HeadAges \/ Wedges
           \/ \E n \in Ranks : RankDies(n) \/ DockerRestarts(n) \/ NodeDown(n) \/ NodeBoots(n) \/ ClockLocks(n)
  BY <1>3, WorldMoves, RankFacts DEF OldHeadSpared, PastClear, PastRestop, Adopts, IInv
<1>4. CASE UNCHANGED vars
  BY <1>4 DEF vars, world, OldHeadSpared, PastClear, PastRestop, Adopts, IInv
<1>5. QED
  BY <1>1, <1>2, <1>3, <1>4 DEF Next

(* A rank that goes leaves a head behind that is not whole; a head that    *)
(* starts anew has lost nobody.                                            *)
LEMMA NextStale == IInv /\ [Next]_vars => StaleBreaks'
<1> SUFFICES ASSUME IInv, [Next]_vars, stale'
             PROVE  \E n \in Ranks : box'[n] # "serving"
  BY DEF StaleBreaks
<1> USE DEF IInv, TypeOK, StaleBreaks
<1>1. CASE UNCHANGED <<box, stale>>
  BY <1>1
<1>2. ASSUME NEW n \in Ranks, NEW left \in {"exited", "restarting"},
             Remove(n) \/ Create(n) \/ Restarts(n) \/ Halts(n, left)
      PROVE  box'[n] # "serving"
  BY <1>2 DEF Remove, Create, Restarts, Halts
<1>3. CASE EngineReady
  BY <1>3 DEF EngineReady, CanStart
<1>4. ASSUME NEW q \in Runs, RunStep(q)
      PROVE  \E n \in Ranks : box'[n] # "serving"
  <2>1. \/ UNCHANGED <<box, stale>>
        \/ \E n \in Ranks : Remove(n) \/ Create(n) \/ Halts(n, "exited")
    <3>1. CASE \/ ListModels(q) \/ Ping(q) \/ BootGuard(q) \/ CheckNodes(q) \/ Drain(q)
               \/ Preflight(q) \/ AwaitApi(q) \/ Confirm(q) \/ Recovered(q)
      BY <3>1 DEF ListModels, Ping, BootGuard, CheckNodes, Drain, Preflight, AwaitApi, Confirm,
                  Recovered, world
    <3>2. CASE Clear(q) \/ Restop(q)
      BY <3>2 DEF Clear, Restop, RemoveAll, world
    <3>3. CASE LaunchRank(q) \/ SweepWorkers(q) \/ StopRank(q)
      BY <3>3 DEF LaunchRank, SweepWorkers, StopRank, Stops, world
    <3>4. CASE SpecGate(q) \/ Arm(q) \/ Rearm(q)
      BY <3>4 DEF SpecGate, Arm, Rearm, ArmAll, world
    <3>5. QED
      BY <1>4, <3>1, <3>2, <3>3, <3>4 DEF RunStep
  <2>2. QED
    BY <1>1, <1>2, <2>1
<1>5. ASSUME NEW q \in Runs, Begin(q) \/ RunKilled(q)
      PROVE  UNCHANGED <<box, stale>>
  BY <1>5 DEF Begin, RunKilled, world
<1>6. CASE UnitRefused \/ HeadAges \/ Wedges \/ UNCHANGED vars
  BY <1>1, <1>6 DEF UnitRefused, HeadAges, Wedges, vars, world
<1>7. ASSUME NEW n \in Ranks, RankDies(n) \/ DockerRestarts(n) \/ NodeDown(n) \/ NodeBoots(n) \/ ClockLocks(n)
      PROVE  \E m \in Ranks : box'[m] # "serving"
  <2>1. \/ UNCHANGED <<box, stale>>
        \/ Restarts(n) \/ \E left \in {"exited", "restarting"} : Halts(n, left)
    BY <1>7 DEF RankDies, DockerRestarts, NodeDown, NodeBoots, ClockLocks, Stops, world
  <2>2. QED
    BY <1>1, <1>2, <2>1
<1>8. QED
  BY <1>1, <1>2, <1>3, <1>4, <1>5, <1>6, <1>7 DEF Next

LEMMA CheckShape ==
    ASSUME TypeOK, NEW r \in Runs, Drain(r) \/ Preflight(r)
    PROVE  pc'[r] \in {"idle", "drain", "restop", "preflight", "launch"}
<1>1. \/ Exit(r)
      \/ \E label \in {"drain", "restop", "preflight", "launch"}, n \in {Head, LastRank, at[r] + 1} :
            MoveTo(r, label, n)
  BY DEF Drain, Preflight, Goto
<1>2. QED
  BY <1>1 DEF TypeOK, Exit, MoveTo

LEMMA GateStep ==
    ASSUME IInv, NEW r \in Runs, RunStep(r)
    PROVE  /\ ArmedPassedGate'
           /\ pc'[r] \in {"arm", "confirm", "rearm"} =>
                 \A n \in Ranks : box'[n] # "none" => gated'[n]
<1> USE RankFacts DEF IInv, TypeOK, ArmedPassedGate, AllGated, Goto, MoveTo, Exit
<1>1. CASE \/ ListModels(r) \/ Ping(r) \/ BootGuard(r) \/ CheckNodes(r) \/ Drain(r)
           \/ Preflight(r) \/ AwaitApi(r)
  <2>1. UNCHANGED world
    BY <1>1 DEF ListModels, Ping, BootGuard, CheckNodes, Drain, Preflight, AwaitApi
  <2>2. CASE ListModels(r) \/ Ping(r) \/ BootGuard(r) \/ CheckNodes(r) \/ AwaitApi(r)
    BY <2>1, <2>2 DEF ListModels, Ping, BootGuard, CheckNodes, AwaitApi, world
  <2>3. CASE Drain(r) \/ Preflight(r)
    <3>1. pc'[r] \in {"idle", "drain", "restop", "preflight", "launch"}
      BY <2>3, CheckShape
    <3>2. QED
      BY <2>1, <3>1 DEF world
  <2>4. QED
    BY <1>1, <2>2, <2>3
<1>2. CASE Clear(r) \/ Restop(r)
  <2>1. pc'[r] \notin {"arm", "confirm", "rearm"}
    BY <1>2 DEF Clear, Restop, RemoveAll
  <2>2. Remove(at[r]) \/ UNCHANGED world
    BY <1>2 DEF Clear, Restop, RemoveAll, world
  <2>3. QED
    BY <2>1, <2>2 DEF Remove, world
<1>3. CASE LaunchRank(r)
  <2>1. pc'[r] \notin {"arm", "confirm", "rearm"}
    BY <1>3 DEF LaunchRank
  <2>2. Create(at[r]) \/ UNCHANGED world
    BY <1>3 DEF LaunchRank, world
  <2>3. QED
    BY <2>1, <2>2 DEF Create, world
<1>4. CASE SweepWorkers(r) \/ StopRank(r)
  <2>1. pc'[r] \notin {"arm", "confirm", "rearm"}
    BY <1>4 DEF SweepWorkers, StopRank
  <2>2. Remove(at[r]) \/ Stops(at[r]) \/ UNCHANGED world
    BY <1>4 DEF SweepWorkers, StopRank, world
  <2>3. QED
    BY <2>1, <2>2 DEF Remove, Stops, Halts, world
<1>5. CASE SpecGate(r)
  <2>1. CASE /\ gated' = [n \in Ranks |-> gated[n] \/ box[n] # "none"]
             /\ UNCHANGED <<box, armed>>
    BY <2>1
  <2>2. CASE UNCHANGED world /\ Goto(r, "stop", Head)
    <3>1. pc'[r] \notin {"arm", "confirm", "rearm"}
      BY <2>2
    <3>2. QED
      BY <2>2, <3>1 DEF world
  <2>3. QED
    BY <1>5, <2>1, <2>2 DEF SpecGate
<1>6. CASE Arm(r) \/ Rearm(r)
  BY <1>6 DEF Arm, Rearm, ArmAll
<1>7. CASE Confirm(r) \/ Recovered(r)
  BY <1>7 DEF Confirm, Recovered, world
<1>8. QED
  BY <1>1, <1>2, <1>3, <1>4, <1>5, <1>6, <1>7 DEF RunStep

LEMMA NextGated == IInv /\ [Next]_vars => ArmedPassedGate' /\ AllGated'
<1> SUFFICES ASSUME IInv, [Next]_vars
             PROVE  ArmedPassedGate' /\ AllGated'
  OBVIOUS
<1>1. ASSUME NEW q \in Runs, RunStep(q)
      PROVE  ArmedPassedGate' /\ AllGated'
  BY <1>1, OthersIdle, GateStep DEF AllGated
<1>2. ASSUME NEW q \in Runs, Begin(q) \/ RunKilled(q)
      PROVE  ArmedPassedGate' /\ AllGated'
  BY <1>2, BeginKeeps DEF ArmedPassedGate, AllGated, IInv, world
<1>3. CASE \/ UnitRefused \/ EngineReady \/ HeadAges \/ Wedges
           \/ \E n \in Ranks : RankDies(n) \/ DockerRestarts(n) \/ NodeDown(n) \/ NodeBoots(n) \/ ClockLocks(n)
  <2>1. armed' = armed /\ gated' = gated
    BY <1>3 DEF UnitRefused, EngineReady, HeadAges, Wedges, RankDies, DockerRestarts, NodeDown, NodeBoots,
                ClockLocks, Restarts, Stops, Halts, world
  <2>2. AllGated'
    BY <1>3, <2>1, WorldMoves DEF AllGated, IInv
  <2>3. QED
    BY <2>1, <2>2 DEF ArmedPassedGate, IInv
<1>4. CASE UNCHANGED vars
  BY <1>4 DEF vars, world, ArmedPassedGate, AllGated, IInv
<1>5. QED
  BY <1>1, <1>2, <1>3, <1>4 DEF Next

LEMMA Inductive == Spec => []IInv
<1>1. IInv /\ [Next]_vars => IInv'
  BY NextTypeOK, NextOneRun, NextOldHead, NextGated, NextStale DEF IInv
<1>2. QED
  BY <1>1, InitIInv, PTL DEF Spec

(* Docker restarts by itself only what a world with a passed gate left.    *)
THEOREM OnlyGatedIsArmed == Spec => []ArmedPassedGate
<1>1. IInv => ArmedPassedGate
  BY DEF IInv
<1>2. QED
  BY <1>1, Inductive, PTL

(* RECOVERED is said of the head that the run itself started, unless both  *)
(* of the run's removals failed on an older one.                           *)
THEOREM RecoversItsOwn == Spec => []RecoveredIsOwnHead
<1>1. IInv => RecoveredIsOwnHead
  BY DEF IInv, OldHeadSpared, RecoveredIsOwnHead
<1>2. QED
  BY <1>1, Inductive, PTL

LEMMA LaunchUndisturbed ==
    ASSUME IInv, [Next]_vars, NEW r \in Runs, NEW n \in launched[r],
           Launching(r), box[n] # "none"
    PROVE  box'[n] # "none"
<1> n \in Ranks
  BY DEF IInv, TypeOK
<1>1. ASSUME NEW q \in Runs, RunStep(q)
      PROVE  box'[n] # "none"
  <2>1. q = r
    BY <1>1, OthersIdle DEF Launching
  <2>2. LaunchRank(r) \/ AwaitApi(r)
    BY <1>1, <2>1 DEF RunStep, Launching, ListModels, Ping, BootGuard, CheckNodes, Clear, Drain,
       Restop, RemoveAll, Preflight, SweepWorkers, SpecGate, StopRank, Arm, Rearm, ArmAll,
       Confirm, Recovered
  <2>3. CASE LaunchRank(r)
    BY <2>3 DEF LaunchRank, Create, world, IInv, TypeOK
  <2>4. CASE AwaitApi(r)
    BY <2>4 DEF AwaitApi, world
  <2>5. QED
    BY <2>2, <2>3, <2>4
<1>2. ASSUME NEW q \in Runs, Begin(q) \/ RunKilled(q)
      PROVE  box'[n] # "none"
  BY <1>2, BeginKeeps DEF world
<1>3. CASE UnitRefused \/ EngineReady \/ HeadAges \/ Wedges
  BY <1>3 DEF UnitRefused, EngineReady, HeadAges, Wedges, world
<1>4. ASSUME NEW m \in Ranks, RankDies(m) \/ DockerRestarts(m) \/ NodeDown(m) \/ NodeBoots(m) \/ ClockLocks(m)
      PROVE  box'[n] # "none"
  <2>1. \/ Restarts(m) \/ UNCHANGED world
        \/ \E left \in {"exited", "restarting"} : Halts(m, left)
    BY <1>4 DEF RankDies, DockerRestarts, NodeDown, NodeBoots, ClockLocks, Stops, world
  <2>2. QED
    BY <2>1 DEF Restarts, Halts, world, IInv, TypeOK
<1>5. CASE UNCHANGED vars
  BY <1>5 DEF vars, world
<1>6. QED
  BY <1>1, <1>2, <1>3, <1>4, <1>5 DEF Next

(* No other run removes what a run is launching. *)
THEOREM LaunchesAreLeftAlone == Spec => BootUndisturbed
<1>1. IInv /\ [Next]_vars =>
          [\A r \in Runs : \A n \in launched[r] :
              Launching(r) /\ box[n] # "none" => box'[n] # "none"]_vars
  BY LaunchUndisturbed
<1>2. QED
  BY <1>1, Inductive, PTL DEF Spec, BootUndisturbed
(***************************************************************************)
(* Every run ends.  What a run has before it: the steps of its script, and *)
(* in a loop over the nodes the nodes that are left.                       *)
(***************************************************************************)
Phase == [idle |-> 0, recovered |-> 1, stop |-> 1, sweep |-> 1, rearm |-> 2, confirm |-> 3,
          arm |-> 4, gate |-> 5, await |-> 6, launch |-> 7, preflight |-> 8, restop |-> 9,
          drain |-> 10, clear |-> 11, clock |-> 12, reach |-> 13, guard |-> 14, ping |-> 15,
          list |-> 16]

Upward == {"clear", "drain", "restop", "preflight", "sweep", "stop", "arm", "rearm"}

NodesLeft(label, n) ==
    IF label \in Upward THEN LastRank - n ELSE IF label = "launch" THEN n ELSE 0

Ticks(label, n) == Phase[label] * (LastRank + 1) + NodesLeft(label, n)

LEMMA PhaseType == \A label \in Labels : Phase[label] \in 0..16
  BY DEF Phase, Labels

LEMMA NodesLeftType ==
    ASSUME NEW label, NEW n \in Ranks
    PROVE  NodesLeft(label, n) \in 0..LastRank
  BY RankAssumption DEF NodesLeft, Ranks

LEMMA TicksType ==
    ASSUME NEW label \in Labels, NEW n \in Ranks
    PROVE  /\ Ticks(label, n) \in Nat
           /\ Ticks(label, n) <= 17 * (LastRank + 1)
<1>1. Phase[label] \in 0..16 /\ NodesLeft(label, n) \in 0..LastRank /\ LastRank \in Nat
  BY PhaseType, NodesLeftType, RankAssumption
<1>2. \A p \in 0..16, m \in 0..LastRank :
          p * (LastRank + 1) + m \in Nat /\ p * (LastRank + 1) + m <= 17 * (LastRank + 1)
  BY RankAssumption
<1>3. QED
  BY <1>1, <1>2 DEF Ticks

(* A later phase has fewer steps before it, whatever node its loop is at. *)
LEMMA LaterPhase ==
    ASSUME NEW before \in Labels, NEW after \in Labels, NEW n \in Ranks, NEW m \in Ranks,
           Phase[after] < Phase[before]
    PROVE  Ticks(after, m) < Ticks(before, n)
<1>1. /\ Phase[before] \in 0..16 /\ Phase[after] \in 0..16
      /\ NodesLeft(before, n) \in 0..LastRank /\ NodesLeft(after, m) \in 0..LastRank
      /\ LastRank \in Nat
  BY PhaseType, NodesLeftType, RankAssumption
<1>2. \A p, q \in 0..16, i, j \in 0..LastRank :
          q < p => q * (LastRank + 1) + j < p * (LastRank + 1) + i
  BY RankAssumption
<1>3. QED
  BY <1>1, <1>2 DEF Ticks

(* So has the next node of a loop. *)
LEMMA NextNode ==
    ASSUME NEW label \in Upward, NEW n \in Ranks, n # LastRank
    PROVE  Ticks(label, n + 1) < Ticks(label, n)
<1>1. Phase[label] \in 0..16 /\ n \in 0..LastRank /\ LastRank \in Nat
  BY PhaseType, RankAssumption DEF Upward, Labels, Ranks
<1>2. \A p \in 0..16 : p * (LastRank + 1) \in Nat
  BY <1>1
<1>3. QED
  BY <1>1, <1>2 DEF Ticks, NodesLeft

LEMMA NextLaunch ==
    ASSUME NEW n \in Ranks, n # Head
    PROVE  Ticks("launch", n - 1) < Ticks("launch", n)
<1>1. Phase["launch"] = 7 /\ n \in 0..LastRank /\ LastRank \in Nat
  BY RankAssumption DEF Phase, Ranks
<1>2. QED
  BY <1>1 DEF Ticks, NodesLeft, Upward

LEMMA EachStepCounts ==
    ASSUME TypeOK, NEW r \in Runs, RunStep(r)
    PROVE  Ticks(pc'[r], at'[r]) < Ticks(pc[r], at[r])
<1> DEFINE Later == /\ pc'[r] \in Labels /\ at'[r] \in Ranks
                    /\ Phase[pc'[r]] < Phase[pc[r]]
           NextOne == pc[r] \in Upward /\ at[r] # LastRank /\ pc'[r] = pc[r] /\ at'[r] = at[r] + 1
<1>1. pc[r] \in Labels /\ at[r] \in Ranks
  BY DEF TypeOK
<1>2. ASSUME Later
      PROVE  Ticks(pc'[r], at'[r]) < Ticks(pc[r], at[r])
  BY <1>1, <1>2, LaterPhase
<1>3. ASSUME NextOne
      PROVE  Ticks(pc'[r], at'[r]) < Ticks(pc[r], at[r])
  BY <1>1, <1>3, NextNode
<1> HIDE DEF Later, NextOne
<1>4. ASSUME NEW label \in Labels, NEW n \in Ranks, MoveTo(r, label, n), Phase[label] < Phase[pc[r]]
      PROVE  Later
  BY <1>4 DEF Later, TypeOK, MoveTo
<1>5. ASSUME Exit(r), pc[r] # "idle"
      PROVE  Later
  <2>1. pc'[r] = "idle" /\ at'[r] = Head /\ Phase[pc'[r]] = 0
    BY <1>5 DEF TypeOK, Exit, Phase
  <2>2. Phase[pc[r]] > 0
    BY <1>1, <1>5 DEF Phase, Labels
  <2>3. QED
    BY <2>1, <2>2, RankFacts DEF Later, Labels
<1>6. ASSUME NEW label \in Upward, pc[r] = label, at[r] # LastRank, MoveTo(r, label, at[r] + 1)
      PROVE  NextOne
  BY <1>6 DEF NextOne, TypeOK, MoveTo
<1>7. CASE ListModels(r) \/ Ping(r) \/ BootGuard(r)
  BY <1>2, <1>4, <1>5, <1>7, RankFacts DEF Goto, ListModels, Ping, BootGuard, Phase, Labels
<1>8. CASE CheckNodes(r)
  BY <1>2, <1>4, <1>5, <1>8, RankFacts DEF Goto, CheckNodes, Phase, Labels
<1>9. CASE Clear(r)
  BY <1>2, <1>3, <1>4, <1>6, <1>9, RankFacts DEF Clear, RemoveAll, Phase, Labels, Upward
<1>10. CASE Restop(r)
  BY <1>2, <1>3, <1>4, <1>6, <1>10, RankFacts DEF Restop, RemoveAll, Phase, Labels, Upward
<1>11. CASE Drain(r)
  <2>1. /\ pc[r] = "drain"
        /\ \/ Exit(r)
           \/ MoveTo(r, "restop", Head)
           \/ at[r] # LastRank /\ MoveTo(r, "drain", at[r] + 1)
    BY <1>11 DEF Goto, Drain
  <2>2. QED
    BY <1>2, <1>3, <1>4, <1>5, <1>6, <2>1, RankFacts DEF Phase, Labels, Upward
<1>12. CASE Preflight(r)
  <2>1. /\ pc[r] = "preflight"
        /\ \/ Exit(r)
           \/ MoveTo(r, "launch", LastRank)
           \/ at[r] # LastRank /\ MoveTo(r, "preflight", at[r] + 1)
    BY <1>12 DEF Goto, Preflight
  <2>2. QED
    BY <1>2, <1>3, <1>4, <1>5, <1>6, <2>1, RankFacts DEF Phase, Labels, Upward
<1>13. CASE LaunchRank(r)
  <2>1. CASE at[r] = Head
    <3>1. pc'[r] = "await" /\ at'[r] = Head /\ pc[r] = "launch"
      BY <1>13, <2>1 DEF LaunchRank, TypeOK
    <3>2. Later
      BY <3>1, RankFacts DEF Later, Phase, Labels
    <3>3. QED
      BY <1>2, <3>2
  <2>2. CASE at[r] # Head
    <3>1. pc'[r] = "launch" /\ at'[r] = at[r] - 1 /\ pc[r] = "launch"
      BY <1>13, <2>2 DEF LaunchRank, TypeOK
    <3>2. QED
      BY <1>1, <2>2, <3>1, NextLaunch
  <2>3. QED
    BY <2>1, <2>2
<1>14. CASE AwaitApi(r)
  BY <1>2, <1>4, <1>5, <1>14, RankFacts DEF Goto, AwaitApi, Phase, Labels
<1>15. CASE SweepWorkers(r)
  BY <1>2, <1>3, <1>5, <1>6, <1>15, RankFacts DEF Goto, SweepWorkers, Phase, Labels, Upward
<1>16. CASE SpecGate(r)
  BY <1>2, <1>4, <1>16, RankFacts DEF Goto, SpecGate, Phase, Labels
<1>17. CASE StopRank(r)
  BY <1>2, <1>3, <1>5, <1>6, <1>17, RankFacts DEF Goto, StopRank, Phase, Labels, Upward
<1>18. CASE Arm(r)
  BY <1>2, <1>3, <1>4, <1>6, <1>18, RankFacts DEF Goto, Arm, ArmAll, Phase, Labels, Upward
<1>19. CASE Rearm(r)
  BY <1>2, <1>3, <1>4, <1>6, <1>19, RankFacts DEF Goto, Rearm, ArmAll, Phase, Labels, Upward
<1>20. CASE Confirm(r) \/ Recovered(r)
  BY <1>2, <1>4, <1>5, <1>20, RankFacts DEF Goto, Confirm, Recovered, Phase, Labels
<1>21. QED
  BY <1>7, <1>8, <1>9, <1>10, <1>11, <1>12, <1>13, <1>14, <1>15, <1>16, <1>17, <1>18, <1>19, <1>20
  DEF RunStep

(* Every step of a run's script takes it nearer to its end, and nothing    *)
(* else, no other run, no fault and no reboot, takes it further away: a    *)
(* run ends after at most 17 * (LastRank + 1) steps of its own, whatever   *)
(* happens around it (dsv41-recover.sh and the launcher have no way back). *)
CountsDown ==
    [][\A r \in Runs : pc[r] # "idle" =>
          /\ Ticks(pc'[r], at'[r]) <= Ticks(pc[r], at[r])
          /\ RunStep(r) => Ticks(pc'[r], at'[r]) < Ticks(pc[r], at[r])]_vars

THEOREM EveryRunEnds == Spec => CountsDown
<1>1. IInv /\ IInv' /\ [Next]_vars =>
          [\A r \in Runs : pc[r] # "idle" =>
              /\ Ticks(pc'[r], at'[r]) <= Ticks(pc[r], at[r])
              /\ RunStep(r) => Ticks(pc'[r], at'[r]) < Ticks(pc[r], at[r])]_vars
  <2> SUFFICES ASSUME IInv, IInv', Next, NEW r \in Runs, pc[r] # "idle"
               PROVE  /\ Ticks(pc'[r], at'[r]) <= Ticks(pc[r], at[r])
                      /\ RunStep(r) => Ticks(pc'[r], at'[r]) < Ticks(pc[r], at[r])
    OBVIOUS
  <2>1. /\ pc[r] \in Labels /\ at[r] \in Ranks
        /\ pc'[r] \in Labels /\ at'[r] \in Ranks
    BY DEF IInv, TypeOK
  <2>2. Ticks(pc'[r], at'[r]) \in Nat /\ Ticks(pc[r], at[r]) \in Nat
    BY <2>1, TicksType
  <2>3. RunStep(r) => Ticks(pc'[r], at'[r]) < Ticks(pc[r], at[r])
    BY EachStepCounts DEF IInv
  <2>4. ASSUME ~RunStep(r), pc'[r] # "idle"
        PROVE  pc'[r] = pc[r] /\ at'[r] = at[r]
    <3>1. ASSUME NEW q \in Runs, RunStep(q)
          PROVE  pc'[r] = pc[r] /\ at'[r] = at[r]
      BY <2>4, <3>1, RunStepShape DEF IInv
    <3>2. ASSUME NEW q \in Runs, Begin(q) \/ RunKilled(q)
          PROVE  pc'[r] = pc[r] /\ at'[r] = at[r]
      BY <2>4, <3>2 DEF Begin, RunKilled, Exit, IInv, TypeOK
    <3>3. CASE \/ UnitRefused \/ EngineReady \/ HeadAges \/ Wedges
               \/ \E n \in Ranks : RankDies(n) \/ DockerRestarts(n) \/ NodeDown(n) \/ NodeBoots(n) \/ ClockLocks(n)
      BY <2>4, <3>3, WorldMoves
    <3>4. QED
      BY <3>1, <3>2, <3>3 DEF Next
  <2>5. pc'[r] = "idle" => Ticks(pc'[r], at'[r]) <= Ticks(pc[r], at[r])
    <3> SUFFICES ASSUME pc'[r] = "idle"
                 PROVE  Ticks(pc'[r], at'[r]) <= Ticks(pc[r], at[r])
      OBVIOUS
    <3>1. Phase["idle"] < Phase[pc[r]]
      BY <2>1 DEF Phase, Labels
    <3>2. Ticks(pc'[r], at'[r]) < Ticks(pc[r], at[r])
      BY <2>1, <3>1, LaterPhase
    <3>3. QED
      BY <2>2, <3>2
  <2>6. QED
    BY <2>2, <2>3, <2>4, <2>5
<1>2. QED
  BY Inductive, <1>1, PTL DEF Spec, CountsDown

(***************************************************************************)
(* What a run achieves once the faults have stopped.                       *)
(***************************************************************************)
AllUp == \A n \in Ranks : node[n] = "up"
Healed == ~stale /\ ~wedged
Gone(n) == box[n] = "none"

(* How far the run has brought the world: it removes the containers from   *)
(* the head on, creates them from the last rank down, and waits for the    *)
(* engine, which then answers.                                             *)
Stage(label, n) ==
    \/ label = "clear" /\ (n # Head => Healed) /\ \A m \in Ranks : m < n => Gone(m)
    \/ label \in {"drain", "restop", "preflight"} /\ Healed /\ \A m \in Ranks : Gone(m)
    \/ /\ label = "launch" /\ Healed
       /\ \A m \in Ranks : IF m > n THEN box[m] = "booting" ELSE Gone(m)
    \/ label = "await" /\ Healed /\ (CanStart \/ Answers)
    \/ label \in {"gate", "arm", "confirm", "rearm", "recovered"} /\ Answers

Recovering(r) == AllUp /\ Stage(pc[r], at[r])

(* The world answers, and runs only look at it. *)
Settled == AllUp /\ Answers /\ \A q \in Runs : pc[q] \in {"idle", "list", "ping"}

Calm == mishaps' = mishaps

LEMMA NoMishap == ASSUME TypeOK, Calm PROVE ~Mishap
  BY MishapAssumption DEF TypeOK, Calm, Mishap

(* What removing and creating a container does, in the order of the loops. *)
LEMMA RemoveInOrder ==
    ASSUME TypeOK, NEW n \in Ranks, Remove(n), n # Head => Healed /\ Gone(Head)
    PROVE  Healed' /\ Gone(n)' /\ \A m \in Ranks : Gone(m) => Gone(m)'
  BY RankFacts DEF TypeOK, Remove, Healed, Gone, LosesWorker, Alive

LEMMA ClearStage ==
    ASSUME TypeOK, Calm, AllUp, NEW r \in Runs, Clear(r), Stage("clear", at[r])
    PROVE  AllUp' /\ Stage(pc[r], at[r])'
<1>0. PICK n \in Ranks : n = at[r]
  BY DEF TypeOK
<1>1. n = at[r] /\ Remove(n) /\ UNCHANGED node /\ pc[r] = "clear"
  BY <1>0, NoMishap DEF Clear, RemoveAll, AllUp, Reachable, TypeOK, MoveTo
<1>2. (n # Head => Healed) /\ \A m \in Ranks : m < n => Gone(m)
  BY <1>0 DEF Stage
<1>3. n # Head => Healed /\ Gone(Head)
  BY <1>1, <1>2, RankAssumption DEF Ranks, Head
<1>4. Healed' /\ Gone(n)' /\ \A m \in Ranks : Gone(m) => Gone(m)'
  BY <1>1, <1>3, RemoveInOrder
<1>5. CASE n = LastRank
  <2>1. pc'[r] = "drain"
    BY <1>1, <1>5 DEF Clear, RemoveAll, MoveTo, TypeOK
  <2>2. \A m \in Ranks : m < n \/ m = n
    BY <1>5, RankAssumption DEF Ranks
  <2>3. \A m \in Ranks : Gone(m)'
    BY <1>2, <1>4, <2>2
  <2>4. QED
    BY <1>1, <1>4, <2>1, <2>3 DEF Stage, AllUp
<1>6. CASE n # LastRank
  <2>1. pc'[r] = "clear" /\ at'[r] = n + 1
    BY <1>1, <1>6 DEF Clear, RemoveAll, MoveTo, TypeOK
  <2>2. \A m \in Ranks : m < n + 1 => m < n \/ m = n
    BY <1>1, RankAssumption DEF Ranks
  <2>3. \A m \in Ranks : m < n + 1 => Gone(m)'
    BY <1>2, <1>4, <2>2
  <2>4. QED
    BY <1>1, <1>4, <2>1, <2>3 DEF Stage, AllUp
<1>7. QED
  BY <1>5, <1>6

(* Nothing computes where nothing is left, so neither loop over the nodes  *)
(* gives up, and the second removal finds nothing.                         *)
LEMMA EmptyStage ==
    ASSUME TypeOK, Calm, AllUp, NEW r \in Runs, Drain(r) \/ Restop(r) \/ Preflight(r),
           Healed, \A m \in Ranks : Gone(m)
    PROVE  AllUp' /\ Stage(pc[r], at[r])'
<1>1. at[r] \in Ranks /\ ComputeApps(at[r]) = {FALSE} /\ Reachable(at[r]) /\ ~Mishap
  BY NoMishap DEF TypeOK, ComputeApps, Alive, Gone, AllUp, Reachable
<1>2. CASE Drain(r)
  <2>1. UNCHANGED <<world, node>> /\ pc'[r] \in {"drain", "restop"}
    BY <1>1, <1>2 DEF Drain, Goto, MoveTo, TypeOK
  <2>2. QED
    BY <2>1 DEF Stage, Healed, Gone, AllUp, world
<1>3. CASE Restop(r)
  <2>0. PICK n \in Ranks : n = at[r]
    BY <1>1
  <2>1. Remove(n) /\ UNCHANGED node /\ pc'[r] \in {"restop", "preflight"}
    BY <1>1, <1>3, <2>0 DEF Restop, RemoveAll, MoveTo, TypeOK
  <2>2. Healed' /\ \A m \in Ranks : Gone(m)'
    BY <1>1, <2>1, RankFacts, RemoveInOrder
  <2>3. QED
    BY <2>1, <2>2 DEF Stage, AllUp
<1>4. CASE Preflight(r)
  <2>1. /\ UNCHANGED <<world, node>>
        /\ pc'[r] = "preflight" \/ (pc'[r] = "launch" /\ at'[r] = LastRank)
    BY <1>1, <1>4 DEF Preflight, Goto, MoveTo, TypeOK
  <2>2. Healed' /\ (\A m \in Ranks : Gone(m)') /\ AllUp'
    BY <2>1 DEF Healed, Gone, AllUp, world
  <2>3. \A m \in Ranks : ~(m > LastRank)
    BY RankAssumption DEF Ranks
  <2>4. QED
    BY <2>1, <2>2, <2>3 DEF Stage
<1>5. QED
  BY <1>2, <1>3, <1>4

LEMMA LaunchStage ==
    ASSUME TypeOK, AllUp, NEW r \in Runs, LaunchRank(r), Healed,
           \A m \in Ranks : IF m > at[r] THEN box[m] = "booting" ELSE Gone(m)
    PROVE  AllUp' /\ Stage(pc[r], at[r])'
<1> DEFINE n == at[r]
<1>1. n \in Ranks /\ Gone(n)
  BY RankAssumption DEF TypeOK, Ranks
<1>2. Create(n) /\ UNCHANGED node /\ pc[r] = "launch"
  BY <1>1 DEF LaunchRank, Gone, AllUp, Reachable
<1>3. Healed' /\ box' = [box EXCEPT ![n] = "booting"]
  BY <1>2 DEF Create, Healed
<1>4. CASE n = Head
  <2>1. pc'[r] = "await"
    BY <1>4 DEF LaunchRank, TypeOK
  <2>2. \A m \in Ranks : m = Head \/ m > Head
    BY RankAssumption DEF Ranks, Head
  <2>3. \A m \in Ranks : box'[m] = "booting"
    BY <1>3, <1>4, <2>2 DEF TypeOK
  <2>4. QED
    BY <1>2, <1>3, <2>1, <2>3 DEF Stage, CanStart, Healed, AllUp
<1>5. CASE n # Head
  <2>1. pc'[r] = "launch" /\ at'[r] = n - 1
    BY <1>5 DEF LaunchRank, TypeOK
  <2>2. \A m \in Ranks : (m > n - 1 <=> m > n \/ m = n) /\ (m = n => ~(m > n))
    BY <1>1, RankAssumption DEF Ranks
  <2>3. \A m \in Ranks : IF m > n - 1 THEN box'[m] = "booting" ELSE Gone(m)'
    BY <1>3, <2>2 DEF TypeOK, Gone
  <2>4. QED
    BY <1>2, <1>3, <2>1, <2>3 DEF Stage, AllUp
<1>6. QED
  BY <1>4, <1>5

LEMMA AnswersHeals == TypeOK /\ Answers => ~wedged /\ Listed /\ Running(Head) /\ ~CanStart
  BY RankFacts DEF TypeOK, Answers, Listed, Running, CanStart

LEMMA ServingStage ==
    ASSUME TypeOK, Calm, AllUp, NEW r \in Runs, Stage(pc[r], at[r]),
           \/ AwaitApi(r) \/ SpecGate(r) \/ Arm(r) \/ Confirm(r) \/ Rearm(r)
    PROVE  AllUp' /\ Stage(pc[r], at[r])'
<1>1. CASE AwaitApi(r)
  <2>1. pc[r] = "await" /\ (CanStart \/ Answers)
    BY <1>1 DEF AwaitApi, Stage
  <2>2. Running(Head) /\ (Listed => Answers) /\ (Listed \/ WillStart)
    BY <2>1, AnswersHeals, RankFacts DEF CanStart, WillStart, Running, Listed
  <2>3. Listed /\ Goto(r, "gate", Head) /\ UNCHANGED world
    BY <1>1, <2>2 DEF AwaitApi
  <2>4. pc'[r] = "gate" /\ UNCHANGED <<node, box, wedged>>
    BY <2>3 DEF Goto, MoveTo, TypeOK, world
  <2>5. QED
    BY <2>2, <2>3, <2>4 DEF Stage, Answers, AllUp
<1>2. ASSUME Answers, UNCHANGED <<node, box, wedged>>,
             pc'[r] \in {"gate", "arm", "confirm", "rearm", "recovered"}
      PROVE  AllUp' /\ Stage(pc[r], at[r])'
  BY <1>2 DEF Stage, Answers, AllUp
<1>3. CASE SpecGate(r)
  <2>1. Answers /\ ~Mishap
    BY <1>3, NoMishap DEF Stage, SpecGate
  <2>2. QED
    BY <1>2, <1>3, <2>1 DEF SpecGate, Goto, MoveTo, TypeOK
<1>4. CASE Arm(r)
  BY <1>2, <1>4 DEF Arm, ArmAll, Goto, MoveTo, TypeOK, Stage
<1>5. CASE Rearm(r)
  BY <1>2, <1>5 DEF Rearm, ArmAll, Goto, MoveTo, TypeOK, Stage
<1>6. CASE Confirm(r)
  <2>1. Answers
    BY <1>6 DEF Stage, Confirm
  <2>2. Goto(r, "rearm", Head) /\ UNCHANGED world
    BY <1>6, <2>1, AnswersHeals DEF Confirm
  <2>3. QED
    BY <1>2, <2>1, <2>2 DEF Goto, MoveTo, TypeOK, world
<1>7. QED
  BY <1>1, <1>3, <1>4, <1>5, <1>6

(* What goes on around a run that nothing disturbs: the engine comes up.   *)
LEMMA EngineStage ==
    ASSUME TypeOK, AllUp, NEW r \in Runs, Stage(pc[r], at[r]),
           EngineReady \/ HeadAges \/ UnitRefused
    PROVE  AllUp' /\ Stage(pc[r], at[r])'
<1>1. CASE HeadAges \/ UnitRefused
  BY <1>1 DEF HeadAges, UnitRefused, Stage, AllUp, Healed, Gone, CanStart, Answers, world
<1>2. CASE EngineReady
  <2>1. UNCHANGED <<node, stale, wedged, pc, at>> /\ CanStart
    BY <1>2 DEF EngineReady
  <2>2. ~Gone(Head)
    BY <2>1, RankFacts DEF CanStart, Gone
  <2>3. \/ pc[r] = "clear" /\ at[r] = Head
        \/ pc[r] = "await" /\ Healed
    <3>1. Head < at[r] \/ at[r] = Head
      BY RankAssumption DEF TypeOK, Ranks, Head
    <3>2. ~(Head > at[r])
      BY RankAssumption DEF TypeOK, Ranks, Head
    <3>3. QED
      BY <2>1, <2>2, <3>1, <3>2, RankFacts, AnswersHeals DEF Stage
  <2>4. CASE pc[r] = "clear" /\ at[r] = Head
    <3>1. \A m \in Ranks : ~(m < Head)
      BY RankAssumption DEF Ranks, Head
    <3>2. QED
      BY <2>1, <2>4, <3>1 DEF Stage, AllUp
  <2>5. CASE pc[r] = "await" /\ Healed
    BY <1>2, <2>1, <2>5 DEF Stage, AllUp, EngineReady, Healed, Answers
  <2>6. QED
    BY <2>3, <2>4, <2>5
<1>3. QED
  BY <1>1, <1>2

(* Docker restarts what died before, and a rank that lost its world may    *)
(* follow it: both only happen to what the run has yet to remove.          *)
LEMMA RankStage ==
    ASSUME TypeOK, StaleBreaks, AllUp, NEW r \in Runs, Stage(pc[r], at[r]), NEW n \in Ranks,
           DockerRestarts(n) \/ (RankDies(n) /\ Bereft(n))
    PROVE  AllUp' /\ Stage(pc[r], at[r])'
<1>1. /\ UNCHANGED <<node, pc, at>> /\ ~Gone(n)
      /\ Restarts(n) \/ \E left \in {"exited", "restarting"} : Halts(n, left)
  BY DEF DockerRestarts, RankDies, Alive, Gone
<1>2. \A m \in Ranks : Gone(m) => Gone(m)'
  BY <1>1 DEF Gone, Restarts, Halts, TypeOK
<1>3. box[n] = "restarting" \/ (n = Head /\ stale) \/ (n # Head /\ box[n] = "serving" /\ ~Listed)
  BY DEF DockerRestarts, Bereft, Listed
<1>4. ~Answers
  BY <1>3, RankFacts DEF Answers, StaleBreaks, Listed
<1>5. ~CanStart
  BY <1>3 DEF CanStart
<1>6. ~(pc[r] = "launch" /\ Stage(pc[r], at[r]))
  BY <1>3 DEF Stage, Healed, Gone
<1>7. pc[r] = "clear" /\ (at[r] # Head => Healed) /\ \A m \in Ranks : m < at[r] => Gone(m)
  BY <1>1, <1>4, <1>5, <1>6 DEF Stage
<1>8. at[r] # Head => Healed'
  <2> SUFFICES ASSUME at[r] # Head
               PROVE  Healed'
    OBVIOUS
  <2>1. Healed /\ Gone(Head)
    BY <1>7, RankAssumption DEF TypeOK, Ranks, Head
  <2>2. n # Head /\ ~LosesWorker(n)
    BY <1>1, <2>1 DEF LosesWorker, Gone, Alive
  <2>3. QED
    BY <1>1, <2>1, <2>2 DEF Healed, Restarts, Halts
<1>9. QED
  BY <1>1, <1>2, <1>7, <1>8 DEF Stage, AllUp

(* Without a fault the nodes stay as they are. *)
LEMMA CalmStep ==
    ASSUME TypeOK, Calm, AllUp, Next
    PROVE  \/ \E q \in Runs : Begin(q) \/ RunStep(q)
           \/ EngineReady \/ HeadAges \/ UnitRefused
           \/ \E n \in Ranks : DockerRestarts(n) \/ (RankDies(n) /\ Bereft(n))
<1>1. ~Mishap
  BY NoMishap
<1>2. ASSUME NEW n \in Ranks
      PROVE  /\ RankDies(n) => Bereft(n)
             /\ ~(NodeDown(n) \/ NodeBoots(n) \/ ClockLocks(n))
  BY <1>1 DEF RankDies, NodeDown, NodeBoots, ClockLocks, AllUp
<1>3. ~Wedges /\ \A q \in Runs : ~RunKilled(q)
  BY <1>1 DEF Wedges, RunKilled
<1>4. QED
  BY <1>2, <1>3 DEF Next

LEMMA RecoveringStep ==
    ASSUME IInv, Calm, NEW r \in Runs, Recovering(r), [Next]_vars
    PROVE  Recovering(r)' \/ Settled'
<1>1. TypeOK /\ AllUp /\ Stage(pc[r], at[r]) /\ pc[r] # "idle" /\ lock = r
  BY DEF IInv, Recovering, Stage, OneRun
<1>2. \A q \in Runs \ {r} : pc[q] = "idle"
  BY <1>1 DEF IInv, OneRun
<1>3. CASE UNCHANGED vars
  <2>1. Recovering(r)'
    BY <1>1, <1>3 DEF Recovering, AllUp, Stage, Healed, Gone, CanStart, Answers, vars, world
  <2>2. QED
    BY <2>1
<1>4. CASE EngineReady \/ HeadAges \/ UnitRefused
  BY <1>1, <1>4, EngineStage DEF Recovering
<1>5. ASSUME NEW q \in Runs, Begin(q)
      PROVE  FALSE
  BY <1>1, <1>5, RunAssumption DEF Begin, Runs
<1>6. ASSUME NEW q \in Runs, RunStep(q)
      PROVE  Recovering(r)' \/ Settled'
  <2>1. q = r
    BY <1>1, <1>2, <1>6, RunStepShape
  <2>2. CASE Clear(r)
    BY <1>1, <2>2, ClearStage DEF Recovering, Clear, RemoveAll
  <2>3. CASE Drain(r) \/ Restop(r) \/ Preflight(r)
    <3>1. Healed /\ \A m \in Ranks : Gone(m)
      BY <1>1, <2>3 DEF Stage, Drain, Restop, RemoveAll, Preflight
    <3>2. QED
      BY <1>1, <2>3, <3>1, EmptyStage DEF Recovering
  <2>4. CASE LaunchRank(r)
    <3>1. Healed /\ \A m \in Ranks : IF m > at[r] THEN box[m] = "booting" ELSE Gone(m)
      BY <1>1, <2>4 DEF Stage, LaunchRank
    <3>2. QED
      BY <1>1, <2>4, <3>1, LaunchStage DEF Recovering
  <2>5. CASE AwaitApi(r) \/ SpecGate(r) \/ Arm(r) \/ Confirm(r) \/ Rearm(r)
    BY <1>1, <2>5, ServingStage DEF Recovering
  <2>6. CASE Recovered(r)
    <3>1. Answers /\ UNCHANGED <<world, node>>
      BY <1>1, <2>6 DEF Stage, Recovered, Exit
    <3>2. \A p \in Runs : pc'[p] = "idle"
      BY <1>1, <1>2, <2>6 DEF Recovered, Exit, TypeOK
    <3>3. QED
      BY <1>1, <3>1, <3>2 DEF Settled, AllUp, Answers, world
  <2>7. ~(ListModels(r) \/ Ping(r) \/ BootGuard(r) \/ CheckNodes(r))
    BY <1>1 DEF Stage, ListModels, Ping, BootGuard, CheckNodes
  <2>8. ~(SweepWorkers(r) \/ StopRank(r))
    BY <1>1 DEF Stage, SweepWorkers, StopRank
  <2>9. QED
    BY <1>6, <2>1, <2>2, <2>3, <2>4, <2>5, <2>6, <2>7, <2>8 DEF RunStep
<1>7. ASSUME NEW n \in Ranks, DockerRestarts(n) \/ (RankDies(n) /\ Bereft(n))
      PROVE  Recovering(r)'
  BY <1>1, <1>7, RankStage DEF Recovering, IInv
<1>8. QED
  BY <1>1, <1>3, <1>4, <1>5, <1>6, <1>7, CalmStep

LEMMA SettledStep ==
    ASSUME IInv, Calm, Settled, [Next]_vars
    PROVE  Settled'
<1> USE DEF Settled
<1>1. TypeOK /\ AllUp /\ Answers /\ Listed /\ ~CanStart /\ ~Mishap
  BY AnswersHeals, NoMishap DEF IInv
<1>2. ASSUME UNCHANGED <<node, box, wedged>>, \A q \in Runs : pc'[q] \in {"idle", "list", "ping"}
      PROVE  Settled'
  BY <1>1, <1>2 DEF AllUp, Answers
<1>3. CASE UNCHANGED vars
  BY <1>2, <1>3 DEF vars, world
<1>4. CASE EngineReady \/ HeadAges \/ UnitRefused
  BY <1>1, <1>2, <1>4 DEF EngineReady, HeadAges, UnitRefused, world
<1>5. ASSUME NEW q \in Runs, Begin(q)
      PROVE  Settled'
  BY <1>1, <1>2, <1>5 DEF Begin, world, TypeOK
<1>6. ASSUME NEW q \in Runs, RunStep(q)
      PROVE  Settled'
  <2>1. ListModels(q) \/ Ping(q)
    BY <1>6 DEF RunStep, BootGuard, CheckNodes, Clear, Drain, Restop, RemoveAll, Preflight, LaunchRank,
                AwaitApi, SweepWorkers, SpecGate, StopRank, Arm, Rearm, ArmAll, Confirm, Recovered
  <2>2. UNCHANGED <<world, node>> /\ (Goto(q, "ping", Head) \/ Exit(q))
    BY <1>1, <2>1 DEF ListModels, Ping, Goto, MoveTo, Exit
  <2>3. QED
    BY <1>1, <1>2, <2>2 DEF Goto, MoveTo, Exit, TypeOK, world
<1>7. ASSUME NEW n \in Ranks
      PROVE  ~(DockerRestarts(n) \/ (RankDies(n) /\ Bereft(n)))
  BY <1>1, RankFacts DEF DockerRestarts, Bereft, Answers, IInv, StaleBreaks
<1>8. QED
  BY <1>1, <1>3, <1>4, <1>5, <1>6, <1>7, CalmStep

(* A run that gets as far as removing the old world, while all nodes are   *)
(* up and no further fault happens, does not fail on the way: neither of   *)
(* its checks for computing processes finds one, it starts every rank, the *)
(* engine comes up with all of them, and it ends with RECOVERED on a world *)
(* that answers and that later runs leave alone (dsv41-recover.sh 99-143). *)
AtClear(r) == AllUp /\ pc[r] = "clear" /\ at[r] = Head

THEOREM CalmRunConverges ==
    ASSUME NEW r \in Runs
    PROVE  Spec => [](AtClear(r) /\ [][Calm]_vars => [](Recovering(r) \/ Settled))
<1>1. AtClear(r) => Recovering(r)
  <2>1. \A m \in Ranks : ~(m < Head)
    BY RankAssumption DEF Ranks, Head
  <2>2. QED
    BY <2>1 DEF AtClear, Recovering, Stage
<1>2. IInv /\ [Next]_vars /\ [Calm]_vars /\ (Recovering(r) \/ Settled) => (Recovering(r) \/ Settled)'
  <2> SUFFICES ASSUME IInv, [Next]_vars, [Calm]_vars, Recovering(r) \/ Settled
               PROVE  Recovering(r)' \/ Settled'
    OBVIOUS
  <2>1. Calm
    BY DEF Calm, vars
  <2>2. QED
    BY <2>1, RecoveringStep, SettledStep
<1>3. QED
  BY Inductive, <1>1, <1>2, PTL DEF Spec

=============================================================================
