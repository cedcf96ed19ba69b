----------------------- MODULE CatchupServiceProofs -----------------------
(***************************************************************************)
(* Machine-checked proofs about CatchupService, for every set of sessions, *)
(* agents, hashes and settings, every max_inflight and every bound on the  *)
(* generations.                                                            *)
(***************************************************************************)
EXTENDS CatchupService, FiniteSetTheorems, TLAPS

(* The steps a warm thread takes outside the lock. *)
ThreadStep(w) == \/ Connect(w) \/ SendRequest(w) \/ EngineAnswers(w) \/ ReadFails(w) \/ CheckAnswer(w)

(* A warm thread outside the lock only changes its own stage; it never     *)
(* moves on to wait for the engine once its cancel event is set, and never *)
(* moves back from an outcome.                                             *)
LEMMA ThreadStepMoves ==
    ASSUME NEW w \in running, ThreadStep(w)
    PROVE  /\ stage[w] \in {"connecting", "held", "reading", "answered"}
           /\ \E next \in Stages \ {"recorded"} :
                 /\ MoveTo(w, next)
                 /\ next = "reading" => w \notin cancelled
<1>1. CASE Connect(w)
  BY <1>1 DEF Connect, IOErrorOutcome, Stages, Outcomes
<1>2. CASE SendRequest(w)
  BY <1>2 DEF SendRequest, Stages, Outcomes
<1>3. CASE EngineAnswers(w)
  BY <1>3 DEF EngineAnswers, Stages, Outcomes
<1>4. CASE ReadFails(w)
  BY <1>4 DEF ReadFails, IOErrorOutcome, Stages, Outcomes
<1>5. CASE CheckAnswer(w)
  BY <1>5 DEF CheckAnswer, Stages, Outcomes
<1>6. QED
  BY <1>1, <1>2, <1>3, <1>4, <1>5 DEF ThreadStep

(* Every step of the sidecar is one of these. *)
LEMMA NextCases ==
    ASSUME Next
    PROVE  \/ SwitchStep
           \/ \E s \in Sessions, h \in Hashes, r \in Reasons : Submit(s, h, r)
           \/ ApplySwitch
           \/ \E w \in pending : DispatchNext(w)
           \/ DispatchDone
           \/ \E w \in running : ThreadStep(w) \/ Record(w) \/ Release(w)
  BY DEF Next, WarmStep, ThreadStep

----------------------------------------------------------------------------
(* Types *)

LEMMA InitTypeOK == Init => TypeOK
<1> SUFFICES ASSUME Init
             PROVE  TypeOK
  OBVIOUS
<1>1. SwitchTypeOK
  BY DEF Init, SwitchInit, SwitchTypeOK
<1>2. ticket \in [pending -> Ticket] /\ stage \in [running -> Stages]
  BY DEF Init, ServiceInit
<1>3. generation \in [Sessions -> 0..MaxGeneration]
  BY ServiceAssumption DEF Init, ServiceInit
<1>4. QED
  BY <1>1, <1>2, <1>3 DEF Init, ServiceInit, TypeOK, SessionStates

LEMMA NextTypeOK == TypeOK /\ [Next]_vars => TypeOK'
<1> USE ServiceAssumption, SwitchAssumption
<1> SUFFICES ASSUME TypeOK, [Next]_vars
             PROVE  TypeOK'
  OBVIOUS
<1>1. CASE SwitchStep
  BY <1>1 DEF TypeOK, SwitchTypeOK, SwitchStep, AdminSaves, PollFails, PollSucceeds, ParsedAgents,
              HealthBody, switchVars, policyVars, adminVars, serviceVars, sessionVars, threadVars
<1>2. ASSUME NEW s \in Sessions, NEW h \in Hashes, NEW r \in Reasons, Submit(s, h, r)
      PROVE  TypeOK'
  <2> USE <1>2 DEF Submit, TypeOK, switchVars, threadVars
  <2>0. SwitchTypeOK'
    BY DEF SwitchTypeOK
  <2>1. CASE SubmitWhileOff(s, h)
    BY <2>0, <2>1 DEF SubmitWhileOff, SessionStates, PendingOf
  <2>2. CASE SubmitAlreadyWarm(s, h)
    BY <2>0, <2>2 DEF SubmitAlreadyWarm
  <2>3. CASE SubmitQueued(s, h, r)
    <3> DEFINE work == [session |-> s, generation |-> generation[s] + 1, hash |-> h]
    <3>1. generation[s] + 1 \in Generations
      BY DEF Generations
    <3>2. work \in Work
      BY <3>1 DEF Work
    <3>3. pending' \in SUBSET Work /\ clock' \in Nat
      BY <2>3, <3>2 DEF SubmitQueued
    <3>4. ticket' \in [pending' -> Ticket]
      BY <2>3, <3>3 DEF SubmitQueued, Ticket
    <3>5. generation' \in [Sessions -> 0..MaxGeneration]
      BY <2>3, <3>1 DEF SubmitQueued, Generations
    <3>6. QED
      BY <2>0, <2>3, <3>3, <3>4, <3>5 DEF SubmitQueued, SessionStates
  <2>4. QED
    BY <2>1, <2>2, <2>3
<1>3. CASE ApplySwitch
  BY <1>3 DEF TypeOK, SwitchTypeOK, ApplySwitch, SessionStates, adminVars, policyVars
<1>4. ASSUME NEW w \in pending, DispatchNext(w)
      PROVE  TypeOK'
  <2> USE <1>4 DEF DispatchNext, TypeOK, switchVars
  <2>0. SwitchTypeOK'
    BY DEF SwitchTypeOK
  <2>1. CASE Start(w)
    BY <2>0, <2>1 DEF Start, Stages
  <2>2. CASE SkipDisallowed(w)
    BY <2>0, <2>2 DEF SkipDisallowed, SessionStates
  <2>3. QED
    BY <2>1, <2>2
<1>5. CASE DispatchDone
  BY <1>5 DEF TypeOK, SwitchTypeOK, DispatchDone, adminVars, policyVars, sessionVars, threadVars
<1>6. ASSUME NEW w \in running, ThreadStep(w)
      PROVE  TypeOK'
  BY <1>6, ThreadStepMoves DEF TypeOK, SwitchTypeOK, MoveTo, switchVars, sessionVars
<1>7. ASSUME NEW w \in running, Record(w)
      PROVE  TypeOK'
  <2>1. w.session \in Sessions /\ w.hash \in Hashes
    BY DEF TypeOK, Work
  <2>2. state' \in [Sessions -> SessionStates] /\ warmedHash' \in [Sessions -> Hashes \union {NoHash}]
    BY <1>7, <2>1 DEF Record, Settled, SessionStates, TypeOK
  <2>3. QED
    BY <1>7, <2>2 DEF Record, TypeOK, SwitchTypeOK, Stages, switchVars
<1>8. ASSUME NEW w \in running, Release(w)
      PROVE  TypeOK'
  BY <1>8 DEF Release, TypeOK, SwitchTypeOK, switchVars, sessionVars
<1>9. CASE UNCHANGED vars
  BY <1>9 DEF TypeOK, SwitchTypeOK, vars, switchVars, serviceVars, sessionVars, threadVars
<1>10. QED
  BY <1>1, <1>2, <1>3, <1>4, <1>5, <1>6, <1>7, <1>8, <1>9, NextCases

(* The sidecar's state keeps its types: no generation beyond the bound, a  *)
(* stage for exactly the running works, sockets cut only under a cancel.   *)
THEOREM TypeCorrect == Spec => []TypeOK
  BY InitTypeOK, NextTypeOK, PTL DEF Spec

----------------------------------------------------------------------------
(* The queue, the warm threads and the sessions *)

(* A queued work is its session's latest, alone in the queue, and its      *)
(* session is warming. *)
QueuedIsLatest ==
    /\ \A w \in pending : /\ w.generation = generation[w.session]
                          /\ w.hash = currentHash[w.session]
                          /\ state[w.session] = "warming"
    /\ \A v, w \in pending : v.session = w.session => v = w

(* No generation of a session has two works. *)
WorksAreUnique ==
    /\ \A w \in running : w.generation <= generation[w.session]
    /\ \A v \in pending, w \in running : v.session = w.session => v.generation # w.generation
    /\ \A v, w \in running : v.session = w.session /\ v.generation = w.generation => v = w

(* The latest warm of a session, until it is recorded, keeps it warming    *)
(* for the snapshot it has now. *)
LatestWarmIsAwaited ==
    \A w \in running : stage[w] # "recorded" /\ w.generation = generation[w.session] =>
        state[w.session] = "warming" /\ w.hash = currentHash[w.session]

QueueInv == QueuedIsLatest /\ WorksAreUnique /\ LatestWarmIsAwaited

LEMMA InitQueueInv == Init => QueueInv
  BY DEF Init, ServiceInit, QueueInv, QueuedIsLatest, WorksAreUnique, LatestWarmIsAwaited

LEMMA SubmitQueueInv ==
    ASSUME TypeOK, QueueInv, NEW s \in Sessions, NEW h \in Hashes, NEW r \in Reasons, Submit(s, h, r)
    PROVE  QueueInv'
<1> USE DEF QueueInv, QueuedIsLatest, WorksAreUnique, LatestWarmIsAwaited, PendingOf, TypeOK, Submit, threadVars
<1>1. CASE SubmitWhileOff(s, h)
  <2>1. \A w \in running : w.session = s => w.generation # generation'[s]
    BY <1>1 DEF SubmitWhileOff, Work, Generations
  <2>2. \A w \in pending' : w \in pending /\ w.session # s
    BY <1>1 DEF SubmitWhileOff
  <2>3. \A t \in Sessions : t # s => /\ generation'[t] = generation[t]
                                   /\ currentHash'[t] = currentHash[t]
                                   /\ state'[t] = state[t]
    BY <1>1 DEF SubmitWhileOff
  <2>4. generation'[s] = generation[s] + 1 /\ running' = running /\ stage' = stage
    BY <1>1 DEF SubmitWhileOff
  <2>5. QueuedIsLatest'
    BY <2>2, <2>3 DEF Work
  <2>6. WorksAreUnique'
    <3>1. \A w \in running : w.generation <= generation'[w.session]
      BY <2>3, <2>4 DEF Work, Generations
    <3>2. \A v \in pending', w \in running : v.session = w.session => v.generation # w.generation
      BY <2>2
    <3>3. QED
      BY <2>4, <3>1, <3>2
  <2>7. LatestWarmIsAwaited'
    BY <2>1, <2>3, <2>4 DEF Work
  <2>8. QED
    BY <2>5, <2>6, <2>7
<1>2. CASE SubmitAlreadyWarm(s, h)
  <2>1. \A w \in pending : w.session # s
    BY <1>2 DEF SubmitAlreadyWarm
  <2>2. \A w \in running : stage[w] # "recorded" /\ w.generation = generation[w.session] => w.session # s
    BY <1>2 DEF SubmitAlreadyWarm
  <2>3. \A t \in Sessions : t # s => currentHash'[t] = currentHash[t]
    BY <1>2 DEF SubmitAlreadyWarm
  <2>4. QED
    BY <1>2, <2>1, <2>2, <2>3 DEF SubmitAlreadyWarm, Work
<1>3. CASE SubmitQueued(s, h, r)
  <2> DEFINE work == [session |-> s, generation |-> generation[s] + 1, hash |-> h]
  <2>1. \A w \in running : w.session = s => w.generation # generation'[s]
    BY <1>3 DEF SubmitQueued, Work, Generations
  <2>2. \A w \in pending' : w = work \/ (w \in pending /\ w.session # s)
    BY <1>3 DEF SubmitQueued
  <2>3. \A t \in Sessions : t # s => /\ generation'[t] = generation[t]
                                   /\ currentHash'[t] = currentHash[t]
                                   /\ state'[t] = state[t]
    BY <1>3 DEF SubmitQueued
  <2>4. /\ generation'[s] = generation[s] + 1 /\ currentHash'[s] = h /\ state'[s] = "warming"
        /\ running' = running /\ stage' = stage
    BY <1>3 DEF SubmitQueued
  <2>5. QueuedIsLatest'
    BY <2>2, <2>3, <2>4 DEF Work
  <2>6. WorksAreUnique'
    <3>1. \A w \in running : w.generation <= generation'[w.session]
      BY <2>3, <2>4 DEF Work, Generations
    <3>2. \A v \in pending', w \in running : v.session = w.session => v.generation # w.generation
      BY <2>1, <2>2, <2>4
    <3>3. QED
      BY <2>4, <3>1, <3>2
  <2>7. LatestWarmIsAwaited'
    BY <2>1, <2>3, <2>4 DEF Work
  <2>8. QED
    BY <2>5, <2>6, <2>7
<1>4. QED
  BY <1>1, <1>2, <1>3

LEMMA NextQueueInv == TypeOK /\ QueueInv /\ [Next]_vars => QueueInv'
<1> SUFFICES ASSUME TypeOK, QueueInv, [Next]_vars
             PROVE  QueueInv'
  OBVIOUS
<1> USE DEF QueueInv, QueuedIsLatest, WorksAreUnique, LatestWarmIsAwaited
<1>1. CASE SwitchStep
  BY <1>1 DEF SwitchStep, serviceVars, sessionVars, threadVars
<1>2. ASSUME NEW s \in Sessions, NEW h \in Hashes, NEW r \in Reasons, Submit(s, h, r)
      PROVE  QueueInv'
  BY <1>2, SubmitQueueInv
<1>3. CASE ApplySwitch
  <2>1. /\ pending' \subseteq pending /\ running' = running /\ stage' = stage
        /\ generation' = generation /\ currentHash' = currentHash
    BY <1>3 DEF ApplySwitch
  <2>2. \A t \in Sessions : state'[t] # state[t] => \E v \in pending \ pending' : v.session = t
    BY <1>3 DEF ApplySwitch
  <2>3. \A w \in pending' : state'[w.session] = "warming"
    BY <2>1, <2>2 DEF TypeOK, Work
  <2>4. \A w \in running : w.generation = generation[w.session] => state'[w.session] = state[w.session]
    BY <2>2 DEF TypeOK, Work
  <2>5. QED
    BY <2>1, <2>3, <2>4 DEF TypeOK, Work
<1>4. ASSUME NEW w \in pending, DispatchNext(w)
      PROVE  QueueInv'
  <2>1. /\ pending' = pending \ {w} /\ generation' = generation /\ currentHash' = currentHash
    BY <1>4 DEF DispatchNext
  <2>2. CASE Start(w)
    <3>1. running' = running \union {w} /\ state' = state
      BY <2>2 DEF Start
    <3>2. \A v \in running : v # w /\ stage'[v] = stage[v]
      BY <2>2, <3>1 DEF Start
    <3>3. QED
      BY <2>1, <3>1, <3>2 DEF TypeOK, Work, Generations
  <2>3. CASE SkipDisallowed(w)
    <3>1. \A v \in pending' : v.session # w.session
      BY <2>1
    <3>2. \A v \in running : v.generation = generation[v.session] => v.session # w.session
      BY DEF TypeOK
    <3>3. running' = running /\ stage' = stage /\ \A t \in Sessions : t # w.session => state'[t] = state[t]
      BY <2>3 DEF SkipDisallowed, TypeOK
    <3>4. QED
      BY <2>1, <3>1, <3>2, <3>3 DEF TypeOK, Work
  <2>4. QED
    BY <1>4, <2>2, <2>3 DEF DispatchNext
<1>5. CASE DispatchDone
  BY <1>5 DEF DispatchDone, sessionVars, threadVars
<1>6. ASSUME NEW w \in running, ThreadStep(w)
      PROVE  QueueInv'
  <2>1. UNCHANGED <<sessionVars, pending, running>>
    BY <1>6, ThreadStepMoves DEF MoveTo
  <2>2. \A v \in running : stage'[v] # "recorded" => stage[v] # "recorded"
    BY <1>6, ThreadStepMoves DEF MoveTo, TypeOK
  <2>3. QED
    BY <2>1, <2>2 DEF sessionVars
<1>7. ASSUME NEW w \in running, Record(w)
      PROVE  QueueInv'
  <2>1. UNCHANGED <<currentHash, generation, pending, running>>
    BY <1>7 DEF Record
  <2>2. stage'[w] = "recorded" /\ \A v \in running : v # w => stage'[v] = stage[v]
    BY <1>7 DEF Record, TypeOK
  <2>3. CASE generation[w.session] # w.generation
    BY <1>7, <2>1, <2>2, <2>3 DEF Record
  <2>4. CASE generation[w.session] = w.generation
    <3>1. \A t \in Sessions : t # w.session => state'[t] = state[t]
      BY <1>7, <2>4 DEF Record, TypeOK
    <3>2. \A v \in pending : v.session # w.session
      BY <2>4
    <3>3. \A v \in running : v # w /\ v.generation = generation[v.session] => v.session # w.session
      BY <2>4
    <3>4. QED
      BY <2>1, <2>2, <3>1, <3>2, <3>3 DEF TypeOK, Work
  <2>5. QED
    BY <2>3, <2>4
<1>8. ASSUME NEW w \in running, Release(w)
      PROVE  QueueInv'
  BY <1>8 DEF Release, TypeOK, sessionVars
<1>9. CASE UNCHANGED vars
  BY <1>9 DEF vars, serviceVars, sessionVars, threadVars
<1>10. QED
  BY <1>1, <1>2, <1>3, <1>4, <1>5, <1>6, <1>7, <1>8, <1>9, NextCases

LEMMA QueueInvariant == Spec => [](TypeOK /\ QueueInv)
  BY InitTypeOK, NextTypeOK, InitQueueInv, NextQueueInv, PTL DEF Spec

(* Latest snapshot wins, for any number of sessions and any priorities: a  *)
(* queued work is never one the session has already replaced.              *)
THEOREM LatestWins == Spec => []QueueHoldsLatest
<1>1. QueueInv => QueueHoldsLatest
  BY DEF QueueInv, QueuedIsLatest, QueueHoldsLatest, PendingOf
<1>2. QED
  BY <1>1, QueueInvariant, PTL

----------------------------------------------------------------------------
(* Slots *)

SlotInv == IsFiniteSet(running) /\ SlotsAccounted

LEMMA InitSlotInv == Init => SlotInv
  BY ServiceAssumption, FS_EmptySet DEF Init, ServiceInit, SlotInv, SlotsAccounted

LEMMA NextSlotInv == TypeOK /\ QueueInv /\ SlotInv /\ [Next]_vars => SlotInv'
<1> SUFFICES ASSUME TypeOK, QueueInv, SlotInv, [Next]_vars
             PROVE  SlotInv'
  OBVIOUS
<1> USE DEF SlotInv, SlotsAccounted
<1>1. ASSUME UNCHANGED <<running, inflight>>
      PROVE  SlotInv'
  BY <1>1
<1>2. CASE SwitchStep
  BY <1>1, <1>2 DEF SwitchStep, serviceVars
<1>3. ASSUME NEW s \in Sessions, NEW h \in Hashes, NEW r \in Reasons, Submit(s, h, r)
      PROVE  SlotInv'
  BY <1>1, <1>3 DEF Submit
<1>4. CASE ApplySwitch
  BY <1>1, <1>4 DEF ApplySwitch
<1>5. ASSUME NEW w \in pending, DispatchNext(w)
      PROVE  SlotInv'
  <2>1. w \notin running
    BY DEF QueueInv, WorksAreUnique
  <2>2. CASE Start(w)
    <3>1. IsFiniteSet(running') /\ Cardinality(running') = Cardinality(running) + 1
      BY <2>1, <2>2, FS_AddElement DEF Start
    <3>2. inflight' = inflight + 1 /\ inflight < MaxInflight
      BY <1>5, <2>2 DEF Start, DispatchNext, SlotFree
    <3>3. QED
      BY <3>1, <3>2, ServiceAssumption DEF TypeOK
  <2>3. CASE SkipDisallowed(w)
    BY <1>1, <2>3 DEF SkipDisallowed
  <2>4. QED
    BY <1>5, <2>2, <2>3 DEF DispatchNext
<1>6. CASE DispatchDone
  BY <1>1, <1>6 DEF DispatchDone
<1>7. ASSUME NEW w \in running, ThreadStep(w)
      PROVE  SlotInv'
  BY <1>1, <1>7, ThreadStepMoves DEF MoveTo
<1>8. ASSUME NEW w \in running, Record(w)
      PROVE  SlotInv'
  BY <1>1, <1>8 DEF Record
<1>9. ASSUME NEW w \in running, Release(w)
      PROVE  SlotInv'
  <2>1. /\ IsFiniteSet(running') /\ Cardinality(running') = Cardinality(running) - 1
        /\ Cardinality(running) \in Nat \ {0}
    BY <1>9, FS_RemoveElement, FS_EmptySet, FS_CardinalityType DEF Release
  <2>2. inflight' = inflight - 1
    BY <1>9, <2>1 DEF Release
  <2>3. QED
    BY <2>1, <2>2, ServiceAssumption DEF TypeOK
<1>10. CASE UNCHANGED vars
  BY <1>1, <1>10 DEF vars, serviceVars
<1>11. QED
  BY <1>2, <1>3, <1>4, <1>5, <1>6, <1>7, <1>8, <1>9, <1>10, NextCases

(* Backpressure holds for every max_inflight: never more warm threads than *)
(* slots, and the counter never drifts from the threads it counts.         *)
THEOREM Backpressure == Spec => []SlotsAccounted
<1>1. SlotInv => SlotsAccounted
  BY DEF SlotInv
<1>2. QED
  BY <1>1, InitSlotInv, NextSlotInv, QueueInvariant, PTL DEF Spec

LEMMA SlotInvariant == Spec => []SlotInv
  BY InitSlotInv, NextSlotInv, QueueInvariant, PTL DEF Spec

LEMMA NextNoIdleSlot == TypeOK /\ SlotInv /\ NoIdleSlot /\ [Next]_vars => NoIdleSlot'
<1> SUFFICES ASSUME TypeOK, SlotInv, NoIdleSlot, [Next]_vars
             PROVE  NoIdleSlot'
  OBVIOUS
<1> USE DEF NoIdleSlot
<1>1. CASE SwitchStep
  BY <1>1 DEF SwitchStep, serviceVars
<1>2. ASSUME NEW s \in Sessions, NEW h \in Hashes, NEW r \in Reasons, Submit(s, h, r)
      PROVE  NoIdleSlot'
  BY <1>2 DEF Submit, SubmitWhileOff, SubmitAlreadyWarm, SubmitQueued
<1>3. CASE ApplySwitch
  BY <1>3 DEF ApplySwitch
<1>4. ASSUME NEW w \in pending, DispatchNext(w)
      PROVE  NoIdleSlot'
  BY <1>4 DEF DispatchNext
<1>5. CASE DispatchDone
  BY <1>5, ServiceAssumption DEF DispatchDone, SlotFree, SlotInv, SlotsAccounted, TypeOK
<1>6. ASSUME NEW w \in running, ThreadStep(w)
      PROVE  NoIdleSlot'
  BY <1>6, ThreadStepMoves DEF MoveTo
<1>7. ASSUME NEW w \in running, Record(w) \/ Release(w)
      PROVE  NoIdleSlot'
  BY <1>7 DEF Record, Release
<1>8. CASE UNCHANGED vars
  BY <1>8 DEF vars, serviceVars
<1>9. QED
  BY <1>1, <1>2, <1>3, <1>4, <1>5, <1>6, <1>7, <1>8, NextCases

(* No path leaves a slot idle beside a queued work. *)
THEOREM WorkConserving == Spec => []NoIdleSlot
<1>1. Init => NoIdleSlot
  BY DEF Init, ServiceInit, NoIdleSlot
<1>2. QED
  BY <1>1, NextNoIdleSlot, QueueInvariant, SlotInvariant, PTL DEF Spec

----------------------------------------------------------------------------
(* The switch *)

(* The policy in force has been applied, unless the listeners are still to *)
(* be called; the poller holds the lock only while it applies one. *)
SwitchInv ==
    /\ poller # "notify" =>
         /\ \A w \in pending : Allows(w.session)
         /\ \A w \in running : Allows(w.session) \/ w \in cancelled
    /\ holder = "poller" => poller = "applying"

LEMMA NextSwitchInv == TypeOK /\ SwitchInv /\ [Next]_vars => SwitchInv'
<1> SUFFICES ASSUME TypeOK, SwitchInv, [Next]_vars
             PROVE  SwitchInv'
  OBVIOUS
<1> USE DEF SwitchInv, Allows, AllowsAgent, On
<1>1. CASE SwitchStep
  BY <1>1 DEF SwitchStep, AdminSaves, PollFails, PollSucceeds, switchVars, policyVars,
              serviceVars, threadVars
<1>2. ASSUME NEW s \in Sessions, NEW h \in Hashes, NEW r \in Reasons, Submit(s, h, r)
      PROVE  SwitchInv'
  BY <1>2 DEF Submit, SubmitWhileOff, SubmitAlreadyWarm, SubmitQueued, PendingOf, switchVars, threadVars
<1>3. CASE ApplySwitch
  BY <1>3 DEF ApplySwitch, policyVars
<1>4. ASSUME NEW w \in pending, DispatchNext(w)
      PROVE  SwitchInv'
  BY <1>4 DEF DispatchNext, Start, SkipDisallowed, switchVars
<1>5. CASE DispatchDone
  BY <1>5 DEF DispatchDone, policyVars, threadVars
<1>6. ASSUME NEW w \in running, ThreadStep(w)
      PROVE  SwitchInv'
  BY <1>6, ThreadStepMoves DEF MoveTo, switchVars
<1>7. ASSUME NEW w \in running, Record(w) \/ Release(w)
      PROVE  SwitchInv'
  BY <1>7 DEF Record, Release, switchVars
<1>8. CASE UNCHANGED vars
  BY <1>8 DEF vars, switchVars, serviceVars, threadVars
<1>9. QED
  BY <1>1, <1>2, <1>3, <1>4, <1>5, <1>6, <1>7, <1>8, NextCases

LEMMA InitSwitchInv == Init => SwitchInv
  BY DEF Init, SwitchInit, ServiceInit, SwitchInv

(* Once the poller is done with a policy, nothing it forbids is queued or  *)
(* runs uncancelled, whatever was submitted and dispatched meanwhile.      *)
THEOREM SwitchIsEnforced == Spec => []SwitchEnforced
<1>1. SwitchInv => SwitchEnforced
  BY DEF SwitchInv, SwitchEnforced
<1>2. QED
  BY <1>1, InitSwitchInv, NextSwitchInv, QueueInvariant, PTL DEF Spec

(* Only a readable policy in which the admin allows an agent brings it     *)
(* back, whatever the sidecar does meanwhile: a failed poll keeps what is  *)
(* known, an unreadable policy fails closed (switch.py 7-14).              *)
THEOREM FailsClosed == Spec => ReenabledOnlyByAdmin
<1> DEFINE A == \A a \in Agents : ~AllowsAgent(a) /\ AllowsAgent(a)' =>
                    admin.on /\ admin.readable /\ a \notin admin.disabled
<1>1. Next => A
  <2> SUFFICES ASSUME Next PROVE A
    OBVIOUS
  <2> USE DEF AllowsAgent, On
  <2>1. CASE UNCHANGED policyVars
    BY <2>1 DEF policyVars
  <2>2. CASE PollSucceeds
    BY <2>2 DEF PollSucceeds, ParsedAgents
  <2>3. QED
    BY <2>1, <2>2, NextCases, ThreadStepMoves DEF SwitchStep, AdminSaves, PollFails, Submit,
       ApplySwitch, DispatchNext, DispatchDone, MoveTo, Record, Release, switchVars
<1>2. [Next]_vars => [A]_switchVars
  BY <1>1 DEF vars, switchVars
<1>3. QED
  BY <1>2, PTL DEF Spec, ReenabledOnlyByAdmin

LEMMA NextAbortReachesSocket == TypeOK /\ AbortReachesSocket /\ [Next]_vars => AbortReachesSocket'
<1> SUFFICES ASSUME TypeOK, AbortReachesSocket, [Next]_vars
             PROVE  AbortReachesSocket'
  OBVIOUS
<1> USE DEF AbortReachesSocket
<1>1. ASSUME UNCHANGED threadVars
      PROVE  AbortReachesSocket'
  BY <1>1 DEF threadVars
<1>2. CASE SwitchStep \/ DispatchDone \/ UNCHANGED vars
  BY <1>1, <1>2 DEF SwitchStep, DispatchDone, vars, serviceVars
<1>3. ASSUME NEW s \in Sessions, NEW h \in Hashes, NEW r \in Reasons, Submit(s, h, r)
      PROVE  AbortReachesSocket'
  BY <1>1, <1>3 DEF Submit
<1>4. CASE ApplySwitch
  BY <1>4 DEF ApplySwitch
<1>5. ASSUME NEW w \in pending, DispatchNext(w)
      PROVE  AbortReachesSocket'
  BY <1>5 DEF DispatchNext, Start, SkipDisallowed, TypeOK
<1>6. ASSUME NEW w \in running, ThreadStep(w)
      PROVE  AbortReachesSocket'
  BY <1>6, ThreadStepMoves DEF MoveTo, TypeOK
<1>7. ASSUME NEW w \in running, Record(w) \/ Release(w)
      PROVE  AbortReachesSocket'
  BY <1>7 DEF Record, Release, TypeOK
<1>8. QED
  BY <1>2, <1>3, <1>4, <1>5, <1>6, <1>7, NextCases

(* No abort is lost in the window between connect() and the request.       *)
THEOREM NoAbortIsLost == Spec => []AbortReachesSocket
<1>1. Init => AbortReachesSocket
  BY DEF Init, ServiceInit, AbortReachesSocket
<1>2. QED
  BY <1>1, NextAbortReachesSocket, QueueInvariant, PTL DEF Spec

----------------------------------------------------------------------------
(* What a session shows *)

SessionInv == GreenIsCurrent /\ NeverStale

LEMMA InitSessionInv == Init => SessionInv
  BY DEF Init, ServiceInit, SessionInv, GreenIsCurrent, NeverStale

LEMMA NextSessionInv == TypeOK /\ QueueInv /\ SessionInv /\ [Next]_vars => SessionInv'
<1> SUFFICES ASSUME TypeOK, QueueInv, SessionInv, [Next]_vars
             PROVE  SessionInv'
  OBVIOUS
<1> USE DEF SessionInv, GreenIsCurrent, NeverStale
<1>1. ASSUME UNCHANGED sessionVars
      PROVE  SessionInv'
  BY <1>1 DEF sessionVars
<1>2. CASE SwitchStep \/ DispatchDone \/ UNCHANGED vars
  BY <1>1, <1>2 DEF SwitchStep, DispatchDone, vars, serviceVars
<1>3. ASSUME NEW s \in Sessions, NEW h \in Hashes, NEW r \in Reasons, Submit(s, h, r)
      PROVE  SessionInv'
  BY <1>3 DEF Submit, SubmitWhileOff, SubmitAlreadyWarm, SubmitQueued, TypeOK
<1>4. CASE ApplySwitch
  BY <1>4 DEF ApplySwitch
<1>5. ASSUME NEW w \in pending, DispatchNext(w)
      PROVE  SessionInv'
  BY <1>5 DEF DispatchNext, Start, SkipDisallowed, TypeOK
<1>6. ASSUME NEW w \in running, ThreadStep(w)
      PROVE  SessionInv'
  BY <1>1, <1>6, ThreadStepMoves DEF MoveTo
<1>7. ASSUME NEW w \in running, Record(w)
      PROVE  SessionInv'
  <2>1. CASE generation[w.session] # w.generation
    BY <1>7, <2>1 DEF Record
  <2>2. CASE generation[w.session] = w.generation
    <3>1. w.hash = currentHash[w.session] /\ w.session \in Sessions
      BY <1>7, <2>2 DEF Record, QueueInv, LatestWarmIsAwaited, Outcomes, TypeOK, Work
    <3>2. Settled(w) \in {"off", "error", "warm"}
      BY <3>1 DEF Settled
    <3>3. QED
      BY <1>7, <2>2, <3>1, <3>2 DEF Record, TypeOK
  <2>3. QED
    BY <2>1, <2>2
<1>8. ASSUME NEW w \in running, Release(w)
      PROVE  SessionInv'
  BY <1>1, <1>8 DEF Release
<1>9. QED
  BY <1>2, <1>3, <1>4, <1>5, <1>6, <1>7, <1>8, NextCases

LEMMA SessionInvariant == Spec => []SessionInv
  BY InitSessionInv, NextSessionInv, QueueInvariant, PTL DEF Spec

(* Green is never shown for a snapshot the session has replaced.           *)
THEOREM GreenIsHonest == Spec => []GreenIsCurrent
<1>1. SessionInv => GreenIsCurrent
  BY DEF SessionInv
<1>2. QED
  BY <1>1, SessionInvariant, PTL

(* The stale state is dead code: the generation check comes first.         *)
THEOREM StaleIsDead == Spec => []NeverStale
<1>1. SessionInv => NeverStale
  BY DEF SessionInv
<1>2. QED
  BY <1>1, SessionInvariant, PTL

(* The works that can still settle a session. *)
Unsettled == pending \union {v \in running : stage[v] # "recorded"}

LEMMA NextWarmingHasWork == TypeOK /\ QueueInv /\ WarmingHasWork /\ [Next]_vars => WarmingHasWork'
<1> SUFFICES ASSUME TypeOK, QueueInv, WarmingHasWork, [Next]_vars
             PROVE  WarmingHasWork'
  OBVIOUS
<1> USE DEF WarmingHasWork
<1>1. CASE SwitchStep \/ DispatchDone \/ UNCHANGED vars
  BY <1>1 DEF SwitchStep, DispatchDone, vars, serviceVars, sessionVars, threadVars
<1>2. ASSUME NEW s \in Sessions, NEW h \in Hashes, NEW r \in Reasons, Submit(s, h, r)
      PROVE  WarmingHasWork'
  <2> SUFFICES ASSUME NEW t \in Sessions, state'[t] = "warming"
               PROVE  \E w \in Unsettled' : w.session = t /\ w.generation = generation'[t]
    BY DEF Unsettled
  <2> USE <1>2 DEF Submit, threadVars, Unsettled, PendingOf, TypeOK
  <2>1. CASE SubmitWhileOff(s, h)
    <3>1. t # s /\ state[t] = "warming" /\ generation'[t] = generation[t]
      BY <2>1 DEF SubmitWhileOff
    <3>2. QED
      BY <2>1, <3>1 DEF SubmitWhileOff
  <2>2. CASE SubmitAlreadyWarm(s, h)
    BY <2>2 DEF SubmitAlreadyWarm
  <2>3. CASE SubmitQueued(s, h, r)
    <3> DEFINE work == [session |-> s, generation |-> generation[s] + 1, hash |-> h]
    <3>1. work \in pending' /\ work.session = s /\ generation'[s] = work.generation
      BY <2>3 DEF SubmitQueued
    <3>2. CASE t = s
      BY <3>1, <3>2
    <3>3. CASE t # s
      BY <2>3, <3>3 DEF SubmitQueued
    <3>4. QED
      BY <3>2, <3>3
  <2>4. QED
    BY <2>1, <2>2, <2>3
<1>3. CASE ApplySwitch
  BY <1>3 DEF ApplySwitch
<1>4. ASSUME NEW w \in pending, DispatchNext(w)
      PROVE  WarmingHasWork'
  <2>1. pending' = pending \ {w} /\ generation' = generation
    BY <1>4 DEF DispatchNext
  <2>2. CASE Start(w)
    <3>1. /\ running' = running \union {w} /\ state' = state /\ stage'[w] = "connecting"
          /\ \A v \in running : v # w => stage'[v] = stage[v]
      BY <2>2 DEF Start
    <3>2. QED
      BY <2>1, <3>1
  <2>3. CASE SkipDisallowed(w)
    BY <2>1, <2>3 DEF SkipDisallowed, TypeOK, Work
  <2>4. QED
    BY <1>4, <2>2, <2>3 DEF DispatchNext
<1>5. ASSUME NEW w \in running, ThreadStep(w)
      PROVE  WarmingHasWork'
  <2>1. UNCHANGED <<sessionVars, pending, running>>
    BY <1>5, ThreadStepMoves DEF MoveTo
  <2>2. \A v \in running : stage[v] # "recorded" => stage'[v] # "recorded"
    BY <1>5, ThreadStepMoves DEF MoveTo, TypeOK
  <2>3. QED
    BY <2>1, <2>2 DEF sessionVars
<1>6. ASSUME NEW w \in running, Record(w)
      PROVE  WarmingHasWork'
  <2>1. UNCHANGED <<generation, pending, running>> /\ \A v \in running : v # w => stage'[v] = stage[v]
    BY <1>6 DEF Record, TypeOK
  <2>2. CASE generation[w.session] # w.generation
    BY <1>6, <2>1, <2>2 DEF Record
  <2>3. CASE generation[w.session] = w.generation
    <3>1. state'[w.session] # "warming"
      BY <1>6, <2>3 DEF Record, Settled, TypeOK, Work
    <3>2. \A t \in Sessions : t # w.session => state'[t] = state[t]
      BY <1>6, <2>3 DEF Record, TypeOK
    <3>3. QED
      BY <2>1, <3>1, <3>2
  <2>4. QED
    BY <2>2, <2>3
<1>7. ASSUME NEW w \in running, Release(w)
      PROVE  WarmingHasWork'
  BY <1>7 DEF Release, sessionVars
<1>8. QED
  BY <1>1, <1>2, <1>3, <1>4, <1>5, <1>6, <1>7, NextCases

(* No session is left warming with no work that will settle it.            *)
THEOREM NoWarmIsLost == Spec => []WarmingHasWork
<1>1. Init => WarmingHasWork
  BY DEF Init, ServiceInit, WarmingHasWork
<1>2. QED
  BY <1>1, NextWarmingHasWork, QueueInvariant, PTL DEF Spec

----------------------------------------------------------------------------
(* Refinement of WarmLedger *)

LEMMA LedgerStep == TypeOK /\ QueueInv /\ SessionInv /\ [Next]_vars => [Ledger!LedgerNext]_<<currentHash, state>>
<1> SUFFICES ASSUME TypeOK, QueueInv, SessionInv, [Next]_vars
             PROVE  Ledger!LedgerNext \/ UNCHANGED <<currentHash, state>>
  OBVIOUS
<1>1. CASE SwitchStep \/ DispatchDone \/ UNCHANGED vars
  BY <1>1 DEF SwitchStep, DispatchDone, vars, serviceVars, sessionVars
<1>2. ASSUME NEW s \in Sessions, NEW h \in Hashes, NEW r \in Reasons, Submit(s, h, r)
      PROVE  UNCHANGED <<currentHash, state>> \/ Ledger!LedgerNext
  <2>1. CASE SubmitWhileOff(s, h)
    <3>1. Ledger!Post(s, h)
      BY <2>1 DEF SubmitWhileOff, Ledger!Post
    <3>2. QED
      BY <3>1 DEF Ledger!LedgerNext
  <2>2. CASE SubmitAlreadyWarm(s, h)
    <3>1. Ledger!Post(s, h)
      BY <2>2 DEF SubmitAlreadyWarm, Ledger!Post, SessionInv, GreenIsCurrent
    <3>2. QED
      BY <3>1 DEF Ledger!LedgerNext
  <2>3. CASE SubmitQueued(s, h, r)
    <3>1. Ledger!Post(s, h)
      BY <2>3 DEF SubmitQueued, Ledger!Post
    <3>2. QED
      BY <3>1 DEF Ledger!LedgerNext
  <2>4. QED
    BY <1>2, <2>1, <2>2, <2>3 DEF Submit
<1>3. CASE ApplySwitch
  <2>1. \A s \in Sessions : state'[s] # state[s] => state[s] = "warming" /\ state'[s] = "off"
    BY <1>3 DEF ApplySwitch, QueueInv, QueuedIsLatest
  <2>2. state' \in [Sessions -> {"idle", "warming", "warm", "error", "off"}]
    BY <1>3 DEF ApplySwitch, TypeOK, SessionStates, SessionInv, NeverStale
  <2>3. Ledger!Park
    BY <1>3, <2>1, <2>2 DEF ApplySwitch, Ledger!Park
  <2>4. QED
    BY <2>3 DEF Ledger!LedgerNext
<1>4. ASSUME NEW w \in pending, DispatchNext(w)
      PROVE  UNCHANGED <<currentHash, state>> \/ Ledger!LedgerNext
  <2>1. CASE Start(w)
    BY <1>4, <2>1 DEF Start, DispatchNext
  <2>2. CASE SkipDisallowed(w)
    <3>1. w.session \in Sessions /\ state[w.session] = "warming"
      BY DEF TypeOK, Work, QueueInv, QueuedIsLatest
    <3>2. Ledger!Settle(w.session)
      BY <1>4, <2>2, <3>1 DEF SkipDisallowed, DispatchNext, Ledger!Settle
    <3>3. QED
      BY <3>1, <3>2 DEF Ledger!LedgerNext
  <2>3. QED
    BY <1>4, <2>1, <2>2 DEF DispatchNext
<1>5. ASSUME NEW w \in running, ThreadStep(w)
      PROVE  UNCHANGED <<currentHash, state>>
  BY <1>5, ThreadStepMoves DEF MoveTo, sessionVars
<1>6. ASSUME NEW w \in running, Record(w)
      PROVE  UNCHANGED <<currentHash, state>> \/ Ledger!LedgerNext
  <2>1. CASE generation[w.session] # w.generation
    BY <1>6, <2>1 DEF Record
  <2>2. CASE generation[w.session] = w.generation
    <3>1. w.session \in Sessions /\ state[w.session] = "warming" /\ w.hash = currentHash[w.session]
      BY <1>6, <2>2 DEF Record, QueueInv, LatestWarmIsAwaited, Outcomes, TypeOK, Work
    <3>2. Settled(w) \in {"off", "error", "warm"}
      BY <3>1 DEF Settled
    <3>3. Ledger!Settle(w.session)
      BY <1>6, <2>2, <3>1, <3>2 DEF Record, Ledger!Settle
    <3>4. QED
      BY <3>1, <3>3 DEF Ledger!LedgerNext
  <2>3. QED
    BY <2>1, <2>2
<1>7. ASSUME NEW w \in running, Release(w)
      PROVE  UNCHANGED <<currentHash, state>>
  BY <1>7 DEF Release, sessionVars
<1>8. QED
  BY <1>1, <1>2, <1>3, <1>4, <1>5, <1>6, <1>7, NextCases

(* The sidecar implements the ledger.                                      *)
THEOREM ImplementsLedger == Spec => KeepsLedger
<1>1. Init => Ledger!LedgerInit
  BY DEF Init, ServiceInit, Ledger!LedgerInit
<1>2. QED
  BY <1>1, LedgerStep, QueueInvariant, SessionInvariant, PTL DEF Spec, KeepsLedger, Ledger!LedgerSpec

----------------------------------------------------------------------------
(* What the liveness properties rest on.  TLC checks AbortFreesSlot,       *)
(* OffDrains, WarmingSettles and PolicyConverges with the fairness of the  *)
(* threads; that every step goes the right way needs none.                 *)

(* A work is queued by the post that makes it and by nothing else, a warm  *)
(* is started from the queue and from nowhere else.                        *)
BringsNothingBack ==
    /\ \A w \in pending' \ pending : w.generation > generation[w.session]
    /\ running' \ running \subseteq pending
    /\ \A s \in Sessions : generation[s] <= generation'[s]

LEMMA StepsBringNothingBack == ASSUME TypeOK, Next PROVE BringsNothingBack
<1> USE DEF BringsNothingBack
<1>0. \A s \in Sessions : generation[s] \in 0..MaxGeneration
  BY DEF TypeOK
<1>1. CASE SwitchStep \/ DispatchDone
  BY <1>0, <1>1, ServiceAssumption DEF SwitchStep, DispatchDone, serviceVars, sessionVars
<1>2. ASSUME NEW s \in Sessions, NEW h \in Hashes, NEW r \in Reasons, Submit(s, h, r)
      PROVE  BringsNothingBack
  <2>1. generation[s] \in Int /\ running' = running
    BY <1>0, <1>2, ServiceAssumption DEF Submit
  <2>2. CASE SubmitWhileOff(s, h)
    BY <1>0, <2>1, <2>2, ServiceAssumption DEF SubmitWhileOff, TypeOK
  <2>3. CASE SubmitAlreadyWarm(s, h)
    BY <1>0, <2>1, <2>3, ServiceAssumption DEF SubmitAlreadyWarm
  <2>4. CASE SubmitQueued(s, h, r)
    BY <1>0, <2>1, <2>4, ServiceAssumption DEF SubmitQueued, TypeOK
  <2>5. QED
    BY <1>2, <2>2, <2>3, <2>4 DEF Submit
<1>3. CASE ApplySwitch
  BY <1>0, <1>3, ServiceAssumption DEF ApplySwitch
<1>4. ASSUME NEW w \in pending, DispatchNext(w)
      PROVE  /\ pending' \subseteq pending /\ running' \ running \subseteq pending
             /\ generation' = generation
  BY <1>4 DEF DispatchNext, Start, SkipDisallowed
<1>5. ASSUME NEW w \in running, ThreadStep(w) \/ Record(w) \/ Release(w)
      PROVE  pending' = pending /\ running' \subseteq running /\ generation' = generation
  BY <1>5, ThreadStepMoves DEF MoveTo, Record, Release, sessionVars
<1>6. QED
  BY <1>0, <1>1, <1>2, <1>3, <1>4, <1>5, NextCases, ServiceAssumption

(* A work that was dropped, superseded or settled never comes back: no     *)
(* step of any thread queues or warms it again (service.py 321-331,        *)
(* 385-401: no retry).  A slot that AbortFreesSlot says is given back is   *)
(* not taken again by the same warm.                                       *)
Over(w) == w.generation <= generation[w.session] /\ w \notin pending \union running

THEOREM EachWorkRunsOnce ==
    ASSUME NEW w \in Work
    PROVE  Spec => [](Over(w) => []Over(w))
<1>1. TypeOK /\ TypeOK' /\ [Next]_vars /\ Over(w) => Over(w)'
  <2> SUFFICES ASSUME TypeOK, TypeOK', [Next]_vars, Over(w)
               PROVE  Over(w)'
    OBVIOUS
  <2>1. CASE UNCHANGED vars
    BY <2>1 DEF Over, vars, serviceVars, sessionVars
  <2>2. CASE Next
    <3>0. BringsNothingBack
      BY <2>2, StepsBringNothingBack
    <3>1. w.session \in Sessions /\ w.generation \in 1..MaxGeneration
      BY DEF Work, Generations
    <3>2. generation[w.session] \in 0..MaxGeneration /\ generation'[w.session] \in 0..MaxGeneration
      BY <3>1 DEF TypeOK
    <3>3. w \notin pending'
      BY <3>0, <3>1, <3>2, ServiceAssumption DEF Over, BringsNothingBack
    <3>4. w \notin running'
      BY <3>0 DEF Over, BringsNothingBack
    <3>5. w.generation <= generation'[w.session]
      BY <3>0, <3>1, <3>2, ServiceAssumption DEF Over, BringsNothingBack
    <3>6. QED
      BY <3>3, <3>4, <3>5 DEF Over
  <2>3. QED
    BY <2>1, <2>2
<1>2. QED
  BY <1>1, TypeCorrect, PTL DEF Spec

(* The steps a warm thread has before it. *)
StepsToEnd == [connecting |-> 6, held |-> 5, reading |-> 4, answered |-> 3,
               ok |-> 2, failed |-> 2, aborted |-> 2, recorded |-> 1]

(* A warm ends after at most six steps of its own, and nothing else that   *)
(* happens takes it back or takes its abort away: posts, the switch and    *)
(* other warms may only cancel it (service.py 394-508).                    *)
WarmsCountDown ==
    [][\A w \in running :
          IF w \in running'
          THEN /\ StepsToEnd[stage'[w]] <= StepsToEnd[stage[w]]
               /\ WarmStep(w) => StepsToEnd[stage'[w]] < StepsToEnd[stage[w]]
               /\ w \in cancelled => w \in cancelled'
          ELSE stage[w] = "recorded"]_vars

Descends(w, next) == next \in Stages /\ StepsToEnd[next] < StepsToEnd[stage[w]]

LEMMA ThreadStepDescends ==
    ASSUME NEW w \in running, ThreadStep(w)
    PROVE  \E next : MoveTo(w, next) /\ Descends(w, next)
<1> USE DEF Descends, Stages, Outcomes, StepsToEnd
<1>1. CASE Connect(w)
  BY <1>1 DEF Connect, IOErrorOutcome
<1>2. CASE SendRequest(w)
  BY <1>2 DEF SendRequest
<1>3. CASE EngineAnswers(w)
  BY <1>3 DEF EngineAnswers
<1>4. CASE ReadFails(w)
  BY <1>4 DEF ReadFails, IOErrorOutcome
<1>5. CASE CheckAnswer(w)
  BY <1>5 DEF CheckAnswer
<1>6. QED
  BY <1>1, <1>2, <1>3, <1>4, <1>5 DEF ThreadStep

(* What a step does to a running warm. *)
Onward(w) ==
    IF w \in running'
    THEN /\ StepsToEnd[stage'[w]] <= StepsToEnd[stage[w]]
         /\ w \in cancelled => w \in cancelled'
    ELSE stage[w] = "recorded"

LEMMA StepsToEndType == ASSUME TypeOK, NEW w \in running PROVE StepsToEnd[stage[w]] \in 1..6
  BY DEF TypeOK, Stages, Outcomes, StepsToEnd

LEMMA StayingIsOnward ==
    ASSUME TypeOK, NEW w \in running, w \in running', stage'[w] = stage[w],
           w \in cancelled => w \in cancelled'
    PROVE  Onward(w)
<1>1. StepsToEnd[stage[w]] \in 1..6
  BY StepsToEndType
<1>2. QED
  BY <1>1 DEF Onward

LEMMA StepsGoOnward == ASSUME TypeOK, QueueInv, Next, NEW w \in running PROVE Onward(w)
<1>1. CASE SwitchStep \/ DispatchDone \/ ApplySwitch
  BY <1>1, StayingIsOnward DEF SwitchStep, DispatchDone, ApplySwitch, serviceVars, threadVars
<1>2. ASSUME NEW s \in Sessions, NEW h \in Hashes, NEW r \in Reasons, Submit(s, h, r)
      PROVE  Onward(w)
  BY <1>2, StayingIsOnward DEF Submit, threadVars
<1>3. ASSUME NEW v \in pending, DispatchNext(v)
      PROVE  Onward(w)
  <2>1. v # w
    BY DEF QueueInv, WorksAreUnique
  <2>2. w \in running' /\ stage'[w] = stage[w] /\ cancelled' = cancelled
    BY <1>3, <2>1 DEF DispatchNext, Start, SkipDisallowed
  <2>3. QED
    BY <2>2, StayingIsOnward
<1>4. ASSUME NEW v \in running, ThreadStep(v)
      PROVE  Onward(w)
  <2>1. PICK next : MoveTo(v, next) /\ Descends(v, next)
    BY <1>4, ThreadStepDescends
  <2>2. running' = running /\ cancelled' = cancelled /\ stage' = [stage EXCEPT ![v] = next]
    BY <2>1 DEF MoveTo
  <2>3. CASE v = w
    <3>1. stage'[w] = next
      BY <2>2, <2>3 DEF TypeOK
    <3>2. StepsToEnd[next] \in 1..6 /\ StepsToEnd[stage[w]] \in 1..6
      BY <2>1, StepsToEndType DEF Descends, Stages, Outcomes, StepsToEnd
    <3>3. QED
      BY <2>1, <2>2, <2>3, <3>1, <3>2 DEF Descends, Onward
  <2>4. CASE v # w
    BY <2>2, <2>4, StayingIsOnward DEF TypeOK
  <2>5. QED
    BY <2>3, <2>4
<1>5. ASSUME NEW v \in running, Record(v)
      PROVE  Onward(w)
  <2>1. running' = running /\ cancelled' = cancelled /\ stage' = [stage EXCEPT ![v] = "recorded"]
    BY <1>5 DEF Record
  <2>2. CASE v = w
    <3>1. stage'[w] = "recorded" /\ stage[w] \in Outcomes
      BY <1>5, <2>1, <2>2 DEF Record, TypeOK
    <3>2. QED
      BY <2>1, <3>1 DEF Onward, Outcomes, StepsToEnd
  <2>3. CASE v # w
    BY <2>1, <2>3, StayingIsOnward DEF TypeOK
  <2>4. QED
    BY <2>2, <2>3
<1>6. ASSUME NEW v \in running, Release(v)
      PROVE  Onward(w)
  <2>1. CASE v = w
    BY <1>6, <2>1 DEF Release, Onward
  <2>2. CASE v # w
    BY <1>6, <2>2, StayingIsOnward DEF Release
  <2>3. QED
    BY <2>1, <2>2
<1>7. QED
  BY <1>1, <1>2, <1>3, <1>4, <1>5, <1>6, NextCases

LEMMA OwnStepsDescend ==
    ASSUME TypeOK, NEW w \in running, w \in running', WarmStep(w)
    PROVE  StepsToEnd[stage'[w]] < StepsToEnd[stage[w]]
<1>1. CASE ThreadStep(w)
  <2>1. PICK next : MoveTo(w, next) /\ Descends(w, next)
    BY <1>1, ThreadStepDescends
  <2>2. stage'[w] = next
    BY <2>1 DEF MoveTo, TypeOK
  <2>3. QED
    BY <2>1, <2>2 DEF Descends
<1>2. CASE Record(w)
  <2>1. stage'[w] = "recorded" /\ stage[w] \in Outcomes
    BY <1>2 DEF Record, TypeOK
  <2>2. QED
    BY <2>1 DEF Outcomes, StepsToEnd
<1>3. CASE Release(w)
  BY <1>3 DEF Release
<1>4. QED
  BY <1>1, <1>2, <1>3 DEF WarmStep, ThreadStep

THEOREM EveryWarmEnds == Spec => WarmsCountDown
<1> DEFINE A == \A w \in running :
                   IF w \in running'
                   THEN /\ StepsToEnd[stage'[w]] <= StepsToEnd[stage[w]]
                        /\ WarmStep(w) => StepsToEnd[stage'[w]] < StepsToEnd[stage[w]]
                        /\ w \in cancelled => w \in cancelled'
                   ELSE stage[w] = "recorded"
<1>1. TypeOK /\ QueueInv /\ [Next]_vars => [A]_vars
  <2> SUFFICES ASSUME TypeOK, QueueInv, Next
               PROVE  A
    OBVIOUS
  <2> SUFFICES ASSUME NEW w \in running
               PROVE  IF w \in running'
                      THEN /\ StepsToEnd[stage'[w]] <= StepsToEnd[stage[w]]
                           /\ WarmStep(w) => StepsToEnd[stage'[w]] < StepsToEnd[stage[w]]
                           /\ w \in cancelled => w \in cancelled'
                      ELSE stage[w] = "recorded"
    OBVIOUS
  <2>1. Onward(w)
    BY StepsGoOnward
  <2>2. w \in running' /\ WarmStep(w) => StepsToEnd[stage'[w]] < StepsToEnd[stage[w]]
    BY OwnStepsDescend
  <2>3. QED
    BY <2>1, <2>2 DEF Onward
<1>2. QED
  BY <1>1, QueueInvariant, PTL DEF Spec, WarmsCountDown

(* "switchedOn false -> CatchupService stops dispatching": once a poll has *)
(* read the switch off and the admin leaves it off, no work is queued and  *)
(* no warm is started any more, whoever posts and whatever the engine      *)
(* does; what is there can only drain (switch.py 10, submit,               *)
(* _dispatch_locked).                                                      *)
OnlyDrains == pending' \subseteq pending /\ running' \subseteq running

LEMMA OffStartsNothing == Next /\ ~On => OnlyDrains
<1> SUFFICES ASSUME Next, ~On
             PROVE  OnlyDrains
  OBVIOUS
<1> USE DEF OnlyDrains
<1>1. CASE SwitchStep \/ DispatchDone \/ ApplySwitch
  BY <1>1 DEF SwitchStep, DispatchDone, ApplySwitch, serviceVars
<1>2. ASSUME NEW s \in Sessions, NEW h \in Hashes, NEW r \in Reasons, Submit(s, h, r)
      PROVE  OnlyDrains
  BY <1>2 DEF Submit, SubmitWhileOff, SubmitAlreadyWarm, SubmitQueued, Allows, AllowsAgent
<1>3. ASSUME NEW w \in pending, DispatchNext(w)
      PROVE  OnlyDrains
  BY <1>3 DEF DispatchNext, Start, SkipDisallowed, Allows, AllowsAgent
<1>4. ASSUME NEW w \in running, ThreadStep(w) \/ Record(w) \/ Release(w)
      PROVE  OnlyDrains
  BY <1>4, ThreadStepMoves DEF MoveTo, Record, Release
<1>5. QED
  BY <1>1, <1>2, <1>3, <1>4, NextCases

LEMMA OnlyAPollReadsTheSwitch == Next => PollSucceeds \/ UNCHANGED policyVars
<1> SUFFICES ASSUME Next
             PROVE  PollSucceeds \/ UNCHANGED policyVars
  OBVIOUS
<1>1. CASE SwitchStep
  BY <1>1 DEF SwitchStep, AdminSaves, PollFails, switchVars, policyVars
<1>2. ASSUME NEW w \in running, ThreadStep(w)
      PROVE  UNCHANGED policyVars
  BY <1>2, ThreadStepMoves DEF MoveTo, switchVars, policyVars
<1>3. ASSUME NEW w \in running, Record(w) \/ Release(w)
      PROVE  UNCHANGED policyVars
  BY <1>3 DEF Record, Release, switchVars, policyVars
<1>4. ASSUME NEW s \in Sessions, NEW h \in Hashes, NEW r \in Reasons, Submit(s, h, r)
      PROVE  UNCHANGED policyVars
  BY <1>4 DEF Submit, switchVars, policyVars
<1>5. ASSUME ApplySwitch \/ DispatchDone \/ \E w \in pending : DispatchNext(w)
      PROVE  UNCHANGED policyVars
  BY <1>5 DEF ApplySwitch, DispatchDone, DispatchNext, switchVars, policyVars
<1>6. QED
  BY <1>1, <1>2, <1>3, <1>4, <1>5, NextCases

THEOREM OffOnlyDrains ==
    Spec => [](switchedOn = "off" /\ [](~admin.on) => [][OnlyDrains]_vars)
<1>1. switchedOn = "off" /\ ~admin.on /\ [Next]_vars => (switchedOn = "off")'
  BY OnlyAPollReadsTheSwitch DEF PollSucceeds, policyVars, vars, switchVars
<1>2. switchedOn = "off" /\ [Next]_vars => [OnlyDrains]_vars
  BY OffStartsNothing DEF On
<1>3. QED
  BY <1>1, <1>2, PTL DEF Spec

(* A poll that eva-core answers leaves the sidecar allowing exactly the    *)
(* agents the settings allow, whatever it knew before, and nothing but     *)
(* other settings undoes it: the step PolicyConverges rests on             *)
(* (switch.py 184-235).                                                    *)
Agrees(s) == \A a \in Agents : AllowsAgent(a) <=> s.on /\ s.readable /\ a \notin s.disabled

PollsSettleThePolicy ==
    [][/\ PollSucceeds => Agrees(admin)'
       /\ Agrees(admin) /\ UNCHANGED admin => Agrees(admin)']_vars

THEOREM APollSettlesThePolicy == Spec => PollsSettleThePolicy
<1> DEFINE A == /\ PollSucceeds => Agrees(admin)'
                /\ Agrees(admin) /\ UNCHANGED admin => Agrees(admin)'
<1>1. PollSucceeds => Agrees(admin)'
  BY DEF PollSucceeds, Agrees, AllowsAgent, On, ParsedAgents
<1>2. UNCHANGED policyVars /\ Agrees(admin) /\ UNCHANGED admin => Agrees(admin)'
  BY DEF Agrees, AllowsAgent, On, policyVars
<1>3. Next => A
  BY <1>1, <1>2, OnlyAPollReadsTheSwitch
<1>4. QED
  BY <1>3, PTL DEF Spec, PollsSettleThePolicy

=============================================================================
