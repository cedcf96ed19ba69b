-------------------------- MODULE CatchupService --------------------------
(***************************************************************************)
(* The KV catch-up sidecar (catchup/service.py) running under the admin    *)
(* switch of CatchupSwitch.                                                *)
(*                                                                         *)
(* Three kinds of thread meet at one lock: HTTP handlers that submit       *)
(* snapshots, the switch's poller that applies a changed policy, and one   *)
(* warm thread per dispatched prefill.  Whoever takes a snapshot, applies  *)
(* the switch or gives back a slot ends in the dispatch loop, which asks   *)
(* the switch again for every work it pops while the poller may be         *)
(* changing it; so the loop is modelled pop by pop, with holder naming who *)
(* holds the lock meanwhile.  Every other critical section asks the switch *)
(* at most once per session and is one step.                               *)
(***************************************************************************)
EXTENDS CatchupSwitch, FiniteSets

CONSTANTS
    Sessions,          \* session ids
    AgentOf,           \* agent_of: the agent a session belongs to
    Background,        \* the sessions whose id ends in ":background"
    Hashes,            \* digests of rolled snapshots
    NoHash,            \* no snapshot yet
    Reasons,           \* reasons the harness posts with
    MaxInflight,       \* max_inflight
    MaxGeneration,     \* bound: generations per session
    Posts              \* bound: the generation after which a session posts no more

(* REASON_RANK: lower is dispatched first. *)
ReasonRank == [turn |-> 0, restore |-> 1, compact |-> 2, boot |-> 3, touch |-> 4]

ASSUME ServiceAssumption ==
    /\ AgentOf \in [Sessions -> Agents]
    /\ Background \subseteq Sessions
    /\ NoHash \notin Hashes
    /\ Reasons \subseteq DOMAIN ReasonRank
    /\ MaxInflight \in Nat \ {0}
    /\ MaxGeneration \in Nat
    /\ Posts \in [Sessions -> 0..MaxGeneration]

VARIABLES
    state,             \* SessionState.state
    currentHash,       \* SessionState.current_hash: the latest snapshot
    warmedHash,        \* SessionState.warmed_hash: the last snapshot warmed
    generation,        \* SessionState.generation
    pending,           \* _pending: works that wait for a slot
    ticket,            \* what a waiting work is dispatched by: reason and submitted_at
    running,           \* _running: works that own a warm thread
    inflight,          \* _inflight: the slots in use
    stage,             \* where the warm thread of each running work is
    cancelled,         \* the running works whose cancel event is set
    cut,               \* the running works whose engine socket was shut down
    clock,             \* logical time, for submitted_at
    holder             \* who holds the service lock inside the dispatch loop

sessionVars == <<state, currentHash, warmedHash, generation>>
threadVars == <<stage, cancelled, cut>>
serviceVars == <<sessionVars, pending, ticket, running, inflight, threadVars, clock, holder>>
vars == <<switchVars, serviceVars>>

Generations == 1..MaxGeneration

(* A work is the dict submit builds; session and generation name it.  The  *)
(* two entries only the queue looks at are its ticket.                     *)
Work == [session : Sessions, generation : Generations, hash : Hashes]
Ticket == [reason : Reasons, submittedAt : Nat]

SessionStates == {"idle", "warming", "warm", "stale", "error", "off"}

(* Stages of a warm thread: connecting; held (connected, socket noted, the *)
(* cancel event not looked at yet); reading (request sent, engine busy);   *)
(* answered (response read, cancel not looked at yet); the outcome, before *)
(* it is recorded: ok, failed or aborted; recorded (slot not given back).  *)
Outcomes == {"ok", "failed", "aborted"}
Stages == {"connecting", "held", "reading", "answered", "recorded"} \union Outcomes

TypeOK ==
    /\ SwitchTypeOK
    /\ state \in [Sessions -> SessionStates]
    /\ currentHash \in [Sessions -> Hashes \union {NoHash}]
    /\ warmedHash \in [Sessions -> Hashes \union {NoHash}]
    /\ generation \in [Sessions -> 0..MaxGeneration]
    /\ pending \in SUBSET Work
    /\ ticket \in [pending -> Ticket]
    /\ running \in SUBSET Work
    /\ inflight \in Nat
    /\ stage \in [running -> Stages]
    /\ cancelled \in SUBSET running
    /\ cut \in SUBSET cancelled
    /\ clock \in Nat
    /\ holder \in {"free", "caller", "poller"}

ServiceInit ==
    /\ state = [s \in Sessions |-> "idle"]
    /\ currentHash = [s \in Sessions |-> NoHash]
    /\ warmedHash = [s \in Sessions |-> NoHash]
    /\ generation = [s \in Sessions |-> 0]
    /\ pending = {}
    /\ ticket = [w \in {} |-> [reason |-> "turn", submittedAt |-> 0]]
    /\ running = {}
    /\ inflight = 0
    /\ stage = [w \in {} |-> "connecting"]
    /\ cancelled = {}
    /\ cut = {}
    /\ clock = 0
    /\ holder = "free"

Init == SwitchInit /\ ServiceInit

Allows(s) == AllowsAgent(AgentOf[s])

PendingOf(s) == {w \in pending : w.session = s}

----------------------------------------------------------------------------
(* submit: three outcomes once the snapshot is recorded. *)

(* Mutants of SubmitWhileOff: the queued work stays; the generation stays. *)
SubmitWhileOffKeepingQueue(s, h) ==
    /\ ~Allows(s)
    /\ currentHash' = [currentHash EXCEPT ![s] = h]
    /\ generation' = [generation EXCEPT ![s] = @ + 1]
    /\ state' = [state EXCEPT ![s] = "off"]
    /\ UNCHANGED <<warmedHash, pending, ticket, clock, holder>>

SubmitWhileOffKeepingGeneration(s, h) ==
    /\ ~Allows(s)
    /\ currentHash' = [currentHash EXCEPT ![s] = h]
    /\ pending' = pending \ PendingOf(s)
    /\ ticket' = [w \in pending' |-> ticket[w]]
    /\ state' = [state EXCEPT ![s] = "off"]
    /\ UNCHANGED <<warmedHash, generation, clock, holder>>

(* Switched off: nothing starts, a queued work is dropped, and the bumped  *)
(* generation discards the result of a warm still running.                 *)
SubmitWhileOff(s, h) ==
    /\ ~Allows(s)
    /\ currentHash' = [currentHash EXCEPT ![s] = h]
    /\ generation' = [generation EXCEPT ![s] = @ + 1]
    /\ pending' = pending \ PendingOf(s)
    /\ ticket' = [w \in pending' |-> ticket[w]]
    /\ state' = [state EXCEPT ![s] = "off"]
    /\ UNCHANGED <<warmedHash, clock, holder>>

(* Mutant: warm for any snapshot. *)
SubmitAlreadyWarmAnyHash(s, h) ==
    /\ Allows(s)
    /\ state[s] = "warm"
    /\ currentHash' = [currentHash EXCEPT ![s] = h]
    /\ UNCHANGED <<state, warmedHash, generation, pending, ticket, clock, holder>>

(* Already warm for this very snapshot. *)
SubmitAlreadyWarm(s, h) ==
    /\ Allows(s)
    /\ warmedHash[s] = h /\ state[s] = "warm"
    /\ currentHash' = [currentHash EXCEPT ![s] = h]
    /\ UNCHANGED <<state, warmedHash, generation, pending, ticket, clock, holder>>

(* Otherwise the work replaces the session's queued one, if any, and the   *)
(* handler goes on into the dispatch loop without giving up the lock.      *)
SubmitQueued(s, h, r) ==
    /\ Allows(s)
    /\ ~(warmedHash[s] = h /\ state[s] = "warm")
    /\ currentHash' = [currentHash EXCEPT ![s] = h]
    /\ state' = [state EXCEPT ![s] = "warming"]
    /\ generation' = [generation EXCEPT ![s] = @ + 1]
    /\ clock' = clock + 1
    /\ LET work == [session |-> s, generation |-> generation[s] + 1, hash |-> h]
       IN  /\ pending' = (pending \ PendingOf(s)) \union {work}
           /\ ticket' = [w \in pending' |-> IF w = work
                                            THEN [reason |-> r, submittedAt |-> clock']
                                            ELSE ticket[w]]
    /\ holder' = "caller"
    /\ UNCHANGED warmedHash

Submit(s, h, r) ==
    /\ holder = "free"
    /\ generation[s] < Posts[s]
    /\ \/ SubmitWhileOff(s, h)
       \/ SubmitAlreadyWarm(s, h)
       \/ SubmitQueued(s, h, r)
    /\ UNCHANGED <<switchVars, running, inflight, threadVars>>

----------------------------------------------------------------------------
(* _dispatch_locked *)

(* _priority: interactive before background, then by reason, then by age. *)
Before(v, w) ==
    LET lane(x) == IF x.session \in Background THEN 1 ELSE 0
        rank(x) == ReasonRank[ticket[x].reason]
    IN  \/ lane(v) < lane(w)
        \/ /\ lane(v) = lane(w)
           /\ \/ rank(v) < rank(w)
              \/ rank(v) = rank(w) /\ ticket[v].submittedAt < ticket[w].submittedAt

(* Mutant: one slot too many. *)
SlotFreeOffByOne == inflight <= MaxInflight

SlotFree == inflight < MaxInflight

Start(w) ==
    /\ Allows(w.session)
    /\ inflight' = inflight + 1
    /\ running' = running \union {w}
    /\ stage' = [v \in running' |-> IF v = w THEN "connecting" ELSE stage[v]]
    /\ UNCHANGED state

SkipDisallowed(w) ==
    /\ ~Allows(w.session)
    /\ state' = [state EXCEPT ![w.session] = "off"]
    /\ UNCHANGED <<inflight, running, stage>>

DispatchNext(w) ==
    /\ holder # "free"
    /\ SlotFree
    /\ w \in pending
    /\ \A v \in pending : ~Before(v, w)
    /\ pending' = pending \ {w}
    /\ ticket' = [v \in pending' |-> ticket[v]]
    /\ Start(w) \/ SkipDisallowed(w)
    /\ UNCHANGED <<switchVars, currentHash, warmedHash, generation, cancelled, cut, clock, holder>>

(* No slot or no work left: the lock is released.  The poller, if it is    *)
(* the one dispatching, has applied the switch.                            *)
DispatchDone ==
    /\ holder # "free"
    /\ ~SlotFree \/ pending = {}
    /\ holder' = "free"
    /\ poller' = IF holder = "poller" THEN "idle" ELSE poller
    /\ UNCHANGED <<adminVars, policyVars, sessionVars, pending, ticket, running, inflight, threadVars, clock>>

----------------------------------------------------------------------------
(* Mutants of ApplySwitch: dropped sessions are not marked off; the abort  *)
(* sets the cancel event and leaves the socket alone.                      *)
ApplySwitchWithoutMarkOff ==
    /\ poller = "notify"
    /\ holder = "free"
    /\ LET aborted == {w \in running \ cancelled : ~Allows(w.session)}
       IN  /\ pending' = {w \in pending : Allows(w.session)}
           /\ ticket' = [w \in pending' |-> ticket[w]]
           /\ cancelled' = cancelled \union aborted
           /\ cut' = cut \union {w \in aborted : stage[w] \in {"held", "reading"}}
    /\ holder' = "poller"
    /\ poller' = "applying"
    /\ UNCHANGED <<adminVars, policyVars, sessionVars, running, inflight, stage, clock>>

ApplySwitchWithoutShutdown ==
    /\ poller = "notify"
    /\ holder = "free"
    /\ LET dropped == {w \in pending : ~Allows(w.session)}
       IN  /\ pending' = pending \ dropped
           /\ ticket' = [w \in pending' |-> ticket[w]]
           /\ state' = [s \in Sessions |->
                          IF \E w \in dropped : w.session = s THEN "off" ELSE state[s]]
           /\ cancelled' = cancelled \union {w \in running : ~Allows(w.session)}
    /\ holder' = "poller"
    /\ poller' = "applying"
    /\ UNCHANGED <<adminVars, policyVars, currentHash, warmedHash, generation,
                   running, inflight, stage, cut, clock>>

(* apply_switch, called by the poller: drop the queued works and cancel    *)
(* the running ones the switch no longer allows, then dispatch.  abort()   *)
(* shuts down a socket only while the thread holds an open one.            *)
ApplySwitch ==
    /\ poller = "notify"
    /\ holder = "free"
    /\ LET dropped == {w \in pending : ~Allows(w.session)}
           aborted == {w \in running \ cancelled : ~Allows(w.session)}
       IN  /\ pending' = pending \ dropped
           /\ ticket' = [w \in pending' |-> ticket[w]]
           /\ state' = [s \in Sessions |->
                          IF \E w \in dropped : w.session = s THEN "off" ELSE state[s]]
           /\ cancelled' = cancelled \union aborted
           /\ cut' = cut \union {w \in aborted : stage[w] \in {"held", "reading"}}
    /\ holder' = "poller"
    /\ poller' = "applying"
    /\ UNCHANGED <<adminVars, policyVars, currentHash, warmedHash, generation,
                   running, inflight, stage, clock>>

----------------------------------------------------------------------------
(* The warm thread: _http_warmup, step by step between the points where    *)
(* an abort can land.  The engine decides how the request ends.            *)

MoveTo(w, next) ==
    /\ stage' = [stage EXCEPT ![w] = next]
    /\ UNCHANGED <<switchVars, sessionVars, pending, ticket, running, inflight, cancelled, cut, clock, holder>>

(* An I/O error ends the warm: as an abort if the cancel event is set. *)
IOErrorOutcome(w) == IF w \in cancelled THEN "aborted" ELSE "failed"

Connect(w) ==
    /\ stage[w] = "connecting"
    /\ MoveTo(w, "held") \/ MoveTo(w, IOErrorOutcome(w))

(* Mutant: the cancel event is not looked at once the socket is held. *)
SendRequestUnchecked(w) ==
    /\ stage[w] = "held"
    /\ MoveTo(w, "reading")

(* The socket is held: an abort that came earlier found nothing to shut    *)
(* down and is noticed here.                                               *)
SendRequest(w) ==
    /\ stage[w] = "held"
    /\ MoveTo(w, IF w \in cancelled THEN "aborted" ELSE "reading")

(* The engine answers, with any status. *)
EngineAnswers(w) ==
    /\ stage[w] = "reading"
    /\ MoveTo(w, "answered")

(* The connection breaks or times out. *)
ReadFails(w) ==
    /\ stage[w] = "reading"
    /\ MoveTo(w, IOErrorOutcome(w))

CheckAnswer(w) ==
    /\ stage[w] = "answered"
    /\ \/ w \in cancelled /\ MoveTo(w, "aborted")
       \/ w \notin cancelled /\ \E end \in {"ok", "failed"} : MoveTo(w, end)

(* _run_warmup_inner, under the lock: a superseded warm changes nothing;   *)
(* the latest one settles the session.                                     *)
Settled(w) ==
    CASE stage[w] = "aborted" -> "off"
      [] stage[w] = "failed" -> "error"
      [] stage[w] = "ok" /\ currentHash[w.session] # w.hash -> "stale"
      [] OTHER -> "warm"

(* Mutant: the generation is not compared. *)
RecordAnyGeneration(w) ==
    /\ holder = "free"
    /\ stage[w] \in Outcomes
    /\ state' = [state EXCEPT ![w.session] = Settled(w)]
    /\ warmedHash' = IF Settled(w) = "warm" THEN [warmedHash EXCEPT ![w.session] = w.hash] ELSE warmedHash
    /\ stage' = [stage EXCEPT ![w] = "recorded"]
    /\ UNCHANGED <<switchVars, currentHash, generation, pending, ticket, running, inflight, cancelled, cut, clock, holder>>

Record(w) ==
    /\ holder = "free"
    /\ stage[w] \in Outcomes
    /\ LET s == w.session IN
       IF generation[s] # w.generation
       THEN UNCHANGED <<state, warmedHash>>
       ELSE /\ state' = [state EXCEPT ![s] = Settled(w)]
            /\ warmedHash' = IF Settled(w) = "warm" THEN [warmedHash EXCEPT ![s] = w.hash] ELSE warmedHash
    /\ stage' = [stage EXCEPT ![w] = "recorded"]
    /\ UNCHANGED <<switchVars, currentHash, generation, pending, ticket, running, inflight, cancelled, cut, clock, holder>>

(* Mutants of Release: the cancel event outlives the work; nothing is      *)
(* dispatched; the slot is not given back.                                 *)
ReleaseKeepingCancel(w) ==
    /\ holder = "free"
    /\ stage[w] = "recorded"
    /\ running' = running \ {w}
    /\ inflight' = IF inflight > 0 THEN inflight - 1 ELSE 0
    /\ stage' = [v \in running' |-> stage[v]]
    /\ holder' = "caller"
    /\ UNCHANGED <<switchVars, sessionVars, pending, ticket, cancelled, cut, clock>>

ReleaseWithoutDispatch(w) ==
    /\ holder = "free"
    /\ stage[w] = "recorded"
    /\ running' = running \ {w}
    /\ inflight' = IF inflight > 0 THEN inflight - 1 ELSE 0
    /\ stage' = [v \in running' |-> stage[v]]
    /\ cancelled' = cancelled \ {w}
    /\ cut' = cut \ {w}
    /\ UNCHANGED <<switchVars, sessionVars, pending, ticket, clock, holder>>

ReleaseLeakingSlot(w) ==
    /\ holder = "free"
    /\ stage[w] = "recorded"
    /\ running' = running \ {w}
    /\ stage' = [v \in running' |-> stage[v]]
    /\ cancelled' = cancelled \ {w}
    /\ cut' = cut \ {w}
    /\ holder' = "caller"
    /\ UNCHANGED <<switchVars, sessionVars, pending, ticket, inflight, clock>>

(* _run_warmup: the thread takes the lock again, gives its slot back and   *)
(* dispatches.                                                             *)
Release(w) ==
    /\ holder = "free"
    /\ stage[w] = "recorded"
    /\ running' = running \ {w}
    /\ inflight' = IF inflight > 0 THEN inflight - 1 ELSE 0
    /\ stage' = [v \in running' |-> stage[v]]
    /\ cancelled' = cancelled \ {w}
    /\ cut' = cut \ {w}
    /\ holder' = "caller"
    /\ UNCHANGED <<switchVars, sessionVars, pending, ticket, clock>>

----------------------------------------------------------------------------
SwitchStep == (AdminSaves \/ PollFails \/ PollSucceeds) /\ UNCHANGED serviceVars

WarmStep(w) == \/ Connect(w) \/ SendRequest(w) \/ EngineAnswers(w) \/ ReadFails(w)
               \/ CheckAnswer(w) \/ Record(w) \/ Release(w)

Next ==
    \/ SwitchStep
    \/ \E s \in Sessions, h \in Hashes, r \in Reasons : Submit(s, h, r)
    \/ ApplySwitch
    \/ \E w \in pending : DispatchNext(w)
    \/ DispatchDone
    \/ \E w \in running : WarmStep(w)

Spec == Init /\ [][Next]_vars

----------------------------------------------------------------------------
(* Safety *)

(* Backpressure: the slot counter, the running set and the cap agree at    *)
(* every step, whoever dispatches and however a warm ends (service.py      *)
(* 216-222, 321-331, 394-401).                                             *)
SlotsAccounted ==
    /\ inflight = Cardinality(running)
    /\ inflight <= MaxInflight

(* Whenever the lock is free, either no work waits or every slot is taken: *)
(* no path through submit, a warm's end or a switch change leaves a slot   *)
(* idle beside a queued work (every caller of _dispatch_locked).           *)
NoIdleSlot == holder = "free" => pending = {} \/ inflight = MaxInflight

(* "Latest snapshot per session wins": a queued work is always for the     *)
(* session's current snapshot and generation, and no session has two       *)
(* (service.py 220, 385-390).                                              *)
QueueHoldsLatest ==
    \A w \in pending :
        /\ w.generation = generation[w.session]
        /\ w.hash = currentHash[w.session]
        /\ PendingOf(w.session) = {w}

(* A session shown as warming has a work for its current generation that   *)
(* is queued or still runs: no drop, abort, supersession or failure leaves *)
(* it orange with nothing that will ever settle it (submit, apply_switch,  *)
(* _dispatch_locked, _run_warmup_inner).                                   *)
WarmingHasWork ==
    \A s \in Sessions : state[s] = "warming" =>
        \E w \in pending \union {v \in running : stage[v] # "recorded"} :
            w.session = s /\ w.generation = generation[s]

(* "Green is hash match after a finished warmup": whatever superseded      *)
(* warms finish late, a session is warm only for the snapshot it has now   *)
(* (docs/CATCHUP.md 35, submit, _run_warmup_inner).                        *)
GreenIsCurrent ==
    \A s \in Sessions : state[s] = "warm" => warmedHash[s] = currentHash[s]

(* The generation check always fires before the hash check: the stale      *)
(* state (service.py 440-442) is never entered.                            *)
NeverStale == \A s \in Sessions : state[s] # "stale"

(* When the poller is back to waiting, nothing the switch forbids is       *)
(* queued or runs uncancelled, although snapshots were accepted and works  *)
(* started while it was changing its mind (apply_switch, submit).          *)
SwitchEnforced ==
    poller = "idle" =>
        /\ \A w \in pending : Allows(w.session)
        /\ \A w \in running : Allows(w.session) \/ w \in cancelled

(* No abort is lost between connect() and the request: a cancelled warm    *)
(* that waits for the engine has had its socket shut down (service.py      *)
(* 476-485).                                                               *)
AbortReachesSocket ==
    \A w \in cancelled : stage[w] = "reading" => w \in cut

----------------------------------------------------------------------------
(* What a session promises its harness, whatever the queue, the threads    *)
(* and the switch do underneath. *)
Ledger == INSTANCE WarmLedger WITH want <- currentHash, view <- state

(* Every step of the sidecar is a post, a settlement or no step at all of  *)
(* the ledger: green is lost the moment a different snapshot is recorded,  *)
(* an answer settles only a session that waits, and a session that was     *)
(* parked off or failed stays so until its harness posts again ("turning   *)
(* back ON replays nothing", service.py 247-250).                          *)
KeepsLedger == Ledger!LedgerSpec

----------------------------------------------------------------------------
(* Fairness and liveness *)

Named(s, g) == {w \in running : w.session = s /\ w.generation = g}

(* The threads of the sidecar are scheduled.  connect() ends within its    *)
(* timeout, and a read on a socket that was shut down returns.  Record,    *)
(* Release and ApplySwitch wait for a lock others keep taking, hence       *)
(* strong fairness: each holder keeps it for a bounded time.  eva-core     *)
(* answers a poll again and again.  Nothing is assumed of the engine.      *)
SchedulingFairness ==
    /\ SF_vars(PollSucceeds /\ UNCHANGED serviceVars)
    /\ SF_vars(ApplySwitch)
    /\ WF_vars(DispatchDone \/ \E w \in pending : DispatchNext(w))
    /\ \A s \in Sessions, g \in Generations :
          /\ WF_vars(\E w \in Named(s, g) :
                        Connect(w) \/ SendRequest(w) \/ CheckAnswer(w) \/ (w \in cut /\ ReadFails(w)))
          /\ SF_vars(\E w \in Named(s, g) : Record(w) \/ Release(w))

(* With timeout_s, a read the engine never answers ends as well. *)
EngineFairness ==
    \A s \in Sessions, g \in Generations :
        WF_vars(\E w \in Named(s, g) : EngineAnswers(w) \/ ReadFails(w))

AbortSpec == Spec /\ SchedulingFairness

(* A cancelled warm gives its slot back even if the engine never answers   *)
(* (service.py 178-189).                                                   *)
AbortFreesSlot ==
    \A s \in Sessions, g \in Generations :
        (\E w \in cancelled : w.session = s /\ w.generation = g)
            ~> ~(\E w \in running : w.session = s /\ w.generation = g)

(* "switchedOn false -> CatchupService stops dispatching and aborts        *)
(* in-flight warms": once the admin leaves the switch off, the queue and   *)
(* the slots empty for good, whatever the engine does (switch.py 10).      *)
OffDrains ==
    <>[](~admin.on) => <>[](pending = {} /\ running = {})

(* Once its harness stops posting (Posts), a warming session is            *)
(* settled, if the engine answers or its timeout ends the read: the queue  *)
(* drains by priority and no work is forgotten.                            *)
WarmingSettles ==
    EngineFairness => \A s \in Sessions : state[s] = "warming" ~> state[s] # "warming"

=============================================================================
