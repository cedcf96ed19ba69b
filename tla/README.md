# Formal model of spark-bench

spark-bench runs four DGX Sparks: model recipes, a lane switcher, recovery and download
scripts, benchmarks, and a sidecar that keeps a chat warm in the engine's prefix cache.
This directory holds TLA+ modules translated from that code, TLC runs that check them on
small instances, and TLAPS proofs of the properties that matter for every value of the
parameters.

`PROJECT.json` is the index: components, runs, the code lines each definition stands for
(`map`), one mutant of the code per checked property, the hazards the properties are
for, the findings and the theorems.

## 1. Inventory

| Component | State | Operations | Talks to |
|---|---|---|---|
| **catchup service** `catchup/service.py` | sessions (state, current and warmed hash, generation), queue `_pending`, running table `_running`, slot counter `_inflight`, one lock; per warm a cancel event and a held socket | `submit`, `apply_switch`, `_dispatch_locked`, `_run_warmup`, `_http_warmup`, `get`, `stats` | HTTP handlers, the switch (queries and a callback), the vLLM engine |
| **catchup window** `catchup/service.py` | none | `estimate_prompt_tokens`, `reserved_limit`, `apply_rolling_window`, the size check of `submit` | called by `submit` |
| **catchup switch** `catchup/switch.py` | last reported master switch, disabled agents, policy error, one lock | `poll_once`, `_loop`, `is_on`, `allows`, `parse_disabled_agents` | eva-core's health endpoint, listeners (`apply_switch`) |
| **catchup HTTP** `catchup/__main__.py` | none | POST snapshot, GET status, GET health | the service |
| **spark-lane** `ops/spark-lane` | none of its own: the containers and apps on four nodes | `up`, `down`, `rotate`, and read-only `stage`, `doctor`, `verify`, `status`, `lanes`, `logs`; checks over ssh | docker on the nodes, the lanes' start and stop scripts, the engines |
| **rotate-all, lane-up-runner** `ops/` | the lists of lanes that passed and failed; a mark file per kit | a rotation and a canary per lane, the end lane, a summary; one kit's bring-up chain | spark-lane |
| **recovery** `scripts/dsv41-recover.sh`, `launch-dsv41-vllm-tp4.sh`, `dsv41-world.service` | a flock, the four containers and their restart policies, the engine behind them | guards, node checks, stop head first, drain, launch rank by rank, wait, gate, arm | docker and nvidia-smi on the nodes, systemd, the engine |
| **engram staging** `artifacts/dsv41-vllm-20260910/patches/engram.py`, `model_state.py` | per rank a pinned hash buffer, a pinned and a GPU row buffer per layer; request tokens and counters on the GPU | hash, wait for the event, read rows from disk, stage, copy, forward, sample | vLLM's runner and scheduler, the CUDA stream, the disk table |
| **chunkdl** `models/*/chunkdl.py` | chunk files and assembled files on disk | download a chunk, assemble, verify the digest, resume | the model host |
| **memory guards** `models/comfy-engine-4x`, `models/comfy-creative-lane` | free memory, guard pid, engine containers | guard loop, up, evict | docker, the ComfyUI API |
| bench, patches, recipes, artifacts | none that outlives a run | measurements, text patches to third-party code | the engine |

Where it is hard:

* **catchup**: three kinds of threads and two locks. The poller stores a new policy
  under the switch's lock and applies it later under the service's lock; in between
  everyone already sees it. The dispatch loop asks the switch again for each work it
  pops. A warm passes through connect, request and read outside any lock, and an abort
  may land between any two of these. Warms of one session may overlap and end out of
  order. Correct means: slots exact and never idle beside waiting work, the latest
  snapshot wins, green never lies, nothing forbidden runs on, an abort is never lost, an
  unreadable policy never re-enables anyone, and no session stays orange for ever.
* **window**: two comparisons (`<=` and `>=`) and two reserves that must agree.
* **spark-lane**: no lock; checks over ssh whose failure reads as "free"; start scripts
  that outlive the command that started them; lanes that share ports, container names
  and even nodes; a fixed list of lanes to park. Correct means: no lane starts over
  another, and what a command reports about a lane is true.
* **recovery**: a wedged engine still lists its model; operators, a watchdog and the
  boot unit start the script at any time; every step but the first is a remote command
  whose failure may be ignored; nodes reboot and docker restarts ranks behind the
  script's back. Correct means: no run tears down another's boot, only a world that
  passed the gate comes back by itself, RECOVERED is said of one's own world, and run
  again and again the script ends with a world that answers.
* **engram staging**: the host runs ahead of the GPU and uses its pinned buffers again;
  the tokens it hashes are known to the GPU only. Correct means: each forward reads the
  rows of its own tokens, and a token's n-gram is that of its request, however the
  request was cut into chunks and whatever was drafted and rejected.
* **chunkdl**: crash and resume between any two file operations. Correct means: a file
  under its final name has the published digest, and a retry can succeed.
* **guards**: a sampling loop against allocation by others.

## 2. What is modelled

### Modules

| Module | Models | Uses |
|---|---|---|
| `CatchupSwitch` | `switch.py`: the cached policy and its poller; `admin` is eva-core (external) | |
| `CatchupService` | `service.py`: sessions, queue, slots, warm threads, under the switch | EXTENDS `CatchupSwitch` |
| `WarmLedger` | abstract specification: per session, the wanted snapshot and the shown view | instantiated by `CatchupService` |
| `RollingWindow` | what `submit` makes of a transcript before it takes the lock | |
| `MCCatchupService` | constants for TLC | EXTENDS `CatchupService` |
| `ChunkDownload` | `chunkdl.py`: one entry of the manifest, its download threads, kills and reruns; the hub is external | |
| `LaneRegistry` | `spark-lane`: the tables, nodes, ports, kinds of check, co-tenants, park list of every lane | |
| `LaneRotation` | `spark-lane`: `up`, `down` and `rotate` | EXTENDS `LaneRegistry` |
| `FullRotation` | `rotate-all.sh`: a caller of `spark-lane` beside the operator | EXTENDS `LaneRotation` |
| `MCFullRotation` | calls of the script for TLC | EXTENDS `FullRotation` |
| `EngineRecovery` | `dsv41-recover.sh` with the launcher and the boot unit; nodes, docker and the engine are external | |
| `EngramText` | the engine's requests, batches, tokens and n-grams | |
| `SerialForward` | abstract specification: the steps run one after another, each on the rows of its own n-grams | EXTENDS `EngramText`, instantiated by `EngramStaging` |
| `EngramStaging` | how the engine reads its n-gram rows from disk: hosts, streams, buffers and the hash | EXTENDS `EngramText` |
| `MCEngramStaging` | constants for TLC | EXTENDS `EngramStaging` |
| `CatchupServiceProofs`, `RollingWindowProofs`, `ChunkDownloadProofs`, `LaneRotationProofs`, `FullRotationProofs`, `EngineRecoveryProofs`, `EngramStagingProofs` | theorems | EXTENDS the module they are about, and `TLAPS` |
| `NatSetInduction` | induction on the naturals, for the proofs about recursive functions | EXTENDS `WellFoundedInduction`, `TLAPS` |

### How the model corresponds to the code

*Locks.* Every critical section that asks the switch at most once per session, and in
which the poller cannot run at the same time, is one action: `Submit`'s three branches,
`Record` (the locked part of `_run_warmup_inner`) and `ApplySwitch` (which runs on the
poller's own thread, so that the policy cannot change meanwhile). `_dispatch_locked`
asks the switch once for each work it pops while the poller may be storing a policy, so
it is a loop of `DispatchNext` steps ended by `DispatchDone`; `holder` says who holds
the service lock meanwhile (`"caller"`: an HTTP handler or an ending warm thread;
`"poller"`) and every other locked action waits for `"free"`.

*Poller.* `poller` is where `poll_once` is: `"idle"` (sleeping or fetching), `"notify"`
(policy stored, `apply_switch` not entered), `"applying"` (in its dispatch loop). A
failed poll changes only the failure count, which nothing but the log and GET reads:
`PollFails` is a stutter step, kept because liveness must survive any number of them.

*Works.* The dict `submit` builds is a record of session, generation and hash; what the
queue orders it by is kept beside it in `ticket`. `submitted_at` is a logical clock,
which gives equal times to nobody (with equal times `min` takes the first inserted,
which is the older). `pending` is a set with at most one work per session: that is what
`QueueHoldsLatest` checks, the code gets it from a dict.

*Warm threads.* `stage` follows `_http_warmup` between the points where an abort makes a
difference: `connecting`, `held` (socket noted, cancel not looked at), `reading`,
`answered`, the three outcomes, and `recorded` (between the locked section of
`_run_warmup_inner` and that of `_run_warmup`). `cancelled` is the cancel event, `cut`
that the socket was shut down. The engine may answer anything at any time, fail, or
(without `EngineFairness`) never answer.

*Window.* A message is whether it is a system message and how many characters the
estimate counts for it; `Window` is what `apply_rolling_window` returns and `Kept` its
loop, as a recursive function.

*Downloader.* `ChunkDownload` follows `process_file` for one manifest entry. The disk is
the state: each chunk file, the `.assembling` file and the file under its final name are
absent, empty, short (the wrong size), good or bad (the right size, with or without the
content the manifest describes); `Kill` stops the program between any two file
operations, and `Run` starts it again over what is left. The first disk is arbitrary. A
pass over the missing chunks is interleaved chunk by chunk (the thread pool). Threads
swallow write errors, so `BreakWrite` leaves a torn chunk that is tried again until the
thread gives it up (`GiveUp`); after the last round the code only looks whether chunks
are there and not empty, and `Recheck` is that test. The hub's branch may move between
any two reads (`HubMoves`). The other copy of the program,
`models/dsv41-exl3-3.5bpw-tf/chunkdl.py`, is the same code for another host. Left out:
the loop over entries (they share no file), log and back-off times, the hub client's own
`.incomplete` files (other names, removed only).

*Lanes.* spark-lane persists nothing: `running`, the lanes whose containers each node
runs, is the world, and one command at a time walks over it (`pc`, `lane`, `at`). Each
ssh to a node is a step of its own, since ranks may die and late scripts may act between
two of them. `up` is `Occupancy` (a probe per node; a refusal after all were asked), the
already-up check before or after it as the lane has it (`AsksFirst`, `AsksLater`),
`StartRank` node by node in any order, and `Wait`, the verdict. `down` is the lane's
stop script (`Stop`) or a stop per node (`StopNode`), or both, and `VerifyDown`, a probe
per node. `rotate` is `Census`, one reading of the target's nodes, then the downs of its
list, whose verdicts it ignores, then an `up`. What makes it hard is kept: a node that
does not answer looks free and stopped; a failed or interrupted up leaves what it
started; the wait of an up whose start script is *detached* ends once the port answers,
wherever the script is, and a script goes on when its up has ended (`late`,
`LateStart`); a probe names one GLM lane per node, the first of a list (`Occupants`),
whatever else is there (`Tenants`); the canary asks a port, not a container; `dsv41-tf4`
and its `-ablit` twin are one container, and so are `glm53-tp4` and its twin (`Kin`);
ranks die at any time. Assumed of what is not in `src/`: a stop script that ends well
has stopped all ranks; a start script run in the foreground ends with the ssh that runs
it (nothing in spark-lane enforces that: an ssh without a tty that is cut can leave its
remote command running, which would then act like a detached one); a container answers
on its port when all ranks run. Assumed of the operator: one command at a time
(spark-lane:102, "never with parallel ups"). Folded into `StartFails`: preflights,
memory floors, kit and image checks, time budgets. Left out: dead containers and their
cleanup, `studio-12` (its worker on spark1 belongs to the Studio app, which spark-lane
only asks) and the retired lanes (`glm53-vllm4`, `dsv41-tp3`, `dsv41-tp4`), and the
commands that only read.

*rotate-all.* `FullRotation` lets the script call `spark-lane` beside the operator, who
waits while a script runs. `script` is where it is, `queue` the lanes it still has to
rotate to, `call` its options (`--skip`, `--only`, the end lane). A lane that
`spark-lane` does not know is refused before anything is parked (`RotateToUnknown`); a
known one is a whole `rotate` of `LaneRotation`, whose verdict the script reads when the
command has ended (`Rotated`), followed by `verify`, a canary to whoever answers
(`Verify`). A failure does not end the loop. `Finish` goes to the end lane, in the list
or not; `Summary` prints. `report` is the last result, and is forgotten when the
operator goes on. The script takes no lock, and no two of it run at once in the model.
`lane-up-runner.sh` is not modelled: it brings up `dsv41-tp3` and `dsv41-tp4`, which
`spark-lane` refuses at once.

*Recovery.* `EngineRecovery` keeps, per rank, its container (none, exited, restarting,
booting, serving), whether its restart policy is armed, and whether it was there when a
gate passed. A run is an operator, a watchdog or the boot unit; `pc` is its step, in the
order of the script, and the launcher's steps follow in the same process. Loops that
change nodes (`Clear`, `Restop`, `LaunchRank`, `ArmAll`, `SweepWorkers`, `StopRank`) and
the two that fail on what they find there (`Drain`, `Preflight`) go node by node; the
reachability and clock loops only read and are a step each. Time is kept only as far as
the script reads it: `young` is the 15 minutes of the boot guard; the waits end when
what they wait for has happened or cannot happen any more. An armed rank that dies is
`restarting` until docker's back-off is over (`DockerRestarts`); it keeps its name and
docker's `State.Running`, but has no process on the GPU. `ComputeApps` is what
`nvidia-smi` may then list: nothing for such a container, anything for one that boots
and may or may not have its CUDA context; in the drain an ssh or nvidia-smi that fails
reads as nothing too. Hence neither check proves a node empty. `spared`, a history
variable that no step reads, keeps which of a run's two removals of the head failed.
`stale` is a rendezvous that lost a worker: the head neither serves nor dies, or serves
and answers nothing. Mishaps (a rank dies, a node goes down, the engine wedges, an rm, a
reading of the drain or a preflight fails, a run is killed or is told to `--restart`, a
ping takes too long on a busy world) may come anywhere, `MaxMishaps` of them; a rank
whose world is gone already may die as well, at no cost (`Bereft`). Left out: competing
containers, image and file checks (they are among the reasons a preflight fails),
prewarm, logs. Assumed: a boot that can complete does so within the 40 minutes of the
wait; operators or a watchdog run the script again and again.

*Engram staging.* A rank is a host thread and a stream that runs later, in order, what
the host issued; an operation is the hash with its copy to pinned memory, one layer's
copy to the GPU, or the forward. `issued` and `run` count them. The host waits only for
the event behind the hash: it begins step k + 1 while the forward of step k has yet to
run, and its stream may still be copying while it stages. Tokens are named by request,
position, the step that made them and whether they were a draft, so that a rejected
draft and the token that took its place differ; a row is named by its layer and n-gram.
The hash is `_hash_ids_kernel` position by position; the lookback window, `post_update`
and the query starts are those of the runner. The scheduler (external) may cut requests
into any batch; it schedules without waiting for a step to be run. Left out: preemption,
the V1 slot cache, the sequence-parallel path, profile and dummy runs, failing reads.

*Left out of catch-up.* `stats`, which only reads. Error texts, token counts, timestamps
shown by GET; `_confirm_abort` (logs only); `stop` (the process exits: nothing is
persisted, so a restart is `Init` again, with the switch never read, which by design
means on); collisions of SHA-256; failure to start a thread or timer; an empty vLLM URL
(every warm then fails at once, a configuration error).

## 3. Runs

| Run | Question | Instance |
|---|---|---|
| `service` | do queue, slots, states and aborts stay consistent under contention and overlap, is the ledger implemented? | 2 slots, 2 sessions of 2 agents (one background), 2 hashes, 3 snapshots of one session and 1 of the other, 2 policies |
| `liveness` | does the switch fail closed and bind under every policy, does switching off free everything with an engine that may hang, is every warming session settled with one that does not, does the policy converge? | 1 slot, 2 sessions, 2 snapshots and 1, 4 policies |
| `window` | is the rolled prompt the longest tail that fits? | up to 4 messages of 20, 100, 140 or 380 characters, context 105 |
| `download` | is what is named and reported verified, and does a rerun finish? | 2 chunks, 2 rounds, 2 kills, any files left by earlier runs, with and without a digest |
| `lanes` | does a checked lane ever start over another, and are the verdicts true, that of rotate-all.sh too? | 4 lanes, every failure, spark4 may not answer, a call of rotate-all.sh |
| `lanes_rotate` | does a rotation that nothing hinders end with its lane up, and rotate-all.sh with a PASS? | 5 lanes, six calls of rotate-all.sh, no failure |
| `recovery` | is no boot torn down, is only a gated world armed, does the world come back? | 3 ranks, an operator and the boot unit, 4 mishaps |
| `engram` | does each forward read its own rows, by the right n-grams, and is the whole a serial run of the steps? | 2 ranks, 2 layers, 3-grams, prompts of 3 and 1 tokens (the first an image token), 1 draft, batches of up to 3 tokens, 3 steps |
| `window_reserve`, `download_rerun`, `lanes_ssh`, `lanes_late` | statements of documents and comments that the code does not keep (section 6) | small |

**Bounds.** `Posts` (how many snapshots each session may post, at most `MaxGeneration`)
is the only cap on an unbounded counter of catch-up, and it also stops the logical
clock. Two snapshots give a superseded warm and its successor; three let two superseded
ones overlap with the current one in two slots, while another session waits. With
different agents a policy can allow one and forbid the other. Two hashes let a session
return to a snapshot that was warm before (hashes are symmetric in `service`, which
checks no liveness). Four policies differ for those agents: all on, all off, one agent
off, unreadable. `liveness` has them all; `service` has the first and the third, between
which one session is parked while the other goes on. In `window` the reserved limit is
95 tokens and the window's own limit 86: the sizes 20, 100, 140 and 380 give estimates
on, just below and above both. In `download` two chunks can be in different states and
written at once, two rounds give a last round and one before it, and the second kill
hits a run that resumes from the first. In `recovery` two workers are enough to be in
different states beside the head, with one more node to come in every loop; four mishaps
are enough for a head that dies and waits for docker, a removal of it that fails, a
reading of the drain that fails, and a worker's node that reboots or a run that is
killed over it. A run whose removals of the head both fail is among them. In `engram`
three steps let a host begin a step while the one before it has yet to run, over buffers
the first has filled; a step of one or two tokens leaves padding in a buffer of three;
the longer prompt takes up to three chunks, and with a draft and 3-grams the window
reaches over a rejected draft, a chunk's border, the request's start and the image
token. The theorems of section 5 hold without any of these bounds.

The lane tables are those of the code; a run only chooses which lanes are used. `lanes`
has one of each kind: `dsv41-tf4-ablit` (foreground start, script stop),
`comfy-studio-4x` (its designed co-tenant, unchecked, asked first, stopped per node),
`glm53-gr8` (asked after the occupancy check, swept, counts its ranks) and `studio-2`
(one node, invisible, detached). `lanes_rotate` has lanes of one, two, three and four
nodes from the park list, so that every pair conflicts in another set of nodes; two that
share spark2's port 8188 are not used together in `lanes` (section 6). The script is
called in `lanes_rotate` with its defaults, with the one lane of its list that
spark-lane knows and three end lanes, and with one lane only; in `lanes`, where
everything may fail, with every lane of its list skipped, so that the end lane is what
it rotates to; that each lane asked for has passed, over failures, is then left to
`PassIsOnEnd`.

**Deadlock.** The service never stops (the administrator and the poller always can
move), so TLC checks deadlock; so does the lane operator, and the recovery's. In
`engram` a deadlock would be a real one (a rank that never reaches its all-gather): the
only stop is `Drained`, every scheduled step run, so that TLC's deadlock check says that
the staging never gets stuck; no liveness property is run, since TLC would evaluate the
hash again for each ENABLED. The window runs stop at the longest transcript that cannot
be compacted into another, hence `CHECK_DEADLOCK FALSE`.

**Fairness.** `SchedulingFairness` says that the sidecar's own threads run. Locks are
`threading.Lock`, not FIFO, so a thread that waits for one needs strong fairness: each
holder keeps the lock for a bounded time (no I/O under it), and every other user of the
lock is away from it again and again. Successful polls are strongly fair: the poller
sleeps and polls for ever, and eva-core answers sometimes. `connect()` ends within
`CONNECT_TIMEOUT_S`; a read on a socket that was shut down returns. The engine owes
nothing in `AbortSpec`; `WarmingSettles` has `EngineFairness` as its premise: a read
ends, by an answer or by `timeout_s`. Nothing is assumed of the administrator or of the
harness, except that a session posts finitely often (`MaxGeneration`): with endless
posts of higher priority the code starves the others by intent. In `ChunkDownload` the
program runs and is run again, and a chunk that is fetched again and again is at last
written whole, which is what retries are for; kills are finite. In `LaneRotation` a
command takes its next step: every ssh, script and loop of it has a time limit; in
`FullRotation` (`FairRotationSpec`) a script that nobody stops does too. In
`EngineRecovery` a run takes its next step for the same reason, operators begin again,
nodes boot, docker restarts what it waits to restart, clocks get locked, heads age, and
an engine all of whose ranks are up gets ready; nothing is assumed of mishaps but that
they end.

## 4. Properties

Type invariants: one `TypeOK` per module (that of the service includes the switch's,
`SwitchTypeOK`; those of the window and of the staging, which also says that the
counters on the GPU never get ahead of the tokens, are only proved).

* `ReenabledOnlyByAdmin` — an agent comes back only by a well-formed policy that allows
  it; `PolicyConverges` — what the admin leaves standing is what the sidecar ends up
  applying.
* `SlotsAccounted`, `NoIdleSlot` — the slot counter is exact, capped, and no slot idles
  beside queued work once the lock is free.
* `QueueHoldsLatest`, `WarmingHasWork` — the queue has only current snapshots, and an
  orange session has a work that will settle it.
* `GreenIsCurrent`, `NeverStale`, `KeepsLedger` — green means the latest snapshot was
  warmed; the `stale` state is unreachable (the generation check always fires first);
  each step is a post, a settlement, a parking or nothing at all of `WarmLedger`, so a
  parked or failed session stays so until its harness posts.
* `SwitchEnforced`, `AbortReachesSocket` — an applied policy leaves nothing forbidden
  queued or running uncancelled; a cancelled warm that waits for the engine has had its
  socket cut.
* `AbortFreesSlot`, `OffDrains`, `WarmingSettles` — liveness.
* `LongestTailThatFits`, `RejectedOnlyIfIrreducible`, `AcceptedLeavesHeadroom` — the
  window against a reference definition.
* `NamedIsVerified`, `OkMeansVerified` — what gets its final name has the digest of the
  manifest (or, without one, the size), and so has what is reported as done;
  `VerifiedIsKept`, `BankedIsKept` — no step removes a verified file, or a good chunk
  before the digest of the whole was checked; `ResumesToDone` — liveness over kills.
* `NoClobber` — a lane that checks for tenants never starts on a node that answers and
  runs a lane it may not share with, even one the probe would not name;
  `PassMeansParked` — a down that passes has left nothing of its lane on any node that
  answers; `PassMeansUp` — an up that passes finds its lane on all nodes, at the moment
  it is printed; `RotateEndsUp` — liveness of a rotation. `DownReallyStops` (violated)
  is `PassMeansParked` for all nodes.
* `PassLeavesFleetOnEnd` — rotate-all.sh prints PASS only when each lane it was asked
  for has passed and the last word of spark-lane was that the end lane is up;
  `RotationPasses` — called for lanes that spark-lane knows, with nothing failing, it
  does print it.
* `BootUndisturbed` — while a run launches, no container it created is removed;
  `ArmedPassedGate` — docker restarts only what a passed gate left; `RecoveredIsOwnHead`
  — what a run gates, arms and reports is the head it started, unless both of its
  removals failed on an older one: failed rms and taken names are ignored and the checks
  between do not see every head; `WorldRecovers` — liveness over any four mishaps.
* `ForwardReadsItsRows` — when a rank's stream has come to a forward, each layer's
  buffer has the rows of that step's tokens, however far the host is ahead;
  `HistoryIsExact` — the hash, which sees chunks and a window, agrees with the n-gram
  read off the request itself; `PaddingStaysFinite` — uninitialised pinned memory never
  reaches the GPU; `KeepsSerialOrder` — hosts that run ahead, streams and reused buffers
  implement `SerialForward`: the ranks are all at the same step, each has the rows of
  exactly that step's n-grams when its forward runs, and a request grows by what the
  forward was given.

## 5. Proofs

`CatchupServiceProofs` proves, from `SwitchAssumption` and `ServiceAssumption` alone,
every safety property of `CatchupService` that the runs check, and the refinement of
`WarmLedger`.

The argument. `TypeOK` is inductive by itself. The others are not:

* The queue (`QueueInv`): that a queued work is the latest of its session needs that
  works are unique per session and generation (`WorksAreUnique`, because a generation is
  given once), and `GreenIsCurrent` and `NeverStale` need that the work of the current
  generation has the current hash and its session waits for it (`LatestWarmIsAwaited`):
  whoever changes the hash without a new generation is then seen to be the already-warm
  shortcut, which keeps it equal.
* The slots (`SlotInv`): the cardinality of `running` moves with the counter because a
  dispatched work was not running (`WorksAreUnique` again) and a released one was; the
  counter never goes below zero, so the `max(0, ...)` of the code never acts.
* The switch (`SwitchInv`): enforcement must be split by where the poller is. While it
  is about to apply a policy anything may be queued; while it dispatches, and
  afterwards, everything queued or running is allowed or cancelled. Dispatch and submit
  ask the switch under a policy that cannot change then.
* The sessions (`SessionInv`): a warming session has its work, queued or running.
* The ledger: each action maps to `Post`, `Settle`, `Park` or a stutter; the cases of
  `Record` and `DispatchNext` need `SessionInv`, since a work of the current generation
  settles only a session that still waits.

It also proves four facts that no run checks. A work that was dropped or superseded or
has settled is never queued or warmed again (`EachWorkRunsOnce`): it is over when it is
nowhere and its generation is given, and `Submit`, the only action that makes works,
gives a new generation. And the parts of the liveness properties that need no fairness:
a warm has at most six steps left, each step of its thread takes one off, and nobody
gives any back or takes its abort away (`EveryWarmEnds`); once a poll has read the
switch off, pending and running works only get fewer (`OffOnlyDrains`); an answered poll
leaves allowed what the admin allows, and only another edit by the admin undoes that
(`APollSettlesThePolicy`).

`RollingWindowProofs` proves the four invariants of the window for transcripts of any
length, messages of any size and any `max_context` (`RefusalIsFinal` for those above 10:
up to 10 the second reserve takes nothing off, and a prompt as large as the limit is
kept by the window and refused by `submit`). Both recursive functions are met by
induction, which is stated about sets (`SetInduction` of `NatSetInduction`: a set that
has 0 and, with n, n + 1, has all naturals), since no installed prover can instantiate
the library's theorem, whose hypothesis is an operator. `TotalsExist` and `RollsExist`
show that the functions the definitions choose exist; `KeptIsFirstStop` that the loop
ends at the first place where it may, and `RolledIsLongestTail` that this is the longest
tail that fits. Then what the window is for, over a growing transcript: a message it has
dropped never comes back (`WindowMovesForward`); a turn that still fits extends the
warmed prompt by its message and changes nothing before it
(`FittingTurnsExtendThePrompt`), which is what the prefix cache needs; and a transcript
of at most 81% of the context, nine tenths of nine tenths, is warmed whole
(`SmallTranscriptsAreWhole`), the true form of the statement `window_reserve` refutes.

`ChunkDownloadProofs` proves, for any chunks, rounds and kills, that the type is kept
(`DownloadTypeCorrect`), that what is reported is verified (`OkIsVerified`), that only
verified content gets the final name (`OnlyVerifiedIsNamed`), and that verified files
and banked chunks stay (`VerifiedStays`, `BankedStays`). Two theorems are about how a
run can fail. `WrongChunkIsForever`: once every chunk has its size and one of them is
wrong, no run ever ends well (`Trapped` is inductive: nothing fetches a chunk of the
right size, and only success removes chunks), for any number of reruns and whatever the
hub serves then; that is the finding of `download_rerun`. `GoodHubLeavesWork`: from no
wrong chunk and with a hub that serves the file, the digest never fails, and a run that
fails leaves a chunk to fetch.

`LaneRotationProofs` proves the type for any lanes and failures (`LaneTypeCorrect`), and
`NoClobber` and `PassMeansParked` (`NeverClobbers`, `ParkedIsStopped`) for every set of
lanes and every behaviour with `NoOrphanStarts`: no start script that outlived its
command starts a rank of a lane that a probe shows. That a probe names only one GLM lane
loses nothing under that premise, since no node that answers ever holds two (`OneGlm`).
The premise cannot be dropped, as `lanes_late` shows; that both speak of nodes that
answer cannot either, as `lanes_ssh` shows. It holds wherever the lanes in use that a
probe shows are started in the foreground (`Attended`, `AttendedHasNoOrphans`), as in
`lanes`. The argument is that nothing but the command itself adds containers, so that
what its probes have found stays true while it goes on asking node by node. The
invariant says that for the nodes asked so far: they hold nothing in the way of an up
(`ClearInv`), or none of the lane a down verifies (`StoppedInv`); deaths only help. An
up carries it over the already-up check to its starts, and the rank it starts itself
conflicts with nobody. The one lane that may start late, the Studio, is not seen by any
probe and has one node, so that no probe of it can be outdated. `PassMeansUp`
(`PassedIsUp`) needs `PortTellsLane` in addition: the head answers, and not both ComfyUI
lanes are in use. The canary asks a port; whoever answers on the head's has all its
ranks there, the occupancy check has found the head free of other lanes, and `ClearInv`
carries that to the verdict, so that the one that answers is the lane itself. What the
up has said stays true until the next command if no rank dies (`UpStaysUp`).
`EveryCommandEnds` is the step-by-step part of `RotateEndsUp`: the steps a command has
left (its place in the script, the nodes it has yet to ask or start, and ten steps for
every lane it has yet to park) are at most 102, each step of its own takes one off, and
nothing that dies or starts on the nodes gives any back.

`FullRotationProofs` proves for any calls that rotate-all.sh is to spark-lane one more
operator (`ScriptIsAnOperator`: `RotationSpec` implements `LaneRotation`'s `Spec`, hence
everything proved of that holds under it), from the invariant that the script rotates to
lanes in use only; and `PassLeavesFleetOnEnd` (`PassIsOnEnd`). `EndingInv` follows the
last rotation: its target, the lane it brings up and the lane spark-lane speaks of when
it speaks of an up are the end lane. `ReportInv` says that every lane asked for has
passed or is still queued, unless something has failed. By the refinement the lane
theorems hold under the script (`ScriptNeverClobbers`, `ScriptParksForReal`,
`ScriptPassesAreUp`); with `UpStaysUp`, PASS is then true of the fleet and not only of
what was said (`PassIsTrueOfTheFleet`, where nothing dies and no orphan starts
anything). `EveryScriptEnds` counts the script's own steps down from at most 15, around
commands that count down by themselves.

`EngineRecoveryProofs` proves the type, `ArmedPassedGate`, `RecoveredIsOwnHead` and
`BootUndisturbed` for any number of ranks, operators and mishaps. The lock is the core
(`OneRun`: a run that is not idle holds it, on a forge that is up). `OldHeadSpared`
strengthens `RecoveredIsOwnHead` backwards through the script, and owes nothing to the
checks for GPU processes: a head that is there after a pass of removals is one that pass
failed on or the run launched, since nothing else makes a container of that name while
the run holds the lock, and docker restarts only what is there. `StaleBreaks` says that
a head that lost a worker is not behind a world that answers, which `CalmRunConverges`
needs. `AllGated` says that from the gate on every container there is was there when the
gate passed: that makes arming safe, and a container made later is made by the run with
the lock. Two theorems are the step-by-step part of `WorldRecovers`. `EveryRunEnds`: a
run has at most 17 steps left per rank, each of its own takes one off, and no other run,
fault or reboot gives any back. `CalmRunConverges`: a run that begins to remove the old
world with all nodes up and meets no further mishap does not fail: it goes on until the
world answers, and later runs leave that world alone. Its invariant (`Recovering`) says,
stage by stage, which nodes are already empty or already have this run's container,
which is what makes the drain and the preflight find nothing.

`EngramStagingProofs` proves the type, `ForwardReadsItsRows`, `HistoryIsExact` and
`PaddingStaysFinite` for any ranks, requests, layers and batches. The host is at most
one step ahead of its stream, and while it is, it waits for the event: so nothing
overwrites a pinned buffer whose copy is still to run. The rows of a step are then
followed along their way: `hashHost` from the hash to the read, `rows` while the host
stages, `rowsHost` from the staging of a layer to its copy, `stagedRows` from there to
the forward; and the request data the hash depends on changes only in a forward, which
all ranks run together. `HistoryIsExact` is about the hash alone: `QueryStart` grows by
each chunk's length (`QueryStartSteps`, by induction), so that the upper bound finds the
chunk a token is in (`RowIsChunk`); the token before it by some shift is then in the
same chunk, or in the lookback window, which is deep enough (`SourceIsPast`).
`TokenAssumption` says that the window's -1 is no token id.

It proves as well that the staging implements `SerialForward` (`ImplementsSerial`). The
refinement mapping has no history variable: `done` is the number of forwards a rank has
run, which is the same for all ranks (`RanksStayInStep`: only the forward's all-gathers
hold them together), and `presented` is what the rank's buffers hold when its stream has
come to a forward, and nothing before. The step that brings a stream to its forward is
then `Present`, by `ForwardReadsItsRows` and `HistoryIsExact` at that moment; the
forward is `Forward`; everything a host does is a stutter, since it touches no buffer of
a rank that is at its forward. `StagingAssumption` says that there is a rank; without
one no step would ever run.

Out of the prover's reach and left to TLC: liveness, since fairness is about ENABLED.
Every safety property that a passing run checks is proved, both refinements among them,
and of the liveness properties the part that is about single steps:

| Property (TLC) | Proved for all constants |
|---|---|
| `PolicyConverges` | `APollSettlesThePolicy` |
| `AbortFreesSlot`, `WarmingSettles` | `EveryWarmEnds`, with `NoAbortIsLost` and `NoWarmIsLost` |
| `OffDrains` | `OffOnlyDrains`, `EveryWarmEnds` |
| `ResumesToDone` | `GoodHubLeavesWork`, `BankedStays` |
| `RotateEndsUp` | `EveryCommandEnds` |
| `RotationPasses` | `EveryScriptEnds` |
| `WorldRecovers` | `EveryRunEnds`, `CalmRunConverges` |

What is left of each is that a step which is possible is taken, and for `RotateEndsUp`
and `RotationPasses` that with no failure the end is the good one.

## 6. Where code and documents disagree

Shown by runs:

* `window_reserve`: the tenth is reserved twice (`service.py:343` and `114`), so a
  transcript between 81% and 90% of the context loses its oldest messages.
* `download_rerun`: the digest mismatch asks for another run (`chunkdl.py:149`), but it
  keeps the chunks; complete in size and wrong in content, they are never fetched again.
* `lanes_ssh`: a down "verifies it really stopped" (`spark-lane:17`), but a node that
  does not answer counts as stopped.
* `lanes_late`: an up refuses if a node is taken (`spark-lane:16`), but the detached
  start script of an up that gave up starts its ranks without asking again.

Seen while modelling, without a run (each is plain from the lines):

* `docs/PROTOCOL.md:48` says a newer snapshot replaces an in-flight warmup. It replaces
  a queued one only; with two slots the second warm runs beside the first.
* `docs/PROTOCOL.md:92` says grey means no snapshot. A snapshot posted while the switch
  is off reads grey when it is on again. (The same table's orange `stale` line, 94, is
  never shown: `NeverStale`.)
* `service.py:305` says health is never green while off; `stats` reads the switch twice
  (302, 312) and a poll may fall in between.
* rotate's fixed list (`spark-lane:3195`) misses `dsv41-tf3`, `dsv41-tf2`,
  `glm53-tp4-ablit` and `glm53-gr8`, although it is to "park whatever conflicts" (19):
  the up that follows then refuses. It does park co-tenants that were designed to stay
  (698-702).
* `comfy-engine`'s already-up check (762-767) asks port 8188 on spark2, where
  `comfy-studio-4x` answers as well: its up then passes without a container of its own
  (`PassMeansUp` is checked where not both are used).
* `studio-2` is an app and no container: `node_occupants` (349-353) does not see it, so
  lanes start over it.
* `dsv41-world.service:16-18` and `docs/dsv41-vllm-tp4.md:226-246` say a rebooted worker
  brings the world back by itself. The unit runs at forge's boot only; after a worker's
  reboot nothing starts the script, and after forge's the head that docker restarts is
  young, so that the unit's run leaves it alone (`dsv41-recover.sh:90-97`) although its
  rendezvous is dead. `WorldRecovers` needs an operator or a watchdog.
* RECOVERED (`dsv41-recover.sh:189`) may be said of an old head: when both of a run's
  `docker rm -f` fail on forge (125, and 68 of the launcher, each ignored) while docker
  waits to restart that head, or it is early in its boot, neither the drain (135) nor
  the preflight (79) sees it, the `docker run` of the new head fails on the taken name,
  which nobody looks at, and the old head joins the new workers, is gated, armed and
  reported. `RecoveredIsOwnHead` says that nothing less leads there.
* A head that crashes and restarts every few minutes is young for ever: each recovery
  exits 0 (`dsv41-recover.sh:94`) and nothing ends the loop.
* A launcher started by hand takes no lock, and there is no head for the guard to see
  while it starts the workers (`launch-dsv41-vllm-tp4.sh:182-189`).
* three of the four lanes of `rotate-all.sh:41` (`creative-engine`, `dsv41-tp3`,
  `dsv41-tp4`) and its default end lane (28) are lanes that `spark-lane` no longer knows
  (`lane_nodes`, 512-530): "EVERY lane" (4) is `glm53-tp3`, and a run with its defaults
  never passes.
* `stage` names `dsv41-tp3` and `dsv41-tp4` as the next lanes, which `up` does not know.

## 7. Not modelled

The map covers a small share of the lines under `src/`: most of them are copies of
packages installed on the nodes (vLLM, FlashInfer and others under `artifacts/`), kept
as a record of what a measurement ran on, and kernels, recipes and benchmark clients.
They are not this project's program, and a model of them would not be checked against
anything this repository promises. Of them, `EngramStaging` takes what the repository's
own patch relies on. Of the repository's own code, these parts have no module:

* **HTTP front end, tests, start script of catch-up**: stateless callers of actions that
  are modelled.
* **memory guards** (`models/comfy-engine-4x`, `models/comfy-creative-lane`): a loop
  that reads free memory each second and kills a container. What can go wrong is a
  matter of a few lines each: an `up.sh` that times out (52-56) leaves a container
  without a guard, and the next `up` finds it already up (`spark-lane:876-889`) and
  passes without one, although 927 and 937 say "containers + guards up"; a guard ends
  when `docker ps` answers nothing or `docker kill` fails (`h3_guard.sh:10-16`);
  starting a guard may find an old one that is about to exit.
* **the other recovery scripts** (`dsv41-recover-sglang.sh`): another launcher, and a
  busy wait that gives up and restarts a world that still works (41).
* **lane profiles, image sync, environment builders, bench, recipes, patches** other
  than the n-gram staging: one-shot generators, measurements, functions of their
  arguments.

Hazards that are real but that no module reaches, besides those `PROJECT.json` lists:
`Thread.start` may fail after the slot was taken (`service.py:331`); a listener's
exception is logged and its change never applied (`switch.py:230`); `stats` reads the
switch twice (`service.py:302`); `comfy-studio-4x` starts beside any tenant that leaves
its memory floor free (`spark-lane:893`); a download killed while it cleans up leaves
chunks for ever (`chunkdl.py:153`), and two downloads of one file at a time share their
chunks (137).

## 8. Plan

Done: the catch-up sidecar with its ledger, window and proofs; the downloader; lanes and
rotations with rotate-all.sh; recovery; the engram staging and its refinement of
`SerialForward`; proofs of every safety property and of the step-by-step parts of
liveness. Left, in this order:

1. `studio-12`, whose worker the Studio app itself starts and stops.
2. `MemoryGuard`: guard loop against up and evict, with `spark-lane`'s already-up check.
3. `SplitDownload` (`models/minimax-m3.1-flash/m31_*`): shards fetched by several nodes.
4. the benchmark's tap and its counters (`bench/harness/tap.py`), the only client with
   threads that share state.
5. More about catch-up: a refused snapshot and the colour the session keeps;
   thread-start failure.
