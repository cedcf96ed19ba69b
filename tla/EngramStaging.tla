--------------------------- MODULE EngramStaging ---------------------------
(***************************************************************************)
(* How the DeepSeek engine reads its n-gram ("engram") rows from disk:     *)
(* EngramDiskStager and the hash it runs (patches/engram.py), called once  *)
(* per step by DeepseekV41ModelState (patches/model_state.py) under the    *)
(* model runner of vLLM.                                                   *)
(*                                                                         *)
(* Every tensor-parallel rank is a host thread that issues operations and  *)
(* a GPU stream that runs them later, in issue order.  For each step the   *)
(* host issues the hash of the step's tokens with its copy to pinned       *)
(* memory, waits for one event, reads the rows of every layer from disk,   *)
(* passes them through one pinned buffer per layer, issues their copies to *)
(* the GPU and then the forward, and is in the next step while that        *)
(* forward has yet to run.  The forward gathers rows from all ranks, so it *)
(* runs on all of them together.                                           *)
(*                                                                         *)
(* Every disk read succeeds and no request is preempted.                   *)
(***************************************************************************)
EXTENDS EngramText, FiniteSets

CONSTANTS
    MaxDrafts,         \* draft tokens verified per request and step
    NoToken,           \* -1 in the lookback window
    MaxPrompt          \* bound: tokens of a prompt

ASSUME StagingAssumption ==
    /\ Ranks # {}
    /\ IsFiniteSet(Requests)
    /\ PromptLength \in [Requests -> 1..MaxPrompt]
    /\ NumLayers \in Nat \ {0}
    /\ MaxNgram \in Nat \ {0, 1}
    /\ MaxTokens \in Nat
    /\ MaxDrafts \in Nat
    /\ MaxPrompt \in Nat
    /\ MaxSteps \in Nat

VARIABLES
    prefilled,         \* prompt tokens scheduled so far, per request
    host,              \* each rank's host thread: "idle", "waiting" (for the event) or "staging"
    issued,            \* the last step a host began, and how many of its operations it issued
    run,               \* the last step a stream began, and how many of its operations it ran
    hashHost,          \* hash_host: pinned, an entry per token
    rows,              \* what the host last read from disk, per layer and token
    rowsHost,          \* rows_host: pinned, a buffer per layer
    stagedRows         \* staged_rows: on the GPU, a buffer per layer

requestVars == <<text, computed>>
bufferVars == <<hashHost, rows, rowsHost, stagedRows>>
vars == <<plan, prefilled, requestVars, host, issued, run, bufferVars>>

Slots == 0..(MaxTokens - 1)

(* A step's operations, numbered as they are issued: 1 is the hash, 1 + l  *)
(* the copy of layer l's rows to the GPU, the last one the forward.  A     *)
(* stream is the part of the program that is issued and has not run.       *)
OpsPerStep == NumLayers + 2
Progress == [step : 0..MaxSteps, ops : 1..OpsPerStep]
NextStep(progress) == [step |-> progress.step + 1, ops |-> 1]
NextOp(progress) == [step |-> progress.step, ops |-> progress.ops + 1]

----------------------------------------------------------------------------
(* Batches *)

ASSUME TokenAssumption == NoToken \notin Token

Batches == UNION {[1..m -> Chunk] : m \in 1..Cardinality(Requests)}

(* query_start_loc: where each chunk of the flattened batch ends. *)
QueryStart(b) ==
    LET start[j \in 0..Len(b)] == IF j = 0 THEN 0 ELSE start[j - 1] + b[j].length
    IN  start

NumTokens(b) == QueryStart(b)[Len(b)]

(* The n of stage. *)
Staged(b) == IF NumTokens(b) < MaxTokens THEN NumTokens(b) ELSE MaxTokens

----------------------------------------------------------------------------
(* The hash *)

(* The chunk token t is in: the upper bound of t in query_start_loc[1:].   *)
RowOf(b, start, t) == 1 + Cardinality({j \in 1..(Len(b) - 1) : start[j] <= t})

(* _gather_lookback_kernel: the tokens just before the chunk, newest first. *)
Lookback(q, col) == IF computed[q] - 1 - col >= 0 THEN text[q][computed[q] - col] ELSE NoToken

LookbackDepth == MaxNgram - 1

(* Mutant: whatever precedes a token in the batch is taken for its past. *)
SourceAcrossChunks(q, inputIds, t, position, shift) ==
    LET col == computed[q] - 1 - (position - shift)
    IN  IF t - shift >= 0 THEN inputIds[t - shift]
        ELSE IF col < LookbackDepth /\ Lookback(q, col) # NoToken THEN Lookback(q, col)
        ELSE Pad

(* The token shift places before token t: from the batch if the chunk      *)
(* reaches back that far, or else from the lookback window.                *)
Source(q, inputIds, t, position, shift) ==
    LET lookback == position - shift
        col == computed[q] - 1 - lookback
    IN  IF lookback >= computed[q] THEN inputIds[t - shift]
        ELSE IF col < LookbackDepth /\ Lookback(q, col) # NoToken THEN Lookback(q, col)
        ELSE Pad

(* _hash_ids_kernel: the n-gram each token of the batch is looked up by.   *)
(* What lies before the start of the request, or at or before an image     *)
(* token, is blocked.                                                      *)
Hashes(b, k) ==
    LET start == QueryStart(b)
        tokens == 0..(NumTokens(b) - 1)
        row == [t \in tokens |-> RowOf(b, start, t)]
        request == [t \in tokens |-> b[row[t]].request]
        position == [t \in tokens |-> computed[request[t]] + t - start[row[t] - 1]]
        inputIds == [t \in tokens |-> TokenAt(request[t], position[t], k)]
        source == [t \in tokens |-> [shift \in Shifts |->
                      Source(request[t], inputIds, t, position[t], shift)]]
        blocked(t, shift) == position[t] - shift < 0 \/ Dead(source[t][shift])
    IN  [t \in tokens |-> [shift \in Shifts |->
            IF \E s \in 0..shift : blocked(t, s) THEN Pad ELSE source[t][shift]]]

----------------------------------------------------------------------------
(* A row carries the layer it belongs to; zeros belong to none, and        *)
(* uninitialized memory (torch.empty) is no row at all.                    *)
Zero == <<0, Pad>>
Uninitialized == <<-1, Pad>>

(* A request may start behind tokens the prefix cache already holds. *)
Init ==
    /\ plan = <<>>
    /\ computed \in {c \in [Requests -> 0..MaxPrompt] : \A q \in Requests : c[q] < PromptLength[q]}
    /\ prefilled = computed
    /\ text = [q \in Requests |-> [p \in 1..PromptLength[q] |-> TokenOf(q, p - 1, 0, FALSE)]]
    /\ host = [r \in Ranks |-> "idle"]
    /\ issued = [r \in Ranks |-> [step |-> 0, ops |-> OpsPerStep]]
    /\ run = [r \in Ranks |-> [step |-> 0, ops |-> OpsPerStep]]
    /\ hashHost = [r \in Ranks |-> [t \in Slots |-> Pad]]
    /\ rows = [r \in Ranks |-> [l \in Layers |-> <<>>]]
    /\ rowsHost = [r \in Ranks |-> [l \in Layers |-> [t \in Slots |-> Uninitialized]]]
    /\ stagedRows = [r \in Ranks |-> [l \in Layers |-> [t \in Slots |-> Zero]]]

----------------------------------------------------------------------------
(* The scheduler *)

ChunksOf(b, q) == {c \in {b[j] : j \in 1..Len(b)} : c.request = q}

(* A chunk fits what is left of the prompt, or is a token and drafts.      *)
Schedulable(b) ==
    /\ \A i, j \in 1..Len(b) : b[i].request = b[j].request => i = j
    /\ NumTokens(b) \in 1..MaxTokens
    /\ \A j \in 1..Len(b) :
          LET left == PromptLength[b[j].request] - prefilled[b[j].request]
          IN  b[j].length <= IF left > 0 THEN left ELSE 1 + MaxDrafts

(* It waits for no step to be run; it is up to two batches ahead of the    *)
(* slowest host.                                                           *)
Schedule(b) ==
    /\ Len(plan) < MaxSteps
    /\ \A r \in Ranks : Len(plan) <= issued[r].step + 1
    /\ Schedulable(b)
    /\ plan' = Append(plan, b)
    /\ prefilled' = [q \in Requests |->
                       IF prefilled[q] < PromptLength[q] /\ ChunksOf(b, q) # {}
                       THEN prefilled[q] + (CHOOSE c \in ChunksOf(b, q) : TRUE).length
                       ELSE prefilled[q]]
    /\ UNCHANGED <<requestVars, host, issued, run, bufferVars>>

----------------------------------------------------------------------------
(* The host thread *)

(* The next batch is prepared: its hash is issued, and the event behind it. *)
Begin(r) ==
    /\ host[r] = "idle"
    /\ issued[r].step < Len(plan)
    /\ issued' = [issued EXCEPT ![r] = NextStep(@)]
    /\ host' = [host EXCEPT ![r] = "waiting"]
    /\ UNCHANGED <<plan, prefilled, requestVars, run, bufferVars>>

(* Mutant: the event is recorded in front of the hash. *)
HashesReadyEarly(r) ==
    \/ run[r].step = issued[r].step
    \/ run[r] = [step |-> issued[r].step - 1, ops |-> OpsPerStep]

(* hashes_ready: this step's hash and its copy have run. *)
HashesReady(r) == run[r].step = issued[r].step

(* hashes_ready.synchronize, then gather_dequant_many for all layers.      *)
ReadRows(r) ==
    /\ host[r] = "waiting"
    /\ HashesReady(r)
    /\ LET n == Staged(plan[issued[r].step])
       IN  rows' = [rows EXCEPT ![r] =
                      [l \in Layers |-> [t \in 0..(n - 1) |-> <<l, hashHost[r][t]>>]]]
    /\ host' = [host EXCEPT ![r] = "staging"]
    /\ UNCHANGED <<plan, prefilled, requestVars, issued, run, hashHost, rowsHost, stagedRows>>

(* buffer[:n] = new *)
Overwritten(buffer, new) == [t \in Slots |-> IF t \in DOMAIN new THEN new[t] ELSE buffer[t]]

(* One layer: its rows go to the pinned buffer, the copy to the GPU is     *)
(* issued.                                                                 *)
StageLayer(r) ==
    /\ host[r] = "staging"
    /\ issued[r].ops \in Layers
    /\ LET l == issued[r].ops
       IN  rowsHost' = [rowsHost EXCEPT ![r][l] = Overwritten(@, rows[r][l])]
    /\ issued' = [issued EXCEPT ![r] = NextOp(@)]
    /\ UNCHANGED <<plan, prefilled, requestVars, host, run, hashHost, rows, stagedRows>>

(* The forward is issued; the host is free for the next batch. *)
Launch(r) ==
    /\ host[r] = "staging"
    /\ issued[r].ops = NumLayers + 1
    /\ issued' = [issued EXCEPT ![r] = NextOp(@)]
    /\ host' = [host EXCEPT ![r] = "idle"]
    /\ UNCHANGED <<plan, prefilled, requestVars, run, bufferVars>>

----------------------------------------------------------------------------
(* The GPU stream *)

IssuedOf(r, k) ==
    IF k < issued[r].step THEN OpsPerStep ELSE IF k = issued[r].step THEN issued[r].ops ELSE 0

RunHash(r) ==
    /\ run[r].ops = OpsPerStep
    /\ IssuedOf(r, run[r].step + 1) >= 1
    /\ LET k == run[r].step + 1
       IN  hashHost' = [hashHost EXCEPT ![r] = Overwritten(@, Hashes(plan[k], k))]
    /\ run' = [run EXCEPT ![r] = NextStep(@)]
    /\ UNCHANGED <<plan, prefilled, requestVars, host, issued, rows, rowsHost, stagedRows>>

(* Mutant: the whole pinned buffer is copied. *)
RunCopyWhole(r) ==
    /\ run[r].ops \in Layers
    /\ IssuedOf(r, run[r].step) > run[r].ops
    /\ LET l == run[r].ops
       IN  stagedRows' = [stagedRows EXCEPT ![r][l] = rowsHost[r][l]]
    /\ run' = [run EXCEPT ![r] = NextOp(@)]
    /\ UNCHANGED <<plan, prefilled, requestVars, host, issued, hashHost, rows, rowsHost>>

(* staged_rows[:n].copy_(rows_host[:n]) of one layer. *)
RunCopy(r) ==
    /\ run[r].ops \in Layers
    /\ IssuedOf(r, run[r].step) > run[r].ops
    /\ LET l == run[r].ops
           n == Staged(plan[run[r].step])
       IN  stagedRows' = [stagedRows EXCEPT ![r][l] =
                            Overwritten(@, [t \in 0..(n - 1) |-> rowsHost[r][l][t]])]
    /\ run' = [run EXCEPT ![r] = NextOp(@)]
    /\ UNCHANGED <<plan, prefilled, requestVars, host, issued, hashHost, rows, rowsHost>>

AtForward(r) == run[r].ops = NumLayers + 1 /\ IssuedOf(r, run[r].step) = OpsPerStep

(* post_update: the sampler accepts some of the drafts and adds a token of *)
(* its own; an unfinished prompt is only moved on in.                      *)
Sampled(c, k, accepted) ==
    LET q == c.request
    IN  IF Drafts(c) < 0 THEN text[q]
        ELSE text[q] \o [i \in 1..accepted |-> TokenOf(q, Len(text[q]) + i - 1, k, TRUE)]
                     \o <<TokenOf(q, Len(text[q]) + accepted, k, FALSE)>>

(* Mutant: rejected drafts count as computed. *)
AdvancedOverRejected(c, accepted) == computed[c.request] + c.length

Advanced(c, accepted) ==
    IF Drafts(c) < 0 THEN computed[c.request] + c.length ELSE Len(text[c.request]) + accepted

(* The forward, whose all-gathers end only when every rank has come to     *)
(* them, and the sampling behind it, which is the same on all ranks.       *)
RunForward ==
    /\ \A r \in Ranks : AtForward(r)
    /\ \E k \in {run[r].step : r \in Ranks}, accepted \in [Requests -> 0..MaxDrafts] :
          LET chunks(q) == ChunksOf(plan[k], q)
              chunk(q) == CHOOSE c \in chunks(q) : TRUE
          IN  /\ \A q \in Requests :
                    accepted[q] > 0 => chunks(q) # {} /\ accepted[q] <= Drafts(chunk(q))
              /\ text' = [q \in Requests |->
                            IF chunks(q) = {} THEN text[q] ELSE Sampled(chunk(q), k, accepted[q])]
              /\ computed' = [q \in Requests |->
                                IF chunks(q) = {} THEN computed[q] ELSE Advanced(chunk(q), accepted[q])]
    /\ run' = [r \in Ranks |-> [step |-> run[r].step, ops |-> OpsPerStep]]
    /\ UNCHANGED <<plan, prefilled, host, issued, bufferVars>>

(* Every step has run: the engine waits for requests. *)
Drained ==
    /\ Len(plan) = MaxSteps
    /\ \A r \in Ranks : run[r] = [step |-> MaxSteps, ops |-> OpsPerStep]
    /\ UNCHANGED vars

HostStep(r) == Begin(r) \/ ReadRows(r) \/ StageLayer(r) \/ Launch(r)
StreamStep(r) == RunHash(r) \/ RunCopy(r)

Next ==
    \/ \E b \in Batches : Schedule(b)
    \/ \E r \in Ranks : HostStep(r) \/ StreamStep(r)
    \/ RunForward
    \/ Drained

Spec == Init /\ [][Next]_vars

----------------------------------------------------------------------------
(* Safety *)

(* Types; and the GPU never counts a token as computed that no request     *)
(* has, so that the next token is always there to be fed in.               *)
TypeOK ==
    /\ plan \in Seq(Seq(Chunk)) /\ Len(plan) <= MaxSteps
    /\ text \in [Requests -> Seq(Token)]
    /\ computed \in [Requests -> Nat]
    /\ \A q \in Requests : computed[q] < Len(text[q])
    /\ host \in [Ranks -> {"idle", "waiting", "staging"}]
    /\ issued \in [Ranks -> Progress]
    /\ run \in [Ranks -> Progress]

(* "The forward only reads staged_rows": when a rank's stream has come to  *)
(* the forward of a step, every layer's buffer holds, for each token of    *)
(* that step, the row of that layer for the n-gram of that token, however  *)
(* far the host ran ahead and whatever it has put into the pinned buffers  *)
(* since (engram.py 1311-1325, 1396-1398).                                 *)
ForwardReadsItsRows ==
    \A r \in Ranks : AtForward(r) =>
        LET k == run[r].step
            hashes == Hashes(plan[k], k)
        IN  \A l \in Layers, t \in DOMAIN hashes : stagedRows[r][l][t] = <<l, hashes[t]>>

(* "Exact for prompt and generated tokens alike": however the requests are *)
(* cut into chunks, batched and continued after rejected drafts, a token   *)
(* is looked up by the n-gram that ends at it in its own request           *)
(* (model_state.py 53-56, engram.py 471-487).                              *)
HistoryIsExact ==
    \A r \in Ranks : AtForward(r) =>
        LET k == run[r].step
            b == plan[k]
            start == QueryStart(b)
            hashes == Hashes(b, k)
        IN  \A j \in 1..Len(b) : \A i \in 0..(b[j].length - 1) :
                hashes[start[j - 1] + i] = TrueGram(b[j].request, computed[b[j].request] + i, k)

(* "Rows of cudagraph padding tokens stay finite": what a forward reads    *)
(* behind the tokens of its step is zero or was once a row of that layer,  *)
(* never uninitialized pinned memory (engram.py 1205-1214).                *)
PaddingStaysFinite ==
    \A r \in Ranks, l \in Layers, t \in Slots : stagedRows[r][l][t][1] \in {0, l}

----------------------------------------------------------------------------
(* Refinement of SerialForward *)

(* The steps whose forward a rank's stream has run. *)
ForwardsRun(r) == IF run[r].ops = OpsPerStep THEN run[r].step ELSE run[r].step - 1

ForwardsDone == CHOOSE k \in 0..MaxSteps : \E r \in Ranks : ForwardsRun(r) = k

(* What the forward of rank r's step would read, token by token. *)
ReadBy(r) ==
    LET b == plan[run[r].step]
        start == QueryStart(b)
    IN  [l \in Layers |-> [j \in DOMAIN b |-> [i \in 0..(b[j].length - 1) |->
            stagedRows[r][l][start[j - 1] + i]]]]

Presented == [r \in Ranks |-> IF AtForward(r) THEN ReadBy(r) ELSE <<>>]

Serial == INSTANCE SerialForward WITH done <- ForwardsDone, presented <- Presented

(* Whatever runs ahead, is buffered and used again: to the model, the      *)
(* steps run one by one, all ranks stand at the same step when they meet   *)
(* in its forward, each has there the rows of the n-grams of exactly that  *)
(* step's tokens, and the requests grow by what that forward was given     *)
(* (engram.py 1311-1325, model_state.py 53-56).                            *)
KeepsSerialOrder == Serial!SerialSpec

=============================================================================
