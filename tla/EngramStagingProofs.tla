------------------------ MODULE EngramStagingProofs ------------------------
(***************************************************************************)
(* Machine-checked proofs about EngramStaging, for every number of ranks,  *)
(* layers, tokens, drafts and steps.                                       *)
(***************************************************************************)
EXTENDS EngramStaging, NatSetInduction, FiniteSetTheorems, SequenceTheorems, TLAPS

(* The rows a step has to read, and the tokens it reads them for. *)
Row(k, l, t) == <<l, Hashes(plan[k], k)[t]>>
TokensOf(k) == 0..(NumTokens(plan[k]) - 1)

(* The host is at most one step ahead of its stream, and whenever it is,   *)
(* it waits for the event.                                                 *)
InStep ==
    \A r \in Ranks :
        /\ issued[r].step <= Len(plan)
        /\ host[r] = "idle" => issued[r].ops = OpsPerStep
        /\ host[r] = "waiting" => issued[r].ops = 1 /\ issued[r].step >= 1
        /\ host[r] = "staging" => issued[r].ops <= NumLayers + 1 /\ issued[r].step >= 1
        /\ run[r].step = 0 => run[r].ops = OpsPerStep
        /\ \/ run[r].step = issued[r].step /\ run[r].ops <= issued[r].ops
           \/ run[r].step = issued[r].step - 1 /\ host[r] = "waiting"

(* The batches fit the staging buffers. *)
BatchesFit == \A k \in 1..Len(plan) : NumTokens(plan[k]) \in 1..MaxTokens

(* There is a buffer for every rank and layer. *)
Buffers ==
    /\ DOMAIN hashHost = Ranks /\ DOMAIN rows = Ranks
    /\ DOMAIN rowsHost = Ranks /\ DOMAIN stagedRows = Ranks
    /\ \A r \in Ranks : DOMAIN rowsHost[r] = Layers /\ DOMAIN stagedRows[r] = Layers

(* Where the rows of the step a stream works on are: the hashes, until the *)
(* host has read them; the rows read, while the host stages them; the      *)
(* pinned buffer of each layer whose copy is issued and has not run; the   *)
(* GPU's buffer of each layer whose copy has run.                          *)
HashesHeld(r, k) ==
    host[r] = "waiting" /\ k = issued[r].step =>
        \A t \in TokensOf(k) : hashHost[r][t] = Hashes(plan[k], k)[t]

RowsHeld(r, k) ==
    host[r] = "staging" =>
        \A l \in Layers : /\ DOMAIN rows[r][l] = TokensOf(k)
                          /\ \A t \in TokensOf(k) : rows[r][l][t] = Row(k, l, t)

PinnedHeld(r, k) ==
    \A l \in Layers : run[r].ops <= l /\ l < IssuedOf(r, k) =>
        \A t \in TokensOf(k) : rowsHost[r][l][t] = Row(k, l, t)

StagedHeld(r, k) ==
    \A l \in Layers : l < run[r].ops =>
        \A t \in TokensOf(k) : stagedRows[r][l][t] = Row(k, l, t)

Held(r, k) == HashesHeld(r, k) /\ RowsHeld(r, k) /\ PinnedHeld(r, k) /\ StagedHeld(r, k)

HeldFor(r) == \A k \in 0..MaxSteps : run[r].step = k /\ run[r].ops < OpsPerStep => Held(r, k)

RowsInFlight == \A r \in Ranks : HeldFor(r)

----------------------------------------------------------------------------
(* Types *)

LEMMA InitTypeOK == Init => TypeOK
<1> SUFFICES ASSUME Init PROVE TypeOK
  OBVIOUS
<1> USE StagingAssumption
<1>1. /\ plan \in Seq(Seq(Chunk)) /\ Len(plan) <= MaxSteps
      /\ computed \in [Requests -> Nat]
      /\ host \in [Ranks -> {"idle", "waiting", "staging"}]
  BY DEF Init
<1>0. [step |-> 0, ops |-> OpsPerStep] \in Progress
  BY DEF Progress, OpsPerStep
<1>5. issued \in [Ranks -> Progress] /\ run \in [Ranks -> Progress]
  BY <1>0 DEF Init
<1>2. ASSUME NEW q \in Requests
      PROVE  text[q] \in Seq(Token) /\ Len(text[q]) = PromptLength[q]
  <2>1. \A p \in 1..PromptLength[q] : TokenOf(q, p - 1, 0, FALSE) \in Token
    BY DEF Token, TokenOf
  <2>2. text[q] \in [1..PromptLength[q] -> Token]
    BY <2>1 DEF Init
  <2>3. QED
    BY <2>2, SeqDef
<1>3. text \in [Requests -> Seq(Token)]
  BY <1>2 DEF Init
<1>4. QED
  BY <1>1, <1>2, <1>3, <1>5 DEF TypeOK, Init

LEMMA FunctionIsSeq ==
    ASSUME NEW S, NEW n \in Nat, NEW f \in [1..n -> S]
    PROVE  f \in Seq(S) /\ Len(f) = n
<1>1. f \in Seq(S)
  BY SeqDef
<1>2. QED
  BY <1>1

LEMMA SampledType ==
    ASSUME TypeOK, NEW c \in Chunk, NEW k \in 0..MaxSteps, NEW accepted \in Nat
    PROVE  /\ Sampled(c, k, accepted) \in Seq(Token)
           /\ Advanced(c, accepted) \in Nat
           /\ Advanced(c, accepted) < Len(Sampled(c, k, accepted))
<1> DEFINE q == c.request
           drafts == [i \in 1..accepted |-> TokenOf(q, Len(text[q]) + i - 1, k, TRUE)]
           last == <<TokenOf(q, Len(text[q]) + accepted, k, FALSE)>>
<1>1. q \in Requests /\ c.length \in Nat /\ text[q] \in Seq(Token) /\ computed[q] \in Nat
  BY StagingAssumption DEF TypeOK, Chunk
<1>2. drafts \in Seq(Token) /\ Len(drafts) = accepted
  <2>1. \A i \in 1..accepted : TokenOf(q, Len(text[q]) + i - 1, k, TRUE) \in Token
    BY <1>1 DEF TokenOf, Token
  <2>2. drafts \in [1..accepted -> Token]
    BY <2>1
  <2> HIDE DEF drafts
  <2>3. QED
    BY <2>2, FunctionIsSeq
<1>3. last \in Seq(Token) /\ Len(last) = 1
  BY <1>1 DEF TokenOf, Token
<1>4. /\ text[q] \o drafts \o last \in Seq(Token)
      /\ Len(text[q] \o drafts \o last) = Len(text[q]) + accepted + 1
  <2> HIDE DEF drafts, last
  <2>1. text[q] \o drafts \in Seq(Token) /\ Len(text[q] \o drafts) = Len(text[q]) + accepted
    BY <1>1, <1>2, ConcatProperties
  <2> DEFINE grown == text[q] \o drafts
  <2>2. grown \in Seq(Token) /\ Len(grown) = Len(text[q]) + accepted
    BY <2>1
  <2> HIDE DEF grown
  <2>3. grown \o last \in Seq(Token) /\ Len(grown \o last) = Len(grown) + Len(last)
    BY <1>3, <2>2, ConcatProperties
  <2>4. Len(grown \o last) = Len(text[q]) + accepted + 1
    BY <1>1, <1>3, <2>2, <2>3, LenProperties
  <2>5. QED
    BY <2>3, <2>4 DEF grown
<1> HIDE DEF drafts, last
<1>8. Sampled(c, k, accepted) = IF Drafts(c) < 0 THEN text[q] ELSE text[q] \o drafts \o last
  BY DEF Sampled, drafts, last
<1>5. CASE Drafts(c) < 0
  BY <1>1, <1>5, <1>8 DEF Advanced, Drafts
<1>6. CASE ~(Drafts(c) < 0)
  BY <1>1, <1>4, <1>6, <1>8 DEF Advanced
<1>7. QED
  BY <1>5, <1>6

LEMMA NextOpType ==
    ASSUME NEW progress \in Progress, progress.ops \in 1..(NumLayers + 1)
    PROVE  NextOp(progress) \in Progress
BY StagingAssumption DEF Progress, NextOp, OpsPerStep

LEMMA BatchIsSeq == \A b \in Batches : b \in Seq(Chunk)
<1>1. Cardinality(Requests) \in Nat
  BY StagingAssumption, FS_CardinalityType
<1>2. QED
  BY <1>1, SeqDef DEF Batches

(* All streams that stand at a forward have begun a step that was planned. *)
LEMMA ForwardIsPlanned ==
    ASSUME TypeOK, InStep, NEW r \in Ranks, run[r].ops < OpsPerStep
    PROVE  run[r].step \in 1..Len(plan)
BY StagingAssumption DEF TypeOK, InStep, Progress, OpsPerStep

LEMMA NextTypeOK == TypeOK /\ InStep /\ [Next]_vars => TypeOK'
<1> SUFFICES ASSUME TypeOK, InStep, [Next]_vars
             PROVE  TypeOK'
  OBVIOUS
<1> USE StagingAssumption
<1>1. ASSUME NEW b \in Batches, Schedule(b)
      PROVE  TypeOK'
  <2>1. b \in Seq(Chunk)
    BY BatchIsSeq
  <2>2. plan' \in Seq(Seq(Chunk)) /\ Len(plan') = Len(plan) + 1
    BY <1>1, <2>1 DEF TypeOK, Schedule
  <2>3. QED
    BY <1>1, <2>2 DEF TypeOK, Schedule, requestVars
<1>2. ASSUME NEW r \in Ranks, HostStep(r)
      PROVE  TypeOK'
  <2>1. CASE Begin(r)
    <3>1. issued[r].step \in 0..MaxSteps /\ issued[r].step + 1 <= MaxSteps
      BY <2>1 DEF Begin, TypeOK, Progress
    <3>2. NextStep(issued[r]) \in Progress
      BY <3>1 DEF NextStep, Progress, OpsPerStep
    <3>3. QED
      BY <2>1, <3>2 DEF Begin, TypeOK, requestVars
  <2>2. CASE ReadRows(r)
    BY <2>2 DEF ReadRows, TypeOK, requestVars
  <2>3. CASE StageLayer(r)
    BY <2>3, NextOpType DEF StageLayer, TypeOK, Layers, requestVars
  <2>4. CASE Launch(r)
    BY <2>4 DEF Launch, TypeOK, Progress, NextOp, NextStep, OpsPerStep, requestVars
  <2>5. QED
    BY <1>2, <2>1, <2>2, <2>3, <2>4 DEF HostStep
<1>3. ASSUME NEW r \in Ranks, RunHash(r)
      PROVE  TypeOK'
  <2>1. run[r].step + 1 <= issued[r].step
    BY <1>3 DEF RunHash, IssuedOf, TypeOK, Progress
  <2>2. QED
    BY <1>3, <2>1, SMTT(30) DEF RunHash, TypeOK, Progress, NextOp, NextStep, OpsPerStep, requestVars
<1>4. ASSUME NEW r \in Ranks, RunCopy(r)
      PROVE  TypeOK'
  BY <1>4, NextOpType DEF RunCopy, TypeOK, Layers, requestVars
<1>5. CASE RunForward
  <2>1. PICK k \in {run[r].step : r \in Ranks}, accepted \in [Requests -> 0..MaxDrafts] :
          LET chunks(q) == ChunksOf(plan[k], q)
              chunk(q) == CHOOSE c \in chunks(q) : TRUE
          IN  /\ text' = [q \in Requests |->
                            IF chunks(q) = {} THEN text[q] ELSE Sampled(chunk(q), k, accepted[q])]
              /\ computed' = [q \in Requests |->
                                IF chunks(q) = {} THEN computed[q] ELSE Advanced(chunk(q), accepted[q])]
    BY <1>5 DEF RunForward
  <2>2. k \in 1..Len(plan) /\ k \in 0..MaxSteps
    <3>1. \A r \in Ranks : run[r].ops < OpsPerStep
      BY <1>5 DEF RunForward, AtForward, OpsPerStep
    <3>2. QED
      BY <3>1, ForwardIsPlanned DEF TypeOK, Progress
  <2>3. ASSUME NEW q \in Requests, ChunksOf(plan[k], q) # {}
        PROVE  (CHOOSE c \in ChunksOf(plan[k], q) : TRUE) \in Chunk
    <3>1. plan[k] \in Seq(Chunk)
      BY <2>2, ElementOfSeq DEF TypeOK
    <3>2. \A j \in 1..Len(plan[k]) : plan[k][j] \in Chunk
      BY <3>1, ElementOfSeq
    <3>3. QED
      BY <2>3, <3>2 DEF ChunksOf
  <2>4. ASSUME NEW q \in Requests
        PROVE  /\ text'[q] \in Seq(Token)
               /\ computed'[q] \in Nat
               /\ computed'[q] < Len(text'[q])
    <3>1. accepted[q] \in Nat
      OBVIOUS
    <3>2. CASE ChunksOf(plan[k], q) = {}
      BY <2>1, <3>2 DEF TypeOK
    <3>3. CASE ChunksOf(plan[k], q) # {}
      BY <2>1, <2>2, <2>3, <3>1, <3>3, SampledType
    <3>4. QED
      BY <3>2, <3>3
  <2>5. text' \in [Requests -> Seq(Token)] /\ computed' \in [Requests -> Nat]
    BY <2>1, <2>4
  <2>6. run' \in [Ranks -> Progress]
    <3>1. ASSUME NEW r \in Ranks
          PROVE  [step |-> run[r].step, ops |-> OpsPerStep] \in Progress
      <4>1. run[r].step \in 0..MaxSteps
        BY DEF TypeOK, Progress
      <4>2. OpsPerStep \in 1..OpsPerStep
        BY DEF OpsPerStep
      <4>3. QED
        BY <4>1, <4>2 DEF Progress
    <3>2. QED
      BY <1>5, <3>1 DEF RunForward
  <2>7. QED
    BY <1>5, <2>4, <2>5, <2>6 DEF RunForward, TypeOK
<1>6. CASE Drained \/ UNCHANGED vars
  BY <1>6 DEF Drained, vars, TypeOK, requestVars
<1>7. QED
  BY <1>1, <1>2, <1>3, <1>4, <1>5, <1>6 DEF Next, StreamStep

----------------------------------------------------------------------------
(* Host, stream and buffers *)

LEMMA InitInStep == Init => InStep
<1> SUFFICES ASSUME Init, NEW r \in Ranks
             PROVE  /\ 0 <= Len(plan)
                    /\ host[r] = "idle" /\ issued[r].ops = OpsPerStep
                    /\ run[r].step = 0 /\ run[r].ops = OpsPerStep
                    /\ issued[r].step = 0 /\ OpsPerStep <= OpsPerStep
  BY DEF InStep
<1>1. OpsPerStep \in Nat
  BY StagingAssumption DEF OpsPerStep
<1>2. QED
  BY <1>1 DEF Init

(* No host or stream but rank r's has moved. *)
LEMMA OthersStay ==
    ASSUME NEW r \in Ranks, HostStep(r) \/ StreamStep(r), TypeOK,
           NEW q \in Ranks, q # r
    PROVE  UNCHANGED <<host[q], issued[q], run[q]>>
BY DEF HostStep, StreamStep, Begin, ReadRows, StageLayer, Launch, RunHash, RunCopy, TypeOK

LEMMA NextInStep == TypeOK /\ InStep /\ [Next]_vars => InStep'
<1> SUFFICES ASSUME TypeOK, InStep, [Next]_vars
             PROVE  InStep'
  OBVIOUS
<1> USE StagingAssumption
<1>1. ASSUME NEW b \in Batches, Schedule(b)
      PROVE  InStep'
  <2>1. Len(plan') = Len(plan) + 1
    BY <1>1 DEF Schedule, TypeOK
  <2>2. QED
    BY <1>1, <2>1 DEF Schedule, InStep, TypeOK, Progress
<1>2. ASSUME NEW r \in Ranks, HostStep(r) \/ StreamStep(r)
      PROVE  InStep'
  <2> DEFINE Fits(q) ==
        /\ issued[q].step <= Len(plan)
        /\ host[q] = "idle" => issued[q].ops = OpsPerStep
        /\ host[q] = "waiting" => issued[q].ops = 1 /\ issued[q].step >= 1
        /\ host[q] = "staging" => issued[q].ops <= NumLayers + 1 /\ issued[q].step >= 1
        /\ run[q].step = 0 => run[q].ops = OpsPerStep
        /\ \/ run[q].step = issued[q].step /\ run[q].ops <= issued[q].ops
           \/ run[q].step = issued[q].step - 1 /\ host[q] = "waiting"
  <2>0. UNCHANGED plan
    BY <1>2 DEF HostStep, StreamStep, Begin, ReadRows, StageLayer, Launch, RunHash, RunCopy
  <2>1. ASSUME NEW q \in Ranks, q # r
        PROVE  Fits(q)'
    BY <1>2, <2>0, <2>1, OthersStay DEF InStep
  <2>2. issued[r].step \in Nat /\ issued[r].ops \in 1..OpsPerStep
        /\ run[r].step \in Nat /\ run[r].ops \in 1..OpsPerStep
    BY DEF TypeOK, Progress
  <2>5. DOMAIN issued = Ranks /\ DOMAIN run = Ranks /\ DOMAIN host = Ranks
    BY DEF TypeOK
  <2>6. Fits(r)
    BY DEF InStep
  <2>3. Fits(r)'
    <3>1. CASE Begin(r)
      <4>1. issued'[r] = NextStep(issued[r]) /\ host'[r] = "waiting" /\ run'[r] = run[r]
        BY <2>5, <3>1 DEF Begin
      <4>2. QED
        <5>1. host[r] = "idle" /\ issued[r].step < Len(plan) /\ run[r].step = issued[r].step
          BY <2>6, <2>2, <3>1 DEF Begin
        <5>2. issued'[r].step = issued[r].step + 1 /\ issued'[r].ops = 1
          BY <4>1 DEF NextStep
        <5>3. QED
          BY <2>0, <2>2, <2>6, <4>1, <5>1, <5>2
    <3>2. CASE ReadRows(r)
      <4>1. issued'[r] = issued[r] /\ host'[r] = "staging" /\ run'[r] = run[r]
        BY <2>5, <3>2 DEF ReadRows
      <4>2. QED
        BY <2>0, <2>2, <2>6, <3>2, <4>1 DEF ReadRows, HashesReady, OpsPerStep
    <3>3. CASE StageLayer(r)
      <4>1. issued'[r] = NextOp(issued[r]) /\ host'[r] = host[r] /\ run'[r] = run[r]
        BY <2>5, <3>3 DEF StageLayer
      <4>2. QED
        BY <2>0, <2>2, <2>6, <3>3, <4>1, SMTT(30) DEF StageLayer, Layers, NextOp
    <3>4. CASE Launch(r)
      <4>1. issued'[r] = NextOp(issued[r]) /\ host'[r] = "idle" /\ run'[r] = run[r]
        BY <2>5, <3>4 DEF Launch
      <4>2. QED
        BY <2>0, <2>2, <2>6, <3>4, <4>1 DEF Launch, NextOp, OpsPerStep
    <3>5. CASE RunHash(r)
      <4>1. issued'[r] = issued[r] /\ host'[r] = host[r] /\ run'[r] = NextStep(run[r])
        BY <2>5, <3>5 DEF RunHash
      <4>2. QED
        BY <2>0, <2>2, <2>6, <3>5, <4>1 DEF RunHash, IssuedOf, NextStep
    <3>6. CASE RunCopy(r)
      <4>1. issued'[r] = issued[r] /\ host'[r] = host[r] /\ run'[r] = NextOp(run[r])
        BY <2>5, <3>6 DEF RunCopy
      <4>2. QED
        <5>0. run[r].ops < IssuedOf(r, run[r].step) /\ run[r].ops <= NumLayers
          BY <2>2, <3>6, StagingAssumption DEF RunCopy, Layers
        <5>1. run[r].ops < OpsPerStep
          BY <2>2, <5>0, StagingAssumption DEF OpsPerStep
        <5>3. run[r].step = issued[r].step => run[r].ops < issued[r].ops
          BY <2>2, <5>0 DEF IssuedOf
        <5>4. run[r].step # 0
          BY <2>2, <2>6, <5>1
        <5>2. run'[r].step = run[r].step /\ run'[r].ops = run[r].ops + 1
          BY <4>1 DEF NextOp
        <5>5. QED
          BY <2>0, <2>2, <2>6, <4>1, <5>1, <5>2, <5>3, <5>4
    <3>7. QED
      BY <1>2, <3>1, <3>2, <3>3, <3>4, <3>5, <3>6 DEF HostStep, StreamStep
  <2>4. QED
    BY <2>1, <2>3 DEF InStep
<1>3. CASE RunForward
  <2>1. UNCHANGED <<plan, host, issued>>
    BY <1>3 DEF RunForward
  <2>2. ASSUME NEW r \in Ranks
        PROVE  /\ run'[r].step = run[r].step /\ run'[r].ops = OpsPerStep
               /\ run[r].step = issued[r].step => issued[r].ops = OpsPerStep
               /\ run[r].step # 0
    BY <1>3, SMTT(30) DEF RunForward, AtForward, IssuedOf, InStep, TypeOK, Progress, OpsPerStep
  <2>3. ASSUME NEW r \in Ranks
        PROVE  /\ issued[r].ops \in 1..OpsPerStep /\ issued[r].step \in Nat
               /\ run[r].step \in Nat
    BY DEF TypeOK, Progress
  <2>4. QED
    BY <2>1, <2>2, <2>3 DEF InStep
<1>4. CASE Drained \/ UNCHANGED vars
  BY <1>4 DEF Drained, vars, InStep
<1>5. QED
  BY <1>1, <1>2, <1>3, <1>4 DEF Next

LEMMA NextBatchesFit == TypeOK /\ BatchesFit /\ [Next]_vars => BatchesFit'
<1> SUFFICES ASSUME TypeOK, BatchesFit, [Next]_vars
             PROVE  BatchesFit'
  OBVIOUS
<1>1. ASSUME NEW b \in Batches, Schedule(b)
      PROVE  BatchesFit'
  <2>1. Len(plan') = Len(plan) + 1 /\ plan'[Len(plan) + 1] = b
        /\ \A k \in 1..Len(plan) : plan'[k] = plan[k]
    BY <1>1 DEF Schedule, TypeOK
  <2>2. NumTokens(b) \in 1..MaxTokens
    BY <1>1 DEF Schedule, Schedulable
  <2>3. ASSUME NEW k \in 1..Len(plan')
        PROVE  NumTokens(plan'[k]) \in 1..MaxTokens
    <3>1. CASE k = Len(plan) + 1
      BY <2>1, <2>2, <3>1
    <3>2. CASE k # Len(plan) + 1
      <4>1. k \in 1..Len(plan)
        BY <2>1, <3>2 DEF TypeOK
      <4>2. QED
        BY <2>1, <4>1 DEF BatchesFit
    <3>3. QED
      BY <3>1, <3>2
  <2>4. QED
    BY <2>3 DEF BatchesFit
<1>2. CASE UNCHANGED plan
  BY <1>2 DEF BatchesFit
<1>3. QED
  BY <1>1, <1>2, ZenonT(30) DEF Next, HostStep, StreamStep, Begin, ReadRows, StageLayer, Launch,
       RunHash, RunCopy, RunForward, Drained, vars

LEMMA NextBuffers == TypeOK /\ Buffers /\ [Next]_vars => Buffers'
<1> SUFFICES ASSUME TypeOK, Buffers, [Next]_vars
             PROVE  Buffers'
  OBVIOUS
<1>1. CASE UNCHANGED bufferVars
  BY <1>1 DEF Buffers, bufferVars
<1>2. ASSUME NEW r \in Ranks, ReadRows(r)
      PROVE  Buffers'
  BY <1>2 DEF ReadRows, Buffers
<1>3. ASSUME NEW r \in Ranks, StageLayer(r)
      PROVE  Buffers'
  BY <1>3 DEF StageLayer, Buffers
<1>4. ASSUME NEW r \in Ranks, RunHash(r)
      PROVE  Buffers'
  BY <1>4 DEF RunHash, Buffers
<1>5. ASSUME NEW r \in Ranks, RunCopy(r)
      PROVE  Buffers'
  BY <1>5 DEF RunCopy, Buffers
<1>6. QED
  BY <1>1, <1>2, <1>3, <1>4, <1>5 DEF Next, HostStep, StreamStep, Schedule, Begin, Launch,
       RunForward, Drained, vars, bufferVars

----------------------------------------------------------------------------
(* Where the rows are *)

LEMMA HashesDomain ==
    ASSUME NEW b, NEW k
    PROVE  DOMAIN Hashes(b, k) = 0..(NumTokens(b) - 1)
BY ZenonT(30) DEF Hashes

(* Hashes change with the requests' tokens only. *)
LEMMA HashesStable ==
    ASSUME UNCHANGED requestVars, NEW b, NEW k
    PROVE  Hashes(b, k)' = Hashes(b, k)
<1>1. text' = text /\ computed' = computed
  BY DEF requestVars
<1> DEFINE start == QueryStart(b)
           tokens == 0..(NumTokens(b) - 1)
           row == [t \in tokens |-> RowOf(b, start, t)]
           request == [t \in tokens |-> b[row[t]].request]
           position == [t \in tokens |-> computed[request[t]] + t - start[row[t] - 1]]
           inputIds == [t \in tokens |-> TokenAt(request[t], position[t], k)]
           source == [t \in tokens |-> [shift \in Shifts |->
                         Source(request[t], inputIds, t, position[t], shift)]]
           blocked(t, shift) == position[t] - shift < 0 \/ Dead(source[t][shift])
           hashes == [t \in tokens |-> [shift \in Shifts |->
                         IF \E s \in 0..shift : blocked(t, s) THEN Pad ELSE source[t][shift]]]
<1>2. Hashes(b, k) = hashes /\ Hashes(b, k)' = hashes'
  BY DEF Hashes
<1>3. position' = position
  BY <1>1
<1> HIDE DEF position
<1>4. inputIds' = inputIds
  BY <1>1, <1>3 DEF TokenAt
<1> HIDE DEF inputIds
<1>5. source' = source
  BY <1>1, <1>3, <1>4 DEF Source, Lookback, LookbackDepth
<1> HIDE DEF source
<1>6. hashes' = hashes
  BY <1>3, <1>5
<1>7. QED
  BY <1>2, <1>6

LEMMA RowStable ==
    ASSUME UNCHANGED requestVars, NEW k, plan'[k] = plan[k]
    PROVE  /\ TokensOf(k)' = TokensOf(k)
           /\ \A l, t : Row(k, l, t)' = Row(k, l, t)
           /\ Hashes(plan[k], k)' = Hashes(plan[k], k)
<1>1. Hashes(plan[k], k)' = Hashes(plan[k], k)
  BY HashesStable
<1>2. TokensOf(k)' = TokensOf(k)
  BY DEF TokensOf
<1>3. \A l, t : Row(k, l, t)' = Row(k, l, t)
  BY <1>1 DEF Row
<1>4. QED
  BY <1>1, <1>2, <1>3

(* What is held for a rank stays held while neither it nor the tokens move. *)
LEMMA HeldStable ==
    ASSUME NEW r \in Ranks, NEW k, Held(r, k),
           UNCHANGED requestVars, plan'[k] = plan[k],
           UNCHANGED <<host[r], issued[r], run[r]>>,
           UNCHANGED <<hashHost[r], rows[r], rowsHost[r], stagedRows[r]>>
    PROVE  Held(r, k)'
<1>1. HashesHeld(r, k)'
  BY RowStable DEF Held, HashesHeld
<1>2. RowsHeld(r, k)'
  BY RowStable DEF Held, RowsHeld
<1>3. PinnedHeld(r, k)'
  BY RowStable DEF Held, PinnedHeld, IssuedOf
<1>4. StagedHeld(r, k)'
  BY RowStable DEF Held, StagedHeld
<1>5. QED
  BY <1>1, <1>2, <1>3, <1>4 DEF Held

(* A step of one rank touches nothing of the others. *)
LEMMA OthersKeep ==
    ASSUME NEW r \in Ranks, HostStep(r) \/ StreamStep(r), TypeOK, Buffers
    PROVE  /\ UNCHANGED requestVars /\ UNCHANGED plan
           /\ \A q \in Ranks : q # r =>
                 UNCHANGED <<hashHost[q], rows[q], rowsHost[q], stagedRows[q]>>
BY DEF HostStep, StreamStep, Begin, ReadRows, StageLayer, Launch, RunHash, RunCopy, Buffers,
   bufferVars

(* What the steps of a rank have in common: the batch is planned and fits. *)
LEMMA PlannedFits ==
    ASSUME TypeOK, InStep, BatchesFit, NEW r \in Ranks, NEW k \in 0..MaxSteps,
           \/ k = run[r].step /\ run[r].ops < OpsPerStep
           \/ k = issued[r].step /\ host[r] # "idle"
    PROVE  /\ NumTokens(plan[k]) \in 1..MaxTokens
           /\ Staged(plan[k]) = NumTokens(plan[k])
<1>1. k \in 1..Len(plan)
  <2>1. CASE k = run[r].step /\ run[r].ops < OpsPerStep
    BY <2>1, ForwardIsPlanned
  <2>2. CASE k = issued[r].step /\ host[r] # "idle"
    BY <2>2 DEF InStep, TypeOK, Progress
  <2>3. QED
    BY <2>1, <2>2
<1>2. NumTokens(plan[k]) \in 1..MaxTokens
  BY <1>1 DEF BatchesFit
<1>3. QED
  BY <1>2, StagingAssumption DEF Staged

LEMMA BeginHolds ==
    ASSUME TypeOK, InStep, Buffers, NEW r \in Ranks, HeldFor(r), Begin(r)
    PROVE  HeldFor(r)'
<1> SUFFICES ASSUME NEW k \in 0..MaxSteps, run'[r].step = k, run'[r].ops < OpsPerStep
             PROVE  Held(r, k)'
  BY StagingAssumption DEF HeldFor, OpsPerStep
<1>1. Held(r, k) /\ run[r].step = issued[r].step /\ run[r].step = k
  BY DEF Begin, HeldFor, InStep
<1>2. /\ host'[r] = "waiting" /\ issued'[r].step = k + 1
      /\ issued[r].ops = OpsPerStep /\ issued[r].step = k
      /\ UNCHANGED <<run, plan, requestVars, bufferVars>>
  BY <1>1 DEF Begin, NextStep, TypeOK, InStep
<1>3. HashesHeld(r, k)' /\ RowsHeld(r, k)'
  BY <1>2 DEF HashesHeld, RowsHeld
<1>4. PinnedHeld(r, k)'
  <2>1. IssuedOf(r, k)' = OpsPerStep /\ IssuedOf(r, k) = OpsPerStep
    BY <1>2 DEF IssuedOf, OpsPerStep
  <2>2. QED
    BY <1>1, <1>2, <2>1, RowStable DEF Held, PinnedHeld, bufferVars
<1>5. StagedHeld(r, k)'
  BY <1>1, <1>2, RowStable DEF Held, StagedHeld, bufferVars
<1>6. QED
  BY <1>3, <1>4, <1>5 DEF Held

LEMMA ReadRowsHolds ==
    ASSUME TypeOK, InStep, BatchesFit, Buffers, NEW r \in Ranks, HeldFor(r), ReadRows(r)
    PROVE  HeldFor(r)'
<1> SUFFICES ASSUME NEW k \in 0..MaxSteps, run'[r].step = k, run'[r].ops < OpsPerStep
             PROVE  Held(r, k)'
  BY StagingAssumption DEF HeldFor, OpsPerStep
<1>1. Held(r, k) /\ issued[r].step = k /\ run[r].step = k
  BY DEF ReadRows, HashesReady, HeldFor
<1>2. /\ host[r] = "waiting" /\ host'[r] = "staging"
      /\ UNCHANGED <<issued, run, plan, requestVars, hashHost, rowsHost, stagedRows>>
  BY DEF ReadRows, TypeOK
<1>3. HashesHeld(r, k)'
  BY <1>2 DEF HashesHeld
<1>4. RowsHeld(r, k)'
  <2>1. Staged(plan[k]) = NumTokens(plan[k])
    BY <1>1, <1>2, PlannedFits
  <2>2. rows'[r] = [l \in Layers |-> [t \in TokensOf(k) |-> <<l, hashHost[r][t]>>]]
    BY <1>1, <2>1 DEF ReadRows, Buffers, TokensOf
  <2>3. \A t \in TokensOf(k) : hashHost[r][t] = Hashes(plan[k], k)[t]
    BY <1>1, <1>2 DEF Held, HashesHeld
  <2>4. \A l \in Layers : /\ DOMAIN rows'[r][l] = TokensOf(k)
                           /\ \A t \in TokensOf(k) : rows'[r][l][t] = Row(k, l, t)
    BY <2>2, <2>3 DEF Row
  <2>5. QED
    BY <1>2, <2>4, RowStable DEF RowsHeld
<1>5. PinnedHeld(r, k)'
  BY <1>1, <1>2, RowStable DEF Held, PinnedHeld, IssuedOf
<1>6. StagedHeld(r, k)'
  BY <1>1, <1>2, RowStable DEF Held, StagedHeld
<1>7. QED
  BY <1>3, <1>4, <1>5, <1>6 DEF Held

LEMMA StageLayerHolds ==
    ASSUME TypeOK, InStep, BatchesFit, Buffers, NEW r \in Ranks, HeldFor(r), StageLayer(r)
    PROVE  HeldFor(r)'
<1> USE StagingAssumption
<1> SUFFICES ASSUME NEW k \in 0..MaxSteps, run'[r].step = k, run'[r].ops < OpsPerStep
             PROVE  Held(r, k)'
  BY DEF HeldFor, OpsPerStep
<1>1. Held(r, k) /\ issued[r].step = k /\ run[r].step = k
  BY DEF StageLayer, InStep, HeldFor
<1>2. /\ host[r] = "staging" /\ issued[r].ops \in Layers
      /\ UNCHANGED <<host, run, plan, requestVars, hashHost, rows, stagedRows>>
  BY DEF StageLayer
<1>3. issued'[r].step = k /\ issued'[r].ops = issued[r].ops + 1
  BY <1>1, <1>2 DEF StageLayer, NextOp, TypeOK
<1>4. HashesHeld(r, k)' /\ RowsHeld(r, k)' /\ StagedHeld(r, k)'
  BY <1>1, <1>2, RowStable DEF Held, HashesHeld, RowsHeld, StagedHeld
<1>5. PinnedHeld(r, k)'
  <2>1. IssuedOf(r, k)' = issued[r].ops + 1 /\ IssuedOf(r, k) = issued[r].ops
    BY <1>1, <1>3 DEF IssuedOf
  <2>2. ASSUME NEW l \in Layers, run[r].ops <= l, l < issued[r].ops + 1, NEW t \in TokensOf(k)
        PROVE  rowsHost'[r][l][t] = Row(k, l, t)
    <3>1. CASE l = issued[r].ops
      <4>1. rowsHost'[r][l] = Overwritten(rowsHost[r][l], rows[r][l])
        BY <3>1 DEF StageLayer, Buffers
      <4>2. t \in DOMAIN rows[r][l] /\ rows[r][l][t] = Row(k, l, t)
        BY <1>1, <1>2 DEF Held, RowsHeld
      <4>3. t \in Slots
        <5>1. NumTokens(plan[k]) \in 1..MaxTokens
          BY <1>1, <1>2, PlannedFits
        <5>2. QED
          BY <5>1 DEF TokensOf, Slots
      <4>4. QED
        BY <4>1, <4>2, <4>3 DEF Overwritten
    <3>2. CASE l # issued[r].ops
      <4>1. rowsHost'[r][l] = rowsHost[r][l]
        BY <3>2 DEF StageLayer, Buffers
      <4>2. l < issued[r].ops
        BY <1>2, <2>2, <3>2 DEF Layers
      <4>3. QED
        BY <1>1, <2>1, <2>2, <4>1, <4>2 DEF Held, PinnedHeld
    <3>3. QED
      BY <3>1, <3>2
  <2>3. QED
    BY <1>2, <2>1, <2>2, RowStable DEF PinnedHeld
<1>6. QED
  BY <1>4, <1>5 DEF Held

LEMMA LaunchHolds ==
    ASSUME TypeOK, InStep, Buffers, NEW r \in Ranks, HeldFor(r), Launch(r)
    PROVE  HeldFor(r)'
<1> USE StagingAssumption
<1> SUFFICES ASSUME NEW k \in 0..MaxSteps, run'[r].step = k, run'[r].ops < OpsPerStep
             PROVE  Held(r, k)'
  BY DEF HeldFor, OpsPerStep
<1>1. Held(r, k) /\ issued[r].step = k /\ run[r].step = k
  BY DEF Launch, InStep, HeldFor
<1>2. /\ host'[r] = "idle" /\ issued[r].ops = NumLayers + 1
      /\ issued'[r].step = k /\ issued'[r].ops = NumLayers + 2
      /\ UNCHANGED <<run, plan, requestVars, bufferVars>>
  BY <1>1 DEF Launch, NextOp, TypeOK
<1>3. HashesHeld(r, k)' /\ RowsHeld(r, k)'
  BY <1>2 DEF HashesHeld, RowsHeld
<1>4. PinnedHeld(r, k)'
  <2>1. IssuedOf(r, k) = NumLayers + 1
    BY <1>1, <1>2 DEF IssuedOf
  <2>2. \A l \in Layers : l < IssuedOf(r, k)
    BY <2>1 DEF Layers
  <2>3. QED
    BY <1>1, <1>2, <2>2, RowStable DEF Held, PinnedHeld, bufferVars
<1>5. StagedHeld(r, k)'
  BY <1>1, <1>2, RowStable DEF Held, StagedHeld, bufferVars
<1>6. QED
  BY <1>3, <1>4, <1>5 DEF Held

LEMMA RunHashHolds ==
    ASSUME TypeOK, InStep, BatchesFit, Buffers, NEW r \in Ranks, HeldFor(r), RunHash(r)
    PROVE  HeldFor(r)'
<1> USE StagingAssumption
<1> SUFFICES ASSUME NEW k \in 0..MaxSteps, run'[r].step = k, run'[r].ops < OpsPerStep
             PROVE  Held(r, k)'
  BY DEF HeldFor, OpsPerStep
<1>0. run'[r].step = run[r].step + 1 /\ run'[r].ops = 1
      /\ UNCHANGED <<host, issued, plan, requestVars, rowsHost, stagedRows>>
  BY DEF RunHash, NextStep, TypeOK
<1>1. host[r] = "waiting" /\ issued[r].step = k /\ issued[r].ops = 1
  BY <1>0, SMTT(30) DEF RunHash, IssuedOf, InStep, TypeOK, Progress
<1>2. HashesHeld(r, k)'
  <2>1. NumTokens(plan[k]) \in 1..MaxTokens
    BY <1>1, PlannedFits
  <2>2. TokensOf(k) \subseteq Slots
    BY <2>1 DEF TokensOf, Slots
  <2>3. hashHost'[r] = Overwritten(hashHost[r], Hashes(plan[k], k))
    BY <1>0 DEF RunHash, Buffers
  <2>4. \A t \in TokensOf(k) : hashHost'[r][t] = Hashes(plan[k], k)[t]
    BY <2>2, <2>3, HashesDomain, ZenonT(30) DEF Overwritten, TokensOf
  <2>5. QED
    BY <1>0, <2>4, RowStable DEF HashesHeld
<1>3. RowsHeld(r, k)'
  BY <1>0, <1>1 DEF RowsHeld
<1>4. PinnedHeld(r, k)' /\ StagedHeld(r, k)'
  <2>1. IssuedOf(r, k)' = 1
    <3>1. issued'[r].step = k /\ issued'[r].ops = 1
      BY <1>0, <1>1
    <3>2. QED
      BY <3>1 DEF IssuedOf
  <2>2. \A l \in Layers : ~(l < 1)
    BY DEF Layers
  <2>3. PinnedHeld(r, k)'
    BY <2>1, <2>2 DEF PinnedHeld
  <2>4. StagedHeld(r, k)'
    BY <1>0, <2>2 DEF StagedHeld
  <2>5. QED
    BY <2>3, <2>4
<1>5. QED
  BY <1>2, <1>3, <1>4 DEF Held

LEMMA RunCopyHolds ==
    ASSUME TypeOK, InStep, BatchesFit, Buffers, NEW r \in Ranks, HeldFor(r), RunCopy(r)
    PROVE  HeldFor(r)'
<1> USE StagingAssumption
<1> SUFFICES ASSUME NEW k \in 0..MaxSteps, run'[r].step = k, run'[r].ops < OpsPerStep
             PROVE  Held(r, k)'
  BY DEF HeldFor, OpsPerStep
<1>0. run'[r].step = run[r].step /\ run'[r].ops = run[r].ops + 1 /\ run[r].ops \in Layers
      /\ UNCHANGED <<host, issued, plan, requestVars, hashHost, rows, rowsHost>>
  BY DEF RunCopy, NextOp, TypeOK
<1>1. Held(r, k) /\ run[r].step = k
  BY <1>0 DEF HeldFor, Layers, OpsPerStep
<1>2. HashesHeld(r, k)' /\ RowsHeld(r, k)'
  BY <1>0, <1>1, RowStable DEF Held, HashesHeld, RowsHeld
<1>3. PinnedHeld(r, k)'
  <2>1. \A l \in Layers : run[r].ops + 1 <= l => run[r].ops <= l
    BY <1>0 DEF Layers
  <2>2. QED
    BY <1>0, <1>1, <2>1, RowStable DEF Held, PinnedHeld, IssuedOf
<1>4. StagedHeld(r, k)'
  <2>1. NumTokens(plan[k]) \in 1..MaxTokens /\ Staged(plan[k]) = NumTokens(plan[k])
    <3>1. run[r].ops < OpsPerStep
      BY <1>0 DEF Layers, OpsPerStep
    <3>2. QED
      BY <1>1, <3>1, PlannedFits
  <2>2. TokensOf(k) \subseteq Slots
    BY <2>1 DEF TokensOf, Slots
  <2>3. ASSUME NEW l \in Layers, l < run[r].ops + 1, NEW t \in TokensOf(k)
        PROVE  stagedRows'[r][l][t] = Row(k, l, t)
    <3>1. CASE l = run[r].ops
      <4>1. stagedRows'[r][l] =
              Overwritten(stagedRows[r][l], [i \in TokensOf(k) |-> rowsHost[r][l][i]])
        BY <1>1, <2>1, <3>1 DEF RunCopy, Buffers, TokensOf
      <4>2. rowsHost[r][l][t] = Row(k, l, t)
        BY <1>1, <3>1, SMTT(30) DEF RunCopy, Held, PinnedHeld, Layers
      <4>3. QED
        BY <2>2, <4>1, <4>2 DEF Overwritten
    <3>2. CASE l # run[r].ops
      <4>1. stagedRows'[r][l] = stagedRows[r][l]
        BY <3>2 DEF RunCopy, Buffers
      <4>2. l < run[r].ops
        BY <1>0, <2>3, <3>2 DEF Layers
      <4>3. QED
        BY <1>1, <4>1, <4>2 DEF Held, StagedHeld
    <3>3. QED
      BY <3>1, <3>2
  <2>4. QED
    BY <1>0, <2>3, RowStable DEF StagedHeld
<1>5. QED
  BY <1>2, <1>3, <1>4 DEF Held

LEMMA NextRowsInFlight ==
    TypeOK /\ InStep /\ BatchesFit /\ Buffers /\ RowsInFlight /\ [Next]_vars => RowsInFlight'
<1> SUFFICES ASSUME TypeOK, InStep, BatchesFit, Buffers, RowsInFlight, [Next]_vars
             PROVE  RowsInFlight'
  OBVIOUS
<1>0. \A r \in Ranks : HeldFor(r)
  BY DEF RowsInFlight
<1>1. ASSUME NEW b \in Batches, Schedule(b)
      PROVE  RowsInFlight'
  <2>1. \A k \in 1..Len(plan) : plan'[k] = plan[k]
    BY <1>1 DEF Schedule, TypeOK
  <2>2. UNCHANGED <<requestVars, host, issued, run, hashHost, rows, rowsHost, stagedRows>>
    BY <1>1 DEF Schedule, bufferVars
  <2>3. ASSUME NEW r \in Ranks, NEW k \in 0..MaxSteps,
               run'[r].step = k, run'[r].ops < OpsPerStep
        PROVE  Held(r, k)'
    <3>1. run[r].step = k /\ run[r].ops < OpsPerStep /\ Held(r, k)
      BY <1>0, <2>2, <2>3 DEF HeldFor
    <3>2. plan'[k] = plan[k]
      BY <2>1, <3>1, ForwardIsPlanned
    <3>3. QED
      BY <2>2, <3>1, <3>2, HeldStable
  <2>4. QED
    BY <2>3 DEF RowsInFlight, HeldFor, OpsPerStep
<1>2. ASSUME NEW r \in Ranks, HostStep(r) \/ StreamStep(r)
      PROVE  RowsInFlight'
  <2>1. HeldFor(r)'
    BY <1>0, <1>2, BeginHolds, ReadRowsHolds, StageLayerHolds, LaunchHolds, RunHashHolds,
       RunCopyHolds DEF HostStep, StreamStep
  <2>2. ASSUME NEW q \in Ranks, q # r, NEW k \in 0..MaxSteps,
               run'[q].step = k, run'[q].ops < OpsPerStep
        PROVE  Held(q, k)'
    <3>1. UNCHANGED <<host[q], issued[q], run[q]>>
      BY <1>2, <2>2, OthersStay
    <3>2. Held(q, k)
      BY <1>0, <2>2, <3>1 DEF HeldFor
    <3>3. UNCHANGED requestVars /\ plan'[k] = plan[k]
          /\ UNCHANGED <<hashHost[q], rows[q], rowsHost[q], stagedRows[q]>>
      BY <1>2, <2>2, OthersKeep
    <3>4. QED
      BY <3>1, <3>2, <3>3, HeldStable
  <2>3. QED
    BY <2>1, <2>2 DEF RowsInFlight, HeldFor, OpsPerStep
<1>3. CASE RunForward
  <2>1. \A r \in Ranks : run'[r].ops = OpsPerStep
    BY <1>3 DEF RunForward
  <2>2. QED
    BY <2>1, StagingAssumption DEF RowsInFlight, HeldFor, OpsPerStep
<1>4. CASE Drained \/ UNCHANGED vars
  <2>1. UNCHANGED vars
    BY <1>4 DEF Drained
  <2>2. \A r \in Ranks, k \in 0..MaxSteps : Held(r, k) => Held(r, k)'
    BY <2>1, HeldStable DEF vars, bufferVars
  <2>3. QED
    BY <1>0, <2>1, <2>2 DEF RowsInFlight, HeldFor, OpsPerStep, vars
<1>5. QED
  BY <1>1, <1>2, <1>3, <1>4 DEF Next

----------------------------------------------------------------------------
(* Padding *)

LEMMA NextPadding ==
    /\ TypeOK /\ InStep /\ BatchesFit /\ Buffers /\ RowsInFlight /\ PaddingStaysFinite
    /\ [Next]_vars
    => PaddingStaysFinite'
<1> SUFFICES ASSUME TypeOK, InStep, BatchesFit, Buffers, RowsInFlight, PaddingStaysFinite,
                    [Next]_vars
             PROVE  PaddingStaysFinite'
  OBVIOUS
<1> USE StagingAssumption
<1>1. CASE UNCHANGED stagedRows
  BY <1>1 DEF PaddingStaysFinite
<1>2. ASSUME NEW r \in Ranks, RunCopy(r)
      PROVE  PaddingStaysFinite'
  <2> DEFINE k == run[r].step
             m == run[r].ops
  <2>1. m \in Layers /\ m < OpsPerStep /\ m < IssuedOf(r, k) /\ k \in 0..MaxSteps
    BY <1>2, SMTT(30) DEF RunCopy, Layers, OpsPerStep, TypeOK, Progress
  <2>2. Staged(plan[k]) = NumTokens(plan[k])
    BY <2>1, PlannedFits
  <2>3. PinnedHeld(r, k)
    BY <2>1 DEF RowsInFlight, HeldFor, Held
  <2>4. \A t \in TokensOf(k) : rowsHost[r][m][t] = Row(k, m, t)
    BY <2>1, <2>3 DEF PinnedHeld, Layers
  <2>5. stagedRows'[r][m] =
          Overwritten(stagedRows[r][m], [i \in TokensOf(k) |-> rowsHost[r][m][i]])
    BY <1>2, <2>1, <2>2 DEF RunCopy, Buffers, TokensOf
  <2>6. ASSUME NEW t \in Slots
        PROVE  stagedRows'[r][m][t][1] \in {0, m}
    <3>1. CASE t \in TokensOf(k)
      BY <2>4, <2>5, <3>1 DEF Overwritten, Row
    <3>2. CASE t \notin TokensOf(k)
      BY <2>1, <2>5, <3>2 DEF Overwritten, PaddingStaysFinite
    <3>3. QED
      BY <3>1, <3>2
  <2>7. ASSUME NEW q \in Ranks, NEW l \in Layers, q # r \/ l # m
        PROVE  stagedRows'[q][l] = stagedRows[q][l]
    BY <1>2, <2>7 DEF RunCopy, Buffers
  <2>8. QED
    BY <2>6, <2>7 DEF PaddingStaysFinite
<1>3. QED
  BY <1>1, <1>2 DEF Next, HostStep, StreamStep, Schedule, Begin, ReadRows, StageLayer, Launch,
     RunHash, RunForward, Drained, vars, bufferVars

----------------------------------------------------------------------------
(* Where chunks and tokens are *)

(* start adds up the lengths of the first n chunks. *)
Starts(start, b, n) ==
    start = [j \in 0..n |-> IF j = 0 THEN 0 ELSE start[j - 1] + b[j].length]

LEMMA StartsExist ==
    ASSUME NEW b, NEW n \in Nat
    PROVE  \E start : Starts(start, b, n)
<1> DEFINE T == {m \in Nat : \E start : Starts(start, b, m)}
<1>1. 0 \in T
  <2>1. Starts([j \in 0..0 |-> 0], b, 0)
    BY DEF Starts
  <2>2. QED
    BY <2>1
<1>2. ASSUME NEW m \in Nat, m \in T PROVE m + 1 \in T
  <2>1. PICK s : Starts(s, b, m)
    BY <1>2
  <2> DEFINE g == [j \in 0..(m + 1) |-> IF j <= m THEN s[j] ELSE s[m] + b[m + 1].length]
  <2>2. \A j \in 0..m : s[j] = IF j = 0 THEN 0 ELSE s[j - 1] + b[j].length
    BY <2>1 DEF Starts
  <2>3. ASSUME NEW j \in 0..(m + 1)
        PROVE  g[j] = IF j = 0 THEN 0 ELSE g[j - 1] + b[j].length
    <3>1. CASE j <= m
      BY <2>2, <3>1
    <3>2. CASE j = m + 1
      BY <3>2
    <3>3. QED
      BY <3>1, <3>2
  <2>4. Starts(g, b, m + 1)
    BY <2>3 DEF Starts
  <2>5. QED
    BY <2>4
<1>3. Nat \subseteq T
  <2> HIDE DEF T
  <2> QED
    BY <1>1, <1>2, SetInduction
<1>4. QED
  BY <1>3

(* Every chunk starts where the one before it ends, and has a token. *)
LEMMA QueryStartSteps ==
    ASSUME NEW b \in Seq(Chunk)
    PROVE  /\ QueryStart(b)[0] = 0
           /\ \A j \in 1..Len(b) : QueryStart(b)[j] = QueryStart(b)[j - 1] + b[j].length
<1> DEFINE n == Len(b)
<1>1. PICK s : Starts(s, b, n) /\ QueryStart(b) = s
  <2>1. \E s : Starts(s, b, n)
    BY StartsExist
  <2>2. QED
    BY <2>1, Zenon DEF QueryStart, Starts
<1>2. \A j \in 0..n : s[j] = IF j = 0 THEN 0 ELSE s[j - 1] + b[j].length
  BY <1>1 DEF Starts
<1>3. QED
  BY <1>1, <1>2

LEMMA ChunkType ==
    ASSUME NEW b \in Seq(Chunk), NEW j \in 1..Len(b)
    PROVE  /\ b[j].request \in Requests
           /\ b[j].length \in Nat \ {0}
<1>1. b[j] \in Chunk
  BY ElementOfSeq
<1>2. QED
  BY <1>1, StagingAssumption DEF Chunk

LEMMA QueryStartType ==
    ASSUME NEW b \in Seq(Chunk)
    PROVE  \A j \in 0..Len(b) : QueryStart(b)[j] \in Nat
<1> DEFINE T == {j \in Nat : j <= Len(b) => QueryStart(b)[j] \in Nat}
<1>1. 0 \in T
  BY QueryStartSteps
<1>2. ASSUME NEW j \in Nat, j \in T PROVE j + 1 \in T
  <2> SUFFICES ASSUME j + 1 <= Len(b) PROVE QueryStart(b)[j + 1] \in Nat
    OBVIOUS
  <2>1. j + 1 \in 1..Len(b) /\ QueryStart(b)[j] \in Nat
    BY <1>2
  <2>2. b[j + 1].length \in Nat
    BY <2>1, ChunkType
  <2>3. QueryStart(b)[j + 1] = QueryStart(b)[(j + 1) - 1] + b[j + 1].length
    BY <2>1, QueryStartSteps
  <2>4. QED
    BY <2>1, <2>2, <2>3
<1>3. Nat \subseteq T
  <2> HIDE DEF T
  <2> QED
    BY <1>1, <1>2, SetInduction
<1>4. QED
  BY <1>3

LEMMA QueryStartGrows ==
    ASSUME NEW b \in Seq(Chunk), NEW i \in 0..Len(b), NEW j \in 0..Len(b), i <= j
    PROVE  QueryStart(b)[i] <= QueryStart(b)[j]
<1> DEFINE T == {d \in Nat : i + d <= Len(b) => QueryStart(b)[i] <= QueryStart(b)[i + d]}
<1>1. 0 \in T
  BY QueryStartType
<1>2. ASSUME NEW d \in Nat, d \in T PROVE d + 1 \in T
  <2> SUFFICES ASSUME i + (d + 1) <= Len(b)
               PROVE  QueryStart(b)[i] <= QueryStart(b)[i + (d + 1)]
    OBVIOUS
  <2> DEFINE m == i + d + 1
  <2>1. m \in 1..Len(b) /\ m - 1 = i + d /\ m = i + (d + 1)
    OBVIOUS
  <2>2. b[m].length \in Nat
    BY <2>1, ChunkType
  <2>3. QueryStart(b)[m] = QueryStart(b)[m - 1] + b[m].length
    BY <2>1, QueryStartSteps
  <2>4. QueryStart(b)[i] <= QueryStart(b)[m - 1]
    BY <1>2, <2>1
  <2>5. QueryStart(b)[i] \in Nat /\ QueryStart(b)[m - 1] \in Nat
    BY <2>1, QueryStartType
  <2> HIDE DEF m
  <2>6. QueryStart(b)[i] <= QueryStart(b)[m]
    BY <2>2, <2>3, <2>4, <2>5
  <2>7. QED
    BY <2>1, <2>6
<1>3. Nat \subseteq T
  <2> HIDE DEF T
  <2> QED
    BY <1>1, <1>2, SetInduction
<1>4. j - i \in T
  BY <1>3
<1>5. i + (j - i) = j
  OBVIOUS
<1>6. QED
  BY <1>4, <1>5

(* The upper bound finds the chunk a token is in. *)
LEMMA RowIsChunk ==
    ASSUME NEW b \in Seq(Chunk), NEW j \in 1..Len(b), NEW i \in 0..(b[j].length - 1)
    PROVE  /\ RowOf(b, QueryStart(b), QueryStart(b)[j - 1] + i) = j
           /\ QueryStart(b)[j - 1] + i \in 0..(NumTokens(b) - 1)
           /\ QueryStart(b)[j - 1] \in Nat
<1> DEFINE start == QueryStart(b)
           t == start[j - 1] + i
<1>1. /\ start[j - 1] \in Nat /\ start[j] \in Nat /\ start[Len(b)] \in Nat
      /\ b[j].length \in Nat /\ start[j] = start[j - 1] + b[j].length
  BY QueryStartType, QueryStartSteps, ChunkType
<1>2. start[j] <= start[Len(b)]
  BY QueryStartGrows
<1> HIDE DEF start
<1>3. t \in Nat /\ start[j - 1] <= t /\ t < start[j]
  BY <1>1
<1>4. {m \in 1..(Len(b) - 1) : start[m] <= t} = 1..(j - 1)
  <2>1. ASSUME NEW m \in 1..(Len(b) - 1), m <= j - 1 PROVE start[m] <= t
    <3>1. start[m] <= start[j - 1] /\ start[m] \in Nat
      BY <2>1, QueryStartGrows, QueryStartType DEF start
    <3>2. QED
      BY <1>1, <1>3, <3>1
  <2>2. ASSUME NEW m \in 1..(Len(b) - 1), j <= m PROVE ~(start[m] <= t)
    <3>1. start[j] <= start[m] /\ start[m] \in Nat
      BY <2>2, QueryStartGrows, QueryStartType DEF start
    <3>2. QED
      BY <1>1, <1>3, <3>1
  <2> HIDE DEF t
  <2>3. QED
    BY <2>1, <2>2
<1>5. Cardinality(1..(j - 1)) = j - 1
  BY FS_Interval
<1>6. RowOf(b, start, t) = j
  <2> HIDE DEF t
  <2>1. RowOf(b, start, t) = 1 + Cardinality({m \in 1..(Len(b) - 1) : start[m] <= t})
    BY DEF RowOf
  <2>2. 1 + (j - 1) = j
    OBVIOUS
  <2>3. QED
    BY <1>4, <1>5, <2>1, <2>2
<1>7. t \in 0..(NumTokens(b) - 1)
  BY <1>1, <1>2, <1>3 DEF NumTokens, start
<1>8. QED
  BY <1>1, <1>6, <1>7 DEF start

----------------------------------------------------------------------------
(* What a token is looked up by *)

(* The input of step k has q's tokens from its chunk's first one to t.     *)
InputHasChunk(inputIds, q, k, first, t) ==
    \A m \in 0..(t - first) : inputIds[first + m] = TokenAt(q, computed[q] + m, k)

(* A token that is not before the request's start is found in the batch,   *)
(* or else in the lookback window.                                         *)
LEMMA SourceIsPast ==
    ASSUME TypeOK, NEW q \in Requests, NEW inputIds, NEW k, NEW first \in Nat, NEW t \in Nat,
           NEW p \in Nat, first <= t, p = computed[q] + (t - first),
           NEW shift \in Shifts, p - shift >= 0,
           InputHasChunk(inputIds, q, k, first, t)
    PROVE  Source(q, inputIds, t, p, shift) = TokenAt(q, p - shift, k)
<1> DEFINE lookback == p - shift
           col == computed[q] - 1 - lookback
           i == t - first
<1>0. text[q] \in Seq(Token)
  BY DEF TypeOK
<1>1. computed[q] \in Nat /\ shift \in Nat /\ shift <= MaxNgram - 1 /\ MaxNgram \in Nat
  BY StagingAssumption DEF TypeOK, Shifts
<1>2. p = computed[q] + i /\ i \in Nat
  OBVIOUS
<1> HIDE DEF i
<1>3. CASE shift <= i
  <2>1. i - shift \in 0..i /\ computed[q] + (i - shift) = lookback /\ lookback >= computed[q]
    BY <1>1, <1>2, <1>3
  <2>2. first + (i - shift) = t - shift
    BY <1>1 DEF i
  <2>3. inputIds[t - shift] = TokenAt(q, lookback, k)
    BY <2>1, <2>2 DEF InputHasChunk, i
  <2>4. Source(q, inputIds, t, p, shift) = inputIds[t - shift]
    BY <2>1, Zenon DEF Source
  <2>5. QED
    BY <2>3, <2>4
<1>4. CASE shift > i
  <2>1. lookback \in Nat /\ lookback < computed[q]
    BY <1>1, <1>2, <1>4
  <2>2. col < LookbackDepth
    BY <1>1, <1>2, <1>4 DEF LookbackDepth
  <2> HIDE DEF lookback
  <2>3. TokenAt(q, lookback, k) = text[q][lookback + 1] /\ lookback + 1 \in 1..Len(text[q])
    <3>1. Len(text[q]) \in Nat /\ computed[q] < Len(text[q])
      BY <1>0 DEF TypeOK
    <3>2. lookback < Len(text[q]) /\ lookback + 1 \in 1..Len(text[q])
      BY <1>1, <2>1, <3>1
    <3>3. QED
      BY <3>2, Zenon DEF TokenAt
  <2>4. (computed[q] - 1) - col = lookback /\ computed[q] - col = lookback + 1
    BY <1>1, <2>1
  <2> HIDE DEF col
  <2>5. Lookback(q, col) = text[q][lookback + 1]
    BY <2>1, <2>4 DEF Lookback
  <2>6. text[q][lookback + 1] \in Token
    BY <1>0, <2>3, ElementOfSeq
  <2>7. Lookback(q, col) # NoToken
    BY <2>5, <2>6, TokenAssumption
  <2>8. ~(lookback >= computed[q])
    BY <1>1, <2>1
  <2>9. Source(q, inputIds, t, p, shift) = Lookback(q, col)
    BY <2>2, <2>7, <2>8, Zenon DEF Source, lookback, col
  <2>10. QED
    BY <2>3, <2>5, <2>9 DEF lookback
<1>5. QED
  BY <1>1, <1>2, <1>3, <1>4

(* However the batch is cut, each of its tokens is looked up by the n-gram *)
(* that ends at it.                                                        *)
LEMMA HashIsTrueGram ==
    ASSUME TypeOK, NEW b \in Seq(Chunk), NEW k, NEW j \in 1..Len(b),
           NEW i \in 0..(b[j].length - 1)
    PROVE  Hashes(b, k)[QueryStart(b)[j - 1] + i]
             = TrueGram(b[j].request, computed[b[j].request] + i, k)
<1> DEFINE q == b[j].request
           start == QueryStart(b)
           first == start[j - 1]
           tokens == 0..(NumTokens(b) - 1)
           row == [t \in tokens |-> RowOf(b, start, t)]
           request == [t \in tokens |-> b[row[t]].request]
           position == [t \in tokens |-> computed[request[t]] + t - start[row[t] - 1]]
           inputIds == [t \in tokens |-> TokenAt(request[t], position[t], k)]
           source == [t \in tokens |-> [shift \in Shifts |->
                         Source(request[t], inputIds, t, position[t], shift)]]
           blocked(t, shift) == position[t] - shift < 0 \/ Dead(source[t][shift])
           p == computed[q] + i
<1>1. q \in Requests /\ computed[q] \in Nat /\ first \in Nat /\ b[j].length \in Nat
  BY RowIsChunk, ChunkType DEF TypeOK
<1>2. ASSUME NEW m \in 0..i
      PROVE  /\ first + m \in tokens
             /\ row[first + m] = j
             /\ request[first + m] = q
             /\ position[first + m] = computed[q] + m
             /\ inputIds[first + m] = TokenAt(q, computed[q] + m, k)
  <2>1. m \in 0..(b[j].length - 1)
    BY <1>1
  <2>2. first + m \in tokens /\ RowOf(b, start, first + m) = j
    BY <2>1, RowIsChunk
  <2>3. row[first + m] = j
    BY <2>2
  <2> HIDE DEF row
  <2>4. request[first + m] = q
    BY <2>2, <2>3
  <2> HIDE DEF request
  <2>5. position[first + m] = computed[q] + ((first + m) - first)
    BY <2>2, <2>3, <2>4
  <2>6. computed[q] + ((first + m) - first) = computed[q] + m
    <3> HIDE DEF first
    <3> QED
      BY <1>1
  <2>7. position[first + m] = computed[q] + m
    BY <2>5, <2>6
  <2> HIDE DEF position
  <2>8. inputIds[first + m] = TokenAt(q, computed[q] + m, k)
    BY <2>2, <2>4, <2>7
  <2>9. QED
    BY <2>2, <2>3, <2>4, <2>7, <2>8
<1> DEFINE t == first + i
<1>3. t \in tokens /\ request[t] = q /\ position[t] = p
  <2>1. i \in 0..i
    BY <1>1
  <2> HIDE DEF tokens, request, position, q, first
  <2>2. QED
    BY <1>2, <2>1
<1>4. Hashes(b, k) = [u \in tokens |-> [shift \in Shifts |->
            IF \E s \in 0..shift : blocked(u, s) THEN Pad ELSE source[u][shift]]]
  BY DEF Hashes
<1>5. ASSUME NEW shift \in Shifts, p - shift >= 0
      PROVE  source[t][shift] = TokenAt(q, p - shift, k)
  <2>1. source[t][shift] = Source(q, inputIds, t, p, shift)
    <3> HIDE DEF request, position, inputIds, p, q, first
    <3> QED
      BY <1>3
  <2>2. \A m \in 0..i : inputIds[first + m] = TokenAt(q, computed[q] + m, k)
    BY <1>2
  <2>3. /\ t \in Nat /\ first <= t /\ t - first = i /\ i \in Nat /\ p \in Nat
        /\ p = computed[q] + (t - first)
    <3> HIDE DEF first, q
    <3> QED
      BY <1>1
  <2>4. PICK ids : ids = inputIds
    OBVIOUS
  <2> HIDE DEF inputIds, first, q, p, t
  <2>5. InputHasChunk(ids, q, k, first, t)
    BY <2>2, <2>3, <2>4 DEF InputHasChunk
  <2>6. Source(q, ids, t, p, shift) = TokenAt(q, p - shift, k)
    BY <1>1, <1>5, <2>3, <2>5, SourceIsPast
  <2>7. QED
    BY <2>1, <2>4, <2>6, ZenonT(30)
<1>6. ASSUME NEW s \in Shifts
      PROVE  blocked(t, s) <=> p - s < 0 \/ Dead(TokenAt(q, p - s, k))
  <2>1. p \in Int /\ s \in Int
    BY <1>1 DEF Shifts
  <2> HIDE DEF source, position, p, q, t
  <2>2. CASE p - s < 0
    BY <1>3, <2>2
  <2>3. CASE ~(p - s < 0)
    <3>1. p - s >= 0
      BY <2>1, <2>3
    <3>2. source[t][s] = TokenAt(q, p - s, k)
      BY <1>5, <3>1
    <3>3. QED
      BY <1>3, <3>2
  <2>4. QED
    BY <2>2, <2>3
<1>7. ASSUME NEW shift \in Shifts
      PROVE  (IF \E s \in 0..shift : blocked(t, s) THEN Pad ELSE source[t][shift])
               = IF \E s \in 0..shift : p - s < 0 \/ Dead(TokenAt(q, p - s, k))
                 THEN Pad ELSE TokenAt(q, p - shift, k)
  <2>1. 0..shift \subseteq Shifts /\ shift \in 0..shift /\ p \in Int /\ shift \in Int
    BY <1>1, StagingAssumption DEF Shifts
  <2> HIDE DEF blocked, source, p, q, t
  <2>2. (\E s \in 0..shift : blocked(t, s))
          <=> \E s \in 0..shift : p - s < 0 \/ Dead(TokenAt(q, p - s, k))
    BY <1>6, <2>1
  <2>3. CASE p - shift < 0
    BY <2>1, <2>2, <2>3
  <2>4. CASE ~(p - shift < 0)
    <3>1. source[t][shift] = TokenAt(q, p - shift, k)
      BY <1>5, <2>1, <2>4
    <3>2. QED
      BY <2>2, <3>1
  <2>5. QED
    BY <2>3, <2>4
<1>8. Hashes(b, k)[t] = [shift \in Shifts |->
            IF \E s \in 0..shift : blocked(t, s) THEN Pad ELSE source[t][shift]]
  <2> HIDE DEF blocked, source, t, tokens
  <2> QED
    BY <1>3, <1>4
<1>9. QED
  <2> HIDE DEF blocked, source
  <2>1. Hashes(b, k)[t] = TrueGram(q, p, k)
    <3> HIDE DEF t, p, q
    <3> QED
      BY <1>7, <1>8 DEF TrueGram
  <2>2. QED
    BY <2>1

----------------------------------------------------------------------------
(* Theorems *)

IInv == TypeOK /\ InStep /\ BatchesFit /\ Buffers /\ RowsInFlight /\ PaddingStaysFinite

LEMMA InitIInv == Init => IInv
<1> SUFFICES ASSUME Init PROVE IInv
  OBVIOUS
<1>1. TypeOK /\ InStep
  BY InitTypeOK, InitInStep
<1>2. BatchesFit /\ Buffers
  BY DEF Init, BatchesFit, Buffers
<1>3. RowsInFlight
  BY StagingAssumption DEF Init, RowsInFlight, HeldFor, OpsPerStep
<1>4. PaddingStaysFinite
  BY DEF Init, PaddingStaysFinite, Zero
<1>5. QED
  BY <1>1, <1>2, <1>3, <1>4 DEF IInv

LEMMA NextIInv == IInv /\ [Next]_vars => IInv'
BY NextTypeOK, NextInStep, NextBatchesFit, NextBuffers, NextRowsInFlight, NextPadding DEF IInv

LEMMA Invariance == Spec => []IInv
BY InitIInv, NextIInv, PTL DEF Spec

LEMMA RowsAreExact == IInv => ForwardReadsItsRows
<1> SUFFICES ASSUME IInv, NEW r \in Ranks, AtForward(r)
             PROVE  \A l \in Layers, t \in DOMAIN Hashes(plan[run[r].step], run[r].step) :
                      stagedRows[r][l][t] =
                        <<l, Hashes(plan[run[r].step], run[r].step)[t]>>
  BY DEF ForwardReadsItsRows
<1>1. run[r].ops = NumLayers + 1 /\ run[r].step \in 0..MaxSteps
  BY DEF AtForward, IInv, TypeOK, Progress
<1>2. StagedHeld(r, run[r].step)
  BY <1>1, StagingAssumption DEF IInv, RowsInFlight, HeldFor, Held, OpsPerStep
<1>3. \A l \in Layers : l < run[r].ops
  BY <1>1, StagingAssumption DEF Layers
<1>4. DOMAIN Hashes(plan[run[r].step], run[r].step) = TokensOf(run[r].step)
  BY HashesDomain DEF TokensOf
<1>5. QED
  BY <1>2, <1>3, <1>4 DEF StagedHeld, Row

LEMMA GramsAreExact == IInv => HistoryIsExact
<1> SUFFICES ASSUME IInv, NEW r \in Ranks, AtForward(r),
                    NEW j \in 1..Len(plan[run[r].step]),
                    NEW i \in 0..(plan[run[r].step][j].length - 1)
             PROVE  LET k == run[r].step
                        b == plan[k]
                    IN  Hashes(b, k)[QueryStart(b)[j - 1] + i]
                          = TrueGram(b[j].request, computed[b[j].request] + i, k)
  BY DEF HistoryIsExact
<1>1. run[r].ops < OpsPerStep
  BY StagingAssumption DEF AtForward, OpsPerStep
<1>2. run[r].step \in 1..Len(plan)
  BY <1>1, ForwardIsPlanned DEF IInv
<1>3. PICK k : k = run[r].step
  OBVIOUS
<1>4. PICK b \in Seq(Chunk) : b = plan[k]
  BY <1>2, <1>3, ElementOfSeq DEF IInv, TypeOK
<1>5. Hashes(b, k)[QueryStart(b)[j - 1] + i]
        = TrueGram(b[j].request, computed[b[j].request] + i, k)
  BY <1>3, <1>4, HashIsTrueGram DEF IInv
<1>6. QED
  BY <1>3, <1>4, <1>5

(* The types are kept, whatever the batches: above all, no request is ever *)
(* said to have more tokens computed than it has.                          *)
THEOREM TypeCorrect == Spec => []TypeOK
<1>1. IInv => TypeOK
  BY DEF IInv
<1>2. QED
  BY <1>1, Invariance, PTL

(* However far a host runs ahead of its stream, the rows a forward reads   *)
(* are those of its own step (class EngramDiskStager, engram.py            *)
(* 1311-1325).                                                             *)
THEOREM ReadsItsRows == Spec => []ForwardReadsItsRows
<1>1. IInv => ForwardReadsItsRows
  BY RowsAreExact
<1>2. QED
  BY <1>1, Invariance, PTL

(* No uninitialized pinned memory ever reaches the buffers the forward     *)
(* reads (staged_rows, engram.py 1205-1214).                               *)
THEOREM PaddingIsFinite == Spec => []PaddingStaysFinite
<1>1. IInv => PaddingStaysFinite
  BY DEF IInv
<1>2. QED
  BY <1>1, Invariance, PTL

(* Whatever the batches are, a forward finds each of its tokens looked up  *)
(* by the n-gram that ends at it in its own request (class                 *)
(* DeepseekV41ModelState, model_state.py 53-56; engram.py 471-487).        *)
THEOREM HistoryIsRight == Spec => []HistoryIsExact
<1>1. IInv => HistoryIsExact
  BY GramsAreExact
<1>2. QED
  BY <1>1, Invariance, PTL

----------------------------------------------------------------------------
(* Refinement of SerialForward *)

(* All ranks have run the forwards of the same steps. *)
Lockstep == \A r, s \in Ranks : ForwardsRun(r) = ForwardsRun(s)

LEMMA MovesRunNoForward ==
    ASSUME TypeOK, NEW r \in Ranks, HostStep(r) \/ StreamStep(r), NEW s \in Ranks
    PROVE  ForwardsRun(s)' = ForwardsRun(s)
<1> USE StagingAssumption
<1>0. run[r].step \in Nat /\ run[r].ops \in 1..OpsPerStep
  BY DEF TypeOK, Progress
<1>1. CASE s # r \/ HostStep(r)
  <2>1. run'[s] = run[s]
    BY <1>1, OthersStay DEF HostStep, Begin, ReadRows, StageLayer, Launch
  <2>2. QED
    BY <2>1 DEF ForwardsRun
<1>2. CASE s = r /\ RunHash(r)
  <2>1. run'[r] = NextStep(run[r]) /\ run[r].ops = OpsPerStep
    BY <1>2 DEF RunHash, TypeOK
  <2>2. run'[r].step = run[r].step + 1 /\ run'[r].ops = 1 /\ OpsPerStep # 1
    BY <2>1 DEF NextStep, OpsPerStep
  <2>3. QED
    BY <1>0, <1>2, <2>1, <2>2 DEF ForwardsRun
<1>3. CASE s = r /\ RunCopy(r)
  <2>1. run'[r] = NextOp(run[r]) /\ run[r].ops \in Layers
    BY <1>3 DEF RunCopy, TypeOK
  <2>2. /\ run'[r].step = run[r].step
        /\ run[r].ops # OpsPerStep /\ run'[r].ops # OpsPerStep
    BY <2>1 DEF NextOp, OpsPerStep, Layers
  <2>3. QED
    BY <1>3, <2>2 DEF ForwardsRun
<1>4. QED
  BY <1>1, <1>2, <1>3 DEF StreamStep

LEMMA NextLockstep == TypeOK /\ Lockstep /\ [Next]_vars => Lockstep'
<1> SUFFICES ASSUME TypeOK, Lockstep, [Next]_vars
             PROVE  Lockstep'
  OBVIOUS
<1> USE StagingAssumption
<1>0. \A r \in Ranks : run[r].step \in Nat /\ run[r].ops \in 1..OpsPerStep
  BY DEF TypeOK, Progress
<1>1. ASSUME NEW r \in Ranks, HostStep(r) \/ StreamStep(r)
      PROVE  Lockstep'
  BY <1>1, MovesRunNoForward DEF Lockstep
<1>2. CASE RunForward
  <2>1. \A r \in Ranks : ForwardsRun(r) = run[r].step - 1 /\ ForwardsRun(r)' = run[r].step
    BY <1>2 DEF RunForward, AtForward, ForwardsRun, OpsPerStep
  <2>2. QED
    BY <1>0, <2>1 DEF Lockstep
<1>3. ASSUME UNCHANGED run
      PROVE  Lockstep'
  BY <1>3 DEF Lockstep, ForwardsRun
<1>4. QED
  BY <1>1, <1>2, <1>3 DEF Next, Schedule, Drained, vars, Lockstep

(* ForwardsDone is what each rank has run, and a rank at a forward is at   *)
(* the next one.                                                           *)
DoneIsForwardsRun ==
    /\ ForwardsDone \in Nat
    /\ \A r \in Ranks : ForwardsRun(r) = ForwardsDone
    /\ \A r \in Ranks : AtForward(r) =>
          run[r].step = ForwardsDone + 1 /\ run[r].step \in 1..Len(plan)

LEMMA DoneIsRight == TypeOK /\ InStep /\ Lockstep => DoneIsForwardsRun
<1> SUFFICES ASSUME TypeOK, InStep, Lockstep PROVE DoneIsForwardsRun
  OBVIOUS
<1>1. \A r \in Ranks : run[r].step \in 0..MaxSteps /\ run[r].ops \in 1..OpsPerStep
  BY DEF TypeOK, Progress
<1>2. \A r \in Ranks : ForwardsRun(r) \in 0..MaxSteps
  <2> SUFFICES ASSUME NEW r \in Ranks
               PROVE  ForwardsRun(r) \in 0..MaxSteps
    OBVIOUS
  <2>1. run[r].step = 0 => run[r].ops = OpsPerStep
    BY DEF InStep
  <2>2. CASE run[r].ops = OpsPerStep
    BY <1>1, <2>2 DEF ForwardsRun
  <2>3. CASE run[r].ops # OpsPerStep
    <3>1. run[r].step \in 1..MaxSteps
      BY <1>1, <2>1, <2>3, StagingAssumption
    <3>2. QED
      BY <2>3, <3>1, StagingAssumption DEF ForwardsRun
  <2>4. QED
    BY <2>2, <2>3
<1>3. \E k \in 0..MaxSteps : \E r \in Ranks : ForwardsRun(r) = k
  BY <1>2, StagingAssumption
<1>4. ForwardsDone \in 0..MaxSteps /\ \E r \in Ranks : ForwardsRun(r) = ForwardsDone
  BY <1>3 DEF ForwardsDone
<1>5. \A r \in Ranks : ForwardsRun(r) = ForwardsDone
  BY <1>4 DEF Lockstep
<1>6. ASSUME NEW r \in Ranks, AtForward(r)
      PROVE  run[r].step = ForwardsDone + 1 /\ run[r].step \in 1..Len(plan)
  <2>1. run[r].ops = NumLayers + 1 /\ run[r].ops < OpsPerStep
    BY <1>6, StagingAssumption DEF AtForward, OpsPerStep
  <2>2. ForwardsRun(r) = run[r].step - 1
    BY <2>1, <1>1, StagingAssumption DEF ForwardsRun, OpsPerStep
  <2>3. run[r].step \in 1..Len(plan)
    BY <2>1, ForwardIsPlanned
  <2>4. QED
    BY <1>1, <1>5, <2>2, <2>3
<1>7. QED
  BY <1>4, <1>5, <1>6 DEF DoneIsForwardsRun

(* The two modules speak of the same requests and n-grams. *)
LEMMA SameText ==
    /\ Serial!Layers = Layers /\ Serial!Chunk = Chunk /\ Serial!Token = Token
    /\ \A c : Serial!Drafts(c) = Drafts(c)
    /\ \A q, p, k : Serial!TokenAt(q, p, k) = TokenAt(q, p, k)
    /\ \A q, p, k : Serial!TrueGram(q, p, k) = TrueGram(q, p, k)
<1>1. Serial!Layers = Layers /\ Serial!Shifts = Shifts
  BY DEF Serial!Layers, Layers, Serial!Shifts, Shifts
<1>2. Serial!Chunk = Chunk
  BY DEF Serial!Chunk, Chunk
<1>3. Serial!Token = Token /\ \A c : Serial!Drafts(c) = Drafts(c)
  BY DEF Serial!Token, Token, Serial!Drafts, Drafts
<1>4. \A q, p, k : Serial!TokenAt(q, p, k) = TokenAt(q, p, k)
  BY DEF Serial!TokenAt, TokenAt, Serial!TokenOf, TokenOf
<1>5. \A t : Serial!Dead(t) <=> Dead(t)
  BY DEF Serial!Dead, Dead
<1>6. \A q, p, k : Serial!TrueGram(q, p, k) = TrueGram(q, p, k)
  BY <1>1, <1>4, <1>5 DEF Serial!TrueGram, TrueGram
<1>7. QED
  BY <1>1, <1>2, <1>3, <1>4, <1>6

(* What a rank presents to the forward it stands at is what the forward of *)
(* that step has to find.                                                  *)
LEMMA ReadByIsTrue ==
    ASSUME IInv, NEW r \in Ranks, AtForward(r)
    PROVE  ReadBy(r) = Serial!TrueRows(run[r].step)
<1>0. run[r].ops < OpsPerStep
  BY StagingAssumption DEF AtForward, OpsPerStep
<1>1. run[r].step \in 1..Len(plan)
  BY <1>0, ForwardIsPlanned DEF IInv
<1>2. PICK k : k = run[r].step
  OBVIOUS
<1>3. PICK b \in Seq(Chunk) : b = plan[k]
  BY <1>1, <1>2, ElementOfSeq DEF IInv, TypeOK
<1> DEFINE true(l, j, i) == <<l, TrueGram(b[j].request, computed[b[j].request] + i, k)>>
<1>4. ASSUME NEW l \in Layers, NEW j \in DOMAIN b, NEW i \in 0..(b[j].length - 1)
      PROVE  stagedRows[r][l][QueryStart(b)[j - 1] + i] = true(l, j, i)
  <2>1. j \in 1..Len(b)
    OBVIOUS
  <2>2. QueryStart(b)[j - 1] + i \in DOMAIN Hashes(b, k)
    BY <2>1, RowIsChunk, HashesDomain
  <2>3. PICK t : t = QueryStart(b)[j - 1] + i
    OBVIOUS
  <2>4. stagedRows[r][l][t] = <<l, Hashes(b, k)[t]>>
    BY <1>2, <1>3, <2>2, <2>3, RowsAreExact DEF ForwardReadsItsRows
  <2>5. Hashes(b, k)[t] = TrueGram(b[j].request, computed[b[j].request] + i, k)
    BY <2>1, <2>3, HashIsTrueGram DEF IInv
  <2>6. QED
    BY <2>3, <2>4, <2>5
<1>5. ReadBy(r) = [l \in Layers |-> [j \in DOMAIN b |-> [i \in 0..(b[j].length - 1) |->
                     stagedRows[r][l][QueryStart(b)[j - 1] + i]]]]
  BY <1>2, <1>3 DEF ReadBy
<1>6. Serial!TrueRows(k) = [l \in Layers |-> [j \in DOMAIN b |-> [i \in 0..(b[j].length - 1) |->
                              true(l, j, i)]]]
  BY <1>3, SameText DEF Serial!TrueRows
<1> HIDE DEF true
<1>7. QED
  BY <1>2, <1>4, <1>5, <1>6

(* Hence the abstract state is a matter of where the streams stand. *)
PresentedIsTrue ==
    Presented = [r \in Ranks |-> IF AtForward(r) THEN Serial!TrueRows(ForwardsDone + 1)
                                 ELSE Serial!Nothing]

LEMMA PresentedIsRight == IInv /\ Lockstep => PresentedIsTrue
<1> SUFFICES ASSUME IInv, Lockstep PROVE PresentedIsTrue
  OBVIOUS
<1>1. \A r \in Ranks : AtForward(r) => ReadBy(r) = Serial!TrueRows(ForwardsDone + 1)
  BY ReadByIsTrue, DoneIsRight DEF IInv, DoneIsForwardsRun
<1>2. QED
  BY <1>1 DEF Presented, PresentedIsTrue, Serial!Nothing

Mapped == DoneIsForwardsRun /\ PresentedIsTrue

(* What the model is given stays what it is until the requests grow. *)
LEMMA TrueRowsStable ==
    ASSUME UNCHANGED requestVars, NEW k, plan'[k] = plan[k]
    PROVE  Serial!TrueRows(k)' = Serial!TrueRows(k)
BY DEF requestVars, Serial!TrueRows, Serial!Layers, Serial!TrueGram, Serial!TokenAt,
       Serial!TokenOf, Serial!Shifts, Serial!Dead

LEMMA TrueRowsPresent == ASSUME NEW k PROVE Serial!TrueRows(k) # Serial!Nothing
<1>1. DOMAIN Serial!TrueRows(k) = 1..NumLayers
  BY DEF Serial!TrueRows, Serial!Layers
<1>2. 1 \in 1..NumLayers /\ DOMAIN Serial!Nothing = {}
  BY StagingAssumption DEF Serial!Nothing
<1>3. QED
  BY <1>1, <1>2

(* The engine may end up with fewer tokens than it drafted, but those it   *)
(* counts as computed are those the forward was given.                     *)
LEMMA SampledIsGiven ==
    ASSUME TypeOK, NEW c \in Chunk, NEW k \in 0..MaxSteps, NEW accepted \in Nat,
           ~(Drafts(c) < 0)
    PROVE  LET q == c.request
               grown == Sampled(c, k, accepted)
           IN  /\ Len(grown) = Len(text[q]) + accepted + 1
               /\ Advanced(c, accepted) = Len(text[q]) + accepted
               /\ \A p \in 0..(Len(text[q]) + accepted - 1) : grown[p + 1] = TokenAt(q, p, k)
<1> DEFINE q == c.request
           n == Len(text[q])
           drafts == [i \in 1..accepted |-> TokenOf(q, n + i - 1, k, TRUE)]
           last == <<TokenOf(q, n + accepted, k, FALSE)>>
           both == text[q] \o drafts
           grown == both \o last
<1>1. q \in Requests /\ text[q] \in Seq(Token) /\ n \in Nat
  BY StagingAssumption DEF TypeOK, Chunk
<1>2. drafts \in Seq(Token) /\ Len(drafts) = accepted
  <2>1. \A i \in 1..accepted : TokenOf(q, n + i - 1, k, TRUE) \in Token
    BY <1>1 DEF TokenOf, Token
  <2>2. drafts \in [1..accepted -> Token]
    BY <2>1
  <2> HIDE DEF drafts
  <2>3. QED
    BY <2>2, FunctionIsSeq
<1>3. last \in Seq(Token) /\ Len(last) = 1
  BY <1>1 DEF TokenOf, Token
<1>4. \A i \in 1..accepted : drafts[i] = TokenOf(q, n + i - 1, k, TRUE)
  OBVIOUS
<1>5. Sampled(c, k, accepted) = grown /\ Advanced(c, accepted) = n + accepted
  BY DEF Sampled, Advanced
<1> HIDE DEF drafts, last
<1>6. /\ both \in Seq(Token) /\ Len(both) = n + accepted
      /\ \A i \in 1..(n + accepted) : both[i] = IF i <= n THEN text[q][i] ELSE drafts[i - n]
  BY <1>1, <1>2, ConcatProperties
<1> HIDE DEF both
<1>7. /\ Len(grown) = n + accepted + 1
      /\ \A i \in 1..(n + accepted) : grown[i] = both[i]
  <2>1. /\ Len(grown) = Len(both) + Len(last)
        /\ \A i \in 1..(Len(both) + Len(last)) :
              grown[i] = IF i <= Len(both) THEN both[i] ELSE last[i - Len(both)]
    <3>1. \A s1, s2 \in Seq(Token) :
             /\ Len(s1 \o s2) = Len(s1) + Len(s2)
             /\ \A i \in 1..(Len(s1) + Len(s2)) :
                   (s1 \o s2)[i] = IF i <= Len(s1) THEN s1[i] ELSE s2[i - Len(s1)]
      BY ConcatProperties
    <3>2. both \in Seq(Token) /\ last \in Seq(Token)
      BY <1>3, <1>6
    <3>3. QED
      BY <3>1, <3>2
  <2> HIDE DEF grown, n
  <2>2. QED
    BY <1>1, <1>3, <1>6, <2>1
<1> HIDE DEF grown, n
<1>8. ASSUME NEW p \in 0..(n + accepted - 1)
      PROVE  grown[p + 1] = TokenAt(q, p, k)
  <2>1. p + 1 \in 1..(n + accepted) /\ p \in Nat
    BY <1>1
  <2>2. grown[p + 1] = both[p + 1]
    BY <1>7, <2>1
  <2>3. CASE p < n
    <3>1. both[p + 1] = text[q][p + 1]
      BY <1>1, <1>6, <2>1, <2>3
    <3>2. QED
      BY <2>2, <2>3, <3>1 DEF TokenAt, n
  <2>4. CASE ~(p < n)
    <3>1. both[p + 1] = drafts[(p + 1) - n]
      BY <1>1, <1>6, <2>1, <2>4
    <3>2. PICK i \in 1..accepted : i = (p + 1) - n
      BY <1>1, <2>1, <2>4
    <3>3. n + i - 1 = p
      BY <1>1, <3>2
    <3>4. drafts[i] = TokenOf(q, p, k, TRUE)
      BY <1>4, <3>3
    <3>5. QED
      BY <2>2, <2>4, <3>1, <3>2, <3>4 DEF TokenAt, n
  <2>5. QED
    BY <2>3, <2>4
<1>9. QED
  BY <1>5, <1>7, <1>8 DEF n

(* A rank that stands at a forward stays there until the forward runs, and *)
(* nobody else gets there by its steps.                                    *)
LEMMA MovesKeepForward ==
    ASSUME TypeOK, InStep, NEW r \in Ranks, HostStep(r) \/ StreamStep(r), NEW q \in Ranks
    PROVE  /\ AtForward(q) => AtForward(q)'
           /\ q # r => (AtForward(q)' <=> AtForward(q))
<1> USE StagingAssumption
<1>1. CASE q # r
  BY <1>1, OthersStay DEF AtForward, IssuedOf
<1>2. ASSUME q = r, AtForward(r)
      PROVE  AtForward(r)'
  <2>1. /\ issued[r].step \in Nat /\ issued[r].ops \in 1..OpsPerStep
        /\ run[r].step \in Nat /\ run[r].ops = NumLayers + 1
        /\ OpsPerStep = NumLayers + 2 /\ NumLayers \in Nat
    BY <1>2 DEF AtForward, TypeOK, Progress, OpsPerStep
  <2>2. ~RunHash(r) /\ ~RunCopy(r)
    BY <2>1 DEF RunHash, RunCopy, Layers
  <2>3. \/ run[r].step < issued[r].step
        \/ run[r].step = issued[r].step /\ issued[r].ops = OpsPerStep
    BY <1>2, <2>1 DEF AtForward, IssuedOf
  <2>4. CASE Begin(r)
    <3>1. run'[r] = run[r] /\ issued'[r] = NextStep(issued[r])
      BY <2>4 DEF Begin, TypeOK
    <3>2. issued'[r].step = issued[r].step + 1
      BY <3>1 DEF NextStep
    <3>3. QED
      BY <2>1, <2>3, <3>1, <3>2 DEF AtForward, IssuedOf
  <2>5. CASE ReadRows(r)
    BY <1>2, <2>5 DEF ReadRows, AtForward, IssuedOf
  <2>6. CASE StageLayer(r) \/ Launch(r)
    <3>1. /\ run'[r] = run[r] /\ issued'[r] = NextOp(issued[r])
          /\ issued[r].ops \in 1..(NumLayers + 1)
      BY <2>1, <2>6 DEF StageLayer, Launch, TypeOK, Layers
    <3>2. issued'[r].step = issued[r].step /\ run[r].step < issued[r].step
      BY <2>1, <2>3, <3>1 DEF NextOp
    <3>3. QED
      BY <2>1, <3>1, <3>2 DEF AtForward, IssuedOf
  <2>7. QED
    BY <2>2, <2>4, <2>5, <2>6 DEF HostStep, StreamStep
<1>3. QED
  BY <1>1, <1>2

(* A step of a rank presents its rows to the model, or nothing happens. *)
LEMMA MoveIsPresent ==
    ASSUME IInv, IInv', Mapped, Mapped', NEW r \in Ranks, HostStep(r) \/ StreamStep(r)
    PROVE  Serial!Present(r) \/ UNCHANGED Serial!serialVars
<1> DEFINE true == Serial!TrueRows(ForwardsDone + 1)
<1>1. UNCHANGED <<plan, text, computed>>
  BY OthersKeep DEF IInv, requestVars
<1>2. ForwardsDone' = ForwardsDone
  <2>1. ForwardsRun(r)' = ForwardsRun(r)
    BY MovesRunNoForward DEF IInv
  <2>2. QED
    BY <2>1 DEF Mapped, DoneIsForwardsRun
<1>3. \A q \in Ranks : /\ AtForward(q) => AtForward(q)'
                       /\ q # r => (AtForward(q)' <=> AtForward(q))
  BY MovesKeepForward DEF IInv
<1>4. true' = true
  BY <1>1, <1>2, TrueRowsStable DEF requestVars
<1>5. Presented = [q \in Ranks |-> IF AtForward(q) THEN true ELSE Serial!Nothing]
  BY DEF Mapped, PresentedIsTrue
<1>6. Presented' = [q \in Ranks |-> IF AtForward(q)' THEN true' ELSE Serial!Nothing]
  BY DEF Mapped, PresentedIsTrue, Serial!Nothing
<1> HIDE DEF true
<1>7. CASE AtForward(r)' <=> AtForward(r)
  <2>1. Presented' = Presented
    BY <1>3, <1>4, <1>5, <1>6, <1>7
  <2>2. QED
    BY <1>1, <1>2, <2>1 DEF Serial!serialVars
<1>8. CASE ~(AtForward(r)' <=> AtForward(r))
  <2>1. ~AtForward(r) /\ AtForward(r)'
    BY <1>3, <1>8
  <2>2. Presented[r] = Serial!Nothing
    BY <1>5, <2>1
  <2>3. Presented' = [Presented EXCEPT ![r] = true]
    BY <1>3, <1>4, <1>5, <1>6, <2>1
  <2>4. ForwardsDone + 1 \in 1..Len(plan)
    <3>1. run'[r].step = ForwardsDone' + 1 /\ run'[r].step \in 1..Len(plan')
      BY <2>1 DEF Mapped, DoneIsForwardsRun
    <3>2. QED
      BY <1>1, <1>2, <3>1
  <2>5. ForwardsDone < Len(plan)
    BY <2>4 DEF Mapped, DoneIsForwardsRun, IInv, TypeOK
  <2>6. QED
    BY <1>1, <1>2, <2>2, <2>3, <2>5 DEF Serial!Present, true
<1>9. QED
  BY <1>7, <1>8

LEMMA ScheduleIsPlan ==
    ASSUME IInv, IInv', Mapped, Mapped', NEW b \in Batches, Schedule(b)
    PROVE  Serial!Plan
<1>1. /\ plan' = Append(plan, b) /\ plan \in Seq(Seq(Chunk)) /\ b \in Seq(Chunk)
      /\ plan' \in Seq(Seq(Chunk))
  BY BatchIsSeq DEF Schedule, IInv, TypeOK
<1>2. Len(plan') = Len(plan) + 1 /\ \A k \in DOMAIN plan : plan'[k] = plan[k]
  BY <1>1
<1>3. UNCHANGED <<text, computed, issued, run>>
  BY DEF Schedule, requestVars
<1>4. \A r \in Ranks : /\ AtForward(r)' <=> AtForward(r)
                       /\ ForwardsRun(r)' = ForwardsRun(r)
  BY <1>3 DEF AtForward, IssuedOf, ForwardsRun
<1>5. ForwardsDone' = ForwardsDone
  BY <1>4, StagingAssumption DEF Mapped, DoneIsForwardsRun
<1>6. Presented' = Presented
  <2>1. CASE \E r \in Ranks : AtForward(r)
    <3>1. ForwardsDone + 1 \in DOMAIN plan
      BY <2>1, <1>1 DEF Mapped, DoneIsForwardsRun
    <3>2. Serial!TrueRows(ForwardsDone + 1)' = Serial!TrueRows(ForwardsDone + 1)
      BY <1>2, <1>3, <1>5, <3>1, TrueRowsStable DEF requestVars
    <3>3. QED
      BY <1>4, <3>2 DEF Mapped, PresentedIsTrue, Serial!Nothing
  <2>2. CASE ~\E r \in Ranks : AtForward(r)
    BY <1>4, <2>2 DEF Mapped, PresentedIsTrue, Serial!Nothing
  <2>3. QED
    BY <2>1, <2>2
<1>7. QED
  BY <1>1, <1>2, <1>3, <1>5, <1>6, SameText DEF Serial!Plan

LEMMA RunForwardIsForward ==
    ASSUME IInv, IInv', Mapped, Mapped', RunForward
    PROVE  Serial!Forward
<1>1. PICK k \in {run[r].step : r \in Ranks}, accepted \in [Requests -> 0..MaxDrafts] :
         LET chunks(q) == ChunksOf(plan[k], q)
             chunk(q) == CHOOSE c \in chunks(q) : TRUE
         IN  /\ \A q \in Requests :
                   accepted[q] > 0 => chunks(q) # {} /\ accepted[q] <= Drafts(chunk(q))
             /\ text' = [q \in Requests |->
                           IF chunks(q) = {} THEN text[q] ELSE Sampled(chunk(q), k, accepted[q])]
             /\ computed' = [q \in Requests |->
                               IF chunks(q) = {} THEN computed[q] ELSE Advanced(chunk(q), accepted[q])]
  BY DEF RunForward
<1>2. \A r \in Ranks : AtForward(r)
  BY DEF RunForward
<1>3. k = ForwardsDone + 1 /\ k \in 1..Len(plan)
  BY <1>1, <1>2 DEF Mapped, DoneIsForwardsRun
<1>4. k \in 0..MaxSteps /\ ForwardsDone < Len(plan)
  <2>1. Len(plan) \in Nat /\ Len(plan) <= MaxSteps /\ MaxSteps \in Nat
    BY StagingAssumption DEF IInv, TypeOK
  <2>2. ForwardsDone \in Nat
    BY DEF Mapped, DoneIsForwardsRun
  <2>3. QED
    BY <1>3, <2>1, <2>2
<1>5. UNCHANGED plan
  BY DEF RunForward
<1>6. text' \in [Requests -> Seq(Token)] /\ computed' \in [Requests -> Nat]
  BY DEF IInv, TypeOK
<1>7. ForwardsDone' = k
  <2>1. PICK r \in Ranks : TRUE
    BY StagingAssumption
  <2>2. ForwardsRun(r)' = run[r].step
    BY DEF RunForward, ForwardsRun, OpsPerStep
  <2>3. run[r].step = k
    BY <1>2, <1>3 DEF Mapped, DoneIsForwardsRun
  <2>4. QED
    BY <2>2, <2>3 DEF Mapped, DoneIsForwardsRun
<1>8. Presented' = [r \in Ranks |-> Serial!Nothing]
  <2>1. \A r \in Ranks : ~AtForward(r)'
    BY StagingAssumption DEF RunForward, AtForward, OpsPerStep
  <2>2. QED
    BY <2>1 DEF Mapped, PresentedIsTrue, Serial!Nothing
<1>9. \A r \in Ranks : Presented[r] # Serial!Nothing
  BY <1>2, TrueRowsPresent DEF Mapped, PresentedIsTrue
<1> DEFINE b == plan[k]
<1>10. b \in Seq(Chunk)
  BY <1>3, ElementOfSeq DEF IInv, TypeOK
<1>11. ASSUME NEW q \in Requests
       PROVE  \/ {j \in DOMAIN b : b[j].request = q} = {} /\ Serial!Untouched(q)
              \/ \E j \in {i \in DOMAIN b : b[i].request = q} :
                    Serial!Prefilled(b[j]) \/ Serial!Generated(b[j], k)
  <2>1. CASE ChunksOf(b, q) = {}
    <3>1. {j \in DOMAIN b : b[j].request = q} = {}
      BY <1>10, <2>1 DEF ChunksOf
    <3>2. text'[q] = text[q] /\ computed'[q] = computed[q]
      BY <1>1, <2>1
    <3>3. QED
      BY <3>1, <3>2 DEF Serial!Untouched
  <2>2. CASE ChunksOf(b, q) # {}
    <3>1. PICK c : c = CHOOSE x \in ChunksOf(b, q) : TRUE
      OBVIOUS
    <3>2. c \in ChunksOf(b, q)
      BY <2>2, <3>1
    <3>3. PICK j \in 1..Len(b) : b[j] = c /\ c.request = q
      BY <3>2 DEF ChunksOf
    <3>4. j \in {i \in DOMAIN b : b[i].request = q}
      BY <1>10, <3>3
    <3>5. c \in Chunk
      BY <1>10, <3>3, ElementOfSeq
    <3>6. PICK n \in Nat : n = accepted[q]
      OBVIOUS
    <3>7. /\ text'[q] = Sampled(c, k, n) /\ computed'[q] = Advanced(c, n)
          /\ n > 0 => n <= Drafts(c)
      BY <1>1, <2>2, <3>1, <3>6
    <3>8. CASE Drafts(c) < 0
      <4>1. text'[q] = text[q] /\ computed'[q] = computed[q] + c.length
        BY <3>3, <3>7, <3>8 DEF Sampled, Advanced
      <4>2. Serial!Prefilled(c)
        BY <3>3, <3>8, <4>1, SameText DEF Serial!Prefilled
      <4>3. QED
        BY <3>3, <3>4, <4>2
    <3>9. CASE ~(Drafts(c) < 0)
      <4>1. /\ Len(text'[q]) = Len(text[q]) + n + 1
            /\ computed'[q] = Len(text[q]) + n
            /\ \A p \in 0..(Len(text[q]) + n - 1) : text'[q][p + 1] = TokenAt(q, p, k)
        <5>1. TypeOK
          BY DEF IInv
        <5>2. /\ Len(Sampled(c, k, n)) = Len(text[q]) + n + 1
              /\ Advanced(c, n) = Len(text[q]) + n
              /\ \A p \in 0..(Len(text[q]) + n - 1) : Sampled(c, k, n)[p + 1] = TokenAt(q, p, k)
          BY <1>4, <3>3, <3>5, <3>9, <5>1, SampledIsGiven
        <5>3. QED
          BY <3>7, <5>2
      <4>2. Len(text[q]) \in Nat /\ Drafts(c) \in Int
        <5>1. text[q] \in Seq(Token) /\ computed[q] \in Nat
          BY DEF IInv, TypeOK
        <5>2. c.length \in Nat
          BY <3>5, StagingAssumption DEF Chunk
        <5>3. QED
          BY <3>3, <5>1, <5>2 DEF Drafts
      <4>3. /\ Len(text'[q]) - Len(text[q]) \in 1..(Drafts(c) + 1)
            /\ computed'[q] = Len(text'[q]) - 1
            /\ Drafts(c) >= 0
        BY <3>7, <3>9, <4>1, <4>2
      <4>4. \A p \in 0..(computed'[q] - 1) : text'[q][p + 1] = TokenAt(q, p, k)
        BY <4>1
      <4>5. Serial!Generated(c, k)
        BY <3>3, <4>3, <4>4, SameText DEF Serial!Generated
      <4>6. QED
        BY <3>3, <3>4, <4>5
    <3>10. QED
      BY <3>8, <3>9
  <2>3. QED
    BY <2>1, <2>2
<1>12. \A q \in Requests :
         \/ {j \in DOMAIN b : b[j].request = q} = {} /\ Serial!Untouched(q)
         \/ \E j \in {i \in DOMAIN b : b[i].request = q} :
               Serial!Prefilled(b[j]) \/ Serial!Generated(b[j], k)
  BY <1>11
<1> DEFINE chunksOf(q) == {j \in DOMAIN plan[ForwardsDone + 1] :
                            plan[ForwardsDone + 1][j].request = q}
<1>13. \A q \in Requests :
         \/ chunksOf(q) = {} /\ Serial!Untouched(q)
         \/ \E j \in chunksOf(q) : \/ Serial!Prefilled(plan[ForwardsDone + 1][j])
                                  \/ Serial!Generated(plan[ForwardsDone + 1][j], ForwardsDone + 1)
  BY <1>3, <1>12
<1>14. text' \in [Requests -> Seq(Serial!Token)]
  BY <1>6, SameText
<1>15. ForwardsDone' = ForwardsDone + 1
  BY <1>3, <1>7
<1> HIDE DEF b
<1>16. QED
  BY <1>4, <1>5, <1>6, <1>8, <1>9, <1>13, <1>14, <1>15, Zenon DEF Serial!Forward

LEMMA SerialStep ==
    IInv /\ IInv' /\ Mapped /\ Mapped' /\ [Next]_vars => [Serial!SerialNext]_(Serial!serialVars)
<1> SUFFICES ASSUME IInv, IInv', Mapped, Mapped', [Next]_vars
             PROVE  Serial!SerialNext \/ UNCHANGED Serial!serialVars
  OBVIOUS
<1>1. ASSUME NEW b \in Batches, Schedule(b)
      PROVE  Serial!SerialNext
  BY <1>1, ScheduleIsPlan DEF Serial!SerialNext
<1>2. ASSUME NEW r \in Ranks, HostStep(r) \/ StreamStep(r)
      PROVE  Serial!SerialNext \/ UNCHANGED Serial!serialVars
  BY <1>2, MoveIsPresent DEF Serial!SerialNext
<1>3. CASE RunForward
  BY <1>3, RunForwardIsForward DEF Serial!SerialNext
<1>4. CASE Drained \/ UNCHANGED vars
  BY <1>4, ZenonT(30)
  DEF Drained, vars, requestVars, bufferVars, Serial!serialVars, ForwardsDone, ForwardsRun,
     Presented, ReadBy, AtForward, IssuedOf
<1>5. QED
  BY <1>1, <1>2, <1>3, <1>4 DEF Next

LEMMA SerialStart == Init => Lockstep /\ Serial!SerialInit
<1> SUFFICES ASSUME Init PROVE Lockstep /\ Serial!SerialInit
  OBVIOUS
<1>1. \A r \in Ranks : ForwardsRun(r) = 0 /\ ~AtForward(r)
  <2>1. \A r \in Ranks : run[r].step = 0 /\ run[r].ops = OpsPerStep
    BY DEF Init
  <2>2. OpsPerStep # NumLayers + 1
    BY StagingAssumption DEF OpsPerStep
  <2>3. QED
    BY <2>1, <2>2 DEF ForwardsRun, AtForward
<1>2. Lockstep
  BY <1>1 DEF Lockstep
<1>3. ForwardsDone = 0
  BY <1>1, <1>2, InitTypeOK, InitInStep, DoneIsRight, StagingAssumption DEF DoneIsForwardsRun
<1>4. Presented = [r \in Ranks |-> Serial!Nothing]
  BY <1>1 DEF Presented, Serial!Nothing
<1>5. computed \in [Requests -> Nat] /\ \A q \in Requests : computed[q] < PromptLength[q]
  BY StagingAssumption DEF Init
<1>6. QED
  BY <1>2, <1>3, <1>4, <1>5 DEF Init, Serial!SerialInit, TokenOf, Serial!TokenOf

(* No rank ever works on another step than the one all ranks meet in next: *)
(* the staging has no barrier of its own, the all-gathers of the forward   *)
(* keep the ranks in step (engram.py 1311-1325).                           *)
THEOREM RanksStayInStep == Spec => []Lockstep
<1>1. Init => Lockstep
  BY SerialStart
<1>2. IInv => TypeOK
  BY DEF IInv
<1>3. QED
  BY <1>1, <1>2, NextLockstep, Invariance, PTL DEF Spec

(* To the model the pipeline of hosts, streams and buffers is a serial     *)
(* engine: SerialForward, whose steps find the rows of their own n-grams.  *)
THEOREM ImplementsSerial == Spec => KeepsSerialOrder
<1>1. Init => Serial!SerialInit
  BY SerialStart
<1>2. IInv /\ Lockstep => Mapped
  BY DoneIsRight, PresentedIsRight DEF IInv, Mapped
<1>3. QED
  BY <1>1, <1>2, SerialStep, Invariance, RanksStayInStep, PTL
     DEF Spec, KeepsSerialOrder, Serial!SerialSpec

=============================================================================
