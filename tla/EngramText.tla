----------------------------- MODULE EngramText -----------------------------
(***************************************************************************)
(* What the DeepSeek engine's requests, batches and n-grams are: shared by *)
(* EngramStaging, which brings the rows of the n-grams to the GPU, and     *)
(* SerialForward, which says what a forward has to find there.             *)
(*                                                                         *)
(* Token ids, hash ids and table rows are abstract: a row is named by its  *)
(* layer and by the n-gram it was looked up for.                           *)
(***************************************************************************)
EXTENDS Integers, Sequences

CONSTANTS
    Ranks,             \* tensor-parallel ranks
    Requests,          \* requests being served
    PromptLength,      \* tokens of each request's prompt
    Sentinels,         \* <<request, position>> of image tokens (image_sentinel_mask)
    NumLayers,         \* engram layers
    MaxNgram,          \* max_ngram_size
    MaxTokens,         \* rows of a staging buffer: the most tokens a step has
    Pad,               \* pad_id; also what pinned memory names before it is written
    MaxSteps           \* bound: steps scheduled

VARIABLES
    plan,              \* the batches the executor broadcast, one per step
    text,              \* all_token_ids: each request's tokens, on every GPU
    computed           \* num_computed_tokens, on every GPU

Layers == 1..NumLayers
Shifts == 0..(MaxNgram - 1)

(* draft: proposed by the speculator for this step, not yet accepted. *)
Token == [request : Requests, position : Nat, step : 0..MaxSteps, draft : BOOLEAN]
TokenOf(q, p, k, isDraft) == [request |-> q, position |-> p, step |-> k, draft |-> isDraft]

Dead(token) == token # Pad /\ <<token.request, token.position>> \in Sentinels

(* A batch is a sequence of chunks: each is a piece of a prompt, or one    *)
(* generated token and drafts.                                             *)
Chunk == [request : Requests, length : 1..MaxTokens]

(* How far a chunk reaches beyond the tokens that exist: its drafts.  It   *)
(* is negative while the prompt is not finished.                           *)
Drafts(c) == computed[c.request] + c.length - Len(text[c.request])

(* The token at a position of request q during step k: prompt, generated,  *)
(* or a draft of this step.                                                *)
TokenAt(q, p, k) == IF p < Len(text[q]) THEN text[q][p + 1] ELSE TokenOf(q, p, k, TRUE)

(* The n-gram that ends at a position, read off the request itself. *)
TrueGram(q, p, k) ==
    [shift \in Shifts |->
        IF \E s \in 0..shift : p - s < 0 \/ Dead(TokenAt(q, p - s, k))
        THEN Pad ELSE TokenAt(q, p - shift, k)]

=============================================================================
