--------------------------- MODULE SerialForward ---------------------------
(***************************************************************************)
(* What the staging of n-gram rows promises the model: the steps run one   *)
(* after the other, in the order they were scheduled, as if there were one *)
(* host, one stream and no buffer.  Each rank in its own time is given the *)
(* rows of the next step, those of the n-grams that end at the step's      *)
(* tokens; when all ranks have them, the forward runs and the requests     *)
(* grow.  EngramStaging implements it.                                     *)
(***************************************************************************)
EXTENDS EngramText

VARIABLES
    done,              \* steps whose forward has run
    presented          \* per rank: the rows it has for the next step, per layer, chunk and token

serialVars == <<plan, text, computed, done, presented>>

Nothing == <<>>

(* The rows of a step: in every layer, for every token of every chunk,     *)
(* that of the n-gram that ends at the token.                              *)
TrueRows(k) ==
    [l \in Layers |-> [j \in DOMAIN plan[k] |-> [i \in 0..(plan[k][j].length - 1) |->
        LET q == plan[k][j].request IN <<l, TrueGram(q, computed[q] + i, k)>>]]]

SerialInit ==
    /\ plan = <<>>
    /\ text = [q \in Requests |-> [p \in 1..PromptLength[q] |-> TokenOf(q, p - 1, 0, FALSE)]]
    /\ computed \in [Requests -> Nat]
    /\ \A q \in Requests : computed[q] < PromptLength[q]
    /\ done = 0
    /\ presented = [r \in Ranks |-> Nothing]

(* Another step is planned. *)
Plan ==
    /\ plan' \in Seq(Seq(Chunk))
    /\ Len(plan') = Len(plan) + 1
    /\ \A k \in DOMAIN plan : plan'[k] = plan[k]
    /\ UNCHANGED <<text, computed, done, presented>>

Present(r) ==
    /\ done < Len(plan)
    /\ presented[r] = Nothing
    /\ presented' = [presented EXCEPT ![r] = TrueRows(done + 1)]
    /\ UNCHANGED <<plan, text, computed, done>>

Untouched(q) == text'[q] = text[q] /\ computed'[q] = computed[q]

(* A piece of a prompt that is not its end. *)
Prefilled(c) ==
    LET q == c.request
    IN  /\ Drafts(c) < 0
        /\ text'[q] = text[q]
        /\ computed'[q] = computed[q] + c.length

(* Some of the drafts are accepted, and a token is added that has yet to   *)
(* be computed.  Every computed token is the one the forward was given.    *)
Generated(c, k) ==
    LET q == c.request
    IN  /\ Drafts(c) >= 0
        /\ Len(text'[q]) - Len(text[q]) \in 1..(Drafts(c) + 1)
        /\ computed'[q] = Len(text'[q]) - 1
        /\ \A p \in 0..(computed'[q] - 1) : text'[q][p + 1] = TokenAt(q, p, k)

Forward ==
    LET k == done + 1
        chunks(q) == {j \in DOMAIN plan[k] : plan[k][j].request = q}
    IN  /\ done < Len(plan)
        /\ \A r \in Ranks : presented[r] # Nothing
        /\ text' \in [Requests -> Seq(Token)]
        /\ computed' \in [Requests -> Nat]
        /\ \A q \in Requests :
              \/ chunks(q) = {} /\ Untouched(q)
              \/ \E j \in chunks(q) : Prefilled(plan[k][j]) \/ Generated(plan[k][j], k)
        /\ done' = k
        /\ presented' = [r \in Ranks |-> Nothing]
        /\ UNCHANGED plan

SerialNext ==
    \/ Plan
    \/ \E r \in Ranks : Present(r)
    \/ Forward

SerialSpec == SerialInit /\ [][SerialNext]_serialVars

=============================================================================
