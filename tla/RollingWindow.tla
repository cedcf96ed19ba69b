--------------------------- MODULE RollingWindow ---------------------------
(***************************************************************************)
(* What the sidecar makes of a transcript before it is queued: the token   *)
(* estimate, the reserved limit, the rolling window and submit's size      *)
(* check (catchup/service.py).  A harness appends turns to one session's   *)
(* transcript, compacts it, and posts it after each change.                *)
(*                                                                         *)
(* A message is its role, as far as the window tells roles apart, and the  *)
(* number of characters the estimate counts for it.                        *)
(***************************************************************************)
EXTENDS Integers, Sequences

CONSTANTS
    Sizes,             \* characters a message may have
    MaxMessages,       \* bound: messages in the transcript
    MaxContext         \* max_context of the posts

ASSUME WindowAssumption ==
    /\ Sizes \subseteq Nat
    /\ MaxMessages \in Nat
    /\ MaxContext \in Nat \ {0}

VARIABLES
    transcript,        \* the messages the harness posts
    rolled,            \* the messages submit hashes and warms
    verdict            \* "none", "accepted" or "rejected" (HTTP 400)

vars == <<transcript, rolled, verdict>>

Message == [system : BOOLEAN, size : Sizes]

Verdicts == {"none", "accepted", "rejected"}

TypeOK ==
    /\ transcript \in Seq(Message)
    /\ rolled \in Seq(Message)
    /\ verdict \in Verdicts

----------------------------------------------------------------------------
AtLeastOne(n) == IF n < 1 THEN 1 ELSE n

Chars(messages) ==
    LET total[i \in 0..Len(messages)] == IF i = 0 THEN 0 ELSE total[i - 1] + messages[i].size
    IN  total[Len(messages)]

(* estimate_prompt_tokens: four characters to a token, rounded up. *)
Estimate(messages) == AtLeastOne((Chars(messages) + 3) \div 4)

(* reserved_limit: nine tenths of the context, RESERVE_FRACTION being 0.1. *)
ReservedLimit(value) == IF value <= 0 THEN 0 ELSE AtLeastOne(value - value \div 10)

(* The first message, if it is the system prompt. *)
SystemPart(messages) ==
    IF messages # <<>> /\ Head(messages).system THEN <<Head(messages)>> ELSE <<>>

Body(messages) == SubSeq(messages, Len(SystemPart(messages)) + 1, Len(messages))

(* Mutant: the last two messages are never dropped. *)
KeptTwo(system, body, limit) ==
    LET roll[i \in 1..Len(body) + 1] ==
            LET kept == SubSeq(body, i, Len(body)) IN
            IF Len(kept) <= 2 \/ Estimate(system \o kept) <= limit THEN kept ELSE roll[i + 1]
    IN  roll[1]

(* The loop: drop the oldest message after the system prompt until the     *)
(* rest fits, never the last one.                                          *)
Kept(system, body, limit) ==
    LET roll[i \in 1..Len(body) + 1] ==
            LET kept == SubSeq(body, i, Len(body)) IN
            IF Len(kept) <= 1 \/ Estimate(system \o kept) <= limit THEN kept ELSE roll[i + 1]
    IN  roll[1]

(* apply_rolling_window: what fits as a whole is left alone. *)
Window(messages, maxContext) ==
    LET limit == ReservedLimit(maxContext)
        system == SystemPart(messages)
    IN  IF limit <= 0 \/ Estimate(messages) <= limit
        THEN messages
        ELSE system \o Kept(system, Body(messages), limit)

(* Mutant: the window alone reserves. *)
RolledReservedOnce(messages) == Window(messages, MaxContext)

(* submit reserves first and hands the reserved limit to the window, which *)
(* reserves again.                                                         *)
Rolled(messages) == Window(messages, ReservedLimit(MaxContext))

(* Mutant: a prompt as large as the limit passes. *)
FitsInclusive(messages) == Estimate(messages) <= ReservedLimit(MaxContext)

Fits(messages) == Estimate(messages) < ReservedLimit(MaxContext)

----------------------------------------------------------------------------
Init ==
    /\ transcript = <<>>
    /\ rolled = <<>>
    /\ verdict = "none"

(* The harness posts what it now has; a rejected post records nothing. *)
Post(messages) ==
    /\ transcript' = messages
    /\ rolled' = Rolled(messages)
    /\ verdict' = IF Fits(rolled') THEN "accepted" ELSE "rejected"

Turn(m) ==
    /\ Len(transcript) < MaxMessages
    /\ Post(Append(transcript, m))

Compact(m) ==
    /\ Len(transcript) > 1
    /\ Post(Append(SystemPart(transcript), m))

Next == \E m \in Message : Turn(m) \/ Compact(m)

Spec == Init /\ [][Next]_vars

----------------------------------------------------------------------------
LastOf(messages, n) == SubSeq(messages, Len(messages) - n + 1, Len(messages))

(* Reference: what is warmed is the system prompt and the longest tail     *)
(* that fits the window, the last message being kept even if it does not   *)
(* fit (apply_rolling_window 113-126).                                     *)
LongestTailThatFits ==
    transcript # <<>> =>
        LET system == SystemPart(transcript)
            body == Body(transcript)
            fits(n) == Estimate(system \o LastOf(body, n)) <= ReservedLimit(ReservedLimit(MaxContext))
        IN  \E n \in 0..Len(body) :
                /\ rolled = system \o LastOf(body, n)
                /\ n <= 1 \/ fits(n)
                /\ body # <<>> => n >= 1
                /\ \A longer \in n + 1..Len(body) : ~fits(longer)

(* A post is refused only if nothing more can be dropped: the window's     *)
(* limit and submit's stricter comparison never refuse a transcript that   *)
(* dropping one more old message would let through (346-349).              *)
RejectedOnlyIfIrreducible ==
    verdict = "rejected" => Len(Body(rolled)) <= 1

(* What is accepted leaves a tenth of the context free by the estimate     *)
(* (RESERVE_FRACTION 20-25, submit 342-349).                               *)
AcceptedLeavesHeadroom ==
    verdict = "accepted" => 10 * Estimate(rolled) <= 9 * MaxContext

(* The comment at service.py 20-25 and the refusal at 346-349 say the      *)
(* reserved window is nine tenths of the context: a transcript inside it   *)
(* is warmed whole, so that the real turn finds the very same prefix.      *)
WholeInsideReservedWindow ==
    verdict = "accepted" /\ Fits(transcript) => rolled = transcript

=============================================================================
