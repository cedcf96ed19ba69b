------------------------ MODULE RollingWindowProofs ------------------------
(***************************************************************************)
(* Machine-checked proofs about RollingWindow, for transcripts of any      *)
(* length, messages of any size and any max_context.                       *)
(***************************************************************************)
EXTENDS RollingWindow, NatSetInduction, SequenceTheorems, TLAPS

----------------------------------------------------------------------------
(* The estimate *)

(* f adds up the sizes of the first n messages. *)
Totals(f, messages, n) ==
    f = [i \in 0..n |-> IF i = 0 THEN 0 ELSE f[i - 1] + messages[i].size]

LEMMA TotalsExist ==
    ASSUME NEW messages, NEW n \in Nat
    PROVE  \E f : Totals(f, messages, n)
<1> DEFINE T == {k \in Nat : \E f : Totals(f, messages, k)}
<1>1. 0 \in T
  <2>1. Totals([i \in 0..0 |-> 0], messages, 0)
    BY DEF Totals
  <2>2. QED
    BY <2>1
<1>2. ASSUME NEW k \in Nat, k \in T PROVE k + 1 \in T
  <2>1. PICK f : Totals(f, messages, k)
    BY <1>2
  <2> DEFINE g == [i \in 0..(k + 1) |-> IF i <= k THEN f[i] ELSE f[k] + messages[k + 1].size]
  <2>2. \A i \in 0..k : f[i] = IF i = 0 THEN 0 ELSE f[i - 1] + messages[i].size
    BY <2>1 DEF Totals
  <2>3. ASSUME NEW i \in 0..(k + 1)
        PROVE  g[i] = IF i = 0 THEN 0 ELSE g[i - 1] + messages[i].size
    <3>1. CASE i <= k
      BY <2>2, <3>1
    <3>2. CASE i = k + 1
      BY <3>2
    <3>3. QED
      BY <3>1, <3>2
  <2>4. Totals(g, messages, k + 1)
    BY <2>3 DEF Totals
  <2>5. QED
    BY <2>4
<1>3. Nat \subseteq T
  <2> HIDE DEF T
  <2> QED
    BY <1>1, <1>2, SetInduction
<1>4. QED
  BY <1>3

LEMMA CharsType ==
    ASSUME NEW messages \in Seq(Message)
    PROVE  Chars(messages) \in Nat
<1> DEFINE n == Len(messages)
<1>1. PICK f : Totals(f, messages, n) /\ Chars(messages) = f[n]
  <2>1. \E f : Totals(f, messages, n)
    BY TotalsExist
  <2>2. QED
    BY <2>1, Zenon DEF Chars, Totals
<1>2. \A i \in 1..n : messages[i].size \in Nat
  <2>1. \A m \in Message : m.size \in Nat
    BY WindowAssumption DEF Message
  <2>2. \A i \in 1..n : messages[i] \in Message
    BY ElementOfSeq
  <2>3. QED
    BY <2>1, <2>2
<1>3. \A i \in 0..n : f[i] = IF i = 0 THEN 0 ELSE f[i - 1] + messages[i].size
  BY <1>1 DEF Totals
<1> DEFINE T == {k \in Nat : k <= n => f[k] \in Nat}
<1>4. 0 \in T
  BY <1>3
<1>5. ASSUME NEW k \in Nat, k \in T PROVE k + 1 \in T
  BY <1>2, <1>3, <1>5
<1>6. Nat \subseteq T
  <2> HIDE DEF T
  <2> QED
    BY <1>4, <1>5, SetInduction
<1>7. QED
  BY <1>1, <1>6

LEMMA EstimateType ==
    ASSUME NEW messages \in Seq(Message)
    PROVE  Estimate(messages) \in Nat /\ Estimate(messages) >= 1
  BY CharsType DEF Estimate, AtLeastOne

(* A reserve is a tenth, rounded down, and leaves something. *)
LEMMA ReserveBounds ==
    ASSUME NEW v \in Nat \ {0}
    PROVE  /\ ReservedLimit(v) \in Nat \ {0}
           /\ 10 * ReservedLimit(v) <= 9 * v + 9
           /\ v > 9 => ReservedLimit(v) < v
           /\ v > 10 => ReservedLimit(v) > 9
  BY DEF ReservedLimit, AtLeastOne

----------------------------------------------------------------------------
(* The loop *)

(* What is left when the message before position i has been dropped, and   *)
(* whether the loop stops there.                                           *)
From(body, i) == SubSeq(body, i, Len(body))
StopsAt(system, body, limit, i) ==
    Len(From(body, i)) <= 1 \/ Estimate(system \o From(body, i)) <= limit

Rolls(f, system, body, limit) ==
    f = [i \in 1..Len(body) + 1 |->
            IF Len(SubSeq(body, i, Len(body))) <= 1
               \/ Estimate(system \o SubSeq(body, i, Len(body))) <= limit
            THEN SubSeq(body, i, Len(body)) ELSE f[i + 1]]

FirstStop(system, body, limit, i, j) ==
    /\ j \in i..Len(body) + 1
    /\ StopsAt(system, body, limit, j)
    /\ \A k \in i..(j - 1) : ~StopsAt(system, body, limit, k)

LEMMA FirstStopExists ==
    ASSUME NEW system, NEW body, Len(body) \in Nat, NEW limit, NEW i \in 1..Len(body) + 1,
           StopsAt(system, body, limit, Len(body) + 1)
    PROVE  \E j \in i..Len(body) + 1 : FirstStop(system, body, limit, i, j)
<1> DEFINE T == {j \in i..Len(body) + 1 : StopsAt(system, body, limit, j)}
<1>1. T \in SUBSET Nat /\ Len(body) + 1 \in T
  OBVIOUS
<1>2. PICK j \in T : \A k \in T : j <= k
  <2> HIDE DEF T
  <2> QED
    BY <1>1, Least
<1>3. \A k \in i..(j - 1) : ~StopsAt(system, body, limit, k)
  BY <1>2
<1>4. QED
  BY <1>2, <1>3 DEF FirstStop

LEMMA RollsExist ==
    ASSUME NEW system, NEW body, Len(body) \in Nat, NEW limit,
           StopsAt(system, body, limit, Len(body) + 1)
    PROVE  \E f : Rolls(f, system, body, limit)
<1> DEFINE n == Len(body)
           Stops(i) == StopsAt(system, body, limit, i)
           stop(i) == CHOOSE j \in i..n + 1 : FirstStop(system, body, limit, i, j)
           f == [i \in 1..n + 1 |-> From(body, stop(i))]
<1>1. ASSUME NEW i \in 1..n + 1
      PROVE  FirstStop(system, body, limit, i, stop(i))
  BY FirstStopExists
<1>2. ASSUME NEW i \in 1..n + 1
      PROVE  f[i] = IF Stops(i) THEN From(body, i) ELSE f[i + 1]
  <2> HIDE DEF stop
  <2>1. CASE Stops(i)
    <3>1. stop(i) = i
      BY <1>1, <2>1 DEF FirstStop
    <3>2. QED
      BY <2>1, <3>1
  <2>2. CASE ~Stops(i)
    <3>1. i # n + 1 /\ i + 1 \in 1..n + 1
      BY <2>2
    <3>2. FirstStop(system, body, limit, i + 1, stop(i + 1))
      BY <1>1, <3>1
    <3>3. stop(i) \in i + 1..n + 1 /\ stop(i + 1) \in i + 1..n + 1
      BY <1>1, <2>2, <3>2 DEF FirstStop
    <3>4. Stops(stop(i)) /\ \A k \in i..(stop(i) - 1) : ~Stops(k)
      BY <1>1 DEF FirstStop
    <3>5. Stops(stop(i + 1)) /\ \A k \in i + 1..(stop(i + 1) - 1) : ~Stops(k)
      BY <3>2 DEF FirstStop
    <3>6. ~(stop(i) < stop(i + 1)) /\ ~(stop(i + 1) < stop(i))
      <4> HIDE DEF Stops
      <4> QED
        BY <3>3, <3>4, <3>5
    <3>7. stop(i) = stop(i + 1)
      BY <3>3, <3>6
    <3>8. QED
      BY <2>2, <3>1, <3>7
  <2>3. QED
    BY <2>1, <2>2
<1>3. Rolls(f, system, body, limit)
  <2> HIDE DEF stop
  <2> QED
    BY <1>2, Zenon DEF Rolls, StopsAt, From
<1>4. QED
  BY <1>3

(* The loop ends at the first place where it may.                          *)
LEMMA KeptIsFirstStop ==
    ASSUME NEW system, NEW body, Len(body) \in Nat, NEW limit,
           StopsAt(system, body, limit, Len(body) + 1)
    PROVE  \E j \in 1..Len(body) + 1 :
              /\ Kept(system, body, limit) = From(body, j)
              /\ FirstStop(system, body, limit, 1, j)
<1> DEFINE n == Len(body)
           Stops(i) == StopsAt(system, body, limit, i)
<1>1. PICK f : Rolls(f, system, body, limit) /\ Kept(system, body, limit) = f[1]
  <2>1. \E f : Rolls(f, system, body, limit)
    BY RollsExist
  <2>2. QED
    BY <2>1, Zenon DEF Kept, Rolls
<1>2. PICK j \in 1..n + 1 : FirstStop(system, body, limit, 1, j)
  BY FirstStopExists
<1>3. \A i \in 1..n + 1 : f[i] = IF Stops(i) THEN From(body, i) ELSE f[i + 1]
  BY <1>1, Zenon DEF Rolls, StopsAt, From
<1> HIDE DEF Stops
<1>4. Stops(j) /\ \A k \in 1..(j - 1) : ~Stops(k)
  BY <1>2 DEF FirstStop, Stops
<1> DEFINE T == {k \in Nat : k < j => f[1] = f[k + 1]}
<1>5. 0 \in T
  OBVIOUS
<1>6. ASSUME NEW k \in Nat, k \in T PROVE k + 1 \in T
  <2> SUFFICES ASSUME k + 1 < j PROVE f[1] = f[k + 2]
    OBVIOUS
  <2>1. f[1] = f[k + 1] /\ ~Stops(k + 1) /\ k + 1 \in 1..n + 1
    BY <1>4, <1>6
  <2>2. QED
    BY <1>3, <2>1
<1>7. Nat \subseteq T
  <2> HIDE DEF T
  <2> QED
    BY <1>5, <1>6, SetInduction
<1>8. f[1] = f[j]
  <2>1. j - 1 \in T
    BY <1>7
  <2>2. QED
    BY <2>1
<1>9. QED
  BY <1>1, <1>2, <1>3, <1>4, <1>8

----------------------------------------------------------------------------
(* The window *)

Limit == ReservedLimit(ReservedLimit(MaxContext))

FitsTail(messages, n) == Estimate(SystemPart(messages) \o LastOf(Body(messages), n)) <= Limit

LongestTail(messages, n) ==
    /\ Rolled(messages) = SystemPart(messages) \o LastOf(Body(messages), n)
    /\ n <= 1 \/ FitsTail(messages, n)
    /\ Body(messages) # <<>> => n >= 1
    /\ \A longer \in n + 1..Len(Body(messages)) : ~FitsTail(messages, longer)

LEMMA LimitType == Limit \in Nat \ {0}
  BY ReserveBounds, WindowAssumption DEF Limit

LEMMA Parts ==
    ASSUME NEW messages \in Seq(Message)
    PROVE  /\ SystemPart(messages) \in Seq(Message)
           /\ Body(messages) \in Seq(Message)
           /\ messages = SystemPart(messages) \o Body(messages)
           /\ Len(SystemPart(messages)) <= 1
<1>1. CASE messages # <<>> /\ Head(messages).system
  <2>1. Head(messages) = messages[1] /\ Head(messages) \in Message /\ Len(messages) \in Nat \ {0}
    BY <1>1, HeadTailProperties, LenProperties
  <2>2. SystemPart(messages) = <<messages[1]>> /\ SystemPart(messages) \in Seq(Message)
        /\ Len(SystemPart(messages)) = 1
    BY <1>1, <2>1 DEF SystemPart
  <2>3. Body(messages) = SubSeq(messages, 2, Len(messages))
    BY <2>2 DEF Body
  <2>4. Body(messages) \in Seq(Message) /\ Len(Body(messages)) = Len(messages) - 1
        /\ \A i \in 1..Len(messages) - 1 : Body(messages)[i] = messages[i + 1]
    <3>1. Len(messages) \in 1..Len(messages) /\ 2 \in 1..Len(messages) + 1
      BY <2>1
    <3>2. QED
      BY <2>1, <2>3, <3>1, SubSeqProperties
  <2>5. messages = SystemPart(messages) \o Body(messages)
    <3> DEFINE whole == SystemPart(messages) \o Body(messages)
    <3>1. whole \in Seq(Message) /\ Len(whole) = Len(messages)
      BY <2>1, <2>2, <2>4
    <3>2. \A i \in 1..Len(messages) : whole[i] = messages[i]
      BY <2>1, <2>2, <2>4
    <3>3. QED
      BY <3>1, <3>2, SeqEqual
  <2>6. QED
    BY <2>2, <2>4, <2>5
<1>2. CASE ~(messages # <<>> /\ Head(messages).system)
  <2>1. SystemPart(messages) = <<>>
    BY <1>2 DEF SystemPart
  <2>2. Body(messages) = messages
    BY <2>1, SubSeqFull DEF Body
  <2>3. QED
    BY <2>1, <2>2, ConcatEmptySeq
<1>3. QED
  BY <1>1, <1>2

LEMMA TailType ==
    ASSUME NEW body \in Seq(Message), NEW i \in 1..Len(body) + 1
    PROVE  From(body, i) \in Seq(Message) /\ Len(From(body, i)) = Len(body) - i + 1
  BY DEF From

LEMMA LastOfType ==
    ASSUME NEW body \in Seq(Message), NEW n \in 0..Len(body)
    PROVE  LastOf(body, n) \in Seq(Message) /\ Len(LastOf(body, n)) = n
<1>1. Len(body) \in Nat
  BY LenProperties
<1>2. Len(body) - n + 1 \in 1..Len(body) + 1
  BY <1>1
<1>3. LastOf(body, n) = From(body, Len(body) - n + 1)
  BY DEF LastOf, From
<1>4. /\ From(body, Len(body) - n + 1) \in Seq(Message)
      /\ Len(From(body, Len(body) - n + 1)) = Len(body) - (Len(body) - n + 1) + 1
  BY <1>2, TailType
<1>5. QED
  BY <1>1, <1>3, <1>4

(* apply_rolling_window returns the system prompt and the longest tail     *)
(* that fits, of which the last message is always part.                    *)
LEMMA RolledIsLongestTail ==
    ASSUME NEW messages \in Seq(Message)
    PROVE  \E n \in 0..Len(Body(messages)) : LongestTail(messages, n)
<1> DEFINE system == SystemPart(messages)
           body == Body(messages)
           size == Len(body)
<1>1. /\ system \in Seq(Message) /\ body \in Seq(Message)
      /\ messages = system \o body
  <2> HIDE DEF system, body
  <2> QED
    BY Parts DEF system, body
<1>0. size \in Nat
  <2> HIDE DEF body
  <2> QED
    BY <1>1, LenProperties
<1>2. \A n \in 0..size : LastOf(body, n) = From(body, size - n + 1)
  BY DEF LastOf, From
<1>3. \A j \in 1..size + 1 : LastOf(body, size - j + 1) = From(body, j)
  <2> HIDE DEF body
  <2> QED
    BY <1>0, <1>2
<1>4. CASE Estimate(messages) <= Limit
  <2>1. LastOf(body, size) = body
    BY <1>1, SubSeqFull DEF LastOf
  <2>2. Rolled(messages) = messages
    BY <1>4 DEF Rolled, Window, Limit
  <2>3. LongestTail(messages, size)
    <3>1. body # <<>> => size >= 1
      BY <1>1, EmptySeq
    <3>2. Rolled(messages) = system \o LastOf(body, size)
      BY <1>1, <2>1, <2>2
    <3>3. FitsTail(messages, size)
      BY <1>1, <1>4, <2>1 DEF FitsTail
    <3>4. size + 1..Len(body) = {}
      <4> HIDE DEF body
      <4> QED
        BY <1>0
    <3>5. QED
      BY <3>1, <3>2, <3>3, <3>4 DEF LongestTail
  <2>4. size \in 0..Len(body)
    <3> HIDE DEF body
    <3> QED
      BY <1>0
  <2>5. QED
    BY <2>3, <2>4
<1>5. CASE ~(Estimate(messages) <= Limit)
  <2>1. ~(Limit <= 0)
    BY LimitType
  <2>2. Rolled(messages) = system \o Kept(system, body, Limit)
    BY <1>5, <2>1, Zenon DEF Rolled, Window, Limit
  <2>3. StopsAt(system, body, Limit, size + 1)
    <3> HIDE DEF system, body
    <3>1. size + 1 \in 1..size + 1
      BY <1>0
    <3>2. Len(From(body, size + 1)) = size - (size + 1) + 1
      BY <1>1, <3>1, TailType
    <3>3. QED
      BY <1>0, <3>2 DEF StopsAt
  <2>4. PICK j \in 1..size + 1 : /\ Kept(system, body, Limit) = From(body, j)
                                  /\ FirstStop(system, body, Limit, 1, j)
    BY <1>1, <2>3, KeptIsFirstStop
  <2> DEFINE n == size - j + 1
  <2>5. n \in 0..size /\ Rolled(messages) = system \o LastOf(body, n)
    <3> HIDE DEF system, body
    <3>1. LastOf(body, n) = From(body, j)
      BY <1>3
    <3>2. n \in 0..size
      BY <1>0
    <3>3. QED
      BY <2>2, <2>4, <3>1, <3>2
  <2>6. n <= 1 \/ FitsTail(messages, n)
    <3>1. StopsAt(system, body, Limit, j)
      BY <2>4 DEF FirstStop
    <3>2. Len(From(body, j)) = n
      <4> HIDE DEF system, body
      <4> QED
        BY <1>1, TailType
    <3>3. LastOf(body, n) = From(body, j)
      <4> HIDE DEF system, body
      <4> QED
        BY <1>3
    <3>4. QED
      BY <3>1, <3>2, <3>3 DEF StopsAt, FitsTail
  <2>7. body # <<>> => n >= 1
    <3> SUFFICES ASSUME body # <<>>, n = 0 PROVE FALSE
      BY <2>5
    <3> HIDE DEF body
    <3>1. size \in 1..(j - 1)
      BY <1>0, <1>1, EmptySeq
    <3>2. ~StopsAt(system, body, Limit, size)
      BY <2>4, <3>1 DEF FirstStop
    <3>3. Len(From(body, size)) = 1
      <4>1. size \in 1..size + 1
        BY <1>0, <3>1
      <4>2. Len(From(body, size)) = size - size + 1
        BY <1>1, <4>1, TailType
      <4>3. QED
        BY <1>0, <4>2
    <3>4. QED
      BY <3>2, <3>3 DEF StopsAt
  <2>8. ASSUME NEW longer \in n + 1..size PROVE ~FitsTail(messages, longer)
    <3> DEFINE k == size - longer + 1
    <3>1. k \in 1..(j - 1) /\ k \in 1..size + 1 /\ longer = size - k + 1
      <4> HIDE DEF body
      <4> QED
        BY <1>0, <2>5
    <3>2. ~StopsAt(system, body, Limit, k)
      BY <2>4, <3>1 DEF FirstStop
    <3>3. LastOf(body, longer) = From(body, k)
      BY <1>3, <3>1
    <3>4. QED
      BY <3>2, <3>3 DEF StopsAt, FitsTail
  <2>9. LongestTail(messages, n)
    <3> HIDE DEF n
    <3> QED
      BY <2>5, <2>6, <2>7, <2>8 DEF LongestTail
  <2>10. QED
    BY <2>5, <2>9
<1>6. QED
  BY <1>4, <1>5

LEMMA RolledType ==
    ASSUME NEW messages \in Seq(Message)
    PROVE  Rolled(messages) \in Seq(Message)
<1>1. PICK n \in 0..Len(Body(messages)) : LongestTail(messages, n)
  BY RolledIsLongestTail
<1>2. LastOf(Body(messages), n) \in Seq(Message)
  BY Parts DEF LastOf
<1>3. QED
  BY <1>1, <1>2, Parts DEF LongestTail

----------------------------------------------------------------------------
(* The invariant: what the last post made of the transcript. *)

Posted ==
    /\ transcript \in Seq(Message)
    /\ \/ transcript = <<>> /\ rolled = <<>> /\ verdict = "none"
       \/ /\ rolled = Rolled(transcript)
          /\ verdict = IF Fits(rolled) THEN "accepted" ELSE "rejected"

LEMMA PostStep ==
    ASSUME NEW messages \in Seq(Message), Post(messages)
    PROVE  Posted'
  BY DEF Post, Posted, Rolled, Fits, Window, Estimate, ReservedLimit

LEMMA Inductive == Spec => []Posted
<1>1. Init => Posted
  BY DEF Init, Posted
<1>2. Posted /\ [Next]_vars => Posted'
  <2> SUFFICES ASSUME Posted, [Next]_vars PROVE Posted'
    OBVIOUS
  <2>1. transcript \in Seq(Message)
    BY DEF Posted
  <2>2. CASE Next
    <3>1. PICK m \in Message : Turn(m) \/ Compact(m)
      BY <2>2 DEF Next
    <3>2. CASE Turn(m)
      <4>1. Append(transcript, m) \in Seq(Message) /\ Post(Append(transcript, m))
        BY <2>1, <3>2 DEF Turn
      <4>2. QED
        BY <4>1, PostStep
    <3>3. CASE Compact(m)
      <4>1. /\ Append(SystemPart(transcript), m) \in Seq(Message)
            /\ Post(Append(SystemPart(transcript), m))
        BY <2>1, <3>3, Parts DEF Compact
      <4>2. QED
        BY <4>1, PostStep
    <3>4. QED
      BY <3>1, <3>2, <3>3
  <2>3. CASE UNCHANGED vars
    BY <2>3 DEF vars, Posted, Rolled, Fits, Window, Estimate, ReservedLimit
  <2>4. QED
    BY <2>2, <2>3
<1>3. QED
  BY <1>1, <1>2, PTL DEF Spec

(* Types of the transcript, of what is warmed and of the verdict, for      *)
(* messages of any size.                                                   *)
THEOREM TypeCorrect == Spec => []TypeOK
<1>1. Posted => TypeOK
  BY RolledType DEF Posted, TypeOK, Verdicts
<1>2. QED
  BY <1>1, Inductive, PTL

(* What submit warms is the system prompt and the longest tail of the      *)
(* transcript that fits, for transcripts of any length (service.py         *)
(* 113-126).                                                               *)
THEOREM LongestTailIsKept == Spec => []LongestTailThatFits
<1>1. Posted => LongestTailThatFits
  <2> SUFFICES ASSUME Posted, transcript # <<>> PROVE LongestTailThatFits
    BY DEF LongestTailThatFits
  <2>1. transcript \in Seq(Message) /\ rolled = Rolled(transcript)
    BY DEF Posted
  <2>2. PICK n \in 0..Len(Body(transcript)) : LongestTail(transcript, n)
    BY <2>1, RolledIsLongestTail
  <2>3. QED
    BY <2>1, <2>2 DEF LongestTail, FitsTail, Limit, LongestTailThatFits
<1>2. QED
  BY <1>1, Inductive, PTL

(* For any max_context above 10 a refusal is final: dropping one more old  *)
(* message would not help.  Up to 10 the second reserve takes nothing off, *)
(* and a prompt as large as the limit is kept by the window and refused by *)
(* submit (service.py 25-32, 346-349).                                     *)
THEOREM RefusalIsFinal ==
    ASSUME MaxContext > 10
    PROVE  Spec => []RejectedOnlyIfIrreducible
<1>1. Posted => RejectedOnlyIfIrreducible
  <2> SUFFICES ASSUME Posted, verdict = "rejected" PROVE Len(Body(rolled)) <= 1
    BY DEF RejectedOnlyIfIrreducible
  <2>1. transcript \in Seq(Message) /\ rolled = Rolled(transcript) /\ ~Fits(rolled)
    BY DEF Posted
  <2> DEFINE system == SystemPart(transcript)
             body == Body(transcript)
  <2>2. PICK n \in 0..Len(body) : LongestTail(transcript, n)
    BY <2>1, RolledIsLongestTail
  <2>3. rolled = system \o LastOf(body, n) /\ (n <= 1 \/ Estimate(rolled) <= Limit)
    BY <2>1, <2>2 DEF LongestTail, FitsTail
  <2>4. ~(Estimate(rolled) <= Limit)
    <3>1. Estimate(rolled) \in Nat
      BY <2>1, RolledType, EstimateType
    <3>2. ReservedLimit(MaxContext) \in Nat /\ Limit \in Nat /\ Limit < ReservedLimit(MaxContext)
      BY ReserveBounds, WindowAssumption DEF Limit
    <3>3. QED
      BY <2>1, <3>1, <3>2 DEF Fits
  <2>5. n <= 1
    BY <2>3, <2>4
  <2>6. /\ system \in Seq(Message) /\ Len(system) <= 1
        /\ LastOf(body, n) \in Seq(Message) /\ Len(LastOf(body, n)) = n
    <3>1. system \in Seq(Message) /\ Len(system) <= 1 /\ body \in Seq(Message)
      BY <2>1, Parts
    <3>2. LastOf(body, n) \in Seq(Message) /\ Len(LastOf(body, n)) = n
      <4> HIDE DEF system, body
      <4> QED
        BY <3>1, LastOfType
    <3>3. QED
      BY <3>1, <3>2
  <2>7. rolled \in Seq(Message) /\ Len(rolled) = Len(system) + n
    BY <2>3, <2>6
  <2>8. CASE system = <<>>
    <3>1. Len(Body(rolled)) <= Len(rolled)
      BY <2>7, Parts
    <3>2. QED
      BY <2>5, <2>7, <2>8, <3>1
  <2>9. CASE system # <<>>
    <3>1. system = <<Head(transcript)>> /\ Head(transcript).system
      BY <2>9 DEF SystemPart
    <3>2. rolled # <<>> /\ Head(rolled) = Head(transcript)
      BY <2>3, <2>6, <2>7, <3>1
    <3>3. Len(SystemPart(rolled)) = 1
      BY <3>1, <3>2 DEF SystemPart
    <3>4. Len(rolled) = 1 + Len(Body(rolled))
      <4> DEFINE first == SystemPart(rolled)
                 rest == Body(rolled)
      <4>1. first \in Seq(Message) /\ rest \in Seq(Message) /\ rolled = first \o rest
        BY <2>7, Parts
      <4> HIDE DEF first, rest
      <4>2. Len(first \o rest) = Len(first) + Len(rest)
        BY <4>1, ConcatProperties
      <4>3. QED
        BY <3>3, <4>1, <4>2 DEF first, rest
    <3>5. QED
      BY <2>5, <2>6, <2>7, <3>4
  <2>10. QED
    BY <2>8, <2>9
<1>2. QED
  BY <1>1, Inductive, PTL

(* An accepted prompt leaves a tenth of the context free, for any          *)
(* max_context (service.py 20-25, 342-349).                                *)
THEOREM HeadroomIsLeft == Spec => []AcceptedLeavesHeadroom
<1>1. Posted => AcceptedLeavesHeadroom
  <2> SUFFICES ASSUME Posted, verdict = "accepted" PROVE 10 * Estimate(rolled) <= 9 * MaxContext
    BY DEF AcceptedLeavesHeadroom
  <2>1. transcript \in Seq(Message) /\ rolled = Rolled(transcript) /\ Fits(rolled)
    BY DEF Posted
  <2>2. Estimate(rolled) \in Nat
    BY <2>1, RolledType, EstimateType
  <2>3. /\ ReservedLimit(MaxContext) \in Nat /\ MaxContext \in Nat
        /\ 10 * ReservedLimit(MaxContext) <= 9 * MaxContext + 9
    BY ReserveBounds, WindowAssumption
  <2>4. Estimate(rolled) + 1 <= ReservedLimit(MaxContext)
    BY <2>1, <2>2, <2>3 DEF Fits
  <2>5. QED
    BY <2>2, <2>3, <2>4
<1>2. QED
  BY <1>1, Inductive, PTL

(***************************************************************************)
(* From one post to the next.                                              *)
(***************************************************************************)

LEMMA CharsAreTotal ==
    ASSUME NEW messages \in Seq(Message)
    PROVE  \E f : Totals(f, messages, Len(messages)) /\ Chars(messages) = f[Len(messages)]
<1>1. Len(messages) \in Nat
  OBVIOUS
<1>2. \E f : Totals(f, messages, Len(messages))
  BY <1>1, TotalsExist
<1>3. QED
  BY <1>2, Zenon DEF Chars, Totals

(* A message more adds its characters to the count. *)
LEMMA CharsAppend ==
    ASSUME NEW s \in Seq(Message), NEW m \in Message
    PROVE  Chars(Append(s, m)) = Chars(s) + m.size
<1> DEFINE t == Append(s, m)
           n == Len(s)
<1>1. n \in Nat /\ t \in Seq(Message) /\ Len(t) = n + 1 /\ t[n + 1] = m
      /\ \A i \in 1..n : t[i] = s[i]
  OBVIOUS
<1>2. PICK f : Totals(f, s, n) /\ Chars(s) = f[n]
  BY CharsAreTotal
<1>3. PICK g : Totals(g, t, Len(t)) /\ Chars(t) = g[Len(t)]
  <2> HIDE DEF t
  <2> QED
    BY <1>1, CharsAreTotal
<1>4. \A i \in 0..n : f[i] = IF i = 0 THEN 0 ELSE f[i - 1] + s[i].size
  BY <1>2 DEF Totals
<1>5. \A i \in 0..n + 1 : g[i] = IF i = 0 THEN 0 ELSE g[i - 1] + t[i].size
  <2> HIDE DEF t
  <2> QED
    BY <1>1, <1>3 DEF Totals
<1> HIDE DEF t, n
<1> DEFINE T == {k \in Nat : k <= n => f[k] = g[k]}
<1>6. 0 \in T
  BY <1>1, <1>4, <1>5
<1>7. ASSUME NEW k \in Nat, k \in T PROVE k + 1 \in T
  <2> SUFFICES ASSUME k + 1 <= n PROVE f[k + 1] = g[k + 1]
    OBVIOUS
  <2>1. f[k] = g[k] /\ k + 1 \in 1..n /\ k + 1 \in 0..n /\ k + 1 \in 0..n + 1
    BY <1>1, <1>7
  <2>2. f[k + 1] = f[k] + s[k + 1].size
    BY <1>4, <2>1
  <2>3. g[k + 1] = g[k] + t[k + 1].size
    BY <1>5, <2>1
  <2>4. QED
    BY <1>1, <2>1, <2>2, <2>3
<1>8. Nat \subseteq T
  <2> HIDE DEF T
  <2> QED
    BY <1>6, <1>7, SetInduction
<1>9. f[n] = g[n] /\ g[n + 1] = g[n] + m.size
  BY <1>1, <1>5, <1>8
<1>10. QED
  BY <1>1, <1>2, <1>3, <1>9 DEF t, n

(* The estimate never falls when a message is added. *)
LEMMA EstimateGrows ==
    ASSUME NEW s \in Seq(Message), NEW m \in Message
    PROVE  Estimate(s) <= Estimate(Append(s, m))
<1>1. m.size \in Nat /\ Chars(s) \in Nat
  BY CharsType, WindowAssumption DEF Message
<1>2. Chars(Append(s, m)) = Chars(s) + m.size
  BY CharsAppend
<1>3. QED
  BY <1>1, <1>2 DEF Estimate, AtLeastOne

(* A turn that is not the first leaves the system prompt alone. *)
LEMMA TurnParts ==
    ASSUME NEW s \in Seq(Message), NEW m \in Message, s # <<>>
    PROVE  /\ SystemPart(Append(s, m)) = SystemPart(s)
           /\ Body(Append(s, m)) = Append(Body(s), m)
<1>1. Len(s) \in Nat \ {0} /\ Head(Append(s, m)) = Head(s) /\ Append(s, m) # <<>>
      /\ Append(s, m) \in Seq(Message) /\ Len(Append(s, m)) = Len(s) + 1
  OBVIOUS
<1>2. SystemPart(Append(s, m)) = SystemPart(s)
  BY <1>1 DEF SystemPart
<1> DEFINE size == Len(SystemPart(s))
<1>3. size = 0 \/ size = 1
  BY DEF SystemPart
<1>4. ASSUME NEW k \in {1, 2}
      PROVE  SubSeq(Append(s, m), k, Len(s) + 1) = Append(SubSeq(s, k, Len(s)), m)
  BY <1>1
<1> DEFINE k == size + 1
<1>5. k \in {1, 2}
  <2> HIDE DEF size
  <2> QED
    BY <1>3
<1>6. Body(Append(s, m)) = SubSeq(Append(s, m), k, Len(s) + 1) /\ Body(s) = SubSeq(s, k, Len(s))
  BY <1>1, <1>2, Zenon DEF Body
<1> HIDE DEF k
<1>7. QED
  BY <1>2, <1>4, <1>5, <1>6

LEMMA LastOfAppend ==
    ASSUME NEW b \in Seq(Message), NEW m \in Message, NEW n \in 1..Len(b) + 1
    PROVE  LastOf(Append(b, m), n) = Append(LastOf(b, n - 1), m)
<1>1. Len(b) \in Nat /\ Append(b, m) \in Seq(Message) /\ Len(Append(b, m)) = Len(b) + 1
  OBVIOUS
<1> DEFINE k == Len(b) + 1 - n + 1
<1>2. k \in 1..Len(b) + 1 /\ Len(b) - (n - 1) + 1 = k
  BY <1>1
<1>3. SubSeq(Append(b, m), k, Len(b) + 1) = Append(SubSeq(b, k, Len(b)), m)
  <2> HIDE DEF k
  <2> QED
    BY <1>1, <1>2
<1>4. QED
  BY <1>1, <1>2, <1>3 DEF LastOf

(* Where a longer transcript has n + 2 messages or more kept, the tail the *)
(* shorter one should have kept already fitted.                            *)
LEMMA TailGrowsByOne ==
    ASSUME NEW s \in Seq(Message), NEW m \in Message, s # <<>>,
           NEW n \in 0..Len(Body(s)), LongestTail(s, n),
           NEW k \in 0..Len(Body(Append(s, m))), LongestTail(Append(s, m), k)
    PROVE  k <= n + 1
<1> DEFINE system == SystemPart(s)
           b == Body(s)
<1>1. system \in Seq(Message) /\ b \in Seq(Message)
  BY Parts
<1>2. SystemPart(Append(s, m)) = system /\ Body(Append(s, m)) = Append(b, m)
  BY TurnParts
<1>3. n \in 0..Len(b) /\ Len(b) \in Nat /\ k \in 0..Len(b) + 1
  <2>1. Len(b) \in Nat /\ Len(Append(b, m)) = Len(b) + 1
    BY <1>1
  <2>2. QED
    BY <1>2, <2>1
<1>4. SUFFICES ASSUME k >= n + 2 PROVE FALSE
  BY <1>3
<1> HIDE DEF system, b
<1>5. k \in 1..Len(b) + 1 /\ k - 1 \in n + 1..Len(b) /\ k - 1 \in 0..Len(b)
  BY <1>3, <1>4
<1>6. Estimate(system \o LastOf(Append(b, m), k)) <= Limit
  BY <1>2, <1>3, <1>4 DEF LongestTail, FitsTail
<1>7. ~(Estimate(system \o LastOf(b, k - 1)) <= Limit)
  BY <1>5 DEF LongestTail, FitsTail, system, b
<1> DEFINE tail == LastOf(b, k - 1)
<1>8. tail \in Seq(Message) /\ LastOf(Append(b, m), k) = Append(tail, m)
  BY <1>1, <1>5, LastOfType, LastOfAppend
<1> HIDE DEF tail
<1>9. system \o Append(tail, m) = Append(system \o tail, m) /\ system \o tail \in Seq(Message)
  BY <1>1, <1>8
<1>10. Estimate(system \o tail) <= Estimate(Append(system \o tail, m))
  BY <1>9, EstimateGrows
<1>11. /\ Estimate(system \o tail) \in Nat /\ Estimate(Append(system \o tail, m)) \in Nat
       /\ Limit \in Nat
  <2>1. Append(system \o tail, m) \in Seq(Message)
    BY <1>9
  <2>2. QED
    BY <1>9, <2>1, EstimateType, LimitType
<1>12. Estimate(Append(system \o tail, m)) <= Limit /\ ~(Estimate(system \o tail) <= Limit)
  BY <1>6, <1>7, <1>8, <1>9, Zenon DEF tail
<1>13. QED
  BY <1>10, <1>11, <1>12

Dropped(messages, kept) == Len(messages) - Len(kept)

LEMMA DroppedCount ==
    ASSUME NEW s \in Seq(Message), NEW n \in 0..Len(Body(s)), LongestTail(s, n)
    PROVE  Dropped(s, Rolled(s)) = Len(Body(s)) - n
<1> DEFINE system == SystemPart(s)
           b == Body(s)
<1>1. system \in Seq(Message) /\ b \in Seq(Message) /\ s = system \o b
  <2> HIDE DEF system, b
  <2> QED
    BY Parts DEF system, b
<1>2. Rolled(s) = system \o LastOf(b, n)
  BY DEF LongestTail
<1> HIDE DEF system, b
<1>3. LastOf(b, n) \in Seq(Message) /\ Len(LastOf(b, n)) = n
  BY <1>1, LastOfType DEF b
<1> DEFINE tail == LastOf(b, n)
<1> HIDE DEF tail
<1>4. Len(system \o b) = Len(system) + Len(b) /\ Len(system \o tail) = Len(system) + n
  <2>1. tail \in Seq(Message) /\ Len(tail) = n
    BY <1>3 DEF tail
  <2>2. QED
    BY <1>1, <2>1
<1>5. n \in Nat /\ Len(system) \in Nat /\ Len(b) \in Nat
  BY <1>1 DEF b
<1>6. QED
  BY <1>1, <1>2, <1>4, <1>5 DEF Dropped, b, tail

(* A turn, and what the window makes of the transcript before and after.   *)
LEMMA TurnKeepsDropped ==
    ASSUME NEW s \in Seq(Message), NEW m \in Message
    PROVE  Dropped(Append(s, m), Rolled(Append(s, m))) >= Dropped(s, Rolled(s))
<1>1. Append(s, m) \in Seq(Message)
  OBVIOUS
<1>2. PICK n \in 0..Len(Body(s)) : LongestTail(s, n)
  BY RolledIsLongestTail
<1>3. PICK k \in 0..Len(Body(Append(s, m))) : LongestTail(Append(s, m), k)
  BY <1>1, RolledIsLongestTail
<1>4. Dropped(s, Rolled(s)) = Len(Body(s)) - n
  BY <1>2, DroppedCount
<1>5. Dropped(Append(s, m), Rolled(Append(s, m))) = Len(Body(Append(s, m))) - k
  BY <1>1, <1>3, DroppedCount
<1>6. Len(Body(s)) \in Nat /\ Len(Body(Append(s, m))) \in Nat
  <2>1. Body(s) \in Seq(Message) /\ Body(Append(s, m)) \in Seq(Message)
    BY <1>1, Parts
  <2>2. QED
    BY <2>1, LenProperties
<1>7. CASE s = <<>>
  <2>1. Body(s) = <<>>
    BY <1>7 DEF Body, SystemPart
  <2>2. Len(Body(s)) = 0
    BY <2>1
  <2>3. QED
    BY <1>4, <1>5, <1>6, <2>2
<1>8. CASE s # <<>>
  <2>1. k <= n + 1
    BY <1>2, <1>3, <1>8, TailGrowsByOne
  <2>2. Len(Body(Append(s, m))) = Len(Body(s)) + 1
    <3>1. Body(s) \in Seq(Message) /\ Body(Append(s, m)) = Append(Body(s), m)
      BY <1>8, Parts, TurnParts
    <3>2. QED
      BY <3>1
  <2>3. QED
    BY <1>4, <1>5, <1>6, <2>1, <2>2
<1>9. QED
  BY <1>7, <1>8

LEMMA LongerIsATurn ==
    ASSUME Posted, Next, Len(transcript') > Len(transcript)
    PROVE  /\ transcript \in Seq(Message) /\ rolled = Rolled(transcript)
           /\ \E m \in Message : /\ transcript' = Append(transcript, m)
                                 /\ rolled' = Rolled(transcript')
<1>1. transcript \in Seq(Message) /\ Len(transcript) \in Nat
  BY DEF Posted
<1>2. rolled = Rolled(transcript)
  <2>1. CASE transcript = <<>> /\ rolled = <<>>
    <3>1. PICK n \in 0..Len(Body(transcript)) : LongestTail(transcript, n)
      BY <1>1, RolledIsLongestTail
    <3>2. SystemPart(transcript) = <<>> /\ Body(transcript) = <<>>
      BY <2>1 DEF SystemPart, Body
    <3>3. n = 0
      BY <3>2
    <3>4. Rolled(transcript) = <<>> \o LastOf(<<>>, 0)
      BY <3>1, <3>2, <3>3 DEF LongestTail
    <3>5. LastOf(<<>>, 0) = <<>>
      BY DEF LastOf
    <3>6. QED
      BY <2>1, <3>4, <3>5
  <2>2. QED
    BY <2>1 DEF Posted
<1>3. PICK m \in Message : Turn(m) \/ Compact(m)
  BY DEF Next
<1>4. CASE Turn(m)
  BY <1>1, <1>2, <1>4, Zenon DEF Turn, Post
<1>5. CASE Compact(m)
  <2>1. SystemPart(transcript) \in Seq(Message) /\ Len(SystemPart(transcript)) <= 1
    BY <1>1, Parts
  <2>2. Len(Append(SystemPart(transcript), m)) <= 2 /\ Len(transcript) > 1
    BY <1>5, <2>1 DEF Compact
  <2>3. transcript' = Append(SystemPart(transcript), m)
    BY <1>5 DEF Compact, Post
  <2>4. QED
    BY <1>1, <2>2, <2>3
<1>6. QED
  BY <1>3, <1>4, <1>5

(* A turn never brings a message back that the window had dropped: the     *)
(* start of what is warmed only moves forward until the harness compacts   *)
(* (apply_rolling_window 113-126).                                         *)
DroppedStaysDropped ==
    [][Len(transcript') > Len(transcript) => Dropped(transcript, rolled)' >= Dropped(transcript, rolled)]_vars

THEOREM WindowMovesForward == Spec => DroppedStaysDropped
<1>1. Posted /\ [Next]_vars =>
          [Len(transcript') > Len(transcript) => Dropped(transcript, rolled)' >= Dropped(transcript, rolled)]_vars
  <2> SUFFICES ASSUME Posted, Next, Len(transcript') > Len(transcript)
               PROVE  Dropped(transcript', rolled') >= Dropped(transcript, rolled)
    BY DEF Dropped
  <2>1. PICK m \in Message : transcript' = Append(transcript, m) /\ rolled' = Rolled(transcript')
    BY LongerIsATurn
  <2>2. transcript \in Seq(Message) /\ rolled = Rolled(transcript)
    BY LongerIsATurn
  <2>3. Dropped(Append(transcript, m), Rolled(Append(transcript, m))) >= Dropped(transcript, Rolled(transcript))
    BY <2>2, TurnKeepsDropped
  <2>4. QED
    BY <2>1, <2>2, <2>3
<1>2. QED
  BY Inductive, <1>1, PTL DEF Spec, DroppedStaysDropped

(* While the transcript fits, a turn extends the prompt that was warmed by *)
(* its message and changes nothing before it, which is what makes the      *)
(* engine's prefix cache useful (apply_rolling_window 113-126).            *)
WarmPrefixGrows ==
    [][Len(transcript') > Len(transcript) /\ Estimate(transcript') <= Limit =>
          \E m \in Message : rolled' = Append(rolled, m)]_vars

THEOREM FittingTurnsExtendThePrompt == Spec => WarmPrefixGrows
<1> DEFINE A == Len(transcript') > Len(transcript) /\ Estimate(transcript') <= Limit =>
                    \E m \in Message : rolled' = Append(rolled, m)
<1>1. Posted /\ [Next]_vars => [A]_vars
  <2> SUFFICES ASSUME Posted, Next, Len(transcript') > Len(transcript), Estimate(transcript') <= Limit
               PROVE  \E m \in Message : rolled' = Append(rolled, m)
    OBVIOUS
  <2>1. PICK m \in Message : transcript' = Append(transcript, m) /\ rolled' = Rolled(transcript')
    BY LongerIsATurn
  <2>2. transcript \in Seq(Message) /\ rolled = Rolled(transcript)
    BY LongerIsATurn
  <2>3. Estimate(transcript) <= Limit
    <3>1. transcript' \in Seq(Message)
      BY <2>1, <2>2
    <3>2. /\ Estimate(transcript) \in Nat /\ Estimate(transcript') \in Nat /\ Limit \in Nat
          /\ Estimate(transcript) <= Estimate(transcript')
      BY <2>1, <2>2, <3>1, EstimateType, EstimateGrows, LimitType
    <3>3. QED
      BY <3>2
  <2>4. rolled' = transcript' /\ rolled = transcript
    BY <2>1, <2>2, <2>3, Zenon DEF Rolled, Window, Limit
  <2>5. QED
    BY <2>1, <2>4
<1>2. QED
  BY Inductive, <1>1, PTL DEF Spec, WarmPrefixGrows

(* Where the comment at 20-25 does hold: the reserve is taken twice, so a  *)
(* transcript of at most 0.9 * 0.9 of the context is warmed whole, and     *)
(* accepted if the context has more than 10 tokens.                        *)
WholeInsideBothReserves ==
    100 * Estimate(transcript) <= 81 * MaxContext =>
        rolled = transcript /\ (MaxContext > 10 => verdict # "rejected")

LEMMA BothReserves ==
    ASSUME NEW v \in Nat \ {0}
    PROVE  81 * v <= 100 * ReservedLimit(ReservedLimit(v))
<1> DEFINE once == ReservedLimit(v)
<1>1. once \in Nat \ {0} /\ 9 * v <= 10 * once
  BY DEF ReservedLimit, AtLeastOne
<1> HIDE DEF once
<1>2. ReservedLimit(once) \in Nat \ {0} /\ 9 * once <= 10 * ReservedLimit(once)
  BY <1>1 DEF ReservedLimit, AtLeastOne
<1>3. QED
  BY <1>1, <1>2 DEF once

THEOREM SmallTranscriptsAreWhole == Spec => []WholeInsideBothReserves
<1>1. Posted => WholeInsideBothReserves
  <2> SUFFICES ASSUME Posted, 100 * Estimate(transcript) <= 81 * MaxContext
               PROVE  rolled = transcript /\ (MaxContext > 10 => verdict # "rejected")
    BY DEF WholeInsideBothReserves
  <2>1. /\ Estimate(transcript) \in Nat /\ MaxContext \in Nat \ {0} /\ Limit \in Nat
        /\ 81 * MaxContext <= 100 * Limit
    BY EstimateType, LimitType, BothReserves, WindowAssumption DEF Posted, Limit
  <2>2. Estimate(transcript) <= Limit
    BY <2>1
  <2>3. Rolled(transcript) = transcript
    BY <2>2, Zenon DEF Rolled, Window, Limit
  <2>4. rolled = transcript
    BY <2>3 DEF Posted
  <2>5. ASSUME MaxContext > 10
        PROVE  verdict # "rejected"
    <3>1. ReservedLimit(MaxContext) \in Nat /\ Limit < ReservedLimit(MaxContext)
      BY <2>1, <2>5, ReserveBounds DEF Limit
    <3>2. Fits(transcript)
      BY <2>1, <2>2, <3>1 DEF Fits
    <3>3. QED
      BY <2>4, <3>2 DEF Posted
  <2>6. QED
    BY <2>4, <2>5
<1>2. QED
  BY Inductive, <1>1, PTL

=============================================================================
