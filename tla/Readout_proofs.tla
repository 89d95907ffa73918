--------------------------- MODULE Readout_proofs ---------------------------
(***************************************************************************)
(* The emulated card, for every file, every number of messages in all and  *)
(* in a group, and any number of loops: its totals and groups, the types   *)
(* of its state, and what it makes of a file.  Then the readout, which     *)
(* reads what the card sends, for every use of the generator and however   *)
(* TCP cuts what is sent: the words come in order, and while each chunk is *)
(* a message none is lost.  The card's theorems are about Spec, the card   *)
(* alone, the readout's about ReadoutSpec.                                 *)
(***************************************************************************)
EXTENDS Readout, FiniteSetTheorems, SequenceTheorems, WellFoundedInduction, TLAPS

-----------------------------------------------------------------------------
(* The card: its counters.                                                 *)

\* The modes that look at the numbers.
Counts == args.mode \in {1, 3, 4}

\* Messages up to the latest total or group.
InTotal == message_count % this_n_messages_total
InGroup == message_count % this_n_messages_group

Types ==
  /\ args \in Arguments
  /\ stage \in {"connect", "recv", "prompt", "send", "sleep", "sleep_and_break", "next",
                "done", "error", "lost"}
  /\ message_count \in Nat /\ since \in Nat /\ i \in Nat

\* What was sent since the last sleep is of the group that is under way; a
\* group is complete where the card sleeps.
GroupInv ==
  Counts =>
    /\ since <= this_n_messages_group
    /\ stage \notin {"sleep", "sleep_and_break", "error"} => since <= InGroup

\* In a file that has them, the messages sent in a loop are those of the
\* total that is under way.
TotalInv ==
  Counts /\ Len(word_lists) >= this_n_messages_total =>
    /\ stage \in {"connect", "recv", "prompt", "send", "sleep"} => i = InTotal
    /\ stage \in {"sleep_and_break", "next"} => InTotal = 0 /\ i = this_n_messages_total

CardInv == Types /\ GroupInv /\ TotalInv

-----------------------------------------------------------------------------
LEMMA NumbersType ==
  ASSUME Types
  PROVE  this_n_messages_total \in Nat \ {0} /\ this_n_messages_group \in Nat \ {0}
<1>1. args.n_messages_total \in Nat \ {0} /\ args.n_messages_group \in Nat \ {0}
  BY ArgumentsAssumption DEF Types
<1>2. this_n_messages_total \in {10, 50, args.n_messages_total}
  BY DEF this_n_messages_total
<1>3. this_n_messages_group \in {1, 5, args.n_messages_group}
  BY DEF this_n_messages_group
<1> QED
  BY <1>1, <1>2, <1>3

LEMMA Division ==
  ASSUME NEW a \in Int, NEW m \in Nat \ {0}
  PROVE  a = m * (a \div m) + (a % m) /\ a \div m \in Int /\ a % m \in 0..m - 1
  OBVIOUS

LEMMA RemaindersType ==
  ASSUME Types
  PROVE  InTotal \in 0..this_n_messages_total - 1 /\ InGroup \in 0..this_n_messages_group - 1
<1>1. message_count \in Int
  BY DEF Types
<1> QED
  BY <1>1, NumbersType, Division DEF InTotal, InGroup

\* One more is either the next of the same multiple or a multiple.
LEMMA NextOfMultiple ==
  ASSUME NEW c \in Nat, NEW m \in Nat \ {0}
  PROVE  ((c + 1) % m = 0 /\ c % m = m - 1) \/ (c + 1) % m = (c % m) + 1
<1> DEFINE q == c \div m
           r == c % m
           q1 == (c + 1) \div m
           r1 == (c + 1) % m
<1>1. c = m * q + r /\ q \in Int /\ r \in 0..m - 1
  BY Division
<1>2. c + 1 = m * q1 + r1 /\ q1 \in Int /\ r1 \in 0..m - 1
  BY Division
<1> HIDE DEF q, r, q1, r1
<1>3. m * (q1 - q) = r + 1 - r1
  BY <1>1, <1>2
<1>4. q1 - q \in 0..1
  <2>1. q1 - q <= 1
    <3>1. SUFFICES ASSUME q1 - q >= 2 PROVE FALSE
      BY <1>1, <1>2
    <3>2. m * (q1 - q - 2) >= 0
      BY <1>1, <1>2, <3>1
    <3> QED
      BY <1>1, <1>2, <1>3, <3>2
  <2>2. q1 - q >= 0
    <3>1. SUFFICES ASSUME q1 - q <= -1 PROVE FALSE
      BY <1>1, <1>2
    <3>2. m * (-1 - (q1 - q)) >= 0
      BY <1>1, <1>2, <3>1
    <3> QED
      BY <1>1, <1>2, <1>3, <3>2
  <2> QED
    BY <2>1, <2>2, <1>1, <1>2
<1>5. CASE q1 - q = 0
  <2>1. r1 = r + 1
    BY <1>1, <1>2, <1>3, <1>5
  <2> QED
    BY <2>1 DEF r, r1
<1>6. CASE q1 - q = 1
  <2>1. m = r + 1 - r1
    BY <1>1, <1>2, <1>3, <1>6
  <2>2. r1 = 0 /\ r = m - 1
    BY <1>1, <1>2, <2>1
  <2> QED
    BY <2>2 DEF r, r1
<1> QED
  BY <1>4, <1>5, <1>6

-----------------------------------------------------------------------------
LEMMA InitCard == Init => CardInv
<1> SUFFICES ASSUME Init PROVE CardInv
  OBVIOUS
<1>1. Types
  BY DEF Init, Types
<1>2. InTotal = 0 /\ InGroup = 0
  BY <1>1, NumbersType DEF Init, InTotal, InGroup
<1>3. stage \in {"connect", "prompt"} /\ since = 0 /\ i = 0
  BY DEF Init
<1> QED
  BY <1>1, <1>2, <1>3, NumbersType DEF CardInv, GroupInv, TotalInv

\* A step that counts nothing, to a stage of which no more is claimed.
LEMMA MoveKeeps ==
  ASSUME CardInv, UNCHANGED <<input, i, message_count, since>>,
         NEW from \in {"connect", "recv", "prompt", "send"},
         NEW to \in {"connect", "recv", "prompt", "send", "lost"}, Goto(from, to)
  PROVE  CardInv'
<1>1. Types'
  BY DEF CardInv, Types, Goto, input
<1>2. UNCHANGED <<InTotal, InGroup, Counts, this_n_messages_total, this_n_messages_group, word_lists>>
  BY DEF InTotal, InGroup, Counts, this_n_messages_total, this_n_messages_group, input
<1> QED
  BY <1>1, <1>2 DEF CardInv, GroupInv, TotalInv, Goto

LEMMA SendKeeps == CardInv /\ Send => CardInv'
<1> SUFFICES ASSUME CardInv, Send PROVE CardInv'
  OBVIOUS
<1> DEFINE total == this_n_messages_total
           group == this_n_messages_group
<1>1. /\ stage = "send" /\ UNCHANGED <<args, word_lists>>
      /\ i' = i + 1 /\ message_count' = message_count + 1 /\ since' = since + 1
  BY DEF Send, Sent, input
<1>2. UNCHANGED <<total, group, Counts>>
  BY <1>1 DEF this_n_messages_total, this_n_messages_group, Counts
<1>3. total \in Nat \ {0} /\ group \in Nat \ {0}
  BY NumbersType DEF CardInv
<1>4. stage' \in {"send", "sleep", "sleep_and_break", "next", "error"}
  BY DEF Send, To
<1>5. Types'
  BY <1>1, <1>4 DEF CardInv, Types
<1>6. CASE ~Counts
  BY <1>2, <1>5, <1>6 DEF CardInv, GroupInv, TotalInv
<1>7. CASE Counts
  <2>1. /\ AtTotal <=> InTotal' = 0
        /\ AtGroup <=> InGroup' = 0
    BY <1>2, <1>7 DEF AtTotal, AtGroup, InTotal, InGroup, Counts
  <2>2. /\ AtTotal => stage' \in {"error", "sleep_and_break"}
        /\ ~AtTotal => stage' \in {"send", "sleep"}
        /\ stage' = "send" => ~AtGroup
    BY <1>7 DEF Send, To, Counts
  <2>3. (InGroup' = 0 /\ InGroup = group - 1) \/ InGroup' = InGroup + 1
    BY <1>1, <1>2, <1>3, NextOfMultiple DEF InGroup, CardInv, Types
  <2>4. (InTotal' = 0 /\ InTotal = total - 1) \/ InTotal' = InTotal + 1
    BY <1>1, <1>2, <1>3, NextOfMultiple DEF InTotal, CardInv, Types
  <2>5. InGroup \in 0..group - 1 /\ InTotal \in 0..total - 1
    BY RemaindersType DEF CardInv
  <2>6. GroupInv'
    BY <1>1, <1>2, <1>3, <1>7, <2>1, <2>2, <2>3, <2>5 DEF GroupInv, CardInv, Types
  <2>7. TotalInv'
    BY <1>1, <1>2, <1>3, <1>7, <2>1, <2>2, <2>4, <2>5 DEF TotalInv, CardInv, Types
  <2> QED
    BY <1>5, <2>6, <2>7 DEF CardInv
<1> QED
  BY <1>6, <1>7

LEMMA SleepKeeps == CardInv /\ Sleep => CardInv'
<1> SUFFICES ASSUME CardInv, Sleep PROVE CardInv'
  OBVIOUS
<1>1. Types'
  BY DEF CardInv, Types, Sleep, Goto, input
<1>2. UNCHANGED <<InTotal, InGroup, Counts, this_n_messages_total, this_n_messages_group, word_lists>>
  BY DEF Sleep, InTotal, InGroup, Counts, this_n_messages_total, this_n_messages_group, input
<1>3. since' = 0 /\ InGroup >= 0 /\ this_n_messages_group > 0
  BY NumbersType, RemaindersType DEF Sleep, CardInv
<1>4. GroupInv'
  BY <1>2, <1>3, NumbersType, RemaindersType DEF CardInv, GroupInv
<1>5. TotalInv'
  BY <1>2 DEF CardInv, TotalInv, Sleep, Goto
<1> QED
  BY <1>1, <1>4, <1>5 DEF CardInv

LEMMA EndOfListKeeps == CardInv /\ EndOfList => CardInv'
<1> SUFFICES ASSUME CardInv, EndOfList PROVE CardInv'
  OBVIOUS
<1>1. Types'
  BY DEF CardInv, Types, EndOfList, Goto, input, count
<1>2. UNCHANGED <<InTotal, InGroup, Counts, this_n_messages_total, this_n_messages_group, word_lists>>
  BY DEF EndOfList, InTotal, InGroup, Counts, this_n_messages_total, this_n_messages_group, input, count
<1>3. GroupInv'
  BY <1>1, <1>2 DEF CardInv, GroupInv, EndOfList, Goto, count
\* The file cannot end before the total.
<1>4. ~(Counts /\ Len(word_lists) >= this_n_messages_total)
  <2>1. InTotal \in 0..this_n_messages_total - 1
    BY RemaindersType DEF CardInv
  <2> QED
    BY <2>1, NumbersType DEF CardInv, TotalInv, Types, EndOfList, Goto
<1> QED
  BY <1>1, <1>2, <1>3, <1>4 DEF CardInv, TotalInv

LEMMA NextLoopKeeps == CardInv /\ NextLoop => CardInv'
<1> SUFFICES ASSUME CardInv, NextLoop PROVE CardInv'
  OBVIOUS
<1>1. Types'
  BY DEF CardInv, Types, NextLoop, Goto, input
<1>2. UNCHANGED <<InTotal, InGroup, Counts, this_n_messages_total, this_n_messages_group, word_lists>>
  BY DEF NextLoop, InTotal, InGroup, Counts, this_n_messages_total, this_n_messages_group, input
<1> QED
  BY <1>1, <1>2 DEF CardInv, GroupInv, TotalInv, NextLoop, Goto

-----------------------------------------------------------------------------
LEMMA StepCard == CardInv /\ [Next]_vars => CardInv'
<1> SUFFICES ASSUME CardInv, [Next]_vars PROVE CardInv'
  OBVIOUS
<1>1. CASE Connect \/ RecvId \/ RecvTimeout \/ KeyPressed \/ SendFails
  BY <1>1, MoveKeeps DEF Connect, RecvId, RecvTimeout, KeyPressed, SendFails, count
<1>2. CASE Send
  BY <1>2, SendKeeps
<1>3. CASE Sleep \/ EndOfList \/ NextLoop
  BY <1>3, SleepKeeps, EndOfListKeeps, NextLoopKeeps
<1>4. CASE Listen \/ Handshake \/ Vanish \/ UNCHANGED vars
  <2>1. UNCHANGED <<input, stage, count>>
    BY <1>4 DEF Listen, Handshake, Vanish, vars
  <2>2. UNCHANGED <<InTotal, InGroup, Counts, this_n_messages_total, this_n_messages_group, word_lists>>
    BY <2>1 DEF InTotal, InGroup, Counts, this_n_messages_total, this_n_messages_group, input, count
  <2> QED
    BY <2>1, <2>2 DEF CardInv, Types, GroupInv, TotalInv, input, count
<1> QED
  BY <1>1, <1>2, <1>3, <1>4 DEF Next, Card

LEMMA Invariance == Spec => []CardInv
  BY InitCard, StepCard, PTL DEF Spec

\* The card sleeps after each group, across the ends of loops too.
THEOREM GroupsCorrect == Spec => []GroupsAreApart
<1>1. CardInv => GroupsAreApart
  BY DEF CardInv, GroupInv, Counts, GroupsAreApart
<1> QED
  BY <1>1, Invariance, PTL

\* A loop through a file with enough messages sends just the total.
THEOREM TotalsCorrect == Spec => []LoopSendsTotal
<1>1. CardInv => LoopSendsTotal
  BY DEF CardInv, TotalInv, Counts, LoopSendsTotal
<1> QED
  BY <1>1, Invariance, PTL

-----------------------------------------------------------------------------
(* Induction, as a fact about sets of naturals: each has a least.          *)

Smaller == {p \in Nat \X Nat : p[1] < p[2]}

LEMMA Least ==
  ASSUME NEW T, T \subseteq Nat, T # {}
  PROVE  \E n \in T : \A m \in T : n <= m
<1>1. OpToRel(<, Nat) = Smaller
  BY DEF OpToRel, Smaller
<1>2. IsWellFoundedOn(Smaller, Nat)
  BY <1>1, NatLessThanWellFounded
<1>3. PICK n \in T : \A m \in T : <<m, n>> \notin Smaller
  BY <1>2, WFMin
<1>4. ASSUME NEW m \in T PROVE n <= m
  <2>1. <<m, n>> \in Nat \X Nat /\ <<m, n>>[1] = m /\ <<m, n>>[2] = n
    OBVIOUS
  <2> QED
    BY <1>3, <2>1 DEF Smaller
<1> QED
  BY <1>4

LEMMA Induction ==
  ASSUME NEW T, 0 \in T, \A n \in Nat : n \in T => n + 1 \in T
  PROVE  \A n \in Nat : n \in T
<1> SUFFICES ASSUME Nat \ T # {} PROVE FALSE
  OBVIOUS
<1>1. PICK n \in Nat \ T : \A m \in Nat \ T : n <= m
  BY Least
<1>2. n # 0 /\ n - 1 \in Nat /\ ~(n <= n - 1) /\ (n - 1) + 1 = n
  BY <1>1
<1> QED
  BY <1>1, <1>2

-----------------------------------------------------------------------------
(* FlattenSeq.                                                             *)

\* f is what FlattenSeq has after each of the sequences.
Flattens(f, ss) == \A p \in 1..Len(ss) : f[p] = IF p = 1 THEN ss[p] ELSE f[p - 1] \o ss[p]

LEMMA FlattenExists ==
  ASSUME NEW S, NEW ss \in Seq(Seq(S))
  PROVE  \E f \in [1..Len(ss) -> Seq(S)] : Flattens(f, ss)
<1> DEFINE Upto(f, n) == \A p \in 1..n : f[p] = IF p = 1 THEN ss[p] ELSE f[p - 1] \o ss[p]
           T == {n \in Nat : n > Len(ss) \/ \E f \in [1..n -> Seq(S)] : Upto(f, n)}
<1>1. 0 \in T
  <2>1. [p \in 1..0 |-> <<>>] \in [1..0 -> Seq(S)] /\ Upto([p \in 1..0 |-> <<>>], 0)
    OBVIOUS
  <2> QED
    BY <2>1
<1>2. ASSUME NEW n \in Nat, n \in T PROVE n + 1 \in T
  <2>1. CASE n + 1 > Len(ss)
    BY <2>1
  <2>2. CASE n + 1 <= Len(ss)
    <3>1. PICK f \in [1..n -> Seq(S)] : Upto(f, n)
      BY <1>2, <2>2
    <3>2. ss[n + 1] \in Seq(S)
      BY <2>2
    <3> DEFINE last == IF n = 0 THEN ss[1] ELSE f[n] \o ss[n + 1]
               g == [p \in 1..n + 1 |-> IF p = n + 1 THEN last ELSE f[p]]
    <3>3. last \in Seq(S)
      <4>1. CASE n = 0
        BY <3>2, <4>1
      <4>2. CASE n # 0
        <5>1. n \in 1..n
          BY <4>2
        <5>2. f[n] \in Seq(S)
          BY <5>1
        <5> QED
          BY <3>2, <4>2, <5>2
      <4> QED
        BY <4>1, <4>2
    <3> HIDE DEF last
    <3>4. g \in [1..n + 1 -> Seq(S)]
      BY <3>3
    <3>5. ASSUME NEW p \in 1..n + 1 PROVE g[p] = IF p = 1 THEN ss[p] ELSE g[p - 1] \o ss[p]
      <4>1. CASE p = n + 1
        BY <4>1 DEF last
      <4>2. CASE p # n + 1
        <5>1. p \in 1..n /\ g[p] = f[p] /\ (p # 1 => p - 1 \in 1..n /\ g[p - 1] = f[p - 1])
          BY <4>2
        <5> QED
          BY <3>1, <5>1
      <4> QED
        BY <4>1, <4>2
    <3>6. Upto(g, n + 1)
      BY <3>5
    <3> HIDE DEF g, Upto
    <3> QED
      BY <3>4, <3>6
  <2>3. Len(ss) \in Int /\ n + 1 \in Int
    BY LenProperties
  <2> HIDE DEF T
  <2> QED
    BY <2>1, <2>2, <2>3
<1>3. Len(ss) \in T
  <2> HIDE DEF T
  <2>1. \A n \in Nat : n \in T
    BY <1>1, <1>2, Induction
  <2> QED
    BY <2>1
<1> QED
  BY <1>3 DEF Flattens

LEMMA FlattenUnique ==
  ASSUME NEW ss, Len(ss) \in Nat, NEW f, NEW g, Flattens(f, ss), Flattens(g, ss)
  PROVE  \A p \in 1..Len(ss) : f[p] = g[p]
<1> DEFINE T == {n \in Nat : n \in 1..Len(ss) => f[n] = g[n]}
<1>1. 0 \in T
  OBVIOUS
<1>2. ASSUME NEW n \in Nat, n \in T PROVE n + 1 \in T
  <2> SUFFICES ASSUME n + 1 \in 1..Len(ss) PROVE f[n + 1] = g[n + 1]
    OBVIOUS
  <2>1. (n + 1) - 1 = n /\ (n + 1 # 1 => n \in 1..Len(ss))
    OBVIOUS
  <2> QED
    BY <1>2, <2>1 DEF Flattens
<1> HIDE DEF T
<1>3. \A n \in Nat : n \in T
  BY <1>1, <1>2, Induction
<1> QED
  BY <1>3 DEF T

LEMMA FlattenIs ==
  ASSUME NEW S, NEW ss \in Seq(Seq(S)), ss # <<>>, NEW f, Flattens(f, ss)
  PROVE  FlattenSeq(ss) = f[Len(ss)]
<1> DEFINE g == CHOOSE h : h = [p \in 1..Len(ss) |-> IF p = 1 THEN ss[p] ELSE h[p - 1] \o ss[p]]
<1>1. PICK h \in [1..Len(ss) -> Seq(S)] : Flattens(h, ss)
  BY FlattenExists
<1>2. h = [p \in 1..Len(ss) |-> IF p = 1 THEN ss[p] ELSE h[p - 1] \o ss[p]]
  BY <1>1 DEF Flattens
<1>3. g = [p \in 1..Len(ss) |-> IF p = 1 THEN ss[p] ELSE g[p - 1] \o ss[p]]
  BY <1>2
<1>4. FlattenSeq(ss) = g[Len(ss)]
  BY DEF FlattenSeq
<1> HIDE DEF g
<1>5. Flattens(g, ss)
  BY <1>3 DEF Flattens
<1>6. Len(ss) \in Nat /\ Len(ss) \in 1..Len(ss)
  OBVIOUS
<1> QED
  BY <1>4, <1>5, <1>6, FlattenUnique

LEMMA FlattenEmpty == ASSUME NEW ss, ss = <<>> PROVE FlattenSeq(ss) = <<>>
  BY DEF FlattenSeq

LEMMA FlattenType ==
  ASSUME NEW S, NEW ss \in Seq(Seq(S))
  PROVE  FlattenSeq(ss) \in Seq(S)
<1>1. CASE ss = <<>>
  <2>1. FlattenSeq(ss) = <<>> /\ <<>> \in Seq(S)
    BY <1>1, FlattenEmpty
  <2> QED
    BY <2>1
<1>2. CASE ss # <<>>
  <2>1. PICK f \in [1..Len(ss) -> Seq(S)] : Flattens(f, ss)
    BY FlattenExists
  <2>2. FlattenSeq(ss) = f[Len(ss)] /\ Len(ss) \in 1..Len(ss)
    BY <1>2, <2>1, FlattenIs
  <2> QED
    BY <2>1, <2>2
<1> QED
  BY <1>1, <1>2

LEMMA FlattenAppend ==
  ASSUME NEW S, NEW ss \in Seq(Seq(S)), NEW s \in Seq(S)
  PROVE  FlattenSeq(Append(ss, s)) = FlattenSeq(ss) \o s
<1> DEFINE tt == Append(ss, s)
<1>1. tt \in Seq(Seq(S)) /\ Len(tt) = Len(ss) + 1 /\ tt # <<>> /\ tt[Len(ss) + 1] = s
      /\ \A p \in 1..Len(ss) : tt[p] = ss[p]
  <2>1. tt \in Seq(Seq(S))
    BY AppendProperties
  <2> QED
    BY <2>1, AppendProperties
<1> HIDE DEF tt
<1>2. PICK f \in [1..Len(tt) -> Seq(S)] : Flattens(f, tt)
  BY <1>1, FlattenExists
<1>3. Flattens(f, ss)
  <2> SUFFICES ASSUME NEW p \in 1..Len(ss)
               PROVE  f[p] = IF p = 1 THEN ss[p] ELSE f[p - 1] \o ss[p]
    BY DEF Flattens
  <2>1. p \in 1..Len(tt) /\ tt[p] = ss[p]
    BY <1>1
  <2> QED
    BY <1>2, <2>1 DEF Flattens
<1>4. FlattenSeq(tt) = f[Len(ss) + 1]
  BY <1>1, <1>2, FlattenIs
<1>5. CASE ss = <<>>
  BY <1>1, <1>2, <1>4, <1>5, FlattenEmpty DEF Flattens
<1>6. CASE ss # <<>>
  <2>1. FlattenSeq(ss) = f[Len(ss)]
    BY <1>3, <1>6, FlattenIs
  <2>2. Len(ss) + 1 # 1 /\ Len(ss) + 1 \in 1..Len(tt) /\ (Len(ss) + 1) - 1 = Len(ss)
    BY <1>1, <1>6
  <2>3. f[Len(ss) + 1] = f[Len(ss)] \o tt[Len(ss) + 1]
    BY <1>2, <2>2 DEF Flattens
  <2> QED
    BY <1>1, <1>4, <2>1, <2>3 DEF tt
<1> QED
  BY <1>5, <1>6 DEF tt

-----------------------------------------------------------------------------
(* InOrder.                                                                *)

\* How many of a set are no greater than k.
Rank(S, k) == Cardinality({j \in S : j <= k})

LEMMA Members ==
  ASSUME NEW L \in Nat, NEW S \in SUBSET (1..L)
  PROVE  \A j \in S : j \in Nat /\ j \in 1..L
  OBVIOUS

LEMMA RankType ==
  ASSUME NEW L \in Nat, NEW S \in SUBSET (1..L)
  PROVE  /\ IsFiniteSet(S) /\ Cardinality(S) \in Nat
         /\ \A k \in Nat : Rank(S, k) \in Nat /\ IsFiniteSet({j \in S : j <= k})
         /\ Rank(S, 0) = 0 /\ Rank(S, L) = Cardinality(S)
<1>m. \A h \in S : h \in Nat /\ h \in 1..L
  BY Members
<1>1. IsFiniteSet(1..L)
  BY FS_Interval
<1>2. IsFiniteSet(S)
  BY <1>1, FS_Subset
<1>3. ASSUME NEW k \in Nat PROVE Rank(S, k) \in Nat /\ IsFiniteSet({j \in S : j <= k})
  <2>1. {j \in S : j <= k} \in SUBSET S
    OBVIOUS
  <2>2. IsFiniteSet({j \in S : j <= k})
    BY <1>2, <2>1, FS_Subset
  <2> QED
    BY <2>2, FS_CardinalityType DEF Rank
<1>4. {j \in S : j <= 0} = {} /\ {j \in S : j <= L} = S
  <2>1. \A j \in S : ~(j <= 0) /\ j <= L
    BY <1>m
  <2> QED
    BY <2>1, Zenon
<1> QED
  BY <1>2, <1>3, <1>4, FS_CardinalityType, FS_EmptySet DEF Rank

\* The rank goes up by one at each member.
LEMMA RankGrows ==
  ASSUME NEW L \in Nat, NEW S \in SUBSET (1..L), NEW k \in 1..L
  PROVE  Rank(S, k) = IF k \in S THEN Rank(S, k - 1) + 1 ELSE Rank(S, k - 1)
<1>m. \A h \in S : h \in Nat /\ h \in 1..L
  BY Members
<1> DEFINE A == {j \in S : j <= k - 1}
<1>1. k - 1 \in Nat /\ IsFiniteSet(A)
  BY RankType
<1>2. CASE k \in S
  <2>1. {j \in S : j <= k} = A \cup {k} /\ k \notin A
    <3>1. \A j \in S : j <= k <=> j <= k - 1 \/ j = k
      BY <1>m
    <3>2. ~(k <= k - 1) /\ k <= k
      OBVIOUS
    <3> QED
      BY <1>2, <3>1, <3>2, Zenon
  <2>2. Cardinality(A \cup {k}) = Cardinality(A) + 1
    BY <1>1, <2>1, FS_AddElement
  <2> QED
    BY <1>2, <2>1, <2>2 DEF Rank
<1>3. CASE k \notin S
  <2>1. {j \in S : j <= k} = A
    <3>1. \A j \in S : j <= k <=> j <= k - 1
      BY <1>3, <1>m
    <3> QED
      BY <3>1, Zenon
  <2> QED
    BY <1>3, <2>1 DEF Rank
<1> QED
  BY <1>2, <1>3

LEMMA RankOrders ==
  ASSUME NEW L \in Nat, NEW S \in SUBSET (1..L), NEW j \in Nat, NEW k \in S, j < k
  PROVE  Rank(S, j) < Rank(S, k) /\ Rank(S, k) <= Cardinality(S)
<1>m. \A h \in S : h \in Nat /\ h \in 1..L
  BY Members
<1>1. k \in 1..L /\ k - 1 \in Nat /\ Rank(S, k) = Rank(S, k - 1) + 1
  <2>1. k \in 1..L
    BY Members
  <2> QED
    BY <2>1, RankGrows
<1>2. IsFiniteSet({p \in S : p <= k - 1}) /\ IsFiniteSet(S)
  BY <1>1, RankType
<1>3. {p \in S : p <= j} \in SUBSET {p \in S : p <= k - 1} /\ {p \in S : p <= k} \in SUBSET S
  <2>1. \A p \in S : p <= j => p <= k - 1
    BY <1>1, <1>m
  <2> QED
    BY <2>1, Zenon
<1>4. Rank(S, j) <= Rank(S, k - 1)
  BY <1>2, <1>3, FS_Subset DEF Rank
<1>5. Rank(S, k) <= Cardinality(S)
  BY <1>2, <1>3, FS_Subset DEF Rank
<1>6. Rank(S, j) \in Nat /\ Rank(S, k - 1) \in Nat
  BY <1>1, RankType
<1> QED
  BY <1>1, <1>4, <1>5, <1>6

\* The members in increasing order, each once.
LEMMA InOrderIs ==
  ASSUME NEW L \in Nat, NEW S \in SUBSET (1..L), NEW s, s = InOrder(S)
  PROVE  /\ s \in Seq(S) /\ Len(s) = Cardinality(S) /\ Len(s) \in Nat
         /\ \A m \in 1..Len(s) : s[m] \in S /\ Rank(S, s[m]) = m
         /\ \A k \in S : Rank(S, k) \in 1..Len(s) /\ s[Rank(S, k)] = k
<1>1. Cardinality(S) \in Nat
  BY RankType
<1>2. ASSUME NEW m \in 1..Cardinality(S) PROVE s[m] \in S /\ Rank(S, s[m]) = m
  <2> DEFINE T == {k \in 0..L : Rank(S, k) >= m}
  <2>1. L \in T
    BY RankType
  <2>2. PICK k \in T : \A j \in T : k <= j
    <3>1. T \subseteq Nat /\ T # {}
      BY <2>1
    <3> HIDE DEF T
    <3> QED
      BY <3>1, Least
  <2>3. k # 0 /\ k \in 1..L /\ k - 1 \in 0..L /\ k - 1 \in Nat
    BY <1>1, <2>2, RankType
  <2>4. Rank(S, k - 1) \in Nat /\ Rank(S, k - 1) < m
    <3>1. k - 1 \notin T
      BY <2>2, <2>3
    <3>2. Rank(S, k - 1) \in Nat
      BY <2>3, RankType
    <3> QED
      BY <1>1, <2>3, <3>1, <3>2
  <2>5. k \in S /\ Rank(S, k) = m
    BY <1>1, <2>2, <2>3, <2>4, RankGrows
  <2>6. s[m] = CHOOSE p \in S : Rank(S, p) = m
    BY DEF InOrder, Rank
  <2> QED
    BY <2>5, <2>6
<1>3. s \in [1..Cardinality(S) -> S]
  <2> DEFINE e(m) == CHOOSE k \in S : Cardinality({j \in S : j <= k}) = m
  <2>1. s = [m \in 1..Cardinality(S) |-> e(m)]
    BY DEF InOrder
  <2> HIDE DEF e
  <2>2. \A m \in 1..Cardinality(S) : e(m) \in S
    BY <1>2, <2>1
  <2> QED
    BY <2>1, <2>2
<1>4. s \in Seq(S) /\ Len(s) = Cardinality(S)
  BY <1>1, <1>3
<1>5. ASSUME NEW k \in S PROVE Rank(S, k) \in 1..Len(s) /\ s[Rank(S, k)] = k
  <2>1. Rank(S, k) \in 1..Len(s)
    <3>1. k \in 1..L /\ k \in Nat /\ 0 < k /\ Rank(S, 0) = 0
      BY Members, RankType
    <3>2. Rank(S, k) \in Nat
      BY <3>1, RankType
    <3>3. Rank(S, 0) < Rank(S, k) /\ Rank(S, k) <= Cardinality(S)
      BY <3>1, RankOrders
    <3> QED
      BY <1>1, <1>4, <3>1, <3>2, <3>3
  <2>2. s[Rank(S, k)] \in S /\ Rank(S, s[Rank(S, k)]) = Rank(S, k)
    BY <1>2, <1>4, <2>1
  <2>3. ASSUME NEW p \in S, p # k PROVE Rank(S, p) # Rank(S, k)
    <3>1. p \in Nat /\ k \in Nat
      BY Members
    <3>2. Rank(S, p) \in Nat /\ Rank(S, k) \in Nat
      BY <3>1, RankType
    <3>3. p < k => Rank(S, p) < Rank(S, k)
      BY <3>1, RankOrders
    <3>4. k < p => Rank(S, k) < Rank(S, p)
      BY <3>1, RankOrders
    <3> QED
      BY <2>3, <3>1, <3>2, <3>3, <3>4
  <2> QED
    BY <2>1, <2>2, <2>3
<1> QED
  BY <1>1, <1>2, <1>4, <1>5

-----------------------------------------------------------------------------
(* The messages of a file.                                                 *)

\* The kinds of packets that make a word, and the words of the file.
Wordy     == {"data", "config", "sync", "trig"}
WordAt(k) == packet_data_data(packet(k))[1]
FileWords == {WordAt(k) : k \in {j \in 1..Len(file) : file[j] \in Wordy}}

LEMMA FileType ==
  ASSUME file \in Files
  PROVE  file \in Seq(Kinds) /\ Len(file) \in Nat
  BY FilesAssumption

LEMMA PacketWords ==
  ASSUME file \in Files, NEW k \in 1..Len(file)
  PROVE  /\ file[k] \in Wordy => packet_data_data(packet(k)) = <<WordAt(k)>>
                                 /\ WordAt(k)[1] \in {"DATA", "TRIG", "SYNC"}
         /\ file[k] \notin Wordy => packet_data_data(packet(k)) = <<>>
         /\ packet_data_data(packet(k)) \in Seq(FileWords)
<1>1. file[k] \in Kinds
  BY FileType
<1>2. CASE file[k] \in {"data", "config"}
  <2>1. packet(k).kind = "v2"
    BY <1>2 DEF packet
  <2>2. packet_data_data(packet(k)) =
          <<<<"DATA", packet(k).io_channel, packet(k).receipt_timestamp, packet(k).bytes>>>>
    BY <2>1 DEF packet_data_data
  <2> QED
    BY <1>2, <2>2 DEF WordAt, Wordy, FileWords
<1>3. CASE file[k] = "sync"
  <2>1. packet(k).kind = "sync"
    BY <1>3 DEF packet
  <2>2. packet_data_data(packet(k)) =
          <<<<"SYNC", packet(k).sync_type, packet(k).clk_source, packet(k).timestamp>>>>
    BY <2>1 DEF packet_data_data
  <2> QED
    BY <1>3, <2>2 DEF WordAt, Wordy, FileWords
<1>4. CASE file[k] = "trig"
  <2>1. packet(k).kind = "trigger"
    BY <1>4 DEF packet
  <2>2. packet_data_data(packet(k)) = <<<<"TRIG", packet(k).trigger_type, packet(k).timestamp>>>>
    BY <2>1 DEF packet_data_data
  <2> QED
    BY <1>4, <2>2 DEF WordAt, Wordy, FileWords
<1>5. CASE file[k] \in {"time", "message"}
  <2>1. packet(k).kind = "timestamp"
    BY <1>5 DEF packet
  <2>2. packet_data_data(packet(k)) = <<>>
    BY <2>1 DEF packet_data_data
  <2> QED
    BY <1>5, <2>2 DEF Wordy
<1> QED
  BY <1>1, <1>2, <1>3, <1>4, <1>5 DEF Kinds

LEMMA WordsType ==
  ASSUME file \in Files, NEW from \in 1..Len(file), NEW to \in Nat, to <= Len(file)
  PROVE  Words(from, to) \in Seq(FileWords)
<1> DEFINE ss == [k \in 1..(to - from + 1) |-> packet_data_data(packet(from + k - 1))]
<1>1. Len(file) \in Nat
  BY FileType
<1>2. ASSUME NEW k \in 1..(to - from + 1)
      PROVE  packet_data_data(packet(from + k - 1)) \in Seq(FileWords)
  <2>1. from + k - 1 \in 1..Len(file)
    BY <1>1
  <2> QED
    BY <2>1, PacketWords
<1>3. ss \in Seq(Seq(FileWords))
  <2>1. CASE to - from + 1 \in Nat
    BY <1>2, <2>1
  <2>2. CASE to - from + 1 <= 0
    BY <1>2, <2>2
  <2> QED
    BY <2>1, <2>2
<1> HIDE DEF ss
<1>4. FlattenSeq(ss) \in Seq(FileWords)
  BY <1>3, FlattenType
<1> QED
  BY <1>4 DEF Words, ss

\* The breaks are places of the file in increasing order; the last is its end.
Breaks == {k \in 1..Len(file) : packet_type(file[k]) = 0 \/ k = Len(file)}

LEMMA BreaksType ==
  ASSUME file \in Files
  PROVE  /\ msg_breaks \in Seq(1..Len(file)) /\ Len(msg_breaks) \in Nat
         /\ \A m \in 1..(Len(msg_breaks) - 1) : msg_breaks[m] < msg_breaks[m + 1]
         /\ msg_breaks = <<>> => file = <<>>
         /\ msg_breaks # <<>> => msg_breaks[Len(msg_breaks)] = Len(file)
<1> DEFINE L == Len(file)
<1>1. L \in Nat /\ Breaks \in SUBSET (1..L)
  BY FileType DEF Breaks
<1>2. msg_breaks = InOrder(Breaks)
  BY DEF msg_breaks, Breaks
<1> DEFINE s == msg_breaks
<1>3. /\ s \in Seq(Breaks) /\ Len(s) = Cardinality(Breaks) /\ Len(s) \in Nat
      /\ \A m \in 1..Len(s) : s[m] \in Breaks /\ Rank(Breaks, s[m]) = m
      /\ \A k \in Breaks : Rank(Breaks, k) \in 1..Len(s) /\ s[Rank(Breaks, k)] = k
  BY <1>1, <1>2, InOrderIs
<1>4. \A k \in Breaks : k \in 1..L /\ k \in Nat
  BY <1>1
<1>5. s \in Seq(1..L)
  BY <1>3, <1>4
<1>6. ASSUME NEW m \in 1..(Len(s) - 1) PROVE s[m] < s[m + 1]
  <2>1. m \in 1..Len(s) /\ m + 1 \in 1..Len(s)
    BY <1>3
  <2>2. s[m] \in Breaks /\ s[m + 1] \in Breaks
        /\ Rank(Breaks, s[m]) = m /\ Rank(Breaks, s[m + 1]) = m + 1
    BY <1>3, <2>1
  <2>3. s[m] \in Nat /\ s[m + 1] \in Nat
    BY <1>4, <2>2
  <2>4. s[m + 1] < s[m] => Rank(Breaks, s[m + 1]) < Rank(Breaks, s[m])
    BY <1>1, <2>2, <2>3, RankOrders
  <2> QED
    BY <2>2, <2>3, <2>4
<1>7. L # 0 => L \in Breaks
  BY <1>1 DEF Breaks
<1>8. L = 0 => file = <<>>
  BY FileType
<1>9. ASSUME s # <<>> PROVE s[Len(s)] = L
  <2>1. Len(s) \in 1..Len(s)
    BY <1>3, <1>9
  <2>2. s[Len(s)] \in Breaks /\ Rank(Breaks, s[Len(s)]) = Len(s)
    BY <1>3, <2>1
  <2>3. s[Len(s)] \in 1..L /\ s[Len(s)] \in Nat
    BY <1>4, <2>2
  <2>4. L \in Breaks
    BY <1>1, <1>7, <2>3
  <2>5. s[Len(s)] < L => Len(s) < Rank(Breaks, L) /\ Rank(Breaks, L) <= Cardinality(Breaks)
    BY <1>1, <2>2, <2>3, <2>4, RankOrders
  <2>6. Rank(Breaks, L) \in 1..Len(s)
    BY <1>3, <2>4
  <2> QED
    BY <1>1, <1>3, <2>3, <2>5, <2>6
<1>10. s = <<>> => file = <<>>
  BY <1>3, <1>7, <1>8
<1> QED
  BY <1>3, <1>5, <1>6, <1>9, <1>10

LEMMA HdfType ==
  ASSUME file \in Files
  PROVE  hdf5ToPackets \in Seq(Seq(FileWords))
<1>1. Len(msg_breaks) \in Nat /\ msg_breaks \in Seq(1..Len(file)) /\ Len(file) \in Nat
  BY BreaksType, FileType
<1>2. ASSUME NEW m \in 1..(Len(msg_breaks) - 1)
      PROVE  Words(msg_breaks[m], msg_breaks[m + 1] - 1) \in Seq(FileWords)
  <2>1. msg_breaks[m] \in 1..Len(file) /\ msg_breaks[m + 1] \in 1..Len(file)
    BY <1>1
  <2>2. msg_breaks[m + 1] - 1 \in Nat /\ msg_breaks[m + 1] - 1 <= Len(file)
    BY <1>1, <2>1
  <2> QED
    BY <2>1, <2>2, WordsType
<1> DEFINE w(m) == Words(msg_breaks[m], msg_breaks[m + 1] - 1)
<1>3. hdf5ToPackets = [m \in 1..(Len(msg_breaks) - 1) |-> w(m)]
  BY DEF hdf5ToPackets
<1>4. \A m \in 1..(Len(msg_breaks) - 1) : w(m) \in Seq(FileWords)
  BY <1>2
<1> HIDE DEF w
<1>5. CASE Len(msg_breaks) = 0
  BY <1>3, <1>4, <1>5
<1>6. CASE Len(msg_breaks) # 0
  BY <1>1, <1>3, <1>4, <1>6
<1> QED
  BY <1>5, <1>6

\* The words of two stretches of the file, one behind the other.
LEMMA WordsJoin ==
  ASSUME file \in Files, NEW a \in 1..Len(file), NEW b \in 1..Len(file), a <= b,
         NEW c \in Nat, b <= c + 1, c <= Len(file)
  PROVE  Words(a, b - 1) \o Words(b, c) = Words(a, c)
<1> DEFINE w(k) == packet_data_data(packet(k))
           W(from, n) == [k \in 1..n |-> w(from + k - 1)]
           T == {n \in Nat : b + n - 1 <= Len(file) =>
                               Words(a, b - 1) \o Words(b, b + n - 1) = Words(a, b + n - 1)}
<1>1. Len(file) \in Nat
  BY FileType
<1>2. \A k \in 1..Len(file) : w(k) \in Seq(FileWords)
  BY PacketWords
<1>3. ASSUME NEW from \in 1..Len(file), NEW to \in Nat, to <= Len(file), from <= to + 1
      PROVE  Words(from, to) = FlattenSeq(W(from, to - from + 1))
             /\ W(from, to - from + 1) \in Seq(Seq(FileWords))
  <2>1. to - from + 1 \in Nat
    BY <1>1, <1>3
  <2>2. \A k \in 1..(to - from + 1) : w(from + k - 1) \in Seq(FileWords)
    BY <1>1, <1>2, <1>3
  <2>3. Words(from, to) = FlattenSeq(W(from, to - from + 1))
    BY DEF Words
  <2> HIDE DEF w
  <2>4. W(from, to - from + 1) \in Seq(Seq(FileWords))
    BY <2>1, <2>2
  <2> QED
    BY <2>3, <2>4
<1>4. ASSUME NEW from \in 1..Len(file), NEW to \in Nat, to + 1 <= Len(file), from <= to + 1
      PROVE  Words(from, to + 1) = Words(from, to) \o w(to + 1)
  <2> DEFINE n == to - from + 1
  <2>1. n \in Nat /\ (to + 1) - from + 1 = n + 1 /\ from + (n + 1) - 1 = to + 1 /\ to <= Len(file)
    BY <1>1, <1>4
  <2>2. Words(from, to) = FlattenSeq(W(from, n)) /\ W(from, n) \in Seq(Seq(FileWords))
    BY <1>3, <1>4, <2>1
  <2>3. Words(from, to + 1) = FlattenSeq(W(from, n + 1))
    BY <1>3, <1>4, <2>1
  <2>4. w(to + 1) \in Seq(FileWords)
    BY <1>2, <1>4
  <2>5. W(from, n + 1) = Append(W(from, n), w(to + 1))
    <3> HIDE DEF w, n
    <3>1. Len(W(from, n)) = n /\ W(from, n) \in Seq(Seq(FileWords))
      BY <2>1, <2>2
    <3>2. \A k \in 1..n + 1 : W(from, n + 1)[k] = Append(W(from, n), w(to + 1))[k]
      BY <2>1, <3>1
    <3>3. Append(W(from, n), w(to + 1)) = [k \in 1..n + 1 |-> Append(W(from, n), w(to + 1))[k]]
      BY <2>1, <3>1
    <3> QED
      BY <3>2, <3>3
  <2> QED
    BY <2>2, <2>3, <2>4, <2>5, FlattenAppend
<1> HIDE DEF w, W
<1>5. b - 1 \in Nat /\ b - 1 <= Len(file) /\ a <= b - 1 + 1 /\ Words(a, b - 1) \in Seq(FileWords)
  BY <1>1, WordsType
<1>6. 0 \in T
  <2>1. Words(b, b - 1) = FlattenSeq(W(b, 0))
    BY <1>3, <1>5
  <2>2. W(b, 0) = <<>>
    BY DEF W
  <2>3. Words(b, b - 1) = <<>>
    BY <2>1, <2>2, FlattenEmpty
  <2>4. Words(a, b - 1) \o <<>> = Words(a, b - 1)
    BY <1>5
  <2>5. b + 0 - 1 = b - 1
    OBVIOUS
  <2> QED
    BY <2>3, <2>4, <2>5
<1>7. ASSUME NEW n \in Nat, n \in T PROVE n + 1 \in T
  <2> SUFFICES ASSUME b + (n + 1) - 1 <= Len(file)
               PROVE  Words(a, b - 1) \o Words(b, b + (n + 1) - 1) = Words(a, b + (n + 1) - 1)
    OBVIOUS
  <2> DEFINE to == b + n - 1
  <2>1. to \in Nat /\ to + 1 = b + (n + 1) - 1 /\ to + 1 <= Len(file) /\ a <= to + 1 /\ b <= to + 1
        /\ to <= Len(file) /\ to + 1 \in 1..Len(file)
    BY <1>1
  <2>2. Words(a, b - 1) \o Words(b, to) = Words(a, to)
    BY <1>7, <2>1
  <2> HIDE DEF to
  <2>3. Words(b, to + 1) = Words(b, to) \o w(to + 1) /\ Words(a, to + 1) = Words(a, to) \o w(to + 1)
    BY <1>4, <2>1
  <2>4. Words(b, to) \in Seq(FileWords) /\ w(to + 1) \in Seq(FileWords)
    BY <1>2, <2>1, WordsType
  <2>5. Words(a, b - 1) \o (Words(b, to) \o w(to + 1)) = (Words(a, b - 1) \o Words(b, to)) \o w(to + 1)
    <3>1. \A p, q, r \in Seq(FileWords) : p \o (q \o r) = (p \o q) \o r
      OBVIOUS
    <3> QED
      BY <1>5, <2>4, <3>1
  <2> QED
    BY <2>1, <2>2, <2>3, <2>5
<1> HIDE DEF T
<1>8. c - b + 1 \in T
  <2>1. \A n \in Nat : n \in T
    BY <1>6, <1>7, Induction
  <2> QED
    BY <2>1
<1>9. b + (c - b + 1) - 1 = c
  OBVIOUS
<1> QED
  BY <1>8, <1>9 DEF T

\* The first messages together: the words from the first break to the next.
LEMMA HdfFlat ==
  ASSUME file \in Files, NEW n \in 1..Len(hdf5ToPackets)
  PROVE  FlattenSeq(SubSeq(hdf5ToPackets, 1, n)) = Words(msg_breaks[1], msg_breaks[n + 1] - 1)
<1> DEFINE b == msg_breaks
           w(m) == Words(b[m], b[m + 1] - 1)
           H(k) == [m \in 1..k |-> w(m)]
           T == {k \in Nat : k + 1 <= Len(b) => FlattenSeq(H(k)) = Words(b[1], b[k + 1] - 1)}
<1>1. /\ Len(b) \in Nat /\ b \in Seq(1..Len(file)) /\ Len(file) \in Nat
      /\ \A m \in 1..(Len(b) - 1) : b[m] < b[m + 1]
      /\ b # <<>> => b[Len(b)] = Len(file)
  BY BreaksType, FileType
<1>2. hdf5ToPackets = H(Len(b) - 1)
  BY DEF hdf5ToPackets
<1>3. ASSUME NEW m \in 1..(Len(b) - 1) PROVE w(m) \in Seq(FileWords)
  <2>1. b[m] \in 1..Len(file) /\ b[m + 1] \in 1..Len(file)
    BY <1>1
  <2>2. b[m + 1] - 1 \in Nat /\ b[m + 1] - 1 <= Len(file)
    BY <1>1, <2>1
  <2> QED
    BY <2>1, <2>2, WordsType
<1> HIDE DEF b
<1>4. 0 \in T
  <2> SUFFICES ASSUME 1 <= Len(b) PROVE FlattenSeq(H(0)) = Words(b[1], b[0 + 1] - 1)
    OBVIOUS
  <2>1. H(0) = <<>>
    OBVIOUS
  <2>2. FlattenSeq(H(0)) = <<>>
    BY <2>1, FlattenEmpty
  <2>3. b[1] \in 1..Len(file)
    BY <1>1
  <2>4. (b[1] - 1) - b[1] + 1 = 0
    BY <2>3
  <2>5. [k \in 1..((b[1] - 1) - b[1] + 1) |-> packet_data_data(packet(b[1] + k - 1))] = <<>>
    BY <2>4
  <2>6. Words(b[1], b[1] - 1) = <<>>
    BY <2>5, FlattenEmpty DEF Words
  <2> QED
    BY <2>2, <2>6
<1>5. ASSUME NEW p \in Nat, p \in T PROVE p + 1 \in T
  <2> SUFFICES ASSUME p + 2 <= Len(b) PROVE FlattenSeq(H(p + 1)) = Words(b[1], b[p + 2] - 1)
    OBVIOUS
  <2>1. FlattenSeq(H(p)) = Words(b[1], b[p + 1] - 1)
    BY <1>1, <1>5
  <2>2. p + 1 \in 1..(Len(b) - 1) /\ (p + 1) + 1 = p + 2
    BY <1>1
  <2>3. /\ b[1] \in 1..Len(file) /\ b[p + 1] \in 1..Len(file) /\ b[p + 2] \in 1..Len(file)
        /\ b[p + 1] < b[p + 2]
    BY <1>1, <2>2
  <2>4. b[1] <= b[p + 1]
    <3> DEFINE U == {k \in Nat : k + 1 <= Len(b) => b[1] <= b[k + 1]}
    <3>1. 0 \in U
      BY <1>1
    <3>2. ASSUME NEW k \in Nat, k \in U PROVE k + 1 \in U
      <4> SUFFICES ASSUME k + 2 <= Len(b) PROVE b[1] <= b[k + 2]
        OBVIOUS
      <4>1. k + 1 \in 1..(Len(b) - 1) /\ (k + 1) + 1 = k + 2 /\ k + 1 <= Len(b)
        BY <1>1
      <4>2. b[k + 1] < b[k + 2] /\ b[1] <= b[k + 1]
        BY <1>1, <3>2, <4>1
      <4>3. b[1] \in Int /\ b[k + 1] \in Int /\ b[k + 2] \in Int
        BY <1>1, <4>1
      <4> QED
        BY <4>2, <4>3
    <3> HIDE DEF U
    <3>3. p \in U
      BY <3>1, <3>2, Induction
    <3> QED
      BY <1>1, <2>2, <3>3 DEF U
  <2>5. H(p + 1) = Append(H(p), w(p + 1)) /\ H(p) \in Seq(Seq(FileWords)) /\ w(p + 1) \in Seq(FileWords)
    <3>1. \A m \in 1..p + 1 : w(m) \in Seq(FileWords)
      BY <1>1, <1>3, <2>2
    <3> HIDE DEF w
    <3>2. H(p) \in Seq(Seq(FileWords)) /\ Len(H(p)) = p
      BY <3>1
    <3>3. \A m \in 1..p + 1 : H(p + 1)[m] = Append(H(p), w(p + 1))[m]
      BY <3>2
    <3>4. Append(H(p), w(p + 1)) = [m \in 1..p + 1 |-> Append(H(p), w(p + 1))[m]]
      BY <3>2
    <3> QED
      BY <3>1, <3>2, <3>3, <3>4
  <2>6. FlattenSeq(H(p + 1)) = Words(b[1], b[p + 1] - 1) \o w(p + 1)
    BY <2>1, <2>5, FlattenAppend
  <2>7. Words(b[1], b[p + 1] - 1) \o Words(b[p + 1], b[p + 2] - 1) = Words(b[1], b[p + 2] - 1)
    <3>1. b[p + 2] - 1 \in Nat /\ b[p + 1] <= (b[p + 2] - 1) + 1 /\ b[p + 2] - 1 <= Len(file)
      <4>1. PICK l, c, d : l = Len(file) /\ c = b[p + 1] /\ d = b[p + 2]
        OBVIOUS
      <4>2. l \in Nat /\ c \in 1..l /\ d \in 1..l /\ c < d
        BY <1>1, <2>3, <4>1
      <4>3. d - 1 \in Nat /\ c <= (d - 1) + 1 /\ d - 1 <= l
        BY ONLY <4>2
      <4> QED
        BY <4>1, <4>3
    <3> QED
      BY <2>3, <2>4, <3>1, WordsJoin
  <2> QED
    BY <2>2, <2>6, <2>7
<1>6. n \in Nat /\ n \in T /\ n + 1 <= Len(b)
  <2> HIDE DEF T
  <2>1. \A k \in Nat : Len(H(k)) = k
    OBVIOUS
  <2>2. Len(b) - 1 \in Nat
    <3>1. CASE Len(b) = 0
      <4>1. 1..(Len(b) - 1) = {}
        BY <3>1
      <4>2. H(Len(b) - 1) = <<>>
        BY <4>1
      <4>3. Len(hdf5ToPackets) = 0
        BY <1>2, <4>2
      <4> QED
        BY <4>3
    <3> QED
      BY <1>1, <3>1
  <2> HIDE DEF H
  <2>3. n \in Nat /\ n + 1 <= Len(b)
    BY <1>1, <1>2, <2>1, <2>2
  <2>4. n \in T
    BY <1>4, <1>5, <2>3, Induction
  <2> QED
    BY <2>3, <2>4
<1>7. SubSeq(hdf5ToPackets, 1, n) = H(n)
  BY <1>1, <1>2, <1>6
<1> QED
  BY <1>6, <1>7 DEF b

-----------------------------------------------------------------------------
(* The events of an MPD file.                                              *)

\* After each reading of the file: so many events of it, or as many as are
\* asked for and still missing.
Taken(s)  == LET missing == args.n_messages_total - Len(s)
             IN IF missing \in 1..Len(file) THEN missing ELSE Len(file)
Reading(s) == s \o [k \in 1..Taken(s) |-> k]

\* Events follow one another, and start again behind the file's last or where
\* the number asked for is reached.
Follow(s) ==
  \A k \in 1..Len(s) :
    s[k] = IF k = 1 \/ s[k - 1] = Len(file) \/ k - 1 = args.n_messages_total
             THEN 1 ELSE s[k - 1] + 1
Rounded(s) == s = <<>> \/ s[Len(s)] = Len(file) \/ Len(s) = args.n_messages_total

LEMMA ReadingFollows ==
  ASSUME file \in Files, args \in Arguments, NEW s \in Seq(Nat), Follow(s), Rounded(s)
  PROVE  Reading(s) \in Seq(Nat) /\ Follow(Reading(s)) /\ Rounded(Reading(s))
<1> DEFINE L == Len(file)
           N == args.n_messages_total
           t == Taken(s)
           e == [k \in 1..t |-> k]
           r == s \o e
<1>1. L \in Nat /\ N \in Nat \ {0} /\ Len(s) \in Nat
  BY FileType, ArgumentsAssumption
<1>2. t \in 0..L /\ (t # L => Len(s) + t = N)
  BY <1>1 DEF Taken
<1> HIDE DEF t
<1>3. e \in Seq(Nat) /\ Len(e) = t /\ \A k \in 1..t : e[k] = k
  BY <1>1, <1>2
<1> HIDE DEF e
<1>4. /\ r \in Seq(Nat) /\ Len(r) = Len(s) + t
      /\ \A k \in 1..Len(s) : r[k] = s[k]
      /\ \A k \in 1..t : r[Len(s) + k] = k
  BY <1>1, <1>2, <1>3
<1> HIDE DEF r
<1>5. Follow(r)
  <2> SUFFICES ASSUME NEW k \in 1..Len(r)
               PROVE  r[k] = IF k = 1 \/ r[k - 1] = L \/ k - 1 = N THEN 1 ELSE r[k - 1] + 1
    BY DEF Follow
  <2>1. CASE k <= Len(s)
    <3>1. k \in 1..Len(s) /\ (k # 1 => k - 1 \in 1..Len(s))
      BY <1>1, <1>4, <2>1
    <3> QED
      BY <1>4, <3>1 DEF Follow
  <2>2. CASE k = Len(s) + 1
    <3>1. r[k] = 1
      BY <1>1, <1>2, <1>4, <2>2
    <3>2. CASE s = <<>>
      BY <2>2, <3>1, <3>2
    <3>3. CASE s # <<>>
      <4>1. k - 1 = Len(s) /\ k - 1 \in 1..Len(s)
        BY <1>1, <2>2, <3>3
      <4>2. r[k - 1] = s[Len(s)]
        BY <1>4, <4>1
      <4> QED
        BY <3>1, <3>3, <4>1, <4>2 DEF Rounded
    <3> QED
      BY <3>2, <3>3
  <2>3. CASE k > Len(s) + 1
    <3> DEFINE j == k - Len(s)
    <3>1. j \in 1..t /\ j - 1 \in 1..t /\ k = Len(s) + j /\ k - 1 = Len(s) + (j - 1)
      BY <1>1, <1>2, <1>4, <2>3
    <3>2. r[k] = j /\ r[k - 1] = j - 1
      BY <1>4, <3>1
    <3>3. j - 1 # L
      BY <1>1, <1>2, <3>1
    <3>4. k - 1 # N
      <4>1. CASE t # L
        BY <1>1, <1>2, <3>1, <4>1
      <4>2. CASE t = L /\ N - Len(s) \in 1..L
        <5>1. t = N - Len(s)
          BY <4>2 DEF t, Taken
        <5> QED
          BY <1>1, <1>2, <3>1, <5>1
      <4>3. CASE N - Len(s) \notin 1..L
        BY <1>1, <1>2, <3>1, <4>3
      <4> QED
        BY <4>1, <4>2, <4>3
    <3>5. k # 1
      BY <1>1, <2>3
    <3> QED
      BY <3>1, <3>2, <3>3, <3>4, <3>5
  <2>4. k \in Nat /\ Len(s) \in Nat
    BY <1>1, <1>2, <1>4
  <2>5. k <= Len(s) \/ k = Len(s) + 1 \/ k > Len(s) + 1
    BY <2>4
  <2> QED
    BY <2>1, <2>2, <2>3, <2>5
<1>6. Rounded(r)
  <2>1. CASE t = 0
    BY <1>1, <1>2, <1>4, <2>1 DEF Rounded
  <2>2. CASE t # 0
    <3>1. t \in 1..t /\ r[Len(r)] = t
      BY <1>2, <1>4, <2>2
    <3> QED
      BY <1>2, <1>4, <3>1 DEF Rounded
  <2> QED
    BY <2>1, <2>2
<1>7. Reading(s) = r
  BY DEF Reading, r, e, t
<1> QED
  BY <1>4, <1>5, <1>6, <1>7

LEMMA DecodedFollows ==
  ASSUME file \in Files, args \in Arguments
  PROVE  decoded \in Seq(Nat) /\ Follow(decoded)
<1> DEFINE E == args.n_file_evals
           Is(f, n) == f = [m \in 0..n |-> IF m = 0 THEN <<>> ELSE Reading(f[m - 1])]
           T == {n \in Nat : \E f : Is(f, n) /\ Follow(f[n]) /\ Rounded(f[n]) /\ f[n] \in Seq(Nat)}
           g == CHOOSE f : Is(f, E)
<1>1. E \in Nat
  BY ArgumentsAssumption
<1>2. 0 \in T
  <2> DEFINE f == [m \in 0..0 |-> <<>>]
  <2>1. f[0] = <<>> /\ Is(f, 0)
    OBVIOUS
  <2>2. Follow(<<>>) /\ Rounded(<<>>) /\ <<>> \in Seq(Nat)
    BY DEF Follow, Rounded
  <2> HIDE DEF f, Is
  <2> QED
    BY <2>1, <2>2
<1>3. ASSUME NEW n \in Nat, n \in T PROVE n + 1 \in T
  <2>1. PICK f : Is(f, n) /\ Follow(f[n]) /\ Rounded(f[n]) /\ f[n] \in Seq(Nat)
    BY <1>3
  <2> DEFINE h == [m \in 0..(n + 1) |-> IF m = n + 1 THEN Reading(f[n]) ELSE f[m]]
  <2>2. h[n + 1] = Reading(f[n]) /\ \A m \in 0..n : h[m] = f[m]
    OBVIOUS
  <2>3. \A m \in 0..n : f[m] = IF m = 0 THEN <<>> ELSE Reading(f[m - 1])
    BY <2>1
  <2>4. \A m \in 0..(n + 1) : h[m] = IF m = 0 THEN <<>> ELSE Reading(h[m - 1])
    <3> SUFFICES ASSUME NEW m \in 0..(n + 1)
                 PROVE  h[m] = IF m = 0 THEN <<>> ELSE Reading(h[m - 1])
      OBVIOUS
    <3>1. CASE m = n + 1
      <4>1. m # 0 /\ m - 1 = n /\ n \in 0..n
        BY <3>1
      <4> HIDE DEF h
      <4> QED
        BY <2>2, <3>1, <4>1
    <3>2. CASE m # n + 1
      <4>1. m \in 0..n /\ (m # 0 => m - 1 \in 0..n)
        BY <3>2
      <4> HIDE DEF h
      <4> QED
        BY <2>2, <2>3, <4>1
    <3> QED
      BY <3>1, <3>2
  <2>5. h = [m \in 0..(n + 1) |-> h[m]]
    OBVIOUS
  <2> HIDE DEF h
  <2>6. Is(h, n + 1)
    BY <2>4, <2>5
  <2>7. h[n + 1] \in Seq(Nat) /\ Follow(h[n + 1]) /\ Rounded(h[n + 1])
    BY <2>1, <2>2, ReadingFollows
  <2> HIDE DEF Is
  <2> QED
    BY <2>6, <2>7
<1>4. \E f : Is(f, E)
  <2> HIDE DEF T
  <2>1. E \in T
    BY <1>1, <1>2, <1>3, Induction
  <2> QED
    BY <2>1 DEF T
<1>5. Is(g, E)
  <2> HIDE DEF Is
  <2> QED
    BY <1>4
<1>6. decoded = g[E]
  BY DEF decoded, Reading, Taken
<1> HIDE DEF g
<1>7. \A n \in Nat : n \in {m \in Nat : m <= E => g[m] \in Seq(Nat) /\ Follow(g[m]) /\ Rounded(g[m])}
  <2> DEFINE U == {m \in Nat : m <= E => g[m] \in Seq(Nat) /\ Follow(g[m]) /\ Rounded(g[m])}
  <2>0. \A m \in 0..E : g[m] = IF m = 0 THEN <<>> ELSE Reading(g[m - 1])
    BY <1>5
  <2>1. 0 \in U
    <3>1. g[0] = <<>>
      BY <1>1, <2>0
    <3>2. Follow(<<>>) /\ Rounded(<<>>) /\ <<>> \in Seq(Nat)
      BY DEF Follow, Rounded
    <3> QED
      BY <3>1, <3>2
  <2>2. ASSUME NEW n \in Nat, n \in U PROVE n + 1 \in U
    <3> SUFFICES ASSUME n + 1 <= E
                 PROVE  g[n + 1] \in Seq(Nat) /\ Follow(g[n + 1]) /\ Rounded(g[n + 1])
      OBVIOUS
    <3>1. n + 1 \in 0..E /\ n + 1 # 0 /\ (n + 1) - 1 = n /\ n <= E
      BY <1>1
    <3>2. g[n + 1] = Reading(g[n])
      BY <2>0, <3>1
    <3> QED
      BY <2>2, <3>1, <3>2, ReadingFollows
  <2> HIDE DEF U
  <2>3. \A n \in Nat : n \in U
    BY <2>1, <2>2, Induction
  <2> QED
    BY <2>3 DEF U
<1> QED
  BY <1>1, <1>6, <1>7

LEMMA MpdType ==
  ASSUME file \in Files, args \in Arguments
  PROVE  /\ mpd_packets \in Seq(Nat) /\ Follow(mpd_packets)
         /\ Len(mpd_packets) = IF decoded = <<>> THEN 0 ELSE Len(decoded) - 1
<1>1. decoded \in Seq(Nat) /\ Follow(decoded) /\ Len(decoded) \in Nat
  BY DecodedFollows
<1>2. CASE decoded = <<>>
  <2>1. SubSeq(decoded, 1, -1) = <<>>
    BY <1>2
  <2>2. mpd_packets = <<>>
    BY <1>2, <2>1 DEF mpd_packets
  <2> QED
    BY <1>2, <2>2 DEF Follow
<1>3. CASE decoded # <<>>
  <2> DEFINE n == Len(decoded) - 1
  <2>1. n \in Nat /\ n <= Len(decoded)
    BY <1>1, <1>3
  <2>2. /\ mpd_packets \in Seq(Nat) /\ Len(mpd_packets) = n
        /\ \A k \in 1..n : mpd_packets[k] = decoded[k]
    <3>1. mpd_packets = SubSeq(decoded, 1, n)
      BY DEF mpd_packets
    <3> HIDE DEF n
    <3>2. \A d \in Seq(Nat) : n <= Len(d) =>
            /\ SubSeq(d, 1, n) \in Seq(Nat) /\ Len(SubSeq(d, 1, n)) = n
            /\ \A k \in 1..n : SubSeq(d, 1, n)[k] = d[k]
      BY <2>1
    <3> QED
      BY <1>1, <2>1, <3>1, <3>2
  <2>3. Follow(mpd_packets)
    <3> SUFFICES ASSUME NEW k \in 1..n
                 PROVE  mpd_packets[k] = IF k = 1 \/ mpd_packets[k - 1] = Len(file)
                                              \/ k - 1 = args.n_messages_total
                                           THEN 1 ELSE mpd_packets[k - 1] + 1
      BY <2>2 DEF Follow
    <3>1. k \in 1..Len(decoded) /\ (k # 1 => k - 1 \in 1..n)
      BY <2>1
    <3> QED
      BY <1>1, <2>2, <3>1 DEF Follow
  <2> QED
    BY <1>3, <2>2, <2>3
<1> QED
  BY <1>2, <1>3

-----------------------------------------------------------------------------
(* Types, and what a loop sends.                                           *)

Lists == IF args.program = "MPD" THEN mpd_packets ELSE hdf5ToPackets

\* A card has read of no more connections than were asked for; a publisher
\* asks for none.
ConnectInv ==
  IF args.program = "PUB" THEN connections = 0 /\ notices = 0 /\ stage \notin {"connect", "recv"}
                          ELSE Told <= connections

\* Without a total, only the end of the messages ends a loop, or the first of
\* them in mode 2, and the count is that of all loops.
Each == IF args.mode = 2 /\ Len(word_lists) > 0 THEN 1 ELSE Len(word_lists)

AllInv ==
  args.mode \in {0, 2} =>
    /\ message_count = (loop - 1) * Each + i
    /\ stage # "sleep_and_break"
    /\ stage = "next" => i = Each
    /\ args.mode = 2 /\ stage \in {"connect", "recv", "prompt", "send", "sleep"} => i = 0

CardTypes ==
  /\ TypeOK /\ ConnectInv /\ AllInv
  /\ word_lists = Lists
  /\ stage # "done" => loop <= loops

LEMMA SameInput ==
  ASSUME UNCHANGED input
  PROVE  UNCHANGED <<file, args, word_lists, loops, Lists>>
<1>1. UNCHANGED <<file, args, word_lists>>
  BY DEF input
<1>2. UNCHANGED loops
  BY <1>1 DEF loops
<1>3. UNCHANGED msg_breaks
  BY <1>1 DEF msg_breaks
<1>4. UNCHANGED hdf5ToPackets
  BY <1>1, <1>3 DEF hdf5ToPackets, Words, packet, packet_data_data
<1>5. UNCHANGED mpd_packets
  BY <1>1 DEF mpd_packets, decoded
<1> QED
  BY <1>1, <1>2, <1>4, <1>5 DEF Lists

LEMMA ListsType ==
  ASSUME file \in Files, args \in Arguments
  PROVE  Len(Lists) \in Nat /\ loops \in Nat \ {0}
<1>1. CASE args.program = "MPD"
  BY <1>1, MpdType DEF Lists, loops
<1>2. CASE args.program # "MPD"
  BY <1>2, HdfType, ArgumentsAssumption DEF Lists, loops
<1> QED
  BY <1>1, <1>2

LEMMA InitTypes == Init => CardTypes
<1> SUFFICES ASSUME Init PROVE CardTypes
  OBVIOUS
<1>1. Len(word_lists) \in Nat /\ word_lists = Lists /\ loops \in Nat \ {0}
  BY ListsType DEF Init, Lists
<1>2. /\ stage = (IF args.program = "PUB" THEN "prompt" ELSE "connect")
      /\ connections = 0 /\ notices = 0 /\ loop = 1 /\ i = 0 /\ message_count = 0 /\ since = 0
      /\ listening = FALSE /\ next_sleep = Unbound /\ file \in Files /\ args \in Arguments
  BY DEF Init
<1>3. TypeOK
  <2>1. stage \in {"connect", "prompt"} /\ 0 \in 0..MaxConnects /\ loop \in 1..loops + 1
        /\ i \in 0..Len(word_lists)
    BY <1>1, <1>2, MaxConnectsAssumption
  <2> QED
    BY <1>2, <2>1 DEF TypeOK, Unbound
<1>4. ConnectInv
  BY <1>2 DEF ConnectInv, Told
<1>5. AllInv
  <2>1. Each \in Int
    BY <1>1 DEF Each
  <2>2. (loop - 1) * Each = 0
    BY <1>2, <2>1
  <2> QED
    BY <1>2, <2>2 DEF AllInv
<1> QED
  BY <1>1, <1>2, <1>3, <1>4, <1>5 DEF CardTypes

\* What is left of CardTypes when the input stays as it is.
LEMMA TypesKept ==
  ASSUME CardTypes, UNCHANGED input,
         stage' \in {"connect", "recv", "prompt", "send", "sleep", "sleep_and_break", "next",
                     "done", "error", "lost"},
         listening' \in BOOLEAN, connections' \in 0..MaxConnects, notices' \in 0..MaxConnects,
         loop' \in 1..loops + 1, i' \in 0..Len(word_lists), message_count' \in Nat, since' \in Nat,
         next_sleep' \in {Unbound, "set"}, stage' # "done" => loop' <= loops,
         ConnectInv', AllInv'
  PROVE  CardTypes'
<1>1. UNCHANGED <<file, args, word_lists, loops, Lists>>
  BY SameInput
<1>2. TypeOK'
  BY <1>1 DEF CardTypes, TypeOK, Unbound
<1> QED
  BY <1>1, <1>2 DEF CardTypes

LEMMA NumbersInt ==
  ASSUME CardTypes
  PROVE  /\ Len(word_lists) \in Nat /\ loops \in Nat /\ i \in Nat /\ loop \in Nat
         /\ message_count + 1 \in Nat /\ since + 1 \in Nat /\ notices \in Nat /\ connections \in Nat
  BY ListsType, MaxConnectsAssumption DEF CardTypes, TypeOK

\* The steps between recv() and the prompt.
LEMMA ConnectTypes == CardTypes /\ (Connect \/ RecvId \/ RecvTimeout) => CardTypes'
<1> SUFFICES ASSUME CardTypes, Connect \/ RecvId \/ RecvTimeout PROVE CardTypes'
  OBVIOUS
<1>1. UNCHANGED <<input, listening, loop, i, message_count, next_sleep, since>>
  BY DEF Connect, RecvId, RecvTimeout, count, link
<1>2. UNCHANGED <<file, args, word_lists, loops, Lists>>
  BY <1>1, SameInput
<1>3. stage' \in {"connect", "recv", "prompt"} /\ stage \in {"connect", "recv"}
  BY DEF Connect, RecvId, RecvTimeout, Goto
<1>4. args.program # "PUB" /\ Told <= connections
  BY <1>3 DEF CardTypes, ConnectInv
<1>5. connections' \in 0..MaxConnects /\ notices' \in 0..MaxConnects /\ Told' <= connections'
  <2>1. CASE Connect
    BY <1>4, <2>1, NumbersInt, MaxConnectsAssumption DEF Connect, CardTypes, TypeOK, Told, Goto
  <2>2. CASE RecvId
    BY <1>4, <2>2, NumbersInt, MaxConnectsAssumption DEF RecvId, CardTypes, TypeOK, Told, Goto
  <2>3. CASE RecvTimeout
    BY <1>4, <2>3, NumbersInt, MaxConnectsAssumption DEF RecvTimeout, CardTypes, TypeOK, Told, Goto, link
  <2> QED
    BY <2>1, <2>2, <2>3
<1>6. ConnectInv' /\ AllInv'
  <2>1. ConnectInv'
    BY <1>2, <1>3, <1>4, <1>5 DEF ConnectInv
  <2>2. Each' = Each
    BY <1>2 DEF Each
  <2>3. AllInv'
    BY <1>1, <1>2, <1>3, <2>2 DEF CardTypes, AllInv
  <2> QED
    BY <2>1, <2>3
<1>7. loop <= loops
  BY <1>3 DEF CardTypes
<1> QED
  BY <1>1, <1>2, <1>3, <1>5, <1>6, <1>7, TypesKept DEF CardTypes, TypeOK

LEMMA SendTypes == CardTypes /\ Send => CardTypes'
<1> SUFFICES ASSUME CardTypes, Send PROVE CardTypes'
  OBVIOUS
<1>1. /\ UNCHANGED <<input, listening, connections, notices, loop>>
      /\ stage = "send" /\ i < Len(word_lists)
      /\ i' = i + 1 /\ message_count' = message_count + 1 /\ since' = since + 1
  BY DEF Send, Sent, link
<1>2. UNCHANGED <<file, args, word_lists, loops, Lists>>
  BY <1>1, SameInput
<1>3. /\ stage' \in {"send", "sleep", "sleep_and_break", "next", "error"}
      /\ next_sleep' \in {next_sleep, "set"}
      /\ args.mode = 0 => stage' = "sleep"
  <2>1. stage' \in {"send", "sleep", "sleep_and_break", "next", "error"}
    BY DEF Send, To
  <2>2. next_sleep' \in {next_sleep, "set"}
    BY DEF Send, To
  <2>3. args.mode = 0 => ~AtTotal /\ ~AtGroup /\ args.mode # 2
    BY DEF AtTotal, AtGroup
  <2>4. args.mode = 0 => stage' = "sleep"
    BY <2>3 DEF Send, To
  <2> QED
    BY <2>1, <2>2, <2>4
<1>4. ConnectInv'
  BY <1>1, <1>2, <1>3 DEF CardTypes, ConnectInv, Told
<1>5. AllInv'
  <2> SUFFICES ASSUME args.mode \in {0, 2} PROVE AllInv'
    BY <1>2 DEF AllInv
  <2>1. Each' = Each /\ Each \in Nat /\ i \in Nat /\ loop \in Nat /\ Len(word_lists) \in Nat
    BY <1>2, NumbersInt DEF Each
  <2>2. message_count = (loop - 1) * Each + i
    BY DEF CardTypes, AllInv
  <2>3. (loop - 1) * Each \in Int
    BY <2>1
  <2>4. message_count' = (loop' - 1) * Each' + i'
    BY <1>1, <2>1, <2>2, <2>3
  <2>5. CASE args.mode = 0
    BY <1>2, <1>3, <2>4, <2>5 DEF AllInv
  <2>6. CASE args.mode = 2
    <3>1. i = 0 /\ Each = 1
      BY <1>1, <2>1, <2>6 DEF CardTypes, AllInv, Each
    <3>2. stage' = "next" /\ i' = 1
      <4>1. ~AtTotal /\ ~AtGroup
        BY <2>6 DEF AtTotal, AtGroup
      <4> QED
        BY <1>1, <2>6, <3>1, <4>1 DEF Send, To
    <3> QED
      BY <1>2, <2>1, <2>4, <3>1, <3>2 DEF AllInv
  <2> QED
    BY <2>5, <2>6
<1>6. i' \in 0..Len(word_lists)
  BY <1>1, NumbersInt
<1> QED
  BY <1>1, <1>2, <1>3, <1>4, <1>5, <1>6, NumbersInt, TypesKept DEF CardTypes, TypeOK

LEMMA LoopTypes == CardTypes /\ (Sleep \/ EndOfList \/ NextLoop \/ SendFails \/ KeyPressed) => CardTypes'
<1> SUFFICES ASSUME CardTypes, Sleep \/ EndOfList \/ NextLoop \/ SendFails \/ KeyPressed
             PROVE  CardTypes'
  OBVIOUS
<1>1. UNCHANGED <<input, listening, connections, notices, message_count, next_sleep>>
  BY DEF Sleep, EndOfList, NextLoop, SendFails, KeyPressed, link, count
<1>2. UNCHANGED <<file, args, word_lists, loops, Lists>>
  BY <1>1, SameInput
<1>3. stage' \in {"send", "next", "done", "lost"}
      /\ stage \in {"sleep", "sleep_and_break", "send", "next", "prompt"}
  BY DEF Sleep, EndOfList, NextLoop, SendFails, KeyPressed, Goto
<1>4. ConnectInv'
  BY <1>1, <1>2, <1>3 DEF CardTypes, ConnectInv, Told
<1>5. loop' \in 1..loops + 1 /\ i' \in 0..Len(word_lists) /\ since' \in Nat
      /\ (stage' # "done" => loop' <= loops)
  <2>1. CASE NextLoop
    BY <1>3, <2>1, NumbersInt DEF NextLoop, Goto, CardTypes, TypeOK
  <2>2. CASE ~NextLoop
    BY <1>3, <2>2, NumbersInt DEF Sleep, EndOfList, SendFails, KeyPressed, count, CardTypes, TypeOK
  <2> QED
    BY <2>1, <2>2
<1>6. AllInv'
  <2> SUFFICES ASSUME args.mode \in {0, 2} PROVE AllInv'
    BY <1>2 DEF AllInv
  <2>1. Each' = Each /\ Each \in Nat /\ i \in Nat /\ loop \in Nat /\ Len(word_lists) \in Nat
    BY <1>2, NumbersInt DEF Each
  <2>2. message_count = (loop - 1) * Each + i /\ message_count' = message_count
    BY <1>1 DEF CardTypes, AllInv
  <2>3. CASE NextLoop
    <3>1. i = Each /\ i' = 0 /\ loop' = loop + 1 /\ stage' \in {"send", "done"}
      BY <2>3 DEF CardTypes, AllInv, NextLoop, Goto
    <3>2. (loop - 1) * Each + Each = loop * Each
      BY <2>1
    <3>3. loop' - 1 = loop
      BY <2>1, <3>1
    <3>4. loop * Each \in Int
      BY <2>1
    <3>5. message_count' = (loop' - 1) * Each' + i'
      BY <2>1, <2>2, <3>1, <3>2, <3>3, <3>4
    <3> QED
      BY <3>1, <3>5 DEF AllInv
  <2>4. CASE EndOfList
    <3>1. i = Len(word_lists) /\ stage = "send" /\ stage' = "next" /\ i' = i /\ loop' = loop
      BY <2>4 DEF EndOfList, Goto, count
    <3>2. CASE args.mode = 0
      BY <1>2, <2>1, <2>2, <3>1, <3>2 DEF AllInv, Each
    <3>3. CASE args.mode = 2
      <4>1. i = 0
        BY <3>1, <3>3 DEF CardTypes, AllInv
      <4>2. i = Each
        BY <3>1, <4>1 DEF Each
      <4> QED
        BY <1>2, <2>1, <2>2, <3>1, <4>2 DEF AllInv
    <3> QED
      BY <3>2, <3>3
  <2>5. CASE Sleep \/ SendFails \/ KeyPressed
    <3>1. /\ i' = i /\ loop' = loop /\ stage' \in {"send", "next", "lost"}
          /\ stage' = "next" => stage = "sleep_and_break"
          /\ stage' = "send" => stage \in {"sleep", "prompt"}
      BY <2>5 DEF Sleep, SendFails, KeyPressed, Goto, count
    <3>2. stage # "sleep_and_break"
      BY DEF CardTypes, AllInv
    <3> QED
      BY <1>2, <2>1, <2>2, <3>1, <3>2 DEF CardTypes, AllInv
  <2> QED
    BY <2>3, <2>4, <2>5
<1> QED
  BY <1>1, <1>2, <1>3, <1>4, <1>5, <1>6, TypesKept DEF CardTypes, TypeOK

LEMMA LinkTypes == CardTypes /\ (Listen \/ Handshake \/ Vanish \/ UNCHANGED vars) => CardTypes'
<1> SUFFICES ASSUME CardTypes, Listen \/ Handshake \/ Vanish \/ UNCHANGED vars PROVE CardTypes'
  OBVIOUS
<1>1. UNCHANGED <<input, stage, connections, loop, i, message_count, next_sleep, since>>
  BY DEF Listen, Handshake, Vanish, vars, count, link
<1>2. UNCHANGED <<file, args, word_lists, loops, Lists>>
  BY <1>1, SameInput
<1>3. notices' \in 0..MaxConnects /\ ConnectInv'
  <2>1. CASE Handshake
    <3>1. args.program # "PUB" /\ Told < connections /\ notices' = notices + 1
      BY <2>1, NumbersInt DEF Handshake, CardTypes, ConnectInv, Told
    <3>2. Told' = Told + 1 /\ Told \in Nat /\ Told >= notices
      BY <1>1, <3>1, NumbersInt DEF Told
    <3>3. notices + 1 <= MaxConnects
      BY <3>1, <3>2, NumbersInt, MaxConnectsAssumption DEF CardTypes, TypeOK
    <3> QED
      BY <1>1, <1>2, <3>1, <3>2, <3>3, NumbersInt DEF ConnectInv
  <2>2. CASE ~Handshake
    <3>1. notices' = notices
      BY <2>2 DEF Listen, Vanish, vars, link
    <3> QED
      BY <1>1, <1>2, <3>1 DEF CardTypes, TypeOK, ConnectInv, Told
  <2> QED
    BY <2>1, <2>2
<1>4. AllInv'
  BY <1>1, <1>2 DEF CardTypes, AllInv, Each
<1>5. listening' \in BOOLEAN
  BY DEF Listen, Handshake, Vanish, vars, link, CardTypes, TypeOK
<1> QED
  BY <1>1, <1>2, <1>3, <1>4, <1>5, TypesKept DEF CardTypes, TypeOK

LEMMA StepTypes == CardTypes /\ [Next]_vars => CardTypes'
  BY ConnectTypes, SendTypes, LoopTypes, LinkTypes DEF Next, Card

\* Whatever pacman() was called with, it never sends past the end of its list
\* of messages, loops once too often or connects more often than it may.
THEOREM CardTypeCorrect == Spec => []TypeOK
<1>1. CardTypes => TypeOK
  BY DEF CardTypes
<1> QED
  BY <1>1, InitTypes, StepTypes, PTL DEF Spec

LEMMA AllIsSent == CardTypes => FileIsSentInOrder
<1> SUFFICES ASSUME CardTypes PROVE FileIsSentInOrder
  OBVIOUS
<1>1. /\ word_lists = Lists /\ file \in Files /\ args \in Arguments
      /\ i \in 0..Len(word_lists) /\ Len(word_lists) \in Nat
  BY NumbersInt DEF CardTypes, TypeOK
<1>2. CASE args.program = "MPD"
  <2>1. Follow(word_lists)
    BY <1>1, <1>2, MpdType DEF Lists
  <2>2. \A k \in 1..i : k \in 1..Len(word_lists)
    BY <1>1
  <2> QED
    BY <1>2, <2>1, <2>2 DEF FileIsSentInOrder, Follow
<1>3. CASE args.program # "MPD"
  <2>1. i > 0 => FlattenSeq(SubSeq(word_lists, 1, i)) = Words(msg_breaks[1], msg_breaks[i + 1] - 1)
    BY <1>1, <1>3, HdfFlat DEF Lists
  <2>2. args.mode \in {0, 2} => message_count = (loop - 1) * Each + i /\ (stage = "next" => i = Each)
    BY DEF CardTypes, AllInv
  <2> QED
    BY <1>3, <2>1, <2>2 DEF FileIsSentInOrder, Each
<1> QED
  BY <1>2, <1>3

\* Whatever has been sent when, in every loop over every file: the words sent
\* so far are the file's from the first break on, in order, none twice and
\* none left out between two messages, or the events of an MPD file; a loop
\* that has no total ends with the last message, or in mode 2 with the first,
\* and the count of all loops together is that of the messages sent.
THEOREM FileCorrect == Spec => []FileIsSentInOrder
  BY InitTypes, StepTypes, AllIsSent, PTL DEF Spec

-----------------------------------------------------------------------------
(* Where FlattenSeq puts things.                                           *)

\* off[j] is how much comes before the j-th of the sequences.
Offsets(off, ss) ==
  /\ off \in [1..(Len(ss) + 1) -> Nat] /\ off[1] = 0
  /\ \A j \in 1..Len(ss) : off[j + 1] = off[j] + Len(ss[j])

LEMMA Behind ==
  \A o, l \in Nat : \A k \in 1..l :
    o + k \in 1..(o + l) /\ ~(o + k <= o) /\ (o + k) - o = k /\ (o + 1) + k - 1 = o + k
  OBVIOUS

LEMMA FlattenPlaces ==
  ASSUME NEW S, NEW ss \in Seq(Seq(S)), NEW off, Offsets(off, ss), NEW t, t = FlattenSeq(ss)
  PROVE  /\ t \in Seq(S) /\ Len(t) = off[Len(ss) + 1]
         /\ \A j \in 1..Len(ss) : \A k \in 1..Len(ss[j]) :
              off[j] + k \in 1..Len(t) /\ t[off[j] + k] = ss[j][k]
<1> DEFINE Placed(u, n) ==
             /\ Len(u) = off[n + 1]
             /\ \A j \in 1..n : \A k \in 1..Len(ss[j]) :
                  off[j] + k \in 1..Len(u) /\ u[off[j] + k] = ss[j][k]
<1>0. t \in Seq(S)
  BY FlattenType
<1>1. CASE ss = <<>>
  <2>1. t = <<>> /\ Len(ss) = 0
    BY <1>1, FlattenEmpty
  <2> QED
    BY <1>0, <2>1 DEF Offsets
<1>2. CASE ss # <<>>
  <2>1. PICK f \in [1..Len(ss) -> Seq(S)] : Flattens(f, ss)
    BY FlattenExists
  <2> DEFINE T == {n \in Nat : n \in 1..Len(ss) => Placed(f[n], n)}
  <2>2. 0 \in T
    OBVIOUS
  <2>3. ASSUME NEW n \in Nat, n \in T PROVE n + 1 \in T
    <3> SUFFICES ASSUME n + 1 \in 1..Len(ss) PROVE Placed(f[n + 1], n + 1)
      OBVIOUS
    <3> HIDE DEF Placed
    <3>1. ss[n + 1] \in Seq(S) /\ off[n + 1] \in Nat /\ off[(n + 1) + 1] = off[n + 1] + Len(ss[n + 1])
          /\ Len(ss[n + 1]) \in Nat
      BY DEF Offsets
    <3>2. CASE n = 0
      <4>1. f[1] = ss[1] /\ off[1] = 0 /\ off[2] = Len(ss[1]) /\ Len(ss[1]) \in Nat
        <5>1. 1 \in 1..Len(ss) /\ off[1] = 0
          BY <3>2 DEF Offsets
        <5>2. f[1] = ss[1] /\ off[1 + 1] = off[1] + Len(ss[1]) /\ ss[1] \in Seq(S)
          BY <2>1, <5>1 DEF Flattens, Offsets
        <5> QED
          BY <5>1, <5>2
      <4>2. \A j \in 1..1 : j = 1
        OBVIOUS
      <4>3. \A k \in 1..Len(ss[1]) : off[1] + k = k
        BY <4>1
      <4>4. Len(f[1]) = off[1 + 1]
        BY <4>1
      <4>5. Placed(f[1], 1)
        BY <4>1, <4>2, <4>3, <4>4 DEF Placed
      <4> QED
        BY <3>2, <4>5
    <3>3. CASE n # 0
      <4>1. n \in 1..Len(ss) /\ (n + 1) - 1 = n /\ n + 1 # 1
        BY <3>3
      <4>2. f[n + 1] = f[n] \o ss[n + 1] /\ f[n] \in Seq(S)
        BY <2>1, <4>1 DEF Flattens
      <4>3. Placed(f[n], n)
        BY <2>3, <4>1
      <4>4. Len(f[n]) = off[n + 1]
        BY <4>3 DEF Placed
      <4>5. /\ Len(f[n + 1]) = off[n + 1] + Len(ss[n + 1]) /\ Len(f[n + 1]) = off[(n + 1) + 1]
            /\ \A p \in 1..(off[n + 1] + Len(ss[n + 1])) :
                 f[n + 1][p] = IF p <= off[n + 1] THEN f[n][p] ELSE ss[n + 1][p - off[n + 1]]
        <5>1. /\ Len(f[n] \o ss[n + 1]) = Len(f[n]) + Len(ss[n + 1])
              /\ \A p \in 1..(Len(f[n]) + Len(ss[n + 1])) :
                   (f[n] \o ss[n + 1])[p] = IF p <= Len(f[n]) THEN f[n][p] ELSE ss[n + 1][p - Len(f[n])]
          BY <3>1, <4>2, ConcatProperties
        <5> QED
          BY <3>1, <4>2, <4>4, <5>1, Zenon
      <4>6. ASSUME NEW j \in 1..(n + 1), NEW k \in 1..Len(ss[j])
            PROVE  off[j] + k \in 1..Len(f[n + 1]) /\ f[n + 1][off[j] + k] = ss[j][k]
        <5>1. CASE j = n + 1
          <6>1. k \in 1..Len(ss[n + 1])
            BY <5>1
          <6>2. off[n + 1] + k \in 1..(off[n + 1] + Len(ss[n + 1])) /\ ~(off[n + 1] + k <= off[n + 1])
                /\ (off[n + 1] + k) - off[n + 1] = k
            BY <3>1, <6>1, Behind
          <6> QED
            BY <4>5, <5>1, <6>2
        <5>2. CASE j # n + 1
          <6>1. j \in 1..n
            BY <5>2
          <6>2. off[j] + k \in 1..Len(f[n]) /\ f[n][off[j] + k] = ss[j][k]
            BY <4>3, <6>1 DEF Placed
          <6>3. off[j] + k \in 1..(off[n + 1] + Len(ss[n + 1])) /\ off[j] + k <= off[n + 1]
            BY ONLY <3>1, <4>4, <6>2
          <6> QED
            BY <4>5, <6>2, <6>3
        <5> QED
          BY <5>1, <5>2
      <4> QED
        BY <4>5, <4>6 DEF Placed
    <3> QED
      BY <3>2, <3>3
  <2>4. Len(ss) \in T
    <3> HIDE DEF T
    <3>1. \A n \in Nat : n \in T
      BY <2>2, <2>3, Induction
    <3> QED
      BY <3>1
  <2>5. Len(ss) \in 1..Len(ss) /\ t = f[Len(ss)]
    BY <1>2, <2>1, FlattenIs
  <2> QED
    BY <1>0, <2>4, <2>5
<1> QED
  BY <1>1, <1>2

\* Each of the sequences can be cut out again.
LEMMA FlattenCuts ==
  ASSUME NEW S, NEW ss \in Seq(Seq(S)), NEW off, Offsets(off, ss), NEW t, t = FlattenSeq(ss),
         NEW j \in 1..Len(ss)
  PROVE  SubSeq(t, off[j] + 1, off[j] + Len(ss[j])) = ss[j]
<1>1. /\ t \in Seq(S)
      /\ \A k \in 1..Len(ss[j]) : off[j] + k \in 1..Len(t) /\ t[off[j] + k] = ss[j][k]
  BY FlattenPlaces
<1>2. ss[j] \in Seq(S) /\ Len(ss[j]) \in Nat /\ off[j] \in Nat
  BY DEF Offsets
<1> DEFINE a == off[j] + 1
           b == off[j] + Len(ss[j])
<1>3. a \in Int /\ b \in Int /\ b - a + 1 = Len(ss[j]) /\ (a <= b \/ Len(ss[j]) = 0)
      /\ \A k \in 1..Len(ss[j]) : a + k - 1 = off[j] + k
  <2>1. \A o, l \in Nat : o + 1 \in Int /\ o + l \in Int /\ (o + l) - (o + 1) + 1 = l
                         /\ (o + 1 <= o + l \/ l = 0)
    OBVIOUS
  <2>2. \A k \in 1..Len(ss[j]) : a + k - 1 = off[j] + k
    BY <1>2, Behind
  <2> QED
    BY <1>2, <2>1, <2>2
<1>4. \A p \in a..b : t[p] \in S
  <2> SUFFICES ASSUME NEW p \in a..b PROVE t[p] \in S
    OBVIOUS
  <2>1. \A o, l \in Nat : \A m \in (o + 1)..(o + l) : m - o \in 1..l /\ o + (m - o) = m
    OBVIOUS
  <2>2. p - off[j] \in 1..Len(ss[j]) /\ off[j] + (p - off[j]) = p
    BY ONLY <1>2, <2>1, p \in a..b
  <2> QED
    BY <1>1, <2>2
<1> HIDE DEF a, b
<1>5. /\ SubSeq(t, a, b) \in Seq(S) /\ Len(SubSeq(t, a, b)) = IF a <= b THEN b - a + 1 ELSE 0
      /\ \A k \in 1..b - a + 1 : SubSeq(t, a, b)[k] = t[a + k - 1]
  BY <1>3, <1>4, SubSeqProperties
<1>6. Len(SubSeq(t, a, b)) = Len(ss[j])
  BY <1>2, <1>3, <1>5
<1>7. \A k \in 1..Len(ss[j]) : SubSeq(t, a, b)[k] = ss[j][k]
  BY <1>1, <1>3, <1>5
<1> QED
  BY <1>2, <1>5, <1>6, <1>7, SeqEqual DEF a, b

\* Sequences of at most one entry.
NonEmpty(ss) == {k \in 1..Len(ss) : ss[k] # <<>>}

LEMMA FlattenPicks ==
  ASSUME NEW S, NEW ss \in Seq(Seq(S)), \A k \in NonEmpty(ss) : ss[k] = <<ss[k][1]>>
  PROVE  FlattenSeq(ss) = [n \in 1..Len(InOrder(NonEmpty(ss))) |-> ss[InOrder(NonEmpty(ss))[n]][1]]
<1>0. PICK F : F = NonEmpty(ss)
  OBVIOUS
<1>e. F = {k \in 1..Len(ss) : ss[k] # <<>>}
  BY <1>0 DEF NonEmpty
<1>p. \A k \in F : ss[k] = <<ss[k][1]>>
  BY <1>0
<1> DEFINE off == [j \in 1..(Len(ss) + 1) |-> Rank(F, j - 1)]
           L   == Len(ss)
           t   == FlattenSeq(ss)
           s   == InOrder(F)
<1>1. L \in Nat /\ F \in SUBSET (1..L)
  BY <1>e
<1>r. \A k \in Nat : Rank(F, k) \in Nat
  BY <1>1, RankType
<1>g. \A k \in 1..L : Rank(F, k) = IF k \in F THEN Rank(F, k - 1) + 1 ELSE Rank(F, k - 1)
  BY <1>1, RankGrows
<1>2. Offsets(off, ss)
  <2> HIDE DEF off
  <2>1. off \in [1..(Len(ss) + 1) -> Nat] /\ off[1] = 0
    <3>0. \A j \in 1..(Len(ss) + 1) : j - 1 \in Nat
      BY <1>1
    <3>1. \A j \in 1..(Len(ss) + 1) : j - 1 \in Nat /\ Rank(F, j - 1) \in Nat
      BY <1>r, <3>0
    <3>2. Rank(F, 1 - 1) = 0
      BY <1>1, RankType
    <3> QED
      BY <1>1, <3>1, <3>2 DEF off
  <2>2. ASSUME NEW j \in 1..Len(ss) PROVE off[j + 1] = off[j] + Len(ss[j])
    <3>1. off[j + 1] = Rank(F, j) /\ off[j] = Rank(F, j - 1)
      <4>1. j + 1 \in 1..(Len(ss) + 1) /\ j \in 1..(Len(ss) + 1) /\ (j + 1) - 1 = j
        BY <1>1
      <4> QED
        BY <4>1 DEF off
    <3>2. Rank(F, j) = IF j \in F THEN Rank(F, j - 1) + 1 ELSE Rank(F, j - 1)
      BY <1>g
    <3>3. j \in F => Len(ss[j]) = 1
      <4>1. PICK x : x = ss[j][1]
        OBVIOUS
      <4>2. j \in F => ss[j] = <<x>>
        BY <4>1, <1>p
      <4>3. Len(<<x>>) = 1
        OBVIOUS
      <4> QED
        BY <4>2, <4>3
    <3>4. j \notin F => Len(ss[j]) = 0
      BY <1>e
    <3>5. Rank(F, j - 1) \in Nat
      <4>1. j - 1 \in Nat
        BY <1>1
      <4> QED
        BY <1>r, <4>1
    <3> HIDE DEF off
    <3>6. CASE j \in F
      BY <3>1, <3>2, <3>3, <3>6
    <3>7. CASE j \notin F
      BY <3>1, <3>2, <3>4, <3>5, <3>7
    <3> QED
      BY <3>6, <3>7
  <2> QED
    BY <2>1, <2>2 DEF Offsets
<1>3. /\ t \in Seq(S) /\ Len(t) = off[L + 1]
      /\ \A j \in 1..L : \A k \in 1..Len(ss[j]) : off[j] + k \in 1..Len(t) /\ t[off[j] + k] = ss[j][k]
  <2> HIDE DEF off
  <2> QED
    BY <1>2, FlattenPlaces
<1>4. /\ Len(s) = Cardinality(F) /\ Len(s) \in Nat
      /\ \A m \in 1..Len(s) : s[m] \in F /\ Rank(F, s[m]) = m
  BY <1>1, InOrderIs
<1>5. Len(t) = Len(s)
  <2>1. off[L + 1] = Rank(F, L)
    BY <1>1
  <2> QED
    BY <1>1, <1>3, <1>4, <2>1, RankType
<1>6. ASSUME NEW m \in 1..Len(s) PROVE t[m] = ss[s[m]][1]
  <2>1. s[m] \in F /\ s[m] \in 1..L /\ Rank(F, s[m]) = m
    BY <1>1, <1>4
  <2>2. Rank(F, s[m]) = Rank(F, s[m] - 1) + 1
    BY <1>1, <2>1, RankGrows
  <2>3. off[s[m]] = Rank(F, s[m] - 1)
    BY <1>1, <2>1
  <2>4. 1 \in 1..Len(ss[s[m]])
    <3>1. PICK x : x = ss[s[m]][1]
      OBVIOUS
    <3>2. ss[s[m]] = <<x>>
      BY <1>p, <2>1, <3>1
    <3> QED
      BY <3>2
  <2>5. t[off[s[m]] + 1] = ss[s[m]][1]
    <3> HIDE DEF off, t, s
    <3> QED
      BY <1>3, <2>1, <2>4
  <2> QED
    BY <2>1, <2>2, <2>3, <2>5
<1> HIDE DEF t, s
<1>t. t \in Seq(S)
  BY <1>3
<1>7. t = [n \in 1..Len(t) |-> t[n]]
  BY <1>t
<1>8. t = [n \in 1..Len(s) |-> ss[s[n]][1]]
  BY <1>5, <1>6, <1>7
<1> QED
  BY <1>0, <1>8 DEF t, s

\* Sequences of just one entry.
LEMMA FlattenSingles ==
  ASSUME NEW S, NEW q \in Seq(S), NEW ss \in Seq(Seq(S)), Len(ss) = Len(q),
         \A k \in 1..Len(q) : ss[k] = <<q[k]>>
  PROVE  FlattenSeq(ss) = q
<1>1. \A x : Len(<<x>>) = 1 /\ <<x>>[1] = x
  OBVIOUS
<1>n. Len(q) \in Nat
  BY LenProperties
<1>2. \A j \in 1..Len(q) : Len(ss[j]) = 1 /\ ss[j][1] = q[j]
  <2> SUFFICES ASSUME NEW j \in 1..Len(q) PROVE Len(ss[j]) = 1 /\ ss[j][1] = q[j]
    OBVIOUS
  <2>1. ss[j] = <<q[j]>>
    OBVIOUS
  <2> QED
    BY <1>1, <2>1, Zenon
<1>3. PICK off : off = [j \in 1..(Len(q) + 1) |-> j - 1]
  OBVIOUS
<1>4. PICK t : t = FlattenSeq(ss)
  OBVIOUS
<1>5. Offsets(off, ss)
  <2>1. \A j \in 1..Len(q) : off[j + 1] = off[j] + 1
    BY <1>n, <1>3
  <2>2. off \in [1..(Len(q) + 1) -> Nat] /\ off[1] = 0
    BY <1>n, <1>3
  <2>3. \A j \in 1..Len(ss) : off[j + 1] = off[j] + Len(ss[j])
    BY <1>2, <2>1, Zenon
  <2>4. off \in [1..(Len(ss) + 1) -> Nat]
    BY <2>2, Zenon
  <2> QED
    BY <2>2, <2>3, <2>4, Zenon DEF Offsets
<1>6. /\ t \in Seq(S) /\ Len(t) = off[Len(ss) + 1]
      /\ \A j \in 1..Len(ss) : \A k \in 1..Len(ss[j]) : off[j] + k \in 1..Len(t) /\ t[off[j] + k] = ss[j][k]
  BY <1>4, <1>5, FlattenPlaces
<1>7. off[Len(q) + 1] = Len(q) /\ \A j \in 1..Len(q) : off[j] + 1 = j
  BY <1>n, <1>3
<1>8. Len(t) = Len(q)
  BY <1>6, <1>7, Zenon
<1>9. \A j \in 1..Len(q) : t[j] = q[j]
  <2> SUFFICES ASSUME NEW j \in 1..Len(q) PROVE t[j] = q[j]
    OBVIOUS
  <2>1. 1 \in 1..Len(ss[j])
    BY <1>2
  <2>2. t[off[j] + 1] = ss[j][1]
    BY <1>6, <2>1, Zenon
  <2> QED
    BY <1>2, <1>7, <2>2, Zenon
<1> QED
  BY <1>4, <1>6, <1>8, <1>9, SeqEqual
-----------------------------------------------------------------------------
(* Packing and unpacking.                                                  *)

\* The values and the bytes of a message.
Names  == {"?", "!", "D", "T", "S", "pad", "number", "io_channel", "receipt", "packet", "type", "time"}
Values == Names \X Nat
Bytes  == Values \X Nat

\* The items that are no padding.
Filled(fmt) == {j \in 1..Len(fmt) : fmt[j] > 0}

\* off has the bytes before each item of a format, num the fields up to it.
Shape(fmt, off, num) ==
  /\ fmt \in Seq(Int \ {0})
  /\ off \in [1..(Len(fmt) + 1) -> Nat] /\ off[1] = 0
  /\ \A j \in 1..Len(fmt) : off[j + 1] = off[j] + Size(fmt[j])
  /\ num \in [0..Len(fmt) -> Nat] /\ num[0] = 0
  /\ \A j \in 1..Len(fmt) : num[j] = IF fmt[j] > 0 THEN num[j - 1] + 1 ELSE num[j - 1]

LEMMA FieldsRank ==
  ASSUME NEW fmt, NEW off, NEW num, Shape(fmt, off, num)
  PROVE  /\ Len(fmt) \in Nat /\ Filled(fmt) \in SUBSET (1..Len(fmt))
         /\ \A k \in 0..Len(fmt) : Rank(Filled(fmt), k) = num[k]
         /\ \A k \in 0..Len(fmt) : Cardinality({j \in 1..k : fmt[j] > 0}) = num[k]
<1>0. PICK F : F = Filled(fmt)
  OBVIOUS
<1>f. F = {j \in 1..Len(fmt) : fmt[j] > 0}
  BY <1>0 DEF Filled
<1>1. Len(fmt) \in Nat /\ F \in SUBSET (1..Len(fmt))
  BY <1>f DEF Shape
<1>2. Rank(F, 0) = 0
  BY <1>1, RankType
<1>3. \A k \in 1..Len(fmt) : Rank(F, k) = IF k \in F THEN Rank(F, k - 1) + 1 ELSE Rank(F, k - 1)
  BY <1>1, RankGrows
<1> DEFINE T == {k \in Nat : k <= Len(fmt) => Rank(F, k) = num[k]}
<1>4. 0 \in T
  BY <1>2 DEF Shape
<1>5. ASSUME NEW k \in Nat, k \in T PROVE k + 1 \in T
  <2> SUFFICES ASSUME k + 1 <= Len(fmt) PROVE Rank(F, k + 1) = num[k + 1]
    OBVIOUS
  <2>1. k + 1 \in 1..Len(fmt) /\ (k + 1) - 1 = k /\ k <= Len(fmt)
    BY <1>1
  <2>2. Rank(F, k) = num[k]
    BY <1>5, <2>1
  <2>3. Rank(F, k + 1) = IF k + 1 \in F THEN Rank(F, k) + 1 ELSE Rank(F, k)
    BY <1>3, <2>1
  <2>4. num[k + 1] = IF fmt[k + 1] > 0 THEN num[k] + 1 ELSE num[k]
    BY <2>1 DEF Shape
  <2> QED
    BY <1>f, <2>1, <2>2, <2>3, <2>4
<1>6. ASSUME NEW k \in 0..Len(fmt) PROVE Rank(F, k) = num[k]
  <2> HIDE DEF T
  <2>1. k \in Nat /\ k <= Len(fmt)
    BY <1>1
  <2>2. k \in T
    BY <1>4, <1>5, <2>1, Induction
  <2> QED
    BY <2>1, <2>2 DEF T
<1>7. ASSUME NEW k \in 0..Len(fmt) PROVE Cardinality({j \in 1..k : fmt[j] > 0}) = num[k]
  <2>1. {j \in 1..k : fmt[j] > 0} = {j \in F : j <= k}
    <3>1. \A j : j \in 1..k <=> j \in 1..Len(fmt) /\ j <= k
      BY <1>1
    <3> QED
      BY <1>f, <3>1, Zenon
  <2> QED
    BY <1>6, <2>1 DEF Rank
<1> QED
  BY <1>0, <1>1, <1>6, <1>7

LEMMA OffsetIs ==
  ASSUME NEW fmt, NEW off, NEW num, Shape(fmt, off, num), NEW p \in 1..Len(fmt)
  PROVE  Offset(fmt, p) = off[p]
<1> DEFINE Step(h, j) == IF j = 1 THEN 0 ELSE h[j - 1] + Size(fmt[j - 1])
           at == CHOOSE h : h = [j \in 1..p |-> Step(h, j)]
           g  == [j \in 1..p |-> off[j]]
<1>1. Len(fmt) \in Nat /\ p \in Nat
  BY DEF Shape
<1>2. \A j \in 1..p : off[j] = IF j = 1 THEN 0 ELSE off[j - 1] + Size(fmt[j - 1])
  <2> SUFFICES ASSUME NEW j \in 1..p, j # 1 PROVE off[j] = off[j - 1] + Size(fmt[j - 1])
    BY DEF Shape
  <2>1. j - 1 \in 1..Len(fmt) /\ (j - 1) + 1 = j
    BY <1>1
  <2> QED
    BY <2>1 DEF Shape
<1>3. g = [j \in 1..p |-> Step(g, j)]
  <2>1. \A j \in 1..p : j # 1 => j - 1 \in 1..p
    OBVIOUS
  <2> QED
    BY <1>2, <2>1
<1>4. at = [j \in 1..p |-> Step(at, j)]
  <2> HIDE DEF g
  <2> QED
    BY <1>3
<1>5. Offset(fmt, p) = at[p]
  BY DEF Offset
<1> HIDE DEF at
<1> DEFINE T == {j \in Nat : j \in 1..p => at[j] = off[j]}
<1>6. 0 \in T
  OBVIOUS
<1>7. ASSUME NEW j \in Nat, j \in T PROVE j + 1 \in T
  <2> SUFFICES ASSUME j + 1 \in 1..p PROVE at[j + 1] = off[j + 1]
    OBVIOUS
  <2>1. at[j + 1] = IF j + 1 = 1 THEN 0 ELSE at[(j + 1) - 1] + Size(fmt[(j + 1) - 1])
    BY <1>4
  <2>2. off[j + 1] = IF j + 1 = 1 THEN 0 ELSE off[(j + 1) - 1] + Size(fmt[(j + 1) - 1])
    BY <1>2
  <2>3. (j + 1) - 1 = j /\ (j + 1 # 1 => j \in 1..p)
    OBVIOUS
  <2>4. j + 1 # 1 => at[j] = off[j]
    BY <1>7, <2>3
  <2> QED
    BY <2>1, <2>2, <2>3, <2>4
<1> HIDE DEF T
<1>8. p \in T
  BY <1>1, <1>6, <1>7, Induction
<1> QED
  BY <1>5, <1>8 DEF T

LEMMA ValueBack ==
  ASSUME NEW v, NEW n \in Nat \ {0}
  PROVE  ValueOf(BytesOf(v, n)) = v
<1>1. PICK b : b = BytesOf(v, n)
  OBVIOUS
<1>2. Len(b) = n /\ b[1] = <<v, 1>> /\ b[1][1] = v
  BY <1>1 DEF BytesOf
<1> QED
  BY <1>1, <1>2 DEF ValueOf

\* What is packed is unpacked again.
LEMMA UnpackPack ==
  ASSUME NEW fmt, NEW off, NEW num, Shape(fmt, off, num),
         NEW data \in Seq(Values), Len(data) = num[Len(fmt)], NEW t, t = pack(fmt, data)
  PROVE  /\ t \in Seq(Bytes) /\ Len(t) = off[Len(fmt) + 1]
         /\ unpack(fmt, t) = data
         /\ fmt # <<>> /\ fmt[1] = 1 => t[1][1] = data[1]
<1> DEFINE L == Len(fmt)
           F == Filled(fmt)
           s == InOrder(F)
<1>1. F = {j \in 1..L : fmt[j] > 0}
  BY DEF Filled
<1>2. /\ L \in Nat /\ F \in SUBSET (1..L)
      /\ \A k \in 0..L : Rank(F, k) = num[k]
      /\ \A k \in 0..L : Cardinality({j \in 1..k : fmt[j] > 0}) = num[k]
  BY FieldsRank
<1> HIDE DEF F
<1>3. s = InOrder(F)
  OBVIOUS
<1>4. /\ Len(s) = Cardinality(F) /\ Len(s) \in Nat
      /\ \A m \in 1..Len(s) : s[m] \in F /\ Rank(F, s[m]) = m
      /\ \A k \in F : Rank(F, k) \in 1..Len(s) /\ s[Rank(F, k)] = k
  BY <1>2, InOrderIs
<1> HIDE DEF s
<1>5. Len(s) = Len(data)
  <2>1. Rank(F, L) = Cardinality(F) /\ L \in 0..L
    BY <1>2, RankType
  <2> QED
    BY <1>2, <1>4, <2>1
<1> DEFINE v(k) == IF fmt[k] > 0 THEN data[num[k]] ELSE Char("pad")
<1>6. ASSUME NEW k \in 1..L
      PROVE  /\ v(k) \in Values /\ Size(fmt[k]) \in Nat \ {0} /\ (fmt[k] > 0 => Size(fmt[k]) = fmt[k])
             /\ BytesOf(v(k), Size(fmt[k])) \in Seq(Bytes)
             /\ Len(BytesOf(v(k), Size(fmt[k]))) = Size(fmt[k])
  <2>1. fmt[k] \in Int \ {0} /\ k \in 0..L
    BY DEF Shape
  <2>2. Size(fmt[k]) \in Nat \ {0} /\ (fmt[k] > 0 => Size(fmt[k]) = fmt[k])
    BY <2>1 DEF Size
  <2>3. v(k) \in Values
    <3>1. CASE fmt[k] > 0
      <4>1. k \in F
        BY <1>1, <3>1
      <4>2. num[k] \in 1..Len(data)
        BY <1>2, <1>4, <1>5, <2>1, <4>1
      <4>3. data[num[k]] \in Values
        BY <4>2
      <4> QED
        BY <3>1, <4>3
    <3>2. CASE ~(fmt[k] > 0)
      <4>1. Char("pad") \in Values
        BY DEF Char, Values, Names
      <4> QED
        BY <3>2, <4>1
    <3> QED
      BY <3>1, <3>2
  <2> HIDE DEF v
  <2>4. \A j \in 1..Size(fmt[k]) : <<v(k), j>> \in Bytes
    BY <2>2, <2>3 DEF Bytes
  <2> QED
    BY <2>2, <2>3, <2>4 DEF BytesOf
<1>7. PICK ss : ss = [k \in 1..L |-> BytesOf(v(k), Size(fmt[k]))]
  OBVIOUS
<1>8. t = FlattenSeq(ss)
  <2>1. \A k \in 1..L : Cardinality({j \in 1..k : fmt[j] > 0}) = num[k]
    BY <1>2
  <2>2. pack(fmt, data) =
          FlattenSeq([k \in 1..L |->
            BytesOf(IF fmt[k] > 0 THEN data[Cardinality({j \in 1..k : fmt[j] > 0})] ELSE Char("pad"),
                    Size(fmt[k]))])
    BY DEF pack
  <2> DEFINE c(k) == Cardinality({j \in 1..k : fmt[j] > 0})
  <2>3. pack(fmt, data) =
          FlattenSeq([k \in 1..L |->
            BytesOf(IF fmt[k] > 0 THEN data[c(k)] ELSE Char("pad"), Size(fmt[k]))])
    BY <2>2
  <2>4. \A k \in 1..L : c(k) = num[k]
    BY <2>1
  <2> HIDE DEF c, L
  <2>5. [k \in 1..L |-> BytesOf(IF fmt[k] > 0 THEN data[c(k)] ELSE Char("pad"), Size(fmt[k]))] = ss
    BY <1>7, <2>4
  <2> QED
    BY <2>3, <2>5
<1> HIDE DEF v
<1>9. /\ ss \in Seq(Seq(Bytes)) /\ Len(ss) = L
      /\ \A k \in 1..L : ss[k] = BytesOf(v(k), Size(fmt[k])) /\ Len(ss[k]) = Size(fmt[k])
  BY <1>2, <1>6, <1>7
<1>10. Offsets(off, ss)
  BY <1>9 DEF Offsets, Shape
<1>11. /\ t \in Seq(Bytes) /\ Len(t) = off[L + 1]
       /\ \A j \in 1..L : \A k \in 1..Len(ss[j]) : off[j] + k \in 1..Len(t) /\ t[off[j] + k] = ss[j][k]
  <2>1. /\ t \in Seq(Bytes) /\ Len(t) = off[Len(ss) + 1]
        /\ \A j \in 1..Len(ss) : \A k \in 1..Len(ss[j]) : off[j] + k \in 1..Len(t) /\ t[off[j] + k] = ss[j][k]
    BY <1>8, <1>9, <1>10, FlattenPlaces
  <2> QED
    BY <1>9, <2>1
<1>12. ASSUME NEW m \in 1..Len(s)
       PROVE  ValueOf(SubSeq(t, Offset(fmt, s[m]) + 1, Offset(fmt, s[m]) + fmt[s[m]])) = data[m]
  <2>1. s[m] \in 1..L /\ fmt[s[m]] > 0 /\ num[s[m]] = m
    BY <1>1, <1>2, <1>4
  <2>2. PICK k \in 1..L : k = s[m]
    BY <2>1
  <2>3. Offset(fmt, k) = off[k]
    BY OffsetIs
  <2>4. Len(ss[k]) = fmt[k] /\ ss[k] = BytesOf(data[m], fmt[k]) /\ fmt[k] \in Nat \ {0}
    BY <1>6, <1>9, <2>1, <2>2 DEF v
  <2>5. SubSeq(t, off[k] + 1, off[k] + Len(ss[k])) = ss[k]
    BY <1>8, <1>9, <1>10, FlattenCuts
  <2>6. ValueOf(BytesOf(data[m], fmt[k])) = data[m]
    BY <2>4, ValueBack
  <2> QED
    BY <2>2, <2>3, <2>4, <2>5, <2>6
<1>13. unpack(fmt, t) = data
  <2>1. FieldsOf(fmt) = s
    BY <1>1, <1>3 DEF FieldsOf
  <2>2. unpack(fmt, t) =
          [n \in 1..Len(s) |-> ValueOf(SubSeq(t, Offset(fmt, s[n]) + 1, Offset(fmt, s[n]) + fmt[s[n]]))]
    BY <2>1 DEF unpack
  <2>3. data = [n \in 1..Len(data) |-> data[n]]
    OBVIOUS
  <2>4. unpack(fmt, t) = [n \in 1..Len(s) |-> data[n]]
    BY <1>12, <2>2
  <2> QED
    BY <1>5, <2>3, <2>4
<1>14. ASSUME fmt # <<>>, fmt[1] = 1 PROVE t[1][1] = data[1]
  <2>1. /\ 1 \in 1..L /\ 0 \in 0..L /\ off[1] = 0 /\ num[0] = 0
        /\ num[1] = IF fmt[1] > 0 THEN num[1 - 1] + 1 ELSE num[1 - 1]
    BY <1>14, <1>2 DEF Shape
  <2>2. v(1) = data[1]
    BY <1>14, <2>1 DEF v
  <2>3. ss[1] = BytesOf(data[1], 1) /\ Len(ss[1]) = 1
    <3>1. Size(fmt[1]) = 1
      BY <1>14 DEF Size
    <3> QED
      BY <1>9, <2>1, <2>2, <3>1, Zenon
  <2>4. t[0 + 1] = ss[1][1]
    BY <1>11, <2>1, <2>3
  <2>5. ss[1][1] = <<data[1], 1>>
    BY <2>3 DEF BytesOf
  <2> QED
    BY <2>4, <2>5
<1> QED
  BY <1>11, <1>13, <1>14

LEMMA SizeIs == \A n \in Nat : (n > 0 => Size(n) = n /\ Size(-n) = n)
  BY DEF Size

\* Each format has its fields where the lists of offsets and numbers say.

LEMMA DataShape ==
  \E off, num : /\ Shape(word_fmt_table.DATA, off, num) /\ Len(word_fmt_table.DATA) = 5
                 /\ off[6] = 16 /\ num[5] = 4 /\ word_fmt_table.DATA[1] = 1
<1>1. PICK f : f = word_fmt_table.DATA
  OBVIOUS
<1>2. f = <<1, 1, 4, -2, 8>>
  BY <1>1 DEF word_fmt_table
<1>3. f \in Seq(Int \ {0}) /\ Len(f) = 5 /\ f[1] = 1 /\ f[2] = 1 /\ f[3] = 4 /\ f[4] = -2 /\ f[5] = 8
  BY <1>2
<1>4. Size(f[1]) = 1 /\ Size(f[2]) = 1 /\ Size(f[3]) = 4 /\ Size(f[4]) = 2 /\ Size(f[5]) = 8
  BY <1>3, SizeIs
<1>5. PICK off \in [1..6 -> Nat] : off[1] = 0 /\ off[2] = 1 /\ off[3] = 2 /\ off[4] = 6 /\ off[5] = 8 /\
                               off[6] = 16
  <2>1. <<0, 1, 2, 6, 8, 16>> \in [1..6 -> Nat]
    OBVIOUS
  <2> QED
    BY <2>1
<1>6. PICK num : num = [k \in 0..5 |-> IF k < 4 THEN k ELSE k - 1]
  OBVIOUS
<1>7. \A j \in 1..5 : j = 1 \/ j = 2 \/ j = 3 \/ j = 4 \/ j = 5
  OBVIOUS
<1>8. \A j \in 1..5 : off[j + 1] = off[j] + Size(f[j])
  BY <1>4, <1>5, <1>7
<1>9. \A j \in 1..5 : f[j] > 0 <=> j \notin {4}
  BY <1>3, <1>7
<1>10. \A j \in 1..5 : num[j] = IF f[j] > 0 THEN num[j - 1] + 1 ELSE num[j - 1]
  BY <1>6, <1>7, <1>9
<1>11. num \in [0..5 -> Nat] /\ num[0] = 0 /\ num[5] = 4
  BY <1>6
<1>12. Shape(f, off, num)
  BY <1>3, <1>5, <1>8, <1>10, <1>11 DEF Shape
<1> QED
  BY <1>1, <1>3, <1>5, <1>11, <1>12

LEMMA TrigShape ==
  \E off, num : /\ Shape(word_fmt_table.TRIG, off, num) /\ Len(word_fmt_table.TRIG) = 5
                 /\ off[6] = 16 /\ num[5] = 3 /\ word_fmt_table.TRIG[1] = 1
<1>1. PICK f : f = word_fmt_table.TRIG
  OBVIOUS
<1>2. f = <<1, 1, -2, 4, -8>>
  BY <1>1 DEF word_fmt_table
<1>3. f \in Seq(Int \ {0}) /\ Len(f) = 5 /\ f[1] = 1 /\ f[2] = 1 /\ f[3] = -2 /\ f[4] = 4 /\ f[5] = -8
  BY <1>2
<1>4. Size(f[1]) = 1 /\ Size(f[2]) = 1 /\ Size(f[3]) = 2 /\ Size(f[4]) = 4 /\ Size(f[5]) = 8
  BY <1>3, SizeIs
<1>5. PICK off \in [1..6 -> Nat] : off[1] = 0 /\ off[2] = 1 /\ off[3] = 2 /\ off[4] = 4 /\ off[5] = 8 /\
                               off[6] = 16
  <2>1. <<0, 1, 2, 4, 8, 16>> \in [1..6 -> Nat]
    OBVIOUS
  <2> QED
    BY <2>1
<1>6. PICK num : num = [k \in 0..5 |-> IF k < 3 THEN k ELSE IF k < 5 THEN k - 1 ELSE k - 2]
  OBVIOUS
<1>7. \A j \in 1..5 : j = 1 \/ j = 2 \/ j = 3 \/ j = 4 \/ j = 5
  OBVIOUS
<1>8. \A j \in 1..5 : off[j + 1] = off[j] + Size(f[j])
  BY <1>4, <1>5, <1>7
<1>9. \A j \in 1..5 : f[j] > 0 <=> j \notin {3, 5}
  BY <1>3, <1>7
<1>10. \A j \in 1..5 : num[j] = IF f[j] > 0 THEN num[j - 1] + 1 ELSE num[j - 1]
  BY <1>6, <1>7, <1>9
<1>11. num \in [0..5 -> Nat] /\ num[0] = 0 /\ num[5] = 3
  BY <1>6
<1>12. Shape(f, off, num)
  BY <1>3, <1>5, <1>8, <1>10, <1>11 DEF Shape
<1> QED
  BY <1>1, <1>3, <1>5, <1>11, <1>12

LEMMA SyncShape ==
  \E off, num : /\ Shape(word_fmt_table.SYNC, off, num) /\ Len(word_fmt_table.SYNC) = 6
                 /\ off[7] = 16 /\ num[6] = 4 /\ word_fmt_table.SYNC[1] = 1
<1>1. PICK f : f = word_fmt_table.SYNC
  OBVIOUS
<1>2. f = <<1, 1, 1, -1, 4, -8>>
  BY <1>1 DEF word_fmt_table
<1>3. f \in Seq(Int \ {0}) /\ Len(f) = 6 /\ f[1] = 1 /\ f[2] = 1 /\ f[3] = 1 /\ f[4] = -1 /\ f[5] = 4 /\ f[6] = -8
  BY <1>2
<1>4. Size(f[1]) = 1 /\ Size(f[2]) = 1 /\ Size(f[3]) = 1 /\ Size(f[4]) = 1 /\ Size(f[5]) = 4 /\ Size(f[6]) = 8
  BY <1>3, SizeIs
<1>5. PICK off \in [1..7 -> Nat] : off[1] = 0 /\ off[2] = 1 /\ off[3] = 2 /\ off[4] = 3 /\ off[5] = 4 /\
                               off[6] = 8 /\ off[7] = 16
  <2>1. <<0, 1, 2, 3, 4, 8, 16>> \in [1..7 -> Nat]
    OBVIOUS
  <2> QED
    BY <2>1
<1>6. PICK num : num = [k \in 0..6 |-> IF k < 4 THEN k ELSE IF k < 6 THEN k - 1 ELSE k - 2]
  OBVIOUS
<1>7. \A j \in 1..6 : j = 1 \/ j = 2 \/ j = 3 \/ j = 4 \/ j = 5 \/ j = 6
  OBVIOUS
<1>8. \A j \in 1..6 : off[j + 1] = off[j] + Size(f[j])
  BY <1>4, <1>5, <1>7
<1>9. \A j \in 1..6 : f[j] > 0 <=> j \notin {4, 6}
  BY <1>3, <1>7
<1>10. \A j \in 1..6 : num[j] = IF f[j] > 0 THEN num[j - 1] + 1 ELSE num[j - 1]
  BY <1>6, <1>7, <1>9
<1>11. num \in [0..6 -> Nat] /\ num[0] = 0 /\ num[6] = 4
  BY <1>6
<1>12. Shape(f, off, num)
  BY <1>3, <1>5, <1>8, <1>10, <1>11 DEF Shape
<1> QED
  BY <1>1, <1>3, <1>5, <1>11, <1>12

LEMMA TxShape ==
  \E off, num : /\ Shape(word_fmt_table.TX, off, num) /\ Len(word_fmt_table.TX) = 4
                 /\ off[5] = 16 /\ num[4] = 3 /\ word_fmt_table.TX[1] = 1
<1>1. PICK f : f = word_fmt_table.TX
  OBVIOUS
<1>2. f = <<1, 1, -6, 8>>
  BY <1>1 DEF word_fmt_table
<1>3. f \in Seq(Int \ {0}) /\ Len(f) = 4 /\ f[1] = 1 /\ f[2] = 1 /\ f[3] = -6 /\ f[4] = 8
  BY <1>2
<1>4. Size(f[1]) = 1 /\ Size(f[2]) = 1 /\ Size(f[3]) = 6 /\ Size(f[4]) = 8
  BY <1>3, SizeIs
<1>5. PICK off \in [1..5 -> Nat] : off[1] = 0 /\ off[2] = 1 /\ off[3] = 2 /\ off[4] = 8 /\ off[5] = 16
  <2>1. <<0, 1, 2, 8, 16>> \in [1..5 -> Nat]
    OBVIOUS
  <2> QED
    BY <2>1
<1>6. PICK num : num = [k \in 0..4 |-> IF k < 3 THEN k ELSE k - 1]
  OBVIOUS
<1>7. \A j \in 1..4 : j = 1 \/ j = 2 \/ j = 3 \/ j = 4
  OBVIOUS
<1>8. \A j \in 1..4 : off[j + 1] = off[j] + Size(f[j])
  BY <1>4, <1>5, <1>7
<1>9. \A j \in 1..4 : f[j] > 0 <=> j \notin {3}
  BY <1>3, <1>7
<1>10. \A j \in 1..4 : num[j] = IF f[j] > 0 THEN num[j - 1] + 1 ELSE num[j - 1]
  BY <1>6, <1>7, <1>9
<1>11. num \in [0..4 -> Nat] /\ num[0] = 0 /\ num[4] = 3
  BY <1>6
<1>12. Shape(f, off, num)
  BY <1>3, <1>5, <1>8, <1>10, <1>11 DEF Shape
<1> QED
  BY <1>1, <1>3, <1>5, <1>11, <1>12

LEMMA HeaderShape ==
  \E off, num : /\ Shape(msg_header_fmt, off, num) /\ Len(msg_header_fmt) = 4
                 /\ off[5] = 8 /\ num[4] = 3 /\ msg_header_fmt[1] = 1
<1>1. PICK f : f = msg_header_fmt
  OBVIOUS
<1>2. f = <<1, 4, -1, 2>>
  BY <1>1 DEF msg_header_fmt
<1>3. f \in Seq(Int \ {0}) /\ Len(f) = 4 /\ f[1] = 1 /\ f[2] = 4 /\ f[3] = -1 /\ f[4] = 2
  BY <1>2
<1>4. Size(f[1]) = 1 /\ Size(f[2]) = 4 /\ Size(f[3]) = 1 /\ Size(f[4]) = 2
  BY <1>3, SizeIs
<1>5. PICK off \in [1..5 -> Nat] : off[1] = 0 /\ off[2] = 1 /\ off[3] = 5 /\ off[4] = 6 /\ off[5] = 8
  <2>1. <<0, 1, 5, 6, 8>> \in [1..5 -> Nat]
    OBVIOUS
  <2> QED
    BY <2>1
<1>6. PICK num : num = [k \in 0..4 |-> IF k < 3 THEN k ELSE k - 1]
  OBVIOUS
<1>7. \A j \in 1..4 : j = 1 \/ j = 2 \/ j = 3 \/ j = 4
  OBVIOUS
<1>8. \A j \in 1..4 : off[j + 1] = off[j] + Size(f[j])
  BY <1>4, <1>5, <1>7
<1>9. \A j \in 1..4 : f[j] > 0 <=> j \notin {3}
  BY <1>3, <1>7
<1>10. \A j \in 1..4 : num[j] = IF f[j] > 0 THEN num[j - 1] + 1 ELSE num[j - 1]
  BY <1>6, <1>7, <1>9
<1>11. num \in [0..4 -> Nat] /\ num[0] = 0 /\ num[4] = 3
  BY <1>6
<1>12. Shape(f, off, num)
  BY <1>3, <1>5, <1>8, <1>10, <1>11 DEF Shape
<1> QED
  BY <1>1, <1>3, <1>5, <1>11, <1>12

-----------------------------------------------------------------------------
(* Words and messages.                                                     *)

\* The words of a message of data, or of one that requests a transmission.
TypedWords(msg_type) ==
  IF msg_type = "DATA"
    THEN {<<"DATA", a, b, c>> : a \in Values, b \in Values, c \in Values}
         \cup {<<"TRIG", a, b>> : a \in Values, b \in Values}
         \cup {<<"SYNC", a, b, c>> : a \in Values, b \in Values, c \in Values}
    ELSE {<<"TX", a, b>> : a \in Values, b \in Values}

LEMMA NamesBack ==
  /\ NameOf(word_type_table.DATA, Char("D")) = "DATA"
  /\ NameOf(word_type_table.DATA, Char("T")) = "TRIG"
  /\ NameOf(word_type_table.DATA, Char("S")) = "SYNC"
  /\ NameOf(word_type_table.REQ, Char("D")) = "TX"
  /\ NameOf(msg_type_table, Char("D")) = "DATA"
  /\ NameOf(msg_type_table, Char("?")) = "REQ"
<1>1. ASSUME NEW table, NEW name \in DOMAIN table, NEW c, table[name] = c,
             \A n \in DOMAIN table : table[n] = c => n = name
      PROVE  NameOf(table, Char(c)) = name
  <2>1. \A n \in DOMAIN table : Char(table[n]) = Char(c) <=> n = name
    BY <1>1 DEF Char
  <2> QED
    BY <2>1 DEF NameOf
<1>2. PICK d : d = word_type_table.DATA
  OBVIOUS
<1>3. DOMAIN d = {"DATA", "TRIG", "SYNC"} /\ d["DATA"] = "D" /\ d["TRIG"] = "T" /\ d["SYNC"] = "S"
  BY <1>2 DEF word_type_table
<1>4. NameOf(d, Char("D")) = "DATA" /\ NameOf(d, Char("T")) = "TRIG" /\ NameOf(d, Char("S")) = "SYNC"
  BY <1>1, <1>3
<1>5. PICK r : r = word_type_table.REQ
  OBVIOUS
<1>6. DOMAIN r = {"PING", "WRITE", "READ", "TX"} /\ r["PING"] = "P" /\ r["WRITE"] = "W" /\ r["READ"] = "R"
      /\ r["TX"] = "D"
  BY <1>5 DEF word_type_table
<1>7. NameOf(r, Char("D")) = "TX"
  BY <1>1, <1>6
<1>8. PICK m : m = msg_type_table
  OBVIOUS
<1>9. DOMAIN m = {"REQ", "REP", "DATA"} /\ m["REQ"] = "?" /\ m["REP"] = "!" /\ m["DATA"] = "D"
  BY <1>8 DEF msg_type_table
<1>10. NameOf(m, Char("D")) = "DATA" /\ NameOf(m, Char("?")) = "REQ"
  BY <1>1, <1>9
<1> QED
  BY <1>2, <1>4, <1>5, <1>7, <1>8, <1>10

LEMMA Tails ==
  /\ \A a, b, c : Tail(<<a, b, c>>) = <<b, c>> /\ <<a>> \o <<b, c>> = <<a, b, c>>
  /\ \A a, b, c, d : Tail(<<a, b, c, d>>) = <<b, c, d>> /\ <<a>> \o <<b, c, d>> = <<a, b, c, d>>
<1>s. ASSUME NEW S, NEW p \in Seq(S), NEW q \in Seq(S), NEW u \in Seq(S), Len(p) = 1, Len(u) = 1 + Len(q),
             u[1] = p[1], \A k \in 1..Len(q) : u[k + 1] = q[k]
      PROVE  p \o q = u
  <2>1. /\ p \o q \in Seq(S) /\ Len(p \o q) = 1 + Len(q)
        /\ \A k \in 1..1 + Len(q) : (p \o q)[k] = IF k <= 1 THEN p[k] ELSE q[k - 1]
    <3>1. /\ p \o q \in Seq(S) /\ Len(p \o q) = Len(p) + Len(q)
          /\ \A k \in 1..Len(p) + Len(q) : (p \o q)[k] = IF k <= Len(p) THEN p[k] ELSE q[k - Len(p)]
      BY ConcatProperties
    <3> QED
      BY <1>s, <3>1, Zenon
  <2>2. \A k \in 1..1 + Len(q) : u[k] = IF k <= 1 THEN p[k] ELSE q[k - 1]
    <3> SUFFICES ASSUME NEW k \in 1..1 + Len(q), k # 1 PROVE u[k] = q[k - 1]
      BY <1>s
    <3>1. k - 1 \in 1..Len(q) /\ (k - 1) + 1 = k
      BY LenProperties
    <3> QED
      BY <1>s, <3>1
  <2> QED
    BY <1>s, <2>1, <2>2, SeqEqual
<1>1. \A a, b, c : Tail(<<a, b, c>>) = <<b, c>>
  OBVIOUS
<1>2. ASSUME NEW a, NEW b, NEW c PROVE <<a>> \o <<b, c>> = <<a, b, c>>
  <2>1. PICK S : S = {a, b, c}
    OBVIOUS
  <2>2. PICK p, q, u : p = <<a>> /\ q = <<b, c>> /\ u = <<a, b, c>>
    OBVIOUS
  <2>3. p \in Seq(S) /\ q \in Seq(S) /\ u \in Seq(S) /\ Len(p) = 1 /\ Len(q) = 2 /\ Len(u) = 3
        /\ u[1] = p[1] /\ u[2] = q[1] /\ u[3] = q[2]
    BY <2>1, <2>2
  <2>4. \A k \in 1..Len(q) : u[k + 1] = q[k]
    BY <2>3
  <2>5. p \o q = u
    <3>1. Len(u) = 1 + Len(q)
      BY <2>3
    <3> QED
      BY <1>s, <2>3, <2>4, <3>1
  <2> QED
    BY <2>2, <2>5, Zenon
<1>3. \A a, b, c, d : Tail(<<a, b, c, d>>) = <<b, c, d>>
  OBVIOUS
<1>4. ASSUME NEW a, NEW b, NEW c, NEW d PROVE <<a>> \o <<b, c, d>> = <<a, b, c, d>>
  <2>1. PICK S : S = {a, b, c, d}
    OBVIOUS
  <2>2. PICK p, q, u : p = <<a>> /\ q = <<b, c, d>> /\ u = <<a, b, c, d>>
    OBVIOUS
  <2>3. p \in Seq(S) /\ q \in Seq(S) /\ u \in Seq(S) /\ Len(p) = 1 /\ Len(q) = 3 /\ Len(u) = 4
        /\ u[1] = p[1] /\ u[2] = q[1] /\ u[3] = q[2] /\ u[4] = q[3]
    BY <2>1, <2>2
  <2>4. \A k \in 1..Len(q) : u[k + 1] = q[k]
    BY <2>3
  <2>5. p \o q = u
    <3>1. Len(u) = 1 + Len(q)
      BY <2>3
    <3> QED
      BY <1>s, <2>3, <2>4, <3>1
  <2> QED
    BY <2>2, <2>5, Zenon
<1> QED
  BY <1>1, <1>2, <1>3, <1>4

LEMMA UnpackBack ==
  ASSUME NEW fmt, NEW off, NEW num, Shape(fmt, off, num), Len(fmt) \in {4, 5, 6}, fmt[1] = 1,
         NEW data \in Seq(Values), Len(data) = num[Len(fmt)]
  PROVE  /\ pack(fmt, data) \in Seq(Bytes) /\ Len(pack(fmt, data)) = off[Len(fmt) + 1]
         /\ unpack(fmt, pack(fmt, data)) = data /\ pack(fmt, data)[1][1] = data[1]
<1>1. fmt # <<>>
  OBVIOUS
<1>2. PICK t : t = pack(fmt, data)
  OBVIOUS
<1> QED
  BY <1>1, <1>2, UnpackPack

\* A word that is written is read as it was.
LEMMA WordBack ==
  ASSUME NEW mt \in {"DATA", "REQ"}, NEW w \in TypedWords(mt), NEW t, t = format_word(mt, w)
  PROVE  t \in Seq(Bytes) /\ Len(t) = 16 /\ parse_word(mt, t) = w
<1>c. Char("D") \in Values /\ Char("T") \in Values /\ Char("S") \in Values
  BY DEF Char, Values, Names
<1>1. CASE mt = "DATA" /\ \E a, b, c \in Values : w = <<"DATA", a, b, c>>
  <2>1. PICK a \in Values, b \in Values, c \in Values : w = <<"DATA", a, b, c>>
    BY <1>1
  <2>2. PICK fmt : fmt = word_fmt_table.DATA
    OBVIOUS
  <2>3. PICK off, num : Shape(fmt, off, num) /\ Len(fmt) = 5 /\ off[6] = 16 /\ num[5] = 4 /\ fmt[1] = 1
    BY <2>2, DataShape
  <2>4. PICK x \in Values : x = Char("D")
    BY <1>c
  <2>5. PICK data : data = <<x, a, b, c>>
    OBVIOUS
  <2>6. data \in Seq(Values) /\ Len(data) = 4 /\ data[1] = x /\ w[1] = "DATA"
    BY <2>1, <2>5
  <2>7. <<x>> \o Tail(w) = data /\ <<"DATA">> \o Tail(data) = w
    <3>1. Tail(w) = <<a, b, c>> /\ Tail(data) = <<a, b, c>>
      BY <2>1, <2>5, Tails
    <3> QED
      BY <2>1, <2>5, <3>1, Tails
  <2>8. word_type_table[mt]["DATA"] = "D" /\ NameOf(word_type_table[mt], Char("D")) = "DATA"
    <3>1. word_type_table.DATA["DATA"] = "D"
      BY DEF word_type_table
    <3> QED
      BY <1>1, <3>1, NamesBack
  <2>9. t = pack(fmt, data)
    <3>1. format_word(mt, w) = pack(fmt, <<x>> \o Tail(w))
      BY <2>2, <2>4, <2>6, <2>8, Zenon DEF format_word
    <3> QED
      BY <2>7, <3>1
  <2>10. t \in Seq(Bytes) /\ Len(t) = 16 /\ unpack(fmt, t) = data /\ t[1][1] = x
    <3>1. /\ pack(fmt, data) \in Seq(Bytes) /\ Len(pack(fmt, data)) = off[Len(fmt) + 1]
          /\ unpack(fmt, pack(fmt, data)) = data /\ pack(fmt, data)[1][1] = data[1]
      <4>1. Len(fmt) \in {4, 5, 6} /\ Len(data) = num[Len(fmt)]
        BY <2>3, <2>6
      <4>2. Shape(fmt, off, num) /\ fmt[1] = 1 /\ data \in Seq(Values)
        BY <2>3, <2>6
      <4> QED
        BY <4>1, <4>2, UnpackBack
    <3> QED
      BY <2>3, <2>6, <2>9, <3>1
  <2>11. parse_word(mt, t) = w
    <3>1. t[1][1] = Char("D") /\ unpack(word_fmt_table["DATA"], t) = data /\ "DATA" # "KeyError"
      BY <2>2, <2>4, <2>10
    <3> QED
      BY <2>7, <2>8, <3>1, Zenon DEF parse_word
  <2> QED
    BY <2>10, <2>11
<1>2. CASE mt = "DATA" /\ \E a, b, c \in Values : w = <<"SYNC", a, b, c>>
  <2>1. PICK a \in Values, b \in Values, c \in Values : w = <<"SYNC", a, b, c>>
    BY <1>2
  <2>2. PICK fmt : fmt = word_fmt_table.SYNC
    OBVIOUS
  <2>3. PICK off, num : Shape(fmt, off, num) /\ Len(fmt) = 6 /\ off[7] = 16 /\ num[6] = 4 /\ fmt[1] = 1
    BY <2>2, SyncShape
  <2>4. PICK x \in Values : x = Char("S")
    BY <1>c
  <2>5. PICK data : data = <<x, a, b, c>>
    OBVIOUS
  <2>6. data \in Seq(Values) /\ Len(data) = 4 /\ data[1] = x /\ w[1] = "SYNC"
    BY <2>1, <2>5
  <2>7. <<x>> \o Tail(w) = data /\ <<"SYNC">> \o Tail(data) = w
    <3>1. Tail(w) = <<a, b, c>> /\ Tail(data) = <<a, b, c>>
      BY <2>1, <2>5, Tails
    <3> QED
      BY <2>1, <2>5, <3>1, Tails
  <2>8. word_type_table[mt]["SYNC"] = "S" /\ NameOf(word_type_table[mt], Char("S")) = "SYNC"
    <3>1. word_type_table.DATA["SYNC"] = "S"
      BY DEF word_type_table
    <3> QED
      BY <1>2, <3>1, NamesBack
  <2>9. t = pack(fmt, data)
    <3>1. format_word(mt, w) = pack(fmt, <<x>> \o Tail(w))
      BY <2>2, <2>4, <2>6, <2>8, Zenon DEF format_word
    <3> QED
      BY <2>7, <3>1
  <2>10. t \in Seq(Bytes) /\ Len(t) = 16 /\ unpack(fmt, t) = data /\ t[1][1] = x
    <3>1. /\ pack(fmt, data) \in Seq(Bytes) /\ Len(pack(fmt, data)) = off[Len(fmt) + 1]
          /\ unpack(fmt, pack(fmt, data)) = data /\ pack(fmt, data)[1][1] = data[1]
      <4>1. Len(fmt) \in {4, 5, 6} /\ Len(data) = num[Len(fmt)]
        BY <2>3, <2>6
      <4>2. Shape(fmt, off, num) /\ fmt[1] = 1 /\ data \in Seq(Values)
        BY <2>3, <2>6
      <4> QED
        BY <4>1, <4>2, UnpackBack
    <3> QED
      BY <2>3, <2>6, <2>9, <3>1
  <2>11. parse_word(mt, t) = w
    <3>1. t[1][1] = Char("S") /\ unpack(word_fmt_table["SYNC"], t) = data /\ "SYNC" # "KeyError"
      BY <2>2, <2>4, <2>10
    <3> QED
      BY <2>7, <2>8, <3>1, Zenon DEF parse_word
  <2> QED
    BY <2>10, <2>11
<1>3. CASE mt = "DATA" /\ \E a, b \in Values : w = <<"TRIG", a, b>>
  <2>1. PICK a \in Values, b \in Values : w = <<"TRIG", a, b>>
    BY <1>3
  <2>2. PICK fmt : fmt = word_fmt_table.TRIG
    OBVIOUS
  <2>3. PICK off, num : Shape(fmt, off, num) /\ Len(fmt) = 5 /\ off[6] = 16 /\ num[5] = 3 /\ fmt[1] = 1
    BY <2>2, TrigShape
  <2>4. PICK x \in Values : x = Char("T")
    BY <1>c
  <2>5. PICK data : data = <<x, a, b>>
    OBVIOUS
  <2>6. data \in Seq(Values) /\ Len(data) = 3 /\ data[1] = x /\ w[1] = "TRIG"
    BY <2>1, <2>5
  <2>7. <<x>> \o Tail(w) = data /\ <<"TRIG">> \o Tail(data) = w
    <3>1. Tail(w) = <<a, b>> /\ Tail(data) = <<a, b>>
      BY <2>1, <2>5, Tails
    <3> QED
      BY <2>1, <2>5, <3>1, Tails
  <2>8. word_type_table[mt]["TRIG"] = "T" /\ NameOf(word_type_table[mt], Char("T")) = "TRIG"
    <3>1. word_type_table.DATA["TRIG"] = "T"
      BY DEF word_type_table
    <3> QED
      BY <1>3, <3>1, NamesBack
  <2>9. t = pack(fmt, data)
    <3>1. format_word(mt, w) = pack(fmt, <<x>> \o Tail(w))
      BY <2>2, <2>4, <2>6, <2>8, Zenon DEF format_word
    <3> QED
      BY <2>7, <3>1
  <2>10. t \in Seq(Bytes) /\ Len(t) = 16 /\ unpack(fmt, t) = data /\ t[1][1] = x
    <3>1. /\ pack(fmt, data) \in Seq(Bytes) /\ Len(pack(fmt, data)) = off[Len(fmt) + 1]
          /\ unpack(fmt, pack(fmt, data)) = data /\ pack(fmt, data)[1][1] = data[1]
      <4>1. Len(fmt) \in {4, 5, 6} /\ Len(data) = num[Len(fmt)]
        BY <2>3, <2>6
      <4>2. Shape(fmt, off, num) /\ fmt[1] = 1 /\ data \in Seq(Values)
        BY <2>3, <2>6
      <4> QED
        BY <4>1, <4>2, UnpackBack
    <3> QED
      BY <2>3, <2>6, <2>9, <3>1
  <2>11. parse_word(mt, t) = w
    <3>1. t[1][1] = Char("T") /\ unpack(word_fmt_table["TRIG"], t) = data /\ "TRIG" # "KeyError"
      BY <2>2, <2>4, <2>10
    <3> QED
      BY <2>7, <2>8, <3>1, Zenon DEF parse_word
  <2> QED
    BY <2>10, <2>11
<1>4. CASE mt = "REQ" /\ \E a, b \in Values : w = <<"TX", a, b>>
  <2>1. PICK a \in Values, b \in Values : w = <<"TX", a, b>>
    BY <1>4
  <2>2. PICK fmt : fmt = word_fmt_table.TX
    OBVIOUS
  <2>3. PICK off, num : Shape(fmt, off, num) /\ Len(fmt) = 4 /\ off[5] = 16 /\ num[4] = 3 /\ fmt[1] = 1
    BY <2>2, TxShape
  <2>4. PICK x \in Values : x = Char("D")
    BY <1>c
  <2>5. PICK data : data = <<x, a, b>>
    OBVIOUS
  <2>6. data \in Seq(Values) /\ Len(data) = 3 /\ data[1] = x /\ w[1] = "TX"
    BY <2>1, <2>5
  <2>7. <<x>> \o Tail(w) = data /\ <<"TX">> \o Tail(data) = w
    <3>1. Tail(w) = <<a, b>> /\ Tail(data) = <<a, b>>
      BY <2>1, <2>5, Tails
    <3> QED
      BY <2>1, <2>5, <3>1, Tails
  <2>8. word_type_table[mt]["TX"] = "D" /\ NameOf(word_type_table[mt], Char("D")) = "TX"
    <3>1. word_type_table.REQ["TX"] = "D"
      BY DEF word_type_table
    <3> QED
      BY <1>4, <3>1, NamesBack
  <2>9. t = pack(fmt, data)
    <3>1. format_word(mt, w) = pack(fmt, <<x>> \o Tail(w))
      BY <2>2, <2>4, <2>6, <2>8, Zenon DEF format_word
    <3> QED
      BY <2>7, <3>1
  <2>10. t \in Seq(Bytes) /\ Len(t) = 16 /\ unpack(fmt, t) = data /\ t[1][1] = x
    <3>1. /\ pack(fmt, data) \in Seq(Bytes) /\ Len(pack(fmt, data)) = off[Len(fmt) + 1]
          /\ unpack(fmt, pack(fmt, data)) = data /\ pack(fmt, data)[1][1] = data[1]
      <4>1. Len(fmt) \in {4, 5, 6} /\ Len(data) = num[Len(fmt)]
        BY <2>3, <2>6
      <4>2. Shape(fmt, off, num) /\ fmt[1] = 1 /\ data \in Seq(Values)
        BY <2>3, <2>6
      <4> QED
        BY <4>1, <4>2, UnpackBack
    <3> QED
      BY <2>3, <2>6, <2>9, <3>1
  <2>11. parse_word(mt, t) = w
    <3>1. t[1][1] = Char("D") /\ unpack(word_fmt_table["TX"], t) = data /\ "TX" # "KeyError"
      BY <2>2, <2>4, <2>10
    <3> QED
      BY <2>7, <2>8, <3>1, Zenon DEF parse_word
  <2> QED
    BY <2>10, <2>11
<1> QED
  BY <1>1, <1>2, <1>3, <1>4 DEF TypedWords

LEMMA SubSeqConcat ==
  ASSUME NEW S, NEW h \in Seq(S), NEW b \in Seq(S), NEW a \in Nat, NEW c \in Nat, a <= c, c <= Len(b)
  PROVE  /\ SubSeq(h \o b, 1, Len(h)) = h
         /\ SubSeq(h \o b, Len(h) + a + 1, Len(h) + c) = SubSeq(b, a + 1, c)
<1>1. PICK l \in Nat, n \in Nat : l = Len(h) /\ n = Len(b)
  BY LenProperties
<1>2. PICK t : t = h \o b
  OBVIOUS
<1>3. /\ t \in Seq(S) /\ Len(t) = l + n
      /\ \A k \in 1..l + n : t[k] = IF k <= l THEN h[k] ELSE b[k - l]
  <2>1. /\ h \o b \in Seq(S) /\ Len(h \o b) = Len(h) + Len(b)
        /\ \A k \in 1..Len(h) + Len(b) : (h \o b)[k] = IF k <= Len(h) THEN h[k] ELSE b[k - Len(h)]
    BY ConcatProperties
  <2> QED
    BY <1>1, <1>2, <2>1, Zenon
<1>t. \A k \in 1..l + n : t[k] \in S
  BY <1>1, <1>3
<1>4. SubSeq(t, 1, l) = h
  <2>1. \A k \in 1..l : t[k] \in S
    BY <1>t
  <2>2. /\ SubSeq(t, 1, l) \in Seq(S) /\ Len(SubSeq(t, 1, l)) = IF 1 <= l THEN l - 1 + 1 ELSE 0
        /\ \A k \in 1..l - 1 + 1 : SubSeq(t, 1, l)[k] = t[1 + k - 1]
    BY <2>1, SubSeqProperties
  <2>3. Len(SubSeq(t, 1, l)) = l
    BY <2>2
  <2>4. \A k \in 1..l : SubSeq(t, 1, l)[k] = h[k]
    <3> SUFFICES ASSUME NEW k \in 1..l PROVE SubSeq(t, 1, l)[k] = h[k]
      OBVIOUS
    <3>1. 1 + k - 1 = k /\ k \in 1..l - 1 + 1 /\ k \in 1..l + n /\ k <= l
      OBVIOUS
    <3> QED
      BY <1>3, <2>2, <3>1
  <2> QED
    BY <1>1, <2>2, <2>3, <2>4, SeqEqual
<1>5. SubSeq(t, l + a + 1, l + c) = SubSeq(b, a + 1, c)
  <2>1. PICK p, q \in Seq(S) : p = SubSeq(t, l + a + 1, l + c) /\ q = SubSeq(b, a + 1, c)
                              /\ Len(p) = c - a /\ Len(q) = c - a
                              /\ (\A k \in 1..c - a : p[k] = t[l + a + k] /\ q[k] = b[a + k])
    <3>1. PICK p : p = SubSeq(t, l + a + 1, l + c)
      OBVIOUS
    <3>2. p \in Seq(S) /\ Len(p) = c - a /\ \A k \in 1..c - a : p[k] = t[l + a + k]
      <4>1. \A k \in l + a + 1..l + c : t[k] \in S
        BY <1>1, <1>t
      <4>2. /\ p \in Seq(S) /\ Len(p) = IF l + a + 1 <= l + c THEN (l + c) - (l + a + 1) + 1 ELSE 0
            /\ \A k \in 1..(l + c) - (l + a + 1) + 1 : p[k] = t[(l + a + 1) + k - 1]
        BY <3>1, <4>1, SubSeqProperties
      <4>3. (l + c) - (l + a + 1) + 1 = c - a /\ (l + a + 1 <= l + c \/ c - a = 0)
            /\ \A k \in 1..c - a : (l + a + 1) + k - 1 = l + a + k
        OBVIOUS
      <4> QED
        BY <4>2, <4>3
    <3>3. PICK q : q = SubSeq(b, a + 1, c)
      OBVIOUS
    <3>4. q \in Seq(S) /\ Len(q) = c - a /\ \A k \in 1..c - a : q[k] = b[a + k]
      <4>1. \A k \in a + 1..c : b[k] \in S
        BY <1>1
      <4>2. /\ q \in Seq(S) /\ Len(q) = IF a + 1 <= c THEN c - (a + 1) + 1 ELSE 0
            /\ \A k \in 1..c - (a + 1) + 1 : q[k] = b[(a + 1) + k - 1]
        BY <3>3, <4>1, SubSeqProperties
      <4>3. c - (a + 1) + 1 = c - a /\ (a + 1 <= c \/ c - a = 0)
            /\ \A k \in 1..c - a : (a + 1) + k - 1 = a + k
        OBVIOUS
      <4> QED
        BY <4>2, <4>3
    <3> QED
      BY <3>1, <3>2, <3>3, <3>4
  <2>2. ASSUME NEW k \in 1..c - a PROVE p[k] = q[k]
    <3>1. l + a + k \in 1..l + n /\ ~(l + a + k <= l) /\ (l + a + k) - l = a + k
      BY <1>1
    <3> QED
      BY <1>3, <2>1, <3>1
  <2> QED
    BY <2>1, <2>2, SeqEqual
<1> QED
  BY <1>1, <1>2, <1>4, <1>5

LEMMA HeaderBack ==
  ASSUME NEW mt \in {"DATA", "REQ"}, NEW n \in Nat, NEW h, h = format_header(mt, Now, n)
  PROVE  /\ h \in Seq(Bytes) /\ Len(h) = 8
         /\ \A msg : SubSeq(msg, 1, 8) = h => parse_header(msg) = <<mt, Now, Number(n)>>
<1>1. PICK fmt : fmt = msg_header_fmt
  OBVIOUS
<1>2. PICK off, num : Shape(fmt, off, num) /\ Len(fmt) = 4 /\ off[5] = 8 /\ num[4] = 3 /\ fmt[1] = 1
  BY <1>1, HeaderShape
<1>3. PICK c : c = msg_type_table[mt]
  OBVIOUS
<1>4. Char(c) \in Values /\ NameOf(msg_type_table, Char(c)) = mt
  <2>1. CASE mt = "DATA"
    <3>1. c = "D"
      BY <1>3, <2>1 DEF msg_type_table
    <3> QED
      BY <2>1, <3>1, NamesBack DEF Char, Values, Names
  <2>2. CASE mt = "REQ"
    <3>1. c = "?"
      BY <1>3, <2>2 DEF msg_type_table
    <3> QED
      BY <2>2, <3>1, NamesBack DEF Char, Values, Names
  <2> QED
    BY <2>1, <2>2
<1>5. Now \in Values /\ Number(n) \in Values
  BY DEF Now, Number, Values, Names
<1>6. PICK x, y, z \in Values : x = Char(c) /\ y = Now /\ z = Number(n)
  BY <1>4, <1>5
<1>7. PICK data : data = <<x, y, z>>
  OBVIOUS
<1>8. data \in Seq(Values) /\ Len(data) = 3 /\ data[1] = x
  BY <1>6, <1>7
<1>9. Tail(data) = <<y, z>> /\ <<mt>> \o <<y, z>> = <<mt, y, z>>
  BY <1>7, Tails
<1>10. h = pack(fmt, data)
  BY <1>1, <1>3, <1>6, <1>7 DEF format_header
<1>11. h \in Seq(Bytes) /\ Len(h) = 8 /\ unpack(fmt, h) = data
  <2>1. Len(fmt) \in {4, 5, 6} /\ Len(data) = num[Len(fmt)]
    BY <1>2, <1>8
  <2>2. Shape(fmt, off, num) /\ fmt[1] = 1 /\ data \in Seq(Values)
    BY <1>2, <1>8
  <2>3. /\ pack(fmt, data) \in Seq(Bytes) /\ Len(pack(fmt, data)) = off[Len(fmt) + 1]
        /\ unpack(fmt, pack(fmt, data)) = data
    BY <2>1, <2>2, UnpackBack
  <2> QED
    BY <1>2, <1>10, <2>3
<1>12. ASSUME NEW msg, SubSeq(msg, 1, 8) = h PROVE parse_header(msg) = <<mt, Now, Number(n)>>
  <2>1. parse_header(msg) = <<NameOf(msg_type_table, data[1])>> \o Tail(data)
    BY <1>1, <1>11, <1>12 DEF parse_header, HEADER_LEN
  <2> QED
    BY <1>4, <1>6, <1>8, <1>9, <2>1
<1> QED
  BY <1>11, <1>12

\* A message that is written is read as it was.
LEMMA MessageBack ==
  ASSUME NEW mt \in {"DATA", "REQ"}, NEW words \in Seq(TypedWords(mt))
  PROVE  parse_msg(format_msg(mt, Now, words)) = <<<<mt, Now, Number(Len(words))>>, words>>
<1>1. PICK n \in Nat : n = Len(words)
  BY LenProperties
<1>2. PICK h : h = format_header(mt, Now, n)
  OBVIOUS
<1>3. /\ h \in Seq(Bytes) /\ Len(h) = 8
      /\ \A msg : SubSeq(msg, 1, 8) = h => parse_header(msg) = <<mt, Now, Number(n)>>
  BY <1>2, HeaderBack
<1>4. PICK ss : ss = [k \in 1..Len(words) |-> format_word(mt, words[k])]
  OBVIOUS
<1>5. \A k \in 1..n : /\ ss[k] \in Seq(Bytes) /\ Len(ss[k]) = 16 /\ parse_word(mt, ss[k]) = words[k]
  <2> SUFFICES ASSUME NEW k \in 1..n
               PROVE  ss[k] \in Seq(Bytes) /\ Len(ss[k]) = 16 /\ parse_word(mt, ss[k]) = words[k]
    OBVIOUS
  <2>1. words[k] \in TypedWords(mt) /\ ss[k] = format_word(mt, words[k])
    BY <1>1, <1>4
  <2> QED
    BY <2>1, WordBack
<1>6. ss \in Seq(Seq(Bytes)) /\ Len(ss) = n
  BY <1>1, <1>4, <1>5
<1>7. PICK off : off = [j \in 1..(n + 1) |-> 16 * (j - 1)]
  OBVIOUS
<1>8. /\ off \in [1..(n + 1) -> Nat] /\ off[1] = 0 /\ off[n + 1] = 16 * n
      /\ \A j \in 1..n : off[j] = 16 * (j - 1) /\ off[j + 1] = 16 * j /\ off[j + 1] = off[j] + 16
  BY <1>7
<1>9. Offsets(off, ss)
  BY <1>5, <1>6, <1>8 DEF Offsets
<1>10. PICK b : b = FlattenSeq(ss)
  OBVIOUS
<1>11. b \in Seq(Bytes) /\ Len(b) = 16 * n
  <2>1. b \in Seq(Bytes) /\ Len(b) = off[Len(ss) + 1]
    BY <1>6, <1>9, <1>10, FlattenPlaces
  <2> QED
    BY <1>6, <1>8, <2>1
<1>12. PICK t : t = h \o b
  OBVIOUS
<1>13. format_msg(mt, Now, words) = t
  BY <1>1, <1>2, <1>4, <1>10, <1>12 DEF format_msg
<1>14. Len(t) = 8 + 16 * n /\ SubSeq(t, 1, 8) = h
  <2>1. Len(t) = Len(h) + Len(b)
    BY <1>3, <1>11, <1>12, ConcatProperties
  <2>2. SubSeq(t, 1, Len(h)) = h
    <3>1. 0 \in Nat /\ 0 <= 0 /\ 0 <= Len(b)
      BY <1>11
    <3> QED
      BY <1>3, <1>11, <1>12, <3>1, SubSeqConcat
  <2> QED
    BY <1>3, <1>11, <2>1, <2>2
<1>15. ASSUME NEW k \in 1..n PROVE SubSeq(t, 8 + 16 * (k - 1) + 1, 8 + 16 * k) = ss[k]
  <2>1. PICK a, c \in Nat : a = 16 * (k - 1) /\ c = 16 * k /\ a <= c /\ c <= 16 * n
    <3>1. 16 * (k - 1) \in Nat /\ 16 * k \in Nat /\ 16 * (k - 1) <= 16 * k /\ 16 * k <= 16 * n
      OBVIOUS
    <3> QED
      BY <3>1
  <2>2. SubSeq(h \o b, Len(h) + a + 1, Len(h) + c) = SubSeq(b, a + 1, c)
    <3>1. a <= c /\ c <= Len(b) /\ h \in Seq(Bytes) /\ b \in Seq(Bytes)
      BY <1>3, <1>11, <2>1
    <3> QED
      BY <3>1, SubSeqConcat
  <2>3. SubSeq(b, off[k] + 1, off[k] + Len(ss[k])) = ss[k]
    <3>1. k \in 1..Len(ss)
      BY <1>6
    <3> QED
      BY <1>6, <1>9, <1>10, <3>1, FlattenCuts
  <2>4. off[k] = a /\ off[k] + Len(ss[k]) = c
    BY <1>5, <1>8, <2>1
  <2> QED
    BY <1>3, <1>12, <2>1, <2>2, <2>3, <2>4
<1>16. (Len(t) - 8) \div 16 = n
  BY <1>14
<1>17. parse_msg(t) = <<<<mt, Now, Number(n)>>,
                        [k \in 1..n |-> parse_word(mt, SubSeq(t, 8 + 16 * (k - 1) + 1, 8 + 16 * k))]>>
  <2>1. parse_header(t) = <<mt, Now, Number(n)>> /\ <<mt, Now, Number(n)>>[1] = mt
    BY <1>3, <1>14
  <2> QED
    BY <1>16, <2>1 DEF parse_msg, HEADER_LEN, WORD_LEN
<1>18. [k \in 1..n |-> parse_word(mt, SubSeq(t, 8 + 16 * (k - 1) + 1, 8 + 16 * k))] = words
  <2>1. \A k \in 1..n : parse_word(mt, SubSeq(t, 8 + 16 * (k - 1) + 1, 8 + 16 * k)) = words[k]
    BY <1>5, <1>15
  <2>2. words = [k \in 1..n |-> words[k]]
    BY <1>1
  <2> QED
    BY <2>1, <2>2
<1> QED
  BY <1>1, <1>13, <1>17, <1>18

-----------------------------------------------------------------------------
(* Packets.                                                                *)

FilePackets == {packet(k) : k \in 1..Len(file)}

\* The words that format() writes of a packet, and the kinds that have one.
WordsFor(msg_type, p) == IF msg_type = "DATA" THEN packet_data_data(p) ELSE packet_data_req(p)
KindsFor(msg_type)    == IF msg_type = "DATA" THEN {"v2", "sync", "trigger"} ELSE {"v2"}

AllWords(msg_type, ps) == FlattenSeq([k \in 1..Len(ps) |-> WordsFor(msg_type, ps[k])])

\* What is read of a packet's word.
Back(msg_type, p) ==
  IF msg_type = "DATA" THEN p ELSE [p EXCEPT !.receipt_timestamp = p.bytes]

LEMMA PacketBack ==
  ASSUME file \in Files, NEW p \in FilePackets, NEW mt \in {"DATA", "REQ"}
  PROVE  /\ p.kind \in KindsFor(mt) =>
              \E w \in TypedWords(mt) : WordsFor(mt, p) = <<w>> /\ PacketOf(w) = <<Back(mt, p)>>
         /\ p.kind \notin KindsFor(mt) => WordsFor(mt, p) = <<>>
<1>1. PICK k \in 1..Len(file) : p = packet(k)
  BY DEF FilePackets
<1>2. k \in Nat /\ k % 2 \in Nat /\ (k % 2) % 2 = k % 2 /\ file[k] \in Kinds
  BY FileType
<1>v. \A n \in Nat : /\ <<"io_channel", n>> \in Values /\ <<"receipt", n>> \in Values
                     /\ <<"packet", n>> \in Values /\ <<"type", n>> \in Values
                     /\ <<"time", n>> \in Values /\ <<"number", n>> \in Values
  BY DEF Values, Names
<1>3. CASE file[k] \in {"data", "config"}
  <2>1. PICK a, b, c \in Values : a = <<"io_channel", k>> /\ b = <<"receipt", k>> /\ c = <<"packet", k>>
    BY <1>2, <1>v
  <2>2. p = [kind |-> "v2", io_channel |-> a, receipt_timestamp |-> b, bytes |-> c]
    BY <1>1, <1>3, <2>1, Zenon DEF packet
  <2>3. CASE mt = "DATA"
    <3>1. PICK w : w = <<"DATA", a, b, c>>
      OBVIOUS
    <3>2. w \in TypedWords(mt) /\ Len(w) = 4 /\ w[1] = "DATA" /\ w[2] = a /\ w[3] = b /\ w[4] = c
      BY <2>3, <3>1 DEF TypedWords
    <3>3. WordsFor(mt, p) = <<w>>
      BY <2>2, <2>3, <3>1 DEF WordsFor, packet_data_data
    <3>4. PacketOf(w) = <<p>>
      BY <2>2, <3>2 DEF PacketOf
    <3> QED
      BY <2>2, <2>3, <3>2, <3>3, <3>4 DEF KindsFor, Back
  <2>4. CASE mt = "REQ"
    <3>1. PICK w : w = <<"TX", a, c>>
      OBVIOUS
    <3>2. w \in TypedWords(mt) /\ Len(w) = 3 /\ w[1] = "TX" /\ w[2] = a /\ w[3] = c
      BY <2>4, <3>1 DEF TypedWords
    <3>3. WordsFor(mt, p) = <<w>>
      BY <2>2, <2>4, <3>1 DEF WordsFor, packet_data_req
    <3>4. PacketOf(w) = <<[p EXCEPT !.receipt_timestamp = p.bytes]>>
      BY <2>2, <3>2 DEF PacketOf
    <3> QED
      BY <2>2, <2>4, <3>2, <3>3, <3>4 DEF KindsFor, Back
  <2> QED
    BY <2>3, <2>4
<1>4. CASE file[k] = "sync"
  <2>1. PICK a, b, c \in Values : a = <<"type", k>> /\ b = <<"number", k % 2>> /\ c = <<"time", k>>
    BY <1>2, <1>v
  <2>2. p = [kind |-> "sync", sync_type |-> a, clk_source |-> b, timestamp |-> c]
    BY <1>1, <1>4, <2>1, Zenon DEF packet, Number
  <2>3. CASE mt = "DATA"
    <3>1. PICK w : w = <<"SYNC", a, b, c>>
      OBVIOUS
    <3>2. w \in TypedWords(mt) /\ Len(w) = 4 /\ w[1] = "SYNC" /\ w[2] = a /\ w[3] = b /\ w[4] = c
      BY <2>3, <3>1 DEF TypedWords
    <3>3. WordsFor(mt, p) = <<w>>
      BY <2>2, <2>3, <3>1 DEF WordsFor, packet_data_data
    <3>4. Number(w[3][2] % 2) = b
      BY <1>2, <2>1, <3>2 DEF Number
    <3>5. PacketOf(w) = <<p>>
      BY <2>2, <3>2, <3>4 DEF PacketOf
    <3> QED
      BY <2>2, <2>3, <3>2, <3>3, <3>5 DEF KindsFor, Back
  <2>4. CASE mt = "REQ"
    BY <2>2, <2>4 DEF KindsFor, WordsFor, packet_data_req
  <2> QED
    BY <2>3, <2>4
<1>5. CASE file[k] = "trig"
  <2>1. PICK a, b \in Values : a = <<"type", k>> /\ b = <<"time", k>>
    BY <1>2, <1>v
  <2>2. p = [kind |-> "trigger", trigger_type |-> a, timestamp |-> b]
    BY <1>1, <1>5, <2>1, Zenon DEF packet
  <2>3. CASE mt = "DATA"
    <3>1. PICK w : w = <<"TRIG", a, b>>
      OBVIOUS
    <3>2. w \in TypedWords(mt) /\ Len(w) = 3 /\ w[1] = "TRIG" /\ w[2] = a /\ w[3] = b
      BY <2>3, <3>1 DEF TypedWords
    <3>3. WordsFor(mt, p) = <<w>>
      BY <2>2, <2>3, <3>1 DEF WordsFor, packet_data_data
    <3>4. PacketOf(w) = <<p>>
      BY <2>2, <3>2 DEF PacketOf
    <3> QED
      BY <2>2, <2>3, <3>2, <3>3, <3>4 DEF KindsFor, Back
  <2>4. CASE mt = "REQ"
    BY <2>2, <2>4 DEF KindsFor, WordsFor, packet_data_req
  <2> QED
    BY <2>3, <2>4
<1>6. CASE file[k] \in {"time", "message"}
  <2>1. p.kind = "timestamp"
    BY <1>1, <1>6 DEF packet
  <2> QED
    BY <2>1 DEF KindsFor, WordsFor, packet_data_data, packet_data_req
<1> QED
  BY <1>2, <1>3, <1>4, <1>5, <1>6 DEF Kinds

LEMMA OfKindIs ==
  ASSUME NEW S, NEW ps \in Seq(S), NEW kinds, NEW q, q = OfKind(ps, kinds),
         NEW F, F = {k \in 1..Len(ps) : ps[k].kind \in kinds}
  PROVE  /\ q \in Seq(S) /\ Len(q) \in Nat /\ Len(q) = Len(InOrder(F))
         /\ \A n \in 1..Len(q) : InOrder(F)[n] \in F /\ q[n] = ps[InOrder(F)[n]] /\ q[n].kind \in kinds
<1> DEFINE s == InOrder(F)
<1>1. Len(ps) \in Nat /\ F \in SUBSET (1..Len(ps))
  BY LenProperties
<1>2. s \in Seq(F) /\ Len(s) \in Nat /\ \A m \in 1..Len(s) : s[m] \in F
  BY <1>1, InOrderIs
<1>3. q = [n \in 1..Len(s) |-> ps[s[n]]]
  BY DEF OfKind
<1> HIDE DEF s
<1>4. \A n \in 1..Len(s) : ps[s[n]] \in S /\ ps[s[n]].kind \in kinds
  BY <1>1, <1>2
<1>5. q \in Seq(S) /\ Len(q) = Len(s) /\ \A n \in 1..Len(s) : q[n] = ps[s[n]]
  BY <1>2, <1>3, <1>4
<1> QED
  BY <1>2, <1>4, <1>5 DEF s

\* The words of packets are those of the ones that have a word, in order.
LEMMA FormatWords ==
  ASSUME file \in Files, NEW mt \in {"DATA", "REQ"}, NEW ps \in Seq(FilePackets),
         NEW q, q = OfKind(ps, KindsFor(mt))
  PROVE  /\ q \in Seq(FilePackets)
         /\ AllWords(mt, ps) \in Seq(TypedWords(mt)) /\ Len(AllWords(mt, ps)) = Len(q)
         /\ \A n \in 1..Len(q) : PacketOf(AllWords(mt, ps)[n]) = <<Back(mt, q[n])>>
<1>0. PICK words : words = AllWords(mt, ps)
  OBVIOUS
<1> DEFINE F == {k \in 1..Len(ps) : ps[k].kind \in KindsFor(mt)}
           s == InOrder(F)
<1>1. /\ q \in Seq(FilePackets) /\ Len(q) \in Nat /\ Len(q) = Len(s)
      /\ \A n \in 1..Len(q) : s[n] \in F /\ q[n] = ps[s[n]] /\ q[n].kind \in KindsFor(mt)
  BY OfKindIs
<1>2. \A k \in 1..Len(ps) :
        /\ ps[k].kind \in KindsFor(mt) =>
             \E w \in TypedWords(mt) : WordsFor(mt, ps[k]) = <<w>> /\ PacketOf(w) = <<Back(mt, ps[k])>>
        /\ ps[k].kind \notin KindsFor(mt) => WordsFor(mt, ps[k]) = <<>>
  <2>1. \A k \in 1..Len(ps) : ps[k] \in FilePackets
    OBVIOUS
  <2> QED
    BY <2>1, PacketBack
<1>3. PICK ss : ss = [k \in 1..Len(ps) |-> WordsFor(mt, ps[k])]
  OBVIOUS
<1>4. Len(ps) \in Nat /\ Len(ss) = Len(ps) /\ ss \in Seq(Seq(TypedWords(mt)))
  <2>0. PICK T : T = TypedWords(mt)
    OBVIOUS
  <2>e. <<>> \in Seq(T) /\ \A w \in T : <<w>> \in Seq(T)
    OBVIOUS
  <2>1. \A k \in 1..Len(ps) : WordsFor(mt, ps[k]) \in Seq(TypedWords(mt))
    BY <1>2, <2>0, <2>e
  <2> QED
    BY <1>3, <2>1
<1>5. \A k \in 1..Len(ps) : ss[k] = WordsFor(mt, ps[k])
  BY <1>3
<1>6. F = {k \in 1..Len(ss) : ss[k] # <<>>}
  <2>1. \A w : <<w>> # <<>>
    OBVIOUS
  <2>2. \A k \in 1..Len(ps) : ps[k].kind \in KindsFor(mt) <=> ss[k] # <<>>
    BY <1>2, <1>5, <2>1
  <2> QED
    BY <1>4, <2>2
<1>7. \A k \in F : ss[k] = <<ss[k][1]>> /\ PacketOf(ss[k][1]) = <<Back(mt, ps[k])>>
  <2>1. \A w : <<w>>[1] = w
    OBVIOUS
  <2> QED
    BY <1>2, <1>5, <2>1
<1>8. words = [n \in 1..Len(s) |-> ss[s[n]][1]]
  <2> HIDE DEF F
  <2>1. FlattenSeq(ss) = [n \in 1..Len(InOrder(F)) |-> ss[InOrder(F)[n]][1]]
    <3>1. \A k \in F : ss[k] = <<ss[k][1]>>
      BY <1>7
    <3>2. ss \in Seq(Seq(TypedWords(mt)))
      BY <1>4
    <3>3. F = NonEmpty(ss)
      BY <1>6 DEF NonEmpty
    <3> QED
      BY <3>1, <3>2, <3>3, FlattenPicks
  <2> QED
    BY <1>0, <1>3, <2>1 DEF AllWords
<1>9. words \in Seq(TypedWords(mt))
  <2>1. FlattenSeq(ss) \in Seq(TypedWords(mt))
    BY <1>4, FlattenType
  <2> QED
    BY <1>0, <1>3, <2>1 DEF AllWords
<1> HIDE DEF F, s
<1>10. Len(words) = Len(q) /\ \A n \in 1..Len(q) : words[n] = ss[s[n]][1]
  <2>1. PICK g : g = [n \in 1..Len(q) |-> ss[s[n]][1]]
    OBVIOUS
  <2>2. Len(g) = Len(q) /\ \A n \in 1..Len(q) : g[n] = ss[s[n]][1]
    BY <1>1, <2>1
  <2>3. words = g
    BY <1>1, <1>8, <2>1, Zenon
  <2> QED
    BY <2>2, <2>3, Zenon
<1> QED
  BY <1>0, <1>1, <1>7, <1>9, <1>10

LEMMA TailConcat ==
  ASSUME NEW S, NEW q \in Seq(S), NEW x
  PROVE  Tail(<<x>> \o q) = q
<1>1. PICK U : U = S \cup {x}
  OBVIOUS
<1>2. q \in Seq(U) /\ <<x>> \in Seq(U) /\ Len(<<x>>) = 1 /\ Len(q) \in Nat
  BY <1>1
<1>3. PICK u : u = <<x>> \o q
  OBVIOUS
<1>4. /\ u \in Seq(U) /\ Len(u) = Len(q) + 1
      /\ \A k \in 1..Len(q) + 1 : u[k] = IF k <= 1 THEN <<x>>[k] ELSE q[k - 1]
  <2>1. /\ <<x>> \o q \in Seq(U) /\ Len(<<x>> \o q) = Len(<<x>>) + Len(q)
        /\ \A k \in 1..Len(<<x>>) + Len(q) :
             (<<x>> \o q)[k] = IF k <= Len(<<x>>) THEN <<x>>[k] ELSE q[k - Len(<<x>>)]
    BY <1>2, ConcatProperties
  <2>2. 1 + Len(q) = Len(q) + 1
    BY <1>2
  <2> QED
    BY <1>2, <1>3, <2>1, <2>2, Zenon
<1>5. u # <<>>
  BY <1>2, <1>4
<1>6. Tail(u) \in Seq(U) /\ Len(Tail(u)) = Len(u) - 1 /\ \A k \in 1..Len(Tail(u)) : Tail(u)[k] = u[k + 1]
  BY <1>4, <1>5, HeadTailProperties
<1>7. \A k \in 1..Len(q) : u[k + 1] = q[k]
  <2> SUFFICES ASSUME NEW k \in 1..Len(q) PROVE u[k + 1] = q[k]
    OBVIOUS
  <2>1. k + 1 \in 1..Len(q) + 1 /\ ~(k + 1 <= 1) /\ (k + 1) - 1 = k
    BY <1>2
  <2> QED
    BY <1>4, <2>1
<1>8. Len(Tail(u)) = Len(q)
  BY <1>2, <1>4, <1>6
<1> QED
  BY <1>2, <1>3, <1>6, <1>7, <1>8, SeqEqual

\* What parse() makes of a message of words that each are of a packet.
LEMMA ParseBack ==
  ASSUME NEW mt \in {"DATA", "REQ"}, NEW words \in Seq(TypedWords(mt)), NEW S, NEW q \in Seq(S),
         Len(words) = Len(q), \A n \in 1..Len(q) : PacketOf(words[n]) = <<q[n]>>
  PROVE  Tail(parse(format_msg(mt, Now, words))) = q
<1>1. PICK t : t = format_msg(mt, Now, words)
  OBVIOUS
<1>2. PICK parsed : parsed = parse_msg(t)
  OBVIOUS
<1>3. parsed[2] = words
  BY <1>1, <1>2, MessageBack
<1>4. PICK ss : ss = [n \in 1..Len(words) |-> PacketOf(words[n])]
  OBVIOUS
<1>5. PICK x : x = [kind |-> "timestamp", timestamp |-> parsed[1][2]]
  OBVIOUS
<1>6. parse(t) = <<x>> \o FlattenSeq(ss)
  BY <1>2, <1>3, <1>4, <1>5 DEF parse
<1>7. ss \in Seq(Seq(S)) /\ Len(ss) = Len(q) /\ \A n \in 1..Len(q) : ss[n] = <<q[n]>>
  <2>0. \A n \in 1..Len(q) : ss[n] = <<q[n]>>
    BY <1>4
  <2>e. \A y \in S : <<y>> \in Seq(S)
    OBVIOUS
  <2>q. \A n \in 1..Len(q) : q[n] \in S
    OBVIOUS
  <2>1. \A n \in 1..Len(q) : ss[n] = <<q[n]>> /\ ss[n] \in Seq(S)
    BY <2>0, <2>e, <2>q
  <2>2. Len(q) \in Nat
    OBVIOUS
  <2> QED
    BY <1>4, <2>1, <2>2
<1>8. FlattenSeq(ss) = q
  BY <1>7, FlattenSingles
<1>9. Tail(<<x>> \o q) = q
  BY TailConcat
<1> QED
  BY <1>1, <1>6, <1>8, <1>9

LEMMA ParsesBack == CardTypes => MessageParsesBack
<1> SUFFICES ASSUME CardTypes, i > 0, args.program # "MPD"
             PROVE  /\ parse_msg(Message) = <<<<"DATA", Now, Number(Len(word_lists[i]))>>, word_lists[i]>>
                    /\ Tail(parse(Message)) = Source
                    /\ Tail(parse(format(Source, "REQ", Now))) =
                         [n \in 1..Len(Request) |-> [Request[n] EXCEPT !.receipt_timestamp = Request[n].bytes]]
  BY DEF MessageParsesBack
<1>1. file \in Files /\ word_lists = hdf5ToPackets /\ i \in 0..Len(word_lists)
  BY DEF CardTypes, TypeOK, Lists
<1>2. /\ Len(msg_breaks) \in Nat /\ msg_breaks \in Seq(1..Len(file)) /\ Len(file) \in Nat
      /\ \A m \in 1..(Len(msg_breaks) - 1) : msg_breaks[m] < msg_breaks[m + 1]
  BY <1>1, BreaksType, FileType
<1>3. i \in 1..(Len(msg_breaks) - 1)
  <2>1. Len(hdf5ToPackets) = IF Len(msg_breaks) = 0 THEN 0 ELSE Len(msg_breaks) - 1
    <3>1. CASE Len(msg_breaks) = 0
      <4>1. hdf5ToPackets = <<>>
        BY <3>1 DEF hdf5ToPackets
      <4> QED
        BY <3>1, <4>1
    <3>2. CASE Len(msg_breaks) # 0
      <4>1. Len(msg_breaks) - 1 \in Nat
        BY <1>2, <3>2
      <4> QED
        BY <3>2, <4>1 DEF hdf5ToPackets
    <3> QED
      BY <3>1, <3>2
  <2> QED
    BY <1>1, <1>2, <2>1
<1>4. PICK from, to : from = msg_breaks[i] /\ to = msg_breaks[i + 1] - 1
  OBVIOUS
<1>5. from \in 1..Len(file) /\ to \in 1..Len(file) /\ to - from + 1 \in Nat
  <2>1. msg_breaks[i] \in 1..Len(file) /\ msg_breaks[i + 1] \in 1..Len(file) /\ msg_breaks[i] < msg_breaks[i + 1]
    BY <1>2, <1>3
  <2> QED
    BY <1>2, <1>4, <2>1
<1>6. PICK ps : ps = packets(from, to)
  OBVIOUS
<1>7. /\ ps \in Seq(FilePackets) /\ Len(ps) = to - from + 1
      /\ \A k \in 1..(to - from + 1) : ps[k] = packet(from + k - 1)
  <2>1. \A k \in 1..(to - from + 1) : packet(from + k - 1) \in FilePackets
    <3> SUFFICES ASSUME NEW k \in 1..(to - from + 1) PROVE packet(from + k - 1) \in FilePackets
      OBVIOUS
    <3>1. from + k - 1 \in 1..Len(file)
      BY <1>2, <1>5
    <3> QED
      BY <3>1 DEF FilePackets
  <2>2. ps = [k \in 1..(to - from + 1) |-> packet(from + k - 1)]
    BY <1>6 DEF packets
  <2> QED
    BY <1>5, <2>1, <2>2
<1>8. PICK words : words = word_lists[i]
  OBVIOUS
<1>9. words = AllWords("DATA", ps)
  <2>1. words = Words(from, to)
    BY <1>1, <1>3, <1>4, <1>8 DEF hdf5ToPackets
  <2>2. [k \in 1..(to - from + 1) |-> packet_data_data(packet(from + k - 1))] =
          [k \in 1..Len(ps) |-> WordsFor("DATA", ps[k])]
    BY <1>7 DEF WordsFor
  <2> QED
    BY <2>1, <2>2 DEF Words, AllWords
<1>10. Source = OfKind(ps, KindsFor("DATA")) /\ Request = OfKind(Source, KindsFor("REQ"))
  BY <1>4, <1>6 DEF Source, Request, KindsFor
<1>11. PICK src : src = Source
  OBVIOUS
<1>12. /\ src \in Seq(FilePackets)
       /\ words \in Seq(TypedWords("DATA")) /\ Len(words) = Len(src)
       /\ \A n \in 1..Len(src) : PacketOf(words[n]) = <<Back("DATA", src[n])>>
  <2>1. src = OfKind(ps, KindsFor("DATA")) /\ "DATA" \in {"DATA", "REQ"}
    BY <1>10, <1>11
  <2> QED
    BY <1>1, <1>7, <1>9, <2>1, FormatWords
<1>13. Message = format_msg("DATA", Now, words)
  BY <1>8 DEF Message
<1>14. parse_msg(Message) = <<<<"DATA", Now, Number(Len(words))>>, words>>
  BY <1>12, <1>13, MessageBack
<1>15. Tail(parse(Message)) = src
  <2>1. \A n \in 1..Len(src) : PacketOf(words[n]) = <<src[n]>>
    BY <1>12 DEF Back
  <2> QED
    BY <1>12, <1>13, <2>1, ParseBack
<1>16. PICK asked : asked = AllWords("REQ", src)
  OBVIOUS
<1>17. format(src, "REQ", Now) = format_msg("REQ", Now, asked)
  <2>1. [k \in 1..Len(src) |-> IF "REQ" = "DATA" THEN packet_data_data(src[k]) ELSE packet_data_req(src[k])] =
          [k \in 1..Len(src) |-> WordsFor("REQ", src[k])]
    BY DEF WordsFor
  <2> QED
    BY <1>16, <2>1 DEF format, AllWords
<1>18. PICK req : req = Request
  OBVIOUS
<1>19. /\ req \in Seq(FilePackets)
       /\ asked \in Seq(TypedWords("REQ")) /\ Len(asked) = Len(req)
       /\ \A n \in 1..Len(req) : PacketOf(asked[n]) = <<Back("REQ", req[n])>>
  <2>1. req = OfKind(src, KindsFor("REQ")) /\ "REQ" \in {"DATA", "REQ"}
    BY <1>10, <1>11, <1>18
  <2> QED
    BY <1>1, <1>12, <1>16, <2>1, FormatWords
<1>20. PICK q : q = [n \in 1..Len(req) |-> Back("REQ", req[n])]
  OBVIOUS
<1>21. PICK S : S = {Back("REQ", req[n]) : n \in 1..Len(req)}
  OBVIOUS
<1>22. q \in Seq(S) /\ Len(q) = Len(req) /\ \A n \in 1..Len(req) : q[n] = Back("REQ", req[n])
  <2>1. \A n \in 1..Len(req) : Back("REQ", req[n]) \in S
    BY <1>21
  <2>2. Len(req) \in Nat
    BY <1>19
  <2> QED
    BY <1>20, <2>1, <2>2
<1>23. Tail(parse(format_msg("REQ", Now, asked))) = q
  <2>1. Len(asked) = Len(q) /\ \A n \in 1..Len(q) : PacketOf(asked[n]) = <<q[n]>>
    BY <1>19, <1>22
  <2> QED
    BY <1>19, <1>22, <2>1, ParseBack
<1>24. q = [n \in 1..Len(req) |-> [req[n] EXCEPT !.receipt_timestamp = req[n].bytes]]
  BY <1>20 DEF Back
<1> QED
  BY <1>8, <1>11, <1>14, <1>15, <1>17, <1>18, <1>23, <1>24

\* What the emulator sends parses back, for every file, into the words and
\* the packets it was made of, at each length of a message; and a request of
\* those packets into the channels and bytes of the ones it is about.
THEOREM MessageCorrect == Spec => []MessageParsesBack
  BY InitTypes, StepTypes, ParsesBack, PTL DEF Spec

-----------------------------------------------------------------------------
(* The readout: its invariant.                                             *)

\* The units of messages that were sent.
SentUnits == (1..Len(sent)) \X Nat

ReadoutTypes ==
  /\ CardTypes /\ args.program # "MPD"
  /\ reader \in {"start", "prompt", "id", "body", "ended"} /\ closed \in BOOLEAN /\ whole \in BOOLEAN
  /\ reader = "id" => Raw
  /\ sent \in Seq(1..Len(word_lists)) /\ Len(sent) = message_count
  /\ wire \in Seq(SentUnits) /\ (~Raw => wire = <<>>)
  /\ frames \in Seq({"id", "body"} \X Seq(SentUnits))
  /\ read \in Seq(Seq(SentUnits \cup {Broken}))
  /\ messages \in Len(read)..(Len(read) + 1) /\ (reader # "ended" => messages = Len(read))

\* Where a unit can be, in the order in which it gets there: read as a word,
\* in the socket, in the connection.
Ascending(s) == \A a, b \in 1..Len(s) : a < b => Before(s[a], s[b])

WordsAscend(r) ==
  \A j, k \in 1..Len(r) : \A a \in 1..Len(r[j]), b \in 1..Len(r[k]) :
    (j < k \/ (j = k /\ a < b)) /\ Broken \notin {r[j][a], r[k][b]} => Before(r[j][a], r[k][b])

\* All that is read comes before the unit u.
ReadBefore(r, u) ==
  \A j \in 1..Len(r) : \A a \in 1..Len(r[j]) : r[j][a] # Broken => Before(r[j][a], u)

Order(r, f, w) ==
  /\ WordsAscend(r) /\ Ascending(w)
  /\ \A k \in 1..Len(f) : Ascending(f[k][2])
  /\ \A j, k \in 1..Len(f) : j < k =>
       \A a \in 1..Len(f[j][2]), b \in 1..Len(f[k][2]) : Before(f[j][2][a], f[k][2][b])
  /\ \A k \in 1..Len(f) : \A a \in 1..Len(f[k][2]) :
       ReadBefore(r, f[k][2][a]) /\ \A b \in 1..Len(w) : Before(f[k][2][a], w[b])
  /\ \A b \in 1..Len(w) : ReadBefore(r, w[b])

\* What is in the connection is complete, to the end of the message sent
\* last, where last has the number of each message's last unit.
Lasts == [m \in 1..Len(sent) |-> 2 * Len(word_lists[sent[m]])]
Follows(last, u, v) == v = <<u[1], u[2] + 1>> \/ (u[2] = last[u[1]] /\ v = <<u[1] + 1, 0>>)
Complete(last, w) ==
  w # <<>> =>
    /\ \A k \in 1..(Len(w) - 1) : Follows(last, w[k], w[k + 1])
    /\ w[Len(w)] = <<Len(last), last[Len(last)]>>
    /\ \A m \in (w[1][1] + 1)..Len(last) : \E k \in 1..Len(w) : w[k] = <<m, 0>>
WireInv == Complete(Lasts, wire)

\* A STREAM socket's messages are pairs, and the readout takes the first of a
\* pair for the routing id.
IdTaken == IF reader = "body" THEN 1 ELSE 0
Pairs(f, t) ==
  /\ (Len(f) + t) % 2 = 0
  /\ \A k \in 1..Len(f) : IF (k + t) % 2 = 1 THEN f[k] = <<"id", <<>>>> ELSE f[k][1] = "body"
PairsInv == Raw /\ ~Ended => Pairs(frames, IdTaken)

\* What is published has no ids.
PublishedInv == ~Raw => \A k \in 1..Len(frames) : frames[k][1] = "body"

\* The last message that the connection has nothing of.
Ahead(w, n) == IF w = <<>> THEN n ELSE w[1][1] - 1
Delivered   == Ahead(wire, Len(sent))

\* The socket has each message from lo to hi, and else nothing but notices.
Holds(units, f, lo, hi) ==
  /\ \A k \in 1..Len(f) : f[k][2] = <<>> \/ \E m \in lo..hi : f[k][2] = units[m]
  /\ \A m \in lo..hi : \E k \in 1..Len(f) : f[k][2] = units[m]

\* While each chunk is a message, with d messages sent before the readout was
\* there.
AllUnits == [m \in 1..Len(sent) |-> UnitsOf(m)]
WholeFor(d) ==
  /\ Raw => d = 0
  /\ d + Len(read) <= Len(sent)
  /\ \A k \in 1..Len(read) : read[k] = WordsOf(d + k)
  /\ wire # <<>> => IsHeader(wire[1])
  /\ ~Ended =>
       /\ d + Len(read) <= Delivered
       /\ ~Raw /\ ~listening => d = Len(sent) /\ frames = <<>>
       /\ ~Raw => \A k \in 1..Len(frames) : frames[k][2] # <<>>
       /\ Holds(AllUnits, frames, d + Len(read) + 1, Delivered)
WholeInv == whole => messages = Len(read) /\ \E d \in 0..Len(sent) : WholeFor(d)

OrderInv == Order(read, frames, wire)

ReadoutInv == ReadoutTypes /\ OrderInv /\ WireInv /\ PairsInv /\ PublishedInv /\ WholeInv

-----------------------------------------------------------------------------
(* Order, for every content of socket and connection.                      *)

\* The parts of Order.
InFrames(f)     == \A k \in 1..Len(f) : Ascending(f[k][2])
AcrossFrames(f) ==
  \A j, k \in 1..Len(f) : j < k =>
    \A a \in 1..Len(f[j][2]), b \in 1..Len(f[k][2]) : Before(f[j][2][a], f[k][2][b])
ReadFrames(r, f) == \A k \in 1..Len(f) : \A a \in 1..Len(f[k][2]) : ReadBefore(r, f[k][2][a])
FramesWire(f, w) ==
  \A k \in 1..Len(f) : \A a \in 1..Len(f[k][2]) : \A b \in 1..Len(w) : Before(f[k][2][a], w[b])
ReadWire(r, w) == \A b \in 1..Len(w) : ReadBefore(r, w[b])

LEMMA OrderParts ==
  ASSUME NEW r, NEW f, NEW w
  PROVE  Order(r, f, w) <=> /\ WordsAscend(r) /\ Ascending(w) /\ InFrames(f) /\ AcrossFrames(f)
                            /\ ReadFrames(r, f) /\ FramesWire(f, w) /\ ReadWire(r, w)
  BY DEF Order, InFrames, AcrossFrames, ReadFrames, FramesWire, ReadWire

\* More is written to the connection.
LEMMA OrderWrites ==
  ASSUME NEW S, NEW r, NEW f, NEW w \in Seq(S), NEW u \in Seq(S), Order(r, f, w), Ascending(u),
         \A a \in 1..Len(w), b \in 1..Len(u) : Before(w[a], u[b]),
         FramesWire(f, u), ReadWire(r, u)
  PROVE  Order(r, f, w \o u)
<1> DEFINE v == w \o u
<1>1. /\ Len(w) \in Nat /\ Len(u) \in Nat /\ Len(v) = Len(w) + Len(u)
      /\ \A a \in 1..Len(w) : v[a] = w[a]
      /\ \A a \in 1..Len(v) : a > Len(w) => a - Len(w) \in 1..Len(u) /\ v[a] = u[a - Len(w)]
  OBVIOUS
<1> HIDE DEF v
<1>2. \A a \in 1..Len(v) : a \in 1..Len(w) \/ a > Len(w)
  BY <1>1
<1>3. Ascending(w) /\ FramesWire(f, w) /\ ReadWire(r, w)
  BY OrderParts
<1>4. Ascending(v)
  <2> SUFFICES ASSUME NEW a \in 1..Len(v), NEW b \in 1..Len(v), a < b PROVE Before(v[a], v[b])
    BY DEF Ascending
  <2>1. CASE a \in 1..Len(w) /\ b \in 1..Len(w)
    BY <1>1, <1>3, <2>1 DEF Ascending
  <2>2. CASE a \in 1..Len(w) /\ b > Len(w)
    BY <1>1, <2>2
  <2>3. CASE a > Len(w) /\ b > Len(w)
    <3>1. a - Len(w) < b - Len(w)
      BY <1>1
    <3> QED
      BY <1>1, <2>3, <3>1 DEF Ascending
  <2>4. ~(a > Len(w) /\ b \in 1..Len(w))
    BY <1>1
  <2> QED
    BY <1>2, <2>1, <2>2, <2>3, <2>4
<1>5. FramesWire(f, v)
  BY <1>1, <1>2, <1>3 DEF FramesWire
<1>6. ReadWire(r, v)
  BY <1>1, <1>2, <1>3 DEF ReadWire
<1> QED
  BY <1>4, <1>5, <1>6, OrderParts DEF v

\* The beginning of what is in the connection becomes a message of the socket.
LEMMA OrderDelivers ==
  ASSUME NEW S, NEW T, NEW r, NEW f \in Seq(T), NEW w, NEW c, NEW v, NEW kind, Order(r, f, w),
         Len(c) \in Nat, Len(v) \in Nat, Len(w) = Len(c) + Len(v),
         \A a \in 1..Len(c) : c[a] = w[a],
         \A b \in 1..Len(v) : v[b] = w[Len(c) + b],
         <<kind, c>> \in T
  PROVE  Order(r, Append(f, <<kind, c>>), v)
<1> DEFINE g == Append(f, <<kind, c>>)
<1>1. /\ Len(f) \in Nat /\ Len(g) = Len(f) + 1 /\ g[Len(f) + 1][2] = c
      /\ \A k \in 1..Len(f) : g[k] = f[k]
  BY AppendProperties
<1> HIDE DEF g
<1>2. \A k \in 1..Len(g) : k \in 1..Len(f) \/ (k = Len(f) + 1 /\ g[k][2] = c)
  BY <1>1
<1>3. \A a \in 1..Len(c) : a \in 1..Len(w)
  OBVIOUS
<1>4. \A b \in 1..Len(v) : Len(c) + b \in 1..Len(w)
  OBVIOUS
<1>5. /\ WordsAscend(r) /\ Ascending(w) /\ InFrames(f) /\ AcrossFrames(f) /\ ReadFrames(r, f)
      /\ FramesWire(f, w) /\ ReadWire(r, w)
  BY OrderParts
<1>6. Ascending(c)
  BY <1>3, <1>5 DEF Ascending
<1>7. Ascending(v)
  <2>1. \A a, b \in 1..Len(v) : a < b => Len(c) + a < Len(c) + b
    OBVIOUS
  <2> QED
    BY <1>4, <1>5, <2>1 DEF Ascending
<1>8. InFrames(g)
  BY <1>1, <1>2, <1>5, <1>6 DEF InFrames
<1>9. AcrossFrames(g)
  <2> SUFFICES ASSUME NEW j \in 1..Len(g), NEW k \in 1..Len(g), j < k,
                      NEW a \in 1..Len(g[j][2]), NEW b \in 1..Len(g[k][2])
               PROVE  Before(g[j][2][a], g[k][2][b])
    BY DEF AcrossFrames
  <2>1. j \in 1..Len(f) /\ g[j] = f[j]
    <3>1. j \in Nat /\ k \in Nat /\ k <= Len(f) + 1 /\ j >= 1
      BY <1>1
    <3>2. j \in 1..Len(f)
      BY <1>1, <3>1
    <3> QED
      BY <1>1, <3>2
  <2>2. CASE k \in 1..Len(f)
    BY <1>1, <1>5, <2>1, <2>2 DEF AcrossFrames
  <2>3. CASE k = Len(f) + 1 /\ g[k][2] = c
    BY <1>3, <1>5, <2>1, <2>3 DEF FramesWire
  <2> QED
    BY <1>2, <2>2, <2>3
<1>10. ReadFrames(r, g)
  BY <1>1, <1>2, <1>3, <1>5 DEF ReadFrames, ReadWire
<1>11. FramesWire(g, v)
  <2> SUFFICES ASSUME NEW k \in 1..Len(g), NEW a \in 1..Len(g[k][2]), NEW b \in 1..Len(v)
               PROVE  Before(g[k][2][a], v[b])
    BY DEF FramesWire
  <2>1. CASE k \in 1..Len(f)
    BY <1>1, <1>4, <1>5, <2>1 DEF FramesWire
  <2>2. CASE k = Len(f) + 1 /\ g[k][2] = c
    <3>1. a \in 1..Len(c) /\ a < Len(c) + b
      BY <2>2
    <3> QED
      BY <1>3, <1>4, <1>5, <2>2, <3>1 DEF Ascending
  <2> QED
    BY <1>2, <2>1, <2>2
<1>12. ReadWire(r, v)
  BY <1>4, <1>5 DEF ReadWire
<1> QED
  BY <1>5, <1>7, <1>8, <1>9, <1>10, <1>11, <1>12, OrderParts DEF g

\* An empty message says nothing.
LEMMA OrderTells ==
  ASSUME NEW T, NEW r, NEW f \in Seq(T), NEW w, NEW kind, Len(w) \in Nat, Order(r, f, w),
         <<kind, <<>>>> \in T
  PROVE  Order(r, Append(f, <<kind, <<>>>>), w)
<1>1. /\ Len(<<>>) = 0 /\ Len(w) = Len(<<>>) + Len(w)
      /\ \A b \in 1..Len(w) : w[b] = w[Len(<<>>) + b]
      /\ \A a \in 1..Len(<<>>) : <<>>[a] = w[a]
  OBVIOUS
<1> QED
  BY <1>1, OrderDelivers

\* A message leaves the socket,
LEMMA OrderDrops ==
  ASSUME NEW T, NEW r, NEW f \in Seq(T), NEW w, f # <<>>, Order(r, f, w)
  PROVE  Order(r, Tail(f), w)
<1> DEFINE g == Tail(f)
<1>1. /\ Len(g) \in Nat /\ Len(f) = Len(g) + 1
      /\ \A k \in 1..Len(g) : g[k] = f[k + 1] /\ k + 1 \in 1..Len(f)
  OBVIOUS
<1> HIDE DEF g
<1>2. \A j, k \in 1..Len(g) : j < k => j + 1 < k + 1
  OBVIOUS
<1>3. InFrames(g) /\ AcrossFrames(g) /\ ReadFrames(r, g) /\ FramesWire(g, w)
  <2>1. InFrames(f) /\ AcrossFrames(f) /\ ReadFrames(r, f) /\ FramesWire(f, w)
    BY OrderParts
  <2>2. InFrames(g)
    BY <1>1, <2>1 DEF InFrames
  <2>3. AcrossFrames(g)
    BY <1>1, <1>2, <2>1 DEF AcrossFrames
  <2>4. ReadFrames(r, g)
    BY <1>1, <2>1 DEF ReadFrames
  <2>5. FramesWire(g, w)
    BY <1>1, <2>1 DEF FramesWire
  <2> QED
    BY <2>2, <2>3, <2>4, <2>5
<1> QED
  BY <1>3, OrderParts DEF g

\* and is read: each word is broken or begins with a unit of its own.
LEMMA OrderReads ==
  ASSUME NEW S, NEW T, NEW r \in Seq(S), NEW f \in Seq(T), NEW w, f # <<>>, Order(r, f, w),
         NEW words \in S, Len(words) \in Nat, Len(Head(f)[2]) \in Nat,
         \A a \in 1..Len(words) :
           words[a] # Broken => 2 * a \in 1..Len(Head(f)[2]) /\ words[a] = Head(f)[2][2 * a]
  PROVE  Order(Append(r, words), Tail(f), w)
<1> DEFINE c == Head(f)[2]
           g == Tail(f)
           q == Append(r, words)
<1>1. /\ Len(g) \in Nat /\ Len(f) = Len(g) + 1 /\ c = f[1][2] /\ 1 \in 1..Len(f)
      /\ \A k \in 1..Len(g) : g[k] = f[k + 1] /\ k + 1 \in 1..Len(f) /\ 1 < k + 1
  OBVIOUS
<1>2. /\ Len(r) \in Nat /\ Len(q) = Len(r) + 1 /\ q[Len(r) + 1] = words
      /\ \A k \in 1..Len(r) : q[k] = r[k]
  BY AppendProperties
<1>3. \A a \in 1..Len(words) : words[a] # Broken => 2 * a \in 1..Len(c) /\ words[a] = c[2 * a]
  OBVIOUS
<1>4. Order(r, g, w)
  BY OrderDrops
<1> HIDE DEF c, g, q
<1>5. \A k \in 1..Len(q) : k \in 1..Len(r) \/ (k = Len(r) + 1 /\ q[k] = words)
  BY <1>2
<1>6. /\ WordsAscend(r) /\ InFrames(f) /\ AcrossFrames(f) /\ ReadFrames(r, f) /\ FramesWire(f, w)
      /\ ReadWire(r, w)
  BY OrderParts
<1>7. WordsAscend(q)
  <2> SUFFICES ASSUME NEW j \in 1..Len(q), NEW k \in 1..Len(q),
                      NEW a \in 1..Len(q[j]), NEW b \in 1..Len(q[k]),
                      j < k \/ (j = k /\ a < b), q[j][a] # Broken, q[k][b] # Broken
               PROVE  Before(q[j][a], q[k][b])
    BY DEF WordsAscend
  <2>1. CASE k \in 1..Len(r)
    <3>1. j \in 1..Len(r)
      BY <1>2, <2>1
    <3> QED
      BY <1>2, <1>6, <2>1, <3>1 DEF WordsAscend
  <2>2. CASE k = Len(r) + 1 /\ q[k] = words
    <3>1. b \in 1..Len(words) /\ 2 * b \in 1..Len(c) /\ q[k][b] = c[2 * b]
      BY <1>3, <2>2
    <3>2. CASE j \in 1..Len(r)
      <4>1. ReadBefore(r, c[2 * b])
        BY <1>1, <1>6, <3>1 DEF ReadFrames
      <4> QED
        BY <1>2, <3>1, <3>2, <4>1 DEF ReadBefore
    <3>3. CASE j = Len(r) + 1 /\ q[j] = words
      <4>1. a \in 1..Len(words) /\ 2 * a \in 1..Len(c) /\ q[j][a] = c[2 * a] /\ a < b
        BY <1>3, <1>2, <2>2, <3>3
      <4>2. 2 * a < 2 * b
        BY <4>1
      <4>3. Ascending(c)
        BY <1>1, <1>6 DEF InFrames
      <4> QED
        BY <3>1, <4>1, <4>2, <4>3 DEF Ascending
    <3> QED
      BY <1>5, <3>2, <3>3
  <2> QED
    BY <1>5, <2>1, <2>2
<1>8. ASSUME NEW u, ReadBefore(r, u), \A a \in 1..Len(c) : Before(c[a], u)
      PROVE  ReadBefore(q, u)
  <2> SUFFICES ASSUME NEW j \in 1..Len(q), NEW a \in 1..Len(q[j]), q[j][a] # Broken
               PROVE  Before(q[j][a], u)
    BY DEF ReadBefore
  <2>1. CASE j \in 1..Len(r)
    BY <1>2, <1>8, <2>1 DEF ReadBefore
  <2>2. CASE j = Len(r) + 1 /\ q[j] = words
    BY <1>3, <1>8, <2>2
  <2> QED
    BY <1>5, <2>1, <2>2
<1>9. ReadFrames(q, g)
  <2> SUFFICES ASSUME NEW k \in 1..Len(g), NEW b \in 1..Len(g[k][2])
               PROVE  ReadBefore(q, g[k][2][b])
    BY DEF ReadFrames
  <2>1. ReadBefore(r, g[k][2][b])
    BY <1>4, OrderParts DEF ReadFrames
  <2>2. \A a \in 1..Len(c) : Before(c[a], g[k][2][b])
    BY <1>1, <1>6 DEF AcrossFrames
  <2> QED
    BY <1>8, <2>1, <2>2
<1>10. ReadWire(q, w)
  <2> SUFFICES ASSUME NEW b \in 1..Len(w) PROVE ReadBefore(q, w[b])
    BY DEF ReadWire
  <2>1. ReadBefore(r, w[b]) /\ \A a \in 1..Len(c) : Before(c[a], w[b])
    BY <1>1, <1>6 DEF ReadWire, FramesWire
  <2> QED
    BY <1>8, <2>1
<1> QED
  BY <1>4, <1>7, <1>9, <1>10, OrderParts DEF g, q

-----------------------------------------------------------------------------
(* Messages, their units, and what parse() makes of a chunk.               *)

LEMMA WordListsType ==
  ASSUME CardTypes, args.program # "MPD"
  PROVE  /\ word_lists \in Seq(Seq(FileWords)) /\ Len(word_lists) \in Nat
         /\ \A w \in FileWords : w[1] \in {"DATA", "TRIG", "SYNC"}
<1>1. word_lists = hdf5ToPackets /\ file \in Files
  BY DEF CardTypes, TypeOK, Lists
<1>2. \A w \in FileWords : w[1] \in {"DATA", "TRIG", "SYNC"}
  BY <1>1, PacketWords DEF FileWords
<1> QED
  BY <1>1, <1>2, HdfType

LEMMA SentType ==
  ASSUME ReadoutTypes
  PROVE  /\ Len(sent) \in Nat /\ Len(wire) \in Nat /\ Len(frames) \in Nat /\ Len(read) \in Nat
         /\ \A m \in 1..Len(sent) : /\ m \in Nat /\ sent[m] \in 1..Len(word_lists)
                                    /\ word_lists[sent[m]] \in Seq(FileWords)
                                    /\ Len(word_lists[sent[m]]) \in Nat
<1>1. Len(sent) \in Nat /\ Len(wire) \in Nat /\ Len(frames) \in Nat /\ Len(read) \in Nat
  BY DEF ReadoutTypes
<1>2. \A m \in 1..Len(sent) : m \in Nat /\ sent[m] \in 1..Len(word_lists)
  BY <1>1 DEF ReadoutTypes
<1>3. word_lists \in Seq(Seq(FileWords))
  BY WordListsType DEF ReadoutTypes
<1>4. \A l \in 1..Len(word_lists) : word_lists[l] \in Seq(FileWords)
  BY <1>3
<1> QED
  BY <1>1, <1>2, <1>4

LEMMA UnitsType ==
  ASSUME ReadoutTypes, NEW m \in 1..Len(sent)
  PROVE  /\ UnitsOf(m) \in Seq(SentUnits)
         /\ Len(UnitsOf(m)) = 1 + 2 * Len(word_lists[sent[m]])
         /\ \A k \in 1..Len(UnitsOf(m)) : UnitsOf(m)[k] = <<m, k - 1>>
         /\ UnitsOf(m)[1] = <<m, 0>> /\ UnitsOf(m) # <<>>
<1> DEFINE L == Len(word_lists[sent[m]])
           u == UnitsOf(m)
<1>1. L \in Nat /\ m \in Nat
  BY SentType
<1>2. u = [j \in 1..(1 + 2 * L) |-> <<m, j - 1>>]
  BY DEF UnitsOf, Units
<1> HIDE DEF L, u
<1>3. \A j \in 1..(1 + 2 * L) : <<m, j - 1>> \in SentUnits
  BY <1>1 DEF SentUnits
<1>4. 1 + 2 * L \in Nat /\ 1 \in 1..(1 + 2 * L)
  BY <1>1
<1>5. u \in Seq(SentUnits) /\ Len(u) = 1 + 2 * L
  BY <1>2, <1>3, <1>4
<1>6. \A k \in 1..(1 + 2 * L) : u[k] = <<m, k - 1>>
  BY <1>2
<1>7. u[1] = <<m, 0>> /\ u # <<>>
  BY <1>4, <1>5, <1>6
<1> QED
  BY <1>5, <1>6, <1>7 DEF L, u

\* Odd numbers and even ones.
LEMMA Halves ==
  ASSUME NEW n \in Nat
  PROVE  /\ (1 + 2 * n) % 2 = 1 /\ ((1 + 2 * n) - 1) \div 2 = n
         /\ n % 2 = 1 => (n - 1) \div 2 \in Nat /\ 2 * ((n - 1) \div 2) + 1 = n
         /\ n % 2 = 0 => n \div 2 \in Nat /\ 2 * (n \div 2) = n /\ (n # 0 => (n - 1) % 2 = 1)
         /\ n # 0 => (2 * n - 1) % 2 = 1
  OBVIOUS

\* A chunk that is not refused gives words that begin with units of it.
LEMMA ParsedType ==
  ASSUME NEW S, NEW chunk \in Seq(S), NEW result \in Parsed(chunk), ~result.raised
  PROVE  /\ result.words \in Seq(S \cup {Broken}) /\ Len(result.words) \in Nat
         /\ Len(result.words) = (Len(chunk) - 1) \div 2
         /\ \A a \in 1..Len(result.words) :
              /\ 2 * a \in 1..Len(chunk)
              /\ result.words[a] =
                   IF BeginsWord(chunk[2 * a])
                      /\ chunk[2 * a + 1] = <<chunk[2 * a][1], chunk[2 * a][2] + 1>>
                     THEN chunk[2 * a] ELSE Broken
<1> DEFINE word(k) == IF BeginsWord(chunk[k]) /\ chunk[k + 1] = <<chunk[k][1], chunk[k][2] + 1>>
                        THEN chunk[k] ELSE Broken
           n == (Len(chunk) - 1) \div 2
<1>1. result = [raised |-> FALSE, words |-> [w \in 1..n |-> word(2 * w)]] /\ Len(chunk) % 2 = 1
  <2>1. result \in {[raised |-> TRUE], [raised |-> FALSE, words |-> [w \in 1..n |-> word(2 * w)]]}
    BY DEF Parsed
  <2>2. result.raised \/ Len(chunk) % 2 = 1
    BY DEF Parsed
  <2> QED
    BY <2>1, <2>2
<1>2. result.words = [w \in 1..n |-> word(2 * w)]
  BY <1>1
<1>3. Len(chunk) \in Nat
  OBVIOUS
<1>4. n \in Nat /\ 2 * n + 1 = Len(chunk)
  BY <1>1, <1>3, Halves
<1>5. \A a \in 1..n : 2 * a \in 1..Len(chunk)
  BY <1>4
<1>6. \A a \in 1..n : word(2 * a) \in S \cup {Broken}
  BY <1>5
<1> HIDE DEF word, n
<1>7. result.words \in Seq(S \cup {Broken}) /\ Len(result.words) = n
  BY <1>2, <1>4, <1>6
<1> QED
  BY <1>2, <1>4, <1>5, <1>7 DEF word, n

\* A whole message is never refused, and gives its words.
LEMMA ParsesWhole ==
  ASSUME ReadoutTypes, NEW m \in 1..Len(sent), NEW result \in Parsed(UnitsOf(m))
  PROVE  ~result.raised /\ result.words = WordsOf(m)
<1> DEFINE L == Len(word_lists[sent[m]])
           u == UnitsOf(m)
<1>1. L \in Nat /\ m \in Nat /\ word_lists[sent[m]] \in Seq(FileWords)
  BY SentType
<1>2. /\ u \in Seq(SentUnits) /\ Len(u) = 1 + 2 * L
      /\ \A k \in 1..Len(u) : u[k] = <<m, k - 1>>
  BY UnitsType
<1>3. \A w \in FileWords : w[1] \in {"DATA", "TRIG", "SYNC"}
  BY WordListsType DEF ReadoutTypes
<1> HIDE DEF L, u
<1>4. ASSUME NEW k \in 2..Len(u), k % 2 = 0
      PROVE  Letters(u[k]) \subseteq {"D", "T", "S"}
  <2>0. k \in Nat /\ k # 0 /\ k <= 1 + 2 * L
    BY <1>1, <1>2
  <2>1. k \in 1..Len(u) /\ k - 1 \in Nat /\ (k - 1) % 2 = 1 /\ k - 1 # 0
    BY <1>2, <1>4, <2>0, Halves
  <2>2. k \div 2 \in 1..L
    <3>1. k \div 2 \in Nat /\ 2 * (k \div 2) = k
      BY <1>4, <2>0, Halves
    <3> QED
      BY <1>1, <2>0, <3>1
  <2>3. u[k] = <<m, k - 1>> /\ u[k][1] = m /\ u[k][2] = k - 1
    BY <1>2, <2>1
  <2>4. WordType(u[k]) = word_lists[sent[m]][k \div 2][1]
    <3>1. (k - 1) + 1 = k
      OBVIOUS
    <3> QED
      BY <2>3, <3>1 DEF WordType
  <2>5. WordType(u[k]) \in {"DATA", "TRIG", "SYNC"}
    BY <1>1, <1>3, <2>2, <2>4 DEF L
  <2>6. ~IsHeader(u[k]) /\ BeginsWord(u[k])
    BY <2>1, <2>3 DEF IsHeader, BeginsWord
  <2>7. Letters(u[k]) = {word_type_table.DATA[WordType(u[k])]}
    BY <2>6 DEF Letters
  <2> QED
    BY <2>5, <2>7 DEF word_type_table
<1>5. Letters(u[1]) \subseteq {msg_type_table.DATA}
  <2>1. u[1][2] = 0
    BY <1>1, <1>2
  <2>2. IsHeader(u[1])
    BY <2>1 DEF IsHeader
  <2>3. ~BeginsWord(u[1])
    BY <2>1 DEF BeginsWord
  <2>4. Letters(u[1]) = {msg_type_table.DATA}
    BY <2>2, <2>3 DEF Letters
  <2> QED
    BY <2>4
<1>6. Len(u) % 2 = 1
  BY <1>1, <1>2, Halves
<1>7. ~result.raised
  <2> DEFINE places == {1} \cup {k \in 2..Len(u) : k % 2 = 0}
             known(k) == IF k = 1 THEN {msg_type_table.DATA} ELSE {"D", "T", "S"}
             must == Len(u) % 2 = 1 /\ \A k \in places : Letters(u[k]) \subseteq known(k)
  <2>1. must
    BY <1>4, <1>5, <1>6
  <2>2. result.raised => ~must
    BY DEF Parsed, u
  <2> QED
    BY <2>1, <2>2
<1>8. /\ Len(result.words) = (Len(u) - 1) \div 2 /\ result.words \in Seq(SentUnits \cup {Broken})
      /\ \A a \in 1..Len(result.words) :
              /\ 2 * a \in 1..Len(u)
              /\ result.words[a] =
                   IF BeginsWord(u[2 * a]) /\ u[2 * a + 1] = <<u[2 * a][1], u[2 * a][2] + 1>>
                     THEN u[2 * a] ELSE Broken
  BY <1>2, <1>7, ParsedType DEF u
<1>9. (Len(u) - 1) \div 2 = L
  BY <1>1, <1>2, Halves
<1>10. ASSUME NEW a \in 1..L PROVE result.words[a] = <<m, 2 * a - 1>>
  <2>1. 2 * a \in 1..Len(u) /\ 2 * a + 1 \in 1..Len(u) /\ (2 * a - 1) % 2 = 1
        /\ (2 * a + 1) - 1 = (2 * a - 1) + 1
    BY <1>1, <1>2, Halves
  <2>2. u[2 * a] = <<m, 2 * a - 1>> /\ u[2 * a + 1] = <<m, (2 * a - 1) + 1>>
    BY <1>2, <2>1
  <2>3. BeginsWord(u[2 * a])
    BY <2>1, <2>2 DEF BeginsWord
  <2>4. u[2 * a + 1] = <<u[2 * a][1], u[2 * a][2] + 1>>
    BY <2>2
  <2>5. a \in 1..Len(result.words)
    BY <1>8, <1>9
  <2>6. result.words[a] = u[2 * a]
    BY <1>8, <2>3, <2>4, <2>5
  <2> QED
    BY <2>2, <2>6
<1>11. result.words = [w \in 1..L |-> result.words[w]]
  BY <1>8, <1>9
<1> QED
  BY <1>7, <1>10, <1>11 DEF WordsOf, L

-----------------------------------------------------------------------------
(* A chunk that is one message.                                            *)

LEMMA ChunkIsMessage ==
  ASSUME ReadoutTypes, WireInv, NEW n \in 1..Len(wire), IsHeader(wire[1]),
         \A k \in 2..n : ~IsHeader(wire[k]), n = Len(wire) \/ IsHeader(wire[n + 1])
  PROVE  LET m == wire[1][1]
         IN /\ m \in 1..Len(sent) /\ SubSeq(wire, 1, n) = UnitsOf(m)
            /\ IF n = Len(wire) THEN m = Len(sent) ELSE wire[n + 1] = <<m + 1, 0>>
<1> DEFINE m == wire[1][1]
           T == {k \in Nat : k + 1 <= n => wire[k + 1] = <<m, k>>}
<1>1. wire \in Seq(SentUnits) /\ Len(wire) \in Nat /\ wire # <<>> /\ n \in Nat
  BY SentType DEF ReadoutTypes
<1>2. \A k \in 1..Len(wire) : wire[k] \in (1..Len(sent)) \X Nat
  BY <1>1 DEF SentUnits
<1>3. wire[1] = <<m, 0>> /\ m \in 1..Len(sent)
  BY <1>1, <1>2 DEF IsHeader
<1>0. /\ Len(sent) \in Nat /\ Len(Lasts) = Len(sent)
      /\ \A j \in 1..Len(sent) : Lasts[j] = 2 * Len(word_lists[sent[j]])
  BY SentType DEF Lasts
<1>4. /\ \A k \in 1..(Len(wire) - 1) : Follows(Lasts, wire[k], wire[k + 1])
      /\ wire[Len(wire)] = <<Len(sent), Lasts[Len(sent)]>>
  BY <1>0, <1>1 DEF WireInv, Complete
<1> HIDE DEF m
<1>5. 0 \in T
  BY <1>3
<1>6. ASSUME NEW k \in Nat, k \in T PROVE k + 1 \in T
  <2> SUFFICES ASSUME k + 2 <= n PROVE wire[k + 2] = <<m, k + 1>>
    OBVIOUS
  <2>1. k + 1 \in 1..(Len(wire) - 1) /\ (k + 1) + 1 = k + 2 /\ k + 1 <= n /\ k + 2 \in 2..n
    BY <1>1
  <2>2. wire[k + 1] = <<m, k>>
    BY <1>6, <2>1
  <2>3. Follows(Lasts, wire[k + 1], wire[k + 2])
    BY <1>4, <2>1
  <2>4. wire[k + 2][2] # 0
    BY <2>1 DEF IsHeader
  <2> QED
    BY <2>2, <2>3, <2>4 DEF Follows
<1> HIDE DEF T
<1>7. ASSUME NEW k \in 1..n PROVE wire[k] = <<m, k - 1>>
  <2>1. k - 1 \in Nat /\ (k - 1) + 1 = k
    OBVIOUS
  <2>2. k - 1 \in T
    BY <1>5, <1>6, <2>1, Induction
  <2> QED
    BY <2>1, <2>2 DEF T
<1>8. wire[n] = <<m, n - 1>>
  BY <1>1, <1>7
<1>9. wire[n][2] = Lasts[m] /\ IF n = Len(wire) THEN m = Len(sent) ELSE wire[n + 1] = <<m + 1, 0>>
  <2>1. CASE n = Len(wire)
    <3>1. <<m, n - 1>> = <<Len(sent), Lasts[Len(sent)]>>
      BY <1>4, <1>8, <2>1
    <3>2. m = Len(sent) /\ n - 1 = Lasts[Len(sent)]
      BY <3>1
    <3> QED
      BY <1>8, <2>1, <3>2
  <2>2. CASE n # Len(wire)
    <3>1. n \in 1..(Len(wire) - 1) /\ n + 1 \in 1..Len(wire)
      BY <1>1, <2>2
    <3>2. Follows(Lasts, wire[n], wire[n + 1]) /\ wire[n + 1][2] = 0
      BY <1>4, <2>2, <3>1 DEF IsHeader
    <3>3. wire[n][1] = m /\ wire[n][2] = n - 1 /\ (n - 1) + 1 # 0
      BY <1>1, <1>8
    <3>4. wire[n + 1] # <<wire[n][1], wire[n][2] + 1>>
      BY <3>2, <3>3
    <3> QED
      BY <2>2, <3>2, <3>3, <3>4 DEF Follows
  <2> QED
    BY <2>1, <2>2
<1>10. n = 1 + 2 * Len(word_lists[sent[m]])
  <2>1. Len(word_lists[sent[m]]) \in Nat
    BY <1>3, SentType
  <2>2. n - 1 = 2 * Len(word_lists[sent[m]])
    <3>1. wire[n][2] = n - 1
      BY <1>8
    <3>2. Lasts[m] = 2 * Len(word_lists[sent[m]])
      BY <1>0, <1>3
    <3> QED
      BY <1>9, <3>1, <3>2
  <2> QED
    BY <1>1, <2>1, <2>2
<1>11. SubSeq(wire, 1, n) = UnitsOf(m)
  <2>1. SubSeq(wire, 1, n) = [k \in 1..n |-> wire[k]]
    BY <1>1
  <2>2. UnitsOf(m) = [k \in 1..n |-> <<m, k - 1>>]
    BY <1>10 DEF UnitsOf, Units
  <2> QED
    BY <1>7, <2>1, <2>2
<1> QED
  BY <1>3, <1>9, <1>11 DEF m

-----------------------------------------------------------------------------
(* The steps, by what they do to socket, connection and readout.           *)

Delivers == \E n \in 1..Len(wire) : Deliver(n)
Tells    == ConnectionIsMade \/ ConnectionIsClosed
Drops    == ReaderRecvId \/ RecvEmpty
Reads    == RecvMessage \/ RecvPublished
Quiet    == CardGoesOn \/ UserStarts \/ Attach \/ Bind \/ Subscribe \/ EnterPressed
            \/ ReaderIsStopped \/ UNCHANGED all

LEMMA Steps == [ReadoutNext]_all => CardSends \/ Delivers \/ Tells \/ Drops \/ Reads \/ Quiet
  BY DEF ReadoutNext, CardStep, Network, Reader, Delivers, Tells, Drops, Reads, Quiet

\* The exception closes the readout's socket, whatever the card does.
LEMMA SocketCloses ==
  ASSUME CardTypes, UNCHANGED <<input, stage, connections, notices, count>>, listening' = FALSE
  PROVE  CardTypes'
<1>1. UNCHANGED <<file, args, word_lists, loops, Lists>>
  BY SameInput
<1>2. UNCHANGED <<stage, connections, notices, loop, i, message_count, next_sleep, since>>
  BY DEF count
<1>3. ConnectInv' /\ AllInv'
  BY <1>1, <1>2 DEF CardTypes, ConnectInv, Told, AllInv, Each
<1> QED
  BY <1>1, <1>2, <1>3, TypesKept DEF CardTypes, TypeOK

LEMMA SameCard ==
  ASSUME UNCHANGED vars
  PROVE  UNCHANGED <<input, link, count, stage, listening, message_count>> /\ [Next]_vars
  BY DEF vars, link, count

LEMMA ParseToDoes ==
  ASSUME NEW next, ParseTo(next)
  PROVE  /\ UNCHANGED <<input, message_count, wire, closed, sent, whole>>
         /\ \/ UNCHANGED vars
            \/ UNCHANGED <<input, stage, connections, notices, count>> /\ listening' = FALSE
         /\ frames' = Tail(frames) /\ messages' = messages + 1
         /\ \E result \in Outcomes(Head(frames)) :
              IF result.raised THEN reader' = "ended" /\ read' = read
                               ELSE reader' = next /\ read' = Append(read, result.words) /\ UNCHANGED vars
  BY SameCard DEF ParseTo, count

LEMMA CardKept ==
  ASSUME CardTypes, [ReadoutNext]_all
  PROVE  /\ CardTypes' /\ UNCHANGED input
         /\ CardSends \/ message_count' = message_count
<1>1. CASE CardSends
  BY <1>1, SendTypes DEF CardSends, Send, Sent
<1>2. CASE Delivers
  BY <1>2, SameCard, StepTypes DEF Delivers, Deliver
<1>3. CASE Tells
  <2>1. CASE ConnectionIsMade
    BY <2>1, LinkTypes DEF ConnectionIsMade, Handshake, count
  <2>2. CASE ConnectionIsClosed
    BY <2>2, SameCard, StepTypes DEF ConnectionIsClosed
  <2> QED
    BY <1>3, <2>1, <2>2 DEF Tells
<1>4. CASE Drops
  BY <1>4, SameCard, StepTypes DEF Drops, ReaderRecvId, RecvEmpty
<1>5. CASE Reads
  <2>1. ParseTo("id") \/ ParseTo("body")
    BY <1>5 DEF Reads, RecvMessage, RecvPublished
  <2>2. /\ \/ UNCHANGED vars
           \/ UNCHANGED <<input, stage, connections, notices, count>> /\ listening' = FALSE
        /\ UNCHANGED <<input, message_count>>
    BY <2>1, ParseToDoes
  <2> QED
    BY <2>2, SameCard, SocketCloses, StepTypes DEF count
<1>6. CASE Quiet
  <2>1. CASE CardGoesOn
    BY <2>1, ConnectTypes, LoopTypes
       DEF CardGoesOn, Connect, RecvId, RecvTimeout, SendFails, Sleep, EndOfList, NextLoop, count
  <2>2. CASE UserStarts
    BY <2>2, LoopTypes DEF UserStarts, KeyPressed, count
  <2>3. CASE Attach \/ Bind \/ ReaderIsStopped
    BY <2>3, LinkTypes DEF Attach, Bind, ReaderIsStopped, Listen, Vanish, count
  <2>4. CASE Subscribe \/ EnterPressed \/ UNCHANGED all
    BY <2>4, SameCard, StepTypes DEF Subscribe, EnterPressed, all
  <2> QED
    BY <1>6, <2>1, <2>2, <2>3, <2>4 DEF Quiet
<1> QED
  BY <1>1, <1>2, <1>3, <1>4, <1>5, <1>6, Steps

LEMMA QuietDoes ==
  ASSUME ReadoutTypes, Quiet
  PROVE  /\ UNCHANGED <<wire, frames, messages, read, sent, whole, closed>>
         /\ reader' \in {"start", "prompt", "id", "body", "ended"}
         /\ Ended => Ended'
         /\ reader' = "id" => Raw
         /\ Raw /\ ~Ended' => (reader' = "body" <=> reader = "body")
         /\ ~Ended' /\ ~listening' => ~listening
<1>1. CASE CardGoesOn \/ UserStarts
  <2>1. UNCHANGED <<listening, rvars>>
    BY <1>1 DEF CardGoesOn, UserStarts, Connect, RecvId, RecvTimeout, SendFails, Sleep, EndOfList, NextLoop,
                KeyPressed, link
  <2> QED
    BY <2>1 DEF rvars, far, Ended, ReadoutTypes
<1>2. CASE Attach \/ Bind \/ ReaderIsStopped
  <2>1. CASE Attach
    BY <2>1 DEF Attach, Listen, rvars, far, Ended, ReadoutTypes
  <2>2. CASE Bind
    BY <2>2 DEF Bind, Listen, Ended
  <2>3. CASE ReaderIsStopped
    BY <2>3 DEF ReaderIsStopped, Ended
  <2> QED
    BY <1>2, <2>1, <2>2, <2>3
<1>3. CASE Subscribe \/ EnterPressed \/ UNCHANGED all
  <2>1. CASE Subscribe
    BY <2>1 DEF Subscribe, vars, link, Ended
  <2>2. CASE EnterPressed
    <3>1. /\ reader = "prompt" /\ reader' = First
          /\ UNCHANGED <<vars, frames, messages, read, wire, closed, sent, whole>>
      BY <2>2 DEF EnterPressed
    <3>2. IF Raw THEN reader' = "id" ELSE reader' = "body"
      BY <3>1 DEF First
    <3> QED
      BY <3>1, <3>2 DEF vars, link, Ended
  <2>3. CASE UNCHANGED all
    BY <2>3 DEF all, vars, link, rvars, far, Ended, ReadoutTypes
  <2> QED
    BY <1>3, <2>1, <2>2, <2>3
<1> QED
  BY <1>1, <1>2, <1>3 DEF Quiet

\* Sequences over a larger set.
LEMMA SeqGrows ==
  ASSUME NEW S, NEW T, S \subseteq T, NEW s \in Seq(S)
  PROVE  s \in Seq(T)
  OBVIOUS

LEMMA SendsDoes ==
  ASSUME ReadoutTypes, CardSends, CardTypes', UNCHANGED input, NEW n, n = Len(sent) + 1
  PROVE  /\ UNCHANGED <<args, word_lists, listening, reader, messages, read, closed, whole>>
         /\ Len(sent') = Len(sent) + 1 /\ message_count' = message_count + 1
         /\ sent' \in Seq(1..Len(word_lists)) /\ SentUnits \subseteq SentUnits'
         /\ \A m \in 1..Len(sent) : UNCHANGED <<UnitsOf(m), WordsOf(m)>>
         /\ Len(Lasts') = Len(sent) + 1 /\ \A m \in 1..Len(sent) : Lasts'[m] = Lasts[m]
         /\ wire' = IF Raw THEN wire \o UnitsOf(n)' ELSE wire
         /\ frames' = IF ~Raw /\ listening THEN Append(frames, <<"body", UnitsOf(n)'>>)
                                           ELSE frames
<1>1. /\ UNCHANGED <<args, word_lists, listening, reader, messages, read, closed, whole>>
      /\ i' = i + 1 /\ i < Len(word_lists) /\ message_count' = message_count + 1
  BY DEF CardSends, Send, Sent, input, link
<1>2. i' \in 1..Len(word_lists)
  <2>1. i \in Nat /\ Len(word_lists) \in Nat
    BY NumbersInt DEF ReadoutTypes
  <2> QED
    BY <1>1, <2>1
<1>3. /\ sent' = Append(sent, i') /\ sent \in Seq(1..Len(word_lists))
  BY DEF CardSends, ReadoutTypes
<1>4. /\ sent' \in Seq(1..Len(word_lists)) /\ Len(sent') = Len(sent) + 1 /\ Len(sent) \in Nat
      /\ sent'[Len(sent) + 1] = i' /\ \A m \in 1..Len(sent) : sent'[m] = sent[m]
  BY <1>2, <1>3, AppendProperties
<1>5. SentUnits \subseteq SentUnits'
  BY <1>4 DEF SentUnits
<1>6. \A m \in 1..Len(sent) : UNCHANGED <<UnitsOf(m), WordsOf(m)>>
  BY <1>1, <1>4 DEF UnitsOf, WordsOf
<1>9. Len(Lasts') = Len(sent) + 1 /\ \A m \in 1..Len(sent) : Lasts'[m] = Lasts[m]
  <2>1. Lasts' = [m \in 1..(Len(sent) + 1) |-> 2 * Len(word_lists[sent'[m]])]
    BY <1>1, <1>4 DEF Lasts
  <2>2. Lasts = [m \in 1..Len(sent) |-> 2 * Len(word_lists[sent[m]])]
    BY DEF Lasts
  <2>3. Len(Lasts') = Len(sent) + 1
    BY <1>4, <2>1
  <2>4. ASSUME NEW m \in 1..Len(sent) PROVE Lasts'[m] = Lasts[m]
    <3>1. m \in 1..(Len(sent) + 1) /\ sent'[m] = sent[m]
      BY <1>4
    <3>2. Lasts'[m] = 2 * Len(word_lists[sent'[m]])
      BY <2>1, <3>1
    <3>3. Lasts[m] = 2 * Len(word_lists[sent[m]])
      BY <2>2
    <3> QED
      BY <3>1, <3>2, <3>3
  <2> QED
    BY <2>3, <2>4
<1>7. Units(Len(sent'), word_lists[i']) = UnitsOf(n)'
  <2>1. Len(sent') = n /\ word_lists' = word_lists /\ sent'[n] = i'
    BY <1>1, <1>4
  <2> QED
    BY <2>1 DEF UnitsOf
<1>8. /\ wire' = IF Raw THEN wire \o UnitsOf(n)' ELSE wire
      /\ frames' = IF ~Raw /\ listening THEN Append(frames, <<"body", UnitsOf(n)'>>)
                                        ELSE frames
  BY <1>7 DEF CardSends
<1> QED
  BY <1>1, <1>4, <1>5, <1>6, <1>8, <1>9

LEMMA SendsTypes ==
  ASSUME ReadoutTypes, CardSends, CardTypes', UNCHANGED input, NEW n, n = Len(sent) + 1
  PROVE  /\ ReadoutTypes' /\ UnitsOf(n)' \in Seq(SentUnits')
         /\ Len(UnitsOf(n)') \in Nat \ {0} /\ Lasts'[n] = Len(UnitsOf(n)') - 1
         /\ \A k \in 1..Len(UnitsOf(n)') : UnitsOf(n)'[k] = <<n, k - 1>>
<1> DEFINE S == SentUnits'
           u == UnitsOf(n)'
<1>1. /\ UNCHANGED <<args, word_lists, listening, reader, messages, read, closed, whole>>
      /\ Len(sent') = Len(sent) + 1 /\ message_count' = message_count + 1
      /\ sent' \in Seq(1..Len(word_lists)) /\ SentUnits \subseteq S
      /\ wire' = IF Raw THEN wire \o u ELSE wire
      /\ frames' = IF ~Raw /\ listening THEN Append(frames, <<"body", u>>) ELSE frames
  BY SendsDoes
<1>2. /\ u \in Seq(S) /\ Len(u) \in Nat \ {0} /\ Lasts'[n] = Len(u) - 1
      /\ \A k \in 1..Len(u) : u[k] = <<n, k - 1>>
  <2> DEFINE L == Len(word_lists[sent'[n]])
  <2>1. u = [j \in 1..(1 + 2 * L) |-> <<n, j - 1>>]
    BY <1>1 DEF UnitsOf, Units
  <2>2. n \in Nat /\ n >= 1 /\ n \in 1..Len(sent') /\ sent'[n] \in 1..Len(word_lists)
    BY <1>1, SentType
  <2>3. L \in Nat
    <3>1. word_lists \in Seq(Seq(FileWords))
      BY WordListsType DEF ReadoutTypes
    <3>2. word_lists[sent'[n]] \in Seq(FileWords)
      BY <2>2, <3>1
    <3> QED
      BY <3>2
  <2> HIDE DEF L
  <2>4. \A j \in 1..(1 + 2 * L) : <<n, j - 1>> \in S
    BY <1>1, <2>2, <2>3 DEF SentUnits
  <2> HIDE DEF S, u
  <2>5. u \in Seq(S) /\ Len(u) = 1 + 2 * L
    BY <2>1, <2>3, <2>4
  <2>6. \A k \in 1..(1 + 2 * L) : u[k] = <<n, k - 1>>
    BY <2>1
  <2>7. Lasts'[n] = 2 * L
    BY <1>1, <2>2 DEF Lasts, L
  <2> QED
    BY <2>3, <2>5, <2>6, <2>7
<1> HIDE DEF S, u
<1>3. wire \in Seq(S) /\ frames \in Seq({"id", "body"} \X Seq(S)) /\ read \in Seq(Seq(S \cup {Broken}))
  <2>1. wire \in Seq(SentUnits) /\ frames \in Seq({"id", "body"} \X Seq(SentUnits))
        /\ read \in Seq(Seq(SentUnits \cup {Broken}))
    BY DEF ReadoutTypes
  <2>2. Seq(SentUnits) \subseteq Seq(S)
    BY <1>1, SeqGrows
  <2>3. SentUnits \cup {Broken} \subseteq S \cup {Broken}
    BY <1>1
  <2>4. Seq(SentUnits \cup {Broken}) \subseteq Seq(S \cup {Broken})
    BY <2>3, SeqGrows
  <2>5. {"id", "body"} \X Seq(SentUnits) \subseteq {"id", "body"} \X Seq(S)
    BY <2>2
  <2>6. Seq(Seq(SentUnits \cup {Broken})) \subseteq Seq(Seq(S \cup {Broken}))
    BY <2>4, SeqGrows
  <2>7. Seq({"id", "body"} \X Seq(SentUnits)) \subseteq Seq({"id", "body"} \X Seq(S))
    BY <2>5, SeqGrows
  <2> QED
    BY <2>1, <2>2, <2>6, <2>7
<1>4. wire' \in Seq(S) /\ frames' \in Seq({"id", "body"} \X Seq(S)) /\ (~Raw => wire' = <<>>)
  <2>1. wire \o u \in Seq(S)
    BY <1>2, <1>3, ConcatProperties
  <2>2. Append(frames, <<"body", u>>) \in Seq({"id", "body"} \X Seq(S))
    <3>1. <<"body", u>> \in {"id", "body"} \X Seq(S)
      BY <1>2
    <3> QED
      BY <1>3, <3>1, AppendProperties
  <2>3. ~Raw => wire = <<>>
    BY DEF ReadoutTypes
  <2> QED
    BY <1>1, <1>3, <2>1, <2>2, <2>3
<1>5. Raw' = Raw
  BY <1>1 DEF Raw
<1> QED
  BY <1>1, <1>2, <1>3, <1>4, <1>5 DEF ReadoutTypes, S, u

\* A step that sends nothing leaves the messages what they are.
LEMMA SameMessages ==
  ASSUME UNCHANGED <<input, sent>>
  PROVE  /\ UNCHANGED <<args, word_lists, Raw, SentUnits, Lasts>>
         /\ \A m : UNCHANGED <<UnitsOf(m), WordsOf(m)>>
  BY DEF input, Raw, SentUnits, UnitsOf, Units, WordsOf, Lasts

LEMMA FrameType ==
  ASSUME NEW S, NEW c \in Seq(S)
  PROVE  /\ <<"id", <<>>>> \in {"id", "body"} \X Seq(S) /\ <<"body", <<>>>> \in {"id", "body"} \X Seq(S)
         /\ <<"body", c>> \in {"id", "body"} \X Seq(S) /\ <<>> \in Seq(S)
<1>1. <<>> \in Seq(S)
  OBVIOUS
<1> QED
  BY <1>1

\* What a message of two parts adds to the socket.
LEMMA PairAdds ==
  ASSUME NEW S, NEW f \in Seq(S), NEW x \in S, NEW y \in S
  PROVE  /\ Append(Append(f, x), y) \in Seq(S) /\ Len(f) \in Nat
         /\ Len(Append(Append(f, x), y)) = Len(f) + 2
         /\ \A k \in 1..Len(f) : Append(Append(f, x), y)[k] = f[k]
         /\ Append(Append(f, x), y)[Len(f) + 1] = x /\ Append(Append(f, x), y)[Len(f) + 2] = y
         /\ f \o <<x, y>> = Append(Append(f, x), y)
<1> DEFINE g == Append(f, x)
<1>1. /\ g \in Seq(S) /\ Len(g) = Len(f) + 1 /\ g[Len(f) + 1] = x /\ Len(f) \in Nat
      /\ \A k \in 1..Len(f) : g[k] = f[k]
  BY AppendProperties
<1>2. f \o <<x, y>> = Append(g, y)
  OBVIOUS
<1> HIDE DEF g
<1>3. /\ Append(g, y) \in Seq(S) /\ Len(Append(g, y)) = Len(g) + 1 /\ Append(g, y)[Len(g) + 1] = y
      /\ \A k \in 1..Len(g) : Append(g, y)[k] = g[k]
  BY <1>1, AppendProperties
<1>4. \A k \in 1..Len(f) : k \in 1..Len(g)
  BY <1>1
<1>5. Len(f) + 1 \in 1..Len(g) /\ (Len(f) + 1) + 1 = Len(f) + 2
  BY <1>1
<1> QED
  BY <1>1, <1>2, <1>3, <1>4, <1>5 DEF g

LEMMA DeliverDoes ==
  ASSUME ReadoutTypes, NEW n \in 1..Len(wire), Deliver(n)
  PROVE  LET chunk == SubSeq(wire, 1, n)
         IN /\ UNCHANGED <<input, listening, reader, messages, read, closed, sent>> /\ ~Ended /\ Raw
            /\ chunk \in Seq(SentUnits) /\ wire' \in Seq(SentUnits)
            /\ Len(chunk) = n /\ Len(wire) = n + Len(wire')
            /\ \A a \in 1..n : chunk[a] = wire[a]
            /\ \A b \in 1..Len(wire') : wire'[b] = wire[n + b]
            /\ frames' = Append(Append(frames, <<"id", <<>>>>), <<"body", chunk>>)
            /\ whole' = (whole /\ IsHeader(chunk[1]) /\ (\A k \in 2..n : ~IsHeader(chunk[k]))
                               /\ (wire' = <<>> \/ IsHeader(wire'[1])))
<1> DEFINE chunk == SubSeq(wire, 1, n)
<1>1. wire \in Seq(SentUnits) /\ Len(wire) \in Nat /\ n \in Nat /\ n <= Len(wire) /\ n >= 1
  BY SentType DEF ReadoutTypes
<1>2. /\ chunk \in Seq(SentUnits) /\ Len(chunk) = n /\ \A a \in 1..n : chunk[a] = wire[a]
  BY <1>1
<1>3. wire' = SubSeq(wire, n + 1, Len(wire))
  BY DEF Deliver
<1>4. wire' \in Seq(SentUnits) /\ Len(wire) = n + Len(wire')
      /\ \A b \in 1..Len(wire') : wire'[b] = wire[n + b]
  <2>1. \A k \in (n + 1)..Len(wire) : wire[k] \in SentUnits
    BY <1>1
  <2>2. /\ wire' \in Seq(SentUnits)
        /\ Len(wire') = IF n + 1 <= Len(wire) THEN Len(wire) - (n + 1) + 1 ELSE 0
        /\ \A b \in 1..(Len(wire) - (n + 1) + 1) : wire'[b] = wire[(n + 1) + b - 1]
    BY <1>1, <1>3, <2>1, SubSeqProperties
  <2>3. Len(wire') = Len(wire) - n
    <3>1. PICK v, l : v = Len(wire') /\ l = Len(wire)
      OBVIOUS
    <3>2. v = IF n + 1 <= l THEN l - (n + 1) + 1 ELSE 0
      BY <2>2, <3>1
    <3>3. l \in Nat /\ n \in Nat /\ n <= l
      BY <1>1, <3>1
    <3>4. v = l - n
      BY <3>2, <3>3
    <3> QED
      BY <3>1, <3>4
  <2>4. \A b \in 1..Len(wire') : b \in 1..(Len(wire) - (n + 1) + 1) /\ (n + 1) + b - 1 = n + b
    BY <1>1, <2>3
  <2> QED
    BY <1>1, <2>2, <2>3, <2>4
<1>5. frames' = Append(Append(frames, <<"id", <<>>>>), <<"body", chunk>>)
  <2>1. frames' = frames \o <<<<"id", <<>>>>, <<"body", chunk>>>>
    BY DEF Deliver
  <2>2. frames \in Seq({"id", "body"} \X Seq(SentUnits))
    BY DEF ReadoutTypes
  <2>3. /\ <<"id", <<>>>> \in {"id", "body"} \X Seq(SentUnits)
        /\ <<"body", chunk>> \in {"id", "body"} \X Seq(SentUnits)
    BY <1>2, FrameType
  <2> DEFINE F == {"id", "body"} \X Seq(SentUnits)
             x == <<"id", <<>>>>
             y == <<"body", chunk>>
  <2>4. frames \in Seq(F) /\ x \in F /\ y \in F /\ frames' = frames \o <<x, y>>
    BY <2>1, <2>2, <2>3
  <2> HIDE DEF F, x, y
  <2>5. frames' = Append(Append(frames, x), y)
    BY <2>4, PairAdds
  <2> QED
    BY <2>5 DEF x, y
<1>6. Raw
  BY <1>1 DEF ReadoutTypes
<1>7. UNCHANGED <<input, listening, reader, messages, read, closed, sent>> /\ ~Ended
      /\ whole' = (whole /\ IsHeader(chunk[1]) /\ (\A k \in 2..n : ~IsHeader(chunk[k]))
                               /\ (wire' = <<>> \/ IsHeader(wire'[1])))
  BY DEF Deliver, vars, link
<1> QED
  BY <1>2, <1>4, <1>5, <1>6, <1>7

LEMMA TellsDoes ==
  ASSUME ReadoutTypes, Tells
  PROVE  /\ UNCHANGED <<listening, reader, messages, read, wire, sent, whole>> /\ closed' \in BOOLEAN
         /\ frames' = Append(Append(frames, <<"id", <<>>>>), <<"body", <<>>>>)
         /\ ConnectionIsMade => Handshake
<1>1. frames' = frames \o <<<<"id", <<>>>>, <<"body", <<>>>>>>
  BY DEF Tells, ConnectionIsMade, ConnectionIsClosed, Notice
<1>2. frames \in Seq({"id", "body"} \X Seq(SentUnits))
      /\ <<"id", <<>>>> \in {"id", "body"} \X Seq(SentUnits)
      /\ <<"body", <<>>>> \in {"id", "body"} \X Seq(SentUnits)
  BY FrameType DEF ReadoutTypes
<1>3. frames' = Append(Append(frames, <<"id", <<>>>>), <<"body", <<>>>>)
  <2> DEFINE F == {"id", "body"} \X Seq(SentUnits)
             x == <<"id", <<>>>>
             y == <<"body", <<>>>>
  <2>1. frames \in Seq(F) /\ x \in F /\ y \in F /\ frames' = frames \o <<x, y>>
    BY <1>1, <1>2
  <2> HIDE DEF F, x, y
  <2>2. frames' = Append(Append(frames, x), y)
    BY <2>1, PairAdds
  <2> QED
    BY <2>2 DEF x, y
<1> QED
  BY <1>3 DEF Tells, ConnectionIsMade, ConnectionIsClosed, Handshake, vars, link, ReadoutTypes

LEMMA DropsDoes ==
  ASSUME ReadoutTypes, Drops
  PROVE  /\ UNCHANGED <<listening, messages, read, wire, closed, sent, whole>> /\ frames # <<>>
         /\ frames' = Tail(frames) /\ Raw
         /\ \/ reader = "id" /\ reader' = "body"
            \/ reader = "body" /\ reader' = "id" /\ Head(frames)[2] = <<>>
  BY DEF Drops, ReaderRecvId, RecvEmpty, vars, link, ReadoutTypes

LEMMA ReadsDoes ==
  ASSUME ReadoutTypes, Reads
  PROVE  /\ UNCHANGED <<input, message_count, wire, closed, sent, whole>>
         /\ reader = "body" /\ frames # <<>> /\ frames' = Tail(frames) /\ messages' = messages + 1
         /\ Head(frames)[2] \in Seq(SentUnits) /\ (Raw => Head(frames) # <<"body", <<>>>>)
         /\ \E result \in Outcomes(Head(frames)) :
              IF result.raised THEN reader' = "ended" /\ read' = read
                               ELSE /\ reader' = First /\ read' = Append(read, result.words)
                                    /\ listening' = listening
<1>1. PICK next \in {"id", "body"} : ParseTo(next) /\ next = First
  BY DEF Reads, RecvMessage, RecvPublished, First
<1>2. reader = "body" /\ frames # <<>> /\ (Raw => Head(frames) # <<"body", <<>>>>)
  BY DEF Reads, RecvMessage, RecvPublished
<1>3. Head(frames)[2] \in Seq(SentUnits)
  <2>1. frames \in Seq({"id", "body"} \X Seq(SentUnits))
    BY DEF ReadoutTypes
  <2>2. Head(frames) \in {"id", "body"} \X Seq(SentUnits)
    BY <1>2, <2>1
  <2> QED
    BY <2>2
<1>4. UNCHANGED vars => UNCHANGED listening
  BY SameCard
<1> QED
  BY <1>1, <1>2, <1>3, <1>4, ParseToDoes

\* What does not raise comes of a message.
LEMMA OutcomesType ==
  ASSUME NEW frame, NEW result \in Outcomes(frame)
  PROVE  /\ ~result.raised => result \in Parsed(frame[2])
         /\ frame[1] = "body" => result \in Parsed(frame[2])
<1>1. CASE frame[1] = "id"
  BY <1>1 DEF Outcomes
<1>2. CASE frame[1] # "id"
  BY <1>2 DEF Outcomes
<1> QED
  BY <1>1, <1>2

-----------------------------------------------------------------------------
(* The types.                                                              *)

LEMMA TypesStep ==
  ASSUME ReadoutTypes, [ReadoutNext]_all
  PROVE  ReadoutTypes'
<1> DEFINE F == {"id", "body"} \X Seq(SentUnits)
<1>1. CardTypes' /\ UNCHANGED input /\ (CardSends \/ message_count' = message_count)
  BY CardKept DEF ReadoutTypes
<1>2. CASE CardSends
  <2>1. PICK n : n = Len(sent) + 1
    OBVIOUS
  <2> QED
    BY <1>1, <1>2, <2>1, SendsTypes
\* Otherwise it is enough to look at what a step can change.
<1>3. ASSUME UNCHANGED sent, ~CardSends, closed' \in BOOLEAN, whole' \in BOOLEAN,
             reader' \in {"start", "prompt", "id", "body", "ended"}, reader' = "id" => Raw,
             wire' \in Seq(SentUnits), ~Raw => wire' = <<>>, frames' \in Seq(F),
             read' \in Seq(Seq(SentUnits \cup {Broken})), messages' \in Len(read')..(Len(read') + 1),
             reader' # "ended" => messages' = Len(read')
      PROVE  ReadoutTypes'
  <2>1. UNCHANGED <<word_lists, Raw, SentUnits, message_count>>
    BY <1>1, <1>3, SameMessages
  <2>2. args'.program # "MPD"
    BY <1>1 DEF ReadoutTypes, input
  <2> QED
    BY <1>1, <1>3, <2>1, <2>2 DEF ReadoutTypes
<1>4. /\ closed \in BOOLEAN /\ whole \in BOOLEAN /\ wire \in Seq(SentUnits) /\ (~Raw => wire = <<>>)
      /\ frames \in Seq(F) /\ read \in Seq(Seq(SentUnits \cup {Broken}))
      /\ messages \in Len(read)..(Len(read) + 1) /\ (reader # "ended" => messages = Len(read))
      /\ (reader = "id" => Raw)
      /\ reader \in {"start", "prompt", "id", "body", "ended"} /\ Len(read) \in Nat
  BY DEF ReadoutTypes
<1>5. CASE ~CardSends /\ Delivers
  <2>1. PICK n \in 1..Len(wire) : Deliver(n)
    BY <1>5 DEF Delivers
  <2> DEFINE chunk == SubSeq(wire, 1, n)
             x == <<"id", <<>>>>
             y == <<"body", chunk>>
  <2>2. /\ UNCHANGED <<sent, closed, reader, read, messages>> /\ Raw
        /\ chunk \in Seq(SentUnits) /\ wire' \in Seq(SentUnits)
        /\ frames' = Append(Append(frames, x), y)
        /\ whole' = (whole /\ IsHeader(chunk[1]) /\ (\A k \in 2..n : ~IsHeader(chunk[k]))
                           /\ (wire' = <<>> \/ IsHeader(wire'[1])))
    BY <2>1, DeliverDoes
  <2>3. x \in F /\ y \in F
    BY <2>2, FrameType
  <2> HIDE DEF F, chunk, x, y
  <2>4. frames' \in Seq(F)
    BY <1>4, <2>2, <2>3, PairAdds
  <2>5. whole' \in BOOLEAN
    BY <2>2
  <2> QED
    BY <1>3, <1>4, <1>5, <2>2, <2>4, <2>5
<1>6. CASE ~CardSends /\ Tells
  <2> DEFINE x == <<"id", <<>>>>
             y == <<"body", <<>>>>
  <2>1. UNCHANGED <<sent, reader, read, messages, wire, whole>> /\ closed' \in BOOLEAN
        /\ frames' = Append(Append(frames, x), y)
    BY <1>6, TellsDoes
  <2>2. x \in F /\ y \in F
    <3>1. <<>> \in Seq(SentUnits)
      OBVIOUS
    <3> QED
      BY <3>1, FrameType
  <2> HIDE DEF F, x, y
  <2>3. frames' \in Seq(F)
    BY <1>4, <2>1, <2>2, PairAdds
  <2> QED
    BY <1>3, <1>4, <1>6, <2>1, <2>3
<1>7. CASE ~CardSends /\ Drops
  <2>1. UNCHANGED <<sent, messages, read, wire, closed, whole>> /\ frames # <<>>
        /\ frames' = Tail(frames) /\ Raw /\ reader' \in {"id", "body"} /\ reader # "ended"
    BY <1>7, DropsDoes
  <2> HIDE DEF F
  <2>2. frames' \in Seq(F)
    BY <1>4, <2>1
  <2> QED
    BY <1>3, <1>4, <1>7, <2>1, <2>2
<1>8. CASE ~CardSends /\ Reads
  <2> DEFINE W == SentUnits \cup {Broken}
  <2>1. /\ UNCHANGED <<wire, closed, sent, whole>> /\ frames # <<>> /\ frames' = Tail(frames)
        /\ messages' = messages + 1 /\ Head(frames)[2] \in Seq(SentUnits) /\ messages = Len(read)
    BY <1>4, <1>8, ReadsDoes
  <2>2. PICK result \in Outcomes(Head(frames)) :
          IF result.raised THEN reader' = "ended" /\ read' = read
                           ELSE reader' = First /\ read' = Append(read, result.words)
    BY <1>8, ReadsDoes
  <2>3. ~result.raised => result.words \in Seq(W)
    BY <2>1, ParsedType, OutcomesType
  <2>4. frames' \in Seq(F)
    <3> HIDE DEF F
    <3> QED
      BY <1>4, <2>1
  <2>5. read' \in Seq(Seq(W))
    <3> HIDE DEF W
    <3>1. read \in Seq(Seq(W))
      BY <1>4 DEF W
    <3> QED
      BY <2>2, <2>3, <3>1, AppendProperties
  <2>6. messages' \in Len(read')..(Len(read') + 1) /\ (reader' # "ended" => messages' = Len(read'))
    <3>1. CASE ~result.raised
      <4>1. Len(read') = Len(read) + 1
        BY <1>4, <2>2, <2>3, <3>1, AppendProperties
      <4> QED
        BY <1>4, <2>1, <4>1
    <3>2. CASE result.raised
      BY <1>4, <2>1, <2>2, <3>2
    <3> QED
      BY <3>1, <3>2
  <2>7. reader' \in {"start", "prompt", "id", "body", "ended"} /\ (reader' = "id" => Raw)
    BY <2>2 DEF First
  <2> QED
    BY <1>3, <1>4, <1>8, <2>1, <2>4, <2>5, <2>6, <2>7
<1>9. CASE ~CardSends /\ Quiet
  <2>1. /\ UNCHANGED <<wire, frames, messages, read, sent, whole, closed>>
        /\ reader' \in {"start", "prompt", "id", "body", "ended"} /\ (reader' = "id" => Raw)
        /\ reader' # "ended" => reader # "ended"
    BY <1>9, QuietDoes DEF Ended
  <2> HIDE DEF F
  <2> QED
    BY <1>3, <1>4, <1>9, <2>1
<1> QED
  BY <1>2, <1>5, <1>6, <1>7, <1>8, <1>9, Steps

-----------------------------------------------------------------------------
(* The order.                                                              *)

LEMMA SentOrder ==
  ASSUME ReadoutTypes, OrderInv, CardSends, CardTypes', UNCHANGED input
  PROVE  OrderInv'
<1>1. PICK n : n = Len(sent) + 1
  OBVIOUS
<1> DEFINE u == UnitsOf(n)'
           F == {"id", "body"} \X Seq(SentUnits)
<1>2. /\ UNCHANGED read /\ Len(sent) \in Nat
      /\ SentUnits \subseteq SentUnits'
      /\ wire' = IF Raw THEN wire \o u ELSE wire
      /\ frames' = IF ~Raw /\ listening THEN Append(frames, <<"body", u>>) ELSE frames
  BY <1>1, SendsDoes, SentType
<1>3. u \in Seq(SentUnits') /\ Len(u) \in Nat /\ \A k \in 1..Len(u) : u[k] = <<n, k - 1>>
  BY <1>1, SendsTypes
<1> HIDE DEF u, F
<1>4. ASSUME NEW v \in SentUnits, NEW b \in 1..Len(u) PROVE Before(v, u[b])
  <2>1. v[1] \in 1..Len(sent)
    BY DEF SentUnits
  <2>2. u[b][1] = Len(sent) + 1
    BY <1>1, <1>3
  <2> QED
    BY <1>2, <2>1, <2>2 DEF Before
<1>5. wire \in Seq(SentUnits) /\ frames \in Seq(F) /\ read \in Seq(Seq(SentUnits \cup {Broken}))
      /\ Order(read, frames, wire) /\ (~Raw => wire = <<>>)
  BY DEF ReadoutTypes, OrderInv, F
<1>6. Ascending(u)
  <2>1. \A a, b \in 1..Len(u) : a < b => u[a][1] = u[b][1] /\ u[a][2] < u[b][2]
    BY <1>3
  <2> QED
    BY <2>1 DEF Ascending, Before
<1>7. FramesWire(frames, u)
  <2> SUFFICES ASSUME NEW k \in 1..Len(frames), NEW a \in 1..Len(frames[k][2]), NEW b \in 1..Len(u)
               PROVE  Before(frames[k][2][a], u[b])
    BY DEF FramesWire
  <2>1. frames[k] \in F
    BY <1>5
  <2>2. frames[k][2] \in Seq(SentUnits)
    BY <2>1 DEF F
  <2>3. frames[k][2][a] \in SentUnits
    BY <2>2
  <2> QED
    BY <1>4, <2>3
<1>8. ReadWire(read, u)
  <2> SUFFICES ASSUME NEW b \in 1..Len(u), NEW j \in 1..Len(read), NEW a \in 1..Len(read[j]),
                      read[j][a] # Broken
               PROVE  Before(read[j][a], u[b])
    BY DEF ReadWire, ReadBefore
  <2>1. read[j] \in Seq(SentUnits \cup {Broken})
    BY <1>5
  <2>2. read[j][a] \in SentUnits \cup {Broken}
    BY <2>1
  <2> QED
    BY <1>4, <2>2
<1>9. Order(read, frames, wire \o u)
  <2>1. wire \in Seq(SentUnits')
    BY <1>2, <1>5, SeqGrows
  <2>2. \A a \in 1..Len(wire), b \in 1..Len(u) : Before(wire[a], u[b])
    BY <1>4, <1>5
  <2> QED
    BY <1>3, <1>5, <1>6, <1>7, <1>8, <2>1, <2>2, OrderWrites
<1>10. CASE Raw
  BY <1>2, <1>9, <1>10 DEF OrderInv
<1>11. CASE ~Raw /\ listening
  <2> DEFINE G == {"id", "body"} \X Seq(SentUnits')
  <2>1. wire \o u = u /\ wire' = <<>>
    BY <1>2, <1>3, <1>5, <1>11
  <2>2. Order(read, frames, u)
    BY <1>9, <2>1
  <2>3. frames \in Seq(G) /\ <<"body", u>> \in G
    <3>1. Seq(SentUnits) \subseteq Seq(SentUnits')
      BY <1>2, SeqGrows
    <3>2. F \subseteq G
      BY <3>1 DEF F
    <3>3. <<"body", u>> \in G
      BY <1>3, FrameType
    <3> HIDE DEF G
    <3> QED
      BY <1>5, <3>2, <3>3, SeqGrows
  <2> HIDE DEF G
  <2>4. /\ Len(<<>>) \in Nat /\ Len(u) = Len(u) + Len(<<>>)
        /\ \A a \in 1..Len(u) : u[a] = u[a]
        /\ \A b \in 1..Len(<<>>) : <<>>[b] = u[Len(u) + b]
    BY <1>3
  <2>5. Order(read, Append(frames, <<"body", u>>), <<>>)
    BY <1>3, <2>2, <2>3, <2>4, OrderDelivers
  <2> QED
    BY <1>2, <1>11, <2>1, <2>5 DEF OrderInv
<1>12. CASE ~Raw /\ ~listening
  BY <1>2, <1>5, <1>12 DEF OrderInv
<1> QED
  BY <1>10, <1>11, <1>12

LEMMA OrderStep ==
  ASSUME ReadoutTypes, OrderInv, [ReadoutNext]_all
  PROVE  OrderInv'
<1> DEFINE F == {"id", "body"} \X Seq(SentUnits)
           x == <<"id", <<>>>>
<1>1. CardTypes' /\ UNCHANGED input
  BY CardKept DEF ReadoutTypes
<1>2. frames \in Seq(F) /\ Order(read, frames, wire) /\ Len(wire) \in Nat /\ x \in F
      /\ read \in Seq(Seq(SentUnits \cup {Broken}))
  <2>1. <<>> \in Seq(SentUnits)
    OBVIOUS
  <2>2. x \in F
    BY <2>1, FrameType
  <2> QED
    BY <2>2, SentType DEF ReadoutTypes, OrderInv
<1>3. Order(read, Append(frames, x), wire) /\ Append(frames, x) \in Seq(F)
  <2> HIDE DEF F
  <2>1. Order(read, Append(frames, x), wire)
    BY <1>2, OrderTells
  <2> HIDE DEF x
  <2> QED
    BY <1>2, <2>1, AppendProperties
<1>4. CASE CardSends
  BY <1>1, <1>4, SentOrder
<1>5. CASE Delivers
  <2>1. PICK n \in 1..Len(wire) : Deliver(n)
    BY <1>5 DEF Delivers
  <2> DEFINE chunk == SubSeq(wire, 1, n)
  <2>2. /\ UNCHANGED read
        /\ chunk \in Seq(SentUnits) /\ wire' \in Seq(SentUnits)
        /\ Len(chunk) = n /\ Len(wire) = n + Len(wire')
        /\ \A a \in 1..n : chunk[a] = wire[a]
        /\ \A b \in 1..Len(wire') : wire'[b] = wire[n + b]
        /\ frames' = Append(Append(frames, x), <<"body", chunk>>)
    BY <2>1, DeliverDoes
  <2>3. <<"body", chunk>> \in F
    BY <2>2, FrameType
  <2>4. /\ Len(chunk) \in Nat /\ Len(wire') \in Nat /\ Len(wire) = Len(chunk) + Len(wire')
        /\ \A a \in 1..Len(chunk) : chunk[a] = wire[a]
        /\ \A b \in 1..Len(wire') : wire'[b] = wire[Len(chunk) + b]
    BY <2>2
  <2> HIDE DEF F, x, chunk
  <2>5. Order(read, Append(Append(frames, x), <<"body", chunk>>), wire')
    <3>1. PICK f : f = Append(frames, x)
      OBVIOUS
    <3>2. PICK v : v = wire'
      OBVIOUS
    <3>3. f \in Seq(F) /\ Order(read, f, wire) /\ Len(v) \in Nat /\ Len(wire) = Len(chunk) + Len(v)
      BY <1>3, <2>4, <3>1, <3>2
    <3>4. \A b \in 1..Len(v) : v[b] = wire[Len(chunk) + b]
      BY <2>4, <3>2
    <3>5. Order(read, Append(f, <<"body", chunk>>), v)
      BY <2>3, <2>4, <3>3, <3>4, OrderDelivers
    <3> QED
      BY <3>1, <3>2, <3>5
  <2> QED
    BY <2>2, <2>5 DEF OrderInv
<1>6. CASE Tells
  <2>1. UNCHANGED <<read, wire>> /\ frames' = Append(Append(frames, x), <<"body", <<>>>>)
    BY <1>6, TellsDoes
  <2>2. <<"body", <<>>>> \in F
    <3>1. <<>> \in Seq(SentUnits)
      OBVIOUS
    <3> QED
      BY <3>1, FrameType
  <2> HIDE DEF F, x
  <2>3. Order(read, Append(Append(frames, x), <<"body", <<>>>>), wire)
    BY <1>2, <1>3, <2>2, OrderTells
  <2> QED
    BY <2>1, <2>3 DEF OrderInv
<1>7. CASE Drops
  <2>1. UNCHANGED <<read, wire>> /\ frames # <<>> /\ frames' = Tail(frames)
    BY <1>7, DropsDoes
  <2> HIDE DEF F
  <2> QED
    BY <1>2, <2>1, OrderDrops DEF OrderInv
<1>8. CASE Reads
  <2> DEFINE c == Head(frames)[2]
             W == Seq(SentUnits \cup {Broken})
  <2>1. UNCHANGED wire /\ frames # <<>> /\ frames' = Tail(frames) /\ c \in Seq(SentUnits)
    BY <1>8, ReadsDoes
  <2>2. PICK result \in Outcomes(Head(frames)) :
          IF result.raised THEN read' = read ELSE read' = Append(read, result.words)
    BY <1>8, ReadsDoes
  <2>3. CASE result.raised
    <3> HIDE DEF F
    <3> QED
      BY <1>2, <2>1, <2>2, <2>3, OrderDrops DEF OrderInv
  <2>4. CASE ~result.raised
    <3>1. /\ result.words \in W /\ Len(result.words) \in Nat
          /\ \A a \in 1..Len(result.words) :
               result.words[a] # Broken => 2 * a \in 1..Len(c) /\ result.words[a] = c[2 * a]
      <4>0. result \in Parsed(c)
        BY <2>2, <2>4, OutcomesType
      <4> HIDE DEF c
      <4>1. /\ result.words \in W /\ Len(result.words) \in Nat
            /\ \A a \in 1..Len(result.words) :
                 /\ 2 * a \in 1..Len(c)
                 /\ result.words[a] =
                      IF BeginsWord(c[2 * a]) /\ c[2 * a + 1] = <<c[2 * a][1], c[2 * a][2] + 1>>
                        THEN c[2 * a] ELSE Broken
        BY <2>1, <2>4, <4>0, ParsedType
      <4> QED
        BY <4>1
    <3>2. Len(c) \in Nat /\ read \in Seq(W)
      BY <1>2, <2>1
    <3> HIDE DEF F, W
    <3>3. Order(Append(read, result.words), Tail(frames), wire)
      BY <1>2, <2>1, <3>1, <3>2, OrderReads
    <3> QED
      BY <2>1, <2>2, <2>4, <3>3 DEF OrderInv
  <2> QED
    BY <2>3, <2>4
<1>9. CASE Quiet
  BY <1>9, QuietDoes DEF OrderInv
<1> QED
  BY <1>4, <1>5, <1>6, <1>7, <1>8, <1>9, Steps

-----------------------------------------------------------------------------
(* The connection.                                                         *)

\* A message is written whole, behind what is there.
LEMMA CompleteWrites ==
  ASSUME NEW S, NEW T, NEW w \in Seq(T), NEW u \in Seq(S), NEW n \in Nat, NEW last, NEW more,
         Complete(last, w), u # <<>>, n = Len(last) + 1, Len(more) = n, Len(last) \in Nat,
         \A m \in 1..Len(last) : more[m] = last[m],
         \A k \in 1..Len(u) : u[k] = <<n, k - 1>>, more[n] = Len(u) - 1,
         \A k \in 1..Len(w) : w[k][1] \in 1..Len(last)
  PROVE  Complete(more, w \o u)
<1> DEFINE x == w \o u
<1>1. /\ Len(w) \in Nat /\ Len(u) \in Nat /\ Len(u) >= 1 /\ Len(x) = Len(w) + Len(u)
      /\ \A k \in 1..Len(w) : x[k] = w[k]
      /\ \A k \in 1..Len(x) : k > Len(w) => x[k] = u[k - Len(w)] /\ k - Len(w) \in 1..Len(u)
  OBVIOUS
<1> HIDE DEF x
<1>2. ASSUME NEW k \in 1..Len(x), k > Len(w) PROVE x[k] = <<n, k - Len(w) - 1>>
  <2>1. k - Len(w) \in 1..Len(u)
    BY <1>1, <1>2
  <2> QED
    BY <1>1, <1>2, <2>1
<1>3. ASSUME NEW k \in 1..(Len(x) - 1) PROVE Follows(more, x[k], x[k + 1])
  <2>0. k \in Nat /\ k >= 1 /\ k \in 1..Len(x) /\ k + 1 \in 1..Len(x)
    BY <1>1
  <2>1. CASE k < Len(w)
    <3>1. k \in 1..(Len(w) - 1) /\ k \in 1..Len(w) /\ k + 1 \in 1..Len(w)
      BY <1>1, <2>0, <2>1
    <3>2. Follows(last, w[k], w[k + 1]) /\ more[w[k][1]] = last[w[k][1]]
      BY <3>1 DEF Complete
    <3>3. x[k] = w[k] /\ x[k + 1] = w[k + 1]
      BY <1>1, <3>1
    <3> QED
      BY <3>2, <3>3 DEF Follows
  <2>2. CASE k = Len(w)
    <3>1. w # <<>> /\ k \in 1..Len(w)
      BY <1>1, <2>0, <2>2
    <3>2. w[k] = <<Len(last), last[Len(last)]>>
      BY <2>2, <3>1 DEF Complete
    <3>3. x[k] = w[k] /\ x[k + 1] = <<n, 0>>
      <4>1. (k + 1) - Len(w) - 1 = 0 /\ k + 1 > Len(w)
        BY <1>1, <2>2
      <4> QED
        BY <1>1, <1>2, <2>0, <3>1, <4>1
    <3>4. x[k][1] = Len(last) /\ x[k][2] = last[Len(last)]
      BY <3>2, <3>3
    <3>5. w[k][1] \in 1..Len(last)
      BY <3>1
    <3>6. more[Len(last)] = last[Len(last)]
      BY <3>2, <3>5
    <3> QED
      BY <3>3, <3>4, <3>6 DEF Follows
  <2>3. CASE k > Len(w)
    <3>1. x[k] = <<n, k - Len(w) - 1>> /\ x[k + 1] = <<n, (k - Len(w) - 1) + 1>>
      <4>1. (k + 1) - Len(w) - 1 = (k - Len(w) - 1) + 1 /\ k + 1 > Len(w)
        BY <1>1, <2>0, <2>3
      <4> QED
        BY <1>2, <2>0, <2>3, <4>1
    <3> QED
      BY <3>1 DEF Follows
  <2> QED
    BY <1>1, <2>0, <2>1, <2>2, <2>3
<1>4. x[Len(x)] = <<Len(more), more[Len(more)]>>
  <2>1. Len(x) \in 1..Len(x) /\ Len(x) > Len(w) /\ Len(x) - Len(w) - 1 = Len(u) - 1
    BY <1>1
  <2> QED
    BY <1>2, <2>1
<1>5. x[Len(w) + 1] = <<n, 0>> /\ Len(w) + 1 \in 1..Len(x)
  <2>1. Len(w) + 1 \in 1..Len(x) /\ Len(w) + 1 > Len(w) /\ (Len(w) + 1) - Len(w) - 1 = 0
    BY <1>1
  <2> QED
    BY <1>2, <2>1
<1>6. ASSUME NEW m \in (x[1][1] + 1)..Len(more) PROVE \E k \in 1..Len(x) : x[k] = <<m, 0>>
  <2>1. CASE m = n
    BY <1>5, <2>1
  <2>2. CASE w # <<>> /\ m # n
    <3>1. 1 \in 1..Len(w) /\ x[1] = w[1] /\ w[1][1] \in 1..Len(last)
      BY <1>1, <2>2
    <3>2. m \in (w[1][1] + 1)..Len(last)
      BY <2>2, <3>1
    <3>3. PICK k \in 1..Len(w) : w[k] = <<m, 0>>
      BY <2>2, <3>2 DEF Complete
    <3>4. k \in 1..Len(x) /\ x[k] = w[k]
      BY <1>1
    <3> QED
      BY <3>3, <3>4
  <2>3. CASE w = <<>> /\ m # n
    <3>1. x[1] = <<n, 0>>
      BY <1>5, <2>3
    <3>2. x[1][1] = n
      BY <3>1
    <3> QED
      BY <2>3, <3>2
  <2> QED
    BY <2>1, <2>2, <2>3
<1> QED
  BY <1>3, <1>4, <1>6 DEF Complete, x

\* What is left when a beginning has arrived.
LEMMA CompleteDelivers ==
  ASSUME NEW n \in Nat, NEW T, NEW w \in Seq(T), NEW v \in Seq(T), NEW last,
         Complete(last, w), Ascending(w),
         Len(w) = n + Len(v), \A b \in 1..Len(v) : v[b] = w[n + b], Len(last) \in Nat,
         \A k \in 1..Len(w) : w[k][1] \in 1..Len(last) /\ w[k][2] \in Nat
  PROVE  Complete(last, v)
<1> SUFFICES ASSUME v # <<>> PROVE Complete(last, v)
  BY DEF Complete
<1>1. /\ Len(w) \in Nat /\ Len(v) \in Nat /\ Len(v) >= 1 /\ w # <<>>
      /\ n + 1 \in 1..Len(w) /\ 1 \in 1..Len(w)
  OBVIOUS
<1>2. ASSUME NEW k \in 1..(Len(v) - 1) PROVE Follows(last, v[k], v[k + 1])
  <2>1. n + k \in 1..(Len(w) - 1) /\ k \in 1..Len(v) /\ k + 1 \in 1..Len(v) /\ n + (k + 1) = (n + k) + 1
    BY <1>1
  <2>2. Follows(last, w[n + k], w[(n + k) + 1])
    BY <1>1, <2>1 DEF Complete
  <2>3. v[k] = w[n + k] /\ v[k + 1] = w[(n + k) + 1]
    BY <2>1
  <2> QED
    BY <2>2, <2>3
<1>3. v[Len(v)] = <<Len(last), last[Len(last)]>>
  BY <1>1 DEF Complete
<1>4. v[1] = w[n + 1]
  BY <1>1
<1>5. ASSUME NEW m \in (v[1][1] + 1)..Len(last) PROVE \E k \in 1..Len(v) : v[k] = <<m, 0>>
  <2>1. w[1][1] <= w[n + 1][1]
    <3>1. CASE n = 0
      BY <1>1, <3>1
    <3>2. CASE n > 0
      <4>1. Before(w[1], w[n + 1])
        BY <1>1, <3>2 DEF Ascending
      <4>2. w[1][1] \in Nat /\ w[n + 1][1] \in Nat
        BY <1>1
      <4> QED
        BY <4>1, <4>2 DEF Before
    <3> QED
      BY <3>1, <3>2
  <2>2. w[1][1] \in Nat /\ w[n + 1][1] \in Nat
    BY <1>1
  <2>3. m \in (w[1][1] + 1)..Len(last) /\ m > w[n + 1][1] /\ m \in Nat
    BY <1>4, <2>1, <2>2
  <2>4. PICK k \in 1..Len(w) : w[k] = <<m, 0>>
    BY <1>1, <2>3 DEF Complete
  <2>5. ~(k < n + 1)
    <3> SUFFICES ASSUME k < n + 1 PROVE FALSE
      OBVIOUS
    <3>1. Before(w[k], w[n + 1])
      BY <1>1 DEF Ascending
    <3>2. w[k][1] = m
      BY <2>4
    <3> QED
      BY <2>2, <2>3, <3>1, <3>2 DEF Before
  <2>6. k - n \in 1..Len(v) /\ n + (k - n) = k
    BY <1>1, <2>5
  <2>7. v[k - n] = w[n + (k - n)]
    BY <2>6
  <2> QED
    BY <2>4, <2>6, <2>7
<1> QED
  BY <1>2, <1>3, <1>5 DEF Complete

LEMMA LastsType ==
  ASSUME ReadoutTypes
  PROVE  Len(Lasts) = Len(sent) /\ Len(sent) \in Nat
         /\ \A m \in 1..Len(sent) : Lasts[m] = 2 * Len(word_lists[sent[m]])
  BY SentType DEF Lasts

LEMMA WireStep ==
  ASSUME ReadoutTypes, OrderInv, WireInv, [ReadoutNext]_all
  PROVE  WireInv'
<1>1. CardTypes' /\ UNCHANGED input
  BY CardKept DEF ReadoutTypes
<1>2. /\ Len(Lasts) = Len(sent) /\ Len(sent) \in Nat /\ wire \in Seq(SentUnits) /\ (~Raw => wire = <<>>)
      /\ Complete(Lasts, wire)
  BY LastsType DEF ReadoutTypes, WireInv
<1>3. \A k \in 1..Len(wire) : wire[k][1] \in 1..Len(sent) /\ wire[k][2] \in Nat
  BY <1>2 DEF SentUnits
<1>4. CASE CardSends
  <2>1. PICK n : n = Len(sent) + 1
    OBVIOUS
  <2>2. PICK more : more = Lasts'
    OBVIOUS
  <2>3. PICK u : u = UnitsOf(n)'
    OBVIOUS
  <2>4. PICK S : S = SentUnits'
    OBVIOUS
  <2>5. /\ Len(more) = n /\ \A m \in 1..Len(sent) : more[m] = Lasts[m]
        /\ wire' = IF Raw THEN wire \o u ELSE wire
    BY <1>1, <1>4, <2>1, <2>2, <2>3, SendsDoes
  <2>6. /\ u \in Seq(S) /\ Len(u) \in Nat \ {0} /\ more[n] = Len(u) - 1
        /\ \A k \in 1..Len(u) : u[k] = <<n, k - 1>>
    BY <1>1, <1>4, <2>1, <2>2, <2>3, <2>4, SendsTypes
  <2>7. n \in Nat /\ u # <<>>
    BY <1>2, <2>1, <2>6
  <2>8. Complete(more, wire \o u)
    BY <1>2, <1>3, <2>1, <2>5, <2>6, <2>7, CompleteWrites
  <2>9. Complete(more, wire')
    <3>1. CASE Raw
      BY <2>5, <2>8, <3>1
    <3>2. CASE ~Raw
      BY <1>2, <2>5, <3>2 DEF Complete
    <3> QED
      BY <3>1, <3>2
  <2> QED
    BY <2>2, <2>9 DEF WireInv
<1>5. CASE Delivers
  <2>1. PICK n \in 1..Len(wire) : Deliver(n)
    BY <1>5 DEF Delivers
  <2>2. PICK v : v = wire'
    OBVIOUS
  <2>3. /\ UNCHANGED sent /\ v \in Seq(SentUnits) /\ Len(wire) = n + Len(v) /\ n \in Nat
        /\ \A b \in 1..Len(v) : v[b] = wire[n + b]
    BY <2>1, <2>2, DeliverDoes
  <2>4. Ascending(wire)
    BY DEF OrderInv, Order
  <2>5. Complete(Lasts, v)
    BY <1>2, <1>3, <2>3, <2>4, CompleteDelivers
  <2>6. Lasts' = Lasts
    BY <1>1, <2>3, SameMessages
  <2> QED
    BY <2>2, <2>5, <2>6 DEF WireInv
<1>6. CASE Tells \/ Drops \/ Reads \/ Quiet
  <2>1. UNCHANGED <<wire, sent>>
    BY <1>6, TellsDoes, DropsDoes, ReadsDoes, QuietDoes
  <2>2. UNCHANGED <<wire, Lasts>>
    BY <1>1, <2>1, SameMessages
  <2> QED
    BY <1>2, <2>2 DEF WireInv
<1> QED
  BY <1>4, <1>5, <1>6, Steps

-----------------------------------------------------------------------------
(* The pairs of a STREAM socket.                                           *)

LEMMA Parity ==
  ASSUME NEW n \in Nat
  PROVE  /\ (n + 2) % 2 = n % 2 /\ n % 2 \in {0, 1}
         /\ (n + 1) % 2 = 1 <=> n % 2 = 0
         /\ (n + 1) % 2 = 0 <=> n % 2 = 1
  OBVIOUS

\* A message comes in two parts, of which the first is a routing id.
LEMMA PairsAdd ==
  ASSUME NEW S, NEW f \in Seq(S), NEW t \in {0, 1}, NEW x \in S, NEW y \in S,
         x = <<"id", <<>>>>, y[1] = "body", Pairs(f, t)
  PROVE  Pairs(Append(Append(f, x), y), t)
<1> DEFINE g == Append(Append(f, x), y)
<1>1. /\ Len(f) \in Nat /\ Len(g) = Len(f) + 2 /\ \A k \in 1..Len(f) : g[k] = f[k]
      /\ g[Len(f) + 1] = x /\ g[Len(f) + 2] = y
  BY PairAdds
<1> HIDE DEF g
<1>2. Len(f) + t \in Nat /\ (Len(f) + t) % 2 = 0 /\ Len(g) + t = (Len(f) + t) + 2
      /\ (Len(f) + 2) + t = (Len(f) + t) + 2
  BY <1>1 DEF Pairs
<1>3. (Len(g) + t) % 2 = 0 /\ ((Len(f) + 2) + t) % 2 = 0
  BY <1>2, Parity
<1>4. ASSUME NEW k \in 1..Len(g)
      PROVE  IF (k + t) % 2 = 1 THEN g[k] = <<"id", <<>>>> ELSE g[k][1] = "body"
  <2>1. k \in 1..Len(f) \/ k = Len(f) + 1 \/ k = Len(f) + 2
    BY <1>1
  <2>2. CASE k \in 1..Len(f)
    BY <1>1, <2>2 DEF Pairs
  <2>3. CASE k = Len(f) + 1
    <3>1. (k + t) % 2 = 1
      BY <1>2, <2>3
    <3> QED
      BY <1>1, <2>3, <3>1
  <2>4. CASE k = Len(f) + 2
    BY <1>1, <1>3, <2>4
  <2> QED
    BY <2>1, <2>2, <2>3, <2>4
<1> QED
  BY <1>3, <1>4 DEF Pairs, g

\* Each part that is received makes the other one the next.
LEMMA PairsTake ==
  ASSUME NEW S, NEW f \in Seq(S), NEW t \in {0, 1}, f # <<>>, Pairs(f, t)
  PROVE  Pairs(Tail(f), 1 - t)
<1> DEFINE g == Tail(f)
<1>1. /\ Len(f) \in Nat /\ Len(g) = Len(f) - 1 /\ Len(g) \in Nat
      /\ \A k \in 1..Len(g) : g[k] = f[k + 1] /\ k + 1 \in 1..Len(f)
  OBVIOUS
<1> HIDE DEF g
<1>2. ASSUME NEW k \in Nat PROVE (k + (1 - t)) % 2 = ((k + 1) + t) % 2
  <2>1. CASE t = 0
    BY <2>1
  <2>2. CASE t = 1
    <3>1. k + (1 - t) = k /\ (k + 1) + t = k + 2
      BY <2>2
    <3> QED
      BY <3>1, Parity
  <2> QED
    BY <2>1, <2>2
<1>3. (Len(g) + (1 - t)) % 2 = 0
  <2>1. (Len(g) + (1 - t)) % 2 = ((Len(g) + 1) + t) % 2
    BY <1>1, <1>2
  <2>2. (Len(g) + 1) + t = Len(f) + t
    BY <1>1
  <2> QED
    BY <2>1, <2>2 DEF Pairs
<1>4. ASSUME NEW k \in 1..Len(g)
      PROVE  IF (k + (1 - t)) % 2 = 1 THEN g[k] = <<"id", <<>>>> ELSE g[k][1] = "body"
  <2>1. (k + (1 - t)) % 2 = ((k + 1) + t) % 2
    BY <1>2
  <2> QED
    BY <1>1, <2>1 DEF Pairs
<1> QED
  BY <1>3, <1>4 DEF Pairs, g

LEMMA OnlyRawConnects ==
  ASSUME ReadoutTypes, Tells
  PROVE  Raw
<1>1. CASE ConnectionIsClosed
  BY <1>1 DEF ConnectionIsClosed
<1>2. CASE ConnectionIsMade
  <2>1. listening /\ Told < connections
    BY <1>2 DEF ConnectionIsMade, Handshake
  <2>2. args.program \in {"PUB", "RAW"}
    BY ArgumentsAssumption DEF ReadoutTypes, CardTypes, TypeOK
  <2>3. args.program # "PUB"
    BY <2>1 DEF ReadoutTypes, CardTypes, ConnectInv, Told
  <2> QED
    BY <2>2, <2>3 DEF Raw
<1> QED
  BY <1>1, <1>2 DEF Tells

LEMMA PairsStep ==
  ASSUME ReadoutTypes, PairsInv, [ReadoutNext]_all
  PROVE  PairsInv'
<1> SUFFICES ASSUME Raw', ~Ended' PROVE Pairs(frames', IdTaken')
  BY DEF PairsInv
<1> DEFINE F == {"id", "body"} \X Seq(SentUnits)
           x == <<"id", <<>>>>
<1>1. Raw /\ frames \in Seq(F) /\ IdTaken \in {0, 1} /\ x = <<"id", <<>>>>
  <2>1. UNCHANGED input
    BY CardKept DEF ReadoutTypes
  <2> QED
    BY <2>1 DEF input, Raw, ReadoutTypes, IdTaken
<1>2. Ended \/ Pairs(frames, IdTaken)
  BY <1>1 DEF PairsInv
<1>3. CASE CardSends
  <2>1. UNCHANGED <<reader, frames>>
    BY <1>1, <1>3 DEF CardSends
  <2> QED
    BY <1>2, <2>1 DEF Ended, IdTaken
<1>4. CASE Delivers
  <2>1. PICK n \in 1..Len(wire) : Deliver(n)
    BY <1>4 DEF Delivers
  <2> DEFINE y == <<"body", SubSeq(wire, 1, n)>>
  <2>2. ~Ended /\ UNCHANGED reader /\ frames' = Append(Append(frames, x), y)
        /\ SubSeq(wire, 1, n) \in Seq(SentUnits)
    BY <2>1, DeliverDoes
  <2>3. x \in F /\ y \in F /\ y[1] = "body"
    BY <2>2, FrameType
  <2> HIDE DEF F, x, y
  <2>4. Pairs(Append(Append(frames, x), y), IdTaken)
    BY <1>1, <1>2, <2>2, <2>3, PairsAdd
  <2> QED
    BY <2>2, <2>4 DEF IdTaken
<1>5. CASE Tells
  <2> DEFINE y == <<"body", <<>>>>
  <2>1. UNCHANGED reader /\ frames' = Append(Append(frames, x), y)
    BY <1>5, TellsDoes
  <2>2. x \in F /\ y \in F /\ y[1] = "body"
    <3>1. <<>> \in Seq(SentUnits)
      OBVIOUS
    <3> QED
      BY <3>1, FrameType
  <2>3. ~Ended
    BY <2>1 DEF Ended
  <2> HIDE DEF F, x, y
  <2>4. Pairs(Append(Append(frames, x), y), IdTaken)
    BY <1>1, <1>2, <2>2, <2>3, PairsAdd
  <2> QED
    BY <2>1, <2>4 DEF IdTaken
<1>6. CASE Drops
  <2>1. frames # <<>> /\ frames' = Tail(frames)
        /\ \/ reader = "id" /\ reader' = "body"
           \/ reader = "body" /\ reader' = "id"
    BY <1>6, DropsDoes
  <2>2. ~Ended /\ IdTaken' = 1 - IdTaken
    BY <2>1 DEF Ended, IdTaken
  <2> HIDE DEF F
  <2> QED
    BY <1>1, <1>2, <2>1, <2>2, PairsTake
<1>7. CASE Reads
  <2>1. reader = "body" /\ frames # <<>> /\ frames' = Tail(frames)
        /\ (reader' = "ended" \/ reader' = First)
    BY <1>7, ReadsDoes
  <2>2. ~Ended /\ IdTaken' = 1 - IdTaken
    BY <1>1, <2>1 DEF Ended, IdTaken, First
  <2> HIDE DEF F
  <2> QED
    BY <1>1, <1>2, <2>1, <2>2, PairsTake
<1>8. CASE Quiet
  <2>1. UNCHANGED frames /\ (Ended => Ended') /\ (reader' = "body" <=> reader = "body")
    BY <1>1, <1>8, QuietDoes
  <2> QED
    BY <1>2, <2>1 DEF IdTaken
<1> QED
  BY <1>3, <1>4, <1>5, <1>6, <1>7, <1>8, Steps

LEMMA PublishedStep ==
  ASSUME ReadoutTypes, PublishedInv, [ReadoutNext]_all
  PROVE  PublishedInv'
<1> DEFINE F == {"id", "body"} \X Seq(SentUnits)
<1> SUFFICES ASSUME ~Raw' PROVE \A k \in 1..Len(frames') : frames'[k][1] = "body"
  BY DEF PublishedInv
<1>1. ~Raw /\ frames \in Seq(F) /\ \A k \in 1..Len(frames) : frames[k][1] = "body"
  <2>1. UNCHANGED input
    BY CardKept DEF ReadoutTypes
  <2> QED
    BY <2>1 DEF input, Raw, ReadoutTypes, PublishedInv
<1> HIDE DEF F
<1>2. CASE CardSends
  <2>1. PICK u : frames' = frames \/ frames' = Append(frames, <<"body", u>>)
    BY <1>2 DEF CardSends
  <2> QED
    BY <1>1, <2>1
<1>3. ~Delivers /\ ~Tells /\ ~Drops
  BY <1>1, DeliverDoes, OnlyRawConnects, DropsDoes DEF Delivers
<1>4. CASE Reads
  <2>1. frames # <<>> /\ frames' = Tail(frames)
    BY <1>4, ReadsDoes
  <2>2. \A k \in 1..Len(frames') : frames'[k] = frames[k + 1] /\ k + 1 \in 1..Len(frames)
    BY <1>1, <2>1
  <2> QED
    BY <1>1, <2>2
<1>5. CASE Quiet
  <2>1. UNCHANGED frames
    BY <1>5, QuietDoes
  <2> QED
    BY <1>1, <2>1
<1> QED
  BY <1>2, <1>3, <1>4, <1>5, Steps

-----------------------------------------------------------------------------
(* The messages a socket holds, while each chunk is one.                   *)

\* One more.
LEMMA HoldsAdds ==
  ASSUME NEW S, NEW f \in Seq(S), NEW units, NEW more, NEW lo \in Nat, NEW hi \in Nat, NEW c, NEW kind,
         Holds(units, f, lo, hi), lo <= hi + 1, \A m \in lo..hi : more[m] = units[m], c = more[hi + 1],
         <<kind, c>> \in S
  PROVE  Holds(more, Append(f, <<kind, c>>), lo, hi + 1)
<1> DEFINE g == Append(f, <<kind, c>>)
<1>1. /\ Len(f) \in Nat /\ Len(g) = Len(f) + 1 /\ g[Len(f) + 1][2] = c
      /\ \A k \in 1..Len(f) : g[k] = f[k] /\ k \in 1..Len(g)
  BY AppendProperties
<1> HIDE DEF g
<1>2. ASSUME NEW k \in 1..Len(g) PROVE g[k][2] = <<>> \/ \E m \in lo..(hi + 1) : g[k][2] = more[m]
  <2>1. CASE k \in 1..Len(f)
    <3>1. f[k][2] = <<>> \/ \E m \in lo..hi : f[k][2] = units[m]
      BY <2>1 DEF Holds
    <3>2. \A m \in lo..hi : m \in lo..(hi + 1)
      OBVIOUS
    <3> QED
      BY <1>1, <2>1, <3>1, <3>2
  <2>2. CASE k = Len(f) + 1
    <3>1. hi + 1 \in lo..(hi + 1)
      OBVIOUS
    <3> QED
      BY <1>1, <2>2, <3>1
  <2> QED
    BY <1>1, <2>1, <2>2
<1>3. ASSUME NEW m \in lo..(hi + 1) PROVE \E k \in 1..Len(g) : g[k][2] = more[m]
  <2>1. CASE m = hi + 1
    <3>1. Len(f) + 1 \in 1..Len(g)
      BY <1>1
    <3> QED
      BY <1>1, <2>1, <3>1
  <2>2. CASE m # hi + 1
    <3>1. m \in lo..hi
      BY <2>2
    <3>2. PICK k \in 1..Len(f) : f[k][2] = units[m]
      BY <3>1 DEF Holds
    <3> QED
      BY <1>1, <3>1, <3>2
  <2> QED
    BY <2>1, <2>2
<1> QED
  BY <1>2, <1>3 DEF Holds, g

LEMMA HoldsTells ==
  ASSUME NEW S, NEW f \in Seq(S), NEW units, NEW lo, NEW hi, NEW kind,
         Holds(units, f, lo, hi), <<kind, <<>>>> \in S
  PROVE  Holds(units, Append(f, <<kind, <<>>>>), lo, hi)
<1> DEFINE x == <<kind, <<>>>>
           g == Append(f, x)
<1>0. x[2] = <<>>
  OBVIOUS
<1> HIDE DEF x
<1>1. /\ Len(f) \in Nat /\ Len(g) = Len(f) + 1 /\ g[Len(f) + 1] = x
      /\ \A k \in 1..Len(f) : g[k] = f[k] /\ k \in 1..Len(g)
  BY AppendProperties DEF x
<1> HIDE DEF g
<1>2. \A k \in 1..Len(g) : k \in 1..Len(f) \/ k = Len(f) + 1
  BY <1>1
<1> QED
  BY <1>0, <1>1, <1>2 DEF Holds, g, x

LEMMA HoldsDrops ==
  ASSUME NEW S, NEW f \in Seq(S), NEW units, NEW lo, NEW hi,
         Holds(units, f, lo, hi), f # <<>>, Head(f)[2] = <<>>, \A m \in lo..hi : units[m] # <<>>
  PROVE  Holds(units, Tail(f), lo, hi)
<1> DEFINE g == Tail(f)
<1>1. /\ Len(g) \in Nat /\ Len(f) = Len(g) + 1 /\ f[1][2] = <<>>
      /\ \A k \in 1..Len(g) : g[k] = f[k + 1] /\ k + 1 \in 1..Len(f)
  OBVIOUS
<1> HIDE DEF g
<1>2. \A k \in 1..Len(f) : k = 1 \/ (k - 1 \in 1..Len(g) /\ g[k - 1] = f[k])
  BY <1>1
<1>3. \A k \in 1..Len(g) : g[k][2] = <<>> \/ \E m \in lo..hi : g[k][2] = units[m]
  BY <1>1 DEF Holds
<1>4. ASSUME NEW m \in lo..hi PROVE \E k \in 1..Len(g) : g[k][2] = units[m]
  <2>1. PICK k \in 1..Len(f) : f[k][2] = units[m]
    BY DEF Holds
  <2>2. k # 1
    BY <1>1, <2>1
  <2> QED
    BY <1>2, <2>1, <2>2
<1> QED
  BY <1>3, <1>4 DEF Holds, g

\* The first message in the socket is the earliest of those it holds.
LEMMA HoldsReads ==
  ASSUME NEW S, NEW f \in Seq(S), NEW units, NEW lo \in Nat, NEW hi \in Nat,
         Holds(units, f, lo, hi), f # <<>>, Head(f)[2] # <<>>, AcrossFrames(f),
         \A m \in lo..hi : units[m][1] = <<m, 0>> /\ 1 \in 1..Len(units[m])
  PROVE  lo <= hi /\ Head(f)[2] = units[lo] /\ Holds(units, Tail(f), lo + 1, hi)
<1> DEFINE g == Tail(f)
<1>1. /\ Len(g) \in Nat /\ Len(f) = Len(g) + 1 /\ f[1] = Head(f) /\ 1 \in 1..Len(f)
      /\ \A k \in 1..Len(g) : g[k] = f[k + 1] /\ k + 1 \in 1..Len(f)
  OBVIOUS
<1> HIDE DEF g
<1>2. \A k \in 1..Len(f) : k = 1 \/ (k - 1 \in 1..Len(g) /\ g[k - 1] = f[k] /\ 1 < k)
  BY <1>1
<1>3. PICK m \in lo..hi : f[1][2] = units[m]
  BY <1>1 DEF Holds
<1>4. ASSUME NEW k \in 1..Len(f), k # 1, NEW j \in lo..hi, f[k][2] = units[j] PROVE m < j
  <2>1. Before(f[1][2][1], f[k][2][1])
    BY <1>1, <1>2, <1>3, <1>4 DEF AcrossFrames
  <2>2. Before(<<m, 0>>, <<j, 0>>)
    BY <1>3, <1>4, <2>1
  <2> QED
    BY <2>2 DEF Before
<1>5. lo \in lo..hi
  BY <1>3
<1>6. m = lo
  <2>1. PICK k \in 1..Len(f) : f[k][2] = units[lo]
    BY <1>5 DEF Holds
  <2>2. k = 1 \/ m < lo
    BY <1>4, <1>5, <2>1
  <2>3. k = 1
    BY <2>2
  <2>4. units[m][1] = units[lo][1]
    BY <1>3, <2>1, <2>3
  <2>5. <<m, 0>> = <<lo, 0>>
    BY <1>5, <2>4
  <2> QED
    BY <2>5
<1>7. ASSUME NEW k \in 1..Len(g) PROVE g[k][2] = <<>> \/ \E j \in (lo + 1)..hi : g[k][2] = units[j]
  <2>1. k + 1 \in 1..Len(f) /\ k + 1 # 1 /\ g[k] = f[k + 1]
    BY <1>1
  <2>2. f[k + 1][2] = <<>> \/ \E j \in lo..hi : f[k + 1][2] = units[j]
    BY <2>1 DEF Holds
  <2>3. CASE \E j \in lo..hi : f[k + 1][2] = units[j]
    <3>1. PICK j \in lo..hi : f[k + 1][2] = units[j]
      BY <2>3
    <3>2. lo < j
      BY <1>4, <1>6, <2>1, <3>1
    <3>3. j \in (lo + 1)..hi
      BY <3>2
    <3> QED
      BY <2>1, <3>1, <3>3
  <2> QED
    BY <2>1, <2>2, <2>3
<1>8. ASSUME NEW j \in (lo + 1)..hi PROVE \E k \in 1..Len(g) : g[k][2] = units[j]
  <2>1. j \in lo..hi /\ j # lo
    OBVIOUS
  <2>2. PICK k \in 1..Len(f) : f[k][2] = units[j]
    BY <2>1 DEF Holds
  <2>3. k # 1
    <3> SUFFICES ASSUME k = 1 PROVE FALSE
      OBVIOUS
    <3>1. units[lo][1] = units[j][1]
      BY <1>3, <1>6, <2>2
    <3>2. <<lo, 0>> = <<j, 0>>
      BY <1>5, <2>1, <3>1
    <3> QED
      BY <2>1, <3>2
  <2> QED
    BY <1>2, <2>2, <2>3
<1>9. Holds(units, g, lo + 1, hi)
  BY <1>7, <1>8 DEF Holds
<1> QED
  BY <1>1, <1>3, <1>6, <1>5, <1>9 DEF g

\* Messages that are sent later change nothing.
LEMMA HoldsSame ==
  ASSUME NEW f, NEW units, NEW more, NEW lo, NEW hi,
         Holds(units, f, lo, hi), \A m \in lo..hi : more[m] = units[m]
  PROVE  Holds(more, f, lo, hi)
  BY DEF Holds

LEMMA AllUnitsType ==
  ASSUME ReadoutTypes, NEW m \in 1..Len(sent)
  PROVE  /\ AllUnits[m] = UnitsOf(m) /\ AllUnits[m] # <<>> /\ AllUnits[m][1] = <<m, 0>>
         /\ 1 \in 1..Len(AllUnits[m])
<1>1. AllUnits[m] = UnitsOf(m)
  BY DEF AllUnits
<1>2. Len(word_lists[sent[m]]) \in Nat
  BY SentType
<1>3. Len(UnitsOf(m)) = 1 + 2 * Len(word_lists[sent[m]]) /\ UnitsOf(m)[1] = <<m, 0>> /\ UnitsOf(m) # <<>>
  BY UnitsType
<1>4. 1 \in 1..Len(UnitsOf(m))
  BY <1>2, <1>3
<1> QED
  BY <1>1, <1>3, <1>4

\* What is under way has a number.
LEMMA DeliveredType ==
  ASSUME ReadoutTypes
  PROVE  /\ Delivered \in 0..Len(sent) /\ Len(sent) \in Nat /\ Len(read) \in Nat
         /\ (~Raw => Delivered = Len(sent))
         /\ \A m \in 1..Delivered : m \in 1..Len(sent)
<1>1. wire \in Seq(SentUnits) /\ (~Raw => wire = <<>>) /\ Len(sent) \in Nat /\ Len(read) \in Nat
  BY SentType DEF ReadoutTypes
<1>2. CASE wire = <<>>
  BY <1>1, <1>2 DEF Delivered, Ahead
<1>3. CASE wire # <<>>
  <2>1. wire[1] \in SentUnits
    BY <1>1, <1>3
  <2>2. wire[1][1] \in 1..Len(sent)
    BY <2>1 DEF SentUnits
  <2> QED
    BY <1>1, <1>3, <2>2 DEF Delivered, Ahead
<1> QED
  BY <1>2, <1>3

-----------------------------------------------------------------------------
(* While each chunk is a message.                                          *)

\* What a message is stays what it was when another is sent.
LEMMA SendsUnits ==
  ASSUME ReadoutTypes, CardSends, CardTypes', UNCHANGED input, NEW n, n = Len(sent) + 1
  PROVE  /\ \A m \in 1..Len(sent) : AllUnits'[m] = AllUnits[m] /\ WordsOf(m)' = WordsOf(m)
         /\ AllUnits'[n] = UnitsOf(n)' /\ UnitsOf(n)' # <<>>
<1>1. /\ Len(sent') = Len(sent) + 1 /\ Len(sent) \in Nat
      /\ \A m \in 1..Len(sent) : UNCHANGED <<UnitsOf(m), WordsOf(m)>>
  BY SendsDoes, SentType
<1>2. AllUnits' = [m \in 1..(Len(sent) + 1) |-> UnitsOf(m)']
  BY <1>1 DEF AllUnits
<1>3. ASSUME NEW m \in 1..Len(sent) PROVE AllUnits'[m] = AllUnits[m]
  <2>1. m \in 1..(Len(sent) + 1)
    BY <1>1
  <2>2. AllUnits'[m] = UnitsOf(m)'
    BY <1>2, <2>1
  <2>3. AllUnits[m] = UnitsOf(m)
    BY DEF AllUnits
  <2>4. UnitsOf(m)' = UnitsOf(m)
    BY <1>1
  <2> QED
    BY <2>2, <2>3, <2>4
<1>4. AllUnits'[n] = UnitsOf(n)'
  <2>1. n \in 1..(Len(sent) + 1)
    BY <1>1
  <2> QED
    BY <1>2, <2>1
<1>5. UnitsOf(n)' # <<>>
  <2>1. Len(UnitsOf(n)') \in Nat \ {0}
    BY SendsTypes
  <2> QED
    BY <2>1
<1> QED
  BY <1>1, <1>3, <1>4, <1>5

LEMMA WholeSends ==
  ASSUME ReadoutTypes, CardSends, CardTypes', UNCHANGED input, NEW d \in 0..Len(sent), WholeFor(d)
  PROVE  \E e \in 0..Len(sent)' : WholeFor(e)'
<1>1. PICK n : n = Len(sent) + 1
  OBVIOUS
<1>2. PICK u : u = UnitsOf(n)'
  OBVIOUS
<1>3. PICK more : more = AllUnits'
  OBVIOUS
<1>4. /\ UNCHANGED <<args, listening, reader, read>> /\ Len(sent') = n /\ Len(sent) \in Nat /\ n \in Nat
      /\ wire' = IF Raw THEN wire \o u ELSE wire
      /\ frames' = IF ~Raw /\ listening THEN Append(frames, <<"body", u>>) ELSE frames
      /\ Len(read) \in Nat /\ d \in Nat
  BY <1>1, <1>2, SendsDoes, SentType
<1>5. Raw' = Raw /\ Ended' = Ended
  BY <1>4 DEF Raw, Ended
<1>6. /\ \A m \in 1..Len(sent) : more[m] = AllUnits[m] /\ WordsOf(m)' = WordsOf(m)
      /\ more[n] = u /\ u # <<>>
  BY <1>1, <1>2, <1>3, SendsUnits
<1>7. u \in Seq(SentUnits') /\ u[1] = <<n, 0>> /\ Len(u) \in Nat \ {0}
  <2>1. u \in Seq(SentUnits') /\ Len(u) \in Nat \ {0} /\ \A k \in 1..Len(u) : u[k] = <<n, k - 1>>
    BY <1>1, <1>2, SendsTypes
  <2>2. 1 \in 1..Len(u)
    BY <2>1
  <2>3. u[1] = <<n, 1 - 1>>
    BY <2>1, <2>2
  <2> QED
    BY <2>1, <2>3
<1>8. wire \in Seq(SentUnits) /\ (~Raw => wire = <<>>)
  BY DEF ReadoutTypes
<1>9. /\ wire' # <<>> => IsHeader(wire'[1])
      /\ Delivered' = IF Raw THEN Delivered ELSE n
  <2>1. CASE Raw /\ wire # <<>>
    <3>1. wire' # <<>> /\ wire'[1] = wire[1]
      <4>1. wire' = wire \o u
        BY <1>4, <2>1
      <4>2. Len(wire) \in Nat /\ Len(wire) # 0 /\ 1 \in 1..Len(wire)
        BY <1>8, <2>1
      <4>3. (wire \o u)[1] = wire[1] /\ wire \o u # <<>>
        BY <1>7, <1>8, <4>2
      <4> QED
        BY <4>1, <4>3
    <3>2. IsHeader(wire[1])
      BY <2>1 DEF WholeFor
    <3> QED
      BY <2>1, <3>1, <3>2 DEF Delivered, Ahead
  <2>2. CASE Raw /\ wire = <<>>
    <3>1. wire' = u
      BY <1>4, <1>7, <2>2
    <3>2. u[1][1] = n /\ IsHeader(u[1])
      BY <1>7 DEF IsHeader
    <3>3. Ahead(u, n) = n - 1 /\ n - 1 = Len(sent)
      BY <1>1, <1>4, <1>6, <3>2 DEF Ahead
    <3> QED
      BY <1>4, <2>2, <3>1, <3>2, <3>3 DEF Delivered, Ahead
  <2>3. CASE ~Raw
    BY <1>4, <1>8, <2>3 DEF Delivered, Ahead
  <2> QED
    BY <2>1, <2>2, <2>3
<1>10. /\ Raw => d = 0
       /\ d + Len(read) <= Len(sent)
       /\ \A k \in 1..Len(read) : read[k] = WordsOf(d + k)'
  <2>1. /\ Raw => d = 0
        /\ d + Len(read) <= Len(sent)
        /\ \A k \in 1..Len(read) : read[k] = WordsOf(d + k)
    BY DEF WholeFor
  <2>2. \A k \in 1..Len(read) : d + k \in 1..Len(sent)
    BY <1>4, <2>1
  <2> QED
    BY <1>6, <2>1, <2>2
<1>11. CASE Ended
  <2>1. WholeFor(d)'
    <3>1. d + Len(read') <= Len(sent')
      BY <1>1, <1>4, <1>10
    <3> QED
      BY <1>4, <1>5, <1>9, <1>10, <1>11, <3>1 DEF WholeFor
  <2> QED
    BY <1>1, <1>4, <2>1
<1>12. CASE ~Ended /\ Raw
  <2>1. WholeFor(d)'
    <3>1. d + Len(read') <= Len(sent')
      BY <1>1, <1>4, <1>10
    <3>2. /\ Delivered' = Delivered /\ d + Len(read) <= Delivered
          /\ Holds(AllUnits, frames, d + Len(read) + 1, Delivered)
      BY <1>9, <1>12 DEF WholeFor
    <3>3. \A m \in (d + Len(read) + 1)..Delivered : more[m] = AllUnits[m]
      <4>1. Delivered \in 0..Len(sent)
        BY DeliveredType
      <4>2. \A m \in (d + Len(read) + 1)..Delivered : m \in 1..Len(sent)
        BY <1>4, <4>1
      <4> QED
        BY <1>6, <4>2
    <3>4. Holds(more, frames, d + Len(read) + 1, Delivered)
      BY <3>2, <3>3, HoldsSame
    <3>5. frames' = frames
      BY <1>4, <1>12
    <3> QED
      BY <1>3, <1>4, <1>5, <1>9, <1>10, <1>12, <3>1, <3>2, <3>4, <3>5 DEF WholeFor
  <2> QED
    BY <1>1, <1>4, <2>1
<1>13. CASE ~Ended /\ ~Raw /\ listening
  <2> DEFINE F == {"id", "body"} \X Seq(SentUnits')
  <2>1. frames \in Seq(F) /\ <<"body", u>> \in F
    <3>1. frames \in Seq({"id", "body"} \X Seq(SentUnits)) /\ SentUnits \subseteq SentUnits'
      BY <1>1, SendsDoes DEF ReadoutTypes
    <3>2. Seq(SentUnits) \subseteq Seq(SentUnits')
      BY <3>1, SeqGrows
    <3>3. {"id", "body"} \X Seq(SentUnits) \subseteq F
      BY <3>2
    <3>4. <<"body", u>> \in F
      BY <1>7, FrameType
    <3> HIDE DEF F
    <3> QED
      BY <3>1, <3>3, <3>4, SeqGrows
  <2> HIDE DEF F
  <2>2. PICK lo : lo = d + Len(read) + 1
    OBVIOUS
  <2>3. /\ Delivered = Len(sent) /\ d + Len(read) <= Delivered
        /\ Holds(AllUnits, frames, lo, Len(sent))
        /\ \A k \in 1..Len(frames) : frames[k][2] # <<>>
    BY <1>13, <2>2, DeliveredType DEF WholeFor
  <2>4. lo \in Nat /\ lo <= n /\ \A m \in lo..Len(sent) : m \in 1..Len(sent)
    BY <1>1, <1>4, <2>2, <2>3
  <2>5. \A m \in lo..Len(sent) : more[m] = AllUnits[m]
    BY <1>6, <2>4
  <2>6. frames' = Append(frames, <<"body", u>>)
    BY <1>4, <1>13
  <2>7. Holds(more, frames', lo, n)
    <3>1. Holds(more, Append(frames, <<"body", u>>), lo, Len(sent) + 1)
      BY <1>1, <1>4, <1>6, <2>1, <2>3, <2>4, <2>5, HoldsAdds
    <3> QED
      BY <1>1, <2>6, <3>1
  <2>8. \A k \in 1..Len(frames') : frames'[k][2] # <<>>
    <3>1. /\ Len(frames') = Len(frames) + 1 /\ frames'[Len(frames) + 1] = <<"body", u>>
          /\ Len(frames) \in Nat
          /\ \A k \in 1..Len(frames) : frames'[k] = frames[k]
      BY <2>1, <2>6, AppendProperties
    <3>2. \A k \in 1..Len(frames') : k \in 1..Len(frames) \/ k = Len(frames) + 1
      BY <3>1
    <3> QED
      BY <1>6, <2>3, <3>1, <3>2
  <2>9. WholeFor(d)'
    <3>1. d + Len(read') <= Len(sent') /\ Delivered' = n /\ d + Len(read') <= n
      BY <1>1, <1>4, <1>9, <1>10, <1>13
    <3> QED
      BY <1>3, <1>4, <1>5, <1>9, <1>10, <1>13, <2>2, <2>7, <2>8, <3>1 DEF WholeFor
  <2> QED
    BY <1>1, <1>4, <2>9
<1>14. CASE ~Ended /\ ~Raw /\ ~listening
  <2>1. d = Len(sent) /\ frames = <<>> /\ frames' = <<>>
    BY <1>4, <1>14 DEF WholeFor
  <2>2. Len(read) = 0 /\ Len(frames) = 0
    BY <1>4, <1>10, <2>1
  <2>3. Delivered' = n /\ Len(sent') = n /\ Len(read') = 0
    BY <1>4, <1>9, <1>14, <2>2
  <2>4. Holds(more, <<>>, n + 0 + 1, n)
    <3>1. 1..Len(<<>>) = {} /\ (n + 0 + 1)..n = {}
      BY <1>4
    <3> QED
      BY <3>1 DEF Holds
  <2>5. WholeFor(n)'
    <3>1. n + Len(read') <= Len(sent') /\ n + Len(read') <= Delivered' /\ n + Len(read') + 1 = n + 0 + 1
      BY <1>4, <2>3
    <3>2. 1..Len(read') = {} /\ 1..Len(frames') = {}
      BY <2>1, <2>3
    <3>3. Holds(more, frames', n + Len(read') + 1, Delivered')
      BY <2>1, <2>3, <2>4, <3>1
    <3> QED
      BY <1>3, <1>4, <1>5, <1>9, <1>14, <2>1, <2>3, <3>1, <3>2, <3>3 DEF WholeFor
  <2> QED
    BY <1>4, <2>5
<1> QED
  BY <1>11, <1>12, <1>13, <1>14

LEMMA WholeDelivers ==
  ASSUME ReadoutTypes, WireInv, NEW n \in 1..Len(wire), Deliver(n), UNCHANGED input, whole',
         NEW d \in 0..Len(sent), WholeFor(d)
  PROVE  WholeFor(d)'
<1> DEFINE F == {"id", "body"} \X Seq(SentUnits)
           x == <<"id", <<>>>>
<1>1. PICK c : c = SubSeq(wire, 1, n)
  OBVIOUS
<1>2. PICK m : m = wire[1][1]
  OBVIOUS
<1>3. /\ UNCHANGED <<input, listening, reader, read, sent>> /\ ~Ended /\ Raw
      /\ c \in Seq(SentUnits) /\ wire' \in Seq(SentUnits)
      /\ Len(c) = n /\ Len(wire) = n + Len(wire')
      /\ \A a \in 1..n : c[a] = wire[a]
      /\ \A b \in 1..Len(wire') : wire'[b] = wire[n + b]
      /\ frames' = Append(Append(frames, x), <<"body", c>>)
      /\ \A k \in 2..n : ~IsHeader(c[k])
      /\ wire' = <<>> \/ IsHeader(wire'[1])
  BY <1>1, DeliverDoes
<1>4. UNCHANGED <<Raw, AllUnits, Ended>> /\ \A k : UNCHANGED WordsOf(k)
  BY <1>3, SameMessages DEF AllUnits, Ended
<1>5. /\ wire \in Seq(SentUnits) /\ Len(wire) \in Nat /\ wire # <<>>
      /\ n \in Nat /\ n >= 1 /\ Len(sent) \in Nat
      /\ Len(read) \in Nat /\ d \in Nat
  BY SentType DEF ReadoutTypes
<1>6. IsHeader(wire[1])
  BY <1>5 DEF WholeFor
<1>7. \A k \in 2..n : ~IsHeader(wire[k])
  BY <1>3
<1>8. /\ m \in 1..Len(sent) /\ c = UnitsOf(m)
       /\ IF wire' = <<>> THEN m = Len(sent) ELSE wire'[1] = <<m + 1, 0>>
  <2>1. CASE n = Len(wire)
    <3>1. m \in 1..Len(sent) /\ c = UnitsOf(m) /\ m = Len(sent)
      BY <1>1, <1>2, <1>6, <1>7, <2>1, ChunkIsMessage
    <3>2. wire' = <<>>
      BY <1>3, <1>5, <2>1
    <3> QED
      BY <3>1, <3>2
  <2>2. CASE n # Len(wire)
    <3>1. wire' # <<>> /\ wire'[1] = wire[n + 1]
      BY <1>3, <1>5, <2>2
    <3>2. IsHeader(wire[n + 1])
      BY <1>3, <3>1
    <3>3. m \in 1..Len(sent) /\ c = UnitsOf(m) /\ wire[n + 1] = <<m + 1, 0>>
      BY <1>1, <1>2, <1>6, <1>7, <2>2, <3>2, ChunkIsMessage
    <3> QED
      BY <3>1, <3>3
  <2> QED
    BY <2>1, <2>2
<1>9. Delivered = m - 1 /\ Delivered' = m /\ m \in Nat
  <2>1. Delivered = m - 1
    BY <1>2, <1>5 DEF Delivered, Ahead
  <2>2. Delivered' = m
    <3>1. CASE wire' = <<>>
      BY <1>3, <1>8, <3>1 DEF Delivered, Ahead
    <3>2. CASE wire' # <<>>
      <4>1. wire'[1][1] = m + 1
        BY <1>8, <3>2
      <4>2. (m + 1) - 1 = m
        BY <1>8
      <4> QED
        BY <3>2, <4>1, <4>2 DEF Delivered, Ahead
    <3> QED
      BY <3>1, <3>2
  <2> QED
    BY <1>8, <2>1, <2>2
<1>10. PICK lo : lo = d + Len(read) + 1
  OBVIOUS
<1>11. d + Len(read) <= m - 1 /\ Holds(AllUnits, frames, lo, m - 1)
  BY <1>3, <1>9, <1>10 DEF WholeFor
<1>12. Holds(AllUnits, frames', lo, m)
  <2>1. frames \in Seq(F) /\ x \in F /\ <<"body", c>> \in F
    BY <1>3, FrameType DEF ReadoutTypes
  <2>2. Holds(AllUnits, Append(frames, x), lo, m - 1)
    <3> HIDE DEF F
    <3> QED
      BY <1>11, <2>1, HoldsTells
  <2>3. Append(frames, x) \in Seq(F)
    <3> HIDE DEF F, x
    <3> QED
      BY <2>1, AppendProperties
  <2>4. c = AllUnits[(m - 1) + 1]
    <3>1. (m - 1) + 1 = m
      BY <1>9
    <3> QED
      BY <1>8, <3>1, AllUnitsType
  <2>5. lo \in Nat /\ m - 1 \in Nat /\ lo <= (m - 1) + 1 /\ (m - 1) + 1 = m
    BY <1>5, <1>8, <1>10, <1>11
  <2> HIDE DEF F, x
  <2>6. PICK f : f = Append(frames, x)
    OBVIOUS
  <2>7. PICK units : units = AllUnits
    OBVIOUS
  <2>8. Holds(units, Append(f, <<"body", c>>), lo, (m - 1) + 1)
    <3>1. f \in Seq(F) /\ Holds(units, f, lo, m - 1) /\ c = units[(m - 1) + 1]
      BY <2>2, <2>3, <2>4, <2>6, <2>7
    <3> QED
      BY <2>1, <2>5, <3>1, HoldsAdds
  <2> QED
    BY <1>3, <2>5, <2>6, <2>7, <2>8
<1>13. /\ Raw => d = 0
       /\ d + Len(read) <= Len(sent)
       /\ \A k \in 1..Len(read) : read[k] = WordsOf(d + k)
  BY DEF WholeFor
<1>14. d + Len(read') <= Delivered'
  BY <1>3, <1>5, <1>9, <1>11
<1> QED
  BY <1>3, <1>4, <1>9, <1>10, <1>12, <1>13, <1>14 DEF WholeFor

\* Only a card that connects is waited for.
LEMMA WholeTells ==
  ASSUME ReadoutTypes, Tells, UNCHANGED input, NEW d \in 0..Len(sent), WholeFor(d)
  PROVE  WholeFor(d)'
<1> DEFINE F == {"id", "body"} \X Seq(SentUnits)
           x == <<"id", <<>>>>
           y == <<"body", <<>>>>
<1>1. UNCHANGED <<listening, reader, read, wire, sent>> /\ frames' = Append(Append(frames, x), y) /\ Raw
  BY TellsDoes, OnlyRawConnects
<1>2. UNCHANGED <<Raw, AllUnits, Ended, Delivered>> /\ \A k : UNCHANGED WordsOf(k)
  BY <1>1, SameMessages DEF AllUnits, Ended, Delivered
<1>3. ASSUME NEW lo, NEW hi, Holds(AllUnits, frames, lo, hi) PROVE Holds(AllUnits, frames', lo, hi)
  <2>1. frames \in Seq(F) /\ x \in F /\ y \in F
    <3>1. <<>> \in Seq(SentUnits)
      OBVIOUS
    <3> QED
      BY <3>1, FrameType DEF ReadoutTypes
  <2>2. Holds(AllUnits, Append(frames, x), lo, hi)
    <3> HIDE DEF F
    <3> QED
      BY <1>3, <2>1, HoldsTells
  <2>3. Append(frames, x) \in Seq(F)
    <3> HIDE DEF F, x
    <3> QED
      BY <2>1, AppendProperties
  <2>4. Holds(AllUnits, Append(Append(frames, x), y), lo, hi)
    <3> HIDE DEF F, x
    <3> QED
      BY <2>1, <2>2, <2>3, HoldsTells
  <2> QED
    BY <1>1, <2>4
<1> HIDE DEF x, y
<1> QED
  BY <1>1, <1>2, <1>3 DEF WholeFor

LEMMA WholeDrops ==
  ASSUME ReadoutTypes, PairsInv, Drops, UNCHANGED input, NEW d \in 0..Len(sent), WholeFor(d)
  PROVE  WholeFor(d)'
<1> DEFINE F == {"id", "body"} \X Seq(SentUnits)
<1>1. /\ UNCHANGED <<listening, messages, read, wire, closed, sent, whole>> /\ frames # <<>>
      /\ frames' = Tail(frames) /\ Raw
      /\ \/ reader = "id" /\ reader' = "body"
         \/ reader = "body" /\ reader' = "id" /\ Head(frames)[2] = <<>>
  BY DropsDoes
<1>2. UNCHANGED <<Raw, AllUnits, Delivered>> /\ \A k : UNCHANGED WordsOf(k)
  BY <1>1, SameMessages DEF AllUnits, Delivered
<1>3. ~Ended /\ ~Ended'
  BY <1>1 DEF Ended
<1>4. Head(frames)[2] = <<>>
  <2>1. CASE reader = "id"
    <3>1. 1 \in 1..Len(frames) /\ frames[1] = Head(frames) /\ (1 + 0) % 2 = 1
      BY <1>1 DEF ReadoutTypes
    <3>2. IdTaken = 0
      BY <2>1 DEF IdTaken
    <3>3. Pairs(frames, 0)
      BY <1>1, <1>3, <3>2 DEF PairsInv
    <3> QED
      BY <3>1, <3>3 DEF Pairs
  <2> QED
    BY <1>1, <2>1
<1>5. PICK lo : lo = d + Len(read) + 1
  OBVIOUS
<1>6. Holds(AllUnits, frames, lo, Delivered) /\ d + Len(read) <= Delivered
  BY <1>3, <1>5 DEF WholeFor
<1>7. Holds(AllUnits, Tail(frames), lo, Delivered)
  <2>1. \A m \in lo..Delivered : AllUnits[m] # <<>>
    <3>1. \A m \in lo..Delivered : m \in 1..Delivered
      BY <1>5, DeliveredType
    <3> QED
      BY <3>1, DeliveredType, AllUnitsType
  <2>2. frames \in Seq(F)
    BY DEF ReadoutTypes
  <2> HIDE DEF F
  <2> QED
    BY <1>1, <1>4, <1>6, <2>1, <2>2, HoldsDrops
<1> QED
  BY <1>1, <1>2, <1>3, <1>5, <1>6, <1>7 DEF WholeFor

LEMMA WholeReads ==
  ASSUME ReadoutTypes, OrderInv, PairsInv, PublishedInv, Reads, UNCHANGED input, NEW d \in 0..Len(sent), WholeFor(d)
  PROVE  WholeFor(d)' /\ messages' = Len(read')
<1> DEFINE F == {"id", "body"} \X Seq(SentUnits)
<1>1. /\ UNCHANGED <<wire, closed, sent, whole>>
      /\ reader = "body" /\ frames # <<>> /\ frames' = Tail(frames) /\ messages' = messages + 1
      /\ Raw => Head(frames) # <<"body", <<>>>>
  BY ReadsDoes
<1>2. UNCHANGED <<Raw, AllUnits, Delivered>> /\ \A k : UNCHANGED WordsOf(k)
  BY <1>1, SameMessages DEF AllUnits, Delivered
<1>3. ~Ended /\ messages = Len(read)
  BY <1>1 DEF Ended, ReadoutTypes
<1>4. /\ frames \in Seq(F) /\ 1 \in 1..Len(frames) /\ frames[1] = Head(frames)
      /\ Len(frames') = Len(frames) - 1
      /\ \A k \in 1..Len(frames') : frames'[k] = frames[k + 1] /\ k + 1 \in 1..Len(frames)
  BY <1>1 DEF ReadoutTypes
<1>0. Head(frames)[1] = "body"
  <2>1. CASE Raw
    <3>1. Pairs(frames, 1) /\ (1 + 1) % 2 = 0
      BY <1>1, <1>3, <2>1 DEF PairsInv, IdTaken
    <3> QED
      BY <1>4, <3>1 DEF Pairs
  <2>2. CASE ~Raw
    BY <1>4, <2>2 DEF PublishedInv
  <2> QED
    BY <2>1, <2>2
<1>5. Head(frames)[2] # <<>>
  <2>1. ~Raw => \A k \in 1..Len(frames) : frames[k][2] # <<>>
    BY <1>3 DEF WholeFor
  <2>2. Head(frames) = <<"body", Head(frames)[2]>>
    <3>1. Head(frames) \in F
      BY <1>4
    <3> QED
      BY <1>0, <3>1
  <2> QED
    BY <1>1, <1>4, <2>1, <2>2
<1>6. PICK lo : lo = d + Len(read) + 1
  OBVIOUS
<1>7. /\ Holds(AllUnits, frames, lo, Delivered) /\ d + Len(read) <= Delivered
      /\ lo \in Nat /\ lo >= 1 /\ Delivered \in Nat /\ Len(read) \in Nat /\ d \in Nat /\ Len(sent) \in Nat
  BY <1>3, <1>6, DeliveredType DEF WholeFor
<1>8. lo <= Delivered /\ Head(frames)[2] = AllUnits[lo] /\ Holds(AllUnits, Tail(frames), lo + 1, Delivered)
  <2>1. \A m \in lo..Delivered : AllUnits[m][1] = <<m, 0>> /\ 1 \in 1..Len(AllUnits[m])
    <3>1. \A m \in lo..Delivered : m \in 1..Delivered
      BY <1>7
    <3> QED
      BY <3>1, DeliveredType, AllUnitsType
  <2>2. AcrossFrames(frames)
    BY OrderParts DEF OrderInv
  <2> HIDE DEF F
  <2> QED
    BY <1>1, <1>4, <1>5, <1>7, <2>1, <2>2, HoldsReads
<1>9. lo \in 1..Len(sent) /\ Head(frames)[2] = UnitsOf(lo)
  <2>1. lo \in 1..Len(sent)
    BY <1>7, <1>8, DeliveredType
  <2> QED
    BY <1>8, <2>1, AllUnitsType
<1>10. /\ reader' = First /\ listening' = listening /\ read' = Append(read, WordsOf(lo))
  <2>1. PICK result \in Outcomes(Head(frames)) :
              IF result.raised THEN reader' = "ended" /\ read' = read
                               ELSE /\ reader' = First /\ read' = Append(read, result.words)
                                    /\ listening' = listening
    BY ReadsDoes
  <2>2. ~result.raised /\ result.words = WordsOf(lo)
    BY <1>0, <1>9, <2>1, OutcomesType, ParsesWhole
  <2> QED
    BY <2>1, <2>2
<1>11. /\ Len(read') = Len(read) + 1 /\ read'[Len(read) + 1] = WordsOf(lo)
       /\ \A k \in 1..Len(read) : read'[k] = read[k]
  <2>1. read \in Seq(Seq(SentUnits \cup {Broken}))
    BY DEF ReadoutTypes
  <2> HIDE DEF F
  <2> QED
    BY <1>10, <2>1
<1>12. ~Ended'
  BY <1>10 DEF Ended, First
<1>13. \A k \in 1..Len(read') : read'[k] = WordsOf(d + k)
  <2>1. \A k \in 1..Len(read') : k \in 1..Len(read) \/ k = Len(read) + 1
    BY <1>7, <1>11
  <2>2. \A k \in 1..Len(read) : read[k] = WordsOf(d + k)
    BY DEF WholeFor
  <2>3. d + (Len(read) + 1) = lo
    BY <1>6, <1>7
  <2> QED
    BY <1>11, <2>1, <2>2, <2>3
<1>14. /\ d + Len(read') <= Len(sent) /\ d + Len(read') <= Delivered
       /\ d + Len(read') + 1 = lo + 1
  BY <1>6, <1>7, <1>8, <1>11, DeliveredType
<1>15. ~Raw => \A k \in 1..Len(frames') : frames'[k][2] # <<>>
  <2>1. ~Raw => \A k \in 1..Len(frames) : frames[k][2] # <<>>
    BY <1>3 DEF WholeFor
  <2> QED
    BY <1>4, <2>1
<1>16. Raw \/ listening
  BY <1>1, <1>3 DEF WholeFor
<1>17. (Raw => d = 0) /\ (wire # <<>> => IsHeader(wire[1]))
  BY DEF WholeFor
<1>18. WholeFor(d)'
  <2> HIDE DEF F
  <2> QED
    BY <1>1, <1>2, <1>8, <1>10, <1>12, <1>13, <1>14, <1>15, <1>16, <1>17 DEF WholeFor
<1> QED
  BY <1>1, <1>3, <1>7, <1>11, <1>18

LEMMA WholeQuiet ==
  ASSUME ReadoutTypes, Quiet, UNCHANGED input, NEW d \in 0..Len(sent), WholeFor(d)
  PROVE  WholeFor(d)'
<1>1. /\ UNCHANGED <<wire, frames, messages, read, sent>>
      /\ Ended => Ended'
      /\ ~Ended' /\ ~listening' => ~listening
  BY QuietDoes
<1>2. UNCHANGED <<Raw, AllUnits, Delivered>> /\ \A k : UNCHANGED WordsOf(k)
  BY <1>1, SameMessages DEF AllUnits, Delivered
<1> QED
  BY <1>1, <1>2 DEF WholeFor

LEMMA WholeStep ==
  ASSUME ReadoutInv, [ReadoutNext]_all
  PROVE  WholeInv'
<1>1. CardTypes' /\ UNCHANGED input
  BY CardKept DEF ReadoutInv, ReadoutTypes
<1>2. ReadoutTypes /\ OrderInv /\ WireInv /\ PairsInv /\ PublishedInv /\ WholeInv
  BY DEF ReadoutInv
<1>3. SUFFICES ASSUME whole'
               PROVE  messages' = Len(read') /\ \E d \in 0..Len(sent)' : WholeFor(d)'
  BY DEF WholeInv
<1>4. whole
  BY <1>2, <1>3, Steps, DeliverDoes, TellsDoes, DropsDoes, ReadsDoes, QuietDoes DEF CardSends, Delivers
<1>5. messages = Len(read) /\ \E d \in 0..Len(sent) : WholeFor(d)
  BY <1>2, <1>4 DEF WholeInv
<1>6. PICK d \in 0..Len(sent) : WholeFor(d)
  BY <1>5
<1>7. CASE CardSends
  <2>1. UNCHANGED <<messages, read>>
    BY <1>7 DEF CardSends
  <2>2. \E e \in 0..Len(sent)' : WholeFor(e)'
    BY <1>1, <1>2, <1>6, <1>7, WholeSends
  <2> QED
    BY <1>5, <2>1, <2>2
<1>8. CASE Delivers
  <2>1. PICK n \in 1..Len(wire) : Deliver(n)
    BY <1>8 DEF Delivers
  <2>2. UNCHANGED <<messages, read, sent>>
    BY <1>2, <2>1, DeliverDoes
  <2>3. WholeFor(d)'
    BY <1>1, <1>2, <1>3, <1>6, <2>1, WholeDelivers
  <2> QED
    BY <1>5, <2>2, <2>3
<1>9. CASE Tells
  BY <1>1, <1>2, <1>5, <1>6, <1>9, TellsDoes, WholeTells
<1>10. CASE Drops
  BY <1>1, <1>2, <1>5, <1>6, <1>10, DropsDoes, WholeDrops
<1>11. CASE Reads
  BY <1>1, <1>2, <1>5, <1>6, <1>11, ReadsDoes, WholeReads
<1>12. CASE Quiet
  BY <1>1, <1>2, <1>5, <1>6, <1>12, QuietDoes, WholeQuiet
<1> QED
  BY <1>7, <1>8, <1>9, <1>10, <1>11, <1>12, Steps

-----------------------------------------------------------------------------
(* The theorems.                                                           *)

LEMMA InitReadout ==
  ASSUME ReadoutInit
  PROVE  ReadoutInv
<1>1. CardTypes /\ message_count = 0 /\ args.program # "MPD"
  BY InitTypes DEF ReadoutInit, Init
<1>2. /\ reader = "start" /\ wire = <<>> /\ frames = <<>> /\ messages = 0 /\ closed = FALSE
      /\ sent = <<>> /\ read = <<>> /\ whole = TRUE
  BY DEF ReadoutInit
<1>3. /\ <<>> \in Seq(1..Len(word_lists)) /\ <<>> \in Seq(SentUnits)
      /\ <<>> \in Seq({"id", "body"} \X Seq(SentUnits)) /\ <<>> \in Seq(Seq(SentUnits \cup {Broken}))
      /\ Len(<<>>) = 0 /\ 0 \in 0..(0 + 1) /\ 1..Len(<<>>) = {} /\ 0..0 = {0} /\ 1..0 = {}
  OBVIOUS
<1>4. ReadoutTypes
  BY <1>1, <1>2, <1>3 DEF ReadoutTypes
<1>5. OrderInv
  BY <1>2, <1>3 DEF OrderInv, Order, WordsAscend, Ascending
<1>6. WireInv
  BY <1>2 DEF WireInv, Complete
<1>7. PairsInv
  <2>1. Pairs(<<>>, 0)
    BY <1>3 DEF Pairs
  <2> QED
    BY <1>2, <2>1 DEF PairsInv, IdTaken
<1>8. WholeFor(0)
  <2>1. Delivered = 0 /\ Len(sent) = 0 /\ Len(read) = 0 /\ ~Ended
    BY <1>2 DEF Delivered, Ahead, Ended
  <2>2. 0 + 0 <= 0 /\ (0 + 0 + 1)..0 = {}
    OBVIOUS
  <2>3. Holds(AllUnits, frames, 0 + Len(read) + 1, Delivered)
    BY <1>2, <1>3, <2>1, <2>2 DEF Holds
  <2> QED
    BY <1>2, <1>3, <2>1, <2>2, <2>3 DEF WholeFor
<1>9. WholeInv
  BY <1>2, <1>3, <1>8 DEF WholeInv
<1>10. PublishedInv
  BY <1>2, <1>3 DEF PublishedInv
<1> QED
  BY <1>4, <1>5, <1>6, <1>7, <1>9, <1>10 DEF ReadoutInv

LEMMA ReadoutStep ==
  ASSUME ReadoutInv, [ReadoutNext]_all
  PROVE  ReadoutInv'
<1>1. ReadoutTypes /\ OrderInv /\ WireInv /\ PairsInv /\ PublishedInv
  BY DEF ReadoutInv
<1>2. ReadoutTypes'
  BY <1>1, TypesStep
<1>3. OrderInv'
  BY <1>1, OrderStep
<1>4. WireInv'
  BY <1>1, WireStep
<1>5. PairsInv'
  BY <1>1, PairsStep
<1>6. WholeInv'
  BY WholeStep
<1>7. PublishedInv'
  BY <1>1, PublishedStep
<1> QED
  BY <1>2, <1>3, <1>4, <1>5, <1>6, <1>7 DEF ReadoutInv

LEMMA ReadoutIsCorrect == ReadoutSpec => []ReadoutInv
<1>1. ReadoutInit => ReadoutInv
  BY InitReadout
<1>2. ReadoutInv /\ [ReadoutNext]_all => ReadoutInv'
  BY ReadoutStep
<1> QED
  BY <1>1, <1>2, PTL DEF ReadoutSpec

\* What the readout receives next is what it takes it for, an id or a message,
\* however many connections there are and whatever they bring; it has counted
\* each message that it has read, and one more only when that one ended it;
\* and it knows all that the card says it has sent.
THEOREM ReadoutTypeCorrect == ReadoutSpec => []ReadoutTypeOK
<1>1. ReadoutInv => ReadoutTypeOK
  <2> SUFFICES ASSUME ReadoutInv PROVE ReadoutTypeOK
    OBVIOUS
  <2>1. ReadoutTypes /\ PairsInv /\ PublishedInv
    BY DEF ReadoutInv
  <2>2. TypeOK
    BY <2>1 DEF ReadoutTypes, CardTypes
  <2>3. \A k \in 1..Len(frames) : frames[k][1] \in {"id", "body"}
    BY <2>1 DEF ReadoutTypes
  <2>4. ASSUME ~Ended, frames # <<>>
        PROVE  Head(frames)[1] = IF ~Raw \/ reader = "body" THEN "body" ELSE "id"
    <3>1. 1 \in 1..Len(frames) /\ Head(frames) = frames[1]
      BY <2>1, <2>4 DEF ReadoutTypes
    <3>2. CASE ~Raw
      BY <2>1, <3>1, <3>2 DEF PublishedInv
    <3>3. CASE Raw /\ reader = "body"
      <4>1. Pairs(frames, 1) /\ (1 + 1) % 2 = 0
        BY <2>1, <2>4, <3>3 DEF PairsInv, IdTaken
      <4> QED
        BY <3>1, <3>3, <4>1 DEF Pairs
    <3>4. CASE Raw /\ reader # "body"
      <4>1. Pairs(frames, 0) /\ (1 + 0) % 2 = 1
        BY <2>1, <2>4, <3>4 DEF PairsInv, IdTaken
      <4>2. frames[1] = <<"id", <<>>>>
        BY <3>1, <4>1 DEF Pairs
      <4> QED
        BY <3>1, <3>4, <4>2
    <3> QED
      BY <3>2, <3>3, <3>4
  <2>5. messages = Len(read) \/ (Ended /\ messages = Len(read) + 1)
    BY <2>1 DEF ReadoutTypes, Ended
  <2>6. Len(sent) = message_count /\ {closed, whole} \subseteq BOOLEAN
        /\ reader \in {"start", "prompt", "id", "body", "ended"}
    BY <2>1 DEF ReadoutTypes
  <2> QED
    BY <2>2, <2>3, <2>4, <2>5, <2>6 DEF ReadoutTypeOK
<1> QED
  BY <1>1, ReadoutIsCorrect, PTL

\* However TCP cuts the messages and whatever they hold, the readout reads no
\* word twice or out of order; and when each chunk is a message, it never
\* raises, reads the messages from the first one that could reach it, in
\* order, and those it has not read are under way.
THEOREM ReadoutCorrect == ReadoutSpec => []ReadsWhatWasSent
<1>1. ASSUME ReadoutInv PROVE ReadsInOrder
  <2>1. WordsAscend(read)
    BY <1>1 DEF ReadoutInv, OrderInv, Order
  <2> QED
    BY <2>1 DEF WordsAscend, ReadsInOrder
<1>2. ASSUME ReadoutInv, whole, NEW d \in 0..Len(sent), WholeFor(d), ~Ended,
             NEW n \in (d + Len(read) + 1)..Len(sent)
      PROVE  UnderWay(n)
  <2>1. ReadoutTypes /\ WireInv
    BY <1>2 DEF ReadoutInv
  <2>2. /\ Delivered \in 0..Len(sent) /\ Len(sent) \in Nat /\ Len(read) \in Nat /\ d \in Nat
    BY <2>1, DeliveredType
  <2>3. CASE n <= Delivered
    <3>1. n \in (d + Len(read) + 1)..Delivered /\ n \in 1..Len(sent)
      BY <2>2, <2>3
    <3>2. Holds(AllUnits, frames, d + Len(read) + 1, Delivered)
      BY <1>2 DEF WholeFor
    <3>3. PICK k \in 1..Len(frames) : frames[k][2] = AllUnits[n]
      BY <3>1, <3>2 DEF Holds
    <3>4. AllUnits[n] = UnitsOf(n)
      BY <2>1, <3>1, AllUnitsType
    <3> QED
      BY <3>3, <3>4 DEF UnderWay
  <2>4. CASE n > Delivered
    <3>1. wire # <<>>
      BY <2>2, <2>4 DEF Delivered, Ahead
    <3>2. wire[1] \in SentUnits /\ 1 \in 1..Len(wire)
      BY <2>1, <3>1 DEF ReadoutTypes
    <3>3. wire[1] = <<wire[1][1], 0>> /\ wire[1][1] \in 1..Len(sent)
      <4>1. IsHeader(wire[1])
        BY <1>2, <3>1 DEF WholeFor
      <4> QED
        BY <3>2, <4>1 DEF SentUnits, IsHeader
    <3>4. Delivered = wire[1][1] - 1
      BY <3>1 DEF Delivered, Ahead
    <3>5. CASE n = wire[1][1]
      BY <3>2, <3>3, <3>5 DEF UnderWay
    <3>6. CASE n # wire[1][1]
      <4>1. n \in (wire[1][1] + 1)..Len(sent)
        BY <2>2, <2>4, <3>3, <3>4, <3>6
      <4>2. Len(Lasts) = Len(sent)
        BY <2>1, LastsType
      <4>3. \E k \in 1..Len(wire) : wire[k] = <<n, 0>>
        BY <2>1, <3>1, <4>1, <4>2 DEF WireInv, Complete
      <4> QED
        BY <4>3 DEF UnderWay
    <3> QED
      BY <3>5, <3>6
  <2> QED
    BY <2>2, <2>3, <2>4
<1>3. ASSUME ReadoutInv, whole
      PROVE  /\ messages = Len(read)
             /\ \E missed \in 0..(Len(sent) - Len(read)) :
                  /\ Raw => missed = 0
                  /\ \A k \in 1..Len(read) : read[k] = WordsOf(missed + k)
                  /\ ~Ended /\ (Raw \/ read # <<>> \/ frames # <<>>) =>
                       \A n \in (missed + Len(read) + 1)..Len(sent) : UnderWay(n)
  <2>1. messages = Len(read) /\ \E d \in 0..Len(sent) : WholeFor(d)
    BY <1>3 DEF ReadoutInv, WholeInv
  <2>2. PICK d \in 0..Len(sent) : WholeFor(d)
    BY <2>1
  <2>3. Len(sent) \in Nat /\ Len(read) \in Nat
    BY <1>3, SentType DEF ReadoutInv
  <2>4. /\ Raw => d = 0
        /\ d + Len(read) <= Len(sent)
        /\ \A k \in 1..Len(read) : read[k] = WordsOf(d + k)
    BY <2>2 DEF WholeFor
  <2>5. d \in 0..(Len(sent) - Len(read))
    BY <2>3, <2>4
  <2>6. ~Ended => \A n \in (d + Len(read) + 1)..Len(sent) : UnderWay(n)
    BY <1>2, <1>3, <2>2
  <2> QED
    BY <2>1, <2>4, <2>5, <2>6
<1>4. ReadoutInv => ReadsWhatWasSent
  <2> SUFFICES ASSUME ReadoutInv PROVE ReadsWhatWasSent
    OBVIOUS
  <2>1. ReadsInOrder
    BY <1>1
  <2> QED
    BY <1>3, <2>1 DEF ReadsWhatWasSent
<1> QED
  BY <1>4, ReadoutIsCorrect, PTL
=============================================================================
