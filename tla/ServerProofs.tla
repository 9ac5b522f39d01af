---------------------------- MODULE ServerProofs -----------------------------
(***************************************************************************)
(* Machine-checked proofs about Server, for any memories, queries, rows,   *)
(* budgets and bounds: the answers of the facade, then the offers of the   *)
(* curriculum, then the documents on the shelf, each from an invariant of  *)
(* its own.                                                                *)
(***************************************************************************)
EXTENDS Server, FiniteSetTheorems, WellFoundedInduction, TLAPS

-----------------------------------------------------------------------------
(* Induction over the natural numbers. *)

LEMMA LeastNumber ==
    ASSUME NEW S \in SUBSET Nat, S # {}
    PROVE  \E n \in S : \A k \in S : n <= k
  <1> DEFINE R == OpToRel(<, Nat)
  <1>1. IsWellFoundedOn(R, Nat)
    BY NatLessThanWellFounded
  <1>2. PICK n \in S : \A k \in S : <<k, n>> \notin R
    BY <1>1, WFMin
  <1>3. \A k \in S : ~(k < n)
    BY <1>2 DEF OpToRel
  <1> QED
    BY <1>3

\* Induction: a set that holds 0, and with every number the next, holds them all.
LEMMA Induct ==
    ASSUME NEW S, 0 \in S, \A n \in Nat : n \in S => n + 1 \in S
    PROVE  Nat \subseteq S
  <1> DEFINE T == Nat \ S
  <1>1. SUFFICES ASSUME T # {} PROVE FALSE
    OBVIOUS
  <1>2. PICK n \in T : \A k \in T : n <= k
    <2> T \in SUBSET Nat
      OBVIOUS
    <2> HIDE DEF T
    <2> QED
      BY <1>1, LeastNumber
  <1>3. n # 0 /\ n - 1 \in Nat /\ n - 1 \notin T
    BY <1>2
  <1> QED
    BY <1>2, <1>3

-----------------------------------------------------------------------------
(* Filters only leave out.                                                 *)

IsFront(f, s, S, n) ==
    f = [i \in 0 .. n |-> IF i = 0 THEN <<>> ELSE KeptOf(f[i - 1], s[i], S)]

\* What Without computes exists.
LEMMA FrontExists ==
    ASSUME NEW s, NEW S, NEW n \in Nat
    PROVE  \E f : IsFront(f, s, S, n)
  <1> DEFINE N == {k \in Nat : \E f : IsFront(f, s, S, k)}
  <1>1. 0 \in N
    <2>1. IsFront([i \in 0 .. 0 |-> <<>>], s, S, 0)
      BY DEF IsFront
    <2> QED
      BY <2>1
  <1>2. ASSUME NEW k \in Nat, k \in N
        PROVE  k + 1 \in N
    <2>1. PICK f : IsFront(f, s, S, k)
      BY <1>2
    <2> DEFINE g == [i \in 0 .. k + 1 |->
                        IF i <= k THEN f[i] ELSE KeptOf(f[i - 1], s[i], S)]
    <2>2. ASSUME NEW i \in 0 .. k + 1
          PROVE  g[i] = IF i = 0 THEN <<>> ELSE KeptOf(g[i - 1], s[i], S)
      <3>1. i # 0 => i - 1 \in 0 .. k /\ g[i - 1] = f[i - 1]
        OBVIOUS
      <3>2. i <= k => f[i] = IF i = 0 THEN <<>> ELSE KeptOf(f[i - 1], s[i], S)
        BY <2>1 DEF IsFront
      <3> QED
        BY <3>1, <3>2
    <2>3. IsFront(g, s, S, k + 1)
      BY <2>2 DEF IsFront
    <2> QED
      BY <2>3
  <1> QED
    <2> HIDE DEF N
    <2>1. n \in N
      BY <1>1, <1>2, Induct
    <2> QED
      BY <2>1 DEF N

\* Of a list of memories a filter keeps a list of them, none that it excludes.
LEMMA WithoutWithin ==
    ASSUME NEW s \in Seq(Memories), NEW S
    PROVE  /\ Without(s, S) \in Seq(Memories)
           /\ ToSet(Without(s, S)) \subseteq ToSet(s) \ S
  <1> DEFINE n == Len(s)
  <1>1. n \in Nat /\ \A i \in 1 .. n : s[i] \in Memories /\ s[i] \in ToSet(s)
    BY DEF ToSet
  <1> HIDE DEF n
  <1>2. \E f : IsFront(f, s, S, n)
    BY <1>1, FrontExists
  <1> DEFINE f == CHOOSE f : IsFront(f, s, S, n)
  <1>3. IsFront(f, s, S, n)
    BY <1>2
  <1>4. Without(s, S) = f[n]
    BY DEF Without, IsFront, n
  <1> HIDE DEF f
  <1> DEFINE N == {k \in Nat : k <= n => /\ f[k] \in Seq(Memories)
                                         /\ \A j \in 1 .. Len(f[k]) : f[k][j] \in ToSet(s) \ S}
  <1>5. 0 \in N
    BY <1>1, <1>3 DEF IsFront
  <1>6. ASSUME NEW k \in Nat, k \in N
        PROVE  k + 1 \in N
    <2>1. SUFFICES ASSUME k + 1 <= n
                   PROVE  /\ f[k + 1] \in Seq(Memories)
                          /\ \A j \in 1 .. Len(f[k + 1]) : f[k + 1][j] \in ToSet(s) \ S
      OBVIOUS
    <2> DEFINE g == f[k]
               x == s[k + 1]
    <2>2. f[k + 1] = KeptOf(g, x, S)
      BY <1>1, <1>3, <2>1 DEF IsFront
    <2>3. x \in Memories /\ x \in ToSet(s)
      BY <1>1, <2>1
    <2>4. g \in Seq(Memories) /\ \A j \in 1 .. Len(g) : g[j] \in ToSet(s) \ S
      BY <1>1, <1>6, <2>1
    <2> HIDE DEF g, x
    <2> QED
      BY <2>2, <2>3, <2>4 DEF KeptOf
  <1>7. n \in N
    <2> HIDE DEF N
    <2> QED
      BY <1>1, <1>5, <1>6, Induct
  <1> QED
    BY <1>1, <1>4, <1>7 DEF ToSet

LEMMA OnlyWithin ==
    ASSUME NEW s \in Seq(Memories), NEW S
    PROVE  Only(s, S) \in Seq(Memories) /\ ToSet(Only(s, S)) \subseteq ToSet(s) \cap S
  BY WithoutWithin DEF Only

LEMMA FirstWithin ==
    ASSUME NEW s \in Seq(Memories), NEW n \in Nat
    PROVE  /\ FirstOfSeq(s, n) \in Seq(Memories)
           /\ ToSet(FirstOfSeq(s, n)) \subseteq ToSet(s)
  <1> DEFINE k == IF n < Len(s) THEN n ELSE Len(s)
  <1>1. k \in 0 .. Len(s)
    OBVIOUS
  <1> HIDE DEF k
  <1>2. /\ SubSeq(s, 1, k) \in Seq(Memories) /\ Len(SubSeq(s, 1, k)) = k
        /\ \A i \in 1 .. k : SubSeq(s, 1, k)[i] = s[i]
    BY <1>1
  <1> QED
    BY <1>1, <1>2 DEF FirstOfSeq, ToSet, k

\* A ranking is a list of the memories ranked.
LEMMA RankingOf ==
    ASSUME NEW ms \in SUBSET Memories, NEW order \in RankForFacade(ms)
    PROVE  order \in Seq(Memories) /\ ToSet(order) \subseteq ms
  <1>1. order \in [1 .. Cardinality(ms) -> ms]
    BY DEF RankForFacade
  <1>2. Cardinality(ms) \in Nat
    BY FacadeAssumption, FS_Subset, FS_CardinalityType
  <1> QED
    BY <1>1, <1>2 DEF ToSet

-----------------------------------------------------------------------------
(* The text frame and the packets stay within the budget.                  *)

LEMMA TimesGrows ==
    ASSUME NEW x \in Nat, NEW y \in Nat, NEW c \in Nat
    PROVE  /\ x <= y => x * c <= y * c
           /\ x > y => (x - 1) * c >= y * c
           /\ (x - 1) * c = c * x - c /\ c * x = x * c /\ x * c \in Nat
  <1>1. ASSUME NEW a \in Nat, NEW b \in Nat, a <= b
        PROVE  a * c <= b * c
    <2>1. b = a + (b - a) /\ b - a \in Nat
      BY <1>1
    <2>2. b * c = a * c + (b - a) * c /\ (b - a) * c \in Nat
      BY <2>1
    <2> QED
      BY <2>2
  <1>2. x > y => x - 1 \in Nat /\ y <= x - 1
    OBVIOUS
  <1>3. (x - 1) * c = c * x - c /\ c * x = x * c /\ x * c \in Nat
    OBVIOUS
  <1> QED
    BY <1>1, <1>2, <1>3

\* A text is covered by its tokens, and fits exactly when they do.
LEMMA TokensFit ==
    ASSUME NEW chars \in Nat, NEW budget \in Nat
    PROVE  /\ Tokens(chars) \in Nat
           /\ chars <= Tokens(chars) * CharsPerToken
           /\ Tokens(chars) <= budget <=> chars <= budget * CharsPerToken
  <1> DEFINE C == CharsPerToken
             t == Tokens(chars)
  <1>1. C \in Nat /\ C > 0
    BY FramesAssumption
  <1>2. t \in Int /\ C * t <= chars + C - 1 /\ chars + C - 1 < C * t + C
    BY <1>1 DEF Tokens
  <1> HIDE DEF t, C
  <1>3. t \in Nat
    BY <1>1, <1>2
  <1>4. chars <= t * C
    BY <1>1, <1>2, <1>3, TimesGrows
  <1>5. t <= budget => t * C <= budget * C
    BY <1>1, <1>3, TimesGrows
  <1>6. ASSUME t > budget PROVE chars > budget * C
    <2>1. (t - 1) * C >= budget * C /\ (t - 1) * C = C * t - C
      BY <1>1, <1>3, <1>6, TimesGrows
    <2>2. budget * C \in Int /\ C * t \in Int
      BY <1>1, <1>3
    <2> QED
      BY <1>1, <1>2, <2>1, <2>2
  <1> QED
    <2>1. t * C \in Int /\ budget * C \in Int
      BY <1>1, <1>2
    <2> QED
      BY <1>3, <1>4, <1>5, <1>6, <2>1 DEF t, C

IsMicro(f, used, l, budget, n) ==
    f = [i \in 0 .. n |->
            IF i = 0 THEN l.micro
            ELSE IF Tokens(used + 1 + f[i - 1] + 1 + l.extras[i]) <= budget
                 THEN f[i - 1] + 1 + l.extras[i] ELSE f[i - 1]]

\* The micro lines with the first extras exist.
LEMMA MicroExists ==
    ASSUME NEW used, NEW l, NEW budget, NEW n \in Nat
    PROVE  \E f : IsMicro(f, used, l, budget, n)
  <1> DEFINE N == {k \in Nat : \E f : IsMicro(f, used, l, budget, k)}
             More(x, i) == IF Tokens(used + 1 + x + 1 + l.extras[i]) <= budget
                           THEN x + 1 + l.extras[i] ELSE x
  <1>1. 0 \in N
    <2>1. IsMicro([i \in 0 .. 0 |-> l.micro], used, l, budget, 0)
      BY DEF IsMicro
    <2> QED
      BY <2>1
  <1>2. ASSUME NEW k \in Nat, k \in N
        PROVE  k + 1 \in N
    <2>1. PICK f : IsMicro(f, used, l, budget, k)
      BY <1>2
    <2>2. f = [i \in 0 .. k |-> IF i = 0 THEN l.micro ELSE More(f[i - 1], i)]
      BY <2>1 DEF IsMicro
    <2> DEFINE g == [i \in 0 .. k + 1 |-> IF i <= k THEN f[i] ELSE More(f[i - 1], i)]
    <2> HIDE DEF More
    <2>3. ASSUME NEW i \in 0 .. k + 1
          PROVE  g[i] = IF i = 0 THEN l.micro ELSE More(g[i - 1], i)
      <3>1. i # 0 => i - 1 \in 0 .. k /\ g[i - 1] = f[i - 1]
        OBVIOUS
      <3>2. i <= k => f[i] = IF i = 0 THEN l.micro ELSE More(f[i - 1], i)
        BY <2>2
      <3> QED
        BY <3>1, <3>2
    <2>4. g = [i \in 0 .. k + 1 |-> IF i = 0 THEN l.micro ELSE More(g[i - 1], i)]
      BY <2>3
    <2> HIDE DEF g
    <2>5. IsMicro(g, used, l, budget, k + 1)
      BY <2>4 DEF IsMicro, More
    <2> QED
      BY <2>5
  <1> QED
    <2> HIDE DEF N
    <2>1. n \in N
      BY <1>1, <1>2, Induct
    <2> QED
      BY <2>1 DEF N

\* A micro line that is not empty fits behind what there is.
LEMMA MicroFits ==
    ASSUME NEW used \in Nat, NEW l \in Lines, NEW budget \in Nat
    PROVE  LET micro == MicroLine(used, l, budget) IN
           micro \in Nat /\ (micro > 0 => used + 1 + micro <= budget * CharsPerToken)
  <1> DEFINE n == Len(l.extras)
  <1>1. /\ n \in Nat /\ l.micro \in Nat
        /\ \A i \in 1 .. n : l.extras[i] \in Nat
    BY DEF Lines
  <1> HIDE DEF n
  <1>2. \E f : IsMicro(f, used, l, budget, n)
    BY <1>1, MicroExists
  <1> DEFINE f == CHOOSE f : IsMicro(f, used, l, budget, n)
  <1>3. IsMicro(f, used, l, budget, n)
    BY <1>2
  <1>4. MicroLine(used, l, budget) = IF Tokens(used + 1 + l.micro) > budget THEN 0 ELSE f[n]
    BY DEF MicroLine, IsMicro, n
  <1> HIDE DEF f
  <1>5. CASE Tokens(used + 1 + l.micro) > budget
    BY <1>4, <1>5
  <1>6. CASE ~(Tokens(used + 1 + l.micro) > budget)
    <2> DEFINE Fits(x) == x \in Nat /\ Tokens(used + 1 + x) <= budget
               N == {k \in Nat : k <= n => Fits(f[k])}
    <2>1. 0 \in N
      <3>1. f[0] = l.micro
        BY <1>1, <1>3 DEF IsMicro
      <3>2. Tokens(used + 1 + l.micro) \in Nat
        BY <1>1, TokensFit
      <3> QED
        BY <1>1, <1>6, <3>1, <3>2
    <2>2. ASSUME NEW k \in Nat, k \in N
          PROVE  k + 1 \in N
      <3>1. SUFFICES ASSUME k + 1 <= n PROVE Fits(f[k + 1])
        OBVIOUS
      <3> DEFINE x == f[k]
                 y == l.extras[k + 1]
      <3>2. f[k + 1] = IF Tokens(used + 1 + x + 1 + y) <= budget THEN x + 1 + y ELSE x
        BY <1>1, <1>3, <3>1 DEF IsMicro
      <3>3. Fits(x) /\ y \in Nat
        BY <1>1, <2>2, <3>1
      <3> HIDE DEF x, y
      <3>4. used + 1 + x + 1 + y = used + 1 + (x + 1 + y) /\ x + 1 + y \in Nat
        BY <3>3
      <3> QED
        BY <3>2, <3>3, <3>4
    <2>3. n \in N
      <3> HIDE DEF N
      <3> QED
        BY <1>1, <2>1, <2>2, Induct
    <2>4. f[n] \in Nat /\ Tokens(used + 1 + f[n]) <= budget
      BY <1>1, <2>3
    <2>5. used + 1 + f[n] <= budget * CharsPerToken
      <3>1. used + 1 + f[n] \in Nat
        BY <2>4
      <3> QED
        BY <2>4, <3>1, TokensFit
    <2> QED
      BY <1>4, <1>6, <2>4, <2>5
  <1> QED
    BY <1>5, <1>6

\* The frame of the first results.
Frame == [used : Nat, ids : Seq(Memories), quoted : SUBSET Memories, dropped : Nat]

FrameOK(frame, n, S, most) ==
    /\ frame \in Frame /\ frame.used <= most
    /\ ToSet(frame.ids) \subseteq S /\ Len(frame.ids) + frame.dropped = n

LEMMA SnippetFits ==
    ASSUME NEW l \in Lines, NEW chars \in Int
    PROVE  /\ FitChars(l, chars) \in Nat
           /\ FitChars(l, chars) > 0 => FitChars(l, chars) <= chars
  BY DEF FitChars, Lines

LEMMA ResultFits ==
    ASSUME NEW n \in Nat, NEW S \in SUBSET Memories, NEW budget \in Nat, NEW most \in Nat,
           budget * CharsPerToken <= most,
           NEW frame, FrameOK(frame, n, S, most), NEW m \in S, NEW l \in Lines
    PROVE  FrameOK(FitResult(frame, m, l, budget), n + 1, S, most)
  <1> DEFINE prefix == frame.used + 1 + l.meta + 1
             snippet == FitChars(l, (budget - Tokens(prefix)) * CharsPerToken)
             micro == MicroLine(frame.used, l, budget)
             ids == Append(frame.ids, m)
  <1>1. /\ frame \in Frame /\ frame.used \in Nat /\ prefix \in Nat
        /\ CharsPerToken \in Nat
    BY FramesAssumption DEF FrameOK, Frame, Lines
  <1>2. ids \in Seq(Memories) /\ ToSet(ids) \subseteq S /\ Len(ids) = Len(frame.ids) + 1
    <2>1. frame.ids \in Seq(Memories) /\ ToSet(frame.ids) \subseteq S
      BY DEF FrameOK, Frame
    <2> DEFINE k == Len(frame.ids)
    <2>2. /\ k \in Nat /\ Len(ids) = k + 1 /\ ids[k + 1] = m /\ ids \in Seq(Memories)
          /\ \A i \in 1 .. k : ids[i] = frame.ids[i] /\ frame.ids[i] \in S
      BY <2>1 DEF ToSet
    <2> HIDE DEF ids
    <2> QED
      BY <2>2 DEF ToSet
  <1>3. snippet \in Nat /\ (snippet > 0 => prefix + snippet <= budget * CharsPerToken)
    <2> DEFINE t == Tokens(prefix)
               chars == (budget - t) * CharsPerToken
    <2>1. t \in Nat /\ prefix <= t * CharsPerToken
      BY <1>1, TokensFit
    <2> HIDE DEF t, prefix
    <2>2. chars \in Int /\ chars = budget * CharsPerToken - t * CharsPerToken
          /\ budget * CharsPerToken \in Int /\ t * CharsPerToken \in Int
      BY <1>1, <2>1
    <2> HIDE DEF chars
    <2>3. FitChars(l, chars) \in Nat /\ (FitChars(l, chars) > 0 => FitChars(l, chars) <= chars)
      BY <2>2, SnippetFits
    <2>4. snippet = FitChars(l, chars)
      BY DEF t, chars
    <2> HIDE DEF snippet
    <2> QED
      BY <1>1, <2>1, <2>2, <2>3, <2>4
  <1>4. micro \in Nat /\ (micro > 0 => frame.used + 1 + micro <= budget * CharsPerToken)
    BY <1>1, MicroFits
  <1>5. /\ budget * CharsPerToken \in Nat /\ frame.dropped \in Nat /\ frame.ids \in Seq(Memories)
        /\ frame.quoted \in SUBSET Memories /\ m \in Memories
        /\ Len(frame.ids) \in Nat /\ Len(frame.ids) + frame.dropped = n
        /\ ToSet(frame.ids) \subseteq S /\ frame.used <= most
    BY <1>1 DEF FrameOK, Frame
  <1>6. FitResult(frame, m, l, budget) =
            IF snippet > 0
            THEN [frame EXCEPT !.used = prefix + snippet, !.ids = ids, !.quoted = @ \cup {m}]
            ELSE IF micro > 0 THEN [frame EXCEPT !.used = @ + 1 + micro, !.ids = ids]
            ELSE [frame EXCEPT !.dropped = @ + 1]
    BY DEF FitResult
  <1> HIDE DEF prefix, snippet, micro, ids
  <1>7. CASE snippet > 0
    <2> DEFINE r == [frame EXCEPT !.used = prefix + snippet, !.ids = ids, !.quoted = @ \cup {m}]
    <2>1. FitResult(frame, m, l, budget) = r
      BY <1>6, <1>7
    <2>2. r \in Frame /\ r.used = prefix + snippet /\ r.ids = ids /\ r.dropped = frame.dropped
      <3>1. prefix + snippet \in Nat /\ frame.quoted \cup {m} \in SUBSET Memories
        BY <1>1, <1>3, <1>5
      <3> QED
        BY <1>1, <1>2, <3>1 DEF Frame
    <2> HIDE DEF r
    <2>3. prefix + snippet <= most
      BY <1>1, <1>3, <1>5, <1>7
    <2>4. Len(r.ids) + r.dropped = n + 1
      BY <1>2, <1>5, <2>2
    <2>5. FrameOK(r, n + 1, S, most)
      BY <1>2, <2>2, <2>3, <2>4 DEF FrameOK
    <2> QED
      BY <2>1, <2>5
  <1>8. CASE ~(snippet > 0) /\ micro > 0
    <2> DEFINE r == [frame EXCEPT !.used = @ + 1 + micro, !.ids = ids]
    <2>1. FitResult(frame, m, l, budget) = r
      BY <1>6, <1>8
    <2>2. r \in Frame /\ r.used = frame.used + 1 + micro /\ r.ids = ids
          /\ r.dropped = frame.dropped
      <3>1. frame.used + 1 + micro \in Nat
        BY <1>1, <1>4
      <3> QED
        BY <1>1, <1>2, <3>1 DEF Frame
    <2> HIDE DEF r
    <2>3. frame.used + 1 + micro <= most
      BY <1>1, <1>4, <1>5, <1>8
    <2>4. Len(r.ids) + r.dropped = n + 1
      BY <1>2, <1>5, <2>2
    <2>5. FrameOK(r, n + 1, S, most)
      BY <1>2, <2>2, <2>3, <2>4 DEF FrameOK
    <2> QED
      BY <2>1, <2>5
  <1>9. CASE ~(snippet > 0) /\ ~(micro > 0)
    <2> DEFINE r == [frame EXCEPT !.dropped = @ + 1]
    <2>1. FitResult(frame, m, l, budget) = r
      BY <1>6, <1>9
    <2>2. r \in Frame /\ r.used = frame.used /\ r.ids = frame.ids
          /\ r.dropped = frame.dropped + 1
      <3>1. frame.dropped + 1 \in Nat
        BY <1>5
      <3> QED
        BY <1>1, <3>1 DEF Frame
    <2> HIDE DEF r
    <2>3. Len(r.ids) + r.dropped = n + 1
      BY <1>5, <2>2
    <2>4. FrameOK(r, n + 1, S, most)
      BY <1>5, <2>2, <2>3 DEF FrameOK
    <2> QED
      BY <2>1, <2>4
  <1> QED
    BY <1>7, <1>8, <1>9

IsTextFrame(f, start, order, lines, budget, n) ==
    f = [i \in 0 .. n |->
            IF i = 0 THEN start ELSE FitResult(f[i - 1], order[i], lines[order[i]], budget)]

\* The frames after each result exist.
LEMMA TextFrameExists ==
    ASSUME NEW start, NEW order, NEW lines, NEW budget, NEW n \in Nat
    PROVE  \E f : IsTextFrame(f, start, order, lines, budget, n)
  <1> DEFINE N == {k \in Nat : \E f : IsTextFrame(f, start, order, lines, budget, k)}
             More(x, i) == FitResult(x, order[i], lines[order[i]], budget)
  <1>1. 0 \in N
    <2>1. IsTextFrame([i \in 0 .. 0 |-> start], start, order, lines, budget, 0)
      BY DEF IsTextFrame
    <2> QED
      BY <2>1
  <1>2. ASSUME NEW k \in Nat, k \in N
        PROVE  k + 1 \in N
    <2>1. PICK f : IsTextFrame(f, start, order, lines, budget, k)
      BY <1>2
    <2>2. f = [i \in 0 .. k |-> IF i = 0 THEN start ELSE More(f[i - 1], i)]
      BY <2>1 DEF IsTextFrame
    <2> DEFINE g == [i \in 0 .. k + 1 |-> IF i <= k THEN f[i] ELSE More(f[i - 1], i)]
    <2> HIDE DEF More
    <2>3. ASSUME NEW i \in 0 .. k + 1
          PROVE  g[i] = IF i = 0 THEN start ELSE More(g[i - 1], i)
      <3>1. i # 0 => i - 1 \in 0 .. k /\ g[i - 1] = f[i - 1]
        OBVIOUS
      <3>2. i <= k => f[i] = IF i = 0 THEN start ELSE More(f[i - 1], i)
        BY <2>2
      <3> QED
        BY <3>1, <3>2
    <2>4. g = [i \in 0 .. k + 1 |-> IF i = 0 THEN start ELSE More(g[i - 1], i)]
      BY <2>3
    <2> HIDE DEF g
    <2>5. IsTextFrame(g, start, order, lines, budget, k + 1)
      BY <2>4 DEF IsTextFrame, More
    <2> QED
      BY <2>5
  <1> QED
    <2> HIDE DEF N
    <2>1. n \in N
      BY <1>1, <1>2, Induct
    <2> QED
      BY <2>1 DEF N

\* What the text frame and the structured frame may have at most.
Most(first, budget) ==
    IF first > budget * CharsPerToken THEN first ELSE budget * CharsPerToken

LEMMA HeaderIsNat ==
    ASSUME NEW query \in Nat, NEW budget \in Nat
    PROVE  /\ HeaderLine(query, budget) \in Nat
           /\ Most(HeaderLine(query, budget), budget) \in Nat
           /\ HeaderLine(query, budget) <= Most(HeaderLine(query, budget), budget)
           /\ budget * CharsPerToken <= Most(HeaderLine(query, budget), budget)
  <1> DEFINE C == budget * CharsPerToken
             header == HeaderLine(query, budget)
  <1>1. C \in Nat
    BY FramesAssumption
  <1> HIDE DEF C
  <1>2. HeaderLine(query, budget) =
            LET room == C - 14 - 52
                most == IF budget >= 80 THEN 72 ELSE IF room < 0 THEN 0 ELSE Least(72, room)
            IN  14 + Least(query, most)
    BY DEF HeaderLine, C
  <1>3. header \in Nat
    BY <1>1, <1>2 DEF Least
  <1> HIDE DEF header
  <1>4. Most(header, budget) = IF header > C THEN header ELSE C
    BY DEF Most, C
  <1>5. /\ Most(header, budget) \in Nat /\ header <= Most(header, budget)
        /\ C <= Most(header, budget)
    BY <1>1, <1>3, <1>4
  <1> QED
    BY <1>3, <1>5 DEF C, header

\* The text frame names what it did not drop and is within the budget, unless
\* its first line is not.
LEMMA TextFrameFits ==
    ASSUME NEW order \in Seq(Memories), NEW lines, NEW query \in Nat, NEW budget \in Nat,
           \A m \in ToSet(order) : lines[m] \in Lines
    PROVE  FrameOK(TextFrame(order, lines, query, budget), Len(order), ToSet(order),
                   Most(HeaderLine(query, budget), budget))
  <1> DEFINE n == Len(order)
             S == ToSet(order)
             start == [used |-> HeaderLine(query, budget), ids |-> <<>>, quoted |-> {},
                       dropped |-> 0]
             most == Most(HeaderLine(query, budget), budget)
  <1>1. /\ n \in Nat /\ S \in SUBSET Memories
        /\ \A i \in 1 .. n : order[i] \in S /\ lines[order[i]] \in Lines
    BY DEF ToSet
  <1> HIDE DEF n
  <1>2. \E f : IsTextFrame(f, start, order, lines, budget, n)
    BY <1>1, TextFrameExists
  <1> DEFINE f == CHOOSE f : IsTextFrame(f, start, order, lines, budget, n)
  <1>3. IsTextFrame(f, start, order, lines, budget, n)
    BY <1>2
  <1>4. TextFrame(order, lines, query, budget) = f[n]
    BY DEF TextFrame, IsTextFrame, n
  <1>5. FrameOK(start, 0, S, most) /\ most \in Nat /\ budget * CharsPerToken <= most
    <2>1. /\ HeaderLine(query, budget) \in Nat /\ most \in Nat
          /\ HeaderLine(query, budget) <= most /\ budget * CharsPerToken <= most
      BY HeaderIsNat
    <2> HIDE DEF most, S
    <2>2. start \in Frame /\ start.used = HeaderLine(query, budget) /\ start.ids = <<>>
          /\ start.dropped = 0
      BY <2>1 DEF Frame
    <2>3. ToSet(start.ids) = {} /\ Len(start.ids) = 0
      BY <2>2 DEF ToSet
    <2> QED
      BY <2>1, <2>2, <2>3 DEF FrameOK
  <1> HIDE DEF f, start, most, S
  <1> DEFINE N == {k \in Nat : k <= n => FrameOK(f[k], k, S, most)}
  <1>6. 0 \in N
    BY <1>1, <1>3, <1>5 DEF IsTextFrame
  <1>7. ASSUME NEW k \in Nat, k \in N
        PROVE  k + 1 \in N
    <2>1. SUFFICES ASSUME k + 1 <= n PROVE FrameOK(f[k + 1], k + 1, S, most)
      OBVIOUS
    <2> DEFINE x == f[k]
               m == order[k + 1]
               l == lines[m]
    <2>2. f[k + 1] = FitResult(x, m, l, budget)
      BY <1>1, <1>3, <2>1 DEF IsTextFrame
    <2>3. FrameOK(x, k, S, most) /\ m \in S /\ l \in Lines
      BY <1>1, <1>7, <2>1
    <2> HIDE DEF x, m, l
    <2> QED
      BY <1>1, <1>5, <2>2, <2>3, ResultFits
  <1>8. n \in N
    <2> HIDE DEF N
    <2> QED
      BY <1>1, <1>6, <1>7, Induct
  <1> QED
    BY <1>1, <1>4, <1>8 DEF n, S, most

IsPackets(f, order, lines, budget, n) ==
    f = [i \in 0 .. n |-> IF i = 0 THEN [used |-> 0, ids |-> <<>>]
                          ELSE PacketAdded(f[i - 1], order[i], lines[order[i]], budget)]

\* The packets after each result exist.
LEMMA PacketsExist ==
    ASSUME NEW order, NEW lines, NEW budget, NEW n \in Nat
    PROVE  \E f : IsPackets(f, order, lines, budget, n)
  <1> DEFINE N == {k \in Nat : \E f : IsPackets(f, order, lines, budget, k)}
             start == [used |-> 0, ids |-> <<>>]
             More(x, i) == PacketAdded(x, order[i], lines[order[i]], budget)
  <1>1. 0 \in N
    <2>1. IsPackets([i \in 0 .. 0 |-> start], order, lines, budget, 0)
      BY DEF IsPackets
    <2> QED
      BY <2>1
  <1>2. ASSUME NEW k \in Nat, k \in N
        PROVE  k + 1 \in N
    <2>1. PICK f : IsPackets(f, order, lines, budget, k)
      BY <1>2
    <2>2. f = [i \in 0 .. k |-> IF i = 0 THEN start ELSE More(f[i - 1], i)]
      BY <2>1 DEF IsPackets
    <2> DEFINE g == [i \in 0 .. k + 1 |-> IF i <= k THEN f[i] ELSE More(f[i - 1], i)]
    <2> HIDE DEF More, start
    <2>3. ASSUME NEW i \in 0 .. k + 1
          PROVE  g[i] = IF i = 0 THEN start ELSE More(g[i - 1], i)
      <3>1. i # 0 => i - 1 \in 0 .. k /\ g[i - 1] = f[i - 1]
        OBVIOUS
      <3>2. i <= k => f[i] = IF i = 0 THEN start ELSE More(f[i - 1], i)
        BY <2>2
      <3> QED
        BY <3>1, <3>2
    <2>4. g = [i \in 0 .. k + 1 |-> IF i = 0 THEN start ELSE More(g[i - 1], i)]
      BY <2>3
    <2> HIDE DEF g
    <2>5. IsPackets(g, order, lines, budget, k + 1)
      BY <2>4 DEF IsPackets, More, start
    <2> QED
      BY <2>5
  <1> QED
    <2> HIDE DEF N
    <2>1. n \in N
      BY <1>1, <1>2, Induct
    <2> QED
      BY <2>1 DEF N

\* One packet takes at most what is left.
LEMMA PacketFits ==
    ASSUME NEW used \in Nat, NEW budget \in Nat, used < budget, NEW l \in Lines
    PROVE  /\ Packet(used, l, budget) \in Nat
           /\ used + Packet(used, l, budget) <= budget
  <1> DEFINE left == budget - used
             chars == left * CharsPerToken
             text == IF l.text <= chars THEN l.text ELSE IF l.gap THEN chars - 1 ELSE chars
  <1>1. left \in Nat /\ l.text \in Nat
    BY DEF Lines
  <1>2. Packet(used, l, budget) = Tokens(text)
    BY DEF Packet
  <1>3. chars \in Nat /\ chars > 0
    <2>1. left > 0 /\ CharsPerToken \in Nat /\ CharsPerToken > 0
      BY FramesAssumption
    <2> HIDE DEF left
    <2>2. 1 * CharsPerToken <= left * CharsPerToken /\ left * CharsPerToken \in Nat
      BY <1>1, <2>1, TimesGrows
    <2> QED
      BY <2>1, <2>2
  <1> HIDE DEF chars
  <1>4. text \in Nat /\ text <= chars
    BY <1>1, <1>3
  <1> HIDE DEF text, left
  <1>5. Tokens(text) \in Nat /\ Tokens(text) <= left
    BY <1>1, <1>4, TokensFit DEF chars
  <1> QED
    BY <1>2, <1>5 DEF left

\* So all of them are within the budget.
LEMMA PacketsFit ==
    ASSUME NEW order \in Seq(Memories), NEW lines, NEW budget \in Nat,
           \A m \in ToSet(order) : lines[m] \in Lines
    PROVE  Packets(order, lines, budget).used <= budget
  <1> DEFINE n == Len(order)
  <1>1. n \in Nat /\ \A i \in 1 .. n : lines[order[i]] \in Lines
    BY DEF ToSet
  <1> HIDE DEF n
  <1>2. \E f : IsPackets(f, order, lines, budget, n)
    BY <1>1, PacketsExist
  <1> DEFINE f == CHOOSE f : IsPackets(f, order, lines, budget, n)
  <1>3. IsPackets(f, order, lines, budget, n)
    BY <1>2
  <1>4. Packets(order, lines, budget) = f[n]
    BY DEF Packets, IsPackets, n
  <1> HIDE DEF f
  <1> DEFINE N == {k \in Nat : k <= n => f[k].used \in Nat /\ f[k].used <= budget}
  <1>5. 0 \in N
    BY <1>1, <1>3 DEF IsPackets
  <1>6. ASSUME NEW k \in Nat, k \in N
        PROVE  k + 1 \in N
    <2>1. SUFFICES ASSUME k + 1 <= n
                   PROVE  f[k + 1].used \in Nat /\ f[k + 1].used <= budget
      OBVIOUS
    <2> DEFINE x == f[k]
               m == order[k + 1]
               l == lines[m]
    <2>2. f[k + 1] = PacketAdded(x, m, l, budget)
      BY <1>1, <1>3, <2>1 DEF IsPackets
    <2>3. x.used \in Nat /\ x.used <= budget /\ l \in Lines
      BY <1>1, <1>6, <2>1
    <2> HIDE DEF x, m, l
    <2>4. CASE x.used >= budget \/ l.text = 0
      BY <2>2, <2>3, <2>4 DEF PacketAdded
    <2>5. CASE x.used < budget /\ l.text # 0
      <3>1. f[k + 1].used = x.used + Packet(x.used, l, budget)
        BY <2>2, <2>3, <2>5 DEF PacketAdded
      <3>2. Packet(x.used, l, budget) \in Nat /\ x.used + Packet(x.used, l, budget) <= budget
        BY <2>3, <2>5, PacketFits
      <3> QED
        BY <2>3, <3>1, <3>2
    <2> QED
      BY <2>3, <2>4, <2>5
  <1>7. n \in N
    <2> HIDE DEF N
    <2> QED
      BY <1>1, <1>5, <1>6, Induct
  <1> QED
    BY <1>1, <1>4, <1>7

-----------------------------------------------------------------------------
(* The structured frame: sums, and what one step of the loop takes away.   *)

IsTotal(f, s, n) == f = [i \in 0 .. n |-> IF i = 0 THEN 0 ELSE f[i - 1] + s[i]]

LEMMA TotalExists ==
    ASSUME NEW s, NEW n \in Nat
    PROVE  \E f : IsTotal(f, s, n)
  <1> DEFINE N == {k \in Nat : \E f : IsTotal(f, s, k)}
  <1>1. 0 \in N
    <2>1. IsTotal([i \in 0 .. 0 |-> 0], s, 0)
      BY DEF IsTotal
    <2> QED
      BY <2>1
  <1>2. ASSUME NEW k \in Nat, k \in N
        PROVE  k + 1 \in N
    <2>1. PICK f : IsTotal(f, s, k)
      BY <1>2
    <2> DEFINE g == [i \in 0 .. k + 1 |-> IF i <= k THEN f[i] ELSE f[i - 1] + s[i]]
    <2>2. ASSUME NEW i \in 0 .. k + 1
          PROVE  g[i] = IF i = 0 THEN 0 ELSE g[i - 1] + s[i]
      <3>1. i # 0 => i - 1 \in 0 .. k /\ g[i - 1] = f[i - 1]
        OBVIOUS
      <3>2. i <= k => f[i] = IF i = 0 THEN 0 ELSE f[i - 1] + s[i]
        BY <2>1 DEF IsTotal
      <3> QED
        BY <3>1, <3>2
    <2>3. IsTotal(g, s, k + 1)
      BY <2>2 DEF IsTotal
    <2> QED
      BY <2>3
  <1> QED
    <2> HIDE DEF N
    <2>1. n \in N
      BY <1>1, <1>2, Induct
    <2> QED
      BY <2>1 DEF N

\* The sums of the fronts of a list, of which Total is the last.
LEMMA TotalSteps ==
    ASSUME NEW n \in Nat, NEW s \in [1 .. n -> Nat]
    PROVE  \E f : /\ Total(s) = f[n] /\ f[0] = 0
                  /\ \A k \in 0 .. n : f[k] \in Nat
                  /\ \A k \in 1 .. n : f[k] = f[k - 1] + s[k]
  <1>1. Len(s) = n
    <2>1. s \in Seq(Nat) /\ DOMAIN s = 1 .. n
      OBVIOUS
    <2> QED
      BY <2>1
  <1>2. \E f : IsTotal(f, s, n)
    BY TotalExists
  <1> DEFINE f == CHOOSE f : IsTotal(f, s, n)
  <1>3. IsTotal(f, s, n)
    BY <1>2
  <1>4. Total(s) = f[n]
    BY <1>1 DEF Total, IsTotal
  <1> HIDE DEF f
  <1>5. f[0] = 0 /\ \A k \in 1 .. n : f[k] = f[k - 1] + s[k]
    BY <1>3 DEF IsTotal
  <1> DEFINE N == {k \in Nat : k <= n => f[k] \in Nat}
  <1>6. 0 \in N
    BY <1>5
  <1>7. ASSUME NEW k \in Nat, k \in N
        PROVE  k + 1 \in N
    <2>1. k + 1 <= n => k + 1 \in 1 .. n /\ f[k] \in Nat /\ s[k + 1] \in Nat /\ (k + 1) - 1 = k
      BY <1>7
    <2>2. k + 1 <= n => f[k + 1] = f[k] + s[k + 1]
      BY <1>5, <2>1
    <2> QED
      BY <2>1, <2>2
  <1>8. Nat \subseteq N
    <2> HIDE DEF N
    <2> QED
      BY <1>6, <1>7, Induct
  <1>9. \A k \in 0 .. n : f[k] \in Nat
    BY <1>8
  <1> QED
    BY <1>4, <1>5, <1>9

\* A sum is a number, and none if there is nothing to sum.
LEMMA TotalIsNat ==
    ASSUME NEW n \in Nat, NEW s \in [1 .. n -> Nat]
    PROVE  Total(s) \in Nat /\ (Total(s) # 0 => \E i \in 1 .. n : s[i] # 0)
                            /\ (Total(s) = 0 => \A i \in 1 .. n : s[i] = 0)
  <1>1. PICK f : /\ Total(s) = f[n] /\ f[0] = 0
                 /\ \A k \in 0 .. n : f[k] \in Nat
                 /\ \A k \in 1 .. n : f[k] = f[k - 1] + s[k]
    BY TotalSteps
  <1>2. f[n] \in Nat
    BY <1>1
  <1>3. ASSUME \A i \in 1 .. n : s[i] = 0
        PROVE  f[n] = 0
    <2> DEFINE N == {k \in Nat : k <= n => f[k] = 0}
    <2>1. 0 \in N
      BY <1>1
    <2>2. ASSUME NEW k \in Nat, k \in N
          PROVE  k + 1 \in N
      <3>1. k + 1 <= n => k + 1 \in 1 .. n /\ f[k] = 0 /\ s[k + 1] = 0 /\ (k + 1) - 1 = k
        BY <1>3, <2>2
      <3>2. k + 1 <= n => f[k + 1] = f[k] + s[k + 1]
        BY <1>1, <3>1
      <3> QED
        BY <3>1, <3>2
    <2>3. n \in N
      <3> HIDE DEF N
      <3> QED
        BY <2>1, <2>2, Induct
    <2> QED
      BY <2>3
  <1>4. ASSUME NEW i \in 1 .. n, s[i] # 0
        PROVE  f[n] # 0
    <2> DEFINE N == {k \in Nat : i <= k /\ k <= n => f[k] > 0}
    <2>1. 0 \in N
      OBVIOUS
    <2>2. ASSUME NEW k \in Nat, k \in N
          PROVE  k + 1 \in N
      <3>1. SUFFICES ASSUME i <= k + 1, k + 1 <= n PROVE f[k + 1] > 0
        OBVIOUS
      <3>2. f[k + 1] = f[k] + s[k + 1] /\ f[k] \in Nat /\ s[k + 1] \in Nat
        <4>1. k + 1 \in 1 .. n /\ k \in 0 .. n /\ (k + 1) - 1 = k
          BY <3>1
        <4> QED
          BY <1>1, <4>1
      <3>3. CASE i = k + 1
        BY <1>4, <3>2, <3>3
      <3>4. CASE i <= k
        <4>1. f[k] > 0
          BY <2>2, <3>1, <3>4
        <4> QED
          BY <3>2, <4>1
      <3> QED
        BY <3>1, <3>3, <3>4
    <2>3. n \in N
      <3> HIDE DEF N
      <3> QED
        BY <2>1, <2>2, Induct
    <2> QED
      BY <1>2, <2>3
  <1> QED
    BY <1>1, <1>2, <1>3, <1>4

\* With one entry less the sum is one less.
LEMMA TotalLess ==
    ASSUME NEW n \in Nat, NEW s \in [1 .. n -> Nat], NEW t \in [1 .. n -> Nat],
           NEW i \in 1 .. n, s[i] = t[i] + 1, \A j \in (1 .. n) \ {i} : t[j] = s[j]
    PROVE  Total(s) = Total(t) + 1
  <1>1. PICK f : /\ Total(s) = f[n] /\ f[0] = 0
                 /\ \A k \in 0 .. n : f[k] \in Nat
                 /\ \A k \in 1 .. n : f[k] = f[k - 1] + s[k]
    BY TotalSteps
  <1>2. PICK g : /\ Total(t) = g[n] /\ g[0] = 0
                 /\ \A k \in 0 .. n : g[k] \in Nat
                 /\ \A k \in 1 .. n : g[k] = g[k - 1] + t[k]
    BY TotalSteps
  <1> DEFINE N == {k \in Nat : k <= n => f[k] = IF k < i THEN g[k] ELSE g[k] + 1}
  <1>3. 0 \in N
    BY <1>1, <1>2
  <1>4. ASSUME NEW k \in Nat, k \in N
        PROVE  k + 1 \in N
    <2>1. SUFFICES ASSUME k + 1 <= n
                   PROVE  f[k + 1] = IF k + 1 < i THEN g[k + 1] ELSE g[k + 1] + 1
      OBVIOUS
    <2>2. k + 1 \in 1 .. n /\ k \in 0 .. n /\ (k + 1) - 1 = k
      BY <2>1
    <2>3. /\ f[k + 1] = f[k] + s[k + 1] /\ g[k + 1] = g[k] + t[k + 1]
          /\ f[k] \in Nat /\ g[k] \in Nat /\ s[k + 1] \in Nat /\ t[k + 1] \in Nat
      BY <1>1, <1>2, <2>2
    <2>4. f[k] = IF k < i THEN g[k] ELSE g[k] + 1
      BY <1>4, <2>1
    <2>5. s[k + 1] = IF k + 1 = i THEN t[k + 1] + 1 ELSE t[k + 1]
      BY <2>2
    <2>6. CASE k + 1 < i
      <3>1. f[k] = g[k] /\ s[k + 1] = t[k + 1]
        BY <2>2, <2>4, <2>5, <2>6
      <3> QED
        BY <2>3, <2>6, <3>1
    <2>7. CASE k + 1 = i
      <3>1. f[k] = g[k] /\ s[k + 1] = t[k + 1] + 1
        BY <2>2, <2>4, <2>5, <2>7
      <3>2. f[k + 1] = g[k + 1] + 1
        <4> DEFINE a == f[k + 1]
                   b == g[k + 1]
                   c == g[k]
                   d == t[k + 1]
        <4>1. a = c + (d + 1) /\ b = c + d /\ c \in Nat /\ d \in Nat
          BY <2>3, <3>1
        <4> HIDE DEF a, b, c, d
        <4>2. a = b + 1
          BY <4>1
        <4> QED
          BY <4>2 DEF a, b
      <3> QED
        BY <2>7, <3>2
    <2>8. CASE k + 1 > i
      <3>1. f[k] = g[k] + 1 /\ s[k + 1] = t[k + 1] /\ ~(k + 1 < i)
        BY <2>2, <2>4, <2>5, <2>8
      <3>2. f[k + 1] = g[k + 1] + 1
        <4> DEFINE a == f[k + 1]
                   b == g[k + 1]
                   c == g[k]
                   d == t[k + 1]
        <4>1. a = (c + 1) + d /\ b = c + d /\ c \in Nat /\ d \in Nat
          BY <2>3, <3>1
        <4> HIDE DEF a, b, c, d
        <4>2. a = b + 1
          BY <4>1
        <4> QED
          BY <4>2 DEF a, b
      <3> QED
        BY <3>1, <3>2
    <2> QED
      BY <2>2, <2>6, <2>7, <2>8
  <1>5. n \in N
    <2> HIDE DEF N
    <2> QED
      BY <1>3, <1>4, Induct
  <1> QED
    BY <1>1, <1>2, <1>5

Names == ToSet(ShrinkOrder)
FirstLists == {"assertions", "entities", "hints", "subgraphs"}

LEMMA ShrinkNames ==
    /\ DOMAIN ShrinkOrder = 1 .. 7 /\ Names = {ShrinkOrder[i] : i \in 1 .. 7}
    /\ \A i, j \in 1 .. 7 : ShrinkOrder[i] = ShrinkOrder[j] => i = j
    /\ FirstLists = {ShrinkOrder[i] : i \in 1 .. 4} /\ "evidence" = ShrinkOrder[5]
  <1>1. DOMAIN ShrinkOrder = 1 .. 7
    BY DEF ShrinkOrder
  <1>2. Names = {ShrinkOrder[i] : i \in 1 .. 7}
    BY <1>1 DEF Names, ToSet
  <1>3. \A i, j \in 1 .. 7 : ShrinkOrder[i] = ShrinkOrder[j] => i = j
    BY DEF ShrinkOrder
  <1>4. "evidence" = ShrinkOrder[5]
    BY DEF ShrinkOrder
  <1>5. FirstLists = {ShrinkOrder[i] : i \in 1 .. 4}
    <2>1. /\ ShrinkOrder[1] = "assertions" /\ ShrinkOrder[2] = "entities"
          /\ ShrinkOrder[3] = "hints" /\ ShrinkOrder[4] = "subgraphs"
      BY DEF ShrinkOrder
    <2>2. 1 .. 4 = {1, 2, 3, 4}
      OBVIOUS
    <2> QED
      BY <2>1, <2>2 DEF FirstLists
  <1> QED
    BY <1>1, <1>2, <1>3, <1>4, <1>5

\* What a structured frame holds, and how long it is, are numbers; none if it
\* holds nothing.
LEMMA EntriesAreNat ==
    ASSUME NEW l \in [Names -> Seq(Nat)], NEW fixed \in Nat
    PROVE  /\ Entries(l) \in Nat /\ Length(l, fixed) \in Nat
           /\ Entries(l) # 0 => \E i \in 1 .. 7 : l[ShrinkOrder[i]] # <<>>
           /\ Entries(l) = 0 => \A x \in DOMAIN l : l[x] = <<>>
  <1> DEFINE lens == [i \in DOMAIN ShrinkOrder |-> Len(l[ShrinkOrder[i]])]
             sums == [i \in DOMAIN ShrinkOrder |-> Total(l[ShrinkOrder[i]])]
  <1>1. ASSUME NEW i \in 1 .. 7
        PROVE  /\ Len(l[ShrinkOrder[i]]) \in Nat /\ Total(l[ShrinkOrder[i]]) \in Nat
               /\ Len(l[ShrinkOrder[i]]) = 0 <=> l[ShrinkOrder[i]] = <<>>
    <2> DEFINE s == l[ShrinkOrder[i]]
               n == Len(s)
    <2>1. s \in Seq(Nat)
      BY ShrinkNames
    <2> HIDE DEF s
    <2>2. n \in Nat /\ s \in [1 .. n -> Nat]
      BY <2>1
    <2>3. Total(s) \in Nat
      BY <2>2, TotalIsNat
    <2>4. n = 0 <=> s = <<>>
      BY <2>1
    <2> QED
      BY <2>2, <2>3, <2>4 DEF s
  <1>2. lens \in [1 .. 7 -> Nat] /\ sums \in [1 .. 7 -> Nat]
    BY <1>1, ShrinkNames
  <1>3. Entries(l) = Total(lens) /\ Length(l, fixed) = fixed + Total(sums)
    BY DEF Entries, Length
  <1>4. \A i \in 1 .. 7 : lens[i] = Len(l[ShrinkOrder[i]])
    BY ShrinkNames
  <1> HIDE DEF lens, sums
  <1>5. /\ Total(lens) \in Nat /\ (Total(lens) # 0 => \E i \in 1 .. 7 : lens[i] # 0)
        /\ (Total(lens) = 0 => \A i \in 1 .. 7 : lens[i] = 0)
    BY <1>2, TotalIsNat
  <1>6. Total(sums) \in Nat
    BY <1>2, TotalIsNat
  <1>7. Entries(l) # 0 => \E i \in 1 .. 7 : l[ShrinkOrder[i]] # <<>>
    BY <1>1, <1>3, <1>4, <1>5
  <1>8. ASSUME Entries(l) = 0, NEW x \in DOMAIN l
        PROVE  l[x] = <<>>
    <2>1. PICK i \in 1 .. 7 : x = ShrinkOrder[i]
      BY ShrinkNames
    <2> QED
      BY <1>1, <1>3, <1>4, <1>5, <1>8, <2>1
  <1> QED
    BY <1>3, <1>5, <1>6, <1>7, <1>8

\* One step of the loop takes one entry from the first list that is not empty.
LEMMA ShrunkDoes ==
    ASSUME NEW l \in [Names -> Seq(Nat)], Entries(l) # 0
    PROVE  /\ Shrunk(l) \in [Names -> Seq(Nat)] /\ Entries(l) = Entries(Shrunk(l)) + 1
           /\ \E i \in 1 .. 7 : /\ l[ShrinkOrder[i]] # <<>>
                                /\ \A j \in 1 .. 7 : j < i => l[ShrinkOrder[j]] = <<>>
                                /\ \A j \in (1 .. 7) \ {i} :
                                      Shrunk(l)[ShrinkOrder[j]] = l[ShrinkOrder[j]]
  <1> DEFINE J == {j \in DOMAIN ShrinkOrder : l[ShrinkOrder[j]] # <<>>}
             i == Min(J)
             r == Shrunk(l)
             x == ShrinkOrder[i]
  <1>1. J \in SUBSET Nat /\ J \subseteq 1 .. 7 /\ J # {}
    <2>1. \E k \in 1 .. 7 : l[ShrinkOrder[k]] # <<>>
      <3>1. 0 \in Nat
        OBVIOUS
      <3> QED
        BY <3>1, EntriesAreNat
    <2> QED
      BY <2>1, ShrinkNames
  <1>2. i \in J /\ \A j \in J : i <= j
    <2> HIDE DEF J
    <2>1. \E j \in J : \A k \in J : j <= k
      BY <1>1, LeastNumber
    <2> QED
      BY <2>1 DEF Min
  <1>3. i \in 1 .. 7 /\ x \in Names /\ l[x] # <<>>
        /\ \A j \in 1 .. 7 : j < i => l[ShrinkOrder[j]] = <<>>
    <2>1. \A j \in 1 .. 7 : j < i => j \notin J
      <3> HIDE DEF J, i
      <3> QED
        BY <1>1, <1>2
    <2>2. i \in 1 .. 7
      BY <1>1, <1>2
    <2> QED
      BY <1>2, <2>1, <2>2, ShrinkNames
  <1>4. r = [l EXCEPT ![x] = Front(@)]
    BY DEF Shrunk
  <1> HIDE DEF J, i
  <1>5. Front(l[x]) \in Seq(Nat) /\ Len(l[x]) = Len(Front(l[x])) + 1
        /\ Len(l[x]) \in Nat /\ Len(Front(l[x])) \in Nat
    <2> DEFINE s == l[x]
               k == Len(s)
    <2>1. s \in Seq(Nat) /\ s # <<>>
      BY <1>3
    <2> HIDE DEF s
    <2>2. k \in Nat /\ k # 0
      BY <2>1
    <2> HIDE DEF k
    <2>3. SubSeq(s, 1, k - 1) \in Seq(Nat) /\ Len(SubSeq(s, 1, k - 1)) = k - 1
      <3>1. k - 1 \in 0 .. Len(s)
        BY <2>2 DEF k
      <3> QED
        BY <2>1, <3>1
    <2>4. Front(s) = SubSeq(s, 1, k - 1)
      BY DEF Front, k
    <2> QED
      BY <2>2, <2>3, <2>4 DEF s, k
  <1>6. r \in [Names -> Seq(Nat)] /\ r[x] = Front(l[x])
        /\ \A j \in (1 .. 7) \ {i} : r[ShrinkOrder[j]] = l[ShrinkOrder[j]]
    <2>1. r \in [Names -> Seq(Nat)]
      BY <1>3, <1>4, <1>5
    <2>2. r[x] = Front(l[x])
      BY <1>3, <1>4
    <2>3. ASSUME NEW j \in (1 .. 7) \ {i}
          PROVE  r[ShrinkOrder[j]] = l[ShrinkOrder[j]]
      <3>1. ShrinkOrder[j] # x /\ ShrinkOrder[j] \in Names
        BY <1>3, ShrinkNames
      <3> QED
        BY <1>4, <3>1
    <2> QED
      BY <2>1, <2>2, <2>3
  <1> HIDE DEF r
  <1> DEFINE s == [j \in DOMAIN ShrinkOrder |-> Len(l[ShrinkOrder[j]])]
             t == [j \in DOMAIN ShrinkOrder |-> Len(r[ShrinkOrder[j]])]
  <1>7. s \in [1 .. 7 -> Nat] /\ t \in [1 .. 7 -> Nat]
    <2>1. \A j \in 1 .. 7 : l[ShrinkOrder[j]] \in Seq(Nat) /\ r[ShrinkOrder[j]] \in Seq(Nat)
      BY <1>6, ShrinkNames
    <2>2. \A j \in 1 .. 7 : Len(l[ShrinkOrder[j]]) \in Nat /\ Len(r[ShrinkOrder[j]]) \in Nat
      <3> SUFFICES ASSUME NEW j \in 1 .. 7
                   PROVE  Len(l[ShrinkOrder[j]]) \in Nat /\ Len(r[ShrinkOrder[j]]) \in Nat
        OBVIOUS
      <3> DEFINE a == l[ShrinkOrder[j]]
                 b == r[ShrinkOrder[j]]
      <3>1. a \in Seq(Nat) /\ b \in Seq(Nat)
        BY <2>1
      <3> HIDE DEF a, b
      <3>2. Len(a) \in Nat /\ Len(b) \in Nat
        BY <3>1
      <3> QED
        BY <3>2 DEF a, b
    <2> QED
      BY <2>2, ShrinkNames
  <1>8. s[i] = t[i] + 1 /\ \A j \in (1 .. 7) \ {i} : t[j] = s[j]
    BY <1>3, <1>5, <1>6, ShrinkNames
  <1>9. Entries(l) = Total(s) /\ Entries(r) = Total(t)
    BY DEF Entries
  <1> HIDE DEF s, t
  <1>10. Total(s) = Total(t) + 1
    <2> DEFINE n == 7
    <2>1. n \in Nat /\ s \in [1 .. n -> Nat] /\ t \in [1 .. n -> Nat] /\ i \in 1 .. n
          /\ s[i] = t[i] + 1 /\ \A j \in (1 .. n) \ {i} : t[j] = s[j]
      BY <1>3, <1>7, <1>8
    <2> HIDE DEF n
    <2> QED
      BY <2>1, TotalLess
  <1> QED
    BY <1>3, <1>6, <1>9, <1>10 DEF r

IsShrinking(f, lists, n) ==
    f = [k \in 0 .. n |-> IF k = 0 THEN lists ELSE Shrunk(f[k - 1])]

LEMMA ShrinkingExists ==
    ASSUME NEW lists, NEW n \in Nat
    PROVE  \E f : IsShrinking(f, lists, n)
  <1> DEFINE N == {k \in Nat : \E f : IsShrinking(f, lists, k)}
  <1>1. 0 \in N
    <2>1. IsShrinking([i \in 0 .. 0 |-> lists], lists, 0)
      BY DEF IsShrinking
    <2> QED
      BY <2>1
  <1>2. ASSUME NEW k \in Nat, k \in N
        PROVE  k + 1 \in N
    <2>1. PICK f : IsShrinking(f, lists, k)
      BY <1>2
    <2> DEFINE g == [i \in 0 .. k + 1 |-> IF i <= k THEN f[i] ELSE Shrunk(f[i - 1])]
    <2>2. ASSUME NEW i \in 0 .. k + 1
          PROVE  g[i] = IF i = 0 THEN lists ELSE Shrunk(g[i - 1])
      <3>1. i # 0 => i - 1 \in 0 .. k /\ g[i - 1] = f[i - 1]
        OBVIOUS
      <3>2. i <= k => f[i] = IF i = 0 THEN lists ELSE Shrunk(f[i - 1])
        BY <2>1 DEF IsShrinking
      <3> QED
        BY <3>1, <3>2
    <2>3. IsShrinking(g, lists, k + 1)
      BY <2>2 DEF IsShrinking
    <2> QED
      BY <2>3
  <1> QED
    <2> HIDE DEF N
    <2>1. n \in N
      BY <1>1, <1>2, Induct
    <2> QED
      BY <2>1 DEF N

\* The lists of a structured frame with so many entries, of which the evidence
\* is whole unless the lists before it are empty.
Shrinks(l, lists, left) ==
    /\ l \in [Names -> Seq(Nat)] /\ Entries(l) = left
    /\ l["evidence"] = lists["evidence"] \/ \A x \in FirstLists : l[x] = <<>>

LEMMA ShrunkShrinks ==
    ASSUME NEW lists, NEW left \in Nat, NEW l, Shrinks(l, lists, left + 1)
    PROVE  Shrinks(Shrunk(l), lists, left)
  <1> DEFINE r == Shrunk(l)
  <1>1. l \in [Names -> Seq(Nat)] /\ Entries(l) = left + 1 /\ Entries(l) # 0
    BY DEF Shrinks
  <1>2. /\ r \in [Names -> Seq(Nat)] /\ Entries(l) = Entries(r) + 1
        /\ \E i \in 1 .. 7 : /\ l[ShrinkOrder[i]] # <<>>
                             /\ \A j \in 1 .. 7 : j < i => l[ShrinkOrder[j]] = <<>>
                             /\ \A j \in (1 .. 7) \ {i} : r[ShrinkOrder[j]] = l[ShrinkOrder[j]]
    BY <1>1, ShrunkDoes
  <1> HIDE DEF r
  <1>3. Entries(r) = left
    <2>1. Entries(r) \in Nat
      <3>1. 0 \in Nat
        OBVIOUS
      <3> QED
        BY <1>2, <3>1, EntriesAreNat
    <2> QED
      BY <1>1, <1>2, <2>1
  <1>4. PICK i \in 1 .. 7 : /\ l[ShrinkOrder[i]] # <<>>
                            /\ \A j \in 1 .. 7 : j < i => l[ShrinkOrder[j]] = <<>>
                            /\ \A j \in (1 .. 7) \ {i} : r[ShrinkOrder[j]] = l[ShrinkOrder[j]]
    BY <1>2
  <1>5. l["evidence"] = lists["evidence"] \/ \A j \in 1 .. 4 : l[ShrinkOrder[j]] = <<>>
    BY ShrinkNames DEF Shrinks
  <1>6. r["evidence"] = lists["evidence"] \/ \A j \in 1 .. 4 : r[ShrinkOrder[j]] = <<>>
    <2>1. CASE i > 4
      <3>1. \A j \in 1 .. 4 : r[ShrinkOrder[j]] = <<>>
        BY <1>4, <2>1
      <3> QED
        BY <3>1
    <2>2. CASE i <= 4
      <3>1. r["evidence"] = l["evidence"]
        BY <1>4, <2>2, ShrinkNames
      <3>2. CASE l["evidence"] = lists["evidence"]
        BY <3>1, <3>2
      <3>3. CASE \A j \in 1 .. 4 : l[ShrinkOrder[j]] = <<>>
        BY <1>4, <2>2, <3>3
      <3> QED
        BY <1>5, <3>2, <3>3
    <2> QED
      BY <1>4, <2>1, <2>2
  <1>7. r["evidence"] = lists["evidence"] \/ \A x \in FirstLists : r[x] = <<>>
    <2>1. ASSUME \A j \in 1 .. 4 : r[ShrinkOrder[j]] = <<>>, NEW x \in FirstLists
          PROVE  r[x] = <<>>
      <3>1. PICK j \in 1 .. 4 : x = ShrinkOrder[j]
        BY ShrinkNames
      <3> QED
        BY <2>1, <3>1
    <2> QED
      BY <1>6, <2>1
  <1>8. Shrinks(r, lists, left)
    BY <1>2, <1>3, <1>7 DEF Shrinks
  <1> QED
    BY <1>8 DEF r

\* A number of at most ten digits, and what surrounds it: of a smaller one no more.
LEMMA EstimatesGrow ==
    ASSUME NEW m \in Nat, NEW n \in Nat, m <= n
    PROVE  /\ EstimateLength(m) \in Nat /\ EstimateLength(n) \in Nat
           /\ EstimateLength(m) <= EstimateLength(n)
  <1> DEFINE few == {p \in Powers : p <= m}
             all == {p \in Powers : p <= n}
  <1>1. few \subseteq all
    BY DEF Powers
  <1>2. IsFiniteSet(all)
    <2>1. all \in SUBSET (1 .. n)
      BY DEF Powers
    <2>2. IsFiniteSet(1 .. n)
      BY FS_Interval
    <2> QED
      BY <2>1, <2>2, FS_Subset
  <1>3. EstimateLength(m) = 21 + Cardinality(few) /\ EstimateLength(n) = 21 + Cardinality(all)
    BY DEF EstimateLength
  <1> HIDE DEF few, all
  <1>4. IsFiniteSet(few) /\ Cardinality(few) <= Cardinality(all)
    BY <1>1, <1>2, FS_Subset
  <1>5. PICK j, k : j = Cardinality(few) /\ k = Cardinality(all)
    OBVIOUS
  <1>6. j \in Nat /\ k \in Nat /\ j <= k
    BY <1>2, <1>4, <1>5, FS_CardinalityType
  <1>7. EstimateLength(m) = 21 + j /\ EstimateLength(n) = 21 + k
    BY <1>3, <1>5
  <1> QED
    BY <1>6, <1>7

\* What was fitted, once its estimate is written into it.
LEMMA EstimateAdds ==
    ASSUME NEW fitted \in Nat, NEW budget \in Nat, Tokens(fitted) <= budget
    PROVE  Tokens(fitted + EstimateLength(Tokens(fitted)))
               <= budget + Tokens(EstimateLength(budget))
  <1> DEFINE C == CharsPerToken
             roi == Tokens(fitted)
             e == EstimateLength(roi)
             f == EstimateLength(budget)
             t == Tokens(f)
  <1>1. C \in Nat
    BY FramesAssumption
  <1>2. roi \in Nat /\ fitted <= budget * C
    BY TokensFit
  <1>3. e \in Nat /\ f \in Nat /\ e <= f
    BY <1>2, EstimatesGrow
  <1>4. t \in Nat /\ f <= t * C
    BY <1>3, TokensFit
  <1> HIDE DEF roi, e, f, t, C
  <1>5. (budget + t) * C = budget * C + t * C
    BY <1>1, <1>4
  <1>6. budget * C \in Nat /\ t * C \in Nat
    BY <1>1, <1>4
  <1>7. fitted + e <= (budget + t) * C
    BY <1>2, <1>3, <1>4, <1>5, <1>6
  <1>8. fitted + e \in Nat /\ budget + t \in Nat
    BY <1>3, <1>4
  <1>9. Tokens(fitted + e) <= budget + t
    BY <1>7, <1>8, TokensFit DEF C
  <1> QED
    BY <1>9 DEF e, f, t, roi

\* A structured frame is within the budget but for its estimate, unless all its
\* lists are empty, and evidence is dropped only after the lists before it are.
LEMMA SectionsFit ==
    ASSUME NEW lists \in [Names -> Seq(Nat)], NEW fixed \in Nat, NEW budget \in Nat
    PROVE  LET s == FitSections(lists, fixed, budget)
               l == s.lists
           IN
           /\ \/ s.roi <= budget /\ s.tokens <= budget + Tokens(EstimateLength(budget))
              \/ \A x \in DOMAIN l : l[x] = <<>>
           /\ l["evidence"] = lists["evidence"] \/ \A x \in FirstLists : l[x] = <<>>
  <1> DEFINE total == Entries(lists)
             Done(l) == Tokens(Length(l, fixed)) <= budget \/ \A x \in DOMAIN l : l[x] = <<>>
  <1>1. total \in Nat
    BY EntriesAreNat
  <1> HIDE DEF total
  <1>2. \E f : IsShrinking(f, lists, total)
    BY <1>1, ShrinkingExists
  <1> DEFINE f == CHOOSE f : IsShrinking(f, lists, total)
             P == {n \in 0 .. total : Done(f[n])}
             pops == Min(P)
  <1>3. IsShrinking(f, lists, total)
    BY <1>2
  <1> DEFINE s == FitSections(lists, fixed, budget)
             fitted == Length(f[pops], fixed)
  <1>4. /\ s.lists = f[pops] /\ s.roi = Tokens(fitted)
        /\ s.tokens = Tokens(fitted + EstimateLength(Tokens(fitted)))
    BY DEF FitSections, IsShrinking, total
  <1> HIDE DEF s
  <1> HIDE DEF f
  <1> DEFINE N == {k \in Nat : k <= total => Shrinks(f[k], lists, total - k)}
  <1>5. 0 \in N
    BY <1>1, <1>3 DEF IsShrinking, Shrinks, total
  <1>6. ASSUME NEW k \in Nat, k \in N
        PROVE  k + 1 \in N
    <2>1. SUFFICES ASSUME k + 1 <= total
                   PROVE  Shrinks(f[k + 1], lists, total - (k + 1))
      OBVIOUS
    <2> DEFINE l == f[k]
               left == total - (k + 1)
    <2>2. f[k + 1] = Shrunk(l)
      BY <1>1, <1>3, <2>1 DEF IsShrinking
    <2>3. left \in Nat /\ total - k = left + 1
      BY <1>1, <2>1
    <2>4. Shrinks(l, lists, left + 1)
      BY <1>1, <1>6, <2>1, <2>3
    <2> HIDE DEF l, left
    <2>5. Shrinks(Shrunk(l), lists, left)
      BY <2>3, <2>4, ShrunkShrinks
    <2> QED
      BY <2>2, <2>5 DEF left
  <1>7. \A k \in 0 .. total : Shrinks(f[k], lists, total - k)
    <2>1. Nat \subseteq N
      <3> HIDE DEF N
      <3> QED
        BY <1>5, <1>6, Induct
    <2> QED
      BY <1>1, <2>1
  <1> HIDE DEF N
  <1>8. total \in P
    <2>1. Shrinks(f[total], lists, 0)
      BY <1>1, <1>7
    <2>2. \A x \in DOMAIN f[total] : f[total][x] = <<>>
      <3>1. 0 \in Nat
        OBVIOUS
      <3> QED
        BY <2>1, <3>1, EntriesAreNat DEF Shrinks
    <2> QED
      BY <1>1, <2>2
  <1>9. pops \in P
    <2>1. P \in SUBSET Nat /\ P # {}
      BY <1>1, <1>8
    <2> HIDE DEF P
    <2>2. \E j \in P : \A k \in P : j <= k
      BY <2>1, LeastNumber
    <2> QED
      BY <2>2 DEF Min
  <1> HIDE DEF pops
  <1>10. pops \in 0 .. total /\ Done(f[pops])
    BY <1>9
  <1> DEFINE l == f[pops]
  <1>11. Shrinks(l, lists, total - pops)
    BY <1>7, <1>10
  <1> HIDE DEF l
  <1>12. l \in [Names -> Seq(Nat)]
    BY <1>11 DEF Shrinks
  <1>13. fitted \in Nat /\ fitted = Length(l, fixed)
    BY <1>12, EntriesAreNat DEF l
  <1>14. \/ s.roi <= budget /\ s.tokens <= budget + Tokens(EstimateLength(budget))
         \/ \A x \in DOMAIN l : l[x] = <<>>
    <2>1. Tokens(fitted) <= budget \/ \A x \in DOMAIN l : l[x] = <<>>
      BY <1>10, <1>13 DEF l
    <2> HIDE DEF fitted
    <2> QED
      BY <1>4, <1>13, <2>1, EstimateAdds
  <1> QED
    BY <1>4, <1>11, <1>14 DEF Shrinks, l, s

-----------------------------------------------------------------------------
(* The call in progress.                                                   *)

WorkFields == {"pc", "query", "found", "kept", "counted", "views", "status", "ranked",
               "supported", "frame", "ids", "subgraphs", "hints", "evidence"}

\* What the call has read: of every memory it asked for a status that the fact
\* has had since the call began, and of those kept relations in force.
ReadInv(w, f, h) ==
    /\ w.query \in Queries /\ w.found \subseteq Memories /\ w.kept \subseteq Memories
    /\ \A m \in Memories : f[m] \in h[m]
    /\ DOMAIN w.status \subseteq Memories
    /\ \A m \in DOMAIN w.status : /\ w.status[m] \in h[m] \cup {"none"}
                                  /\ ~w.counted => w.status[m] = "none"
    /\ w.query.at # NoTime =>
          \A m \in w.kept : /\ m \in DOMAIN w.views
                            /\ ~InactiveAt(Envelopes[m].relations \cup w.views[m], w.query.at)

\* What it ranked, of which a status has been read, and the first frame.
RankInv(w) ==
    /\ w.kept \subseteq DOMAIN w.status
    /\ w.ranked \in Seq(Memories) /\ ToSet(w.ranked) \subseteq w.kept
    /\ w.ids \subseteq ToSet(w.ranked) /\ (w.ids = {} <=> w.ranked = <<>>)
    /\ w.supported => /\ w.ranked # <<>>
                      /\ \A m \in ToSet(w.ranked) : ~Withheld(Envelopes[m])
    /\ FrameOK(w.frame, Len(w.ranked), ToSet(w.ranked),
               Most(HeaderLine(w.query.length, w.query.budget), w.query.budget))

\* The parts that were read before the last are about what it ranked.
GraphInv(w) == IsFiniteSet(w.subgraphs) /\ \A g \in w.subgraphs : g.mems \subseteq w.ids
HintsInv(w) == IsFiniteSet(w.hints) /\ \A r \in w.hints : r.mem \in w.ids
EvidenceInv(w) ==
    /\ Len(w.evidence) \in Nat /\ DOMAIN w.evidence = 1 .. Len(w.evidence)
    /\ \A i \in DOMAIN w.evidence :
          LET row == w.evidence[i] IN
          /\ row.mem \in w.ids /\ row.status = w.status[row.mem]
          /\ row.withheld = Withheld(Envelopes[row.mem])

CallInv(w, f, h) ==
    /\ DOMAIN w = WorkFields
    /\ w.pc # "idle" => ReadInv(w, f, h)
    /\ w.pc = "weighing" => w.kept \subseteq DOMAIN w.status \cup w.found
    /\ w.pc \in {"subgraphs", "hints", "evidence", "knowledge"} => RankInv(w)
    /\ w.pc \in {"hints", "evidence", "knowledge"} => GraphInv(w)
    /\ w.pc \in {"evidence", "knowledge"} => HintsInv(w)
    /\ w.pc = "knowledge" => EvidenceInv(w)

AnswerInv == EvidenceIsOneView /\ PartsAgree /\ FramesFit

ServerInv ==
    /\ IsFiniteSet(graph) /\ DOMAIN facts = Memories /\ DOMAIN held = Memories
    /\ CallInv(work, facts, held)
    /\ AnswerInv

\* Of a memory that is withheld the risk is at least the limit of Supported.
LEMMA RiskOf ==
    ASSUME NEW e
    PROVE  Risk(e) \in {0, 45, 75} /\ (Withheld(e) => Risk(e) = 75)
  BY DEF Risk, Withheld, Max

LEMMA FeatureOfRisk ==
    ASSUME NEW c, NEW q
    PROVE  Features(c, q).features["risk"] = Risk(c.env)
  BY DEF Features

LEMMA SupportedAnswers ==
    ASSUME NEW ms \in SUBSET Memories, NEW scores, NEW terms, NEW phase,
           scores = [m \in ms |-> Features(Candidate(m), Q)], Supported(terms, scores, phase),
           NEW m \in ms
    PROVE  ~Withheld(Envelopes[m])
  <1> DEFINE R == {scores[n].features["risk"] : n \in DOMAIN scores}
  <1>1. Max(R) < 50
    BY DEF Supported
  <1>2. ASSUME NEW n \in ms
        PROVE  scores[n].features["risk"] = Risk(Envelopes[n])
    <2>1. scores[n] = Features(Candidate(n), Q)
      OBVIOUS
    <2>2. Candidate(n).env = Envelopes[n]
      BY DEF Candidate
    <2> QED
      BY <2>1, <2>2, FeatureOfRisk
  <1>3. R = {Risk(Envelopes[n]) : n \in ms}
    BY <1>2
  <1> HIDE DEF R
  <1>4. \A x \in R : x \in {0, 45, 75}
    BY <1>3, RiskOf
  <1>5. ASSUME Withheld(Envelopes[m])
        PROVE  FALSE
    <2>1. 75 \in R
      BY <1>3, <1>5, RiskOf
    <2>2. \E x \in R : \A y \in R : x >= y
      BY <1>4, <2>1
    <2>3. \A y \in R : Max(R) >= y
      BY <2>2 DEF Max
    <2>4. Max(R) \in R
      BY <2>2 DEF Max
    <2> QED
      BY <1>1, <1>4, <2>1, <2>3, <2>4
  <1> QED
    BY <1>5

\* The subgraphs of some ids are about them, and as few as the graphs of rows.
LEMMA SubgraphsWithin ==
    ASSUME IsFiniteSet(graph), NEW ids, NEW anchors, NEW S \in SUBSET SubgraphsOf(ids, anchors)
    PROVE  IsFiniteSet(S) /\ \A g \in S : g.mems \subseteq ids
  <1>1. CASE SubgraphsOf(ids, anchors) = {}
    BY <1>1, FS_EmptySet
  <1>2. CASE SubgraphsOf(ids, anchors) # {}
    <2> DEFINE least == IF Cardinality(anchors) >= 3 THEN 2 ELSE 1
               found == Anchored(graph, anchors, ids, Q.at, least)
               names == {r.graph : r \in found}
               all == {Subgraph(found, anchors, g) : g \in names}
    <2>1. ids # {} /\ SubgraphsOf(ids, anchors) = all
      BY <1>2 DEF SubgraphsOf, AnswerableSubgraphs
    <2>2. IsFiniteSet(found) /\ \A r \in found : r.mem \in ids
      <3>1. found \in SUBSET graph
        BY DEF Anchored
      <3>2. \A r \in found : r.mem \in ids
        BY <2>1 DEF Anchored
      <3> HIDE DEF found
      <3> QED
        BY <3>1, <3>2, FS_Subset
    <2> HIDE DEF found
    <2>3. IsFiniteSet(names)
      <3>1. [r \in found |-> r.graph] \in Surjection(found, names)
        BY DEF Surjection
      <3> HIDE DEF names
      <3> QED
        BY <2>2, <3>1, FS_Surjection
    <2> HIDE DEF names
    <2>4. IsFiniteSet(all)
      <3>1. [g \in names |-> Subgraph(found, anchors, g)] \in Surjection(names, all)
        BY DEF Surjection
      <3> HIDE DEF all
      <3> QED
        BY <2>3, <3>1, FS_Surjection
    <2>5. ASSUME NEW g \in all
          PROVE  g.mems \subseteq ids
      <3>1. PICK n \in names : g = Subgraph(found, anchors, n)
        OBVIOUS
      <3> QED
        BY <2>2, <3>1 DEF Subgraph
    <2> HIDE DEF all
    <2> QED
      BY <2>1, <2>4, <2>5, FS_Subset
  <1> QED
    BY <1>1, <1>2

LEMMA NoAnswer ==
    ASSUME answer' = None
    PROVE  AnswerInv'
  BY DEF AnswerInv, Answered, EvidenceIsOneView, PartsAgree, FramesFit

LEMMA SameAnswer ==
    ASSUME AnswerInv, answer' = answer
    PROVE  AnswerInv'
  <1>1. EvidenceIsOneView'
    BY DEF AnswerInv, Answered, EvidenceIsOneView
  <1>2. PartsAgree'
    BY DEF AnswerInv, Answered, PartsAgree
  <1>3. FramesFit'
    BY DEF AnswerInv, FramesFit
  <1> QED
    BY <1>1, <1>2, <1>3 DEF AnswerInv

LEMMA IdleInv ==
    ASSUME NEW w, w = NoWork, NEW f, NEW h
    PROVE  CallInv(w, f, h)
  BY DEF CallInv, NoWork, WorkFields

\* A call begins: nothing is read, and each fact has the status it has.
LEMMA StartInv ==
    ASSUME ServerInv, NEW q \in Queries, StartWork(q)
    PROVE  CallInv(work', facts', held')
  <1> DEFINE v == work'
  <1>1. DOMAIN v = WorkFields
    BY DEF StartWork, NoWork, WorkFields
  <1>2. /\ v.pc = "recalling" /\ v.query = q /\ v.found = {} /\ v.kept = {}
        /\ v.status = <<>>
    BY DEF StartWork, NoWork
  <1>3. facts' = facts /\ \A m \in Memories : facts'[m] \in held'[m]
    BY DEF StartWork, tablesOfFacade
  <1> HIDE DEF v
  <1>4. ReadInv(v, facts', held')
    <2>1. DOMAIN v.status = {}
      BY <1>2
    <2> QED
      BY <1>2, <1>3, <2>1 DEF ReadInv
  <1>5. CallInv(v, facts', held')
    BY <1>1, <1>2, <1>4 DEF CallInv
  <1> QED
    BY <1>5 DEF v

\* What is recalled becomes what is kept, or is filtered first.
LEMMA RecallInv ==
    ASSUME ServerInv, RecallForWork
    PROVE  CallInv(work', facts, held)
  <1> DEFINE v == work'
             w == work
  <1>1. DOMAIN w = WorkFields /\ ReadInv(w, facts, held)
    BY DEF ServerInv, CallInv, RecallForWork
  <1>2. PICK ms \in SUBSET Memories :
            v = [w EXCEPT !.pc = IF Q.at = NoTime THEN "weighing" ELSE "filtering",
                          !.found = ms, !.kept = IF Q.at = NoTime THEN ms ELSE {}]
    BY DEF RecallForWork
  <1> DEFINE at == w.query.at
  <1>3. Q.at = at
    BY DEF Q
  <1> HIDE DEF v, w, at
  <1>4. /\ DOMAIN v = WorkFields /\ v.pc = IF at = NoTime THEN "weighing" ELSE "filtering"
        /\ v.found = ms /\ v.kept = IF at = NoTime THEN ms ELSE {}
        /\ v.query = w.query /\ v.counted = w.counted /\ v.views = w.views
        /\ v.status = w.status
    BY <1>1, <1>2, <1>3 DEF WorkFields
  <1>5. ReadInv(v, facts, held)
    BY <1>1, <1>4 DEF ReadInv, at
  <1>6. CallInv(v, facts, held)
    <2>1. v.pc = "weighing" => v.kept = v.found
      BY <1>4
    <2>2. v.pc \in {"weighing", "filtering"}
      BY <1>4
    <2> QED
      BY <1>4, <1>5, <2>1, <2>2 DEF CallInv
  <1> QED
    BY <1>6 DEF v

\* The relations of a memory are those first read.
LEMMA ViewedKeeps ==
    ASSUME NEW m
    PROVE  /\ m \in DOMAIN Viewed(m)
           /\ View0(m) = Envelopes[m].relations \cup Viewed(m)[m]
           /\ \A n \in DOMAIN work.views : n \in DOMAIN Viewed(m) /\ Viewed(m)[n] = work.views[n]
  <1> DEFINE views == work.views
             rows == RowsOf(m)
  <1>1. Viewed(m) = IF m \in DOMAIN views THEN views
                    ELSE [n \in DOMAIN views \cup {m} |-> IF n = m THEN rows ELSE views[n]]
    BY DEF Viewed, With
  <1>2. View0(m) = Envelopes[m].relations \cup (IF m \in DOMAIN views THEN views[m] ELSE rows)
    BY DEF View0
  <1> HIDE DEF views, rows
  <1>3. CASE m \in DOMAIN views
    BY <1>1, <1>2, <1>3 DEF views
  <1>4. CASE m \notin DOMAIN views
    BY <1>1, <1>2, <1>4 DEF views
  <1> QED
    BY <1>3, <1>4

\* A memory is kept only if the relations read say that it was in force.
LEMMA FilterInv ==
    ASSUME ServerInv, FilterTemporal
    PROVE  CallInv(work', facts, held)
  <1> DEFINE v == work'
             w == work
             at == w.query.at
  <1>1. DOMAIN w = WorkFields /\ ReadInv(w, facts, held) /\ w.pc = "filtering"
    BY DEF ServerInv, CallInv, FilterTemporal
  <1>2. CASE w.found = {} /\ v = [w EXCEPT !.pc = "weighing", !.found = w.kept]
    <2> HIDE DEF v, w
    <2>1. /\ DOMAIN v = WorkFields /\ v.pc = "weighing" /\ v.found = w.kept /\ v.kept = w.kept
          /\ v.query = w.query /\ v.counted = w.counted /\ v.views = w.views
          /\ v.status = w.status
      BY <1>1, <1>2 DEF WorkFields
    <2>2. ReadInv(v, facts, held)
      BY <1>1, <2>1 DEF ReadInv
    <2>3. CallInv(v, facts, held)
      BY <2>1, <2>2 DEF CallInv
    <2> QED
      BY <2>3 DEF v
  <1>3. ASSUME NEW m \in w.found,
               v = [w EXCEPT !.found = @ \ {m}, !.views = Viewed(m),
                             !.kept = IF InactiveAt(View0(m), Q.at) THEN @ ELSE @ \cup {m}]
        PROVE  CallInv(v, facts, held)
    <2> DEFINE views == Viewed(m)
               rows == Envelopes[m].relations \cup views[m]
    <2>1. /\ m \in DOMAIN views /\ View0(m) = rows
          /\ \A n \in DOMAIN w.views : n \in DOMAIN views /\ views[n] = w.views[n]
      BY ViewedKeeps
    <2>2. Q.at = at
      BY DEF Q
    <2> HIDE DEF v, w, views
    <2>3. /\ DOMAIN v = WorkFields /\ v.pc = "filtering" /\ v.found = w.found \ {m}
          /\ v.kept = IF InactiveAt(rows, at) THEN w.kept ELSE w.kept \cup {m}
          /\ v.query = w.query /\ v.counted = w.counted /\ v.views = views
          /\ v.status = w.status
      BY <1>1, <1>3, <2>1, <2>2 DEF WorkFields, views
    <2>4. v.found \subseteq Memories /\ v.kept \subseteq Memories
      BY <1>1, <1>3, <2>3 DEF ReadInv
    <2>5. ASSUME at # NoTime, NEW n \in v.kept
          PROVE  n \in DOMAIN v.views /\ ~InactiveAt(Envelopes[n].relations \cup v.views[n], at)
      <3>1. CASE n \in w.kept
        BY <1>1, <2>1, <2>3, <2>5, <3>1 DEF ReadInv
      <3>2. CASE n \notin w.kept
        BY <2>1, <2>3, <2>5, <3>2
      <3> QED
        BY <3>1, <3>2
    <2>6. ReadInv(v, facts, held)
      BY <1>1, <2>3, <2>4, <2>5 DEF ReadInv
    <2> QED
      BY <2>3, <2>6 DEF CallInv
  <1> QED
    BY <1>2, <1>3 DEF FilterTemporal

\* Weighing a memory reads its relations and its fact, unless they were read.
LEMMA WeighInv ==
    ASSUME ServerInv, Weigh
    PROVE  CallInv(work', facts, held)
  <1> DEFINE v == work'
             w == work
             at == w.query.at
  <1>1. /\ DOMAIN w = WorkFields /\ ReadInv(w, facts, held) /\ w.pc = "weighing"
        /\ w.kept \subseteq DOMAIN w.status \cup w.found
    BY DEF ServerInv, CallInv, Weigh
  <1>2. PICK m \in w.found :
            v = [w EXCEPT !.found = @ \ {m}, !.views = Viewed(m),
                          !.status = With(@, m, StatusOf(m))]
    BY DEF Weigh
  <1> DEFINE views == Viewed(m)
             status == With(w.status, m, StatusOf(m))
  <1>3. \A n \in DOMAIN w.views : n \in DOMAIN views /\ views[n] = w.views[n]
    BY ViewedKeeps
  <1>4. m \in Memories /\ facts[m] \in held[m]
    BY <1>1, <1>2 DEF ReadInv
  <1>5. StatusOf(m) \in held[m] \cup {"none"} /\ (~w.counted => StatusOf(m) = "none")
    BY <1>1, <1>4 DEF StatusOf, ReadInv
  <1>6. /\ DOMAIN status = DOMAIN w.status \cup {m}
        /\ \A n \in DOMAIN status : status[n] = IF n = m THEN StatusOf(m) ELSE w.status[n]
    BY DEF With
  <1> HIDE DEF v, w, views, status
  <1>7. /\ DOMAIN v = WorkFields /\ v.pc = "weighing" /\ v.found = w.found \ {m}
        /\ v.kept = w.kept /\ v.query = w.query /\ v.counted = w.counted
        /\ v.views = views /\ v.status = status
    BY <1>1, <1>2 DEF WorkFields, views, status
  <1>8. /\ DOMAIN v.status \subseteq Memories
        /\ \A n \in DOMAIN v.status : /\ v.status[n] \in held[n] \cup {"none"}
                                      /\ ~v.counted => v.status[n] = "none"
    BY <1>1, <1>4, <1>5, <1>6, <1>7 DEF ReadInv
  <1>9. ReadInv(v, facts, held)
    <2>1. v.query.at # NoTime =>
             \A n \in v.kept : /\ n \in DOMAIN v.views
                               /\ ~InactiveAt(Envelopes[n].relations \cup v.views[n], v.query.at)
      BY <1>1, <1>3, <1>7 DEF ReadInv
    <2> QED
      BY <1>1, <1>7, <1>8, <2>1 DEF ReadInv
  <1>10. v.kept \subseteq DOMAIN v.status \cup v.found
    BY <1>1, <1>6, <1>7
  <1>11. CallInv(v, facts, held)
    BY <1>7, <1>9, <1>10 DEF CallInv
  <1> QED
    BY <1>11 DEF v

\* Every line of a frame is a line, also the notice that a text is withheld.
LEMMA LinesAreLines ==
    ASSUME NEW m \in Memories
    PROVE  LinesFor(m) \in Lines
  <1> DEFINE l == Envelopes[m].lines
  <1>1. l \in Lines /\ LinesFor(m) = IF Withheld(Envelopes[m])
                                     THEN [l EXCEPT !.text = NoticeLength, !.gap = FALSE] ELSE l
    BY FacadeAssumption DEF LinesFor
  <1>2. NoticeLength \in Nat
    BY DEF NoticeLength
  <1> HIDE DEF l
  <1>3. [l EXCEPT !.text = NoticeLength, !.gap = FALSE] \in Lines
    BY <1>1, <1>2 DEF Lines
  <1> QED
    BY <1>1, <1>3

\* What is ranked was kept, what can be inspected ranked, and the frame fits.
LEMMA RankAndFrameInv ==
    ASSUME ServerInv, RankAndFrame
    PROVE  CallInv(work', facts, held)
  <1> DEFINE v == work'
             w == work
             q == w.query
  <1>1. /\ DOMAIN w = WorkFields /\ ReadInv(w, facts, held)
        /\ w.kept \subseteq DOMAIN w.status \cup w.found /\ w.found = {}
    BY DEF ServerInv, CallInv, RankAndFrame
  <1>2. w.kept \in SUBSET Memories /\ w.kept \subseteq DOMAIN w.status /\ q \in Queries
    BY <1>1 DEF ReadInv
  <1>3. /\ q.length \in Nat /\ q.budget \in Nat /\ q.top \in Nat
    BY <1>2, FacadeAssumption
  <1>4. PICK order \in RankForFacade(w.kept) :
            LET ranked == FirstOfSeq(Answering(order), Q.top)
                scores == [m \in ToSet(ranked) |-> Features(Candidate(m), Q)]
                frame == TextFrame(ranked, [m \in ToSet(ranked) |-> LinesFor(m)], Q.length,
                                   Q.budget)
            IN  v = [w EXCEPT !.pc = "subgraphs", !.ranked = ranked, !.frame = frame,
                              !.supported = Supported(Q.terms, scores, Q.phase),
                              !.ids = Inspectable(frame, ranked)]
    BY DEF RankAndFrame
  <1> DEFINE ranked == FirstOfSeq(Answering(order), Q.top)
             scores == [m \in ToSet(ranked) |-> Features(Candidate(m), Q)]
             lines == [m \in ToSet(ranked) |-> LinesFor(m)]
             frame == TextFrame(ranked, lines, Q.length, Q.budget)
             supported == Supported(Q.terms, scores, Q.phase)
             ids == Inspectable(frame, ranked)
  <1>5. Q = q
    BY DEF Q
  <1>6. order \in Seq(Memories) /\ ToSet(order) \subseteq w.kept
    BY <1>2, RankingOf
  <1>7. Answering(order) \in Seq(Memories) /\ ToSet(Answering(order)) \subseteq ToSet(order)
    BY <1>6, OnlyWithin DEF Answering
  <1>8. ranked \in Seq(Memories) /\ ToSet(ranked) \subseteq ToSet(Answering(order))
    BY <1>3, <1>5, <1>7, FirstWithin
  <1>9. /\ ranked \in Seq(Memories) /\ ToSet(ranked) \subseteq w.kept
        /\ ToSet(ranked) \subseteq Memories
    BY <1>2, <1>6, <1>7, <1>8
  <1>10. v = [w EXCEPT !.pc = "subgraphs", !.ranked = ranked, !.frame = frame,
                       !.supported = supported, !.ids = ids]
    BY <1>4
  <1> HIDE DEF v, w, ranked
  <1>11. FrameOK(frame, Len(ranked), ToSet(ranked), Most(HeaderLine(q.length, q.budget), q.budget))
    <2>1. \A m \in ToSet(ranked) : lines[m] \in Lines
      BY <1>9, LinesAreLines
    <2> HIDE DEF lines
    <2> QED
      BY <1>3, <1>5, <1>9, <2>1, TextFrameFits
  <1>12. supported => /\ ranked # <<>>
                      /\ \A m \in ToSet(ranked) : ~Withheld(Envelopes[m])
    <2>1. ASSUME supported, NEW m \in ToSet(ranked)
          PROVE  ~Withheld(Envelopes[m])
      <3>1. ToSet(ranked) \in SUBSET Memories
        BY <1>9
      <3>2. scores = [n \in ToSet(ranked) |-> Features(Candidate(n), Q)]
        OBVIOUS
      <3> HIDE DEF scores
      <3> QED
        BY <2>1, <3>1, <3>2, SupportedAnswers
    <2>2. ASSUME supported
          PROVE  ranked # <<>>
      <3>1. DOMAIN scores # {}
        <4> HIDE DEF scores
        <4> QED
          BY <2>2 DEF Supported
      <3>2. ToSet(ranked) # {}
        BY <3>1
      <3> QED
        BY <3>2 DEF ToSet
    <2> QED
      BY <2>1, <2>2
  <1> HIDE DEF frame, supported
  <1>13. ids \subseteq ToSet(ranked) /\ (ids = {} <=> ranked = <<>>)
    <2>1. ToSet(frame.ids) \subseteq ToSet(ranked) /\ frame.ids \in Seq(Memories)
      BY <1>11 DEF FrameOK, Frame
    <2>2. ASSUME NEW s \in Seq(Memories)
          PROVE  ToSet(s) = {} <=> s = <<>>
      <3>1. Len(s) \in Nat /\ DOMAIN s = 1 .. Len(s) /\ (s = <<>> <=> Len(s) = 0)
        OBVIOUS
      <3>2. ToSet(s) = {} <=> DOMAIN s = {}
        BY DEF ToSet
      <3>3. Len(s) # 0 => 1 \in 1 .. Len(s)
        BY <3>1
      <3>4. Len(s) = 0 => 1 .. Len(s) = {}
        OBVIOUS
      <3> QED
        BY <3>1, <3>2, <3>3, <3>4
    <2>3. ids = IF frame.ids = <<>> THEN ToSet(ranked) ELSE ToSet(frame.ids)
      BY DEF Inspectable
    <2> HIDE DEF ids
    <2>4. CASE frame.ids = <<>>
      BY <1>9, <2>2, <2>3, <2>4
    <2>5. CASE frame.ids # <<>>
      BY <1>9, <2>1, <2>2, <2>3, <2>5
    <2> QED
      BY <2>4, <2>5
  <1> HIDE DEF ids
  <1>14. /\ DOMAIN v = WorkFields /\ v.pc = "subgraphs" /\ v.ranked = ranked
         /\ v.frame = frame /\ v.supported = supported /\ v.ids = ids
         /\ v.found = w.found /\ v.kept = w.kept /\ v.query = w.query
         /\ v.counted = w.counted /\ v.views = w.views /\ v.status = w.status
    BY <1>1, <1>10 DEF WorkFields
  <1>15. ReadInv(v, facts, held)
    BY <1>1, <1>14 DEF ReadInv
  <1>16. RankInv(v)
    BY <1>2, <1>9, <1>11, <1>12, <1>13, <1>14 DEF RankInv
  <1>17. CallInv(v, facts, held)
    BY <1>14, <1>15, <1>16 DEF CallInv
  <1> QED
    BY <1>17 DEF v

LEMMA ReadSubgraphsInv ==
    ASSUME ServerInv, ReadSubgraphs
    PROVE  CallInv(work', facts, held)
  <1> DEFINE v == work'
             w == work
  <1>1. DOMAIN w = WorkFields /\ ReadInv(w, facts, held) /\ RankInv(w) /\ IsFiniteSet(graph)
    BY DEF ServerInv, CallInv, ReadSubgraphs
  <1>2. PICK subgraphs : /\ \E anchors : subgraphs \in SUBSET SubgraphsOf(work.ids, anchors)
                         /\ v = [w EXCEPT !.pc = "hints", !.subgraphs = subgraphs]
    BY DEF ReadSubgraphs
  <1>3. IsFiniteSet(subgraphs) /\ \A g \in subgraphs : g.mems \subseteq w.ids
    BY <1>1, <1>2, SubgraphsWithin
  <1> HIDE DEF v, w
  <1>4. /\ DOMAIN v = WorkFields /\ v.pc = "hints" /\ v.subgraphs = subgraphs
        /\ v.found = w.found /\ v.kept = w.kept /\ v.query = w.query
        /\ v.counted = w.counted /\ v.views = w.views /\ v.status = w.status
        /\ v.ranked = w.ranked /\ v.frame = w.frame /\ v.supported = w.supported
        /\ v.ids = w.ids
    BY <1>1, <1>2 DEF WorkFields
  <1>5. ReadInv(v, facts, held)
    BY <1>1, <1>4 DEF ReadInv
  <1>6. RankInv(v)
    BY <1>1, <1>4 DEF RankInv
  <1>7. GraphInv(v)
    BY <1>3, <1>4 DEF GraphInv
  <1>8. CallInv(v, facts, held)
    BY <1>4, <1>5, <1>6, <1>7 DEF CallInv
  <1> QED
    BY <1>8 DEF v

LEMMA ReadHintsInv ==
    ASSUME ServerInv, ReadHints
    PROVE  CallInv(work', facts, held)
  <1> DEFINE v == work'
             w == work
             hints == {r \in graph : r.mem \in w.ids /\ InForce(r, Q.at)}
  <1>1. /\ DOMAIN w = WorkFields /\ ReadInv(w, facts, held) /\ RankInv(w) /\ GraphInv(w)
        /\ IsFiniteSet(graph)
    BY DEF ServerInv, CallInv, ReadHints
  <1>2. v = [w EXCEPT !.pc = "evidence", !.hints = hints]
    BY DEF ReadHints
  <1>3. IsFiniteSet(hints) /\ \A r \in hints : r.mem \in w.ids
    <2>1. hints \in SUBSET graph /\ \A r \in hints : r.mem \in w.ids
      OBVIOUS
    <2> HIDE DEF hints
    <2> QED
      BY <1>1, <2>1, FS_Subset
  <1> HIDE DEF v, w, hints
  <1>4. /\ DOMAIN v = WorkFields /\ v.pc = "evidence" /\ v.hints = hints
        /\ v.found = w.found /\ v.kept = w.kept /\ v.query = w.query
        /\ v.counted = w.counted /\ v.views = w.views /\ v.status = w.status
        /\ v.ranked = w.ranked /\ v.frame = w.frame /\ v.supported = w.supported
        /\ v.ids = w.ids /\ v.subgraphs = w.subgraphs
    BY <1>1, <1>2 DEF WorkFields
  <1>5. ReadInv(v, facts, held)
    BY <1>1, <1>4 DEF ReadInv
  <1>6. RankInv(v)
    BY <1>1, <1>4 DEF RankInv
  <1>7. GraphInv(v) /\ HintsInv(v)
    BY <1>1, <1>3, <1>4 DEF GraphInv, HintsInv
  <1>8. CallInv(v, facts, held)
    BY <1>4, <1>5, <1>6, <1>7 DEF CallInv
  <1> QED
    BY <1>8 DEF v

\* The evidence is of ranked memories that can be inspected, with the status that
\* was read when they were weighed.
LEMMA GatherEvidenceInv ==
    ASSUME ServerInv, GatherEvidence
    PROVE  CallInv(work', facts, held)
  <1> DEFINE v == work'
             w == work
             shown == Only(w.ranked, w.ids)
             rows == [i \in DOMAIN shown |->
                         [mem |-> shown[i], status |-> StatusOf(shown[i]),
                          validated |-> ValidatedBy(shown[i]),
                          withheld |-> Withheld(Envelopes[shown[i]])]]
             evidence == FirstOfSeq(rows, 8)
  <1>1. /\ DOMAIN w = WorkFields /\ ReadInv(w, facts, held) /\ RankInv(w) /\ GraphInv(w)
        /\ HintsInv(w)
    BY DEF ServerInv, CallInv, GatherEvidence
  <1>2. v = [w EXCEPT !.pc = "knowledge", !.evidence = evidence]
    BY DEF GatherEvidence
  <1>3. shown \in Seq(Memories) /\ ToSet(shown) \subseteq w.ids
    BY <1>1, OnlyWithin DEF RankInv
  <1>4. ASSUME NEW m \in w.ids
        PROVE  StatusOf(m) = w.status[m]
    <2>1. m \in DOMAIN w.status /\ (~w.counted => w.status[m] = "none")
      BY <1>1 DEF RankInv, ReadInv
    <2> QED
      BY <2>1 DEF StatusOf
  <1> DEFINE n == Len(shown)
             k == IF 8 < n THEN 8 ELSE n
  <1>5. n \in Nat /\ k \in 0 .. n /\ DOMAIN shown = 1 .. n
        /\ \A i \in 1 .. n : shown[i] \in w.ids
    BY <1>3 DEF ToSet
  <1> HIDE DEF shown, n
  <1>6. DOMAIN rows = 1 .. n /\ Len(rows) = n /\ rows \in Seq({rows[i] : i \in 1 .. n})
    <2>1. DOMAIN rows = 1 .. n
      BY <1>5
    <2> DEFINE S == {rows[i] : i \in 1 .. n}
    <2>2. rows \in [1 .. n -> S]
      BY <1>5
    <2> HIDE DEF rows, S
    <2>3. rows \in Seq(S)
      BY <1>5, <2>2
    <2>4. Len(rows) = n
      BY <1>5, <2>1, <2>3
    <2> QED
      BY <2>1, <2>3, <2>4 DEF S
  <1>7. \A i \in 1 .. n : /\ rows[i].mem \in w.ids
                          /\ rows[i].status = w.status[rows[i].mem]
                          /\ rows[i].withheld = Withheld(Envelopes[rows[i].mem])
    BY <1>4, <1>5
  <1> HIDE DEF rows
  <1>8. Len(evidence) = k /\ DOMAIN evidence = 1 .. k /\ \A i \in 1 .. k : evidence[i] = rows[i]
    <2>1. evidence = SubSeq(rows, 1, k)
      BY <1>6 DEF FirstOfSeq
    <2> HIDE DEF evidence, k
    <2>2. k \in 0 .. Len(rows)
      BY <1>5, <1>6
    <2>3. /\ Len(SubSeq(rows, 1, k)) = k /\ DOMAIN SubSeq(rows, 1, k) = 1 .. k
          /\ \A i \in 1 .. k : SubSeq(rows, 1, k)[i] = rows[i]
      BY <1>6, <2>2
    <2> QED
      BY <2>1, <2>3
  <1> HIDE DEF v, w, evidence, k
  <1>9. /\ DOMAIN v = WorkFields /\ v.pc = "knowledge" /\ v.evidence = evidence
        /\ v.found = w.found /\ v.kept = w.kept /\ v.query = w.query
        /\ v.counted = w.counted /\ v.views = w.views /\ v.status = w.status
        /\ v.ranked = w.ranked /\ v.frame = w.frame /\ v.supported = w.supported
        /\ v.ids = w.ids /\ v.subgraphs = w.subgraphs /\ v.hints = w.hints
    BY <1>1, <1>2 DEF WorkFields
  <1>10. ReadInv(v, facts, held)
    BY <1>1, <1>9 DEF ReadInv
  <1>11. RankInv(v)
    BY <1>1, <1>9 DEF RankInv
  <1>12. GraphInv(v) /\ HintsInv(v)
    BY <1>1, <1>9 DEF GraphInv, HintsInv
  <1>13. EvidenceInv(v)
    <2>1. k \in Nat /\ \A i \in 1 .. k : i \in 1 .. n
      BY <1>5
    <2>2. \A i \in 1 .. k : /\ evidence[i].mem \in w.ids
                            /\ evidence[i].status = w.status[evidence[i].mem]
                            /\ evidence[i].withheld = Withheld(Envelopes[evidence[i].mem])
      BY <1>7, <1>8, <2>1
    <2> QED
      BY <1>8, <1>9, <2>1, <2>2 DEF EvidenceInv
  <1>14. CallInv(v, facts, held)
    BY <1>9, <1>10, <1>11, <1>12, <1>13 DEF CallInv
  <1> QED
    BY <1>14 DEF v

\* The lists of the structured frame, of which that of the evidence is as long as
\* the evidence.
LEMMA ListsAreLists ==
    ASSUME ServerInv, work.pc = "knowledge", NEW known \in SUBSET Memories
    PROVE  /\ ListsOf(known) \in [Names -> Seq(Nat)]
           /\ Len(ListsOf(known)["evidence"]) = Len(work.evidence)
  <1> DEFINE hints == Cardinality(work.hints)
             subgraphs == Cardinality(work.subgraphs)
             n == Len(work.evidence)
             decided == {i \in DOMAIN work.evidence :
                            Envelopes[work.evidence[i].mem].type = "decision"}
             k == Cardinality(known)
             decisions == Cardinality(decided)
             count == [assertions |-> k, entities |-> k, hints |-> hints,
                       subgraphs |-> subgraphs, evidence |-> n, current_facts |-> k,
                       decisions |-> decisions]
  <1>1. GraphInv(work) /\ HintsInv(work) /\ EvidenceInv(work)
    BY DEF ServerInv, CallInv
  <1>2. hints \in Nat /\ subgraphs \in Nat
    BY <1>1, FS_CardinalityType DEF GraphInv, HintsInv
  <1>3. k \in Nat
    BY FacadeAssumption, FS_Subset, FS_CardinalityType
  <1>4. n \in Nat /\ DOMAIN work.evidence = 1 .. n
    BY <1>1 DEF EvidenceInv
  <1>5. decisions \in Nat
    <2>1. decided \in SUBSET (1 .. n) /\ 1 \in Int /\ n \in Int
      BY <1>4
    <2> HIDE DEF decided, n
    <2>2. IsFiniteSet(1 .. n)
      BY <2>1, FS_Interval
    <2> QED
      BY <2>1, <2>2, FS_Subset, FS_CardinalityType
  <1>6. ListsOf(known) = [l \in DOMAIN count |-> [i \in 1 .. count[l] |-> Sizes[l]]]
    BY DEF ListsOf
  <1> HIDE DEF k, hints, subgraphs, n, decisions
  <1>7. DOMAIN count = Names
    <2>1. DOMAIN count = {"assertions", "entities", "hints", "subgraphs", "evidence",
                          "current_facts", "decisions"}
      OBVIOUS
    <2>2. Names = {ShrinkOrder[1], ShrinkOrder[2], ShrinkOrder[3], ShrinkOrder[4],
                   ShrinkOrder[5], ShrinkOrder[6], ShrinkOrder[7]}
      <3>1. 1 .. 7 = {1, 2, 3, 4, 5, 6, 7}
        OBVIOUS
      <3> QED
        BY <3>1, ShrinkNames
    <2>3. /\ ShrinkOrder[1] = "assertions" /\ ShrinkOrder[2] = "entities"
          /\ ShrinkOrder[3] = "hints" /\ ShrinkOrder[4] = "subgraphs"
          /\ ShrinkOrder[5] = "evidence" /\ ShrinkOrder[6] = "current_facts"
          /\ ShrinkOrder[7] = "decisions"
      BY DEF ShrinkOrder
    <2> QED
      BY <2>1, <2>2, <2>3
  <1>8. ASSUME NEW l \in Names
        PROVE  count[l] \in Nat /\ Sizes[l] \in Nat
    <2>1. Sizes[l] \in Nat
      BY FacadeAssumption DEF Names
    <2>2. count[l] \in {k, hints, subgraphs, n, decisions}
      BY <1>7
    <2> QED
      BY <1>2, <1>3, <1>4, <1>5, <2>1, <2>2
  <1>9. count["evidence"] = n
    OBVIOUS
  <1>10. "evidence" \in Names
    BY <1>7
  <1> HIDE DEF count
  <1>11. ASSUME NEW c \in Nat, NEW size \in Nat
         PROVE  [i \in 1 .. c |-> size] \in Seq(Nat) /\ Len([i \in 1 .. c |-> size]) = c
    OBVIOUS
  <1>12. \A l \in Names : [i \in 1 .. count[l] |-> Sizes[l]] \in Seq(Nat)
    BY <1>8, <1>11
  <1>13. Len(ListsOf(known)["evidence"]) = n
    <2>1. ListsOf(known)["evidence"] = [i \in 1 .. count["evidence"] |-> Sizes["evidence"]]
      BY <1>6, <1>7, <1>10
    <2> DEFINE c == count["evidence"]
               size == Sizes["evidence"]
    <2>2. c \in Nat /\ size \in Nat
      BY <1>8, <1>10
    <2> HIDE DEF c, size
    <2>3. Len([i \in 1 .. c |-> size]) = c
      BY <1>11, <2>2
    <2> QED
      BY <1>9, <2>1, <2>3 DEF c, size
  <1> QED
    BY <1>6, <1>7, <1>12, <1>13 DEF n

\* What the call has read and ranked is what it answers with.
LEMMA AnswerWorkInv ==
    ASSUME ServerInv, AnswerWork
    PROVE  AnswerInv'
  <1> DEFINE w == work
             q == w.query
             known == {m \in w.ids : asserted[m] = "active"}
             lists == ListsOf(known)
             sections == FitSections(lists, Fixed, q.budget)
             a == answer'
  <1>1. /\ ReadInv(w, facts, held) /\ RankInv(w) /\ GraphInv(w) /\ HintsInv(w)
        /\ EvidenceInv(w) /\ w.pc = "knowledge"
    BY DEF ServerInv, CallInv, AnswerWork
  <1>2. /\ a.query = q /\ a.status = IF w.ids = {} THEN "abstained" ELSE "ok"
        /\ a.supported = w.supported /\ a.ranked = w.ranked /\ a.frame = w.frame
        /\ a.ids = w.ids /\ a.evidence = w.evidence /\ a.subgraphs = w.subgraphs
        /\ a.hints = w.hints /\ a.known = known /\ a.sections = sections
        /\ a.used = w.status /\ a.views = w.views /\ a.held = held
    BY DEF AnswerWork, Q
  <1>3. q \in Queries /\ q.budget \in Nat /\ Fixed \in Nat
    BY <1>1, FacadeAssumption DEF ReadInv
  <1>4. /\ lists \in [Names -> Seq(Nat)] /\ Len(lists["evidence"]) = Len(w.evidence)
        /\ known \subseteq w.ids
    <2>1. known \in SUBSET Memories /\ known \subseteq w.ids
      BY <1>1 DEF RankInv, ReadInv
    <2> HIDE DEF known
    <2> QED
      BY <1>1, <2>1, ListsAreLists
  <1> HIDE DEF known
  <1>5. LET l == sections.lists IN
        /\ \/ /\ sections.roi <= q.budget
              /\ sections.tokens <= q.budget + Tokens(EstimateLength(q.budget))
           \/ \A x \in DOMAIN l : l[x] = <<>>
        /\ l["evidence"] = lists["evidence"] \/ \A x \in FirstLists : l[x] = <<>>
    <2> HIDE DEF lists, q
    <2> QED
      BY <1>3, <1>4, SectionsFit
  <1> HIDE DEF w, q, a, lists, sections
  <1>6. EvidenceIsOneView'
    <2>1. ASSUME NEW i \in DOMAIN a.evidence
          PROVE  /\ a.evidence[i].status = a.used[a.evidence[i].mem]
                 /\ a.evidence[i].status \in a.held[a.evidence[i].mem] \cup {"none"}
      <3> DEFINE row == w.evidence[i]
      <3>1. row.mem \in w.ids /\ row.status = w.status[row.mem]
        BY <1>1, <1>2, <2>1 DEF EvidenceInv
      <3>2. row.mem \in DOMAIN w.status
        BY <1>1, <3>1 DEF RankInv
      <3> HIDE DEF row
      <3>3. w.status[row.mem] \in held[row.mem] \cup {"none"}
        BY <1>1, <3>2 DEF ReadInv
      <3> QED
        BY <1>2, <3>1, <3>3 DEF row
    <2>2. ASSUME q.at # NoTime, NEW m \in a.ids
          PROVE  ~InactiveAt(Envelopes[m].relations \cup a.views[m], q.at)
      <3>1. m \in w.kept
        BY <1>1, <1>2, <2>2 DEF RankInv
      <3> QED
        BY <1>1, <1>2, <2>2, <3>1 DEF ReadInv, q
    <2> QED
      BY <1>2, <2>1, <2>2 DEF EvidenceIsOneView, a
  <1>7. PartsAgree'
    <2> DEFINE shown == {a.evidence[i].mem : i \in DOMAIN a.evidence}
    <2>1. (a.status = "ok") = (a.ranked # <<>>)
      BY <1>1, <1>2 DEF RankInv
    <2>2. shown \subseteq a.ids
      BY <1>1, <1>2 DEF EvidenceInv
    <2>3. ASSUME a.supported
          PROVE  a.status = "ok" /\ \A i \in DOMAIN a.evidence : ~a.evidence[i].withheld
      <3>1. a.ranked # <<>> /\ \A m \in w.ids : ~Withheld(Envelopes[m])
        BY <1>1, <1>2, <2>3 DEF RankInv
      <3>2. \A i \in DOMAIN a.evidence : ~a.evidence[i].withheld
        BY <1>1, <1>2, <3>1 DEF EvidenceInv
      <3> QED
        BY <2>1, <3>1, <3>2
    <2>4. a.ids \subseteq ToSet(a.ranked)
      BY <1>1, <1>2 DEF RankInv
    <2>5. {r.mem : r \in a.hints} \cup a.known \subseteq a.ids
      BY <1>1, <1>2, <1>4 DEF HintsInv
    <2>6. \A g \in a.subgraphs : g.mems \subseteq a.ids
      BY <1>1, <1>2 DEF GraphInv
    <2> QED
      BY <2>1, <2>2, <2>3, <2>4, <2>5, <2>6 DEF PartsAgree, a
  <1>8. FramesFit'
    <2> DEFINE left == a.sections.lists
               budget == a.query.budget
               header == HeaderLine(a.query.length, budget)
    <2>1. /\ a.frame.used <= Most(header, budget)
          /\ Len(a.frame.ids) + a.frame.dropped = Len(a.ranked)
      BY <1>1, <1>2 DEF RankInv, FrameOK, q
    <2>2. \/ /\ a.sections.roi <= budget
             /\ a.sections.tokens <= budget + Tokens(EstimateLength(budget))
          \/ \A l \in DOMAIN left : left[l] = <<>>
      BY <1>2, <1>5
    <2>3. Len(left["evidence"]) < Len(a.evidence) =>
             \A l \in {"assertions", "entities", "hints", "subgraphs"} : left[l] = <<>>
      <3>1. Len(w.evidence) \in Nat
        BY <1>1 DEF EvidenceInv
      <3>2. left["evidence"] = lists["evidence"] \/ \A x \in FirstLists : left[x] = <<>>
        BY <1>2, <1>5
      <3> QED
        BY <1>2, <1>4, <3>1, <3>2 DEF FirstLists
    <2>4. a.status # "packets"
      BY <1>2
    <2> HIDE DEF header
    <2>5. a.frame.used <= IF header > budget * CharsPerToken THEN header
                          ELSE budget * CharsPerToken
      BY <2>1 DEF Most
    <2> QED
      BY <2>1, <2>2, <2>3, <2>4, <2>5 DEF FramesFit, a, header
  <1> QED
    BY <1>6, <1>7, <1>8 DEF AnswerInv

\* Some order of recalled memories is a list of them.
LEMMA OrderOf ==
    ASSUME NEW ms \in SUBSET Memories
    PROVE  SetToSeq(ms) \in Seq(Memories) /\ ToSet(SetToSeq(ms)) \subseteq ms
  <1> DEFINE n == Cardinality(ms)
             s == SetToSeq(ms)
  <1>1. n \in Nat /\ ExistsBijection(1 .. n, ms)
    BY FacadeAssumption, FS_Subset, FS_CardinalityType
  <1>2. \E f \in [1 .. n -> ms] : IsInjective(f)
    <2>1. PICK f \in Bijection(1 .. n, ms) : TRUE
      BY <1>1 DEF ExistsBijection
    <2> HIDE DEF n
    <2>2. f \in [1 .. n -> ms] /\ IsInjective(f)
      BY <2>1 DEF Bijection, Injection, IsInjective
    <2> QED
      BY <2>2
  <1>3. s \in [1 .. n -> ms]
    BY <1>2 DEF SetToSeq
  <1> HIDE DEF n, s
  <1>4. s \in Seq(Memories) /\ ToSet(s) \subseteq ms
    BY <1>1, <1>3 DEF ToSet
  <1> QED
    BY <1>4 DEF s

\* An answer of packets fits.
LEMMA RecallContextInv ==
    ASSUME NEW q \in Queries, RecallContext(q)
    PROVE  AnswerInv'
  <1>1. PICK ms \in SUBSET Memories :
            LET order == SetToSeq(ms) IN
            answer' = [query |-> q, status |-> "packets", ranked |-> order,
                       frame |-> Packets(order, [m \in ms |-> Envelopes[m].lines], q.budget)]
    BY DEF RecallContext
  <1> DEFINE order == SetToSeq(ms)
             lines == [m \in ms |-> Envelopes[m].lines]
             frame == Packets(order, lines, q.budget)
  <1>2. answer'.status = "packets" /\ answer'.query = q /\ answer'.frame = frame
    BY <1>1
  <1>3. frame.used <= q.budget
    <2>1. order \in Seq(Memories) /\ ToSet(order) \subseteq ms
      BY OrderOf
    <2>2. q.budget \in Nat /\ \A m \in ToSet(order) : lines[m] \in Lines
      BY <2>1, FacadeAssumption
    <2> HIDE DEF order, lines
    <2> QED
      BY <2>1, <2>2, PacketsFit
  <1> HIDE DEF frame
  <1>4. FramesFit'
    BY <1>2, <1>3 DEF FramesFit
  <1> QED
    BY <1>2, <1>4 DEF AnswerInv, EvidenceIsOneView, PartsAgree, Answered

-----------------------------------------------------------------------------
(* All steps of a server.                                                  *)

LEMMA InitHolds == Init => ServerInv
  <1> SUFFICES ASSUME Init PROVE ServerInv
    OBVIOUS
  <1>1. graph = {} /\ DOMAIN facts = Memories /\ DOMAIN held = Memories
        /\ work = NoWork /\ answer = None
    BY DEF Init, FacadeInit
  <1>2. AnswerInv
    BY <1>1 DEF AnswerInv, Answered, EvidenceIsOneView, PartsAgree, FramesFit
  <1> QED
    BY <1>1, <1>2, FS_EmptySet, IdleInv DEF ServerInv

LEMMA CallFacadeInv ==
    ASSUME ServerInv, CallFacade
    PROVE  ServerInv'
  <1>1. PICK q \in Queries : StartWork(q) \/ RecallContext(q)
    BY DEF CallFacade
  <1>2. CASE StartWork(q)
    <2>1. graph' = graph /\ facts' = facts /\ answer' = None /\ DOMAIN held' = Memories
      BY <1>2 DEF StartWork, tablesOfFacade
    <2> QED
      BY <1>2, <2>1, StartInv, NoAnswer DEF ServerInv
  <1>3. CASE RecallContext(q)
    <2>1. graph' = graph /\ facts' = facts /\ work' = work /\ held' = held
      BY <1>3 DEF RecallContext, tablesOfFacade
    <2> QED
      BY <1>3, <2>1, RecallContextInv DEF ServerInv
  <1> QED
    BY <1>1, <1>2, <1>3

LEMMA WorkInv ==
    ASSUME ServerInv, Work
    PROVE  ServerInv'
  <1>1. graph' = graph /\ facts' = facts
    BY DEF Work, RecallForWork, FilterTemporal, Weigh, RankAndFrame, ReadSubgraphs, ReadHints,
           GatherEvidence, AnswerWork, tablesOfFacade
  <1>2. ASSUME held' = held, answer' = answer, CallInv(work', facts, held)
        PROVE  ServerInv'
    BY <1>1, <1>2, SameAnswer DEF ServerInv
  <1>3. CASE RecallForWork
    BY <1>2, <1>3, RecallInv DEF RecallForWork
  <1>4. CASE FilterTemporal
    BY <1>2, <1>4, FilterInv DEF FilterTemporal
  <1>5. CASE Weigh
    BY <1>2, <1>5, WeighInv DEF Weigh
  <1>6. CASE RankAndFrame
    <2>1. held' = held /\ answer' = answer
      BY <1>6 DEF RankAndFrame
    <2> QED
      BY <1>2, <1>6, <2>1, RankAndFrameInv
  <1>7. CASE ReadSubgraphs
    BY <1>2, <1>7, ReadSubgraphsInv DEF ReadSubgraphs
  <1>8. CASE ReadHints
    BY <1>2, <1>8, ReadHintsInv DEF ReadHints
  <1>9. CASE GatherEvidence
    <2>1. held' = held /\ answer' = answer
      BY <1>9 DEF GatherEvidence
    <2> QED
      BY <1>2, <1>9, <2>1, GatherEvidenceInv
  <1>10. CASE AnswerWork
    <2>1. work' = NoWork /\ DOMAIN held' = Memories
      BY <1>10 DEF AnswerWork
    <2> QED
      BY <1>1, <1>10, <2>1, IdleInv, AnswerWorkInv DEF ServerInv
  <1> QED
    BY <1>3, <1>4, <1>5, <1>6, <1>7, <1>8, <1>9, <1>10 DEF Work

\* Other processes add relations and replace facts: what a call has read stays
\* among what each fact has been.
LEMMA WriteInv ==
    ASSUME ServerInv, Write
    PROVE  ServerInv'
  <1>1. work' = work /\ answer' = answer
    BY DEF Write, Relate, AddFact, IndexFact
  <1>2. AnswerInv'
    BY <1>1, SameAnswer DEF ServerInv
  <1>3. CASE \E r \in Rows : Relate(r)
    <2>1. PICK r \in Rows : graph' = graph \cup {r}
      BY <1>3 DEF Relate
    <2>2. facts' = facts /\ held' = held
      BY <1>3 DEF Relate
    <2> QED
      BY <1>1, <1>2, <2>1, <2>2, FS_AddElement DEF ServerInv
  <1>4. CASE \E m \in Memories : IndexFact(m)
    <2>1. graph' = graph /\ facts' = facts /\ held' = held
      BY <1>4 DEF IndexFact
    <2> QED
      BY <1>1, <1>2, <2>1 DEF ServerInv
  <1>5. ASSUME NEW m \in Memories, AddFact(m)
        PROVE  ServerInv'
    <2>1. /\ graph' = graph
          /\ facts' = [facts EXCEPT ![m] = IF @ = "none" THEN "active" ELSE "superseded"]
      BY <1>5 DEF AddFact
    <2>2. held' = [held EXCEPT ![m] = @ \cup {facts'[m]}]
      BY <1>5 DEF AddFact, Write
    <2>3. /\ DOMAIN facts' = Memories /\ DOMAIN held' = Memories
          /\ \A n \in Memories : held[n] \subseteq held'[n]
          /\ \A n \in Memories \ {m} : facts'[n] = facts[n]
          /\ facts'[m] \in held'[m]
      BY <2>1, <2>2 DEF ServerInv
    <2>4. ASSUME ReadInv(work, facts, held)
          PROVE  ReadInv(work, facts', held')
      BY <2>3, <2>4 DEF ReadInv
    <2>5. CallInv(work, facts', held')
      BY <2>4 DEF ServerInv, CallInv
    <2> QED
      BY <1>1, <1>2, <2>1, <2>3, <2>5 DEF ServerInv
  <1> QED
    BY <1>3, <1>4, <1>5 DEF Write

\* What the curriculum, the documents and the end of the process leave.
LEMMA OthersInv ==
    ASSUME ServerInv, CallCurriculum \/ CallDocuments \/ File \/ Restart
    PROVE  ServerInv'
  <1>1. CASE CallCurriculum
    <2>1. graph' = graph /\ facts' = facts /\ work' = work /\ held' = held /\ answer' = None
      BY <1>1 DEF CallCurriculum, tablesOfFacade
    <2> QED
      BY <2>1, NoAnswer DEF ServerInv
  <1>2. CASE CallDocuments
    <2>1. graph' = graph /\ facts' = facts /\ work' = work /\ held' = held /\ answer' = None
      BY <1>2 DEF CallDocuments, tablesOfFacade
    <2> QED
      BY <2>1, NoAnswer DEF ServerInv
  <1>3. CASE File
    <2>1. graph' = graph /\ facts' = facts /\ work' = work /\ held' = held
          /\ answer' = answer
      BY <1>3 DEF File, facadeVars
    <2> QED
      BY <2>1, SameAnswer DEF ServerInv
  <1>4. CASE Restart
    <2>1. graph' = graph /\ facts' = facts /\ work' = NoWork /\ DOMAIN held' = Memories
          /\ answer' = None
      BY <1>4 DEF Restart, tablesOfFacade
    <2> QED
      BY <2>1, IdleInv, NoAnswer DEF ServerInv
  <1> QED
    BY <1>1, <1>2, <1>3, <1>4

LEMMA StutterInv ==
    ASSUME ServerInv, UNCHANGED vars
    PROVE  ServerInv'
  <1>1. graph' = graph /\ facts' = facts /\ work' = work /\ held' = held /\ answer' = answer
    BY DEF vars, facadeVars
  <1> QED
    BY <1>1, SameAnswer DEF ServerInv

\* The call in progress answers from one view, whatever other processes write.
THEOREM ServerInvariant == Spec => []ServerInv
  <1>1. ServerInv /\ [Next]_vars => ServerInv'
    BY CallFacadeInv, WorkInv, WriteInv, OthersInv, StutterInv DEF Next
  <1> QED
    BY InitHolds, <1>1, PTL DEF Spec

\* What the evidence of an answer says of a fact is what the ranking was computed
\* with and was so during the call, although other processes supersede facts.
THEOREM EvidenceIsOneViewThm == Spec => []EvidenceIsOneView
  <1>1. ServerInv => EvidenceIsOneView
    BY DEF ServerInv, AnswerInv
  <1> QED
    BY ServerInvariant, <1>1, PTL

\* The parts of an answer, read one after the other, are about the same memories,
\* and nothing withheld supports one.
THEOREM PartsAgreeThm == Spec => []PartsAgree
  <1>1. ServerInv => PartsAgree
    BY DEF ServerInv, AnswerInv
  <1> QED
    BY ServerInvariant, <1>1, PTL

\* The frames of an answer are within its budget, for any lengths of lines, but for
\* the estimate that is written into the structured one after it was fitted, and
\* drop no evidence before all that is not (sif.py:357-388, 275-280).
THEOREM FramesFitThm == Spec => []FramesFit
  <1>1. ServerInv => FramesFit
    BY DEF ServerInv, AnswerInv
  <1> QED
    BY ServerInvariant, <1>1, PTL

-----------------------------------------------------------------------------
(* The offers of the curriculum: what a filter leaves of a list.           *)

NoRepeats(s) == \A i, j \in 1 .. Len(s) : s[i] = s[j] => i = j

NamesDiffer(s) == \A i, j \in 1 .. Len(s) : s[i].name = s[j].name => i = j

BestFirst(o, s) ==
    \A i, j \in 1 .. Len(s) : i <= j => ToolScore(o, s[i]) >= ToolScore(o, s[j])

\* A list of tools as select_tools goes through it.
RankedWell(o, s) == s \in Seq(ToolSpec) /\ NamesDiffer(s) /\ BestFirst(o, s)

\* w holds what of the first n of s is not in S, in its order.
Leaves(ix, w, s, S, n) ==
    /\ ix \in [1 .. Len(w) -> 1 .. n]
    /\ \A k, l \in 1 .. Len(w) : k < l => ix[k] < ix[l]
    /\ \A k \in 1 .. Len(w) : w[k] = s[ix[k]] /\ s[ix[k]] \notin S
    /\ \A i \in 1 .. n : s[i] \notin S => \E k \in 1 .. Len(w) : ix[k] = i

LEMMA LeavesMore ==
    ASSUME NEW T, NEW s \in Seq(T), NEW S, NEW n \in Nat, n + 1 <= Len(s),
           NEW w \in Seq(T), NEW ix, Leaves(ix, w, s, S, n)
    PROVE  LET v == KeptOf(w, s[n + 1], S) IN v \in Seq(T) /\ \E iy : Leaves(iy, v, s, S, n + 1)
  <1> DEFINE x == s[n + 1]
             v == KeptOf(w, x, S)
             k == Len(w)
  <1>1. x \in T /\ k \in Nat
    BY n + 1 \in 1 .. Len(s)
  <1>2. /\ ix \in [1 .. k -> 1 .. n]
        /\ \A a, b \in 1 .. k : a < b => ix[a] < ix[b]
        /\ \A a \in 1 .. k : w[a] = s[ix[a]] /\ s[ix[a]] \notin S
        /\ \A i \in 1 .. n : s[i] \notin S => \E a \in 1 .. k : ix[a] = i
    BY DEF Leaves
  <1>3. CASE x \in S
    <2>1. v = w
      BY <1>3 DEF KeptOf
    <2>2. ix \in [1 .. k -> 1 .. n + 1]
      BY <1>2
    <2>3. \A i \in 1 .. n + 1 : s[i] \notin S => \E a \in 1 .. k : ix[a] = i
      BY <1>2, <1>3
    <2>4. Leaves(ix, w, s, S, n + 1)
      BY <1>2, <2>2, <2>3 DEF Leaves
    <2> QED
      BY <2>1, <2>4
  <1>4. CASE x \notin S
    <2>1. v = Append(w, x)
      BY <1>4 DEF KeptOf
    <2> DEFINE iy == [a \in 1 .. k + 1 |-> IF a <= k THEN ix[a] ELSE n + 1]
    <2> HIDE DEF x
    <2>2. /\ Append(w, x) \in Seq(T) /\ Len(Append(w, x)) = k + 1
          /\ Append(w, x)[k + 1] = x /\ \A a \in 1 .. k : Append(w, x)[a] = w[a]
      BY <1>1
    <2> HIDE DEF v, k
    <2>3. v \in Seq(T) /\ Len(v) = k + 1 /\ v[k + 1] = x /\ \A a \in 1 .. k : v[a] = w[a]
      BY <2>1, <2>2
    <2>4. \A a \in 1 .. k : a \in 1 .. k + 1 /\ iy[a] = ix[a] /\ ix[a] \in 1 .. n
      BY <1>1, <1>2
    <2>5. iy[k + 1] = n + 1 /\ k + 1 \in 1 .. k + 1
      BY <1>1
    <2>6. iy \in [1 .. k + 1 -> 1 .. n + 1]
      BY <1>1, <1>2
    <2> HIDE DEF iy
    <2>7. \A a \in 1 .. k + 1 : a \in 1 .. k \/ a = k + 1
      BY <1>1
    <2>8. ASSUME NEW a \in 1 .. k + 1, NEW b \in 1 .. k + 1, a < b
          PROVE  iy[a] < iy[b]
      <3>1. a \in 1 .. k
        BY <1>1, <2>8
      <3>2. CASE b \in 1 .. k
        BY <1>2, <2>4, <2>8, <3>1, <3>2
      <3>3. CASE b = k + 1
        BY <2>4, <2>5, <3>1, <3>3
      <3> QED
        BY <2>7, <3>2, <3>3
    <2>9. ASSUME NEW a \in 1 .. k + 1
          PROVE  v[a] = s[iy[a]] /\ s[iy[a]] \notin S
      <3>1. CASE a \in 1 .. k
        BY <1>2, <2>3, <2>4, <3>1
      <3>2. CASE a = k + 1
        BY <1>4, <2>3, <2>5, <3>2 DEF x
      <3> QED
        BY <2>7, <3>1, <3>2
    <2>10. ASSUME NEW i \in 1 .. n + 1, s[i] \notin S
           PROVE  \E a \in 1 .. k + 1 : iy[a] = i
      <3>1. CASE i = n + 1
        BY <2>5, <3>1
      <3>2. CASE i \in 1 .. n
        <4>1. PICK a \in 1 .. k : ix[a] = i
          BY <1>2, <2>10, <3>2
        <4> QED
          BY <2>4, <4>1
      <3> QED
        BY <3>1, <3>2
    <2>11. Leaves(iy, v, s, S, n + 1)
      BY <2>3, <2>6, <2>8, <2>9, <2>10 DEF Leaves
    <2> QED
      BY <2>3, <2>11 DEF v, x
  <1> QED
    BY <1>3, <1>4

LEMMA WithoutLeaves ==
    ASSUME NEW T, NEW s \in Seq(T), NEW S
    PROVE  /\ Without(s, S) \in Seq(T)
           /\ \E ix : Leaves(ix, Without(s, S), s, S, Len(s))
  <1> DEFINE n == Len(s)
  <1>1. n \in Nat
    OBVIOUS
  <1> HIDE DEF n
  <1>2. \E f : IsFront(f, s, S, n)
    BY <1>1, FrontExists
  <1> DEFINE f == CHOOSE f : IsFront(f, s, S, n)
  <1>3. IsFront(f, s, S, n)
    BY <1>2
  <1>4. Without(s, S) = f[n]
    BY DEF Without, IsFront, n
  <1> HIDE DEF f
  <1> DEFINE Does(w, k) == w \in Seq(T) /\ \E ix : Leaves(ix, w, s, S, k)
             N == {k \in Nat : k <= n => Does(f[k], k)}
  <1>5. 0 \in N
    <2>1. f[0] = <<>>
      BY <1>1, <1>3 DEF IsFront
    <2>2. Leaves(<<>>, <<>>, s, S, 0)
      BY DEF Leaves
    <2>3. \E ix : Leaves(ix, f[0], s, S, 0)
      BY <2>1, <2>2, Zenon
    <2>4. f[0] \in Seq(T)
      BY <2>1
    <2> QED
      BY <2>3, <2>4
  <1>6. ASSUME NEW k \in Nat, k \in N
        PROVE  k + 1 \in N
    <2>1. SUFFICES ASSUME k + 1 <= n PROVE Does(f[k + 1], k + 1)
      OBVIOUS
    <2> DEFINE w == f[k]
    <2>2. f[k + 1] = KeptOf(w, s[k + 1], S)
      BY <1>1, <1>3, <2>1 DEF IsFront
    <2>3. Does(w, k)
      BY <1>1, <1>6, <2>1
    <2> HIDE DEF w
    <2>4. PICK ix : Leaves(ix, w, s, S, k)
      BY <2>3
    <2>5. w \in Seq(T) /\ k + 1 <= Len(s)
      BY <2>1, <2>3 DEF n
    <2> QED
      BY <2>2, <2>4, <2>5, LeavesMore
  <1>7. n \in N
    <2> HIDE DEF N
    <2> QED
      BY <1>1, <1>5, <1>6, Induct
  <1> QED
    BY <1>1, <1>4, <1>7 DEF n

\* A filter that excludes the first p elements leaves the others.
LEMMA SubSeqGrows ==
    ASSUME NEW T, NEW s \in Seq(T), NEW a \in Nat, a >= 1, NEW b \in Nat, a <= b + 1, b < Len(s)
    PROVE  SubSeq(s, a, b + 1) = Append(SubSeq(s, a, b), s[b + 1])
  OBVIOUS

LEMMA WithoutFirst ==
    ASSUME NEW T, NEW s \in Seq(T), NoRepeats(s), NEW p \in 0 .. Len(s)
    PROVE  Without(s, ToSet(SubSeq(s, 1, p))) = SubSeq(s, p + 1, Len(s))
  <1> DEFINE n == Len(s)
             S == ToSet(SubSeq(s, 1, p))
  <1>1. n \in Nat /\ p \in Nat /\ p <= n
    OBVIOUS
  <1>2. ASSUME NEW i \in 1 .. n
        PROVE  s[i] \in S <=> i <= p
    <2>1. /\ Len(SubSeq(s, 1, p)) = p /\ DOMAIN SubSeq(s, 1, p) = 1 .. p
          /\ \A j \in 1 .. p : SubSeq(s, 1, p)[j] = s[j]
      OBVIOUS
    <2>2. S = {s[j] : j \in 1 .. p}
      BY <2>1 DEF ToSet
    <2>3. \A j \in 1 .. p : s[j] = s[i] => j = i
      <3>1. \A j \in 1 .. p : j \in 1 .. n
        BY <1>1
      <3> QED
        BY <3>1 DEF NoRepeats
    <2>4. i <= p => i \in 1 .. p
      BY <1>1
    <2> HIDE DEF S
    <2> QED
      BY <2>2, <2>3, <2>4
  <1> HIDE DEF n, S
  <1>3. \E f : IsFront(f, s, S, n)
    BY <1>1, FrontExists
  <1> DEFINE f == CHOOSE f : IsFront(f, s, S, n)
  <1>4. IsFront(f, s, S, n)
    BY <1>3
  <1>5. Without(s, S) = f[n]
    BY DEF Without, IsFront, n
  <1> HIDE DEF f
  <1> DEFINE N == {k \in Nat : k <= n => f[k] = IF k <= p THEN <<>> ELSE SubSeq(s, p + 1, k)}
  <1>6. 0 \in N
    BY <1>1, <1>4 DEF IsFront
  <1>7. ASSUME NEW k \in Nat, k \in N
        PROVE  k + 1 \in N
    <2>1. SUFFICES ASSUME k + 1 <= n
                   PROVE  f[k + 1] = IF k + 1 <= p THEN <<>> ELSE SubSeq(s, p + 1, k + 1)
      OBVIOUS
    <2>2. f[k + 1] = KeptOf(f[k], s[k + 1], S)
      BY <1>1, <1>4, <2>1 DEF IsFront
    <2>3. k + 1 \in 1 .. n
      BY <1>1, <2>1
    <2>4. f[k] = IF k <= p THEN <<>> ELSE SubSeq(s, p + 1, k)
      BY <1>1, <1>7, <2>1
    <2>5. CASE k + 1 <= p
      BY <1>1, <1>2, <2>2, <2>3, <2>4, <2>5 DEF KeptOf
    <2>6. CASE ~(k + 1 <= p)
      <3>1. f[k] = SubSeq(s, p + 1, k)
        <4>1. CASE k = p
          <5>1. SubSeq(s, p + 1, p) = <<>>
            BY <1>1
          <5> QED
            BY <2>4, <4>1, <5>1
        <4>2. CASE k # p
          BY <1>1, <2>4, <2>6, <4>2
        <4> QED
          BY <4>1, <4>2
      <3>2. f[k + 1] = Append(f[k], s[k + 1])
        BY <1>2, <2>2, <2>3, <2>6 DEF KeptOf
      <3>3. p + 1 \in Nat /\ p + 1 >= 1 /\ p + 1 <= k + 1 /\ k < Len(s)
        BY <1>1, <2>1, <2>6 DEF n
      <3>4. SubSeq(s, p + 1, k + 1) = Append(SubSeq(s, p + 1, k), s[k + 1])
        BY <3>3, SubSeqGrows
      <3> QED
        BY <2>6, <3>1, <3>2, <3>4
    <2> QED
      BY <2>5, <2>6
  <1>8. n \in N
    <2> HIDE DEF N
    <2> QED
      BY <1>1, <1>6, <1>7, Induct
  <1>9. CASE n <= p
    <2>1. SubSeq(s, p + 1, n) = <<>>
      BY <1>1, <1>9 DEF n
    <2>2. f[n] = <<>>
      BY <1>1, <1>8, <1>9
    <2> QED
      BY <1>5, <2>1, <2>2 DEF n, S
  <1>10. CASE ~(n <= p)
    BY <1>1, <1>5, <1>8, <1>10 DEF n, S
  <1> QED
    BY <1>9, <1>10

LEMMA PutTogether ==
    ASSUME NEW T, NEW a \in Seq(T), NEW b \in Seq(T)
    PROVE  /\ a \o b \in Seq(T) /\ Len(a \o b) = Len(a) + Len(b)
           /\ \A i \in 1 .. Len(a) + Len(b) :
                 (a \o b)[i] = IF i <= Len(a) THEN a[i] ELSE b[i - Len(a)]
  OBVIOUS

\* The first of a list, and the next of what is left, are the first of it.
LEMMA FirstAndNext ==
    ASSUME NEW T, NEW s \in Seq(T), NEW p \in 0 .. Len(s), NEW r \in 0 .. Len(s) - p
    PROVE  SubSeq(s, 1, p) \o SubSeq(SubSeq(s, p + 1, Len(s)), 1, r) = SubSeq(s, 1, p + r)
  <1> DEFINE n == Len(s)
             left == SubSeq(s, p + 1, n)
             a == SubSeq(s, 1, p)
             b == SubSeq(left, 1, r)
             c == SubSeq(s, 1, p + r)
  <1>1. n \in Nat /\ p \in Nat /\ r \in Nat /\ p + r <= n
    OBVIOUS
  <1>2. left \in Seq(T) /\ Len(left) = n - p /\ \A i \in 1 .. n - p : left[i] = s[p + i]
    BY <1>1
  <1>3. a \in Seq(T) /\ Len(a) = p /\ \A i \in 1 .. p : a[i] = s[i]
    BY <1>1
  <1>4. c \in Seq(T) /\ Len(c) = p + r /\ \A i \in 1 .. p + r : c[i] = s[i]
    BY <1>1
  <1> HIDE DEF n, left, a, c
  <1>5. b \in Seq(T) /\ Len(b) = r /\ \A i \in 1 .. r : b[i] = s[p + i]
    <2>1. r <= Len(left)
      BY <1>1, <1>2
    <2>2. b \in Seq(T) /\ Len(b) = r /\ \A i \in 1 .. r : b[i] = left[i]
      BY <1>1, <1>2, <2>1
    <2>3. \A i \in 1 .. r : i \in 1 .. n - p
      BY <1>1
    <2> QED
      BY <1>2, <2>2, <2>3
  <1> HIDE DEF b
  <1>6. /\ a \o b \in Seq(T) /\ Len(a \o b) = p + r
        /\ \A i \in 1 .. p + r : (a \o b)[i] = IF i <= p THEN a[i] ELSE b[i - p]
    <2>1. /\ a \o b \in Seq(T) /\ Len(a \o b) = Len(a) + Len(b)
          /\ \A i \in 1 .. Len(a) + Len(b) :
                (a \o b)[i] = IF i <= Len(a) THEN a[i] ELSE b[i - Len(a)]
      BY <1>3, <1>5, PutTogether
    <2>2. Len(a) = p /\ Len(b) = r
      BY <1>3, <1>5
    <2> QED
      BY <2>1, <2>2
  <1>7. ASSUME NEW i \in 1 .. p + r
        PROVE  (a \o b)[i] = c[i]
    <2>1. CASE i <= p
      <3>1. i \in 1 .. p
        BY <1>1, <2>1
      <3> QED
        BY <1>3, <1>4, <1>6, <2>1, <3>1
    <2>2. CASE ~(i <= p)
      <3>1. i - p \in 1 .. r /\ p + (i - p) = i
        BY <1>1, <2>2
      <3> QED
        BY <1>4, <1>5, <1>6, <2>2, <3>1
    <2> QED
      BY <2>1, <2>2
  <1> DEFINE d == a \o b
  <1>8. d = c
    <2> HIDE DEF d
    <2>1. d \in Seq(T) /\ Len(d) = p + r /\ \A i \in 1 .. p + r : d[i] = c[i]
      BY <1>6, <1>7 DEF d
    <2> QED
      BY <1>4, <2>1
  <1> QED
    BY <1>8 DEF a, b, c, left, n

\* What a filter leaves of a ranked list is ranked, and is all that it spares.
LEMMA FilterRanked ==
    ASSUME NEW o, NEW s, RankedWell(o, s), NEW S
    PROVE  LET w == Without(s, S) IN
           /\ RankedWell(o, w)
           /\ \A k \in 1 .. Len(w) : w[k] \in ToSet(s) \ S
           /\ \A x \in ToSet(s) \ S : \E k \in 1 .. Len(w) : w[k] = x
  <1> DEFINE w == Without(s, S)
             k == Len(w)
             n == Len(s)
  <1>1. s \in Seq(ToolSpec) /\ w \in Seq(ToolSpec)
    BY WithoutLeaves DEF RankedWell
  <1>2. PICK ix : Leaves(ix, w, s, S, n)
    BY <1>1, WithoutLeaves
  <1>3. /\ k \in Nat /\ n \in Nat /\ DOMAIN w = 1 .. k /\ DOMAIN s = 1 .. n
    BY <1>1
  <1> HIDE DEF w, k, n
  <1>4. /\ ix \in [1 .. k -> 1 .. n] /\ \A a, b \in 1 .. k : a < b => ix[a] < ix[b]
        /\ \A a \in 1 .. k : w[a] = s[ix[a]] /\ s[ix[a]] \notin S
        /\ \A i \in 1 .. n : s[i] \notin S => \E a \in 1 .. k : ix[a] = i
    BY <1>2 DEF Leaves, k
  <1>5. ASSUME NEW a \in 1 .. k, NEW b \in 1 .. k, w[a].name = w[b].name
        PROVE  a = b
    <2>1. ix[a] = ix[b]
      BY <1>4, <1>5 DEF RankedWell, NamesDiffer, n
    <2>2. ix[a] \in 1 .. n /\ ix[b] \in 1 .. n
      BY <1>4
    <2>3. ~(a < b) /\ ~(b < a)
      <3>1. a < b => ix[a] < ix[b]
        BY <1>4
      <3>2. b < a => ix[b] < ix[a]
        BY <1>4
      <3> QED
        BY <2>1, <2>2, <3>1, <3>2
    <2> QED
      BY <2>3
  <1>6. ASSUME NEW a \in 1 .. k, NEW b \in 1 .. k, a <= b
        PROVE  ToolScore(o, w[a]) >= ToolScore(o, w[b])
    <2>1. ix[a] \in 1 .. n /\ ix[b] \in 1 .. n
      BY <1>4
    <2>2. ix[a] <= ix[b]
      <3>1. a < b => ix[a] < ix[b]
        BY <1>4
      <3>2. a = b \/ a < b
        BY <1>6
      <3> QED
        BY <2>1, <3>1, <3>2
    <2>3. \A i, j \in 1 .. n : i <= j => ToolScore(o, s[i]) >= ToolScore(o, s[j])
      BY DEF RankedWell, BestFirst, n
    <2>4. ToolScore(o, s[ix[a]]) >= ToolScore(o, s[ix[b]])
      BY <2>1, <2>2, <2>3
    <2>5. w[a] = s[ix[a]] /\ w[b] = s[ix[b]]
      BY <1>4
    <2> QED
      BY <2>4, <2>5
  <1>7. RankedWell(o, w)
    BY <1>1, <1>5, <1>6 DEF RankedWell, NamesDiffer, BestFirst, k, w
  <1>8. \A a \in 1 .. k : w[a] \in ToSet(s) \ S
    BY <1>3, <1>4 DEF ToSet
  <1>9. ASSUME NEW x \in ToSet(s) \ S
        PROVE  \E a \in 1 .. k : w[a] = x
    <2>1. PICK i \in 1 .. n : s[i] = x
      BY <1>3 DEF ToSet
    <2>2. PICK a \in 1 .. k : ix[a] = i
      BY <1>4, <2>1
    <2> QED
      BY <1>4, <2>1, <2>2
  <1> QED
    BY <1>7, <1>8, <1>9 DEF w, k

LEMMA NamesThenValues ==
    ASSUME NEW s, NamesDiffer(s)
    PROVE  NoRepeats(s)
  BY DEF NamesDiffer, NoRepeats

LEMMA FirstRanked ==
    ASSUME NEW o, NEW s, RankedWell(o, s), NEW n \in 0 .. Len(s)
    PROVE  LET w == SubSeq(s, 1, n) IN
           RankedWell(o, w) /\ Len(w) = n /\ \A k \in 1 .. n : w[k] = s[k]
  <1> DEFINE w == SubSeq(s, 1, n)
  <1>1. s \in Seq(ToolSpec) /\ Len(s) \in Nat
    BY DEF RankedWell
  <1>2. w \in Seq(ToolSpec) /\ Len(w) = n /\ \A k \in 1 .. n : w[k] = s[k]
    BY <1>1
  <1>3. \A k \in 1 .. n : k \in 1 .. Len(s)
    BY <1>1
  <1> HIDE DEF w
  <1>4. NamesDiffer(w)
    BY <1>2, <1>3 DEF RankedWell, NamesDiffer
  <1>5. BestFirst(o, w)
    BY <1>2, <1>3 DEF RankedWell, BestFirst
  <1> QED
    BY <1>2, <1>4, <1>5 DEF RankedWell, w

\* Lists of tools with other names have as many names as tools.
LEMMA CountNames ==
    ASSUME NEW s \in Seq(ToolSpec), NamesDiffer(s)
    PROVE  Cardinality({s[i].name : i \in DOMAIN s}) = Len(s)
  <1> DEFINE n == Len(s)
             N == {s[i].name : i \in DOMAIN s}
             f == [i \in 1 .. n |-> s[i].name]
  <1>1. n \in Nat /\ DOMAIN s = 1 .. n
    OBVIOUS
  <1>2. f \in Injection(1 .. n, N) /\ f \in Surjection(1 .. n, N)
    BY <1>1 DEF Injection, Surjection, IsInjective, NamesDiffer
  <1>3. IsFiniteSet(1 .. n) /\ Cardinality(1 .. n) = n
    BY <1>1, FS_Interval
  <1> HIDE DEF f, N, n
  <1>4. Cardinality(N) = Cardinality(1 .. n)
    BY <1>2, <1>3, FS_Surjection
  <1> QED
    BY <1>3, <1>4 DEF N, n

-----------------------------------------------------------------------------
(* The ranking of the tools for an offer.                                  *)

ToolsOK == tools \in Seq(ToolSpec) /\ NamesDiffer(tools) /\ traces \in Seq(Trace)

AskedOffers == {o \in Offer : IsFiniteSet(o.terms) /\ o.top >= 1}

LEMMA ScoreIsInt ==
    ASSUME ToolsOK, NEW o \in AskedOffers, NEW s \in ToolSpec
    PROVE  ToolScore(o, s) \in Int
  <1>1. Shared(o, s) \in Int
    <2> DEFINE c == Cardinality(o.terms \cap s.terms)
               d == IF o.terms = {} THEN 1 ELSE Cardinality(o.terms)
    <2>1. IsFiniteSet(o.terms)
      BY DEF AskedOffers
    <2>2. c \in Nat
      BY <2>1, FS_Intersection, FS_CardinalityType
    <2>3. d \in Nat /\ d >= 1
      <3>1. Cardinality(o.terms) \in Nat /\ (Cardinality(o.terms) = 0 <=> o.terms = {})
        BY <2>1, FS_CardinalityType, FS_EmptySet
      <3> QED
        BY <3>1
    <2> HIDE DEF c, d
    <2>4. (100 * c) \div d \in Int
      BY <2>2, <2>3
    <2> QED
      BY <2>4 DEF Shared, c, d
  <1> DEFINE e == Cardinality(Failures(s.name))
  <1>2. e \in Nat
    <2>1. DOMAIN traces = 1 .. Len(traces) /\ Len(traces) \in Nat
      BY DEF ToolsOK
    <2>2. IsFiniteSet(DOMAIN traces)
      BY <2>1, FS_Interval
    <2>3. Failures(s.name) \in SUBSET DOMAIN traces
      BY DEF Failures
    <2> QED
      BY <2>2, <2>3, FS_Subset, FS_CardinalityType
  <1>3. s.difficulty \in Nat
    BY DEF ToolSpec
  <1> HIDE DEF e
  <1>4. ToolScore(o, s) = Shared(o, s) + (IF s.task = o.task THEN 25 ELSE 0)
                          + (IF e > 5 THEN 20 ELSE 4 * e)
                          - (IF s.difficulty > 10 THEN 10 ELSE s.difficulty)
    BY DEF ToolScore, e
  <1> DEFINE a == Shared(o, s)
             b == IF s.task = o.task THEN 25 ELSE 0
             c == IF e > 5 THEN 20 ELSE 4 * e
             d == IF s.difficulty > 10 THEN 10 ELSE s.difficulty
  <1>5. a \in Int /\ b \in Int /\ c \in Int /\ d \in Int
    BY <1>1, <1>2, <1>3
  <1> HIDE DEF a, b, c, d
  <1>6. a + b + c - d \in Int
    BY <1>5
  <1> QED
    BY <1>4, <1>6 DEF a, b, c, d

\* No two tools are before each other, and of two one is.
LEMMA BeforeOrders ==
    ASSUME ToolsOK, NEW o \in AskedOffers,
           NEW i \in DOMAIN tools, NEW j \in DOMAIN tools, NEW k \in DOMAIN tools
    PROVE  /\ ~Before(o, i, i) /\ (i # j => Before(o, i, j) \/ Before(o, j, i))
           /\ Before(o, i, j) /\ Before(o, j, k) => Before(o, i, k)
           /\ Before(o, i, j) => ToolScore(o, tools[i]) >= ToolScore(o, tools[j])
  <1>1. /\ DOMAIN tools = 1 .. Len(tools) /\ Len(tools) \in Nat
        /\ \A l \in DOMAIN tools : tools[l] \in ToolSpec
    BY DEF ToolsOK
  <1> DEFINE x(l) == ToolScore(o, tools[l])
  <1>2. x(i) \in Int /\ x(j) \in Int /\ x(k) \in Int
    BY <1>1, ScoreIsInt
  <1>3. i \in Int /\ j \in Int /\ k \in Int
    BY <1>1
  <1>4. \A l, m \in {i, j, k} : Before(o, l, m) <=> x(l) > x(m) \/ (x(l) = x(m) /\ l < m)
    BY DEF Before
  <1> HIDE DEF x
  <1>5. ~Before(o, i, i)
    BY <1>2, <1>3, <1>4
  <1>6. i # j => Before(o, i, j) \/ Before(o, j, i)
    BY <1>2, <1>3, <1>4
  <1>7. Before(o, i, j) /\ Before(o, j, k) => Before(o, i, k)
    BY <1>2, <1>3, <1>4
  <1>8. Before(o, i, j) => x(i) >= x(j)
    BY <1>2, <1>3, <1>4
  <1> QED
    BY <1>5, <1>6, <1>7, <1>8 DEF x

\* A tool has as many before it as its place in the ranking says.
LEMMA RanksOrder ==
    ASSUME ToolsOK, NEW o \in AskedOffers, NEW i \in DOMAIN tools
    PROVE  /\ RankOf(o, i) \in 1 .. Len(tools)
           /\ \A j \in DOMAIN tools : Before(o, i, j) => RankOf(o, i) < RankOf(o, j)
  <1> DEFINE n == Len(tools)
             B(j) == {k \in DOMAIN tools : Before(o, k, j)}
  <1>1. DOMAIN tools = 1 .. n /\ n \in Nat
    BY DEF ToolsOK
  <1>2. IsFiniteSet(DOMAIN tools) /\ Cardinality(DOMAIN tools) = n
    <2> HIDE DEF n
    <2>1. IsFiniteSet(1 .. n) /\ Cardinality(1 .. n) = n
      BY <1>1, FS_Interval
    <2> QED
      BY <1>1, <2>1
  <1>3. \A j : RankOf(o, j) = Cardinality(B(j)) + 1
    BY DEF RankOf
  <1>4. \A j : B(j) \in SUBSET DOMAIN tools
    OBVIOUS
  <1>5. \A j : IsFiniteSet(B(j)) /\ Cardinality(B(j)) \in Nat
    BY <1>2, <1>4, FS_Subset, FS_CardinalityType
  <1>6. i \notin B(i)
    BY BeforeOrders
  <1>7. Cardinality(B(i)) <= n - 1
    <2>1. /\ IsFiniteSet(DOMAIN tools \ {i})
          /\ Cardinality(DOMAIN tools \ {i}) = n - 1
      BY <1>2, FS_RemoveElement
    <2>2. B(i) \in SUBSET (DOMAIN tools \ {i})
      BY <1>4, <1>6
    <2> HIDE DEF B, n
    <2> QED
      BY <2>1, <2>2, FS_Subset
  <1>8. ASSUME NEW j \in DOMAIN tools, Before(o, i, j)
        PROVE  RankOf(o, i) < RankOf(o, j)
    <2>1. B(i) \cup {i} \in SUBSET B(j)
      BY <1>8, BeforeOrders
    <2> HIDE DEF B
    <2>2. Cardinality(B(i) \cup {i}) = Cardinality(B(i)) + 1
      BY <1>5, <1>6, FS_AddElement
    <2>3. Cardinality(B(i) \cup {i}) <= Cardinality(B(j))
      BY <1>5, <2>1, FS_Subset
    <2> QED
      BY <1>3, <1>5, <2>2, <2>3
  <1> HIDE DEF B
  <1>9. RankOf(o, i) \in 1 .. n
    BY <1>1, <1>3, <1>5, <1>7
  <1> QED
    BY <1>8, <1>9 DEF n

\* The ranking holds every tool once, the best first.
LEMMA RankingIsRanked ==
    ASSUME ToolsOK, NEW o \in AskedOffers
    PROVE  /\ RankedWell(o, RankedTools(o)) /\ ToSet(RankedTools(o)) = ToSet(tools)
  <1> DEFINE n == Len(tools)
             rank == [i \in 1 .. n |-> RankOf(o, i)]
             at == [k \in 1 .. n |-> CHOOSE i \in DOMAIN tools : RankOf(o, i) = k]
             r == RankedTools(o)
  <1>1. /\ DOMAIN tools = 1 .. n /\ n \in Nat /\ tools \in Seq(ToolSpec)
        /\ \A i \in 1 .. n : tools[i] \in ToolSpec
    BY DEF ToolsOK
  <1>2. \A i \in 1 .. n : rank[i] \in 1 .. n
    BY <1>1, RanksOrder
  <1>3. \A i, j \in 1 .. n : Before(o, i, j) => rank[i] < rank[j]
    BY <1>1, RanksOrder
  <1>4. \A i, j \in 1 .. n : rank[i] = rank[j] => i = j
    <2>1. \A i, j \in 1 .. n : i # j => Before(o, i, j) \/ Before(o, j, i)
      BY <1>1, BeforeOrders
    <2> HIDE DEF rank
    <2> QED
      BY <1>2, <1>3, <2>1
  <1>5. \A k \in 1 .. n : \E i \in 1 .. n : rank[i] = k
    <2>1. rank \in Injection(1 .. n, 1 .. n)
      BY <1>2, <1>4 DEF Injection, IsInjective
    <2>2. IsFiniteSet(1 .. n)
      BY <1>1, FS_Interval
    <2>3. rank \in Surjection(1 .. n, 1 .. n)
      <3> HIDE DEF rank, n
      <3> QED
        BY <2>1, <2>2, FS_Injection
    <2> QED
      BY <2>3 DEF Surjection
  <1>6. ASSUME NEW k \in 1 .. n
        PROVE  at[k] \in 1 .. n /\ rank[at[k]] = k /\ r[k] = tools[at[k]]
    <2>1. PICK i \in 1 .. n : rank[i] = k
      BY <1>5
    <2>2. \E j \in DOMAIN tools : RankOf(o, j) = k
      BY <1>1, <2>1
    <2>3. at[k] \in DOMAIN tools /\ RankOf(o, at[k]) = k
      BY <2>2
    <2>4. r[k] = tools[at[k]]
      BY <1>1 DEF RankedTools
    <2> QED
      BY <1>1, <2>3, <2>4
  <1>7. r = [k \in 1 .. n |-> tools[at[k]]]
    BY <1>1 DEF RankedTools
  <1> HIDE DEF n, rank, at
  <1>8. r \in Seq(ToolSpec) /\ Len(r) = n
    <2>1. \A k \in 1 .. n : tools[at[k]] \in ToolSpec
      BY <1>1, <1>6
    <2> HIDE DEF r
    <2> QED
      BY <1>1, <1>7, <2>1
  <1> HIDE DEF r
  <1>9. ASSUME NEW k \in 1 .. n, NEW l \in 1 .. n, r[k].name = r[l].name
        PROVE  k = l
    <2>1. at[k] = at[l]
      BY <1>6, <1>9 DEF ToolsOK, NamesDiffer, n
    <2> QED
      BY <1>6, <2>1
  <1>10. ASSUME NEW k \in 1 .. n, NEW l \in 1 .. n, k <= l
         PROVE  ToolScore(o, r[k]) >= ToolScore(o, r[l])
    <2>1. CASE k = l
      <3>1. ToolScore(o, r[k]) \in Int
        BY <1>1, <1>6, ScoreIsInt
      <3> QED
        BY <2>1, <3>1
    <2>2. CASE k # l
      <3>1. at[k] # at[l]
        BY <1>6, <2>2
      <3>2. ~Before(o, at[l], at[k])
        BY <1>1, <1>3, <1>6, <1>10
      <3>3. Before(o, at[k], at[l])
        BY <1>1, <1>6, <3>1, <3>2, BeforeOrders
      <3> QED
        BY <1>1, <1>6, <3>3, BeforeOrders
    <2> QED
      BY <2>1, <2>2
  <1>11. RankedWell(o, r)
    BY <1>8, <1>9, <1>10 DEF RankedWell, NamesDiffer, BestFirst
  <1>12. ToSet(r) = ToSet(tools)
    <2>1. DOMAIN r = 1 .. n
      BY <1>7
    <2>2. \A k \in 1 .. n : r[k] \in ToSet(tools)
      BY <1>1, <1>6 DEF ToSet
    <2>3. \A i \in 1 .. n : \E k \in 1 .. n : r[k] = tools[i]
      BY <1>2, <1>4, <1>6
    <2> QED
      BY <1>1, <2>1, <2>2, <2>3 DEF ToSet
  <1> QED
    BY <1>11, <1>12 DEF r

-----------------------------------------------------------------------------
(* What select_tools chooses.                                              *)

\* A question of another stage ranks the tools the same.
LEMMA StageRanks ==
    ASSUME NEW o \in Offer, NEW st \in Stages
    PROVE  LET u == [o EXCEPT !.stage = st] IN
           /\ RankedTools(u) = RankedTools(o)
           /\ \A S : ForTask(u, S) = ForTask(o, S)
           /\ u.top = o.top /\ u.distractors = o.distractors /\ u.stage = st
           /\ u \in Offer /\ u.terms = o.terms
  <1> DEFINE u == [o EXCEPT !.stage = st]
  <1>1. /\ u.terms = o.terms /\ u.task = o.task /\ u.top = o.top /\ u.stage = st
        /\ u.distractors = o.distractors /\ u \in Offer
    BY DEF Offer
  <1> HIDE DEF u
  <1>2. ASSUME NEW s
        PROVE  ToolScore(u, s) = ToolScore(o, s)
    <2>1. Shared(u, s) = Shared(o, s)
      BY <1>1 DEF Shared
    <2> QED
      BY <1>1, <2>1 DEF ToolScore
  <1>3. \A i, j : Before(u, i, j) <=> Before(o, i, j)
    BY <1>2 DEF Before
  <1>4. ASSUME NEW i
        PROVE  RankOf(u, i) = RankOf(o, i)
    <2>1. {j \in DOMAIN tools : Before(u, j, i)} = {j \in DOMAIN tools : Before(o, j, i)}
      BY <1>3
    <2> QED
      BY <2>1 DEF RankOf
  <1> DEFINE at(v, k) == CHOOSE i \in DOMAIN tools : RankOf(v, i) = k
  <1>5. \A k : at(u, k) = at(o, k)
    BY <1>4
  <1>6. RankedTools(u) = RankedTools(o)
    <2>1. \A v : RankedTools(v) = [k \in DOMAIN tools |-> tools[at(v, k)]]
      BY DEF RankedTools
    <2> HIDE DEF at
    <2> QED
      BY <1>5, <2>1
  <1>7. \A S : ForTask(u, S) = ForTask(o, S)
    BY <1>1 DEF ForTask
  <1> QED
    BY <1>1, <1>6, <1>7 DEF u

\* What is of the task, and what is not, in the order of the ranking.
OfTask(o) == Only(RankedTools(o), ForTask(o, ToSet(tools)))
Others(o) == Without(RankedTools(o), ForTask(o, ToSet(tools)))

LEMMA OfTaskDoes ==
    ASSUME ToolsOK, NEW o \in AskedOffers
    PROVE  /\ RankedWell(o, OfTask(o)) /\ RankedWell(o, Others(o))
           /\ \A k \in 1 .. Len(OfTask(o)) : OfTask(o)[k] \in ForTask(o, ToSet(tools))
           /\ \A x \in ForTask(o, ToSet(tools)) : \E k \in 1 .. Len(OfTask(o)) : OfTask(o)[k] = x
           /\ \A k \in 1 .. Len(Others(o)) :
                 Others(o)[k] \in ToSet(tools) \ ForTask(o, ToSet(tools))
  <1> DEFINE r == RankedTools(o)
             F == ForTask(o, ToSet(tools))
  <1>1. RankedWell(o, r) /\ ToSet(r) = ToSet(tools) /\ F \subseteq ToSet(tools)
    BY RankingIsRanked DEF ForTask
  <1>2. OfTask(o) = Without(r, ToSet(r) \ F) /\ Others(o) = Without(r, F)
    BY DEF OfTask, Others, Only
  <1> HIDE DEF r, F
  <1>3. /\ RankedWell(o, OfTask(o))
        /\ \A k \in 1 .. Len(OfTask(o)) : OfTask(o)[k] \in ToSet(r) \ (ToSet(r) \ F)
        /\ \A x \in ToSet(r) \ (ToSet(r) \ F) : \E k \in 1 .. Len(OfTask(o)) : OfTask(o)[k] = x
    BY <1>1, <1>2, FilterRanked
  <1>4. /\ RankedWell(o, Others(o))
        /\ \A k \in 1 .. Len(Others(o)) : Others(o)[k] \in ToSet(r) \ F
    BY <1>1, <1>2, FilterRanked
  <1> QED
    BY <1>1, <1>3, <1>4 DEF F

\* Within the task, and without one, distractors make no difference.
LEMMA WithinTask ==
    ASSUME ToolsOK, NEW o \in AskedOffers, o.stage # "cross_category" \/ o.task = NoTask
    PROVE  Chosen(o) = SubSeq(OfTask(o), 1, Least(o.top, Len(OfTask(o))))
  <1> DEFINE s == OfTask(o)
             n == Len(s)
             d == o.distractors
             top == o.top
             most == IF top - d > 1 THEN top - d ELSE 1
             p == Least(most, n)
             few == SubSeq(s, 1, p)
             pool == Without(s, ToSet(few))
             room == top - Len(few)
             most2 == IF d < room THEN d ELSE room
             q == Least(most2, Len(pool))
  <1>1. /\ s \in Seq(ToolSpec) /\ n \in Nat /\ NoRepeats(s)
        /\ d \in Nat /\ top \in Nat /\ top >= 1
    BY OfTaskDoes, NamesThenValues DEF RankedWell, AskedOffers, Offer
  <1>2. CASE o.stage = "warmup"
    BY <1>2 DEF Chosen, FirstOfSeq, Least, OfTask
  <1>3. CASE o.stage # "warmup"
    <2>1. Chosen(o) = few \o SubSeq(pool, 1, q)
      BY <1>3 DEF Chosen, FirstOfSeq, Least, OfTask
    <2> HIDE DEF s, n
    <2>2. most \in Nat /\ most >= 1 /\ (most = top - d \/ most = 1)
          /\ most >= top - d /\ most <= top
      BY <1>1
    <2> HIDE DEF most, d, top
    <2>3. p \in 0 .. Len(s) /\ (p = most \/ p = n) /\ p <= most /\ p <= n
      BY <1>1, <2>2 DEF Least, n
    <2> HIDE DEF p
    <2>4. few \in Seq(ToolSpec) /\ Len(few) = p
      BY <1>1, <2>3
    <2>5. pool = SubSeq(s, p + 1, Len(s))
      BY <1>1, <2>3, WithoutFirst
    <2>6. Len(pool) = n - p
      BY <1>1, <2>3, <2>5 DEF n
    <2>7. room = top - p
      BY <2>4
    <2> DEFINE left == Len(pool)
    <2> HIDE DEF room, pool, few, left
    <2>8. left = n - p
      BY <2>6 DEF left
    <2>9. q = Least(IF d < room THEN d ELSE room, left)
      BY DEF left
    <2>10. p \in Nat /\ n \in Nat /\ d \in Nat /\ top \in Nat /\ most \in Nat
      BY <1>1, <2>2, <2>3 DEF n
    <2>11. q \in 0 .. n - p /\ p + q = Least(top, n)
      <3> HIDE DEF q
      <3> QED
        BY <2>2, <2>3, <2>7, <2>8, <2>9, <2>10 DEF Least
    <2> HIDE DEF q
    <2>12. few \o SubSeq(pool, 1, q) = SubSeq(s, 1, p + q)
      BY <1>1, <2>3, <2>5, <2>11, FirstAndNext DEF few, n
    <2> QED
      BY <2>1, <2>11, <2>12 DEF s, n, top
  <1> QED
    BY <1>2, <1>3

\* Only the last stage of a task takes others, after those of the task.
LEMMA AcrossTasks ==
    ASSUME ToolsOK, NEW o \in AskedOffers, o.stage = "cross_category", o.task # NoTask
    PROVE  \E p \in 0 .. Len(OfTask(o)), q \in 0 .. Len(Others(o)) :
              /\ Chosen(o) = SubSeq(OfTask(o), 1, p) \o SubSeq(Others(o), 1, q)
              /\ p + q <= o.top /\ q <= o.distractors
              /\ OfTask(o) # <<>> => p >= 1
  <1> DEFINE s == OfTask(o)
             n == Len(s)
             pool == Others(o)
             left == Len(pool)
             d == o.distractors
             top == o.top
             most == IF top - d > 1 THEN top - d ELSE 1
             p == Least(most, n)
             few == SubSeq(s, 1, p)
             room == top - Len(few)
             most2 == IF d < room THEN d ELSE room
             q == Least(most2, left)
  <1>1. /\ s \in Seq(ToolSpec) /\ n \in Nat /\ left \in Nat
        /\ d \in Nat /\ top \in Nat /\ top >= 1
    BY OfTaskDoes DEF RankedWell, AskedOffers, Offer
  <1>2. Chosen(o) = few \o SubSeq(pool, 1, q)
    BY DEF Chosen, FirstOfSeq, Least, OfTask, Others
  <1>3. s # <<>> => n >= 1
    BY <1>1
  <1> HIDE DEF s, n, pool, left
  <1>4. most \in Nat /\ most >= 1 /\ most <= top
    BY <1>1
  <1> HIDE DEF most, d, top
  <1>5. p \in Nat /\ p <= n /\ p <= most /\ (n >= 1 => p >= 1)
    BY <1>1, <1>4 DEF Least
  <1>6. p \in 0 .. Len(s)
    BY <1>1, <1>5 DEF n
  <1> HIDE DEF p
  <1>7. Len(few) = p
    BY <1>1, <1>6
  <1>8. room = top - p /\ room \in Nat
    BY <1>1, <1>4, <1>5, <1>7
  <1> HIDE DEF few, room
  <1>9. most2 \in Nat /\ most2 <= d /\ most2 <= room
    BY <1>1, <1>8
  <1> HIDE DEF most2
  <1>10. q \in 0 .. left /\ q <= d /\ q <= room
    BY <1>1, <1>8, <1>9 DEF Least
  <1> HIDE DEF q
  <1>11. p + q <= top
    BY <1>1, <1>5, <1>8, <1>10
  <1>12. Chosen(o) = SubSeq(s, 1, p) \o SubSeq(pool, 1, q)
    BY <1>2 DEF few
  <1> QED
    BY <1>3, <1>5, <1>6, <1>10, <1>11, <1>12 DEF s, n, pool, left, d, top

\* The best of the task is chosen first.
LEMMA BestOfTaskFirst ==
    ASSUME ToolsOK, NEW o \in AskedOffers, NEW got, NEW i \in DOMAIN tools,
           o.task \in {NoTask, tools[i].task},
           OfTask(o) # <<>> => got # <<>> /\ got[1] = OfTask(o)[1]
    PROVE  got # <<>> /\ ToolScore(o, got[1]) >= ToolScore(o, tools[i])
  <1> DEFINE s == OfTask(o)
  <1>1. tools[i] \in ForTask(o, ToSet(tools))
    BY DEF ForTask, ToSet
  <1>2. PICK k \in 1 .. Len(s) : s[k] = tools[i]
    BY <1>1, OfTaskDoes
  <1>3. s \in Seq(ToolSpec) /\ BestFirst(o, s)
    BY OfTaskDoes DEF RankedWell
  <1> HIDE DEF s
  <1>4. s # <<>> /\ 1 \in 1 .. Len(s) /\ 1 <= k
    BY <1>2, <1>3
  <1>5. ToolScore(o, s[1]) >= ToolScore(o, s[k])
    BY <1>3, <1>4 DEF BestFirst
  <1> QED
    BY <1>2, <1>4, <1>5 DEF s

\* What OffersKeepTheirStage says of an offer.
Keeps(o, got) ==
    LET strange == {i \in DOMAIN got : o.task \notin {NoTask, got[i].task}}
    IN  /\ Len(got) <= o.top
        /\ Cardinality({got[i].name : i \in DOMAIN got}) = Len(got)
        /\ strange # {} => o.stage = "cross_category" /\ Cardinality(strange) <= o.distractors
        /\ \A i \in strange : \A j \in DOMAIN got \ strange : j < i
        /\ \A i \in DOMAIN tools : o.task \in {NoTask, tools[i].task} =>
              got # <<>> /\ ToolScore(o, got[1]) >= ToolScore(o, tools[i])
        /\ o.stage = "in_category" \/ o.task = NoTask =>
              got = Chosen([o EXCEPT !.stage = "warmup"])

LEMMA WithinKeeps ==
    ASSUME ToolsOK, NEW o \in AskedOffers, o.stage # "cross_category" \/ o.task = NoTask
    PROVE  Keeps(o, Chosen(o))
  <1> DEFINE s == OfTask(o)
             n == Len(s)
             got == Chosen(o)
             m == Least(o.top, n)
             strange == {i \in DOMAIN got : o.task \notin {NoTask, got[i].task}}
  <1>1. o.top \in Nat /\ o.top >= 1 /\ o \in Offer
    BY DEF AskedOffers, Offer
  <1>2. /\ RankedWell(o, s) /\ s \in Seq(ToolSpec)
        /\ \A k \in 1 .. n : s[k] \in ForTask(o, ToSet(tools))
    BY OfTaskDoes DEF RankedWell
  <1>3. got = SubSeq(s, 1, m)
    BY WithinTask
  <1>4. n \in Nat
    BY <1>2
  <1>5. m \in 0 .. n /\ m <= o.top /\ (n >= 1 => m >= 1)
    <2> HIDE DEF n
    <2> QED
      BY <1>1, <1>4 DEF Least
  <1> HIDE DEF got, m
  <1>6. RankedWell(o, got) /\ Len(got) = m /\ \A k \in 1 .. m : got[k] = s[k]
    BY <1>2, <1>3, <1>5, FirstRanked
  <1>7. got \in Seq(ToolSpec) /\ NamesDiffer(got) /\ DOMAIN got = 1 .. m
    BY <1>6 DEF RankedWell
  <1>8. strange = {}
    <2>1. \A k \in 1 .. m : k \in 1 .. n
      BY <1>4, <1>5
    <2> HIDE DEF s, n
    <2>2. \A k \in 1 .. m : got[k] \in ForTask(o, ToSet(tools))
      BY <1>2, <1>6, <2>1
    <2> QED
      BY <1>7, <2>2 DEF ForTask
  <1>9. ASSUME NEW i \in DOMAIN tools, o.task \in {NoTask, tools[i].task}
        PROVE  got # <<>> /\ ToolScore(o, got[1]) >= ToolScore(o, tools[i])
    <2>1. s # <<>> => got # <<>> /\ got[1] = s[1]
      <3>1. s # <<>> => n >= 1
        BY <1>2
      <3> HIDE DEF s, n
      <3>2. n >= 1 => 1 \in 1 .. m
        BY <1>4, <1>5
      <3> QED
        BY <1>6, <1>7, <3>1, <3>2
    <2> QED
      BY <1>9, <2>1, BestOfTaskFirst
  <1>10. ASSUME o.stage = "in_category" \/ o.task = NoTask
         PROVE  got = Chosen([o EXCEPT !.stage = "warmup"])
    <2> DEFINE u == [o EXCEPT !.stage = "warmup"]
    <2>1. /\ RankedTools(u) = RankedTools(o) /\ \A S : ForTask(u, S) = ForTask(o, S)
          /\ u.top = o.top /\ u.stage = "warmup" /\ u \in Offer /\ u.terms = o.terms
      BY <1>1, StageRanks DEF Stages
    <2> HIDE DEF u
    <2>2. u \in AskedOffers /\ u.stage # "cross_category"
      BY <2>1 DEF AskedOffers
    <2>3. OfTask(u) = s
      BY <2>1 DEF OfTask
    <2>4. Chosen(u) = SubSeq(OfTask(u), 1, Least(u.top, Len(OfTask(u))))
      BY <2>2, WithinTask
    <2> QED
      BY <1>3, <2>1, <2>3, <2>4 DEF u, m
  <1>11. Cardinality({got[i].name : i \in DOMAIN got}) = Len(got)
    BY <1>7, CountNames
  <1> QED
    BY <1>5, <1>6, <1>8, <1>9, <1>10, <1>11 DEF Keeps, got

LEMMA AcrossKeeps ==
    ASSUME ToolsOK, NEW o \in AskedOffers, o.stage = "cross_category", o.task # NoTask
    PROVE  Keeps(o, Chosen(o))
  <1> DEFINE s == OfTask(o)
             t == Others(o)
             F == ForTask(o, ToSet(tools))
             got == Chosen(o)
             strange == {i \in DOMAIN got : o.task \notin {NoTask, got[i].task}}
  <1>1. o.top \in Nat /\ o.distractors \in Nat
    BY DEF AskedOffers, Offer
  <1>2. /\ RankedWell(o, s) /\ RankedWell(o, t) /\ s \in Seq(ToolSpec) /\ t \in Seq(ToolSpec)
        /\ \A k \in 1 .. Len(s) : s[k] \in F
        /\ \A k \in 1 .. Len(t) : t[k] \in ToSet(tools) \ F
    BY OfTaskDoes DEF RankedWell
  <1>3. \A x \in ToSet(tools) : x \in F <=> o.task \in {NoTask, x.task}
    BY DEF ForTask
  <1>4. F \subseteq ToSet(tools)
    BY DEF ForTask
  <1>5. PICK p \in 0 .. Len(s), q \in 0 .. Len(t) :
           /\ got = SubSeq(s, 1, p) \o SubSeq(t, 1, q)
           /\ p + q <= o.top /\ q <= o.distractors
           /\ s # <<>> => p >= 1
    BY AcrossTasks
  <1> DEFINE a == SubSeq(s, 1, p)
             b == SubSeq(t, 1, q)
  <1> HIDE DEF s, t, F, got
  <1>6. p \in Nat /\ q \in Nat /\ p <= Len(s) /\ q <= Len(t) /\ Len(s) \in Nat /\ Len(t) \in Nat
    BY <1>2, <1>5
  <1>7. RankedWell(o, a) /\ Len(a) = p /\ \A k \in 1 .. p : a[k] = s[k]
    BY <1>2, <1>5, FirstRanked
  <1>8. RankedWell(o, b) /\ Len(b) = q /\ \A k \in 1 .. q : b[k] = t[k]
    BY <1>2, <1>5, FirstRanked
  <1>9. a \in Seq(ToolSpec) /\ b \in Seq(ToolSpec) /\ NamesDiffer(a) /\ NamesDiffer(b)
    BY <1>7, <1>8 DEF RankedWell
  <1> HIDE DEF a, b
  <1>10. /\ got \in Seq(ToolSpec) /\ Len(got) = p + q
         /\ \A i \in 1 .. p + q : got[i] = IF i <= p THEN a[i] ELSE b[i - p]
    BY <1>5, <1>7, <1>8, <1>9, PutTogether DEF a, b
  <1>11. DOMAIN got = 1 .. p + q
    BY <1>10
  <1>12. \A i \in 1 .. p : i \in 1 .. p + q /\ got[i] = a[i] /\ got[i] \in F
    <2>1. \A i \in 1 .. p : i \in 1 .. p + q /\ i <= p /\ i \in 1 .. Len(s)
      BY <1>6
    <2> QED
      BY <1>2, <1>7, <1>10, <2>1
  <1>13. \A i \in p + 1 .. p + q : /\ i \in 1 .. p + q /\ i - p \in 1 .. q
                                   /\ got[i] = b[i - p] /\ got[i] \in ToSet(tools) \ F
    <2>1. \A i \in p + 1 .. p + q : i \in 1 .. p + q /\ ~(i <= p) /\ i - p \in 1 .. q
                                    /\ i - p \in 1 .. Len(t)
      BY <1>6
    <2> QED
      BY <1>2, <1>8, <1>10, <2>1
  <1>14. \A i \in 1 .. p + q : i \in 1 .. p \/ i \in p + 1 .. p + q
    BY <1>6
  <1>15. strange = p + 1 .. p + q
    <2>1. \A i \in p + 1 .. p + q : i \in strange
      BY <1>3, <1>11, <1>13
    <2>2. \A i \in 1 .. p : i \notin strange
      BY <1>3, <1>4, <1>12
    <2>3. strange \subseteq 1 .. p + q
      BY <1>11
    <2> QED
      BY <1>14, <2>1, <2>2, <2>3
  <1>16. Cardinality(strange) <= o.distractors
    <2>1. p + 1 \in Int /\ p + q \in Int
      BY <1>6
    <2>2. Cardinality(p + 1 .. p + q) = IF p + 1 > p + q THEN 0 ELSE p + q - (p + 1) + 1
      BY <2>1, FS_Interval
    <2>3. Cardinality(p + 1 .. p + q) = q
      BY <1>6, <2>2
    <2> QED
      BY <1>5, <1>15, <2>3
  <1>17. \A i \in strange : \A j \in DOMAIN got \ strange : j < i
    <2>1. \A j \in DOMAIN got \ strange : j \in 1 .. p
      BY <1>11, <1>14, <1>15
    <2> HIDE DEF strange
    <2> QED
      BY <1>6, <1>15, <2>1
  <1>18. NamesDiffer(got)
    <2>1. SUFFICES ASSUME NEW i \in 1 .. p + q, NEW j \in 1 .. p + q,
                          got[i].name = got[j].name
                   PROVE  i = j
      BY <1>10 DEF NamesDiffer
    <2>2. got[i] = got[j]
      <3>1. got[i] \in ToSet(tools) /\ got[j] \in ToSet(tools)
        BY <1>4, <1>12, <1>13, <1>14
      <3>2. PICK k \in DOMAIN tools : tools[k] = got[i]
        BY <3>1 DEF ToSet
      <3>3. PICK l \in DOMAIN tools : tools[l] = got[j]
        BY <3>1 DEF ToSet
      <3>4. k = l
        BY <2>1, <3>2, <3>3 DEF ToolsOK, NamesDiffer
      <3> QED
        BY <3>2, <3>3, <3>4
    <2>3. CASE i \in 1 .. p /\ j \in 1 .. p
      BY <1>7, <1>9, <1>12, <2>1, <2>3 DEF NamesDiffer
    <2>4. CASE i \in p + 1 .. p + q /\ j \in p + 1 .. p + q
      <3>1. i - p = j - p
        BY <1>8, <1>9, <1>13, <2>1, <2>4 DEF NamesDiffer
      <3> QED
        BY <1>6, <2>4, <3>1
    <2>5. ~(i \in 1 .. p /\ j \in p + 1 .. p + q) /\ ~(j \in 1 .. p /\ i \in p + 1 .. p + q)
      BY <1>12, <1>13, <2>2
    <2> QED
      BY <1>14, <2>3, <2>4, <2>5
  <1>19. ASSUME NEW i \in DOMAIN tools, o.task \in {NoTask, tools[i].task}
         PROVE  got # <<>> /\ ToolScore(o, got[1]) >= ToolScore(o, tools[i])
    <2>1. s # <<>> => got # <<>> /\ got[1] = s[1]
      <3>1. s # <<>> => 1 \in 1 .. p
        BY <1>5, <1>6
      <3>2. 1 \in 1 .. p => got # <<>>
        BY <1>11, <1>12
      <3> QED
        BY <1>7, <1>12, <3>1, <3>2
    <2> QED
      BY <1>19, <2>1, BestOfTaskFirst DEF s
  <1>20. Cardinality({got[i].name : i \in DOMAIN got}) = Len(got)
    BY <1>10, <1>18, CountNames
  <1>21. Len(got) <= o.top
    BY <1>5, <1>10
  <1> HIDE DEF strange
  <1> QED
    BY <1>16, <1>17, <1>19, <1>20, <1>21 DEF Keeps, got, strange

LEMMA ChosenKeeps ==
    ASSUME ToolsOK, NEW o \in AskedOffers
    PROVE  Keeps(o, Chosen(o))
  BY WithinKeeps, AcrossKeeps

-----------------------------------------------------------------------------
(* The curriculum keeps its tools apart, and its offer is of these tools.  *)

CurriculumInv ==
    /\ ToolsOK
    /\ offered # <<>> => \E o \in AskedOffers : offered = <<o, Chosen(o)>>

LEMMA AskedIsAsked ==
    ASSUME NEW o \in Offers
    PROVE  Asked(o) \in AskedOffers
  <1>1. o \in Offer /\ IsFiniteSet(o.terms)
    BY CurriculumAssumption
  <1>2. /\ OrDefault(o.top, 8) \in Nat /\ OrDefault(o.top, 8) >= 1
        /\ OrDefault(o.distractors, 2) \in Nat
    BY <1>1 DEF OrDefault, Offer
  <1> DEFINE a == OrDefault(o.top, 8)
             d == OrDefault(o.distractors, 2)
  <1>3. Asked(o) = [o EXCEPT !.top = a, !.distractors = d]
    BY <1>1 DEF Asked, Offer
  <1> HIDE DEF a, d
  <1>4. Asked(o) \in Offer /\ Asked(o).terms = o.terms /\ Asked(o).top = a
    BY <1>1, <1>2, <1>3 DEF Offer, a, d
  <1> QED
    BY <1>1, <1>2, <1>4 DEF AskedOffers, a

\* What is chosen depends on the tools and traces alone.
LEMMA ChosenStays ==
    ASSUME tools' = tools, traces' = traces, NEW CONSTANT o
    PROVE  Chosen(o)' = Chosen(o)
  <1>1. ASSUME NEW CONSTANT s
        PROVE  ToolScore(o, s)' = ToolScore(o, s)
    <2>1. ASSUME NEW CONSTANT n
          PROVE  Failures(n)' = Failures(n)
      BY DEF Failures
    <2>2. Shared(o, s)' = Shared(o, s)
      BY DEF Shared
    <2> QED
      BY <2>1, <2>2 DEF ToolScore
  <1>2. ASSUME NEW CONSTANT i, NEW CONSTANT j
        PROVE  Before(o, i, j)' <=> Before(o, i, j)
    BY <1>1 DEF Before
  <1>3. ASSUME NEW CONSTANT i
        PROVE  RankOf(o, i)' = RankOf(o, i)
    <2>1. {j \in DOMAIN tools : Before(o, j, i)}' = {j \in DOMAIN tools : Before(o, j, i)}
      BY <1>2
    <2> QED
      BY <2>1 DEF RankOf
  <1>4. RankedTools(o)' = RankedTools(o)
    <2> DEFINE at(k) == CHOOSE i \in DOMAIN tools : RankOf(o, i) = k
               r == RankedTools(o)
    <2>1. ASSUME NEW CONSTANT k
          PROVE  at(k)' = at(k)
      BY <1>3
    <2>2. \A k \in DOMAIN tools : r[k] = tools[at(k)] /\ r'[k] = tools[at(k)']
      BY DEF RankedTools
    <2>3. r = [k \in DOMAIN tools |-> r[k]] /\ r' = [k \in DOMAIN tools |-> r'[k]]
      BY DEF RankedTools
    <2> HIDE DEF r, at
    <2>4. \A k \in DOMAIN tools : r'[k] = r[k]
      BY <2>1, <2>2
    <2>5. r' = r
      BY <2>3, <2>4
    <2> QED
      BY <2>5 DEF r
  <1> QED
    BY <1>4 DEF Chosen, ForTask

LEMMA SameCurriculum ==
    ASSUME CurriculumInv, tools' = tools, traces' = traces, offered' = offered \/ offered' = <<>>
    PROVE  CurriculumInv'
  <1>1. ToolsOK'
    BY DEF CurriculumInv, ToolsOK, NamesDiffer
  <1>2. ASSUME offered' # <<>>
        PROVE  \E o \in AskedOffers : offered' = <<o, Chosen(o)'>>
    <2>1. offered' = offered
      BY <1>2
    <2>2. PICK o \in AskedOffers : offered = <<o, Chosen(o)>>
      BY <1>2, <2>1 DEF CurriculumInv
    <2>3. Chosen(o)' = Chosen(o)
      BY ChosenStays
    <2>4. offered' = <<o, Chosen(o)'>>
      BY <2>1, <2>2, <2>3
    <2> QED
      BY <2>4
  <1> QED
    BY <1>1, <1>2 DEF CurriculumInv

LEMMA RegisterToolInv ==
    ASSUME CurriculumInv, NEW s \in Specs, RegisterTool(s)
    PROVE  CurriculumInv'
  <1> DEFINE n == Len(tools)
  <1>1. /\ n \in Nat /\ DOMAIN tools = 1 .. n /\ tools \in Seq(ToolSpec) /\ s \in ToolSpec
        /\ \A i \in 1 .. n : tools[i] \in ToolSpec
        /\ \A i, j \in 1 .. n : tools[i].name = tools[j].name => i = j
    BY CurriculumAssumption DEF CurriculumInv, ToolsOK, NamesDiffer
  <1>2. traces' = traces /\ offered' = <<>> /\ traces \in Seq(Trace)
    BY DEF RegisterTool, CurriculumInv, ToolsOK
  <1>3. tools' \in Seq(ToolSpec) /\ NamesDiffer(tools')
    <2>1. CASE Named(s.name) = {}
      <3>1. tools' = Append(tools, s)
        BY <2>1 DEF RegisterTool
      <3>2. \A i \in 1 .. n : tools[i].name # s.name
        BY <1>1, <2>1 DEF Named
      <3>3. /\ Append(tools, s) \in Seq(ToolSpec) /\ Len(Append(tools, s)) = n + 1
            /\ Append(tools, s)[n + 1] = s /\ \A i \in 1 .. n : Append(tools, s)[i] = tools[i]
        BY <1>1
      <3> HIDE DEF n
      <3>4. /\ tools' \in Seq(ToolSpec) /\ Len(tools') = n + 1
            /\ tools'[n + 1] = s /\ \A i \in 1 .. n : tools'[i] = tools[i]
        BY <3>1, <3>3
      <3>5. \A i \in 1 .. n + 1 : i \in 1 .. n \/ i = n + 1
        BY <1>1
      <3>6. NamesDiffer(tools')
        BY <1>1, <3>2, <3>4, <3>5 DEF NamesDiffer
      <3> QED
        BY <3>4, <3>6
    <2>2. CASE Named(s.name) # {}
      <3>1. tools' = [i \in 1 .. n |-> IF i \in Named(s.name) THEN s ELSE tools[i]]
        BY <1>1, <2>2 DEF RegisterTool
      <3>2. \A i \in 1 .. n : i \in Named(s.name) <=> tools[i].name = s.name
        BY <1>1 DEF Named
      <3> HIDE DEF n
      <3>3. tools' \in Seq(ToolSpec) /\ Len(tools') = n
        BY <1>1, <3>1
      <3>4. \A i \in 1 .. n : tools'[i].name = tools[i].name
        BY <3>1, <3>2
      <3>5. NamesDiffer(tools')
        BY <1>1, <3>3, <3>4 DEF NamesDiffer
      <3> QED
        BY <3>3, <3>5
    <2> QED
      BY <2>1, <2>2
  <1>4. ToolsOK'
    BY <1>2, <1>3 DEF ToolsOK, NamesDiffer
  <1> QED
    BY <1>2, <1>4 DEF CurriculumInv

LEMMA RecordTraceInv ==
    ASSUME CurriculumInv, NEW t \in Traces, RecordTrace(t)
    PROVE  CurriculumInv'
  <1>1. tools' = tools /\ offered' = <<>> /\ traces' = Append(traces, t)
    BY DEF RecordTrace
  <1>2. t \in Trace /\ traces \in Seq(Trace)
    BY CurriculumAssumption DEF CurriculumInv, ToolsOK
  <1>3. ToolsOK'
    BY <1>1, <1>2 DEF CurriculumInv, ToolsOK, NamesDiffer
  <1> QED
    BY <1>1, <1>3 DEF CurriculumInv

LEMMA SelectToolsInv ==
    ASSUME CurriculumInv, NEW o \in Offers, SelectTools(o)
    PROVE  CurriculumInv'
  <1> DEFINE u == Asked(o)
  <1>1. u \in AskedOffers
    BY AskedIsAsked
  <1>2. tools' = tools /\ traces' = traces /\ offered' = <<u, Chosen(u)>>
    BY DEF SelectTools
  <1> HIDE DEF u
  <1>3. Chosen(u)' = Chosen(u)
    BY <1>2, ChosenStays
  <1>4. ToolsOK'
    BY <1>2 DEF CurriculumInv, ToolsOK, NamesDiffer
  <1> QED
    BY <1>1, <1>2, <1>3, <1>4 DEF CurriculumInv

LEMMA CurriculumStepInv ==
    ASSUME CurriculumInv, [Next]_vars
    PROVE  CurriculumInv'
  <1>1. CASE CallFacade
    <2>1. /\ tools' = tools /\ traces' = traces
          /\ offered' = offered \/ offered' = <<>>
      BY <1>1 DEF CallFacade, StartWork, RecallContext
    <2> QED
      BY <2>1, SameCurriculum
  <1>2. CASE CallCurriculum
    BY <1>2, RegisterToolInv, RecordTraceInv, SelectToolsInv DEF CallCurriculum
  <1>3. CASE CallDocuments
    <2>1. tools' = tools /\ traces' = traces /\ offered' = <<>>
      BY <1>3 DEF CallDocuments
    <2> QED
      BY <2>1, SameCurriculum
  <1>4. CASE Work \/ File \/ Write \/ UNCHANGED vars
    <2>1. CASE Work
      BY <2>1, SameCurriculum
         DEF Work, RecallForWork, FilterTemporal, Weigh, RankAndFrame, ReadSubgraphs, ReadHints,
             GatherEvidence, AnswerWork, curriculumVars
    <2>2. CASE File
      BY <2>2, SameCurriculum DEF File, curriculumVars
    <2>3. CASE Write
      BY <2>3, SameCurriculum DEF Write, Relate, AddFact, IndexFact, curriculumVars
    <2>4. CASE UNCHANGED vars
      BY <2>4, SameCurriculum DEF vars, curriculumVars
    <2> QED
      BY <1>4, <2>1, <2>2, <2>3, <2>4
  <1>5. CASE Restart
    <2>1. tools' = <<>> /\ traces' = <<>> /\ offered' = <<>>
      BY <1>5 DEF Restart, ForgetCurriculum
    <2> QED
      BY <2>1 DEF CurriculumInv, ToolsOK, NamesDiffer
  <1> QED
    BY <1>1, <1>2, <1>3, <1>4, <1>5 DEF Next

\* No two tools have one name, and the last offer is what select_tools chooses for
\* it from the tools and traces there are still (register_tool,
\* record_tool_trace, select_tools, and the process ending).
THEOREM CurriculumInvariant == Spec => []CurriculumInv
  <1>1. Init => CurriculumInv
    BY DEF Init, CurriculumInit, CurriculumInv, ToolsOK, NamesDiffer
  <1>2. CurriculumInv /\ [Next]_vars => CurriculumInv'
    BY CurriculumStepInv
  <1> QED
    BY <1>1, <1>2, PTL DEF Spec

\* Whatever was registered again, failed and was lifted: an offer is no longer
\* than asked, repeats nothing, begins with the best of the task, and has tools of
\* other tasks only in the last stage, last, and no more than asked; without a task
\* the stage makes no difference (select_tools).
THEOREM OffersKeepTheirStageThm == Spec => []OffersKeepTheirStage
  <1>1. ASSUME CurriculumInv
        PROVE  OffersKeepTheirStage
    <2>1. SUFFICES ASSUME offered # <<>> PROVE Keeps(offered[1], offered[2])
      BY DEF OffersKeepTheirStage, Keeps
    <2>2. PICK o \in AskedOffers : offered = <<o, Chosen(o)>>
      BY <1>1, <2>1 DEF CurriculumInv
    <2>3. Keeps(o, Chosen(o))
      BY <1>1, ChosenKeeps DEF CurriculumInv
    <2>4. offered[1] = o /\ offered[2] = Chosen(o)
      BY <2>2
    <2> QED
      BY <2>3, <2>4
  <1> QED
    BY CurriculumInvariant, <1>1, PTL

-----------------------------------------------------------------------------
(* The chunks of a document.                                               *)

Pieces == [block : Nat, from : Nat, to : Nat]

\* Chunks that hold the blocks after a up to z: nothing else, all that is not
\* blank, nothing in two places, block after block, and none too long.
Bounded(text, cs, a, z) ==
    \A c \in 1 .. Len(cs) :
        /\ cs[c] # <<>> /\ SizeOf(cs[c]) <= MaxChars
        /\ \A p \in 1 .. Len(cs[c]) : /\ cs[c][p].block \in a + 1 .. z
                                      /\ InkOf(text, cs[c][p]) \subseteq Ink(text)

Covered(text, cs, a, z) ==
    \A b \in a + 1 .. z : \A x \in InkOf(text, Whole(text, b)) :
        \E c \in 1 .. Len(cs) : \E p \in 1 .. Len(cs[c]) : x \in InkOf(text, cs[c][p])

Apart(text, cs) ==
    \A c, d \in 1 .. Len(cs) : \A p \in 1 .. Len(cs[c]), q \in 1 .. Len(cs[d]) :
        \A x \in InkOf(text, cs[c][p]) : x \in InkOf(text, cs[d][q]) => c = d /\ p = q

Ordered(cs) ==
    \A c, d \in 1 .. Len(cs) : c < d =>
        \A p \in 1 .. Len(cs[c]), q \in 1 .. Len(cs[d]) : cs[c][p].block <= cs[d][q].block

Holds(text, cs, a, z) ==
    /\ cs \in Seq(Seq(Pieces))
    /\ Bounded(text, cs, a, z) /\ Covered(text, cs, a, z) /\ Apart(text, cs) /\ Ordered(cs)

LEMMA InkOfBlock ==
    ASSUME NEW text, NEW p, NEW x \in InkOf(text, p)
    PROVE  x[1] = p.block
  BY DEF InkOf

LEMMA HoldsNone ==
    ASSUME NEW text, NEW a \in Nat
    PROVE  Holds(text, <<>>, a, a)
  <1>1. <<>> \in Seq(Seq(Pieces)) /\ Len(<<>>) = 0
    OBVIOUS
  <1>2. a + 1 .. a = {} /\ 1 .. 0 = {}
    OBVIOUS
  <1> QED
    BY <1>1, <1>2 DEF Holds, Bounded, Covered, Apart, Ordered

\* Chunks of some blocks and then chunks of the next are chunks of all of them.
LEMMA HoldsTogether ==
    ASSUME NEW text, NEW a \in Nat, NEW m \in Nat, NEW z \in Nat, a <= m, m <= z,
           NEW cs, Holds(text, cs, a, m), NEW ds, Holds(text, ds, m, z)
    PROVE  Holds(text, cs \o ds, a, z)
  <1> DEFINE es == cs \o ds
             n == Len(cs)
             k == Len(ds)
             I(x, c, p) == InkOf(text, x[c][p])
  <1>1. cs \in Seq(Seq(Pieces)) /\ ds \in Seq(Seq(Pieces)) /\ n \in Nat /\ k \in Nat
    BY DEF Holds
  <1>2. /\ es \in Seq(Seq(Pieces)) /\ Len(es) = n + k
        /\ \A c \in 1 .. n + k : es[c] = IF c <= n THEN cs[c] ELSE ds[c - n]
    BY <1>1, PutTogether
  <1>3. /\ \A c \in 1 .. n : \A p \in 1 .. Len(cs[c]) : cs[c][p].block \in a + 1 .. m
        /\ \A c \in 1 .. k : \A p \in 1 .. Len(ds[c]) : ds[c][p].block \in m + 1 .. z
    BY DEF Holds, Bounded
  <1> HIDE DEF es, n, k
  <1>4. \A c \in 1 .. n : c \in 1 .. n + k /\ es[c] = cs[c]
    BY <1>1, <1>2
  <1>5. \A c \in 1 .. k : n + c \in 1 .. n + k /\ es[n + c] = ds[c]
    <2>1. \A c \in 1 .. k : n + c \in 1 .. n + k /\ ~(n + c <= n) /\ (n + c) - n = c
      BY <1>1
    <2> QED
      BY <1>2, <2>1
  <1>6. \A c \in 1 .. n + k : c \in 1 .. n \/ \E d \in 1 .. k : c = n + d
    <2>1. \A c \in 1 .. n + k : c \in 1 .. n \/ (c - n \in 1 .. k /\ c = n + (c - n))
      BY <1>1
    <2> QED
      BY <2>1
  <1>7. Bounded(text, es, a, z)
    <2>1. SUFFICES ASSUME NEW c \in 1 .. n + k
                   PROVE  /\ es[c] # <<>> /\ SizeOf(es[c]) <= MaxChars
                          /\ \A p \in 1 .. Len(es[c]) : /\ es[c][p].block \in a + 1 .. z
                                                        /\ I(es, c, p) \subseteq Ink(text)
      BY <1>2 DEF Bounded
    <2>2. a + 1 .. m \subseteq a + 1 .. z /\ m + 1 .. z \subseteq a + 1 .. z
      OBVIOUS
    <2>3. CASE c \in 1 .. n
      BY <1>4, <2>2, <2>3 DEF Holds, Bounded, n
    <2>4. ASSUME NEW d \in 1 .. k, c = n + d
          PROVE  /\ es[c] # <<>> /\ SizeOf(es[c]) <= MaxChars
                 /\ \A p \in 1 .. Len(es[c]) : /\ es[c][p].block \in a + 1 .. z
                                               /\ I(es, c, p) \subseteq Ink(text)
      <3>1. es[c] = ds[d]
        BY <1>5, <2>4
      <3> QED
        BY <2>2, <3>1 DEF Holds, Bounded, k
    <2> QED
      BY <1>6, <2>3, <2>4
  <1>8. Covered(text, es, a, z)
    <2>1. SUFFICES ASSUME NEW b \in a + 1 .. z, NEW x \in InkOf(text, Whole(text, b))
                   PROVE  \E c \in 1 .. n + k : \E p \in 1 .. Len(es[c]) : x \in I(es, c, p)
      BY <1>2 DEF Covered
    <2>2. CASE b \in a + 1 .. m
      <3>1. PICK c \in 1 .. n : \E p \in 1 .. Len(cs[c]) : x \in I(cs, c, p)
        BY <2>2 DEF Holds, Covered, n
      <3> QED
        BY <1>4, <3>1
    <2>3. CASE b \in m + 1 .. z
      <3>1. PICK c \in 1 .. k : \E p \in 1 .. Len(ds[c]) : x \in I(ds, c, p)
        BY <2>3 DEF Holds, Covered, k
      <3>2. n + c \in 1 .. n + k /\ es[n + c] = ds[c]
        BY <1>5
      <3> QED
        BY <3>1, <3>2
    <2> QED
      BY <2>2, <2>3
  <1>9. Apart(text, es)
    <2>1. SUFFICES ASSUME NEW c \in 1 .. n + k, NEW d \in 1 .. n + k,
                          NEW p \in 1 .. Len(es[c]), NEW q \in 1 .. Len(es[d]),
                          NEW x \in I(es, c, p), x \in I(es, d, q)
                   PROVE  c = d /\ p = q
      BY <1>2 DEF Apart
    <2>2. es[c][p].block = es[d][q].block
      BY <2>1, InkOfBlock
    <2>3. CASE c \in 1 .. n /\ d \in 1 .. n
      <3>1. es[c] = cs[c] /\ es[d] = cs[d]
        BY <1>4, <2>3
      <3>2. /\ c \in 1 .. Len(cs) /\ d \in 1 .. Len(cs)
            /\ p \in 1 .. Len(cs[c]) /\ q \in 1 .. Len(cs[d])
            /\ x \in I(cs, c, p) /\ x \in I(cs, d, q)
        BY <2>1, <2>3, <3>1 DEF n
      <3>3. Apart(text, cs)
        BY DEF Holds
      <3> QED
        BY <3>2, <3>3 DEF Apart
    <2>4. ASSUME NEW e \in 1 .. k, c = n + e, NEW f \in 1 .. k, d = n + f
          PROVE  c = d /\ p = q
      <3>1. es[c] = ds[e] /\ es[d] = ds[f]
        BY <1>5, <2>4
      <3>2. e = f /\ p = q
        BY <2>1, <3>1 DEF Holds, Apart, k
      <3> QED
        BY <2>4, <3>2
    <2>5. ASSUME NEW f \in 1 .. k, NEW u \in 1 .. n, NEW r \in 1 .. Len(cs[u]),
                 NEW t \in 1 .. Len(ds[f])
          PROVE  cs[u][r].block # ds[f][t].block
      <3> DEFINE v == cs[u][r].block
                 w == ds[f][t].block
      <3>1. v \in a + 1 .. m /\ w \in m + 1 .. z
        BY <1>3
      <3> HIDE DEF v, w
      <3>2. v # w
        BY <3>1
      <3> QED
        BY <3>2 DEF v, w
    <2>6. ASSUME c \in 1 .. n, NEW f \in 1 .. k, d = n + f
          PROVE  FALSE
      <3>1. es[c] = cs[c] /\ es[d] = ds[f]
        BY <1>4, <1>5, <2>6
      <3>2. p \in 1 .. Len(cs[c]) /\ q \in 1 .. Len(ds[f])
        BY <2>1, <3>1
      <3>3. cs[c][p].block # ds[f][q].block
        BY <2>5, <2>6, <3>2
      <3> QED
        BY <2>2, <3>1, <3>3
    <2>7. ASSUME d \in 1 .. n, NEW f \in 1 .. k, c = n + f
          PROVE  FALSE
      <3>1. es[d] = cs[d] /\ es[c] = ds[f]
        BY <1>4, <1>5, <2>7
      <3>2. q \in 1 .. Len(cs[d]) /\ p \in 1 .. Len(ds[f])
        BY <2>1, <3>1
      <3>3. cs[d][q].block # ds[f][p].block
        BY <2>5, <2>7, <3>2
      <3> QED
        BY <2>2, <3>1, <3>3
    <2> QED
      BY <1>6, <2>3, <2>4, <2>6, <2>7
  <1>10. Ordered(es)
    <2>1. SUFFICES ASSUME NEW c \in 1 .. n + k, NEW d \in 1 .. n + k, c < d,
                          NEW p \in 1 .. Len(es[c]), NEW q \in 1 .. Len(es[d])
                   PROVE  es[c][p].block <= es[d][q].block
      BY <1>2 DEF Ordered
    <2>2. CASE c \in 1 .. n /\ d \in 1 .. n
      BY <1>4, <2>1, <2>2 DEF Holds, Ordered, n
    <2>3. ASSUME NEW e \in 1 .. k, c = n + e, NEW f \in 1 .. k, d = n + f
          PROVE  es[c][p].block <= es[d][q].block
      <3>1. es[c] = ds[e] /\ es[d] = ds[f] /\ e < f
        BY <1>1, <1>5, <2>1, <2>3
      <3> QED
        BY <3>1 DEF Holds, Ordered, k
    <2>4. ASSUME c \in 1 .. n, NEW f \in 1 .. k, d = n + f
          PROVE  es[c][p].block <= es[d][q].block
      <3>1. es[c] = cs[c] /\ es[d] = ds[f]
        BY <1>4, <1>5, <2>4
      <3>2. es[c][p].block \in a + 1 .. m /\ es[d][q].block \in m + 1 .. z
        BY <1>3, <2>4, <3>1
      <3> DEFINE v == es[c][p].block
                 w == es[d][q].block
      <3>3. v \in a + 1 .. m /\ w \in m + 1 .. z
        BY <3>2
      <3> HIDE DEF v, w
      <3>4. v <= w
        BY <3>3
      <3> QED
        BY <3>4 DEF v, w
    <2>5. ASSUME d \in 1 .. n, NEW e \in 1 .. k, c = n + e
          PROVE  FALSE
      BY <1>1, <2>1, <2>5
    <2> QED
      BY <1>6, <2>2, <2>3, <2>4, <2>5
  <1> QED
    BY <1>2, <1>7, <1>8, <1>9, <1>10 DEF Holds, es

\* SizeOf of one piece is the piece's.
LEMMA SizeOfOne ==
    ASSUME NEW p \in Pieces
    PROVE  SizeOf(<<p>>) = p.to - p.from
  <1> DEFINE one == <<p>>
             IsSize(f) == f = [i \in 0 .. Len(one) |->
                                  IF i = 0 THEN 2 * (Len(one) - 1)
                                  ELSE f[i - 1] + one[i].to - one[i].from]
  <1>1. Len(one) = 1 /\ one[1] = p /\ p.to \in Nat /\ p.from \in Nat
    BY DEF Pieces
  <1> HIDE DEF one
  <1>2. \E f : IsSize(f)
    <2> DEFINE g == [i \in 0 .. 1 |-> IF i = 0 THEN 0 ELSE 0 + p.to - p.from]
    <2>1. \A i \in 0 .. 1 : i = 0 \/ i = 1
      OBVIOUS
    <2>2. g[0] = 0 /\ g[1] = 0 + p.to - p.from
      OBVIOUS
    <2>3. IsSize(g)
      BY <1>1, <2>1, <2>2
    <2> QED
      BY <2>3
  <1> DEFINE f == CHOOSE f : IsSize(f)
  <1>3. IsSize(f)
    BY <1>2
  <1>4. SizeOf(one) = f[Len(one)]
    BY DEF SizeOf
  <1> HIDE DEF f
  <1>5. f[0] = 0 /\ f[1] = f[0] + one[1].to - one[1].from
    BY <1>1, <1>3
  <1> QED
    BY <1>1, <1>4, <1>5 DEF one

LEMMA BlockIs ==
    ASSUME NEW text \in Seq(Block), NEW b \in 1 .. Len(text)
    PROVE  /\ text[b].size \in Nat /\ text[b].size >= 1 /\ text[b].level \in 0 .. 6
           /\ Whole(text, b) = [block |-> b, from |-> 0, to |-> text[b].size]
           /\ Whole(text, b) \in Pieces /\ InkOf(text, Whole(text, b)) \subseteq Ink(text)
  <1>1. text[b] \in Block /\ b \in Nat /\ b \in DOMAIN text
    OBVIOUS
  <1>2. /\ text[b].size \in Nat /\ text[b].size >= 1 /\ text[b].level \in 0 .. 6
        /\ text[b].title \in STRING
    BY <1>1 DEF Block
  <1>3. Whole(text, b) = [block |-> b, from |-> 0, to |-> text[b].size]
    BY DEF Whole, Piece
  <1>4. Whole(text, b) \in Pieces
    BY <1>1, <1>2, <1>3 DEF Pieces
  <1>5. InkOf(text, Whole(text, b)) \subseteq Ink(text)
    BY <1>1 DEF Ink
  <1> QED
    BY <1>2, <1>3, <1>4, <1>5

\* Whole blocks that are not too long together are one chunk.
WholesOf(text, a, z) == [i \in 1 .. z - a |-> Whole(text, a + i)]

LEMMA WholesAre ==
    ASSUME NEW text \in Seq(Block), NEW a \in Nat, NEW z \in Nat, a <= z, z <= Len(text)
    PROVE  /\ WholesOf(text, a, z) \in Seq(Pieces) /\ Len(WholesOf(text, a, z)) = z - a
           /\ \A i \in 1 .. z - a : /\ WholesOf(text, a, z)[i] = Whole(text, a + i)
                                    /\ a + i \in a + 1 .. z /\ a + i \in 1 .. Len(text)
  <1>1. \A i \in 1 .. z - a : a + i \in a + 1 .. z /\ a + i \in 1 .. Len(text)
    OBVIOUS
  <1>2. \A i \in 1 .. z - a : Whole(text, a + i) \in Pieces
    BY <1>1, BlockIs
  <1>3. z - a \in Nat
    OBVIOUS
  <1> QED
    BY <1>1, <1>2, <1>3 DEF WholesOf

LEMMA HoldsWholes ==
    ASSUME NEW text \in Seq(Block), NEW a \in Nat, NEW z \in Nat, a < z, z <= Len(text),
           SizeOf(WholesOf(text, a, z)) <= MaxChars
    PROVE  Holds(text, <<WholesOf(text, a, z)>>, a, z)
  <1> DEFINE w == WholesOf(text, a, z)
             cs == <<w>>
             n == z - a
  <1>1. /\ w \in Seq(Pieces) /\ Len(w) = n /\ n \in Nat /\ n >= 1
        /\ \A i \in 1 .. n : w[i] = Whole(text, a + i) /\ a + i \in a + 1 .. z
                             /\ a + i \in 1 .. Len(text)
    <2>1. n \in Nat /\ n >= 1 /\ a <= z
      OBVIOUS
    <2> QED
      BY <2>1, WholesAre
  <1>2. ASSUME NEW i \in 1 .. n
        PROVE  w[i].block = a + i /\ InkOf(text, w[i]) \subseteq Ink(text)
    <2>1. w[i] = Whole(text, a + i) /\ a + i \in 1 .. Len(text)
      BY <1>1
    <2> DEFINE b == a + i
    <2> HIDE DEF b, w
    <2>2. w[i] = [block |-> b, from |-> 0, to |-> text[b].size]
          /\ InkOf(text, w[i]) \subseteq Ink(text)
      BY <2>1, BlockIs DEF b
    <2> QED
      BY <2>2 DEF b
  <1>3. cs \in Seq(Seq(Pieces)) /\ Len(cs) = 1 /\ cs[1] = w /\ w # <<>>
    BY <1>1
  <1>4. \A c \in 1 .. 1 : c = 1
    OBVIOUS
  <1>5. SizeOf(w) <= MaxChars
    OBVIOUS
  <1> HIDE DEF w, cs, n
  <1>6. Bounded(text, cs, a, z)
    BY <1>1, <1>2, <1>3, <1>4, <1>5 DEF Bounded
  <1>7. Covered(text, cs, a, z)
    <2>1. SUFFICES ASSUME NEW b \in a + 1 .. z, NEW x \in InkOf(text, Whole(text, b))
                   PROVE  \E c \in 1 .. Len(cs) : \E p \in 1 .. Len(cs[c]) :
                             x \in InkOf(text, cs[c][p])
      BY DEF Covered
    <2>2. b - a \in 1 .. n /\ a + (b - a) = b
      BY DEF n
    <2>3. w[b - a] = Whole(text, b)
      BY <1>1, <2>2
    <2>4. 1 \in 1 .. Len(cs) /\ b - a \in 1 .. Len(cs[1]) /\ x \in InkOf(text, cs[1][b - a])
      BY <1>1, <1>3, <2>2, <2>3
    <2> QED
      BY <2>4
  <1>8. Apart(text, cs)
    <2>1. SUFFICES ASSUME NEW p \in 1 .. n, NEW q \in 1 .. n,
                          NEW x \in InkOf(text, w[p]), x \in InkOf(text, w[q])
                   PROVE  p = q
      BY <1>1, <1>3, <1>4 DEF Apart
    <2>2. a + p = a + q
      BY <1>2, <2>1, InkOfBlock
    <2> QED
      BY <2>2
  <1>9. Ordered(cs)
    BY <1>3, <1>4 DEF Ordered
  <1> QED
    BY <1>3, <1>6, <1>7, <1>8, <1>9 DEF Holds, cs, w

-----------------------------------------------------------------------------
(* A paragraph longer than a chunk.                                        *)

LEMMA Greatest ==
    ASSUME NEW S \in SUBSET Nat, S # {}, NEW n \in Nat, \A k \in S : k <= n
    PROVE  Max(S) \in S /\ \A k \in S : k <= Max(S)
  <1> DEFINE T == {n - k : k \in S}
  <1>1. T \in SUBSET Nat /\ T # {}
    <2>1. \A k \in S : n - k \in Nat
      OBVIOUS
    <2>2. PICK k \in S : TRUE
      OBVIOUS
    <2>3. n - k \in T
      BY <2>2
    <2> QED
      BY <2>1, <2>3
  <1>2. PICK t \in T : \A u \in T : t <= u
    BY <1>1, LeastNumber
  <1>3. PICK m \in S : t = n - m
    BY <1>2
  <1>4. \A k \in S : k <= m
    <2>1. \A k \in S : n - m <= n - k
      BY <1>2, <1>3
    <2> QED
      BY <2>1
  <1>5. \E k \in S : \A j \in S : k >= j
    BY <1>4
  <1> DEFINE g == CHOOSE k \in S : \A j \in S : k >= j
  <1>6. g \in S /\ \A j \in S : g >= j
    BY <1>5
  <1> QED
    BY <1>6 DEF Max

LEMMA Smallest ==
    ASSUME NEW S \in SUBSET Nat, S # {}
    PROVE  Min(S) \in S /\ \A k \in S : Min(S) <= k
  <1>1. \E k \in S : \A j \in S : k <= j
    BY LeastNumber
  <1> QED
    BY <1>1 DEF Min

LEMMA CutCuts ==
    ASSUME NEW text \in Seq(Block), NEW b \in 1 .. Len(text), NEW start \in Nat,
           start < text[b].size
    PROVE  /\ Cut(text, b, start) \in Nat /\ start < Cut(text, b, start)
           /\ Cut(text, b, start) <= text[b].size /\ Cut(text, b, start) - start <= MaxChars
  <1> DEFINE size == text[b].size
             end == start + MaxChars
             half == start + MaxChars \div 2
             blank == {i \in text[b].blanks : half < i /\ i < end}
  <1>1. MaxChars \in Nat /\ MaxChars >= 1
    BY DocumentsAssumption
  <1>2. size \in Nat
    BY BlockIs
  <1>3. end \in Nat /\ end > start /\ half \in Nat /\ half >= start
    BY <1>1
  <1>4. text[b].blanks \subseteq Nat
    <2>1. text[b] \in Block
      OBVIOUS
    <2> QED
      BY <2>1 DEF Block
  <1>5. Cut(text, b, start) = IF end >= size THEN size
                              ELSE IF blank = {} THEN end ELSE Max(blank)
    BY DEF Cut
  <1>6. ASSUME blank # {}
        PROVE  Max(blank) \in Nat /\ half < Max(blank) /\ Max(blank) < end
    <2>1. blank \in SUBSET Nat /\ \A k \in blank : k <= end
      BY <1>3, <1>4
    <2>2. Max(blank) \in blank
      <3> HIDE DEF blank, end
      <3> QED
        BY <1>3, <1>6, <2>1, Greatest
    <2> QED
      BY <1>4, <2>2
  <1>7. start < size
    OBVIOUS
  <1>8. end - start = MaxChars
    BY <1>1
  <1> HIDE DEF size, end, half, blank
  <1>9. CASE end >= size
    BY <1>1, <1>2, <1>3, <1>5, <1>7, <1>8, <1>9 DEF size
  <1>10. CASE ~(end >= size) /\ blank = {}
    BY <1>1, <1>2, <1>3, <1>5, <1>7, <1>8, <1>10 DEF size
  <1>11. CASE ~(end >= size) /\ blank # {}
    <2> DEFINE m == Max(blank)
    <2>1. m \in Nat /\ half < m /\ m < end
      BY <1>6, <1>11
    <2>2. Cut(text, b, start) = m
      BY <1>5, <1>11
    <2> HIDE DEF m
    <2>3. m \in Nat /\ start < m /\ m <= size /\ m - start <= MaxChars
      BY <1>1, <1>2, <1>3, <1>8, <1>11, <2>1
    <2> QED
      BY <2>2, <2>3 DEF size
  <1> QED
    BY <1>9, <1>10, <1>11

\* The characters of b from one to another that are not blank.
InkIn(text, b, from, to) == {b} \X ((from .. to - 1) \ text[b].blanks)

\* Chunks of one piece each hold block b from a character on.
HoldsFrom(text, cs, b, start) ==
    /\ cs \in Seq(Seq(Pieces))
    /\ \A c \in 1 .. Len(cs) :
          /\ Len(cs[c]) = 1 /\ cs[c][1].block = b /\ cs[c][1].to - cs[c][1].from <= MaxChars
          /\ InkOf(text, cs[c][1]) \subseteq InkIn(text, b, start, text[b].size)
    /\ \A x \in InkIn(text, b, start, text[b].size) :
          \E c \in 1 .. Len(cs) : x \in InkOf(text, cs[c][1])
    /\ \A c, d \in 1 .. Len(cs) : \A x \in InkOf(text, cs[c][1]) :
          x \in InkOf(text, cs[d][1]) => c = d

LEMMA StrippedDoes ==
    ASSUME NEW text \in Seq(Block), NEW b \in 1 .. Len(text), NEW from \in Nat, NEW to \in Nat,
           from < to, to <= text[b].size, to - from <= MaxChars
    PROVE  \/ Stripped(text, b, from, to) = <<>> /\ InkIn(text, b, from, to) = {}
           \/ \E p \in Pieces : /\ Stripped(text, b, from, to) = <<<<p>>>>
                                /\ p.block = b /\ p.to - p.from <= MaxChars
                                /\ InkOf(text, p) = InkIn(text, b, from, to)
  <1> DEFINE kept == (from .. to - 1) \ text[b].blanks
  <1>1. kept \in SUBSET Nat /\ \A k \in kept : k <= to
    OBVIOUS
  <1>2. CASE kept = {}
    BY <1>2 DEF Stripped, InkIn
  <1>3. CASE kept # {}
    <2> DEFINE lo == Min(kept)
               hi == Max(kept)
               p == [block |-> b, from |-> lo, to |-> hi + 1]
    <2>1. lo \in kept /\ \A k \in kept : lo <= k
      <3> HIDE DEF kept
      <3> QED
        BY <1>1, <1>3, Smallest
    <2>2. hi \in kept /\ \A k \in kept : k <= hi
      <3> HIDE DEF kept
      <3> QED
        BY <1>1, <1>3, Greatest
    <2>3. Stripped(text, b, from, to) = <<<<p>>>>
      BY <1>3 DEF Stripped, Piece
    <2> HIDE DEF lo, hi
    <2>4. lo \in from .. to - 1 /\ hi \in from .. to - 1
      BY <2>1, <2>2
    <2>5. p \in Pieces
      BY <2>4 DEF Pieces
    <2>6. p.to - p.from <= MaxChars
      <3>1. hi + 1 - lo <= to - from
        BY <2>4
      <3>2. MaxChars \in Nat
        BY DocumentsAssumption
      <3> QED
        BY <2>4, <3>1, <3>2
    <2>7. (lo .. hi) \ text[b].blanks = kept
      BY <2>1, <2>2, <2>4
    <2>8. InkOf(text, p) = InkIn(text, b, from, to)
      <3>1. p.block = b /\ p.from = lo /\ p.to - 1 = hi
        BY <2>4
      <3> HIDE DEF p
      <3> QED
        BY <2>7, <3>1 DEF InkOf, InkIn
    <2> QED
      BY <2>3, <2>5, <2>6, <2>8
  <1> QED
    BY <1>2, <1>3

IsLong(f, text, b) ==
    f = [start \in 0 .. text[b].size |->
            IF start = text[b].size THEN <<>>
            ELSE LET end == Cut(text, b, start) IN Stripped(text, b, start, end) \o f[end]]

LEMMA LongExists ==
    ASSUME NEW text \in Seq(Block), NEW b \in 1 .. Len(text)
    PROVE  \E f : IsLong(f, text, b)
  <1> DEFINE n == text[b].size
             Piece1(start) == Stripped(text, b, start, Cut(text, b, start))
             Does(f, k) == \A start \in 0 .. n : n - start <= k =>
                              f[start] = IF start = n THEN <<>>
                                         ELSE Piece1(start) \o f[Cut(text, b, start)]
             N == {k \in Nat : \E f : Does(f, k)}
  <1>1. n \in Nat
    BY BlockIs
  <1>2. \A start \in 0 .. n : start # n =>
           Cut(text, b, start) \in 0 .. n /\ start < Cut(text, b, start)
    BY <1>1, CutCuts
  <1> HIDE DEF n, Piece1
  <1>3. 0 \in N
    <2> DEFINE g == [start \in 0 .. n |-> <<>>]
    <2>1. Does(g, 0)
      BY <1>1
    <2> QED
      BY <2>1
  <1>4. ASSUME NEW k \in Nat, k \in N
        PROVE  k + 1 \in N
    <2>1. PICK f : Does(f, k)
      BY <1>4
    <2> DEFINE g == [start \in 0 .. n |->
                        IF n - start <= k THEN f[start]
                        ELSE Piece1(start) \o f[Cut(text, b, start)]]
    <2>2. ASSUME NEW start \in 0 .. n, n - start <= k + 1
          PROVE  g[start] = IF start = n THEN <<>>
                            ELSE Piece1(start) \o g[Cut(text, b, start)]
      <3>1. CASE start = n
        BY <1>1, <2>1, <3>1
      <3>2. CASE start # n
        <4> DEFINE e == Cut(text, b, start)
        <4>1. e \in 0 .. n /\ start < e
          BY <1>2, <3>2
        <4> HIDE DEF e
        <4>2. n - e <= k
          BY <1>1, <2>2, <4>1
        <4>3. g[e] = f[e]
          BY <4>1, <4>2
        <4>4. g[start] = Piece1(start) \o f[e]
          BY <2>1, <3>2 DEF e
        <4> QED
          BY <3>2, <4>3, <4>4 DEF e
      <3> QED
        BY <3>1, <3>2
    <2>3. Does(g, k + 1)
      BY <2>2
    <2> HIDE DEF g
    <2> QED
      BY <2>3
  <1>5. n \in N
    <2> HIDE DEF N
    <2> QED
      BY <1>1, <1>3, <1>4, Induct
  <1>6. PICK f : Does(f, n)
    BY <1>5
  <1> DEFINE h == [start \in 0 .. n |-> f[start]]
  <1>7. ASSUME NEW start \in 0 .. n
        PROVE  h[start] = IF start = n THEN <<>>
                          ELSE Piece1(start) \o h[Cut(text, b, start)]
    <2>1. n - start <= n
      BY <1>1
    <2> QED
      BY <1>2, <1>6, <2>1
  <1>8. h = [start \in 0 .. n |-> IF start = n THEN <<>>
                                  ELSE Piece1(start) \o h[Cut(text, b, start)]]
    BY <1>7
  <1>9. IsLong(h, text, b)
    BY <1>8 DEF IsLong, n, Piece1
  <1> QED
    BY <1>9

\* One chunk more before those of the rest.
LEMMA FromTogether ==
    ASSUME NEW text \in Seq(Block), NEW b \in 1 .. Len(text),
           NEW start \in Nat, NEW end \in Nat, start < end, end <= text[b].size,
           end - start <= MaxChars, NEW ds, HoldsFrom(text, ds, b, end)
    PROVE  HoldsFrom(text, Stripped(text, b, start, end) \o ds, b, start)
  <1> DEFINE size == text[b].size
             cs == Stripped(text, b, start, end)
             all == InkIn(text, b, start, size)
             now == InkIn(text, b, start, end)
             later == InkIn(text, b, end, size)
             k == Len(ds)
  <1>1. size \in Nat
    BY BlockIs
  <1>2. all = now \cup later /\ \A x \in now : x \notin later
    <2> HIDE DEF size
    <2>1. (start .. size - 1) = (start .. end - 1) \cup (end .. size - 1)
      BY <1>1 DEF size
    <2>2. \A i \in start .. end - 1 : i \notin end .. size - 1
      OBVIOUS
    <2> QED
      BY <2>1, <2>2 DEF InkIn
  <1>3. /\ ds \in Seq(Seq(Pieces)) /\ k \in Nat
        /\ \A c \in 1 .. k : /\ Len(ds[c]) = 1 /\ ds[c][1].block = b
                             /\ ds[c][1].to - ds[c][1].from <= MaxChars
                             /\ InkOf(text, ds[c][1]) \subseteq later
        /\ \A x \in later : \E c \in 1 .. k : x \in InkOf(text, ds[c][1])
        /\ \A c, d \in 1 .. k : \A x \in InkOf(text, ds[c][1]) :
              x \in InkOf(text, ds[d][1]) => c = d
    <2>1. ds \in Seq(Seq(Pieces))
      BY DEF HoldsFrom
    <2>2. k \in Nat
      BY <2>1
    <2> HIDE DEF all, now, cs
    <2>3. /\ \A c \in 1 .. k : /\ Len(ds[c]) = 1 /\ ds[c][1].block = b
                               /\ ds[c][1].to - ds[c][1].from <= MaxChars
                               /\ InkOf(text, ds[c][1]) \subseteq later
          /\ \A x \in later : \E c \in 1 .. k : x \in InkOf(text, ds[c][1])
          /\ \A c, d \in 1 .. k : \A x \in InkOf(text, ds[c][1]) :
                x \in InkOf(text, ds[d][1]) => c = d
      BY Zenon DEF HoldsFrom
    <2> QED
      BY <2>1, <2>2, <2>3
  <1>4. CASE cs = <<>> /\ now = {}
    <2>1. cs \o ds = ds
      BY <1>3, <1>4
    <2>2. all = later
      BY <1>2, <1>4
    <2> HIDE DEF cs, all, later, now, k
    <2>3. HoldsFrom(text, ds, b, start)
      BY <1>3, <2>2 DEF HoldsFrom, all, k
    <2> QED
      BY <2>1, <2>3 DEF cs
  <1>5. ASSUME NEW p \in Pieces, cs = <<<<p>>>>, p.block = b, p.to - p.from <= MaxChars,
               InkOf(text, p) = now
        PROVE  HoldsFrom(text, cs \o ds, b, start)
    <2> DEFINE one == <<p>>
               es == cs \o ds
    <2>1. one \in Seq(Pieces) /\ Len(one) = 1 /\ one[1] = p /\ cs = <<one>>
      BY <1>5
    <2> HIDE DEF one, cs, k, all, now, later
    <2>2. cs \in Seq(Seq(Pieces)) /\ Len(cs) = 1 /\ cs[1] = one
      BY <2>1
    <2>3. /\ es \in Seq(Seq(Pieces)) /\ Len(es) = Len(cs) + Len(ds)
          /\ \A c \in 1 .. Len(cs) + Len(ds) :
                es[c] = IF c <= Len(cs) THEN cs[c] ELSE ds[c - Len(cs)]
      <3>1. ds \in Seq(Seq(Pieces)) /\ cs \in Seq(Seq(Pieces))
        BY <1>3, <2>2
      <3> QED
        BY <3>1, PutTogether
    <2> HIDE DEF es
    <2>4. Len(es) = 1 + k /\ \A c \in 1 .. 1 + k : es[c] = IF c <= 1 THEN cs[c] ELSE ds[c - 1]
      BY <2>2, <2>3 DEF k
    <2>5. 1 \in 1 .. 1 + k /\ es[1] = one
      BY <1>3, <2>2, <2>4
    <2>6. \A c \in 1 .. k : 1 + c \in 1 .. 1 + k /\ es[1 + c] = ds[c]
      <3>1. \A c \in 1 .. k : 1 + c \in 1 .. 1 + k /\ ~(1 + c <= 1) /\ (1 + c) - 1 = c
        BY <1>3
      <3> QED
        BY <2>4, <3>1
    <2>7. \A c \in 1 .. 1 + k : c = 1 \/ \E d \in 1 .. k : c = 1 + d
      <3>1. \A c \in 1 .. 1 + k : c = 1 \/ (c - 1 \in 1 .. k /\ c = 1 + (c - 1))
        BY <1>3
      <3> QED
        BY <3>1
    <2>8. ASSUME NEW c \in 1 .. 1 + k
          PROVE  /\ Len(es[c]) = 1 /\ es[c][1].block = b
                 /\ es[c][1].to - es[c][1].from <= MaxChars
                 /\ InkOf(text, es[c][1]) \subseteq all
      <3>1. CASE c = 1
        BY <1>2, <1>5, <2>1, <2>5, <3>1
      <3>2. ASSUME NEW d \in 1 .. k, c = 1 + d
            PROVE  /\ Len(es[c]) = 1 /\ es[c][1].block = b
                   /\ es[c][1].to - es[c][1].from <= MaxChars
                   /\ InkOf(text, es[c][1]) \subseteq all
        <4>1. es[c] = ds[d]
          BY <2>6, <3>2
        <4> QED
          BY <1>2, <1>3, <4>1
      <3> QED
        BY <2>7, <3>1, <3>2
    <2>9. ASSUME NEW x \in all
          PROVE  \E c \in 1 .. 1 + k : x \in InkOf(text, es[c][1])
      <3>1. CASE x \in now
        BY <1>5, <2>1, <2>5, <3>1
      <3>2. CASE x \in later
        <4>1. PICK c \in 1 .. k : x \in InkOf(text, ds[c][1])
          BY <1>3, <3>2
        <4>2. 1 + c \in 1 .. 1 + k /\ es[1 + c] = ds[c]
          BY <2>6
        <4> QED
          BY <4>1, <4>2
      <3> QED
        BY <1>2, <3>1, <3>2
    <2>10. ASSUME NEW c \in 1 .. 1 + k, NEW d \in 1 .. 1 + k,
                  NEW x \in InkOf(text, es[c][1]), x \in InkOf(text, es[d][1])
           PROVE  c = d
      <3>1. ASSUME NEW e \in 1 .. k, NEW y \in InkOf(text, es[1 + e][1])
            PROVE  y \in later
        BY <1>3, <2>6, <3>1
      <3>2. ASSUME NEW y \in InkOf(text, es[1][1])
            PROVE  y \notin later
        BY <1>2, <1>5, <2>1, <2>5, <3>2
      <3>3. ASSUME NEW e \in 1 .. k, c = 1 + e, NEW f \in 1 .. k, d = 1 + f
            PROVE  c = d
        <4>1. x \in InkOf(text, ds[e][1]) /\ x \in InkOf(text, ds[f][1])
          BY <2>6, <2>10, <3>3
        <4>2. e = f
          BY <1>3, <4>1
        <4> QED
          BY <3>3, <4>2
      <3> QED
        BY <2>7, <2>10, <3>1, <3>2, <3>3
    <2> QED
      BY <2>3, <2>4, <2>8, <2>9, <2>10 DEF HoldsFrom, es, all, size
  <1> QED
    BY <1>4, <1>5, StrippedDoes

\* A long paragraph is held as a whole.
LEMMA LongChunksHold ==
    ASSUME NEW text \in Seq(Block), NEW b \in 1 .. Len(text), NEW a \in Nat, b = a + 1
    PROVE  Holds(text, LongChunks(text, b), a, b)
  <1> DEFINE n == text[b].size
             cs == LongChunks(text, b)
  <1>1. n \in Nat
    BY BlockIs
  <1>2. \E f : IsLong(f, text, b)
    BY LongExists
  <1> DEFINE f == CHOOSE f : IsLong(f, text, b)
  <1>3. IsLong(f, text, b)
    BY <1>2
  <1>4. cs = f[0]
    BY DEF LongChunks, IsLong
  <1> HIDE DEF f, n, cs
  <1>5. \A start \in 0 .. n :
           f[start] = IF start = n THEN <<>>
                      ELSE Stripped(text, b, start, Cut(text, b, start)) \o f[Cut(text, b, start)]
    BY <1>3 DEF IsLong, n
  <1> DEFINE N == {k \in Nat : \A start \in 0 .. n : n - start <= k =>
                                  HoldsFrom(text, f[start], b, start)}
  <1>6. HoldsFrom(text, f[n], b, n)
    <2>1. f[n] = <<>>
      BY <1>1, <1>5
    <2>2. InkIn(text, b, n, n) = {}
      <3>1. n .. n - 1 = {}
        BY <1>1
      <3> QED
        BY <3>1 DEF InkIn
    <2>3. <<>> \in Seq(Seq(Pieces)) /\ 1 .. Len(<<>>) = {}
      OBVIOUS
    <2> QED
      BY <2>1, <2>2, <2>3 DEF HoldsFrom, n
  <1>7. 0 \in N
    <2>1. \A start \in 0 .. n : n - start <= 0 => start = n
      BY <1>1
    <2> QED
      BY <1>6, <2>1
  <1>8. ASSUME NEW k \in Nat, k \in N
        PROVE  k + 1 \in N
    <2>1. SUFFICES ASSUME NEW start \in 0 .. n, n - start <= k + 1
                   PROVE  HoldsFrom(text, f[start], b, start)
      OBVIOUS
    <2>2. CASE start = n
      BY <1>6, <2>2
    <2>3. CASE start # n
      <3> DEFINE end == Cut(text, b, start)
      <3>1. start \in Nat /\ start < n
        BY <1>1, <2>3
      <3>2. end \in Nat /\ start < end /\ end <= n /\ end - start <= MaxChars
        BY <3>1, CutCuts DEF n
      <3>3. f[start] = Stripped(text, b, start, end) \o f[end]
        BY <1>5, <2>3
      <3> HIDE DEF end
      <3>4. end \in 0 .. n /\ n - end <= k
        BY <1>1, <2>1, <3>1, <3>2
      <3>5. HoldsFrom(text, f[end], b, end)
        BY <1>8, <3>4
      <3> QED
        BY <3>1, <3>2, <3>3, <3>5, FromTogether DEF n
    <2> QED
      BY <2>2, <2>3
  <1>9. n \in N
    <2> HIDE DEF N
    <2> QED
      BY <1>1, <1>7, <1>8, Induct
  <1>10. HoldsFrom(text, cs, b, 0)
    <2>1. 0 \in 0 .. n /\ n - 0 <= n
      BY <1>1
    <2> QED
      BY <1>4, <1>9, <2>1
  <1>11. InkOf(text, Whole(text, b)) = InkIn(text, b, 0, n)
    BY BlockIs DEF InkOf, InkIn, n
  <1>12. /\ cs \in Seq(Seq(Pieces))
         /\ \A c \in 1 .. Len(cs) : /\ Len(cs[c]) = 1 /\ cs[c][1].block = b
                                    /\ cs[c][1].to - cs[c][1].from <= MaxChars
                                    /\ InkOf(text, cs[c][1]) \subseteq InkIn(text, b, 0, n)
         /\ \A x \in InkIn(text, b, 0, n) : \E c \in 1 .. Len(cs) : x \in InkOf(text, cs[c][1])
         /\ \A c, d \in 1 .. Len(cs) : \A x \in InkOf(text, cs[c][1]) :
               x \in InkOf(text, cs[d][1]) => c = d
    BY <1>10 DEF HoldsFrom, n
  <1>13. ASSUME NEW c \in 1 .. Len(cs)
         PROVE  /\ cs[c] # <<>> /\ SizeOf(cs[c]) <= MaxChars
                /\ \A p \in 1 .. Len(cs[c]) : p = 1
    <2> DEFINE w == cs[c]
    <2>1. w \in Seq(Pieces) /\ Len(w) = 1 /\ w[1].to - w[1].from <= MaxChars
      BY <1>12
    <2> HIDE DEF w
    <2>2. w[1] \in Pieces /\ w = <<w[1]>> /\ w # <<>>
      <3>1. w[1] \in Pieces /\ w # <<>>
        <4>1. w \in Seq(Pieces) /\ 1 \in 1 .. Len(w)
          BY <2>1
        <4>2. w = <<>> => Len(w) = 0
          OBVIOUS
        <4> QED
          BY <2>1, <4>1, <4>2
      <3> DEFINE one == <<w[1]>>
      <3>2. one \in Seq(Pieces) /\ Len(one) = 1 /\ one[1] = w[1]
        BY <3>1
      <3> HIDE DEF one
      <3>3. w = one
        BY <2>1, <3>2
      <3> QED
        BY <3>1, <3>3 DEF one
    <2>3. SizeOf(w) = w[1].to - w[1].from
      BY <2>2, SizeOfOne
    <2>4. \A p \in 1 .. Len(w) : p = 1
      BY <2>1
    <2> QED
      BY <2>1, <2>2, <2>3, <2>4 DEF w
  <1>14. a + 1 .. b = {b} /\ b \in Nat
    OBVIOUS
  <1>15. Bounded(text, cs, a, b)
    <2>1. \A c \in 1 .. Len(cs) : InkOf(text, cs[c][1]) \subseteq Ink(text)
      BY <1>11, <1>12, BlockIs
    <2> QED
      BY <1>12, <1>13, <1>14, <2>1 DEF Bounded
  <1>16. Covered(text, cs, a, b)
    <2>1. \A c \in 1 .. Len(cs) : 1 \in 1 .. Len(cs[c])
      BY <1>12
    <2> QED
      BY <1>11, <1>12, <1>14, <2>1 DEF Covered
  <1>17. Apart(text, cs)
    BY <1>12, <1>13 DEF Apart
  <1>18. Ordered(cs)
    BY <1>12, <1>13, <1>14 DEF Ordered
  <1> QED
    BY <1>12, <1>15, <1>16, <1>17, <1>18 DEF Holds, cs

-----------------------------------------------------------------------------
(* The paragraphs of a section.                                            *)

IsPacks(f, text, blocks, n) ==
    f = [i \in 0 .. n |-> IF i = 0 THEN [out |-> <<>>, chunk |-> <<>>]
                          ELSE Packed(f[i - 1], text, blocks[i])]

LEMMA PacksExist ==
    ASSUME NEW text, NEW blocks, NEW n \in Nat
    PROVE  \E f : IsPacks(f, text, blocks, n)
  <1> DEFINE N == {k \in Nat : \E f : IsPacks(f, text, blocks, k)}
  <1>1. 0 \in N
    <2>1. IsPacks([i \in 0 .. 0 |-> [out |-> <<>>, chunk |-> <<>>]], text, blocks, 0)
      BY DEF IsPacks
    <2> QED
      BY <2>1
  <1>2. ASSUME NEW k \in Nat, k \in N
        PROVE  k + 1 \in N
    <2>1. PICK f : IsPacks(f, text, blocks, k)
      BY <1>2
    <2> DEFINE g == [i \in 0 .. k + 1 |->
                        IF i <= k THEN f[i] ELSE Packed(f[i - 1], text, blocks[i])]
    <2>2. ASSUME NEW i \in 0 .. k + 1
          PROVE  g[i] = IF i = 0 THEN [out |-> <<>>, chunk |-> <<>>]
                        ELSE Packed(g[i - 1], text, blocks[i])
      <3>1. i # 0 => i - 1 \in 0 .. k /\ g[i - 1] = f[i - 1]
        OBVIOUS
      <3>2. i <= k => f[i] = IF i = 0 THEN [out |-> <<>>, chunk |-> <<>>]
                             ELSE Packed(f[i - 1], text, blocks[i])
        BY <2>1 DEF IsPacks
      <3> QED
        BY <3>1, <3>2
    <2>3. IsPacks(g, text, blocks, k + 1)
      BY <2>2 DEF IsPacks
    <2> QED
      BY <2>3
  <1> QED
    <2> HIDE DEF N
    <2>1. n \in N
      BY <1>1, <1>2, Induct
    <2> QED
      BY <2>1 DEF N

\* What of blocks a + 1 to k is in chunks, and the chunk begun holds the last.
PackInv(text, pack, a, k) ==
    /\ pack = [out |-> pack.out, chunk |-> pack.chunk]
    /\ \E m \in a .. k : /\ Holds(text, pack.out, a, m)
                         /\ pack.chunk = WholesOf(text, m, k)
                         /\ m < k => SizeOf(pack.chunk) <= MaxChars

LEMMA WholesNone ==
    ASSUME NEW text, NEW a \in Nat
    PROVE  WholesOf(text, a, a) = <<>>
  <1>1. 1 .. a - a = {}
    OBVIOUS
  <1> QED
    BY <1>1 DEF WholesOf

LEMMA WholesMore ==
    ASSUME NEW text \in Seq(Block), NEW m \in Nat, NEW k \in Nat, m <= k, k < Len(text)
    PROVE  Append(WholesOf(text, m, k), Whole(text, k + 1)) = WholesOf(text, m, k + 1)
  <1> DEFINE w == WholesOf(text, m, k)
             v == WholesOf(text, m, k + 1)
             x == Whole(text, k + 1)
             n == k - m
  <1>1. /\ w \in Seq(Pieces) /\ Len(w) = n /\ \A i \in 1 .. n : w[i] = Whole(text, m + i)
    <2>1. k <= Len(text)
      OBVIOUS
    <2> QED
      BY <2>1, WholesAre
  <1>2. v \in Seq(Pieces) /\ Len(v) = n + 1 /\ \A i \in 1 .. n + 1 : v[i] = Whole(text, m + i)
    <2> DEFINE e == k + 1
    <2>1. e \in Nat /\ m <= e /\ e <= Len(text) /\ e - m = n + 1
      OBVIOUS
    <2> HIDE DEF n, e
    <2>2. v = WholesOf(text, m, e)
      BY DEF v, e
    <2>3. /\ WholesOf(text, m, e) \in Seq(Pieces) /\ Len(WholesOf(text, m, e)) = e - m
          /\ \A i \in 1 .. e - m : WholesOf(text, m, e)[i] = Whole(text, m + i)
      BY <2>1, WholesAre
    <2> HIDE DEF v
    <2> QED
      BY <2>1, <2>2, <2>3
  <1>3. x \in Pieces
    BY k + 1 \in 1 .. Len(text), BlockIs
  <1>4. n \in Nat /\ m + (n + 1) = k + 1
    OBVIOUS
  <1> HIDE DEF w, v, n
  <1>5. v[n + 1] = x
    BY <1>2, <1>4
  <1> HIDE DEF x
  <1>6. /\ Append(w, x) \in Seq(Pieces) /\ Len(Append(w, x)) = n + 1
        /\ Append(w, x)[n + 1] = x /\ \A i \in 1 .. n : Append(w, x)[i] = w[i]
    BY <1>1, <1>3
  <1> DEFINE u == Append(w, x)
  <1>7. u \in Seq(Pieces) /\ Len(u) = n + 1 /\ u[n + 1] = x /\ \A i \in 1 .. n : u[i] = w[i]
    BY <1>6
  <1> HIDE DEF u
  <1>8. \A i \in 1 .. n + 1 : u[i] = v[i]
    <2>1. \A i \in 1 .. n + 1 : i \in 1 .. n \/ i = n + 1
      BY <1>4
    <2> QED
      BY <1>1, <1>2, <1>5, <1>7, <2>1
  <1>9. u = v
    BY <1>2, <1>7, <1>8
  <1> QED
    BY <1>9 DEF u, v, w, x

LEMMA AppendOne ==
    ASSUME NEW T, NEW s \in Seq(T), NEW x \in T
    PROVE  Append(s, x) = s \o <<x>>
  OBVIOUS

LEMMA PackedInv ==
    ASSUME NEW text \in Seq(Block), NEW a \in Nat, NEW k \in Nat, a <= k, k < Len(text),
           NEW pack, PackInv(text, pack, a, k)
    PROVE  PackInv(text, Packed(pack, text, k + 1), a, k + 1)
  <1> DEFINE b == k + 1
             out == pack.out
             chunk == pack.chunk
             begun == IF chunk = <<>> THEN <<>> ELSE <<chunk>>
             longer == Append(chunk, Whole(text, b))
             size == text[b].size
             long == LongChunks(text, b)
             next == Packed(pack, text, b)
  <1>1. PICK m \in a .. k : /\ Holds(text, out, a, m) /\ chunk = WholesOf(text, m, k)
                            /\ m < k => SizeOf(chunk) <= MaxChars
    BY DEF PackInv
  <1>2. /\ m \in Nat /\ a <= m /\ m <= k /\ k <= Len(text) /\ b \in 1 .. Len(text) /\ b \in Nat
        /\ m <= b /\ a <= b /\ k <= b /\ b <= Len(text)
    OBVIOUS
  <1>3. m = k <=> chunk = <<>>
    <2>1. m = k => chunk = <<>>
      BY <1>1, <1>2, WholesNone
    <2>2. Len(chunk) = k - m
      BY <1>1, <1>2, WholesAre
    <2> QED
      BY <1>2, <2>1, <2>2
  <1>4. Holds(text, begun, m, k)
    <2>1. CASE m = k
      BY <1>2, <1>3, <2>1, HoldsNone
    <2>2. CASE m # k
      <3>1. m < k /\ begun = <<chunk>>
        BY <1>2, <1>3, <2>2
      <3> QED
        BY <1>1, <1>2, <3>1, HoldsWholes
    <2> QED
      BY <2>1, <2>2
  <1>5. longer = WholesOf(text, m, b)
    BY <1>1, <1>2, WholesMore
  <1>6. next = IF size > MaxChars THEN [out |-> out \o begun \o long, chunk |-> <<>>]
               ELSE IF SizeOf(longer) <= MaxChars THEN [pack EXCEPT !.chunk = longer]
               ELSE [out |-> Append(out, chunk), chunk |-> <<Whole(text, b)>>]
    BY DEF Packed
  <1>7. size \in Nat /\ Whole(text, b) \in Pieces
        /\ Whole(text, b) = [block |-> b, from |-> 0, to |-> size]
    BY <1>2, BlockIs
  <1>8. pack = [out |-> out, chunk |-> chunk]
    BY DEF PackInv
  <1>9. Holds(text, long, k, b)
    BY <1>2, LongChunksHold
  <1> HIDE DEF b, out, chunk, begun, longer, size, long, next
  <1>10. CASE size > MaxChars
    <2>1. next.out = out \o begun \o long /\ next.chunk = <<>>
          /\ next = [out |-> next.out, chunk |-> next.chunk]
      BY <1>6, <1>10
    <2>2. Holds(text, out \o begun, a, k)
      BY <1>1, <1>2, <1>4, HoldsTogether
    <2>3. Holds(text, next.out, a, b)
      BY <1>2, <1>9, <2>1, <2>2, HoldsTogether
    <2>4. b \in a .. b /\ next.chunk = WholesOf(text, b, b) /\ ~(b < b)
      BY <1>2, <2>1, WholesNone
    <2> QED
      BY <2>1, <2>3, <2>4 DEF PackInv, b, next
  <1>11. CASE ~(size > MaxChars) /\ SizeOf(longer) <= MaxChars
    <2>1. next = [out |-> out, chunk |-> longer]
      BY <1>6, <1>8, <1>11
    <2>2. m \in a .. b
      BY <1>2
    <2> QED
      BY <1>1, <1>5, <1>11, <2>1, <2>2 DEF PackInv, b, next
  <1>12. CASE ~(size > MaxChars) /\ ~(SizeOf(longer) <= MaxChars)
    <2> DEFINE one == <<Whole(text, b)>>
    <2>1. SizeOf(one) <= MaxChars
      <3>1. SizeOf(one) = size - 0
        BY <1>7, SizeOfOne
      <3>2. MaxChars \in Nat
        BY DocumentsAssumption
      <3> QED
        BY <1>7, <1>12, <3>1, <3>2
    <2>2. one = WholesOf(text, k, b)
      <3>1. Append(WholesOf(text, k, k), Whole(text, b)) = WholesOf(text, k, b)
        BY <1>2, WholesMore DEF b
      <3>2. WholesOf(text, k, k) = <<>>
        BY WholesNone
      <3>3. Append(<<>>, Whole(text, b)) = one
        OBVIOUS
      <3> QED
        BY <3>1, <3>2, <3>3
    <2>3. m # k
      <3>1. SUFFICES ASSUME m = k PROVE FALSE
        OBVIOUS
      <3>2. longer = one
        BY <1>5, <2>2, <3>1
      <3> QED
        BY <1>12, <2>1, <3>2
    <2>4. begun = <<chunk>>
      BY <1>3, <2>3 DEF begun
    <2>5. next = [out |-> Append(out, chunk), chunk |-> one]
      BY <1>6, <1>12
    <2>6. Append(out, chunk) = out \o begun
      <3>1. out \in Seq(Seq(Pieces)) /\ chunk \in Seq(Pieces)
        BY <1>1, <1>2, WholesAre DEF Holds
      <3> QED
        BY <2>4, <3>1
    <2>7. Holds(text, out \o begun, a, k)
      BY <1>1, <1>2, <1>4, HoldsTogether
    <2>8. k \in a .. b
      BY <1>2
    <2> HIDE DEF one
    <2>9. /\ next.out = out \o begun /\ next.chunk = one
          /\ next = [out |-> next.out, chunk |-> next.chunk]
      BY <2>5, <2>6
    <2> QED
      BY <2>1, <2>2, <2>7, <2>8, <2>9 DEF PackInv, b, next
  <1> QED
    BY <1>10, <1>11, <1>12 DEF next, b

BlocksOf(a, z) == [i \in 1 .. z - a |-> a + i]

\* The chunks of a section hold its blocks.
LEMMA ChunkedHolds ==
    ASSUME NEW text \in Seq(Block), NEW a \in Nat, NEW z \in Nat, a < z, z <= Len(text)
    PROVE  Holds(text, Chunked(text, BlocksOf(a, z)), a, z)
  <1> DEFINE blocks == BlocksOf(a, z)
             n == z - a
             all == [i \in DOMAIN blocks |-> Whole(text, blocks[i])]
  <1>1. n \in Nat /\ n >= 1 /\ a + n = z
    OBVIOUS
  <1>2. /\ DOMAIN blocks = 1 .. n /\ Len(blocks) = n
        /\ \A i \in 1 .. n : blocks[i] = a + i
    BY <1>1 DEF BlocksOf
  <1> HIDE DEF blocks, n
  <1>3. all = WholesOf(text, a, z)
    BY <1>2 DEF WholesOf, n
  <1>4. \E f : IsPacks(f, text, blocks, n)
    BY <1>1, PacksExist
  <1> DEFINE f == CHOOSE f : IsPacks(f, text, blocks, n)
  <1>5. IsPacks(f, text, blocks, n)
    BY <1>4
  <1>6. Chunked(text, blocks) = IF SizeOf(all) <= MaxChars THEN <<all>> ELSE Closed(f[n])
    BY <1>2 DEF Chunked, IsPacks
  <1> HIDE DEF f, all
  <1> DEFINE N == {k \in Nat : k <= n => PackInv(text, f[k], a, a + k)}
  <1>7. 0 \in N
    <2>1. f[0] = [out |-> <<>>, chunk |-> <<>>]
      BY <1>1, <1>5 DEF IsPacks
    <2>2. a \in a .. a /\ ~(a < a) /\ a + 0 = a
      OBVIOUS
    <2>3. PackInv(text, f[0], a, a)
      BY <2>1, <2>2, HoldsNone, WholesNone DEF PackInv
    <2> QED
      BY <2>2, <2>3
  <1>8. ASSUME NEW k \in Nat, k \in N
        PROVE  k + 1 \in N
    <2>1. SUFFICES ASSUME k + 1 <= n PROVE PackInv(text, f[k + 1], a, a + (k + 1))
      OBVIOUS
    <2> DEFINE pack == f[k]
               m == a + k
    <2>2. PackInv(text, pack, a, m)
      BY <1>1, <1>8, <2>1
    <2>3. f[k + 1] = Packed(pack, text, blocks[k + 1])
      BY <1>1, <1>5, <2>1 DEF IsPacks
    <2>4. k + 1 \in 1 .. n /\ a + (k + 1) = m + 1 /\ m \in Nat /\ a <= m /\ m < Len(text)
      BY <1>1, <2>1
    <2>5. blocks[k + 1] = m + 1
      BY <1>2, <2>4
    <2> HIDE DEF pack, m
    <2>6. PackInv(text, Packed(pack, text, m + 1), a, m + 1)
      BY <2>2, <2>4, PackedInv
    <2> QED
      BY <2>3, <2>4, <2>5, <2>6
  <1>9. n \in N
    <2> HIDE DEF N
    <2> QED
      BY <1>1, <1>7, <1>8, Induct
  <1>10. CASE SizeOf(all) <= MaxChars
    BY <1>3, <1>6, <1>10, HoldsWholes DEF blocks
  <1>11. CASE ~(SizeOf(all) <= MaxChars)
    <2> DEFINE pack == f[n]
    <2>1. PackInv(text, pack, a, z)
      BY <1>1, <1>9
    <2> HIDE DEF pack
    <2>2. PICK m \in a .. z : /\ Holds(text, pack.out, a, m) /\ pack.chunk = WholesOf(text, m, z)
                              /\ m < z => SizeOf(pack.chunk) <= MaxChars
      BY <2>1 DEF PackInv
    <2>3. m \in Nat /\ a <= m /\ m <= z
      OBVIOUS
    <2>4. pack.chunk \in Seq(Pieces) /\ Len(pack.chunk) = z - m
      BY <2>2, <2>3, WholesAre
    <2>5. CASE m = z
      <3>1. pack.chunk = <<>>
        BY <2>2, <2>5, WholesNone
      <3> QED
        BY <1>6, <1>11, <2>2, <2>5, <3>1 DEF Closed, blocks, pack
    <2>6. CASE m # z
      <3>1. pack.chunk # <<>> /\ m < z
        BY <2>3, <2>4, <2>6
      <3>2. Holds(text, <<pack.chunk>>, m, z)
        BY <2>2, <2>3, <3>1, HoldsWholes
      <3>3. Holds(text, pack.out \o <<pack.chunk>>, a, z)
        BY <2>2, <2>3, <3>2, HoldsTogether
      <3>4. pack.out \in Seq(Seq(Pieces))
        BY <2>2 DEF Holds
      <3>5. Append(pack.out, pack.chunk) = pack.out \o <<pack.chunk>>
        BY <2>4, <3>4, AppendOne
      <3> QED
        BY <1>6, <1>11, <3>1, <3>3, <3>5 DEF Closed, blocks, pack
    <2> QED
      BY <2>5, <2>6
  <1> QED
    BY <1>10, <1>11

-----------------------------------------------------------------------------
(* The sections of a document.                                             *)

IsSplit(f, text, n) ==
    f = [b \in 0 .. n |-> IF b = 0 THEN NoSections ELSE Headed(f[b - 1], text, b)]

LEMMA SplitExists ==
    ASSUME NEW text, NEW n \in Nat
    PROVE  \E f : IsSplit(f, text, n)
  <1> DEFINE N == {k \in Nat : \E f : IsSplit(f, text, k)}
  <1>1. 0 \in N
    <2>1. IsSplit([b \in 0 .. 0 |-> NoSections], text, 0)
      BY DEF IsSplit
    <2> QED
      BY <2>1
  <1>2. ASSUME NEW k \in Nat, k \in N
        PROVE  k + 1 \in N
    <2>1. PICK f : IsSplit(f, text, k)
      BY <1>2
    <2> DEFINE g == [b \in 0 .. k + 1 |->
                        IF b <= k THEN f[b] ELSE Headed(f[b - 1], text, b)]
    <2>2. ASSUME NEW b \in 0 .. k + 1
          PROVE  g[b] = IF b = 0 THEN NoSections ELSE Headed(g[b - 1], text, b)
      <3>1. b # 0 => b - 1 \in 0 .. k /\ g[b - 1] = f[b - 1]
        OBVIOUS
      <3>2. b <= k => f[b] = IF b = 0 THEN NoSections ELSE Headed(f[b - 1], text, b)
        BY <2>1 DEF IsSplit
      <3> QED
        BY <3>1, <3>2
    <2>3. IsSplit(g, text, k + 1)
      BY <2>2 DEF IsSplit
    <2> QED
      BY <2>3
  <1> QED
    <2> HIDE DEF N
    <2>1. n \in N
      BY <1>1, <1>2, Induct
    <2> QED
      BY <2>1 DEF N

Levels == (0 .. 6) \X STRING
Section == [path : Seq(Levels), blocks : Seq(Nat)]

\* Where the headings of block b are those of a path.
Under(text, b, path) ==
    {text[h].title : h \in PathOf(text, b)} = {h[2] : h \in ToSet(path)}

\* Sections of the first k blocks, one after the other.
Parted(text, secs, k) ==
    /\ secs \in Seq(Section)
    /\ \E ends \in [0 .. Len(secs) -> 0 .. k] :
          /\ ends[0] = 0 /\ ends[Len(secs)] = k
          /\ \A i \in 1 .. Len(secs) :
                /\ ends[i - 1] < ends[i] /\ secs[i].blocks = BlocksOf(ends[i - 1], ends[i])
                /\ \A b \in ends[i - 1] + 1 .. ends[i] : Under(text, b, secs[i].path)

LEMMA PartedMore ==
    ASSUME NEW text, NEW m \in Nat, NEW k \in Nat, m < k, NEW secs, Parted(text, secs, m),
           NEW s \in Section, s.blocks = BlocksOf(m, k),
           \A b \in m + 1 .. k : Under(text, b, s.path)
    PROVE  Parted(text, Append(secs, s), k)
  <1> DEFINE n == Len(secs)
             all == Append(secs, s)
  <1>1. secs \in Seq(Section) /\ n \in Nat
    BY DEF Parted
  <1>2. PICK ends \in [0 .. n -> 0 .. m] :
           /\ ends[0] = 0 /\ ends[n] = m
           /\ \A i \in 1 .. n :
                 /\ ends[i - 1] < ends[i] /\ secs[i].blocks = BlocksOf(ends[i - 1], ends[i])
                 /\ \A b \in ends[i - 1] + 1 .. ends[i] : Under(text, b, secs[i].path)
    BY DEF Parted
  <1>3. /\ all \in Seq(Section) /\ Len(all) = n + 1
        /\ all[n + 1] = s /\ \A i \in 1 .. n : all[i] = secs[i]
    BY <1>1
  <1> DEFINE new == [i \in 0 .. n + 1 |-> IF i <= n THEN ends[i] ELSE k]
  <1> HIDE DEF n, all
  <1>4. /\ \A i \in 0 .. n : new[i] = ends[i] /\ i \in 0 .. n + 1
        /\ new[n + 1] = k
    BY <1>1
  <1>5. new \in [0 .. n + 1 -> 0 .. k]
    BY <1>1, <1>2
  <1> HIDE DEF new
  <1>6. new[0] = 0
    BY <1>1, <1>2, <1>4
  <1>7. ASSUME NEW i \in 1 .. n + 1
        PROVE  /\ new[i - 1] < new[i] /\ all[i].blocks = BlocksOf(new[i - 1], new[i])
               /\ \A b \in new[i - 1] + 1 .. new[i] : Under(text, b, all[i].path)
    <2>1. CASE i \in 1 .. n
      <3>1. i - 1 \in 0 .. n /\ i \in 0 .. n
        BY <1>1, <2>1
      <3>2. new[i - 1] = ends[i - 1] /\ new[i] = ends[i] /\ all[i] = secs[i]
        BY <1>3, <1>4, <2>1, <3>1
      <3> QED
        BY <1>2, <2>1, <3>2
    <2>2. CASE i = n + 1
      <3>1. i - 1 = n /\ n \in 0 .. n
        BY <1>1, <2>2
      <3>2. new[i - 1] = m /\ new[i] = k /\ all[i] = s
        BY <1>2, <1>3, <1>4, <2>2, <3>1
      <3> QED
        BY <3>2
    <2> QED
      BY <1>1, <2>1, <2>2
  <1> QED
    BY <1>3, <1>4, <1>5, <1>6, <1>7 DEF Parted, all

\* Of the first k blocks, all but the last sections are done, and the last is
\* under the headings on the stack.
SplitInv(text, s, k) ==
    /\ s = [stack |-> s.stack, blocks |-> s.blocks, done |-> s.done]
    /\ s.stack \in Seq(Levels)
    /\ ToSet(s.stack) = {<<text[h].level, text[h].title>> : h \in PathOf(text, k)}
    /\ \E m \in 0 .. k :
          /\ Parted(text, s.done, m) /\ s.blocks = BlocksOf(m, k) /\ (k > 0 => m < k)
          /\ \A b \in m + 1 .. k : PathOf(text, b) = PathOf(text, k)

LEMMA BlocksAre ==
    ASSUME NEW m \in Nat, NEW k \in Nat, m <= k
    PROVE  /\ BlocksOf(m, k) \in Seq(Nat) /\ Len(BlocksOf(m, k)) = k - m
           /\ (BlocksOf(m, k) = <<>> <=> m = k)
           /\ Append(BlocksOf(m, k), k + 1) = BlocksOf(m, k + 1)
           /\ <<k + 1>> = BlocksOf(k, k + 1)
  <1> DEFINE w == BlocksOf(m, k)
             v == BlocksOf(m, k + 1)
             n == k - m
  <1>1. n \in Nat /\ m + (n + 1) = k + 1 /\ (k + 1) - m = n + 1 /\ (k + 1) - k = 1
        /\ (m = k <=> n = 0)
    OBVIOUS
  <1>2. w \in Seq(Nat) /\ Len(w) = n /\ \A i \in 1 .. n : w[i] = m + i
    BY <1>1 DEF BlocksOf
  <1>3. v \in Seq(Nat) /\ Len(v) = n + 1 /\ \A i \in 1 .. n + 1 : v[i] = m + i
    <2> HIDE DEF n
    <2>1. v = [i \in 1 .. n + 1 |-> m + i]
      BY <1>1 DEF BlocksOf
    <2> QED
      BY <1>1, <2>1
  <1>4. BlocksOf(k, k + 1) = <<k + 1>>
    <2>1. BlocksOf(k, k + 1) = [i \in 1 .. 1 |-> k + i]
      BY <1>1 DEF BlocksOf
    <2> DEFINE one == <<k + 1>>
               u == [i \in 1 .. 1 |-> k + i]
    <2>2. one \in Seq(Nat) /\ Len(one) = 1 /\ one[1] = k + 1
      OBVIOUS
    <2>3. u \in Seq(Nat) /\ Len(u) = 1 /\ u[1] = k + 1
      OBVIOUS
    <2> HIDE DEF one, u
    <2>4. one = u
      BY <2>2, <2>3
    <2> QED
      BY <2>1, <2>4 DEF one, u
  <1> HIDE DEF w, v, n
  <1>5. w = <<>> <=> m = k
    BY <1>1, <1>2
  <1> DEFINE u == Append(w, k + 1)
  <1>6. u \in Seq(Nat) /\ Len(u) = n + 1 /\ u[n + 1] = k + 1 /\ \A i \in 1 .. n : u[i] = w[i]
    BY <1>2
  <1> HIDE DEF u
  <1>7. \A i \in 1 .. n + 1 : u[i] = v[i]
    <2>1. \A i \in 1 .. n + 1 : i \in 1 .. n \/ i = n + 1
      BY <1>1
    <2> QED
      BY <1>1, <1>2, <1>3, <1>6, <2>1
  <1>8. u = v
    BY <1>3, <1>6, <1>7
  <1> QED
    BY <1>2, <1>4, <1>5, <1>8 DEF u, v, w, n

LEMMA FlushedParts ==
    ASSUME NEW text, NEW k \in Nat, NEW s, SplitInv(text, s, k)
    PROVE  Parted(text, Flushed(s), k)
  <1>1. /\ s.stack \in Seq(Levels)
        /\ ToSet(s.stack) = {<<text[h].level, text[h].title>> : h \in PathOf(text, k)}
    BY DEF SplitInv
  <1>2. PICK m \in 0 .. k :
           /\ Parted(text, s.done, m) /\ s.blocks = BlocksOf(m, k)
           /\ \A b \in m + 1 .. k : PathOf(text, b) = PathOf(text, k)
    BY DEF SplitInv
  <1>3. m \in Nat /\ m <= k
    OBVIOUS
  <1>4. CASE m = k
    BY <1>2, <1>3, <1>4, BlocksAre DEF Flushed
  <1>5. CASE m # k
    <2> DEFINE sec == [path |-> s.stack, blocks |-> s.blocks]
    <2>1. Flushed(s) = Append(s.done, sec)
      <3>1. s.blocks # <<>>
        BY <1>2, <1>3, <1>5, BlocksAre
      <3> QED
        BY <3>1 DEF Flushed
    <2>2. sec \in Section /\ sec.blocks = BlocksOf(m, k) /\ sec.path = s.stack
      BY <1>1, <1>2, <1>3, BlocksAre DEF Section
    <2>3. Under(text, k, s.stack)
      <3> DEFINE pair(h) == <<text[h].level, text[h].title>>
                 P == PathOf(text, k)
      <3>1. \A h : pair(h)[2] = text[h].title
        OBVIOUS
      <3>2. ToSet(s.stack) = {pair(h) : h \in P}
        BY <1>1
      <3> HIDE DEF pair, P
      <3>3. {text[h].title : h \in P} = {h[2] : h \in ToSet(s.stack)}
        BY <3>1, <3>2
      <3> QED
        BY <3>3 DEF Under, P
    <2>4. \A b \in m + 1 .. k : Under(text, b, s.stack)
      BY <1>2, <2>3 DEF Under
    <2>5. m < k
      BY <1>3, <1>5
    <2> HIDE DEF sec
    <2> QED
      BY <1>2, <1>3, <2>1, <2>2, <2>4, <2>5, PartedMore
  <1> QED
    BY <1>4, <1>5

\* What a block does to the headings it is under.
LEMMA PathGrows ==
    ASSUME NEW text \in Seq(Block), NEW k \in Nat, k < Len(text)
    PROVE  /\ text[k + 1].level = 0 => PathOf(text, k + 1) = PathOf(text, k)
           /\ text[k + 1].level # 0 =>
                 PathOf(text, k + 1)
                     = {h \in PathOf(text, k) : text[h].level < text[k + 1].level} \cup {k + 1}
  <1> DEFINE b == k + 1
             l(h) == text[h].level
             Over(h, n) == \A j \in h + 1 .. n : l(j) = 0 \/ l(j) > l(h)
  <1>1. \A h \in 1 .. b : l(h) \in Nat
    <2>1. \A h \in 1 .. b : h \in 1 .. Len(text)
      OBVIOUS
    <2>2. \A h \in 1 .. Len(text) : l(h) \in 0 .. 6
      BY BlockIs
    <2> QED
      BY <2>1, <2>2
  <1> HIDE DEF l
  <1>2. \A n : PathOf(text, n) = {h \in 1 .. n : l(h) > 0 /\ Over(h, n)}
    BY DEF PathOf, l
  <1>3. \A h \in 1 .. k : Over(h, b) <=> Over(h, k) /\ (l(b) = 0 \/ l(b) > l(h))
    <2>1. ASSUME NEW h \in 1 .. k
          PROVE  h + 1 .. b = (h + 1 .. k) \cup {b}
      OBVIOUS
    <2> QED
      BY <2>1
  <1>4. Over(b, b)
    <2>1. b + 1 .. b = {}
      OBVIOUS
    <2> QED
      BY <2>1
  <1>5. \A h : h \in 1 .. b <=> h \in 1 .. k \/ h = b
    OBVIOUS
  <1> HIDE DEF b, Over
  <1>6. CASE l(b) = 0
    <2>1. PathOf(text, b) = PathOf(text, k)
      <3>1. ~(l(b) > 0)
        BY <1>6
      <3>2. \A h : h \in 1 .. b /\ l(h) > 0 /\ Over(h, b)
                   <=> h \in 1 .. k /\ l(h) > 0 /\ Over(h, k)
        BY <1>3, <1>5, <1>6, <3>1
      <3> QED
        BY <1>2, <3>2
    <2> QED
      BY <1>6, <2>1 DEF b, l
  <1>7. CASE l(b) # 0
    <2>1. \A h \in 1 .. k : l(b) > l(h) <=> l(h) < l(b)
      BY <1>1, <1>5
    <2>2. l(b) > 0
      BY <1>1, <1>5, <1>7
    <2>3. PathOf(text, b) = {h \in PathOf(text, k) : l(h) < l(b)} \cup {b}
      BY <1>2, <1>3, <1>4, <1>5, <1>7, <2>1, <2>2
    <2> QED
      BY <1>7, <2>3 DEF b, l
  <1> QED
    BY <1>6, <1>7

LEMMA SetOfAppend ==
    ASSUME NEW T, NEW s \in Seq(T), NEW x \in T
    PROVE  Append(s, x) \in Seq(T) /\ ToSet(Append(s, x)) = ToSet(s) \cup {x}
  <1> DEFINE n == Len(s)
             w == Append(s, x)
  <1>1. w \in Seq(T) /\ DOMAIN w = 1 .. n + 1 /\ DOMAIN s = 1 .. n /\ n \in Nat
    OBVIOUS
  <1>2. w[n + 1] = x /\ \A i \in 1 .. n : w[i] = s[i]
    OBVIOUS
  <1> HIDE DEF w, n
  <1>3. \A i : i \in 1 .. n + 1 <=> i \in 1 .. n \/ i = n + 1
    BY <1>1
  <1>4. ToSet(w) = ToSet(s) \cup {x}
    BY <1>1, <1>2, <1>3 DEF ToSet
  <1> QED
    BY <1>1, <1>4 DEF w

\* A filter leaves all that it spares.
LEMMA WithoutLeft ==
    ASSUME NEW T, NEW s \in Seq(T), NEW S
    PROVE  Without(s, S) \in Seq(T) /\ ToSet(Without(s, S)) = ToSet(s) \ S
  <1> DEFINE w == Without(s, S)
             k == Len(w)
             n == Len(s)
  <1>1. w \in Seq(T)
    BY WithoutLeaves
  <1>2. PICK ix : Leaves(ix, w, s, S, n)
    BY WithoutLeaves
  <1>3. DOMAIN w = 1 .. k /\ DOMAIN s = 1 .. n
    BY <1>1
  <1> HIDE DEF w, k, n
  <1>4. /\ ix \in [1 .. k -> 1 .. n]
        /\ \A a \in 1 .. k : w[a] = s[ix[a]] /\ s[ix[a]] \notin S
        /\ \A i \in 1 .. n : s[i] \notin S => \E a \in 1 .. k : ix[a] = i
    BY <1>2 DEF Leaves, k
  <1>5. ToSet(w) \subseteq ToSet(s) \ S
    BY <1>3, <1>4 DEF ToSet
  <1>6. ASSUME NEW x \in ToSet(s) \ S
        PROVE  x \in ToSet(w)
    <2>1. PICK i \in 1 .. n : s[i] = x
      BY <1>3 DEF ToSet
    <2>2. PICK a \in 1 .. k : ix[a] = i
      BY <1>4, <2>1
    <2> QED
      BY <1>3, <1>4, <2>1, <2>2 DEF ToSet
  <1> QED
    BY <1>1, <1>5, <1>6 DEF w

LEMMA HeadedInv ==
    ASSUME NEW text \in Seq(Block), NEW k \in Nat, k < Len(text), NEW s, SplitInv(text, s, k)
    PROVE  SplitInv(text, Headed(s, text, k + 1), k + 1)
  <1> DEFINE b == k + 1
             next == Headed(s, text, b)
             pair(h) == <<text[h].level, text[h].title>>
             P == PathOf(text, k)
             R == PathOf(text, b)
  <1>1. /\ s = [stack |-> s.stack, blocks |-> s.blocks, done |-> s.done]
        /\ s.stack \in Seq(Levels) /\ ToSet(s.stack) = {pair(h) : h \in P}
    BY DEF SplitInv
  <1>2. PICK m \in 0 .. k :
           /\ Parted(text, s.done, m) /\ s.blocks = BlocksOf(m, k)
           /\ \A c \in m + 1 .. k : PathOf(text, c) = PathOf(text, k)
    BY DEF SplitInv
  <1>3. m \in Nat /\ m <= k /\ b \in Nat /\ b > 0 /\ m < b /\ b \in 1 .. Len(text)
    OBVIOUS
  <1>4. CASE text[b].level = 0
    <2>1. next = [s EXCEPT !.blocks = Append(@, b)]
      BY <1>4 DEF Headed
    <2>2. /\ next.stack = s.stack /\ next.done = s.done
          /\ next.blocks = Append(BlocksOf(m, k), b)
          /\ next = [stack |-> next.stack, blocks |-> next.blocks, done |-> next.done]
      BY <1>1, <1>2, <2>1
    <2>3. next.blocks = BlocksOf(m, b)
      BY <1>3, <2>2, BlocksAre
    <2>4. R = P
      BY <1>4, PathGrows
    <2>5. \A c \in m + 1 .. b : PathOf(text, c) = R
      <3>1. \A c \in m + 1 .. b : c \in m + 1 .. k \/ c = b
        BY <1>3
      <3> QED
        BY <1>2, <2>4, <3>1
    <2>6. m \in 0 .. b
      BY <1>3
    <2> HIDE DEF next, b
    <2> QED
      BY <1>1, <1>2, <1>3, <2>2, <2>3, <2>4, <2>5, <2>6 DEF SplitInv, next, b
  <1>5. CASE text[b].level # 0
    <2> DEFINE S == {h \in ToSet(s.stack) : h[1] >= text[b].level}
               above == Above(s.stack, text[b].level)
               stack == Append(above, pair(b))
    <2>1. next = [stack |-> stack, blocks |-> <<b>>, done |-> Flushed(s)]
      BY <1>5 DEF Headed
    <2>2. /\ next.stack = stack /\ next.blocks = <<b>> /\ next.done = Flushed(s)
          /\ next = [stack |-> next.stack, blocks |-> next.blocks, done |-> next.done]
      BY <2>1
    <2>3. next.blocks = BlocksOf(k, b)
      <3>1. k <= k
        OBVIOUS
      <3> QED
        BY <2>2, <3>1, BlocksAre
    <2>4. Parted(text, next.done, k)
      BY <2>2, FlushedParts
    <2>5. R = {h \in P : text[h].level < text[b].level} \cup {b}
      BY <1>5, PathGrows
    <2>6. above \in Seq(Levels) /\ ToSet(above) = ToSet(s.stack) \ S
      <3>1. above = Without(s.stack, S)
        BY DEF Above
      <3> HIDE DEF above, S
      <3> QED
        BY <1>1, <3>1, WithoutLeft
    <2>7. pair(b) \in Levels
      <3>1. text[b] \in Block
        BY <1>3
      <3> QED
        BY <3>1 DEF Block, Levels
    <2>8. stack \in Seq(Levels) /\ ToSet(stack) = ToSet(above) \cup {pair(b)}
      <3> DEFINE x == pair(b)
      <3>1. above \in Seq(Levels) /\ x \in Levels
        BY <2>6, <2>7
      <3> HIDE DEF above, x
      <3>2. Append(above, x) \in Seq(Levels) /\ ToSet(Append(above, x)) = ToSet(above) \cup {x}
        BY <3>1, SetOfAppend
      <3> QED
        BY <3>2 DEF x
    <2>9. ToSet(stack) = {pair(h) : h \in R}
      <3>1. \A h : pair(h)[1] = text[h].level
        OBVIOUS
      <3>2. \A h \in P : h \in 1 .. Len(text)
        BY <1>3 DEF PathOf
      <3>3. \A h \in 1 .. Len(text) : text[h].level \in Nat
        <4>1. \A h \in 1 .. Len(text) : text[h].level \in 0 .. 6
          BY BlockIs
        <4> QED
          BY <4>1
      <3>4. \A h \in P : text[h].level < text[b].level <=> ~(text[h].level >= text[b].level)
        BY <1>3, <3>2, <3>3
      <3> HIDE DEF pair, stack, above, P, R, b
      <3>5. ToSet(above) = {pair(h) : h \in {g \in P : text[g].level < text[b].level}}
        BY <1>1, <2>6, <3>1, <3>4
      <3> QED
        BY <2>5, <2>8, <3>5
    <2>10. \A c \in k + 1 .. b : PathOf(text, c) = R
      BY <1>3
    <2>11. k \in 0 .. b /\ k < b
      BY <1>3
    <2> HIDE DEF next, b, stack
    <2> QED
      BY <2>2, <2>3, <2>4, <2>8, <2>9, <2>10, <2>11 DEF SplitInv, next, b
  <1> QED
    BY <1>4, <1>5

LEMMA SectionsPart ==
    ASSUME NEW text \in Seq(Block)
    PROVE  Parted(text, Sections(text), Len(text))
  <1> DEFINE n == Len(text)
  <1>1. n \in Nat
    OBVIOUS
  <1> HIDE DEF n
  <1>2. \E f : IsSplit(f, text, n)
    BY <1>1, SplitExists
  <1> DEFINE f == CHOOSE f : IsSplit(f, text, n)
  <1>3. IsSplit(f, text, n)
    BY <1>2
  <1>4. Sections(text) = Flushed(f[n])
    BY DEF Sections, IsSplit, n
  <1> HIDE DEF f
  <1> DEFINE N == {k \in Nat : k <= n => SplitInv(text, f[k], k)}
  <1>5. 0 \in N
    <2>1. f[0] = NoSections
      BY <1>1, <1>3 DEF IsSplit
    <2>2. PathOf(text, 0) = {}
      <3>1. 1 .. 0 = {}
        OBVIOUS
      <3> QED
        BY <3>1 DEF PathOf
    <2>3. /\ <<>> \in Seq(Levels) /\ <<>> \in Seq(Section) /\ Len(<<>>) = 0
          /\ ToSet(<<>>) = {} /\ 1 .. 0 = {}
      BY DEF ToSet
    <2>4. Parted(text, <<>>, 0)
      <3> DEFINE ends == [i \in 0 .. 0 |-> 0]
      <3>1. ends \in [0 .. Len(<<>>) -> 0 .. 0] /\ ends[0] = 0 /\ ends[Len(<<>>)] = 0
        BY <2>3
      <3> HIDE DEF ends
      <3> QED
        BY <2>3, <3>1 DEF Parted
    <2>5. BlocksOf(0, 0) = <<>> /\ 0 \in 0 .. 0 /\ ~(0 > 0) /\ 0 + 1 .. 0 = {}
      <3>1. 0 \in Nat /\ 0 <= 0
        OBVIOUS
      <3> QED
        BY <3>1, BlocksAre
    <2>6. SplitInv(text, NoSections, 0)
      BY <2>2, <2>3, <2>4, <2>5 DEF SplitInv, NoSections
    <2> QED
      BY <2>1, <2>6
  <1>6. ASSUME NEW k \in Nat, k \in N
        PROVE  k + 1 \in N
    <2>1. SUFFICES ASSUME k + 1 <= n PROVE SplitInv(text, f[k + 1], k + 1)
      OBVIOUS
    <2> DEFINE s == f[k]
    <2>2. SplitInv(text, s, k) /\ k < Len(text)
      BY <1>1, <1>6, <2>1 DEF n
    <2>3. f[k + 1] = Headed(s, text, k + 1)
      BY <1>1, <1>3, <2>1 DEF IsSplit
    <2> HIDE DEF s
    <2> QED
      BY <2>2, <2>3, HeadedInv
  <1>7. n \in N
    <2> HIDE DEF N
    <2> QED
      BY <1>1, <1>5, <1>6, Induct
  <1>8. SplitInv(text, f[n], n)
    BY <1>1, <1>7
  <1> QED
    BY <1>1, <1>4, <1>8, FlushedParts DEF n

-----------------------------------------------------------------------------
(* All of a document.                                                      *)

Chunks == [section : Nat, chunk : Nat, pieces : Seq(Pieces), path : Seq(Levels)]

PiecesOf(rows) == [r \in DOMAIN rows |-> rows[r].pieces]

\* Chunks that are all of the first z blocks, under their headings.
Filled(text, rows, z) ==
    /\ rows \in Seq(Chunks)
    /\ Holds(text, PiecesOf(rows), 0, z)
    /\ \A r \in 1 .. Len(rows) : \A p \in 1 .. Len(rows[r].pieces) :
          Under(text, rows[r].pieces[p].block, rows[r].path)

LEMMA RowsAre ==
    ASSUME NEW text \in Seq(Block), NEW a \in Nat, NEW z \in Nat, a < z, z <= Len(text),
           NEW s \in Section, s.blocks = BlocksOf(a, z), NEW i \in Nat,
           \A b \in a + 1 .. z : Under(text, b, s.path)
    PROVE  /\ SectionRows(text, s, i) \in Seq(Chunks)
           /\ Holds(text, PiecesOf(SectionRows(text, s, i)), a, z)
           /\ \A r \in 1 .. Len(SectionRows(text, s, i)) :
                 \A p \in 1 .. Len(SectionRows(text, s, i)[r].pieces) :
                    Under(text, SectionRows(text, s, i)[r].pieces[p].block,
                          SectionRows(text, s, i)[r].path)
  <1> DEFINE cs == Chunked(text, s.blocks)
             n == Len(cs)
             rows == SectionRows(text, s, i)
  <1>1. Holds(text, cs, a, z)
    BY ChunkedHolds
  <1>2. /\ cs \in Seq(Seq(Pieces)) /\ n \in Nat /\ DOMAIN cs = 1 .. n
        /\ \A c \in 1 .. n : cs[c] \in Seq(Pieces)
    BY <1>1 DEF Holds
  <1>3. rows = [c \in DOMAIN cs |-> [section |-> i, chunk |-> c, pieces |-> cs[c],
                                     path |-> s.path]]
    BY DEF SectionRows
  <1>4. s.path \in Seq(Levels)
    BY DEF Section
  <1> HIDE DEF cs, n, rows
  <1>5. rows \in Seq(Chunks) /\ Len(rows) = n /\ DOMAIN rows = 1 .. n
    <2>1. \A c \in 1 .. n : [section |-> i, chunk |-> c, pieces |-> cs[c], path |-> s.path]
                               \in Chunks
      BY <1>2, <1>4 DEF Chunks
    <2> QED
      BY <1>2, <1>3, <2>1
  <1>6. \A c \in 1 .. n : rows[c].pieces = cs[c] /\ rows[c].path = s.path
    BY <1>2, <1>3
  <1>7. PiecesOf(rows) = cs
    <2> DEFINE u == PiecesOf(rows)
    <2>1. u = [c \in 1 .. n |-> rows[c].pieces]
      BY <1>5 DEF PiecesOf
    <2>2. cs = [c \in 1 .. n |-> cs[c]]
      BY <1>2
    <2> QED
      BY <1>6, <2>1, <2>2
  <1>8. \A c \in 1 .. n : \A p \in 1 .. Len(cs[c]) : cs[c][p].block \in a + 1 .. z
    BY <1>1 DEF Holds, Bounded, n
  <1> QED
    BY <1>1, <1>5, <1>6, <1>7, <1>8 DEF rows

\* The chunks of one more section.
LEMMA RowsMore ==
    ASSUME NEW text \in Seq(Block), NEW a \in Nat, NEW z \in Nat, a < z, z <= Len(text),
           NEW s \in Section, s.blocks = BlocksOf(a, z), NEW i \in Nat,
           \A b \in a + 1 .. z : Under(text, b, s.path),
           NEW rows, Filled(text, rows, a)
    PROVE  Filled(text, rows \o SectionRows(text, s, i), z)
  <1> DEFINE new == SectionRows(text, s, i)
             all == rows \o new
             n == Len(rows)
             k == Len(new)
             Headings(x, r) == \A p \in 1 .. Len(x[r].pieces) :
                                  Under(text, x[r].pieces[p].block, x[r].path)
  <1>1. /\ rows \in Seq(Chunks) /\ Holds(text, PiecesOf(rows), 0, a)
        /\ \A r \in 1 .. n : Headings(rows, r)
    BY DEF Filled
  <1>2. /\ new \in Seq(Chunks) /\ Holds(text, PiecesOf(new), a, z)
        /\ \A r \in 1 .. k : Headings(new, r)
    BY RowsAre
  <1> HIDE DEF new
  <1>3. n \in Nat /\ k \in Nat /\ DOMAIN rows = 1 .. n /\ DOMAIN new = 1 .. k
    BY <1>1, <1>2
  <1>4. /\ all \in Seq(Chunks) /\ Len(all) = n + k /\ DOMAIN all = 1 .. n + k
        /\ \A r \in 1 .. n + k : all[r] = IF r <= n THEN rows[r] ELSE new[r - n]
    BY <1>1, <1>2, PutTogether
  <1> HIDE DEF all, n, k
  <1>5. \A r \in 1 .. n + k : ~(r <= n) => r - n \in 1 .. k
    BY <1>3
  <1>6. \A r \in 1 .. n + k : r <= n => r \in 1 .. n
    BY <1>3
  <1>7. PiecesOf(all) = PiecesOf(rows) \o PiecesOf(new)
    <2> DEFINE u == PiecesOf(rows)
               v == PiecesOf(new)
               w == PiecesOf(all)
    <2>1. /\ u \in Seq(Seq(Pieces)) /\ Len(u) = n /\ \A r \in 1 .. n : u[r] = rows[r].pieces
      <3>1. u = [r \in 1 .. n |-> rows[r].pieces]
        BY <1>3 DEF PiecesOf
      <3>2. \A r \in 1 .. n : rows[r].pieces \in Seq(Pieces)
        <4>1. \A r \in 1 .. n : rows[r] \in Chunks
          BY <1>1, <1>3
        <4> QED
          BY <4>1 DEF Chunks
      <3> HIDE DEF u
      <3> QED
        BY <1>3, <3>1, <3>2
    <2>2. /\ v \in Seq(Seq(Pieces)) /\ Len(v) = k /\ \A r \in 1 .. k : v[r] = new[r].pieces
      <3>1. v = [r \in 1 .. k |-> new[r].pieces]
        BY <1>3 DEF PiecesOf
      <3>2. \A r \in 1 .. k : new[r].pieces \in Seq(Pieces)
        <4>1. \A r \in 1 .. k : new[r] \in Chunks
          BY <1>2, <1>3
        <4> QED
          BY <4>1 DEF Chunks
      <3> HIDE DEF v
      <3> QED
        BY <1>3, <3>1, <3>2
    <2>3. w = [r \in 1 .. n + k |-> all[r].pieces]
      BY <1>4 DEF PiecesOf
    <2> HIDE DEF u, v, w
    <2> DEFINE uv == u \o v
    <2>4. /\ uv \in Seq(Seq(Pieces)) /\ Len(uv) = n + k
          /\ \A r \in 1 .. n + k : uv[r] = IF r <= n THEN u[r] ELSE v[r - n]
      <3>1. u \in Seq(Seq(Pieces)) /\ v \in Seq(Seq(Pieces))
        BY <2>1, <2>2
      <3>2. Len(u) = n /\ Len(v) = k
        BY <2>1, <2>2
      <3> QED
        BY <3>1, <3>2, PutTogether
    <2> HIDE DEF uv
    <2>5. uv = [r \in 1 .. n + k |-> uv[r]]
      BY <2>4
    <2>6. \A r \in 1 .. n + k : uv[r] = all[r].pieces
      <3>1. ASSUME NEW r \in 1 .. n + k, r <= n
            PROVE  uv[r] = all[r].pieces
        BY <1>4, <1>6, <2>1, <2>4, <3>1
      <3>2. ASSUME NEW r \in 1 .. n + k, ~(r <= n)
            PROVE  uv[r] = all[r].pieces
        <4>1. r - n \in 1 .. k
          BY <1>5, <3>2
        <4> QED
          BY <1>4, <2>2, <2>4, <3>2, <4>1
      <3> QED
        BY <3>1, <3>2
    <2>7. uv = w
      BY <2>3, <2>5, <2>6
    <2> QED
      BY <2>7 DEF uv, u, v, w
  <1>8. Holds(text, PiecesOf(all), 0, z)
    <2>1. 0 \in Nat /\ 0 <= a /\ a <= z
      OBVIOUS
    <2> QED
      BY <1>1, <1>2, <1>7, <2>1, HoldsTogether
  <1>9. \A r \in 1 .. n + k : Headings(all, r)
    BY <1>1, <1>2, <1>4, <1>5, <1>6
  <1> QED
    BY <1>4, <1>8, <1>9 DEF Filled, all, new

IsRows(f, text, secs, n) ==
    f = [i \in 0 .. n |-> IF i = 0 THEN <<>> ELSE f[i - 1] \o SectionRows(text, secs[i], i)]

LEMMA RowsExist ==
    ASSUME NEW text, NEW secs, NEW n \in Nat
    PROVE  \E f : IsRows(f, text, secs, n)
  <1> DEFINE N == {k \in Nat : \E f : IsRows(f, text, secs, k)}
  <1>1. 0 \in N
    <2>1. IsRows([i \in 0 .. 0 |-> <<>>], text, secs, 0)
      BY DEF IsRows
    <2> QED
      BY <2>1
  <1>2. ASSUME NEW k \in Nat, k \in N
        PROVE  k + 1 \in N
    <2>1. PICK f : IsRows(f, text, secs, k)
      BY <1>2
    <2> DEFINE g == [i \in 0 .. k + 1 |->
                        IF i <= k THEN f[i] ELSE f[i - 1] \o SectionRows(text, secs[i], i)]
    <2>2. ASSUME NEW i \in 0 .. k + 1
          PROVE  g[i] = IF i = 0 THEN <<>> ELSE g[i - 1] \o SectionRows(text, secs[i], i)
      <3>1. i # 0 => i - 1 \in 0 .. k /\ g[i - 1] = f[i - 1]
        OBVIOUS
      <3>2. i <= k => f[i] = IF i = 0 THEN <<>> ELSE f[i - 1] \o SectionRows(text, secs[i], i)
        <4>1. f = [j \in 0 .. k |-> IF j = 0 THEN <<>>
                                    ELSE f[j - 1] \o SectionRows(text, secs[j], j)]
          BY <2>1 DEF IsRows
        <4>2. i <= k => i \in 0 .. k
          OBVIOUS
        <4> QED
          BY <4>1, <4>2
      <3> QED
        BY <3>1, <3>2
    <2>3. IsRows(g, text, secs, k + 1)
      BY <2>2 DEF IsRows
    <2> QED
      BY <2>3
  <1> QED
    <2> HIDE DEF N
    <2>1. n \in N
      BY <1>1, <1>2, Induct
    <2> QED
      BY <2>1 DEF N

\* The chunks of a document are all of it.
LEMMA SplitFills ==
    ASSUME NEW text \in Seq(Block)
    PROVE  Filled(text, Split(text), Len(text))
  <1> DEFINE secs == Sections(text)
             n == Len(secs)
             z == Len(text)
  <1>1. Parted(text, secs, z) /\ z \in Nat
    BY SectionsPart
  <1> HIDE DEF secs, z
  <1>2. secs \in Seq(Section) /\ n \in Nat /\ \A i \in 1 .. n : secs[i] \in Section
    BY <1>1 DEF Parted
  <1>3. PICK ends \in [0 .. n -> 0 .. z] :
           /\ ends[0] = 0 /\ ends[n] = z
           /\ \A i \in 1 .. n :
                 /\ ends[i - 1] < ends[i] /\ secs[i].blocks = BlocksOf(ends[i - 1], ends[i])
                 /\ \A b \in ends[i - 1] + 1 .. ends[i] : Under(text, b, secs[i].path)
    BY <1>1 DEF Parted
  <1> HIDE DEF n
  <1>4. \E f : IsRows(f, text, secs, n)
    BY <1>2, RowsExist
  <1> DEFINE f == CHOOSE f : IsRows(f, text, secs, n)
  <1>5. IsRows(f, text, secs, n)
    BY <1>4
  <1>6. Split(text) = f[n]
    BY DEF Split, IsRows, n, secs
  <1> HIDE DEF f
  <1> DEFINE N == {k \in Nat : k <= n => Filled(text, f[k], ends[k])}
  <1>7. 0 \in N
    <2>1. f[0] = <<>>
      BY <1>2, <1>5 DEF IsRows
    <2>2. PiecesOf(<<>>) = <<>> /\ <<>> \in Seq(Chunks) /\ Len(<<>>) = 0 /\ 1 .. 0 = {}
      BY DEF PiecesOf
    <2>3. Holds(text, <<>>, 0, 0)
      BY 0 \in Nat, HoldsNone
    <2> QED
      BY <1>3, <2>1, <2>2, <2>3 DEF Filled
  <1>8. ASSUME NEW k \in Nat, k \in N
        PROVE  k + 1 \in N
    <2>1. SUFFICES ASSUME k + 1 <= n PROVE Filled(text, f[k + 1], ends[k + 1])
      OBVIOUS
    <2> DEFINE i == k + 1
               a == ends[k]
               e == ends[i]
               rows == f[k]
               s == secs[i]
    <2>2. i \in 1 .. n /\ i - 1 = k /\ k \in 0 .. n /\ i \in 0 .. n /\ i \in Nat /\ i # 0
      BY <1>2, <2>1
    <2>3. Filled(text, rows, a)
      BY <1>8, <2>1, <2>2
    <2>4. f[i] = rows \o SectionRows(text, s, i)
      BY <1>5, <2>2 DEF IsRows
    <2> HIDE DEF i
    <2>5. /\ a < e /\ s.blocks = BlocksOf(a, e) /\ a \in 0 .. z /\ e \in 0 .. z
          /\ \A b \in a + 1 .. e : Under(text, b, s.path)
      BY <1>3, <2>2
    <2>6. s \in Section
      BY <1>2, <2>2
    <2> HIDE DEF a, e, rows, s
    <2>7. a \in Nat /\ e \in Nat /\ e <= Len(text)
      BY <1>1, <2>5 DEF z
    <2>8. Filled(text, rows \o SectionRows(text, s, i), e)
      BY <2>2, <2>3, <2>5, <2>6, <2>7, RowsMore
    <2> QED
      BY <2>4, <2>8 DEF i, e
  <1>9. n \in N
    <2> HIDE DEF N
    <2> QED
      BY <1>2, <1>7, <1>8, Induct
  <1> QED
    BY <1>2, <1>3, <1>6, <1>9 DEF z

-----------------------------------------------------------------------------
(* The shelf.                                                              *)

Place == [text : Seq(Block), call : Nat, row : Chunks]

\* The first n of some chunks are the memories of a call, after a place.
OnShelf(sh, call, rows, n, base) ==
    /\ base + n <= Len(sh)
    /\ \A i \in 1 .. Len(sh) : sh[i].call = call <=> i \in base + 1 .. base + n
    /\ \A k \in 1 .. n : sh[base + k].row = rows[k]

\* The call in progress has put on the shelf what it has not left to do, last.
InProgress(sh, f, call) ==
    /\ f = [text |-> f.text, todo |-> f.todo] /\ f.text \in Seq(Block)
    /\ \E n \in 0 .. Len(Split(f.text)) :
          /\ n <= Len(sh) /\ f.todo = SubSeq(Split(f.text), n + 1, Len(Split(f.text)))
          /\ OnShelf(sh, call, Split(f.text), n, Len(sh) - n)

FilingInv ==
    /\ requests \in Nat
    /\ shelf \in Seq(Place)
    /\ \A i \in 1 .. Len(shelf) : shelf[i].call <= requests
    /\ \A x \in shelved :
          /\ x.text \in Seq(Block) /\ x.call \in Nat /\ x.call <= requests
          /\ \E base \in Nat :
                OnShelf(shelf, x.call, Split(x.text), Len(Split(x.text)), base)
    /\ ~FilingIdle =>
          /\ \A x \in shelved : x.call # requests
          /\ InProgress(shelf, filing, requests)

\* One more chunk, of another call.
LEMMA OthersStay ==
    ASSUME NEW sh \in Seq(Place), NEW p \in Place, NEW call \in Nat, p.call # call,
           NEW rows, NEW n \in Nat, NEW base \in Nat, OnShelf(sh, call, rows, n, base)
    PROVE  OnShelf(Append(sh, p), call, rows, n, base)
  <1> DEFINE m == Len(sh)
             next == Append(sh, p)
  <1>1. /\ m \in Nat /\ next \in Seq(Place) /\ Len(next) = m + 1 /\ next[m + 1] = p
        /\ \A i \in 1 .. m : next[i] = sh[i]
    OBVIOUS
  <1>2. /\ base + n <= m
        /\ \A i \in 1 .. m : sh[i].call = call <=> i \in base + 1 .. base + n
        /\ \A k \in 1 .. n : sh[base + k].row = rows[k]
    BY DEF OnShelf
  <1> HIDE DEF m, next
  <1>3. base + n <= m + 1 /\ m + 1 \notin base + 1 .. base + n
    BY <1>1, <1>2
  <1>4. \A i \in 1 .. m + 1 : next[i].call = call <=> i \in base + 1 .. base + n
    <2>1. \A i \in 1 .. m + 1 : i \in 1 .. m \/ i = m + 1
      BY <1>1
    <2> QED
      BY <1>1, <1>2, <1>3, <2>1
  <1>5. \A k \in 1 .. n : next[base + k].row = rows[k]
    <2>1. \A k \in 1 .. n : base + k \in 1 .. m
      BY <1>1, <1>2
    <2> QED
      BY <1>1, <1>2, <2>1
  <1> QED
    BY <1>1, <1>3, <1>4, <1>5 DEF OnShelf, next

\* One more chunk, the next of this call.
LEMMA OneMoreShelved ==
    ASSUME NEW sh \in Seq(Place), NEW p \in Place, NEW rows, NEW n \in Nat, n <= Len(sh),
           p.row = rows[n + 1], OnShelf(sh, p.call, rows, n, Len(sh) - n)
    PROVE  OnShelf(Append(sh, p), p.call, rows, n + 1, Len(Append(sh, p)) - (n + 1))
  <1> DEFINE m == Len(sh)
             next == Append(sh, p)
             base == m - n
             call == p.call
  <1>1. /\ m \in Nat /\ Len(next) = m + 1 /\ next[m + 1] = p
        /\ \A i \in 1 .. m : next[i] = sh[i]
    OBVIOUS
  <1>2. /\ \A i \in 1 .. m : sh[i].call = call <=> i \in base + 1 .. base + n
        /\ \A k \in 1 .. n : sh[base + k].row = rows[k]
    BY DEF OnShelf
  <1>3. base \in Nat /\ base + n = m
    BY <1>1
  <1>4. Len(next) - (n + 1) = base
    BY <1>1
  <1> HIDE DEF m, next, base, call
  <1>5. base + (n + 1) = m + 1
    BY <1>1, <1>3
  <1>6. \A i \in 1 .. m + 1 : next[i].call = call <=> i \in base + 1 .. m + 1
    <2>1. \A i \in 1 .. m + 1 : i \in 1 .. m \/ i = m + 1
      BY <1>1
    <2>2. \A i \in 1 .. m : i \in base + 1 .. base + n <=> i \in base + 1 .. m + 1
      BY <1>1, <1>3
    <2>3. m + 1 \in base + 1 .. m + 1
      BY <1>1, <1>3
    <2> QED
      BY <1>1, <1>2, <2>1, <2>2, <2>3 DEF call
  <1>7. \A k \in 1 .. n + 1 : next[base + k].row = rows[k]
    <2>1. \A k \in 1 .. n + 1 : k \in 1 .. n \/ k = n + 1
      OBVIOUS
    <2>2. \A k \in 1 .. n : base + k \in 1 .. m
      BY <1>1, <1>3
    <2> QED
      BY <1>1, <1>2, <1>5, <2>1, <2>2
  <1>8. OnShelf(next, call, rows, n + 1, base)
    <2>1. m + 1 <= m + 1
      BY <1>1
    <2> QED
      BY <1>1, <1>5, <1>6, <1>7, <2>1 DEF OnShelf
  <1> QED
    BY <1>4, <1>8 DEF next, call

\* A call that has not filed yet.
LEMMA NoneShelved ==
    ASSUME NEW sh \in Seq(Place), NEW call, \A i \in 1 .. Len(sh) : sh[i].call # call,
           NEW rows
    PROVE  OnShelf(sh, call, rows, 0, Len(sh) - 0)
  <1> DEFINE m == Len(sh)
  <1>1. m \in Nat /\ m - 0 = m /\ m + 0 <= m /\ m + 1 .. m + 0 = {} /\ 1 .. 0 = {}
    OBVIOUS
  <1> HIDE DEF m
  <1> QED
    BY <1>1 DEF OnShelf, m

LEMMA RememberMarkdownInv ==
    ASSUME FilingInv, NEW text \in Texts, RememberMarkdown(text)
    PROVE  FilingInv'
  <1> DEFINE rows == Split(text)
             n == Len(rows)
             call == requests + 1
  <1>1. text \in Seq(Block)
    BY DocumentsAssumption
  <1>2. rows \in Seq(Chunks) /\ n \in Nat
    BY <1>1, SplitFills DEF Filled
  <1>3. /\ requests \in Nat /\ shelf \in Seq(Place) /\ Len(shelf) \in Nat
        /\ \A i \in 1 .. Len(shelf) : shelf[i].call <= requests
        /\ \A x \in shelved :
              /\ x.text \in Seq(Block) /\ x.call \in Nat /\ x.call <= requests
              /\ \E base \in Nat :
                    OnShelf(shelf, x.call, Split(x.text), Len(Split(x.text)), base)
    BY DEF FilingInv
  <1>4. /\ requests' = call /\ shelf' = shelf /\ shelved' = shelved
        /\ filing' = [text |-> text, todo |-> rows]
    BY DEF RememberMarkdown
  <1>5. \A i \in 1 .. Len(shelf) : shelf[i].call # call /\ shelf[i].call <= call
    <2>1. \A i \in 1 .. Len(shelf) : shelf[i].call \in Nat
      <3>1. \A i \in 1 .. Len(shelf) : shelf[i] \in Place
        BY <1>3
      <3> QED
        BY <3>1 DEF Place
    <2> QED
      BY <1>3, <2>1
  <1>6. \A x \in shelved : x.call # call /\ x.call <= call
    BY <1>3
  <1>7. call \in Nat
    BY <1>3
  <1> HIDE DEF call, n
  <1>8. InProgress(shelf, [text |-> text, todo |-> rows], call)
    <2>1. OnShelf(shelf, call, rows, 0, Len(shelf) - 0)
      BY <1>3, <1>5, NoneShelved
    <2>2. rows = SubSeq(rows, 0 + 1, n)
      <3> HIDE DEF rows
      <3> QED
        BY <1>2 DEF n
    <2>3. 0 \in 0 .. n /\ 0 <= Len(shelf)
      BY <1>2, <1>3
    <2> HIDE DEF rows
    <2> QED
      BY <1>1, <2>1, <2>2, <2>3 DEF InProgress, rows, n
  <1> HIDE DEF rows
  <1> QED
    BY <1>3, <1>4, <1>5, <1>6, <1>7, <1>8 DEF FilingInv

LEMMA ShelveChunkInv ==
    ASSUME FilingInv, ShelveChunk
    PROVE  FilingInv'
  <1> DEFINE rows == Split(filing.text)
             n == Len(rows)
             p == [text |-> filing.text, call |-> requests, row |-> Head(filing.todo)]
  <1>1. /\ requests \in Nat /\ shelf \in Seq(Place) /\ Len(shelf) \in Nat
        /\ \A i \in 1 .. Len(shelf) : shelf[i].call <= requests
        /\ \A x \in shelved :
              /\ x.text \in Seq(Block) /\ x.call \in Nat /\ x.call <= requests
              /\ \E base \in Nat :
                    OnShelf(shelf, x.call, Split(x.text), Len(Split(x.text)), base)
    BY DEF FilingInv
  <1>2. /\ requests' = requests /\ shelf' = Append(shelf, p) /\ shelved' = shelved
        /\ filing' = [filing EXCEPT !.todo = Tail(@)] /\ filing.todo # <<>>
    BY DEF ShelveChunk
  <1>3. ~FilingIdle
    BY <1>2 DEF FilingIdle, NoFiling
  <1>4. /\ \A x \in shelved : x.call # requests
        /\ filing = [text |-> filing.text, todo |-> filing.todo]
        /\ InProgress(shelf, filing, requests)
    BY <1>3 DEF FilingInv, InProgress
  <1>5. PICK k \in 0 .. n : /\ k <= Len(shelf) /\ filing.todo = SubSeq(rows, k + 1, n)
                            /\ OnShelf(shelf, requests, rows, k, Len(shelf) - k)
    BY <1>4 DEF InProgress
  <1>6. filing.text \in Seq(Block) /\ rows \in Seq(Chunks) /\ n \in Nat
    <2>1. filing.text \in Seq(Block)
      BY <1>4 DEF InProgress
    <2> QED
      BY <2>1, SplitFills DEF Filled
  <1> HIDE DEF rows
  <1>7. /\ k \in Nat /\ k < n /\ Head(filing.todo) = rows[k + 1]
        /\ Tail(filing.todo) = SubSeq(rows, (k + 1) + 1, n)
    <2> DEFINE todo == SubSeq(rows, k + 1, n)
    <2>1. /\ todo \in Seq(Chunks) /\ Len(todo) = IF k + 1 <= n THEN n - k ELSE 0
          /\ \A i \in 1 .. Len(todo) : todo[i] = rows[k + i]
      <3>1. k + 1 \in Nat /\ n \in Nat /\ n = Len(rows) /\ k <= n
        BY <1>6
      <3> HIDE DEF n
      <3> QED
        BY <1>6, <3>1
    <2>2. k < n
      <3>1. SUFFICES ASSUME ~(k < n) PROVE FALSE
        OBVIOUS
      <3>2. Len(todo) = 0
        BY <1>6, <2>1, <3>1
      <3> HIDE DEF todo
      <3>3. todo = <<>>
        BY <2>1, <3>2
      <3> QED
        BY <1>2, <1>5, <3>3 DEF todo
    <2> DEFINE rest == SubSeq(rows, (k + 1) + 1, n)
    <2>3. /\ rest \in Seq(Chunks) /\ Len(rest) = n - (k + 1)
          /\ \A i \in 1 .. Len(rest) : rest[i] = rows[(k + 1) + i]
      BY <1>6, <2>2
    <2>4. Len(todo) = n - k
      BY <1>6, <2>1, <2>2
    <2> HIDE DEF todo, rest
    <2>5. Head(todo) = rows[k + 1]
      BY <1>6, <2>1, <2>2, <2>4
    <2> DEFINE tail == Tail(todo)
    <2>6. /\ tail \in Seq(Chunks) /\ Len(tail) = n - (k + 1)
          /\ \A i \in 1 .. Len(tail) : tail[i] = todo[i + 1]
      BY <1>6, <2>1, <2>2, <2>4
    <2> HIDE DEF tail
    <2>7. \A i \in 1 .. n - (k + 1) : tail[i] = rest[i]
      <3>1. \A i \in 1 .. n - (k + 1) : i + 1 \in 1 .. n - k /\ k + (i + 1) = (k + 1) + i
        BY <1>6, <2>2
      <3> QED
        BY <2>1, <2>3, <2>4, <2>6, <3>1
    <2>8. tail = rest
      BY <2>3, <2>6, <2>7
    <2> QED
      BY <1>5, <2>2, <2>5, <2>8 DEF todo, tail, rest
  <1>8. p \in Place /\ p.call = requests /\ p.row = rows[k + 1]
    <2>1. rows[k + 1] \in Chunks
      BY <1>6, <1>7
    <2> QED
      BY <1>1, <1>6, <1>7, <2>1 DEF Place
  <1> DEFINE next == Append(shelf, p)
  <1> HIDE DEF p, n
  <1>9. /\ next \in Seq(Place) /\ Len(next) = Len(shelf) + 1
        /\ next[Len(shelf) + 1] = p /\ \A i \in 1 .. Len(shelf) : next[i] = shelf[i]
    BY <1>1, <1>8
  <1>10. OnShelf(next, requests, rows, k + 1, Len(next) - (k + 1))
    <2>1. OnShelf(shelf, p.call, rows, k, Len(shelf) - k)
      BY <1>5, <1>8
    <2> QED
      BY <1>1, <1>5, <1>7, <1>8, <2>1, OneMoreShelved
  <1>11. ASSUME NEW x \in shelved
         PROVE  \E base \in Nat : OnShelf(next, x.call, Split(x.text), Len(Split(x.text)), base)
    <2> DEFINE all == Split(x.text)
    <2>1. PICK base \in Nat : OnShelf(shelf, x.call, all, Len(all), base)
      BY <1>1
    <2>2. Len(all) \in Nat /\ x.call \in Nat /\ p.call # x.call
      <3>1. all \in Seq(Chunks)
        BY <1>1, SplitFills DEF Filled
      <3> QED
        BY <1>1, <1>4, <1>8, <3>1
    <2> HIDE DEF all
    <2>3. OnShelf(next, x.call, all, Len(all), base)
      BY <1>1, <1>8, <2>1, <2>2, OthersStay
    <2> QED
      BY <2>3 DEF all
  <1> HIDE DEF next
  <1>12. \A i \in 1 .. Len(next) : next[i].call <= requests
    <2>1. \A i \in 1 .. Len(next) : i \in 1 .. Len(shelf) \/ i = Len(shelf) + 1
      BY <1>1, <1>9
    <2>2. requests <= requests
      BY <1>1
    <2> QED
      BY <1>1, <1>8, <1>9, <2>1, <2>2
  <1>13. InProgress(next, filing', requests)
    <2>1. /\ filing'.text = filing.text /\ filing'.todo = SubSeq(rows, (k + 1) + 1, n)
          /\ filing' = [text |-> filing'.text, todo |-> filing'.todo]
      BY <1>2, <1>4, <1>7
    <2>2. k + 1 \in 0 .. n /\ k + 1 <= Len(next)
      BY <1>1, <1>5, <1>6, <1>7, <1>9 DEF n
    <2> QED
      BY <1>6, <1>10, <2>1, <2>2 DEF InProgress, rows, n
  <1> QED
    BY <1>1, <1>2, <1>4, <1>9, <1>11, <1>12, <1>13 DEF FilingInv, next

LEMMA AnswerMarkdownInv ==
    ASSUME FilingInv, AnswerMarkdown
    PROVE  FilingInv'
  <1> DEFINE rows == Split(filing.text)
             n == Len(rows)
             new == [text |-> filing.text, call |-> requests]
  <1>1. /\ requests \in Nat /\ shelf \in Seq(Place) /\ Len(shelf) \in Nat
        /\ \A i \in 1 .. Len(shelf) : shelf[i].call <= requests
        /\ \A x \in shelved :
              /\ x.text \in Seq(Block) /\ x.call \in Nat /\ x.call <= requests
              /\ \E base \in Nat :
                    OnShelf(shelf, x.call, Split(x.text), Len(Split(x.text)), base)
    BY DEF FilingInv
  <1>2. /\ requests' = requests /\ shelf' = shelf /\ shelved' = shelved \cup {new}
        /\ filing' = NoFiling /\ filing.todo = <<>> /\ ~FilingIdle
    BY DEF AnswerMarkdown
  <1>3. InProgress(shelf, filing, requests)
    BY <1>2 DEF FilingInv
  <1>4. PICK k \in 0 .. n : /\ k <= Len(shelf) /\ filing.todo = SubSeq(rows, k + 1, n)
                            /\ OnShelf(shelf, requests, rows, k, Len(shelf) - k)
    BY <1>3 DEF InProgress
  <1>5. filing.text \in Seq(Block) /\ rows \in Seq(Chunks) /\ n \in Nat
    <2>1. filing.text \in Seq(Block)
      BY <1>3 DEF InProgress
    <2> QED
      BY <2>1, SplitFills DEF Filled
  <1>6. k = n
    <2> HIDE DEF rows
    <2>1. SUFFICES ASSUME k < n PROVE FALSE
      BY <1>5
    <2> DEFINE todo == SubSeq(rows, k + 1, n)
    <2>2. Len(todo) = n - k
      BY <1>5, <2>1
    <2>3. todo = <<>>
      BY <1>2, <1>4
    <2> HIDE DEF todo
    <2>4. Len(todo) = 0
      BY <2>3
    <2> QED
      BY <1>5, <2>1, <2>2, <2>4
  <1>7. /\ new.text \in Seq(Block) /\ new.call \in Nat /\ new.call <= requests
        /\ \E base \in Nat : OnShelf(shelf, new.call, Split(new.text), Len(Split(new.text)), base)
    <2>1. Len(shelf) - k \in Nat
      BY <1>1, <1>4
    <2>2. new.text = filing.text /\ new.call = requests
      OBVIOUS
    <2> HIDE DEF new
    <2> QED
      BY <1>1, <1>4, <1>5, <1>6, <2>1, <2>2
  <1> HIDE DEF new
  <1>8. \A x \in shelved' :
           /\ x.text \in Seq(Block) /\ x.call \in Nat /\ x.call <= requests
           /\ \E base \in Nat :
                 OnShelf(shelf, x.call, Split(x.text), Len(Split(x.text)), base)
    BY <1>1, <1>2, <1>7
  <1>9. FilingIdle'
    BY <1>2 DEF FilingIdle
  <1> QED
    BY <1>1, <1>2, <1>8, <1>9 DEF FilingInv

LEMMA IngestRecordInv ==
    ASSUME FilingInv, NEW r, IngestRecord(r)
    PROVE  FilingInv'
  <1>1. /\ requests \in Nat /\ shelf \in Seq(Place)
        /\ \A i \in 1 .. Len(shelf) : shelf[i].call <= requests
        /\ \A x \in shelved :
              /\ x.text \in Seq(Block) /\ x.call \in Nat /\ x.call <= requests
              /\ \E base \in Nat :
                    OnShelf(shelf, x.call, Split(x.text), Len(Split(x.text)), base)
    BY DEF FilingInv
  <1>2. /\ requests' = requests + 1 /\ shelf' = shelf /\ shelved' = shelved
        /\ filing' = filing /\ FilingIdle
    BY DEF IngestRecord
  <1>3. \A i \in 1 .. Len(shelf) : shelf[i].call <= requests + 1
    <2>1. \A i \in 1 .. Len(shelf) : shelf[i].call \in Nat
      <3>1. \A i \in 1 .. Len(shelf) : shelf[i] \in Place
        BY <1>1
      <3> QED
        BY <3>1 DEF Place
    <2> QED
      BY <1>1, <2>1
  <1>4. \A x \in shelved : x.call <= requests + 1
    BY <1>1
  <1>5. FilingIdle' /\ requests + 1 \in Nat
    BY <1>1, <1>2 DEF FilingIdle
  <1> QED
    BY <1>1, <1>2, <1>3, <1>4, <1>5 DEF FilingInv

\* The process ends, or nothing of the documents changes.
LEMMA FilingEnds ==
    ASSUME FilingInv, filing' = NoFiling \/ filing' = filing,
           shelf' = shelf, shelved' = shelved, requests' = requests
    PROVE  FilingInv'
  BY DEF FilingInv, FilingIdle

LEMMA FilingStepInv ==
    ASSUME FilingInv, [Next]_vars
    PROVE  FilingInv'
  <1>1. ASSUME NEW text \in Texts, RememberMarkdown(text)
        PROVE  FilingInv'
    BY <1>1, RememberMarkdownInv
  <1>2. ASSUME NEW r \in Records, IngestRecord(r)
        PROVE  FilingInv'
    BY <1>2, IngestRecordInv
  <1>3. ASSUME ShelveChunk PROVE FilingInv'
    BY <1>3, ShelveChunkInv
  <1>4. ASSUME AnswerMarkdown PROVE FilingInv'
    BY <1>4, AnswerMarkdownInv
  <1>5. ASSUME UNCHANGED documentVars PROVE FilingInv'
    BY <1>5, FilingEnds DEF documentVars
  <1>6. ASSUME Restart PROVE FilingInv'
    BY <1>6, FilingEnds DEF Restart
  <1>7. CASE CallFacade
    BY <1>5, <1>7 DEF CallFacade
  <1>8. CASE CallCurriculum
    BY <1>5, <1>8 DEF CallCurriculum, documentVars
  <1>9. CASE CallDocuments
    BY <1>1, <1>2, <1>9 DEF CallDocuments
  <1>10. CASE Work
    BY <1>5, <1>10 DEF Work
  <1>11. CASE File
    BY <1>3, <1>4, <1>11 DEF File
  <1>12. CASE Write
    BY <1>5, <1>12 DEF Write
  <1>13. CASE UNCHANGED vars
    BY <1>5, <1>13 DEF vars
  <1> QED
    BY <1>6, <1>7, <1>8, <1>9, <1>10, <1>11, <1>12, <1>13 DEF Next

\* What is on the shelf is what the answered calls split and, if one is in
\* progress, the first of its chunks, each call's in one piece (RememberMarkdown,
\* ShelveChunk, AnswerMarkdown).
THEOREM FilingInvariant == Spec => []FilingInv
  <1>1. Init => FilingInv
    <2> SUFFICES ASSUME Init PROVE FilingInv
      OBVIOUS
    <2>1. requests = 0 /\ shelf = <<>> /\ shelved = {} /\ FilingIdle
      BY DEF Init, DocumentsInit, FilingIdle
    <2>2. <<>> \in Seq(Place) /\ Len(<<>>) = 0 /\ 1 .. 0 = {}
      OBVIOUS
    <2> QED
      BY <2>1, <2>2 DEF FilingInv
  <1>2. FilingInv /\ [Next]_vars => FilingInv'
    BY FilingStepInv
  <1> QED
    BY <1>1, <1>2, PTL DEF Spec

\* The chunks of a call are its document: what Filled says of them is true of
\* the places it has on the shelf.
LEMMA ShelvedIsWhole ==
    ASSUME FilingInv, NEW x \in shelved
    PROVE  /\ UNION {UNION {InkOf(x.text, shelf[i].row.pieces[p]) :
                              p \in DOMAIN shelf[i].row.pieces} : i \in Filed(x.call)}
                 = Ink(x.text)
           /\ \A i, j \in Filed(x.call) :
                 \A p \in DOMAIN shelf[i].row.pieces, q \in DOMAIN shelf[j].row.pieces :
                    InkOf(x.text, shelf[i].row.pieces[p])
                        \cap InkOf(x.text, shelf[j].row.pieces[q]) # {} => i = j /\ p = q
           /\ \A i \in Filed(x.call) :
                 /\ SizeOf(shelf[i].row.pieces) <= MaxChars
                 /\ \A p \in DOMAIN shelf[i].row.pieces :
                       Under(x.text, shelf[i].row.pieces[p].block, shelf[i].row.path)
           /\ \A i, j \in Filed(x.call) :
                 i < j => Last(shelf[i].row.pieces).block <= Head(shelf[j].row.pieces).block
  <1> DEFINE text == x.text
             z == Len(text)
             rows == Split(text)
             n == Len(rows)
             at == Filed(x.call)
             cs == PiecesOf(rows)
             pieces(i) == shelf[i].row.pieces
             I(i, p) == InkOf(text, pieces(i)[p])
  <1>1. /\ shelf \in Seq(Place) /\ text \in Seq(Block)
        /\ \E base \in Nat : OnShelf(shelf, x.call, rows, n, base)
    BY DEF FilingInv
  <1>2. PICK base \in Nat : OnShelf(shelf, x.call, rows, n, base)
    BY <1>1
  <1>3. /\ rows \in Seq(Chunks) /\ n \in Nat /\ DOMAIN rows = 1 .. n /\ Holds(text, cs, 0, z)
        /\ \A r \in 1 .. n : \A p \in 1 .. Len(rows[r].pieces) :
              Under(text, rows[r].pieces[p].block, rows[r].path)
    <2>1. Filled(text, rows, z)
      BY <1>1, SplitFills
    <2> QED
      BY <2>1 DEF Filled
  <1> HIDE DEF text, z, rows, n
  <1>4. /\ DOMAIN shelf = 1 .. Len(shelf) /\ Len(shelf) \in Nat
    BY <1>1
  <1>5. at = base + 1 .. base + n
    <2>1. \A i : i \in at <=> i \in 1 .. Len(shelf) /\ i \in base + 1 .. base + n
      BY <1>2, <1>4 DEF OnShelf, Filed
    <2>2. base + 1 .. base + n \subseteq 1 .. Len(shelf)
      BY <1>2, <1>3, <1>4 DEF OnShelf
    <2> QED
      BY <2>1, <2>2
  <1> HIDE DEF at, cs
  <1>6. \A r \in 1 .. n : base + r \in at /\ shelf[base + r].row = rows[r] /\ cs[r] = rows[r].pieces
    <2>1. \A r \in 1 .. n : base + r \in base + 1 .. base + n
      BY <1>3
    <2>2. cs = [r \in 1 .. n |-> rows[r].pieces]
      BY <1>3 DEF cs, PiecesOf
    <2> QED
      BY <1>2, <1>5, <2>1, <2>2 DEF OnShelf
  <1>7. \A i \in at : \E r \in 1 .. n : i = base + r
    <2>1. \A i \in base + 1 .. base + n : i - base \in 1 .. n /\ i = base + (i - base)
      BY <1>3
    <2> QED
      BY <1>5, <2>1
  <1>8. /\ cs \in Seq(Seq(Pieces)) /\ Len(cs) = n
        /\ \A r \in 1 .. n : /\ cs[r] \in Seq(Pieces) /\ cs[r] # <<>> /\ Len(cs[r]) \in Nat
                             /\ DOMAIN cs[r] = 1 .. Len(cs[r])
    <2>1. cs \in Seq(Seq(Pieces)) /\ Bounded(text, cs, 0, z)
      BY <1>3 DEF Holds
    <2>2. Len(cs) = n
      <3>1. DOMAIN cs = 1 .. n /\ DOMAIN cs = 1 .. Len(cs) /\ Len(cs) \in Nat
        BY <1>3, <2>1 DEF cs, PiecesOf
      <3> QED
        BY <1>3, <3>1
    <2>3. \A r \in 1 .. n : cs[r] \in Seq(Pieces)
      BY <2>1, <2>2
    <2> QED
      BY <2>1, <2>2, <2>3 DEF Bounded
  <1>9. /\ Bounded(text, cs, 0, z) /\ Covered(text, cs, 0, z) /\ Apart(text, cs) /\ Ordered(cs)
    BY <1>3 DEF Holds
  <1>10. \A r \in 1 .. n : pieces(base + r) = cs[r]
    BY <1>6
  <1>11. UNION {UNION {I(i, p) : p \in DOMAIN pieces(i)} : i \in at} = Ink(text)
    <2>1. ASSUME NEW i \in at, NEW p \in DOMAIN pieces(i)
          PROVE  I(i, p) \subseteq Ink(text)
      <3>1. PICK r \in 1 .. n : i = base + r
        BY <1>7
      <3>2. pieces(i) = cs[r] /\ p \in 1 .. Len(cs[r])
        BY <1>8, <1>10, <3>1
      <3> QED
        BY <1>8, <1>9, <3>2 DEF Bounded
    <2>2. ASSUME NEW y \in Ink(text)
          PROVE  \E i \in at : \E p \in DOMAIN pieces(i) : y \in I(i, p)
      <3>1. PICK b \in DOMAIN text : y \in InkOf(text, Whole(text, b))
        BY DEF Ink
      <3>2. b \in 0 + 1 .. z
        BY <1>1 DEF z
      <3>3. PICK r \in 1 .. n : \E p \in 1 .. Len(cs[r]) : y \in InkOf(text, cs[r][p])
        BY <1>8, <1>9, <3>1, <3>2 DEF Covered
      <3> QED
        BY <1>6, <1>8, <1>10, <3>3
    <2> HIDE DEF I, pieces
    <2> QED
      BY <2>1, <2>2
  <1>12. ASSUME NEW i \in at, NEW j \in at, NEW p \in DOMAIN pieces(i), NEW q \in DOMAIN pieces(j),
                I(i, p) \cap I(j, q) # {}
         PROVE  i = j /\ p = q
    <2>1. PICK r \in 1 .. n : i = base + r
      BY <1>7
    <2>2. PICK s \in 1 .. n : j = base + s
      BY <1>7
    <2>3. pieces(i) = cs[r] /\ pieces(j) = cs[s] /\ p \in 1 .. Len(cs[r]) /\ q \in 1 .. Len(cs[s])
      BY <1>8, <1>10, <2>1, <2>2
    <2>4. PICK y \in I(i, p) : y \in I(j, q)
      BY <1>12
    <2>5. r = s /\ p = q
      BY <1>8, <1>9, <2>3, <2>4 DEF Apart
    <2> QED
      BY <2>1, <2>2, <2>5
  <1>13. ASSUME NEW i \in at
         PROVE  /\ SizeOf(pieces(i)) <= MaxChars
                /\ \A p \in DOMAIN pieces(i) : Under(text, pieces(i)[p].block, shelf[i].row.path)
    <2>1. PICK r \in 1 .. n : i = base + r
      BY <1>7
    <2>2. pieces(i) = cs[r] /\ shelf[i].row = rows[r] /\ cs[r] = rows[r].pieces
      BY <1>6, <2>1
    <2>3. SizeOf(cs[r]) <= MaxChars
      BY <1>8, <1>9 DEF Bounded
    <2> QED
      BY <1>3, <1>8, <2>2, <2>3
  <1>14. ASSUME NEW i \in at, NEW j \in at, i < j
         PROVE  Last(pieces(i)).block <= Head(pieces(j)).block
    <2>1. PICK r \in 1 .. n : i = base + r
      BY <1>7
    <2>2. PICK s \in 1 .. n : j = base + s
      BY <1>7
    <2>3. r < s
      BY <1>14, <2>1, <2>2
    <2> DEFINE u == cs[r]
               v == cs[s]
    <2>4. pieces(i) = u /\ pieces(j) = v
      BY <1>10, <2>1, <2>2
    <2>5. /\ u \in Seq(Pieces) /\ u # <<>> /\ v \in Seq(Pieces) /\ v # <<>>
          /\ Len(u) \in Nat /\ Len(v) \in Nat
      BY <1>8
    <2>6. \A p \in 1 .. Len(u), q \in 1 .. Len(v) : u[p].block <= v[q].block
      BY <1>8, <1>9, <2>3 DEF Ordered
    <2> HIDE DEF u, v
    <2>7. Len(u) \in 1 .. Len(u) /\ 1 \in 1 .. Len(v)
      BY <2>5
    <2>8. Last(u) = u[Len(u)] /\ Head(v) = v[1]
      BY <2>5 DEF Last
    <2> QED
      BY <2>4, <2>6, <2>7, <2>8
  <1> QED
    BY <1>11, <1>12, <1>13, <1>14 DEF text, at

\* An answered document is on the shelf as a whole (remember_markdown and its
\* split_markdown_sections, _chunk_text and _split_long_paragraph).
THEOREM DocumentsAreWholeThm == Spec => []DocumentsAreWhole
  <1>1. ASSUME FilingInv PROVE DocumentsAreWhole
    BY <1>1, ShelvedIsWhole DEF DocumentsAreWhole, Under
  <1> QED
    BY FilingInvariant, <1>1, PTL

=============================================================================
