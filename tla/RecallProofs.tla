---------------------------- MODULE RecallProofs -----------------------------
(***************************************************************************)
(* Recall, for any memories, queries, processes and sizes:                 *)
(*   - a memory that is no longer active is not lifted by that over what   *)
(*     it would score as an active one, unless the query asks for history  *)
(*     (lifecycle.py);                                                     *)
(*   - the addresses of the Mobius space (mobius.py);                      *)
(*   - results answer the query, none is recalled before a critical memory *)
(*     that is not, and the cache only lists what was answered (IInv),     *)
(*     while other processes write between any two layers (recall.py).     *)
(***************************************************************************)
EXTENDS Recall, FiniteSetTheorems, TLAPS

-----------------------------------------------------------------------------
(* The lifecycle's weights. *)

LEMMA ClampOrder ==
    ASSUME NEW x \in Int, NEW y \in Int, x <= y, NEW top \in Nat
    PROVE  /\ Clamp(x, top) \in Int /\ Clamp(y, top) \in Int
           /\ Clamp(x, top) <= Clamp(y, top)
           /\ 0 <= Clamp(x, top) /\ Clamp(x, top) <= top
BY DEF Clamp

\* The active memory that only differs in its state.
LEMMA Activated ==
    ASSUME NEW l \in View
    PROVE  LET active == [l EXCEPT !.state = "active"] IN
           /\ active.state = "active" /\ active.from = l.from /\ active.to = l.to
           /\ active.bonus = l.bonus /\ active.delta = l.delta /\ active.base = l.base
BY DEF View

\* Where nothing lifts a memory, its state takes at least as much from its
\* importance as being active does.
LEMMA AdjustmentOrder ==
    ASSUME NEW l \in View, NEW q \in Asks, NEW at \in Int, NeverLifted(l, q)
    PROVE  LET active == [l EXCEPT !.state = "active"] IN
           /\ StateAdjustment(l, q, at) \in Int
           /\ StateAdjustment(active, q, at) \in Int
           /\ StateAdjustment(l, q, at) <= StateAdjustment(active, q, at)
<1> DEFINE active == [l EXCEPT !.state = "active"]
<1> HIDE DEF active
<1>1. /\ active.state = "active" /\ active.from = l.from /\ active.to = l.to
      /\ l.state \in States /\ l.from \in Int /\ l.to \in Int
      /\ q.cur \in BOOLEAN /\ q.hist \in BOOLEAN
  BY Activated DEF View, Asks, active
<1>2. ActiveAt(active, at) = ActiveAt(l, at) /\ ActiveAt(l, at) \in BOOLEAN
  BY <1>1 DEF ActiveAt
<1> DEFINE out == IF ~ActiveAt(l, at) /\ ~q.hist THEN 50 ELSE 0
<1>3. out \in Int
  OBVIOUS
<1>4. StateAdjustment(active, q, at) = 0 - out
  <2>1. (IF ~ActiveAt(active, at) /\ ~q.hist THEN 50 ELSE 0) = out
    BY <1>2
  <2> HIDE DEF out
  <2>2. Penalty(active.state) = 0 /\ active.state \notin Kept
        /\ active.state # "contradicted" /\ active.state # "superseded"
    BY <1>1 DEF Penalty, Kept
  <2>3. QED
    BY <2>1, <2>2, <1>3 DEF StateAdjustment
<1>5. StateAdjustment(l, q, at) \in Int /\ StateAdjustment(l, q, at) <= 0 - out
  <2> DEFINE a == Penalty(l.state)
             b == IF q.hist /\ l.state \in Kept THEN 25 ELSE 0
             c == IF q.hist /\ l.state = "contradicted" THEN 10 ELSE 0
             d == IF q.cur /\ l.state = "superseded" THEN 12 ELSE 0
  <2>1. a \in Int /\ b \in Int /\ c \in Int /\ d \in Int
    BY <1>1 DEF Penalty, States
  <2>2. StateAdjustment(l, q, at) = a + b + c - d - out
    BY DEF StateAdjustment
  <2>3. a + b + c - d <= 0
    <3>1. CASE ~q.hist
      BY <1>1, <3>1 DEF Penalty, Kept, States
    <3>2. CASE q.hist /\ l.state = "contradicted"
      BY <3>2 DEF Penalty, Kept
    <3>3. CASE q.hist /\ l.state = "superseded" /\ q.cur
      BY <3>3 DEF Penalty, Kept
    <3>4. QED
      BY <1>1, <3>1, <3>2, <3>3 DEF NeverLifted
  <2> HIDE DEF a, b, c, d, out
  <2>4. QED
    BY <1>3, <2>1, <2>2, <2>3
<1> HIDE DEF out
<1>6. QED
  BY <1>3, <1>4, <1>5 DEF active

\* The same of effective_importance, which is within its bounds.
LEMMA ImportanceOrder ==
    ASSUME NEW l \in View, NEW q \in Asks, NEW at \in Int, NeverLifted(l, q),
           l.state # "deleted"
    PROVE  LET active == [l EXCEPT !.state = "active"] IN
           /\ EffectiveImportance(l, q, at) \in Int
           /\ EffectiveImportance(active, q, at) \in Int
           /\ EffectiveImportance(l, q, at) <= EffectiveImportance(active, q, at)
<1> DEFINE active == [l EXCEPT !.state = "active"]
           x == StateAdjustment(l, q, at)
           y == StateAdjustment(active, q, at)
<1>1. /\ active.state = "active" /\ active.bonus = l.bonus /\ active.delta = l.delta
      /\ active.base = l.base
  BY Activated
<1>2. x \in Int /\ y \in Int /\ x <= y
  BY AdjustmentOrder
<1>3. l.base \in Int /\ l.delta \in Int /\ l.bonus \in Int
  BY DEF View
<1> HIDE DEF active, x, y
<1>4. EffectiveImportance(l, q, at) = Clamp(l.base + l.delta + x + l.bonus, 100)
  BY DEF EffectiveImportance, x
<1>5. EffectiveImportance(active, q, at) = Clamp(l.base + l.delta + y + l.bonus, 100)
  BY <1>1 DEF EffectiveImportance, y
<1>6. /\ l.base + l.delta + x + l.bonus \in Int /\ l.base + l.delta + y + l.bonus \in Int
      /\ l.base + l.delta + x + l.bonus <= l.base + l.delta + y + l.bonus
  BY <1>2, <1>3
<1>7. QED
  BY <1>4, <1>5, <1>6, ClampOrder DEF active

\* The score too is moved down by what is not active.
LEMMA ScoreAdjustmentOrder ==
    ASSUME NEW l \in View, NEW q \in Asks, NEW at \in Int, NeverLifted(l, q),
           l.state # "deleted", NEW score \in Int
    PROVE  LET active == [l EXCEPT !.state = "active"] IN
           AdjustedScore(l, score, q, at) <= AdjustedScore(active, score, q, at)
<1> DEFINE active == [l EXCEPT !.state = "active"]
           x == EffectiveImportance(l, q, at)
           y == EffectiveImportance(active, q, at)
<1>1. active.state = "active" /\ active.base = l.base
  BY Activated
<1>2. x \in Int /\ y \in Int /\ x <= y
  BY ImportanceOrder
<1>3. l.base \in Int /\ l.state \in States /\ q.hist \in BOOLEAN /\ q.cur \in BOOLEAN
  BY DEF View, Asks
<1> HIDE DEF active, x, y
<1>4. ScoreAdjustment(active, q) = 0
  BY <1>1 DEF ScoreAdjustment, Kept
<1>5. ScoreAdjustment(l, q) \in Int
  BY <1>3 DEF ScoreAdjustment
<1>n. /\ (~q.hist) => ScoreAdjustment(l, q) <= 0
      /\ l.state = "contradicted" => ScoreAdjustment(l, q) <= 0
      /\ (l.state = "superseded" /\ q.cur) => ScoreAdjustment(l, q) <= 0
  BY <1>3 DEF ScoreAdjustment, Kept
<1>6. ScoreAdjustment(l, q) <= 0
  BY <1>n DEF NeverLifted
<1>7. AdjustedScore(l, score, q, at)
        = Clamp(score + (x - l.base) * 65 + ScoreAdjustment(l, q), 10000)
  BY DEF AdjustedScore, x
<1>8. AdjustedScore(active, score, q, at) = Clamp(score + (y - l.base) * 65 + 0, 10000)
  BY <1>1, <1>4 DEF AdjustedScore, y
<1>9. /\ score + (x - l.base) * 65 + ScoreAdjustment(l, q) \in Int
      /\ score + (y - l.base) * 65 + 0 \in Int
      /\ score + (x - l.base) * 65 + ScoreAdjustment(l, q) <= score + (y - l.base) * 65 + 0
  BY <1>2, <1>3, <1>5, <1>6
<1>10. QED
  BY <1>7, <1>8, <1>9, ClampOrder DEF active

\* lifecycle.adjusted_score and should_recall, for every view a memory may
\* have, whatever its importance, its use and the importance_delta of its
\* metadata: what is historical, superseded, contradicted or archival is never
\* ranked or shown above the same memory while it was active, unless the query
\* asks for history, and what is deleted scores nothing.
THEOREM InactiveIsDownranked ==
    ASSUME NEW l \in View, NEW score \in Int, NEW q \in Asks, NEW at \in Int
    PROVE  DownrankedUnlessHistorical(l, score, q, at)
<1> DEFINE active == [l EXCEPT !.state = "active"]
<1>1. active.state = "active" /\ active.from = l.from /\ active.to = l.to
  BY Activated
<1>2. l.state = "deleted" => AdjustedScore(l, score, q, at) = 0
  BY DEF AdjustedScore
<1>3. ShouldRecall(l, q, at) => ShouldRecall(active, q, at)
  <2> HIDE DEF active
  <2>1. ActiveAt(active, at) <=> ActiveAt(l, at)
    BY <1>1 DEF ActiveAt
  <2>2. QED
    BY <1>1, <2>1 DEF ShouldRecall
<1>4. ASSUME NeverLifted(l, q)
      PROVE  AdjustedScore(l, score, q, at) <= AdjustedScore(active, score, q, at)
  <2>1. CASE l.state # "deleted"
    BY <1>4, <2>1, ScoreAdjustmentOrder
  <2>2. CASE l.state = "deleted"
    <3> DEFINE x == score + (EffectiveImportance(active, q, at) - active.base) * 65
                    + ScoreAdjustment(active, q)
    <3>1. AdjustedScore(active, score, q, at) = Clamp(x, 10000)
      BY <1>1 DEF AdjustedScore
    <3>2. 0 <= Clamp(x, 10000)
      <4>1. x \in Int
        <5>1. active \in View /\ active.state # "deleted"
          BY DEF View, States
        <5>2. NeverLifted(active, q) \/ q.hist
          BY DEF NeverLifted, Asks
        <5>3. EffectiveImportance(active, q, at) \in Int /\ active.base \in Int
          BY <5>1 DEF EffectiveImportance, StateAdjustment, Penalty, Clamp, View, ActiveAt, Asks
        <5>4. ScoreAdjustment(active, q) \in Int
          BY <1>1 DEF ScoreAdjustment, Asks
        <5>5. QED BY <5>3, <5>4
      <4>2. QED BY <4>1, ClampOrder
    <3>3. QED BY <1>2, <2>2, <3>1, <3>2
  <2>3. QED BY <2>1, <2>2
<1>5. QED
  BY <1>2, <1>3, <1>4 DEF DownrankedUnlessHistorical

-----------------------------------------------------------------------------
(* The Mobius space. *)

LEMMA Modulo ==
    ASSUME NEW x \in Int, NEW n \in Nat \ {0}
    PROVE  x % n \in 0 .. n - 1
BY Z3

LEMMA ReflectInRange ==
    ASSUME NEW v \in Int, NEW size \in Nat \ {0}
    PROVE  Reflect(v, size) \in 0 .. size - 1
<1>1. CASE size <= 1
  BY <1>1 DEF Reflect
<1>2. CASE size > 1
  <2> DEFINE period == 2 * (size - 1)
             position == v % period
  <2>1. period \in Nat \ {0} /\ period <= 2 * size - 2
    BY <1>2
  <2>2. position \in 0 .. period - 1
    BY <2>1, Modulo
  <2> HIDE DEF position
  <2>3. Reflect(v, size) = IF position >= size THEN period - position ELSE position
    BY <1>2 DEF Reflect, position
  <2>4. QED
    BY <1>2, <2>2, <2>3
<1>3. QED BY <1>1, <1>2

\* What is on the axis is not reflected.
LEMMA ReflectKeeps ==
    ASSUME NEW size \in Nat \ {0}, NEW v \in 0 .. size - 1
    PROVE  Reflect(v, size) = v
<1>1. CASE size <= 1
  BY <1>1 DEF Reflect
<1>2. CASE size > 1
  <2>1. v < 2 * (size - 1) \/ (size = 2 /\ v = 0) \/ (size = 2 /\ v = 1)
    BY <1>2
  <2>2. v % (2 * (size - 1)) = v
    BY <1>2, <2>1
  <2>3. QED
    BY <1>2, <2>2 DEF Reflect
<1>3. QED BY <1>1, <1>2

LEMMA WrapInCells ==
    ASSUME NEW u \in Int, NEW v \in Int, NEW w \in Int
    PROVE  Wrap(u, v, w) \in Cells
<1> DEFINE turned == (u \div USize) % 2 = 1
           row == IF turned THEN VSize - 1 - v ELSE v
<1>1. USize \in Nat \ {0} /\ VSize \in Nat \ {0} /\ WSize \in Nat \ {0}
  BY MobiusAssumption
<1>2. row \in Int
  BY <1>1
<1>3. u % USize \in 0 .. USize - 1 /\ w % WSize \in 0 .. WSize - 1
  BY <1>1, Modulo
<1>4. Reflect(row, VSize) \in 0 .. VSize - 1
  BY <1>1, <1>2, ReflectInRange
<1>5. QED
  BY <1>3, <1>4 DEF Wrap, Cells

LEMMA CellParts ==
    ASSUME NEW c \in Cells
    PROVE  c.iu \in 0 .. USize - 1 /\ c.iv \in 0 .. VSize - 1 /\ c.iw \in 0 .. WSize - 1
BY DEF Cells

\* mobius.neighbors: whatever the depth, every neighbour is a cell and a cell is
\* among its own neighbours.
THEOREM NeighboursAreCells ==
    ASSUME NEW c \in Cells, NEW depth \in Nat
    PROVE  Neighbours(c, depth) \subseteq Cells
<1> SUFFICES ASSUME NEW d \in (-depth .. depth) \X (-depth .. depth) \X (-depth .. depth)
             PROVE  Wrap(c.iu + d[1], c.iv + d[2], c.iw + d[3]) \in Cells
  BY DEF Neighbours
<1>1. d[1] \in Int /\ d[2] \in Int /\ d[3] \in Int
  OBVIOUS
<1>2. c.iu \in Int /\ c.iv \in Int /\ c.iw \in Int
  BY CellParts, MobiusAssumption
<1>3. QED
  BY <1>1, <1>2, WrapInCells

\* A quotient and a remainder are those of the division.
LEMMA Division ==
    ASSUME NEW n \in Nat \ {0}, NEW q \in Int, NEW r \in 0 .. n - 1
    PROVE  (q * n + r) % n = r /\ (q * n + r) \div n = q
BY Z3

LEMMA Divided ==
    ASSUME NEW x \in Int, NEW n \in Nat \ {0}
    PROVE  /\ x \div n \in Int
           /\ x = (x \div n) * n + (x % n)
BY Z3

\* A reflection brings no point of the axis nearer to a point beyond it.
LEMMA ReflectIsNear ==
    ASSUME NEW size \in Nat \ {0}, NEW x \in Int, NEW y \in 0 .. size - 1
    PROVE  Abs(Reflect(x, size) - y) <= Abs(x - y)
<1>1. CASE size <= 1
  BY <1>1 DEF Reflect, Abs
<1>2. CASE size > 1
  <2> DEFINE period == 2 * (size - 1)
             q == x \div period
             position == x % period
  <2>1. period \in Nat \ {0}
    BY <1>2
  <2>2. /\ q \in Int /\ position \in 0 .. period - 1
        /\ x = q * period + position
    BY <2>1, Modulo, Divided
  <2>3. Reflect(x, size) = IF position >= size THEN period - position ELSE position
    BY <1>2 DEF Reflect
  <2> HIDE DEF q, position
  <2>4. q = 0 \/ (q >= 1 /\ q * period >= period) \/ (q <= -1 /\ q * period <= -period)
    BY <2>1, <2>2, Z3
  <2> DEFINE turn == q * period
  <2>5. turn \in Int /\ x = turn + position
        /\ (turn = 0 \/ turn >= period \/ turn <= -period)
    BY <2>1, <2>2, <2>4
  <2>6. period = 2 * size - 2
    BY <1>2
  <2> HIDE DEF turn, period
  <2>7. QED
    BY <1>2, <2>1, <2>2, <2>3, <2>5, <2>6 DEF Abs
<1>3. QED BY <1>1, <1>2

LEMMA Opposite ==
    ASSUME NEW k \in Int
    PROVE  ((-k) % 2 = 1) <=> (k % 2 = 1)
BY Z3

\* A step round an axis and the step back.
LEMMA StepBack ==
    ASSUME NEW n \in Nat \ {0}, NEW x \in 0 .. n - 1, NEW d \in Int
    PROVE  /\ (((x + d) % n) - d) % n = x
           /\ (((x + d) % n) - d) \div n = -((x + d) \div n)
<1> DEFINE k == (x + d) \div n
           y == (x + d) % n
<1>1. k \in Int /\ y \in Int /\ x + d = k * n + y
  BY Divided, Modulo
<1> HIDE DEF k, y
<1>2. (-k) * n = -(k * n) /\ k * n \in Int
  BY <1>1, Z3
<1>3. y - d = (-k) * n + x
  BY <1>1, <1>2
<1>4. -k \in Int
  BY <1>1
<1>5. ((-k) * n + x) % n = x /\ ((-k) * n + x) \div n = -k
  BY <1>4, Division
<1>6. (y - d) % n = x /\ (y - d) \div n = -k
  BY <1>3, <1>5
<1>7. QED
  BY <1>6 DEF k, y

LEMMA NeighbourIntro ==
    ASSUME NEW c \in Cells, NEW depth \in Nat, NEW u \in Int, NEW v \in Int, NEW w \in Int,
           Abs(u) + Abs(v) + Abs(w) <= depth
    PROVE  Wrap(c.iu + u, c.iv + v, c.iw + w) \in Neighbours(c, depth)
<1>1. u \in -depth .. depth /\ v \in -depth .. depth /\ w \in -depth .. depth
  BY DEF Abs
<1> DEFINE d == <<u, v, w>>
<1>2. d \in (-depth .. depth) \X (-depth .. depth) \X (-depth .. depth)
      /\ d[1] = u /\ d[2] = v /\ d[3] = w
  BY <1>1
<1>3. QED
  BY <1>2 DEF Neighbours

\* neighbors again: which of two memories recall starts from makes no
\* difference, a cell is a neighbour of those that are its own, also across the
\* edge where the band is turned over and at the edges that reflect.
THEOREM NeighboursAreMutual ==
    ASSUME NEW c \in Cells, NEW depth \in Nat, NEW e \in Neighbours(c, depth)
    PROVE  c \in Neighbours(e, depth)
<1>1. USize \in Nat \ {0} /\ VSize \in Nat \ {0} /\ WSize \in Nat \ {0}
  BY MobiusAssumption
<1>2. c.iu \in 0 .. USize - 1 /\ c.iv \in 0 .. VSize - 1 /\ c.iw \in 0 .. WSize - 1
  BY CellParts
<1>3. PICK d \in (-depth .. depth) \X (-depth .. depth) \X (-depth .. depth) :
          /\ Abs(d[1]) + Abs(d[2]) + Abs(d[3]) <= depth
          /\ e = Wrap(c.iu + d[1], c.iv + d[2], c.iw + d[3])
  BY DEF Neighbours
<1>4. d[1] \in Int /\ d[2] \in Int /\ d[3] \in Int
  OBVIOUS
<1>5. e \in Cells
  BY NeighboursAreCells
<1> DEFINE k == (c.iu + d[1]) \div USize
           moved == c.iv + d[2]
           row == IF k % 2 = 1 THEN VSize - 1 - moved ELSE moved
           mine == IF k % 2 = 1 THEN VSize - 1 - c.iv ELSE c.iv
<1>6. /\ e.iu = (c.iu + d[1]) % USize
      /\ e.iv = Reflect(row, VSize)
      /\ e.iw = (c.iw + d[3]) % WSize
  BY <1>3 DEF Wrap
<1>7. /\ (e.iu - d[1]) % USize = c.iu /\ (e.iu - d[1]) \div USize = -k
      /\ (e.iw - d[3]) % WSize = c.iw
  <2>1. /\ (((c.iu + d[1]) % USize) - d[1]) % USize = c.iu
        /\ (((c.iu + d[1]) % USize) - d[1]) \div USize = -((c.iu + d[1]) \div USize)
    BY <1>1, <1>2, <1>4, StepBack
  <2>2. (((c.iw + d[3]) % WSize) - d[3]) % WSize = c.iw
    BY <1>1, <1>2, <1>4, StepBack
  <2>3. QED
    BY <1>6, <2>1, <2>2
<1>8. k \in Int /\ moved \in Int
  BY <1>1, <1>2, <1>4, Divided
<1>9. e.iv \in 0 .. VSize - 1
  BY <1>5, CellParts
<1>10. Abs(e.iv - mine) <= Abs(d[2])
  <2>1. mine \in 0 .. VSize - 1 /\ row \in Int
    BY <1>1, <1>2, <1>8
  <2>2. Abs(e.iv - mine) <= Abs(row - mine)
    BY <1>1, <1>6, <2>1, ReflectIsNear
  <2>3. row - mine = d[2] \/ row - mine = -d[2]
    BY <1>1, <1>2, <1>4
  <2>4. Abs(row - mine) = Abs(d[2])
    BY <1>4, <2>1, <2>3 DEF Abs
  <2>5. QED BY <2>2, <2>4
<1> DEFINE back == mine - e.iv
<1>11. back \in Int /\ Abs(back) <= Abs(d[2]) /\ e.iv + back = mine
  BY <1>1, <1>2, <1>9, <1>10 DEF Abs
<1>12. Abs(-d[1]) + Abs(back) + Abs(-d[3]) <= depth
  BY <1>3, <1>4, <1>11 DEF Abs
<1>13. Wrap(e.iu + (-d[1]), e.iv + back, e.iw + (-d[3])) = c
  <2>1. e.iu + (-d[1]) = e.iu - d[1] /\ e.iw + (-d[3]) = e.iw - d[3]
    BY <1>4, <1>5, <1>1, CellParts
  <2>2. (-k) % 2 = 1 <=> k % 2 = 1
    BY <1>8, Opposite
  <2>3. (IF (-k) % 2 = 1 THEN VSize - 1 - mine ELSE mine) = c.iv
    BY <1>1, <1>2, <2>2
  <2>4. Reflect(c.iv, VSize) = c.iv
    BY <1>1, <1>2, ReflectKeeps
  <2> HIDE DEF k, mine, back
  <2>5. Wrap(e.iu + (-d[1]), e.iv + back, e.iw + (-d[3]))
          = [iu |-> c.iu, iv |-> c.iv, iw |-> c.iw]
    BY <1>7, <1>11, <2>1, <2>3, <2>4 DEF Wrap
  <2>6. QED
    BY <2>5 DEF Cells
<1>14. QED
  BY <1>4, <1>5, <1>11, <1>12, <1>13, NeighbourIntro

Regions == DOMAIN Band

LEMMA BandInRange ==
    ASSUME NEW region \in Regions, NEW byte \in Nat
    PROVE  RegionBand(region, byte) \in 0 .. VSize - 1
<1> DEFINE start == Lower(Band[region], VSize - 1)
           width == Higher(1, VSize \div 8)
<1>1. VSize \in Nat \ {0}
  BY MobiusAssumption
<1>2. Band[region] \in 0 .. 12
  BY DEF Regions, Band
<1>3. start \in Nat
  BY <1>1, <1>2 DEF Lower
<1>4. VSize \div 8 \in Int
  BY <1>1, Z3
<1>5. width \in Nat \ {0}
  BY <1>4 DEF Higher
<1>6. byte % width \in Nat
  <2>1. byte \in Int
    OBVIOUS
  <2> HIDE DEF width
  <2>2. byte % width \in 0 .. width - 1
    BY <1>5, <2>1, Modulo
  <2>3. QED BY <1>5, <2>2
<1> HIDE DEF start, width
<1>7. Lower(VSize - 1, start + (byte % width)) \in 0 .. VSize - 1
  BY <1>1, <1>3, <1>6 DEF Lower
<1>8. QED
  BY <1>7 DEF RegionBand, start, width

\* mobius.address_for: in a space of any size every region has a cell, also
\* where the axis is shorter than the place the table gives the region.
THEOREM AddressesAreCells ==
    ASSUME NEW region \in Regions, NEW hash \in Nat \X Nat \X Nat
    PROVE  AddressFor(region, hash) \in Cells
<1>1. USize \in Nat \ {0} /\ WSize \in Nat \ {0}
  BY MobiusAssumption
<1>2. hash[1] \in Int /\ hash[2] \in Nat /\ hash[3] \in Int
  OBVIOUS
<1>3. hash[1] % USize \in 0 .. USize - 1 /\ hash[3] % WSize \in 0 .. WSize - 1
  BY <1>1, <1>2, Modulo
<1>4. QED
  BY <1>2, <1>3, BandInRange DEF AddressFor, Cells

-----------------------------------------------------------------------------
(* The pipeline and its cache. *)

\* A record of a process, whatever its values.
Of(T) == [pc : T, query : T, cand : T, ids : T, seeds : T, linked : T, result : T, calm : T]
Shape(p) == \E T : p \in Of(T)

\* Every candidate answers the query as it was read.
CandidatesOK(cand, q) ==
    \A m \in DOMAIN cand : m \in Memories /\ Matches(cand[m].env, q)

Listing(result) == {result[i] : i \in DOMAIN result}

\* What was ranked is recalled, and an urgent candidate is only left out for
\* others that weigh no less, as many as were asked for.
RankedOK(result, cand, q) ==
    /\ result \in Seq(Recalled(cand, q)) /\ Len(result) <= q.top
    /\ \A m \in Recalled(cand, q) \ Listing(result) :
          Urgent(cand[m]) =>
              /\ Cardinality(Listing(result)) = q.top
              /\ \A n \in Listing(result) :
                    Urgent(cand[n]) /\ ~(Weight(cand[m], q) > Weight(cand[n], q))

Steps == {"critical", "cached", "inspecting", "linking", "neighbours", "walking", "reading",
          "filling", "ranking", "recording"}

ProcessOK(p) ==
    /\ Shape(p)
    /\ p.pc \in Steps \cup {"idle"}
    /\ p.pc # "idle" => p.query \in Queries /\ CandidatesOK(p.cand, p.query)
    /\ p.pc = "critical" => DOMAIN p.cand = {}
    /\ p.pc = "recording" => RankedOK(p.result, p.cand, p.query)

\* The list of critical memories of a recall is that of the tables, and among its
\* candidates, until somebody disturbs it.
CriticalOf(q) == ListMemories(q, 95, Larger(q.top, ListMin))
HasCritical(p) ==
    (p.pc \in Steps \ {"critical"} /\ p.calm) =>
        \A m \in CriticalOf(p.query) :
            m \in DOMAIN p.cand /\ "critical" \in p.cand[m].why /\ p.cand[m].env = Now(m)

\* Entries list what was answered, and are counted.
EntriesOK(a) ==
    /\ \A s \in DOMAIN counts[a] : counts[a][s] \in Nat
    /\ \A s \in DOMAIN cache[a] :
          /\ s \in DOMAIN counts[a] /\ counts[a][s] >= Threshold
          /\ cache[a][s] \in Seq(Memories) /\ Len(cache[a][s]) \in 1 .. MaxIds
          /\ \A i \in DOMAIN cache[a][s] : <<a, s, cache[a][s][i]>> \in answers

IInv ==
    /\ rows \in [Memories -> Nat]
    /\ proc = [a \in Agents |-> proc[a]]
    /\ cache = [a \in Agents |-> cache[a]] /\ counts = [a \in Agents |-> counts[a]]
    /\ \A a \in Agents : ProcessOK(proc[a]) /\ HasCritical(proc[a]) /\ EntriesOK(a)

LEMMA IdleIsProcess == ProcessOK(Idle) /\ HasCritical(Idle) /\ Idle.pc = "idle" /\ Shape(Idle)
  <1> DEFINE T == {"idle", None, <<>>, {}, TRUE}
  <1>1. Idle \in Of(T)
    BY DEF Idle, Of
  <1>2. Idle.pc = "idle"
    BY DEF Idle
  <1> QED
    BY <1>1, <1>2 DEF ProcessOK, HasCritical, Shape, Steps

LEMMA RecallInit == Init => IInv
  <1> SUFFICES ASSUME Init PROVE IInv
    OBVIOUS
  <1>1. \A a \in Agents : proc[a] = Idle /\ cache[a] = <<>> /\ counts[a] = <<>>
    BY DEF Init
  <1>2. \A a \in Agents : EntriesOK(a)
    BY <1>1 DEF EntriesOK
  <1> QED
    BY <1>1, <1>2, IdleIsProcess DEF Init, IInv

\* A step of a process that leaves tables and caches alone.
LEMMA StepOfProcess ==
    ASSUME IInv, NEW a \in Agents, NEW p, ProcessOK(p), HasCritical(p),
           proc' = [proc EXCEPT ![a] = p], UNCHANGED <<tables, caches, answers>>
    PROVE  IInv'
  <1>1. UNCHANGED <<rows, cache, counts, answers>>
    BY DEF tables, caches
  <1>2. proc' = [b \in Agents |-> proc'[b]] /\ proc'[a] = p
        /\ \A b \in Agents : b # a => proc'[b] = proc[b]
    BY DEF IInv
  <1>3. \A b \in Agents : ProcessOK(proc'[b]) /\ HasCritical(proc'[b])
    BY <1>2 DEF IInv
  <1>4. \A b \in Agents : HasCritical(proc[b])'
    <2>1. ASSUME NEW q PROVE CriticalOf(q)' = CriticalOf(q)
      BY <1>1 DEF CriticalOf, ListMemories, FirstOf, Listed, Stored, Now
    <2>2. ASSUME NEW m PROVE Now(m)' = Now(m)
      BY <1>1 DEF Now
    <2>3. SUFFICES ASSUME NEW b \in Agents PROVE HasCritical(proc[b])'
      OBVIOUS
    <2>4. PICK r : r = proc'[b]
      OBVIOUS
    <2>5. HasCritical(r)
      BY <1>3, <2>4
    <2>6. HasCritical(r)'
      BY <2>1, <2>2, <2>5 DEF HasCritical
    <2> QED
      BY <2>4, <2>6
  <1>5. \A b \in Agents : EntriesOK(b)'
    BY <1>1 DEF IInv, EntriesOK
  <1>6. rows' \in [Memories -> Nat] /\ cache' = [b \in Agents |-> cache'[b]]
        /\ counts' = [b \in Agents |-> counts'[b]]
    BY <1>1 DEF IInv
  <1> QED
    BY <1>2, <1>3, <1>4, <1>5, <1>6 DEF IInv, ProcessOK

\* Later candidates keep what the earlier ones were and why.
Grown(old, new) ==
    \A m \in DOMAIN old : /\ m \in DOMAIN new /\ new[m].env = old[m].env
                          /\ old[m].why \subseteq new[m].why

\* What a layer may add: memories that answer the query as they are stored.
Answering(ms, q) == \A m \in ms : m \in Memories /\ Matches(Now(m), q)

\* _merge keeps the envelope first read and adds to the reasons.
LEMMA MergedKeeps ==
    ASSUME NEW cand, NEW q, CandidatesOK(cand, q), NEW ms, Answering(ms, q),
           NEW reason, NEW score
    PROVE  /\ CandidatesOK(MergedAll(cand, ms, reason, score), q)
           /\ Grown(cand, MergedAll(cand, ms, reason, score))
           /\ \A m \in ms :
                 /\ m \in DOMAIN MergedAll(cand, ms, reason, score)
                 /\ reason \in MergedAll(cand, ms, reason, score)[m].why
                 /\ m \notin DOMAIN cand => MergedAll(cand, ms, reason, score)[m].env = Now(m)
  <1>1. PICK new : new = MergedAll(cand, ms, reason, score)
    OBVIOUS
  <1>2. DOMAIN new = DOMAIN cand \cup ms
    BY <1>1 DEF MergedAll
  <1>3. ASSUME NEW m \in ms
        PROVE  /\ reason \in new[m].why
               /\ m \in DOMAIN cand => new[m].env = cand[m].env /\ cand[m].why \subseteq new[m].why
               /\ m \notin DOMAIN cand => new[m].env = Now(m)
    BY <1>1, <1>3 DEF MergedAll, Merged
  <1>4. ASSUME NEW m \in DOMAIN cand, m \notin ms
        PROVE  new[m] = cand[m]
    BY <1>1, <1>4 DEF MergedAll
  <1>5. CandidatesOK(new, q)
    BY <1>2, <1>3, <1>4 DEF CandidatesOK, Answering
  <1>6. Grown(cand, new)
    BY <1>2, <1>3, <1>4 DEF Grown
  <1> QED
    BY <1>1, <1>2, <1>3, <1>5, <1>6

\* What a layer reads is stored and answers the query.
LEMMA FoundAnswers ==
    ASSUME NEW q
    PROVE  /\ Answering(Found(q), q)
           /\ \A least, limit : Answering(ListMemories(q, least, limit), q)
           /\ \A ms, ns : Answering(ms, q) /\ ns \subseteq ms => Answering(ns, q)
  BY DEF Answering, Found, Stored, ListMemories, FirstOf

\* After the list of critical memories, more candidates lose none of them.
LEMMA MoreCandidates ==
    ASSUME IInv, NEW a \in Agents, proc[a].pc \in Steps \ {"critical"},
           NEW p, Shape(p), p.pc \in Steps \ {"critical", "recording"},
           p.query = proc[a].query, p.calm = proc[a].calm,
           CandidatesOK(p.cand, Q(a)), Grown(proc[a].cand, p.cand),
           proc' = [proc EXCEPT ![a] = p], UNCHANGED <<tables, caches, answers>>
    PROVE  IInv'
  <1>1. Q(a) \in Queries /\ HasCritical(proc[a])
    BY DEF IInv, ProcessOK, Q, Steps
  <1>2. ProcessOK(p)
    BY <1>1 DEF ProcessOK, Q, Steps
  <1>3. HasCritical(p)
    BY <1>1 DEF HasCritical, Grown, Q
  <1> QED
    BY <1>2, <1>3, StepOfProcess

\* Of a recall that has begun.
LEMMA Asked ==
    ASSUME IInv, NEW a \in Agents, proc[a].pc \in Steps
    PROVE  /\ Shape(proc[a]) /\ ProcessOK(proc[a]) /\ HasCritical(proc[a])
           /\ Q(a) \in Queries /\ CandidatesOK(proc[a].cand, Q(a))
           /\ Grown(proc[a].cand, proc[a].cand)
  BY DEF IInv, ProcessOK, Q, Steps, Grown

LEMMA AskKeeps ==
    ASSUME IInv, NEW a \in Agents, NEW q \in Queries, Ask(a, q)
    PROVE  IInv'
  <1>1. PICK p : p = [Idle EXCEPT !.pc = "critical", !.query = q]
    OBVIOUS
  <1>2. p.pc = "critical" /\ p.query = q /\ p.cand = <<>>
    BY <1>1 DEF Idle
  <1>3. Shape(p)
    <2> DEFINE T == {"critical", q, <<>>, {}, TRUE}
    <2>1. p \in Of(T)
      BY <1>1 DEF Idle, Of
    <2> QED
      BY <2>1 DEF Shape
  <1>4. ProcessOK(p) /\ HasCritical(p)
    BY <1>2, <1>3 DEF ProcessOK, HasCritical, CandidatesOK, Steps
  <1>5. proc' = [proc EXCEPT ![a] = p] /\ UNCHANGED <<tables, caches, answers>>
    BY <1>1 DEF Ask
  <1> QED
    BY <1>4, <1>5, StepOfProcess

LEMMA ReadCriticalKeeps ==
    ASSUME IInv, NEW a \in Agents, ReadCritical(a)
    PROVE  IInv'
  <1>1a. PICK ms : ms = CriticalOf(Q(a))
    OBVIOUS
  <1> DEFINE score == [m \in ms |-> 7000 + Imp(m) * 25]
  <1>1b. score = [m \in ms |-> 7000 + Imp(m) * 25]
    OBVIOUS
  <1> HIDE DEF score
  <1>1. ms = CriticalOf(Q(a)) /\ score = [m \in ms |-> 7000 + Imp(m) * 25]
    BY <1>1a, <1>1b
  <1>2. PICK q, old, cand : q = Q(a) /\ old = proc[a].cand
                            /\ cand = MergedAll(old, ms, "critical", score)
    BY Zenon
  <1>3. PICK p : p = [proc[a] EXCEPT !.pc = "cached", !.cand = cand]
    OBVIOUS
  <1>4. /\ proc[a].pc = "critical" /\ proc' = [proc EXCEPT ![a] = p]
        /\ UNCHANGED <<tables, caches, answers>>
    <2>1. /\ proc[a].pc = "critical" /\ UNCHANGED <<tables, caches, answers>>
      BY DEF ReadCritical
    <2>2. Gather(a, "cached", MergedAll(proc[a].cand, ms, "critical", score))
      <3>1. ms = ListMemories(Q(a), 95, Larger(Q(a).top, ListMin))
        BY <1>1 DEF CriticalOf
      <3> QED
        BY <1>1, <3>1 DEF ReadCritical
    <2>3. Gather(a, "cached", cand)
      BY <1>2, <2>2
    <2> QED
      BY <1>3, <2>1, <2>3 DEF Gather
  <1>5. Shape(proc[a]) /\ q \in Queries /\ CandidatesOK(old, q) /\ DOMAIN old = {}
    BY <1>2, <1>4 DEF IInv, ProcessOK, Q
  <1>6. Answering(ms, q)
    BY <1>1, <1>2, FoundAnswers DEF CriticalOf
  <1>7. /\ CandidatesOK(cand, q)
        /\ \A m \in ms : m \in DOMAIN cand /\ "critical" \in cand[m].why /\ cand[m].env = Now(m)
    BY <1>2, <1>5, <1>6, MergedKeeps
  <1>8. Shape(p) /\ p.pc = "cached" /\ p.cand = cand /\ p.query = q
    <2>1. PICK T : proc[a] \in Of(T)
      BY <1>2, <1>3, <1>5, Asked DEF Shape, Steps
    <2>2. p \in Of(T \cup {"cached", cand})
      BY <1>3, <2>1 DEF Of
    <2>3. p.pc = "cached" /\ p.cand = cand /\ p.query = proc[a].query
      BY <1>3, <2>1 DEF Of
    <2> QED
      BY <1>2, <2>2, <2>3 DEF Shape, Q
  <1>9. ProcessOK(p)
    BY <1>5, <1>7, <1>8 DEF ProcessOK, Steps
  <1>10. HasCritical(p)
    BY <1>1, <1>2, <1>7, <1>8 DEF HasCritical
  <1> QED
    BY <1>4, <1>9, <1>10, StepOfProcess

LEMMA LookUpKeeps ==
    ASSUME IInv, NEW a \in Agents, LookUp(a)
    PROVE  IInv'
  <1>1. PICK ids, p : /\ p = [proc[a] EXCEPT !.pc = "inspecting", !.ids = ids]
                      /\ proc' = [proc EXCEPT ![a] = p]
    BY DEF LookUp
  <1>2. proc[a].pc \in Steps \ {"critical"} /\ UNCHANGED <<tables, caches, answers>>
    BY DEF LookUp, Steps
  <1>3. Shape(p) /\ p.pc = "inspecting" /\ p.cand = proc[a].cand
        /\ p.query = proc[a].query /\ p.calm = proc[a].calm
    <2>1. PICK T : proc[a] \in Of(T)
      BY <1>1, <1>2, Asked DEF Shape, Steps
    <2>2. p \in Of(T \cup {"inspecting", ids})
      BY <1>1, <1>2, <2>1 DEF Of
    <2> QED
      BY <1>1, <1>2, <2>1, <2>2 DEF Of, Shape
  <1> QED
    BY <1>1, <1>2, <1>3, Asked, MoreCandidates DEF Steps

LEMMA InspectCachedKeeps ==
    ASSUME IInv, NEW a \in Agents, InspectCached(a)
    PROVE  IInv'
  <1>1. PICK m \in proc[a].ids \cap Stored :
          LET ms == IF UsableCached(a, m) THEN {m} ELSE {}
          IN  proc' = [proc EXCEPT ![a].ids = @ \ {m},
                                   ![a].cand = MergedAll(@, ms, "engram",
                                                         [n \in ms |-> 6000 + Imp(n) * 25])]
    BY ZenonT(60) DEF InspectCached
  <1>2a. PICK ms : ms = IF UsableCached(a, m) THEN {m} ELSE {}
    OBVIOUS
  <1> DEFINE score == [n \in ms |-> 6000 + Imp(n) * 25]
  <1>2b. score = [n \in ms |-> 6000 + Imp(n) * 25]
    OBVIOUS
  <1> HIDE DEF score
  <1>2. /\ ms = IF UsableCached(a, m) THEN {m} ELSE {}
        /\ score = [n \in ms |-> 6000 + Imp(n) * 25]
    BY <1>2a, <1>2b
  <1>3. PICK ids, old, cand : /\ ids = proc[a].ids \ {m} /\ old = proc[a].cand
                              /\ cand = MergedAll(old, ms, "engram", score)
    OBVIOUS
  <1>4. PICK p : p = [proc[a] EXCEPT !.ids = ids, !.cand = cand]
    OBVIOUS
  <1>5. proc[a].pc \in Steps \ {"critical", "recording"} /\ UNCHANGED <<tables, caches, answers>>
    BY DEF InspectCached, Steps
  <1>6. Shape(p) /\ p.pc = proc[a].pc /\ p.cand = cand
        /\ p.query = proc[a].query /\ p.calm = proc[a].calm
    <2>1. PICK T : proc[a] \in Of(T)
      BY <1>4, <1>5, Asked DEF Shape, Steps
    <2>2. p \in Of(T \cup {ids, cand})
      BY <1>4, <1>5, <2>1 DEF Of
    <2> QED
      BY <1>4, <1>5, <2>1, <2>2 DEF Of, Shape
  <1>7. proc' = [proc EXCEPT ![a] = p]
    <2>1. PICK T : proc[a] \in Of(T)
      BY <1>5, Asked DEF Shape
    <2>2. [[proc[a] EXCEPT !.ids = ids] EXCEPT
              !.cand = MergedAll([proc[a] EXCEPT !.ids = ids].cand, ms, "engram", score)] = p
      <3>1. [proc[a] EXCEPT !.ids = ids].cand = old
        BY <1>3, <2>1 DEF Of
      <3> QED
        BY <1>3, <1>4, <3>1
    <2>3. proc = [b \in Agents |-> proc[b]]
      BY DEF IInv
    <2>4. proc' = [proc EXCEPT ![a] = [[proc[a] EXCEPT !.ids = ids] EXCEPT
              !.cand = MergedAll([proc[a] EXCEPT !.ids = ids].cand, ms, "engram", score)]]
      <3>1. proc' = [proc EXCEPT ![a].ids = @ \ {m},
                                 ![a].cand = MergedAll(@, ms, "engram", score)]
        BY <1>1, <1>2
      <3> QED
        BY <1>3, <2>3, <3>1
    <2> QED
      BY <2>2, <2>4
  <1>8. Answering(ms, Q(a))
    BY <1>2 DEF Answering, UsableCached, Stored
  <1>9. CandidatesOK(cand, Q(a)) /\ Grown(proc[a].cand, cand)
    BY <1>3, <1>5, <1>8, Asked, MergedKeeps
  <1> QED
    BY <1>5, <1>6, <1>7, <1>9, MoreCandidates

\* One layer more.
LEMMA GatherKeeps ==
    ASSUME IInv, NEW a \in Agents, proc[a].pc \in Steps \ {"critical"},
           NEW pc \in Steps \ {"critical", "recording"}, NEW cand, Gather(a, pc, cand),
           CandidatesOK(cand, Q(a)), Grown(proc[a].cand, cand),
           UNCHANGED <<tables, caches, answers>>
    PROVE  IInv'
  <1>1. PICK p : p = [proc[a] EXCEPT !.pc = pc, !.cand = cand]
    OBVIOUS
  <1>2. proc' = [proc EXCEPT ![a] = p]
    BY <1>1 DEF Gather
  <1>3. Shape(p) /\ p.pc = pc /\ p.cand = cand
        /\ p.query = proc[a].query /\ p.calm = proc[a].calm
    <2>1. PICK T : proc[a] \in Of(T)
      BY <1>1, Asked DEF Shape, Steps
    <2>2. p \in Of(T \cup {pc, cand})
      BY <1>1, <2>1 DEF Of
    <2> QED
      BY <1>1, <2>1, <2>2 DEF Of, Shape
  <1> QED
    BY <1>2, <1>3, MoreCandidates

LEMMA SearchTextKeeps ==
    ASSUME IInv, NEW a \in Agents, SearchText(a)
    PROVE  IInv'
  <1>1. PICK q, ms, score : /\ q = Q(a) /\ ms = q.text \cap Found(q)
                            /\ score = [m \in ms |-> LexicalScore(q, m) + 3500]
    OBVIOUS
  <1>2. PICK cand : cand = MergedAll(proc[a].cand, ms, "fts", score)
    OBVIOUS
  <1>3. PICK seeds : proc' = [proc EXCEPT ![a] = [@ EXCEPT !.pc = "linking", !.cand = cand,
                                                           !.seeds = seeds]]
    <2> DEFINE found == Q(a).text \cap Found(Q(a))
               merged == MergedAll(proc[a].cand, found, "fts",
                                   [m \in found |-> LexicalScore(Q(a), m) + 3500])
    <2>1. \E seeds : proc' = [proc EXCEPT ![a] = [@ EXCEPT !.pc = "linking", !.cand = merged,
                                                           !.seeds = seeds]]
      BY DEF SearchText
    <2>2. merged = cand
      BY <1>1, <1>2
    <2> HIDE DEF merged
    <2> QED
      BY <2>1, <2>2
  <1>4. PICK p : p = [proc[a] EXCEPT !.pc = "linking", !.cand = cand, !.seeds = seeds]
    OBVIOUS
  <1>5. proc[a].pc \in Steps \ {"critical"} /\ UNCHANGED <<tables, caches, answers>>
    BY DEF SearchText, Steps
  <1>6. Shape(p) /\ p.pc = "linking" /\ p.cand = cand
        /\ p.query = proc[a].query /\ p.calm = proc[a].calm
    <2>1. PICK T : proc[a] \in Of(T)
      BY <1>4, <1>5, Asked DEF Shape, Steps
    <2>2. p \in Of(T \cup {"linking", cand, seeds})
      BY <1>4, <1>5, <2>1 DEF Of
    <2> QED
      BY <1>4, <1>5, <2>1, <2>2 DEF Of, Shape
  <1>7. proc' = [proc EXCEPT ![a] = p]
    BY <1>3, <1>4 DEF IInv
  <1>8. Answering(ms, q)
    BY <1>1, FoundAnswers
  <1>9. CandidatesOK(cand, Q(a)) /\ Grown(proc[a].cand, cand)
    BY <1>1, <1>2, <1>5, <1>8, Asked, MergedKeeps
  <1> QED
    BY <1>5, <1>6, <1>7, <1>9, MoreCandidates DEF Steps

LEMMA ReadLinksKeeps ==
    ASSUME IInv, NEW a \in Agents, ReadLinks(a)
    PROVE  IInv'
  <1>1. PICK linked, p : /\ p = [proc[a] EXCEPT !.pc = "neighbours", !.linked = linked]
                         /\ proc' = [proc EXCEPT ![a] = p]
    BY DEF ReadLinks
  <1>2. proc[a].pc \in Steps \ {"critical"} /\ UNCHANGED <<tables, caches, answers>>
    BY DEF ReadLinks, Steps
  <1>3. Shape(p) /\ p.pc = "neighbours" /\ p.cand = proc[a].cand
        /\ p.query = proc[a].query /\ p.calm = proc[a].calm
    <2>1. PICK T : proc[a] \in Of(T)
      BY <1>1, <1>2, Asked DEF Shape, Steps
    <2>2. p \in Of(T \cup {"neighbours", linked})
      BY <1>1, <1>2, <2>1 DEF Of
    <2> QED
      BY <1>1, <1>2, <2>1, <2>2 DEF Of, Shape
  <1> QED
    BY <1>1, <1>2, <1>3, Asked, MoreCandidates DEF Steps

LEMMA ReadNeighboursKeeps ==
    ASSUME IInv, NEW a \in Agents, ReadNeighbours(a)
    PROVE  IInv'
  <1>1. PICK q, seeds, ms : /\ q = Q(a) /\ seeds = proc[a].seeds \cap Stored
                            /\ ms = {m \in Found(q) : \E s \in seeds : m \in Near(s)}
    BY Zenon
  <1>2. PICK sure : sure = {m \in ms : \E s \in seeds : m \in Near(s) /\ Validated(a, s, m)}
    OBVIOUS
  <1> DEFINE score == [m \in ms |-> 4500 + Imp(m) * 20]
  <1>3a. score = [m \in ms |-> 4500 + Imp(m) * 20]
    OBVIOUS
  <1> HIDE DEF score
  <1> DEFINE surely == [m \in sure |-> 6800 + Imp(m) * 22]
  <1>3b. surely = [m \in sure |-> 6800 + Imp(m) * 22]
    OBVIOUS
  <1> HIDE DEF surely
  <1>3. /\ score = [m \in ms |-> 4500 + Imp(m) * 20]
        /\ surely = [m \in sure |-> 6800 + Imp(m) * 22]
    BY <1>3a, <1>3b
  <1>4. PICK near : near = MergedAll(proc[a].cand, ms, "mobius", score)
    OBVIOUS
  <1>5. PICK cand : cand = MergedAll(near, sure, "mobius_graph", surely)
    OBVIOUS
  <1>6. /\ proc[a].pc \in Steps \ {"critical"} /\ Gather(a, "walking", cand)
        /\ UNCHANGED <<tables, caches, answers>>
    BY <1>1, <1>2, <1>3, <1>4, <1>5 DEF ReadNeighbours, Steps
  <1>7. Answering(ms, q) /\ Answering(sure, q)
    BY <1>1, <1>2, FoundAnswers
  <1>8. CandidatesOK(near, q) /\ Grown(proc[a].cand, near)
    BY <1>1, <1>4, <1>6, <1>7, Asked, MergedKeeps
  <1>9. CandidatesOK(cand, q) /\ Grown(near, cand)
    BY <1>5, <1>7, <1>8, MergedKeeps
  <1>10. Grown(proc[a].cand, cand)
    BY <1>8, <1>9 DEF Grown
  <1> QED
    BY <1>1, <1>6, <1>9, <1>10, GatherKeeps DEF Steps

LEMMA WalkGraphKeeps ==
    ASSUME IInv, NEW a \in Agents, WalkGraph(a)
    PROVE  IInv'
  <1>1. PICK ids, p : /\ p = [proc[a] EXCEPT !.pc = "reading", !.ids = ids]
                      /\ proc' = [proc EXCEPT ![a] = p]
    BY DEF WalkGraph
  <1>2. proc[a].pc \in Steps \ {"critical"} /\ UNCHANGED <<tables, caches, answers>>
    BY DEF WalkGraph, Steps
  <1>3. Shape(p) /\ p.pc = "reading" /\ p.cand = proc[a].cand
        /\ p.query = proc[a].query /\ p.calm = proc[a].calm
    <2>1. PICK T : proc[a] \in Of(T)
      BY <1>1, <1>2, Asked DEF Shape, Steps
    <2>2. p \in Of(T \cup {"reading", ids})
      BY <1>1, <1>2, <2>1 DEF Of
    <2> QED
      BY <1>1, <1>2, <2>1, <2>2 DEF Of, Shape
  <1> QED
    BY <1>1, <1>2, <1>3, Asked, MoreCandidates DEF Steps

LEMMA ReadWalkedKeeps ==
    ASSUME IInv, NEW a \in Agents, ReadWalked(a)
    PROVE  IInv'
  <1>1a. PICK q, ms : q = Q(a) /\ ms = WalkedUsable(a)
    OBVIOUS
  <1> DEFINE score == [m \in ms |-> 7200 + Imp(m) * 28]
  <1>1b. score = [m \in ms |-> 7200 + Imp(m) * 28]
    OBVIOUS
  <1> HIDE DEF score
  <1>1. q = Q(a) /\ ms = WalkedUsable(a) /\ score = [m \in ms |-> 7200 + Imp(m) * 28]
    BY <1>1a, <1>1b
  <1>2. PICK cand : cand = MergedAll(proc[a].cand, ms, "graph", score)
    OBVIOUS
  <1>3. /\ proc[a].pc \in Steps \ {"critical"} /\ Gather(a, "filling", cand)
        /\ UNCHANGED <<tables, caches, answers>>
    BY <1>1, <1>2 DEF ReadWalked, Steps
  <1>4. Answering(ms, q)
    BY <1>1, FoundAnswers DEF WalkedUsable
  <1>5. CandidatesOK(cand, q) /\ Grown(proc[a].cand, cand)
    BY <1>1, <1>2, <1>3, <1>4, Asked, MergedKeeps
  <1> QED
    BY <1>1, <1>3, <1>5, GatherKeeps DEF Steps

LEMMA FillUpKeeps ==
    ASSUME IInv, NEW a \in Agents, FillUp(a)
    PROVE  IInv'
  <1>1. PICK q, ms : /\ q = Q(a)
                     /\ ms = IF Cardinality(DOMAIN proc[a].cand) >= q.top THEN {}
                             ELSE {m \in ListMemories(q, 0, 100) : LexicalScore(q, m) > 0}
    OBVIOUS
  <1>2. PICK score : score = [m \in ms |-> LexicalScore(q, m)]
    OBVIOUS
  <1>3. PICK cand : cand = MergedAll(proc[a].cand, ms, "lexical", score)
    OBVIOUS
  <1>4. /\ proc[a].pc \in Steps \ {"critical"} /\ Gather(a, "ranking", cand)
        /\ UNCHANGED <<tables, caches, answers>>
    BY <1>1, <1>2, <1>3 DEF FillUp, Steps
  <1>5. Answering(ms, q)
    <2>1. ms \subseteq ListMemories(q, 0, 100)
      BY <1>1
    <2> QED
      BY <2>1, FoundAnswers
  <1>6. CandidatesOK(cand, q) /\ Grown(proc[a].cand, cand)
    BY <1>1, <1>3, <1>4, <1>5, Asked, MergedKeeps
  <1> QED
    BY <1>1, <1>4, <1>6, GatherKeeps DEF Steps

\* Of a sort, no later memory is above an earlier one: one that is critical and
\* active comes before all that are not, and before those of less weight.
LEMMA UrgentFirst ==
    ASSUME NEW c, NEW d, NEW q, Urgent(c), ~Above(RankOf(c, q), RankOf(d, q))
    PROVE  Urgent(d) /\ ~(Weight(c, q) > Weight(d, q))
  <1>1. RankOf(c, q)[1] = 1 /\ RankOf(d, q)[1] = IF Urgent(d) THEN 1 ELSE 0
    BY DEF RankOf
  <1>2. RankOf(c, q)[2] = Weight(c, q) /\ RankOf(d, q)[2] = Weight(d, q)
    BY DEF RankOf, Weight
  <1>3. Urgent(d)
    <2> SUFFICES ASSUME ~Urgent(d) PROVE FALSE
      OBVIOUS
    <2>1. RankOf(c, q)[1] > RankOf(d, q)[1] /\ 1 \in 1 .. 5 /\ \A j \in 1 .. 1 - 1 : FALSE
      BY <1>1
    <2> QED
      BY <2>1 DEF Above
  <1>4. ~(Weight(c, q) > Weight(d, q))
    <2> SUFFICES ASSUME Weight(c, q) > Weight(d, q) PROVE FALSE
      OBVIOUS
    <2>1. /\ RankOf(c, q)[2] > RankOf(d, q)[2] /\ 2 \in 1 .. 5
          /\ \A j \in 1 .. 2 - 1 : RankOf(c, q)[j] = RankOf(d, q)[j]
      BY <1>1, <1>2, <1>3
    <2> QED
      BY <2>1 DEF Above
  <1> QED
    BY <1>3, <1>4

LEMMA CutIsRanked ==
    ASSUME NEW cand, NEW q, CandidatesOK(cand, q), q.top \in Nat,
           NEW order \in Orders(cand, q)
    PROVE  RankedOK(SubSeq(order, 1, Smaller(q.top, Len(order))), cand, q)
  <1>1. PICK kept, n : kept = Recalled(cand, q) /\ n = Cardinality(kept)
    OBVIOUS
  <1>2. IsFiniteSet(kept) /\ n \in Nat
    <2>1. IsFiniteSet(Memories) /\ kept \in SUBSET Memories
      BY <1>1, RecallAssumption DEF Recalled, CandidatesOK
    <2> QED
      BY <1>1, <2>1, FS_Subset, FS_CardinalityType
  <1>3. /\ order \in Bijection(1 .. n, kept)
        /\ \A i, j \in DOMAIN order :
              i < j => ~Above(RankOf(cand[order[j]], q), RankOf(cand[order[i]], q))
    BY <1>1 DEF Orders
  <1>4. /\ order \in [1 .. n -> kept]
        /\ \A m \in kept : \E i \in 1 .. n : order[i] = m
        /\ \A i, j \in 1 .. n : order[i] = order[j] => i = j
    BY <1>3 DEF Bijection, Injection, Surjection, IsInjective
  <1>5. order \in Seq(kept) /\ Len(order) = n
    BY <1>2, <1>4
  <1>6. PICK k : k = Smaller(q.top, n)
    OBVIOUS
  <1>7. k \in Nat /\ k <= n /\ k <= q.top /\ (k = n \/ k = q.top)
    BY <1>2, <1>6 DEF Smaller
  <1>8. PICK result : result = SubSeq(order, 1, k)
    OBVIOUS
  <1>9. /\ result \in Seq(kept) /\ Len(result) = k /\ DOMAIN result = 1 .. k
        /\ \A i \in 1 .. k : result[i] = order[i]
    BY <1>2, <1>5, <1>7, <1>8
  <1>10. ASSUME NEW m \in kept, m \notin Listing(result), Urgent(cand[m])
         PROVE  /\ Cardinality(Listing(result)) = q.top
                /\ \A l \in Listing(result) :
                      Urgent(cand[l]) /\ ~(Weight(cand[m], q) > Weight(cand[l], q))
    <2>1. PICK i \in 1 .. n : order[i] = m
      BY <1>4
    <2>2. i \notin 1 .. k
      BY <1>9, <1>10, <2>1 DEF Listing
    <2>3. k = q.top /\ k < i
      BY <1>2, <1>7, <2>1, <2>2
    <2>4. \A l \in Listing(result) :
             Urgent(cand[l]) /\ ~(Weight(cand[m], q) > Weight(cand[l], q))
      <3>1. SUFFICES ASSUME NEW j \in 1 .. k
                     PROVE  /\ Urgent(cand[order[j]])
                            /\ ~(Weight(cand[m], q) > Weight(cand[order[j]], q))
        BY <1>9 DEF Listing
      <3>2. j \in 1 .. n /\ j < i
        BY <1>2, <1>7, <2>1, <2>3
      <3>3. ~Above(RankOf(cand[order[i]], q), RankOf(cand[order[j]], q))
        BY <1>3, <1>4, <2>1, <3>2
      <3> QED
        BY <1>10, <2>1, <3>3, UrgentFirst
    <2>5. Cardinality(Listing(result)) = k
      <3>1. result \in [1 .. k -> Listing(result)]
        BY <1>9 DEF Listing
      <3>2. result \in Bijection(1 .. k, Listing(result))
        <4>1. \A i1, j1 \in 1 .. k : result[i1] = result[j1] => i1 = j1
          BY <1>2, <1>4, <1>7, <1>9
        <4>2. \A l \in Listing(result) : \E i1 \in 1 .. k : result[i1] = l
          BY <1>9 DEF Listing
        <4> QED
          BY <3>1, <4>1, <4>2 DEF Bijection, Injection, Surjection, IsInjective
      <3>3. ExistsBijection(1 .. k, Listing(result))
        BY <3>2 DEF ExistsBijection
      <3> QED
        BY <1>7, <3>3, FS_CountingElements
    <2> QED
      BY <2>3, <2>4, <2>5
  <1>11. RankedOK(result, cand, q)
    BY <1>1, <1>7, <1>9, <1>10 DEF RankedOK
  <1> QED
    BY <1>5, <1>6, <1>8, <1>11

LEMMA RankKeeps ==
    ASSUME IInv, NEW a \in Agents, Rank(a)
    PROVE  IInv'
  <1>1. proc[a].pc \in Steps \ {"critical"} /\ UNCHANGED <<tables, caches, answers>>
    BY DEF Rank, Steps
  <1>2. PICK q, cand : q = Q(a) /\ cand = proc[a].cand
    OBVIOUS
  <1>3. PICK order \in Orders(cand, q) :
            proc' = [proc EXCEPT ![a].pc = "recording",
                                 ![a].result = SubSeq(order, 1, Smaller(q.top, Len(order)))]
    BY <1>2 DEF Rank
  <1>4. PICK result : result = SubSeq(order, 1, Smaller(q.top, Len(order)))
    OBVIOUS
  <1>5. PICK p : p = [proc[a] EXCEPT !.pc = "recording", !.result = result]
    OBVIOUS
  <1>6. proc' = [proc EXCEPT ![a] = p]
    BY <1>3, <1>4, <1>5
  <1>7. q \in Queries /\ CandidatesOK(cand, q) /\ HasCritical(proc[a])
    BY <1>1, <1>2, Asked
  <1>8. RankedOK(result, cand, q)
    BY <1>4, <1>7, CutIsRanked, RecallAssumption DEF IsQuery
  <1>9. /\ Shape(p) /\ p.pc = "recording" /\ p.cand = cand /\ p.query = q
        /\ p.calm = proc[a].calm /\ p.result = result
    <2>1. PICK T : proc[a] \in Of(T)
      BY <1>1, Asked DEF Shape
    <2>2. p \in Of(T \cup {"recording", result})
      BY <1>5, <2>1 DEF Of
    <2> QED
      BY <1>2, <1>5, <2>1, <2>2 DEF Of, Shape, Q
  <1>10. ProcessOK(p)
    BY <1>7, <1>8, <1>9 DEF ProcessOK, Steps
  <1>11. HasCritical(p)
    BY <1>1, <1>2, <1>7, <1>9 DEF HasCritical, Q
  <1> QED
    BY <1>1, <1>6, <1>10, <1>11, StepOfProcess



LEMMA RecordKeeps ==
    ASSUME IInv, NEW a \in Agents, Record(a)
    PROVE  IInv'
  <1>1. PICK sig, ids, n : sig = Signature(Q(a)) /\ ids = proc[a].result /\ n = Counted(a, sig)
    OBVIOUS
  <1>2. PICK entry : entry = SubSeq(ids, 1, Smaller(MaxIds, Len(ids)))
    OBVIOUS
  <1>3. /\ proc[a].pc = "recording"
        /\ counts' = IF ids = <<>> THEN counts ELSE [counts EXCEPT ![a] = Put(@, sig, n)]
        /\ cache' = IF ids = <<>> \/ ~Hot(n) THEN cache
                    ELSE [cache EXCEPT ![a] = Put(@, sig, entry)]
        /\ answers' = answers \cup {<<a, sig, ids[i]>> : i \in DOMAIN ids}
        /\ proc' = [proc EXCEPT ![a] = Idle]
        /\ UNCHANGED rows
    BY <1>1, <1>2 DEF Record, tables
  <1>4. ids \in Seq(Memories)
    <2>1. ids \in Seq(Recalled(proc[a].cand, Q(a))) /\ CandidatesOK(proc[a].cand, Q(a))
      BY <1>1, <1>3 DEF IInv, ProcessOK, RankedOK, Q
    <2>2. Recalled(proc[a].cand, Q(a)) \subseteq Memories
      BY <2>1 DEF Recalled, CandidatesOK
    <2> QED
      BY <2>1, <2>2
  <1>5. /\ proc' = [b \in Agents |-> proc'[b]]
        /\ cache' = [b \in Agents |-> cache'[b]] /\ counts' = [b \in Agents |-> counts'[b]]
    BY <1>3 DEF IInv
  <1>6. \A b \in Agents : ProcessOK(proc'[b]) /\ HasCritical(proc[b])'
    <2>1. ASSUME NEW b \in Agents, b # a
          PROVE  ProcessOK(proc'[b]) /\ HasCritical(proc[b])'
      <3>1. PICK r : r = proc[b]
        OBVIOUS
      <3>2. proc'[b] = r /\ ProcessOK(r) /\ HasCritical(r)
        BY <1>3, <2>1, <3>1 DEF IInv
      <3>3. ASSUME NEW q PROVE CriticalOf(q)' = CriticalOf(q)
        BY <1>3 DEF CriticalOf, ListMemories, FirstOf, Listed, Stored, Now
      <3>4. ASSUME NEW m PROVE Now(m)' = Now(m)
        BY <1>3 DEF Now
      <3>5. HasCritical(r)'
        BY <3>2, <3>3, <3>4 DEF HasCritical
      <3> QED
        BY <3>2, <3>5
    <2>2. proc'[a] = Idle /\ HasCritical(Idle)'
      BY <1>3, IdleIsProcess DEF IInv, HasCritical, Steps
    <2> QED
      BY <2>1, <2>2, IdleIsProcess
  <1>7. ASSUME NEW b \in Agents, b # a
        PROVE  EntriesOK(b)'
    <2>1. cache'[b] = cache[b] /\ counts'[b] = counts[b] /\ answers \subseteq answers'
      BY <1>3, <1>7 DEF IInv
    <2>2. EntriesOK(b)
      BY DEF IInv
    <2> QED
      BY <2>1, <2>2 DEF EntriesOK
  <1>8. EntriesOK(a)'
    <2>1. EntriesOK(a) /\ answers \subseteq answers'
      BY <1>3 DEF IInv
    <2>2. CASE ids = <<>>
      BY <1>3, <2>1, <2>2 DEF EntriesOK
    <2>3. CASE ids # <<>>
      <3>1. n \in Nat /\ \A s \in DOMAIN counts[a] : s = sig => n >= counts[a][s]
        BY <1>1, <2>1 DEF Counted, EntriesOK
      <3>2. /\ counts'[a] = Put(counts[a], sig, n)
            /\ cache'[a] = IF ~Hot(n) THEN cache[a] ELSE Put(cache[a], sig, entry)
        BY <1>3, <2>3 DEF IInv
      <3>3. /\ sig \in DOMAIN counts'[a] /\ counts'[a][sig] = n
            /\ \A s \in DOMAIN counts'[a] : counts'[a][s] \in Nat
            /\ \A s \in DOMAIN counts[a] :
                  s \in DOMAIN counts'[a] /\ counts'[a][s] >= counts[a][s]
        <4>1. /\ DOMAIN counts'[a] = DOMAIN counts[a] \cup {sig} /\ counts'[a][sig] = n
              /\ \A s \in DOMAIN counts[a] : s # sig => counts'[a][s] = counts[a][s]
          BY <3>2 DEF Put
        <4>2. \A s \in DOMAIN counts[a] : counts[a][s] \in Nat
          BY <2>1 DEF EntriesOK
        <4> QED
          BY <3>1, <4>1, <4>2
      <3>4. \A s \in DOMAIN cache[a] :
               /\ s \in DOMAIN counts'[a] /\ counts'[a][s] >= Threshold
               /\ cache[a][s] \in Seq(Memories) /\ Len(cache[a][s]) \in 1 .. MaxIds
               /\ \A i \in DOMAIN cache[a][s] : <<a, s, cache[a][s][i]>> \in answers'
        <4>1. Threshold \in Nat
          BY RecallAssumption
        <4>2. ASSUME NEW s \in DOMAIN cache[a]
              PROVE  s \in DOMAIN counts'[a] /\ counts'[a][s] >= Threshold
          <5>1. s \in DOMAIN counts[a] /\ counts[a][s] >= Threshold /\ counts[a][s] \in Nat
            BY <2>1, <4>2 DEF EntriesOK
          <5> QED
            BY <3>3, <4>1, <5>1
        <4> QED
          BY <2>1, <4>2 DEF EntriesOK
      <3>5. /\ entry \in Seq(Memories) /\ Len(entry) \in 1 .. MaxIds
            /\ \A i \in DOMAIN entry : <<a, sig, entry[i]>> \in answers'
        <4>1. PICK k : k = Smaller(MaxIds, Len(ids))
          OBVIOUS
        <4>2. k \in 1 .. MaxIds /\ k <= Len(ids)
          BY <1>4, <2>3, <4>1, RecallAssumption DEF Smaller
        <4>3. /\ entry \in Seq(Memories) /\ Len(entry) = k /\ DOMAIN entry = 1 .. k
              /\ \A i \in 1 .. k : entry[i] = ids[i] /\ i \in DOMAIN ids
          BY <1>2, <1>4, <4>1, <4>2, RecallAssumption
        <4> QED
          BY <1>3, <4>2, <4>3
      <3>6. CASE ~Hot(n)
        BY <3>2, <3>3, <3>4, <3>6 DEF EntriesOK
      <3>7. CASE Hot(n)
        <4>1. n >= Threshold /\ cache'[a] = Put(cache[a], sig, entry)
          BY <3>2, <3>7 DEF Hot
        <4>2. /\ DOMAIN cache'[a] = DOMAIN cache[a] \cup {sig} /\ cache'[a][sig] = entry
              /\ \A s \in DOMAIN cache[a] : s # sig => cache'[a][s] = cache[a][s]
          BY <4>1 DEF Put
        <4>3. ASSUME NEW s \in DOMAIN cache'[a]
              PROVE  /\ s \in DOMAIN counts'[a] /\ counts'[a][s] >= Threshold
                     /\ cache'[a][s] \in Seq(Memories) /\ Len(cache'[a][s]) \in 1 .. MaxIds
                     /\ \A i \in DOMAIN cache'[a][s] : <<a, s, cache'[a][s][i]>> \in answers'
          <5>1. CASE s = sig
            BY <3>3, <3>5, <4>1, <4>2, <5>1
          <5>2. CASE s # sig
            BY <3>4, <4>2, <4>3, <5>2
          <5> QED
            BY <5>1, <5>2
        <4> QED
          BY <3>3, <4>3 DEF EntriesOK
      <3> QED
        BY <3>6, <3>7
    <2> QED
      BY <2>2, <2>3
  <1>9. rows' \in [Memories -> Nat]
    BY <1>3 DEF IInv
  <1> QED
    BY <1>5, <1>6, <1>7, <1>8, <1>9 DEF IInv, ProcessOK

LEMMA DroppedIsShorter ==
    ASSUME NEW S, NEW ids \in Seq(S), NEW m
    PROVE  /\ Dropped(ids, m) \in Seq(S) /\ Len(Dropped(ids, m)) <= Len(ids)
           /\ \A i \in DOMAIN Dropped(ids, m) : \E j \in DOMAIN ids : Dropped(ids, m)[i] = ids[j]
  <1>1. CASE m \notin Range(ids)
    BY <1>1 DEF Dropped
  <1>2. CASE m \in Range(ids)
    <2>1. PICK j : j = CHOOSE i \in DOMAIN ids : ids[i] = m
      OBVIOUS
    <2>2. j \in 1 .. Len(ids)
      BY <1>2, <2>1 DEF Range
    <2>3. PICK left, right : left = SubSeq(ids, 1, j - 1) /\ right = SubSeq(ids, j + 1, Len(ids))
      OBVIOUS
    <2>4. /\ left \in Seq(S) /\ Len(left) = j - 1 /\ \A i \in 1 .. j - 1 : left[i] = ids[i]
      BY <2>2, <2>3
    <2>5. /\ right \in Seq(S) /\ Len(right) = Len(ids) - j
          /\ \A i \in 1 .. Len(ids) - j : right[i] = ids[j + i]
      BY <2>2, <2>3
    <2>6. PICK new : new = left \o right
      OBVIOUS
    <2>7. Dropped(ids, m) = new
      BY <1>2, <2>1, <2>3, <2>6 DEF Dropped, RemoveAt
    <2>8. new \in Seq(S) /\ Len(new) = Len(ids) - 1 /\ DOMAIN new = 1 .. Len(ids) - 1
          /\ \A i \in 1 .. Len(ids) - 1 :
                new[i] = IF i <= j - 1 THEN left[i] ELSE right[i - (j - 1)]
      <3>1. Len(left) + Len(right) = Len(ids) - 1
        BY <2>2, <2>4, <2>5
      <3>2. new \in Seq(S) /\ Len(new) = Len(left) + Len(right)
        <4>1. \A s, t : s \in Seq(S) /\ t \in Seq(S) =>
                 s \o t \in Seq(S) /\ Len(s \o t) = Len(s) + Len(t)
          OBVIOUS
        <4> QED
          BY <2>4, <2>5, <2>6, <4>1
      <3>3. \A i \in 1 .. Len(left) + Len(right) :
                new[i] = IF i <= Len(left) THEN left[i] ELSE right[i - Len(left)]
        BY <2>4, <2>5, <2>6
      <3> QED
        BY <2>4, <3>1, <3>2, <3>3
    <2>9. ASSUME NEW i \in 1 .. Len(ids) - 1
          PROVE  \E l \in DOMAIN ids : new[i] = ids[l]
      <3>1. CASE i <= j - 1
        <4>1. new[i] = ids[i] /\ i \in 1 .. Len(ids)
          BY <2>2, <2>4, <2>8, <2>9, <3>1
        <4> QED
          BY <4>1
      <3>2. CASE i > j - 1
        <4>1. new[i] = right[i - (j - 1)] /\ i - (j - 1) \in 1 .. Len(ids) - j
          BY <2>2, <2>8, <2>9, <3>2
        <4>2. new[i] = ids[j + (i - (j - 1))]
          BY <2>5, <4>1
        <4>3. j + (i - (j - 1)) = i + 1 /\ i + 1 \in 1 .. Len(ids)
          BY <2>2, <2>9
        <4> QED
          BY <2>2, <4>2, <4>3
      <3> QED
        BY <2>2, <3>1, <3>2
    <2> QED
      BY <2>7, <2>8, <2>9
  <1> QED
    BY <1>1, <1>2

LEMMA InvalidateKeeps ==
    ASSUME IInv, NEW a \in Agents, Invalidate(a)
    PROVE  IInv'
  <1>1. PICK m : /\ cache' = [cache EXCEPT ![a] = Without(@, m)]
                 /\ proc' = [proc EXCEPT ![a].ids = @ \ {m}]
    BY DEF Invalidate
  <1>2. proc[a].pc = "inspecting" /\ UNCHANGED <<rows, counts, answers>>
    BY DEF Invalidate, tables
  <1>3. PICK p : p = [proc[a] EXCEPT !.ids = @ \ {m}]
    OBVIOUS
  <1>4. /\ Shape(p) /\ p.pc = "inspecting" /\ p.cand = proc[a].cand
        /\ p.query = proc[a].query /\ p.calm = proc[a].calm
    <2>1. PICK T : proc[a] \in Of(T)
      BY <1>2, Asked DEF Shape, Steps
    <2>2. p \in Of(T \cup {p.ids})
      BY <1>3, <2>1 DEF Of
    <2>3. /\ p.pc = proc[a].pc /\ p.cand = proc[a].cand
          /\ p.query = proc[a].query /\ p.calm = proc[a].calm
      BY <1>3, <2>1 DEF Of
    <2> QED
      BY <1>2, <2>2, <2>3 DEF Shape
  <1>5. ProcessOK(p) /\ HasCritical(p)
    <2>1. ProcessOK(proc[a]) /\ HasCritical(proc[a])
      BY DEF IInv
    <2> QED
      BY <1>2, <1>4, <2>1 DEF ProcessOK, HasCritical, Steps
  <1>6. /\ proc' = [proc EXCEPT ![a] = p] /\ proc' = [b \in Agents |-> proc'[b]]
        /\ cache' = [b \in Agents |-> cache'[b]] /\ counts' = [b \in Agents |-> counts'[b]]
        /\ cache'[a] = Without(cache[a], m)
        /\ \A b \in Agents : b # a => cache'[b] = cache[b]
    BY <1>1, <1>2, <1>3 DEF IInv
  <1>7. \A b \in Agents : ProcessOK(proc'[b]) /\ HasCritical(proc[b])'
    <2>1. SUFFICES ASSUME NEW b \in Agents PROVE ProcessOK(proc'[b]) /\ HasCritical(proc[b])'
      OBVIOUS
    <2>2. PICK r : r = proc'[b]
      OBVIOUS
    <2>3. ProcessOK(r) /\ HasCritical(r)
      BY <1>5, <1>6, <2>2 DEF IInv
    <2>4. ASSUME NEW q PROVE CriticalOf(q)' = CriticalOf(q)
      BY <1>2 DEF CriticalOf, ListMemories, FirstOf, Listed, Stored, Now
    <2>5. ASSUME NEW n PROVE Now(n)' = Now(n)
      BY <1>2 DEF Now
    <2>6. HasCritical(r)'
      BY <2>3, <2>4, <2>5 DEF HasCritical
    <2> QED
      BY <2>2, <2>3, <2>6
  <1>8. \A b \in Agents : b # a => EntriesOK(b)'
    BY <1>2, <1>6 DEF IInv, EntriesOK
  <1>9. EntriesOK(a)'
    <2>1. EntriesOK(a)
      BY DEF IInv
    <2>2. ASSUME NEW s \in DOMAIN cache'[a]
          PROVE  /\ s \in DOMAIN cache[a] /\ cache'[a][s] = Dropped(cache[a][s], m)
                 /\ cache'[a][s] # <<>>
      BY <1>6, <2>2 DEF Without
    <2>3. ASSUME NEW s \in DOMAIN cache'[a]
          PROVE  /\ s \in DOMAIN counts[a] /\ counts[a][s] >= Threshold
                 /\ cache'[a][s] \in Seq(Memories) /\ Len(cache'[a][s]) \in 1 .. MaxIds
                 /\ \A i \in DOMAIN cache'[a][s] : <<a, s, cache'[a][s][i]>> \in answers
      <3>1. PICK ids, new : ids = cache[a][s] /\ new = cache'[a][s]
        OBVIOUS
      <3>2. /\ ids \in Seq(Memories) /\ Len(ids) \in 1 .. MaxIds
            /\ \A i \in DOMAIN ids : <<a, s, ids[i]>> \in answers
            /\ s \in DOMAIN counts[a] /\ counts[a][s] >= Threshold
        BY <2>1, <2>2, <2>3, <3>1 DEF EntriesOK
      <3>3. /\ new \in Seq(Memories) /\ Len(new) <= Len(ids) /\ new # <<>>
            /\ \A i \in DOMAIN new : \E j \in DOMAIN ids : new[i] = ids[j]
        BY <2>2, <2>3, <3>1, <3>2, DroppedIsShorter
      <3>4. Len(new) \in 1 .. MaxIds
        BY <3>2, <3>3, RecallAssumption
      <3> QED
        BY <3>1, <3>2, <3>3, <3>4
    <2> QED
      BY <1>2, <2>1, <2>3 DEF EntriesOK
  <1>10. rows' \in [Memories -> Nat]
    BY <1>2 DEF IInv
  <1> QED
    BY <1>6, <1>7, <1>8, <1>9, <1>10 DEF IInv, ProcessOK

\* Whoever writes the tables, what a recall in progress has read stays, and no
\* more is said of the tables.
LEMMA DisturbKeeps ==
    ASSUME IInv, Disturb, rows' \in [Memories -> Nat], UNCHANGED <<caches, answers>>
    PROVE  IInv'
  <1>1. UNCHANGED <<cache, counts, answers>>
    BY DEF caches
  <1>2. proc' = [a \in Agents |-> proc'[a]]
    BY DEF Disturb
  <1>3. ASSUME NEW a \in Agents
        PROVE  ProcessOK(proc'[a]) /\ HasCritical(proc[a])'
    <2>1. PICK p, r : p = proc[a] /\ r = proc'[a]
      OBVIOUS
    <2>2. ProcessOK(p)
      BY <2>1 DEF IInv
    <2>3. CASE p.pc = "idle"
      <3>1. r = p
        BY <2>1, <2>3 DEF Disturb
      <3>2. HasCritical(r)'
        BY <2>3, <3>1 DEF HasCritical, Steps
      <3> QED
        BY <2>1, <2>2, <3>1, <3>2
    <2>4. CASE p.pc # "idle"
      <3>1. r = [p EXCEPT !.calm = FALSE]
        BY <2>1, <2>4 DEF Disturb
      <3>2. PICK T : p \in Of(T)
        BY <2>2 DEF ProcessOK, Shape
      <3>3. /\ Shape(r) /\ r.pc = p.pc /\ r.cand = p.cand /\ r.query = p.query
            /\ r.result = p.result /\ r.calm = FALSE
        <4>1. r \in Of(T \cup {FALSE})
          BY <3>1, <3>2 DEF Of
        <4> QED
          BY <3>1, <3>2, <4>1 DEF Of, Shape
      <3>4. ProcessOK(r)
        BY <2>2, <3>3 DEF ProcessOK
      <3>5. HasCritical(r)'
        BY <3>3 DEF HasCritical
      <3> QED
        BY <2>1, <3>4, <3>5
    <2> QED
      BY <2>3, <2>4
  <1>4. \A a \in Agents : EntriesOK(a)'
    BY <1>1 DEF IInv, EntriesOK
  <1>5. cache' = [a \in Agents |-> cache'[a]] /\ counts' = [a \in Agents |-> counts'[a]]
    BY <1>1 DEF IInv
  <1> QED
    BY <1>2, <1>3, <1>4, <1>5 DEF IInv, ProcessOK

LEMMA OthersKeep ==
    ASSUME IInv, (\E m \in Memories : StoreRow(m) \/ IndexRelation(m)) \/ ClearStore \/ ClearGraph
    PROVE  IInv'
  <1>1. Disturb /\ UNCHANGED <<caches, answers>>
    BY DEF StoreRow, IndexRelation, ClearStore, ClearGraph
  <1>2. rows \in [Memories -> Nat]
    BY DEF IInv
  <1>3. rows' \in [Memories -> Nat]
    BY <1>2 DEF StoreRow, IndexRelation, ClearStore, ClearGraph
  <1> QED
    BY <1>1, <1>3, DisturbKeeps

LEMMA NextKeeps == IInv /\ [Next]_vars => IInv'
  <1> SUFFICES ASSUME IInv, [Next]_vars PROVE IInv'
    OBVIOUS
  <1>1. CASE UNCHANGED vars
    <2>1. UNCHANGED <<rows, proc, cache, counts, answers>>
      BY <1>1 DEF vars, tables, caches
    <2>2. ASSUME NEW q PROVE CriticalOf(q)' = CriticalOf(q)
      BY <2>1 DEF CriticalOf, ListMemories, FirstOf, Listed, Stored, Now
    <2>3. ASSUME NEW m PROVE Now(m)' = Now(m)
      BY <2>1 DEF Now
    <2>4. \A a \in Agents : HasCritical(proc[a])'
      <3>1. SUFFICES ASSUME NEW a \in Agents PROVE HasCritical(proc[a])'
        OBVIOUS
      <3>2. PICK p : p = proc[a]
        OBVIOUS
      <3>3. HasCritical(p) /\ p = proc'[a]
        BY <2>1, <3>2 DEF IInv
      <3>4. HasCritical(p)'
        BY <2>2, <2>3, <3>3 DEF HasCritical
      <3> QED
        BY <3>3, <3>4
    <2> QED
      BY <2>1, <2>4 DEF IInv, EntriesOK
  <1>2. ASSUME NEW a \in Agents, NEW q \in Queries, Ask(a, q)
        PROVE  IInv'
    BY <1>2, AskKeeps
  <1>3. ASSUME NEW a \in Agents, ReadCritical(a) \/ LookUp(a) \/ InspectCached(a) \/ Invalidate(a)
        PROVE  IInv'
    BY <1>3, ReadCriticalKeeps, LookUpKeeps, InspectCachedKeeps, InvalidateKeeps
  <1>4. ASSUME NEW a \in Agents, SearchText(a) \/ ReadLinks(a) \/ ReadNeighbours(a) \/ WalkGraph(a)
        PROVE  IInv'
    BY <1>4, SearchTextKeeps, ReadLinksKeeps, ReadNeighboursKeeps, WalkGraphKeeps
  <1>5. ASSUME NEW a \in Agents, ReadWalked(a) \/ FillUp(a) \/ Rank(a) \/ Record(a)
        PROVE  IInv'
    BY <1>5, ReadWalkedKeeps, FillUpKeeps, RankKeeps, RecordKeeps
  <1>6. CASE (\E m \in Memories : StoreRow(m) \/ IndexRelation(m)) \/ ClearStore \/ ClearGraph
    BY <1>6, OthersKeep
  <1> QED
    BY <1>1, <1>2, <1>3, <1>4, <1>5, <1>6 DEF Next

LEMMA Invariant == Spec => []IInv
  BY RecallInit, NextKeeps, PTL DEF Spec

-----------------------------------------------------------------------------
(* The theorems of the pipeline. *)

\* Whatever the cache kept, the graph led to, or others replaced or rebuilt
\* between the reads, every result of recall is of the scope and tags asked for,
\* not deleted, and in force unless history is asked for; there are top_k at most.
THEOREM ResultsAnswer == Spec => []ResultsAnswerTheQuery
  <1>1. ASSUME IInv, NEW a \in Agents, proc[a].pc = "recording"
        PROVE  /\ Len(proc[a].result) <= Q(a).top
               /\ \A m \in Results(a) :
                     LET e == proc[a].cand[m].env IN
                     /\ Matches(e, Q(a))
                     /\ e.life.state # "deleted"
                     /\ ActiveAt(e.life, Q(a).at) \/ Q(a).asks.hist
    <2>1. /\ CandidatesOK(proc[a].cand, Q(a))
          /\ RankedOK(proc[a].result, proc[a].cand, Q(a))
      BY <1>1 DEF IInv, ProcessOK, Q
    <2>2. Results(a) \subseteq Recalled(proc[a].cand, Q(a))
      BY <2>1 DEF RankedOK, Results
    <2> QED
      BY <2>1, <2>2 DEF RankedOK, CandidatesOK, Recalled, ShouldRecall
  <1>2. IInv => ResultsAnswerTheQuery
    BY <1>1 DEF ResultsAnswerTheQuery
  <1> QED
    BY <1>2, Invariant, PTL

\* The list of critical memories, cut before and after it is filtered, reaches
\* every one of the scope that has few enough rows before it.
LEMMA FewAheadIsListed ==
    ASSUME NEW q, NEW limit \in Nat, NEW m \in Found(q), Imp(m) >= 95,
           Cardinality(Ahead(m)) < limit * ListFactor,
           Cardinality(Ahead(m) \cap Found(q)) < limit
    PROVE  m \in ListMemories(q, 95, limit)
  <1>1. PICK read, bound : /\ bound = limit * ListFactor
                           /\ read = FirstOf({n \in Stored : Now(n).life.base >= 95}, bound)
    OBVIOUS
  <1>2. limit * ListFactor \in Nat
    BY RecallAssumption
  <1>3. m \in Stored /\ Matches(Now(m), q) /\ Now(m).life.base >= 95 /\ IsFiniteSet(Ahead(m))
    <2>1. IsFiniteSet(Memories) /\ Ahead(m) \in SUBSET Memories
      BY RecallAssumption DEF Ahead, Stored
    <2> QED
      BY <2>1, FS_Subset DEF Found, Imp
  <1>4. ASSUME NEW few \in SUBSET Ahead(m), NEW all \in SUBSET Ahead(m), few \subseteq all,
               NEW b \in Nat, Cardinality(all) < b
        PROVE  Cardinality(few) < b
    <2>1. IsFiniteSet(all)
      BY <1>3, FS_Subset
    <2>2. Cardinality(few) <= Cardinality(all) /\ Cardinality(few) \in Nat /\ Cardinality(all) \in Nat
      BY <1>4, <2>1, FS_Subset, FS_CardinalityType
    <2> QED
      BY <1>4, <2>2
  <1>5. m \in read
    <2>1. PICK few : few = {n \in {x \in Stored : Now(x).life.base >= 95} : Listed(n, m)}
      OBVIOUS
    <2>2. few \in SUBSET Ahead(m)
      BY <2>1 DEF Ahead
    <2>3. Cardinality(few) < bound
      BY <1>1, <1>2, <1>4, <2>2
    <2> QED
      BY <1>1, <1>3, <2>1, <2>3 DEF FirstOf
  <1>6. PICK mine : mine = {n \in read : Matches(Now(n), q)}
    OBVIOUS
  <1>7. m \in FirstOf(mine, limit)
    <2>1. PICK few : few = {n \in mine : Listed(n, m)}
      OBVIOUS
    <2>2. few \subseteq Ahead(m) \cap Found(q)
      BY <1>1, <1>6, <2>1 DEF Ahead, Found, FirstOf
    <2>3. Cardinality(few) < limit
      BY <1>4, <2>2
    <2> QED
      BY <1>3, <1>5, <1>6, <2>1, <2>3 DEF FirstOf
  <1> QED
    BY <1>1, <1>6, <1>7 DEF ListMemories

\* A critical, active memory of the scope, in force, with fewer rows listed before
\* it than the two cuts of the list leave room for, is among the results of a
\* recall that nobody disturbed, unless these are full of urgent ones of which
\* none weighs less (recall.py:63-65, 131-140).
THEOREM CriticalRecalled == Spec => []CriticalIsRecalled
  <1>1. ASSUME IInv, NEW a \in Agents, proc[a].pc = "recording", proc[a].calm,
               NEW m \in Found(Q(a)) \ Results(a), NEW limit, limit = Larger(Q(a).top, ListMin),
               Imp(m) >= 95, Now(m).life.state = "active", ActiveAt(Now(m).life, Q(a).at),
               Cardinality(Ahead(m)) < limit * ListFactor,
               Cardinality(Ahead(m) \cap Found(Q(a))) < limit
        PROVE  /\ m \in DOMAIN proc[a].cand /\ Cardinality(Results(a)) = Q(a).top
               /\ \A n \in Results(a) :
                     /\ Urgent(proc[a].cand[n])
                     /\ ~(Weight(proc[a].cand[m], Q(a)) > Weight(proc[a].cand[n], Q(a)))
    <2>1. /\ HasCritical(proc[a])
          /\ RankedOK(proc[a].result, proc[a].cand, Q(a)) /\ Q(a) \in Queries
      BY <1>1 DEF IInv, ProcessOK, Q
    <2>2. m \in CriticalOf(Q(a))
      <3>1. limit \in Nat
        BY <1>1, <2>1, RecallAssumption DEF Larger, IsQuery
      <3> QED
        BY <1>1, <3>1, FewAheadIsListed DEF CriticalOf
    <2>3. /\ m \in DOMAIN proc[a].cand /\ "critical" \in proc[a].cand[m].why
          /\ proc[a].cand[m].env = Now(m)
      BY <1>1, <2>1, <2>2 DEF HasCritical, Steps, Q
    <2>4. m \in Recalled(proc[a].cand, Q(a)) /\ Urgent(proc[a].cand[m])
      BY <1>1, <2>3 DEF Recalled, ShouldRecall, Urgent
    <2>5. Results(a) = Listing(proc[a].result)
      BY DEF Results, Listing
    <2> QED
      BY <1>1, <2>1, <2>3, <2>4, <2>5 DEF RankedOK
  <1>2. IInv => CriticalIsRecalled
    BY <1>1 DEF CriticalIsRecalled
  <1> QED
    BY <1>2, Invariant, PTL

\* An entry of the engram cache is made after enough results, is never empty or
\* long, and lists only what its process returned for the signature, whatever
\* invalidate_memory takes from it and however often it is replaced.
THEOREM CacheRepeats == Spec => []CacheRepeatsAnswers
  <1>1. IInv => CacheRepeatsAnswers
    BY DEF IInv, EntriesOK, CacheRepeatsAnswers
  <1> QED
    BY <1>1, Invariant, PTL

=============================================================================
