----------------------------- MODULE Lifecycle ------------------------------
(***************************************************************************)
(* How the state of a memory weighs on recall in living_memoryv2           *)
(* (lifecycle.py).  Importance is in hundredths and a score in             *)
(* ten-thousandths, so that the weights of the code are integers; the      *)
(* bonus for use is at most twelve hundredths.                             *)
(***************************************************************************)
EXTENDS Integers

States == {"active", "historical", "superseded", "contradicted", "archival", "deleted"}

NoTime == -1     \* at_time is None

\* LifecycleView, with the memory's importance; delta is importance_delta.
View == [state : States, from : Int, to : Int, bonus : 0 .. 12, delta : Int, base : 0 .. 100]

\* What the terms of a query ask for: history, the present, or neither.
Asks == [hist : BOOLEAN, cur : BOOLEAN]

Clamp(x, top) == IF x < 0 THEN 0 ELSE IF x > top THEN top ELSE x

ActiveAt(l, at) == at = NoTime \/ (l.from <= at /\ at <= l.to)

Penalty(state) == CASE state = "historical" -> -10
                    [] state = "superseded" -> -28
                    [] state = "contradicted" -> -22
                    [] state = "archival" -> -35
                    [] OTHER -> 0

Kept == {"historical", "superseded", "archival"}

\* effective_importance
StateAdjustment(l, q, at) ==
    Penalty(l.state)
    + (IF q.hist /\ l.state \in Kept THEN 25 ELSE 0)
    + (IF q.hist /\ l.state = "contradicted" THEN 10 ELSE 0)
    - (IF q.cur /\ l.state = "superseded" THEN 12 ELSE 0)
    - (IF ~ActiveAt(l, at) /\ ~q.hist THEN 50 ELSE 0)

EffectiveImportance(l, q, at) ==
    IF l.state = "deleted" THEN 0
    ELSE Clamp(l.base + l.delta + StateAdjustment(l, q, at) + l.bonus, 100)

\* adjusted_score
ScoreAdjustment(l, q) ==
    (IF l.state \in Kept /\ q.hist THEN 1600 ELSE 0)
    - (IF l.state = "superseded" /\ q.cur THEN 1800 ELSE 0)
    - (IF l.state = "contradicted" /\ ~q.hist THEN 2000 ELSE 0)

AdjustedScore(l, score, q, at) ==
    IF l.state = "deleted" THEN 0
    ELSE Clamp(score + (EffectiveImportance(l, q, at) - l.base) * 65 + ScoreAdjustment(l, q),
               10000)

\* should_recall
ShouldRecall(l, q, at) == l.state # "deleted" /\ (ActiveAt(l, at) \/ q.hist)

\* Without a question for history, a memory of any other state never scores
\* above what it would score if it were active; a contradicted one not even with
\* that question, nor a superseded one if the query also asks for the present.
\* A deleted memory scores nothing, whatever is asked.
NeverLifted(l, q) == \/ ~q.hist
                     \/ l.state = "contradicted"
                     \/ l.state = "superseded" /\ q.cur

DownrankedUnlessHistorical(l, score, q, at) ==
    LET active == [l EXCEPT !.state = "active"] IN
    /\ NeverLifted(l, q) => AdjustedScore(l, score, q, at) <= AdjustedScore(active, score, q, at)
    /\ l.state = "deleted" => AdjustedScore(l, score, q, at) = 0
    /\ ShouldRecall(l, q, at) => ShouldRecall(active, q, at)

=============================================================================
