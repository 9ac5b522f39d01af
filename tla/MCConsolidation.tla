-------------------------- MODULE MCConsolidation --------------------------
(* Finite instances of Consolidation for TLC. *)
EXTENDS Consolidation, TLC

CONSTANTS a, b, c, d

\* What is said of two contents is said both ways, but for denials, and every
\* content is a duplicate of itself, but for one without a word.
Relation(both, denials, wordless) ==
    [r \in Requests |-> [s \in Requests |->
        IF {r, s} \cap wordless # {} THEN "new"
        ELSE IF r = s THEN "merged"
        ELSE IF \E p \in both : {p[1], p[2]} = {r, s}
             THEN (CHOOSE p \in both : {p[1], p[2]} = {r, s})[3]
             ELSE IF <<r, s>> \in denials THEN "contradicts" ELSE "new"]]

\* c denies a, which does not deny c, and is a version of b; d says no word.
Denial == Relation({<<b, c, "superseded">>, <<a, b, "merged">>}, {<<a, c>>}, {d})

\* One at a time all four requests, in any order and retried twice; overlapping,
\* three of them, retried once, and d behind them.
AloneOrThree ==
    overlapped => /\ faults <= 1
                  /\ task[d].pc = "waiting"
                     \/ \A r \in Requests \ {d} : task[r].pc \in {"done", "failed"}
=============================================================================
