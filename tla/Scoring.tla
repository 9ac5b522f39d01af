------------------------------ MODULE Scoring -------------------------------
(***************************************************************************)
(* What living_memoryv2 thinks of a recalled memory besides its rank: the  *)
(* labels that keep its text out of prompts (governance.py), the features  *)
(* that make it useful (scoring.py) and whether the memories together      *)
(* answer the question (answerability.py).  Features and penalties are in  *)
(* hundredths, weighted sums in ten-thousandths.                           *)
(***************************************************************************)
EXTENDS Lifecycle, FiniteSets, FiniteSetsExt

InspectOnly == {"credential", "pii", "prompt_attack", "restricted"}
Sensitive == {"sensitive", "confidential", "restricted", "credential", "pii"}

\* safety_labels_for: those in the metadata, the tags that are labels, and those
\* the text itself shows.
SafetyLabels(e) ==
    e.labels \cup ({e.sensitivity} \cap Sensitive) \cup e.shown
    \cup (e.tags \cap {"credential", "pii"})
    \cup (IF "prompt-attack" \in e.tags THEN {"prompt_attack"} ELSE {})

\* prompt_policy is inspect_only.
Withheld(e) == SafetyLabels(e) \cap InspectOnly # {}

-----------------------------------------------------------------------------
(* score_memory_candidate                                                  *)

Phases == {"work_start", "tool_preflight", "planning", "final_verification",
           "conflict_resolution"}

Coverage(terms, has) ==
    IF terms = {} THEN 0 ELSE (100 * Cardinality(terms \cap has)) \div Cardinality(terms)

GraphSignal(why) == IF "mobius_graph" \in why THEN 100 ELSE IF "graph" \in why THEN 85 ELSE 0

Lesson(e) == e.type = "procedural" \/ {"lesson", "tool-use"} \cap e.tags # {}

PhaseFit(e, phase) ==
    CASE phase = "tool_preflight" -> IF Lesson(e) THEN 100 ELSE 35
      [] phase = "planning" ->
            IF e.type \in {"decision", "procedural", "artifact_section"} THEN 100 ELSE 55
      [] phase = "final_verification" ->
            IF e.type \in {"decision", "semantic", "artifact", "artifact_section"} THEN 100 ELSE 45
      [] phase = "conflict_resolution" -> 100
      [] OTHER -> 70

Staleness(state, asks) ==
    IF asks.hist THEN 0
    ELSE CASE state = "superseded" -> IF asks.cur THEN 60 ELSE 45
           [] state = "contradicted" -> 50
           [] state = "archival" -> 35
           [] state = "historical" -> 25
           [] OTHER -> 0

Risk(e) == Max({0} \cup (IF SafetyLabels(e) \cap InspectOnly # {} THEN {75} ELSE {})
                   \cup (IF SafetyLabels(e) \cap {"confidential", "sensitive"} # {} THEN {45}
                         ELSE {}))

\* The features of candidate c of a query; usage, a logarithm, is a datum.
Features(c, q) ==
    LET e == c.env
        f == [retrieval |-> c.score \div 100, lexical |-> Coverage(q.terms, e.terms),
              graph |-> GraphSignal(c.why), time |-> EffectiveImportance(e.life, q.asks, q.at),
              importance |-> e.life.base, confidence |-> e.conf, activation |-> e.usage,
              phase |-> PhaseFit(e, q.phase), risk |-> Risk(e),
              stale |-> Staleness(e.life.state, q.asks)]
    IN  [features |-> f,
         utility |-> Clamp(18 * f.retrieval + 18 * f.lexical + 14 * f.graph + 12 * f.time
                           + 12 * f.importance + 10 * f.confidence + 8 * f.activation
                           + 8 * f.phase - 35 * f.risk - 25 * f.stale, 10000)]

-----------------------------------------------------------------------------
(* assess_answerability                                                    *)

ThresholdFor(phase) == CASE phase = "final_verification" -> 6000
                         [] phase = "tool_preflight" -> 4000
                         [] phase = "planning" -> 3500
                         [] OTHER -> 2500

\* scores: for each memory its features.
Supported(terms, scores, phase) ==
    LET all == DOMAIN scores
        best(f) == Max({scores[m].features[f] : m \in all})
        stale == MapThenSumSet(LAMBDA m : scores[m].features.stale, all)
                 \div Cardinality(all)
        score == (34 * Max({scores[m].utility : m \in all})) \div 100
                 + 22 * best("lexical") + 14 * best("graph") + 12 * best("confidence")
                 + 10 * best("time") - 35 * best("risk") - 20 * stale
    IN  /\ terms # {} /\ all # {}
        /\ Clamp(score, 10000) >= ThresholdFor(phase)
        /\ best("risk") < 50
        /\ best("lexical") > 0 \/ best("graph") > 0

=============================================================================
