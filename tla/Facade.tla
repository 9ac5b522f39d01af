------------------------------- MODULE Facade -------------------------------
(***************************************************************************)
(* living_memory in work mode (_living_memory_work of mcp_server.py): what *)
(* recall finds is filtered by time, ranked, left out where it cannot      *)
(* answer, and told to the agent as one answer of many parts: two frames,  *)
(* evidence, relations, knowledge and lessons.  The parts read the graph,  *)
(* the fact ledger and the knowledge graph one after the other, while      *)
(* other processes write them; caches hold, for one call, the relations    *)
(* and the fact statuses that were read first.                             *)
(*                                                                         *)
(* Recall is a module of its own: here it finds any of the memories.       *)
(* Weights are in hundredths, scores in ten-thousandths; a square root and *)
(* the decay by age are data.                                              *)
(***************************************************************************)
EXTENDS Scoring, Frames, GraphQueries, Curriculum

CONSTANTS
    Memories,
    Envelopes,   \* for each memory what is stored of it, see Envelope
    Queries,     \* see Query0
    Rows,        \* the relations other processes may add
    Generic,     \* GENERIC_ANSWER_TERMS
    Late,        \* valid_to is None
    Sizes,       \* the length of an entry of each list of the structured frame
    Fixed,       \* the length of what does not shrink
    None

\* terms: of its content, tags, entities and source; heading: of its path; root:
\* the root of how many they are, in hundredths; weak and unsafe: by its tags
\* and markers; relations: its own.
Envelope == [terms : SUBSET STRING, heading : SUBSET STRING, root : Nat \ {0},
             type : STRING, tags : SUBSET STRING, labels : SUBSET STRING,
             sensitivity : STRING, shown : SUBSET STRING, weak : BOOLEAN, unsafe : BOOLEAN,
             conf : 0 .. 100, usage : 0 .. 100, recency : 0 .. 100, life : View,
             lines : Lines, relations : SUBSET [mem : STRING]]

ASSUME FacadeAssumption ==
    /\ IsFiniteSet(Memories) /\ DOMAIN Envelopes = Memories
    /\ \A q \in Queries :
          /\ q.phase \in Phases /\ q.asks \in Asks /\ q.length \in Nat
          /\ q.budget \in Nat \ {0} /\ q.top \in Nat \ {0}
          /\ DOMAIN q.score = Memories /\ DOMAIN q.why = Memories
    /\ \A m \in Memories : Envelopes[m].life \in View /\ Envelopes[m].lines \in Lines
    /\ \A r \in Rows : r.mem \in Memories
    /\ Sizes \in [ToSet(ShrinkOrder) -> Nat] /\ Fixed \in Nat

VARIABLES
    graph,      \* relations of graph.sqlite3
    facts,      \* each memory's fact in facts.sqlite3: "none", "active", "superseded"
    asserted,   \* and its assertion in knowledge.sqlite3
    work,       \* the call in progress
    answer,     \* the answer, until the next call
    held        \* ghost: the statuses each fact had during the call

facadeVars == <<graph, facts, asserted, work, answer, held>>

NoWork == [pc |-> "idle", query |-> None, found |-> {}, kept |-> {}, counted |-> FALSE,
           views |-> <<>>, status |-> <<>>, ranked |-> <<>>, supported |-> FALSE,
           frame |-> None, ids |-> {}, subgraphs |-> {}, hints |-> {}, evidence |-> <<>>]

FacadeInit == /\ graph = {} /\ facts = [m \in Memories |-> "none"] /\ asserted = facts
              /\ work = NoWork /\ answer = None /\ held = [m \in Memories |-> {}]

FacadeIdle == work.pc = "idle"
Q == work.query
To(pc) == work' = [work EXCEPT !.pc = pc]
tablesOfFacade == <<graph, facts, asserted>>

-----------------------------------------------------------------------------
(* Relations of a memory: its own and those of the graph, as first read.   *)

RowsOf(m) == {r \in graph : r.mem = m}
View0(m) == Envelopes[m].relations
            \cup (IF m \in DOMAIN work.views THEN work.views[m] ELSE RowsOf(m))

Timed(rows) == {r \in rows : r.from > 0 \/ r.to < Late}
\* _memory_is_inactive_at: it has relations with a validity, none of them in force.
InactiveAt(rows, at) == Timed(rows) # {} /\ \A r \in Timed(rows) : ~InForce(r, at)

\* _memory_terms
MemoryTerms(m) == Envelopes[m].terms
                  \cup UNION {{r.subject, r.predicate, r.object} : r \in View0(m)}

-----------------------------------------------------------------------------
(* Facts: none are read if the ledger was empty when the call began.       *)

\* Mutant: the ledger is read each time.
StatusNow(m) == IF work.counted THEN facts[m] ELSE "none"
\* _fact_status_for_memory
StatusOf(m) == IF ~work.counted THEN "none"
               ELSE IF m \in DOMAIN work.status THEN work.status[m] ELSE facts[m]

FactAdjustment(m) == CASE StatusOf(m) = "superseded" -> IF Q.asks.cur THEN -5500 ELSE 0
                       [] StatusOf(m) = "active" -> 800
                       [] OTHER -> 0

-----------------------------------------------------------------------------
(* Relevance.                                                              *)

Anchors == Q.terms \ Generic
AnchorCoverage(m) == Coverage(Anchors, MemoryTerms(m))

\* _facade_relevance
Relevance(m) ==
    LET e == Envelopes[m]
        density == (10000 * Cardinality(Q.terms \cap MemoryTerms(m))) \div e.root
    IN  Clamp(42 * Coverage(Q.terms, MemoryTerms(m)) + 22 * Coverage(Q.terms, e.heading)
              + 10 * density + (22 * Q.score[m]) \div 100
              + (IF {"fts", "graph", "engram"} \cap Q.why[m] # {} THEN 800 ELSE 0)
              + (IF e.type = "artifact_section" THEN 600 ELSE 0)
              + 8 * e.life.base + 14 * AnchorCoverage(m), 10000)

\* _facade_score: nothing is asked of the lifecycle here.
FacadeScore(m) ==
    LET e == Envelopes[m]
        nothing == [hist |-> FALSE, cur |-> FALSE]
    IN  Clamp((45 * Q.score[m]) \div 100 + 25 * EffectiveImportance(e.life, nothing, NoTime)
              + 20 * e.conf + 10 * e.recency
              + (IF e.life.base >= 95 \/ "critical" \in Q.why[m] THEN 500 ELSE 0), 10000)

TemporalBonus(m) ==
    IF Q.at = NoTime \/ ~Q.asks.cur \/ Timed(View0(m)) = {} THEN 0
    ELSE IF InactiveAt(View0(m), Q.at) THEN -4000 ELSE 1800

LifecycleAdjustment(m) ==
    LET change == AdjustedScore(Envelopes[m].life, Q.score[m], Q.asks, Q.at) - Q.score[m]
    IN  IF change < -3500 THEN -3500 ELSE IF change > 2000 THEN 2000 ELSE change

HeadingBonus(m) ==
    LET coverage == 20 * Coverage(Anchors, Envelopes[m].heading)
    IN  (IF coverage > 1600 THEN 1600 ELSE coverage)
        + (IF {"run", "command"} \cap Q.terms # {} /\ "command" \in Envelopes[m].heading
           THEN 2200 ELSE 0)

\* _diversity_penalty: the likeness to the nearest of those before.
Likeness(m, n) ==
    LET left == MemoryTerms(m) \cup Q.terms
        right == MemoryTerms(n)
    IN  IF right = {} THEN 0 ELSE (100 * Cardinality(left \cap right))
                                  \div Cardinality(left \cup right)
Diversity(m, before) == Max({0} \cup {Likeness(m, n) : n \in ToSet(before)})

Standing(m) ==
    (52 * FacadeScore(m) + 48 * Relevance(m)) \div 100 + TemporalBonus(m)
    + LifecycleAdjustment(m) + FactAdjustment(m) + 20 * AnchorCoverage(m) + HeadingBonus(m)

\* _rank_for_facade: again and again the best of those that remain; of equal ones
\* any, since the order they were recalled in is left out.
RankForFacade(ms) ==
    LET standing == [m \in ms |-> Standing(m)]
        score(order, i, m) == standing[m] - 18 * Diversity(m, SubSeq(order, 1, i - 1))
    IN  {order \in [1 .. Cardinality(ms) -> ms] :
            /\ IsInjective(order)
            /\ \A i, k \in DOMAIN order :
                  i < k => score(order, i, order[k]) <= score(order, i, order[i])}

\* _is_weak_memory
Weak(m) == /\ {"noise", "draft"} \cap Q.terms = {}
           /\ \/ Envelopes[m].weak
              \/ Envelopes[m].unsafe /\ {"attack", "safety"} \cap Q.terms = {}

\* _candidate_can_answer
CanAnswer(m) ==
    /\ ~Weak(m)
    /\ IF Cardinality(Anchors) < 2 THEN Q.terms \cap MemoryTerms(m) # {}
       ELSE AnchorCoverage(m) >= 50

\* _apply_abstention_filter
Answering(order) ==
    IF Q.terms = {} THEN order
    ELSE Only(order, {m \in ToSet(order) : Relevance(m) >= 4500 /\ CanAnswer(m)})

-----------------------------------------------------------------------------
(* The call.                                                               *)

StartWork(q) ==
    /\ FacadeIdle
    /\ work' = [NoWork EXCEPT !.pc = "recalling", !.query = q,
                              !.counted = \E m \in Memories : facts[m] # "none"]
    /\ held' = [m \in Memories |-> {facts[m]}] /\ answer' = None
    /\ offered' = <<>>
    /\ UNCHANGED <<tablesOfFacade, tools, traces, lessonRows>>

\* recall, of which anything may come; without at_time nothing is filtered.
RecallForWork ==
    /\ work.pc = "recalling"
    /\ \E ms \in SUBSET Memories :
          work' = [work EXCEPT !.pc = IF Q.at = NoTime THEN "weighing" ELSE "filtering",
                               !.found = ms, !.kept = IF Q.at = NoTime THEN ms ELSE {}]
    /\ UNCHANGED <<tablesOfFacade, answer, held, curriculumVars>>

\* A cache that holds x for m.
With(cache, m, x) == [n \in DOMAIN cache \cup {m} |-> IF n = m THEN x ELSE cache[n]]

\* The relations of m are read, unless the call has read them before.
Viewed(m) == IF m \in DOMAIN work.views THEN work.views ELSE With(work.views, m, RowsOf(m))

\* _filter_temporal_results
FilterTemporal ==
    /\ work.pc = "filtering"
    /\ \/ \E m \in work.found :
             work' = [work EXCEPT !.found = @ \ {m}, !.views = Viewed(m),
                                  !.kept = IF InactiveAt(View0(m), Q.at) THEN @ ELSE @ \cup {m}]
       \/ work.found = {} /\ work' = [work EXCEPT !.pc = "weighing", !.found = work.kept]
    /\ UNCHANGED <<tablesOfFacade, answer, held, curriculumVars>>

\* The first round of _rank_for_facade reads what it needs of every memory.
Weigh ==
    /\ work.pc = "weighing"
    /\ \E m \in work.found :
          work' = [work EXCEPT !.found = @ \ {m}, !.views = Viewed(m),
                               !.status = With(@, m, StatusOf(m))]
    /\ UNCHANGED <<tablesOfFacade, answer, held, curriculumVars>>

\* What a frame says of a memory: its text, or that it is withheld.
NoticeLength == 60
LinesFor(m) == IF Withheld(Envelopes[m])
               THEN [Envelopes[m].lines EXCEPT !.text = NoticeLength, !.gap = FALSE]
               ELSE Envelopes[m].lines

Candidate(m) == [env |-> Envelopes[m], score |-> Q.score[m], why |-> Q.why[m]]

\* Mutant: only what the frame has room for can be inspected.
InspectableOfFrame(frame, ranked) == ToSet(frame.ids)
\* If the frame has no room for any, all can.
Inspectable(frame, ranked) == IF frame.ids = <<>> THEN ToSet(ranked) ELSE ToSet(frame.ids)

\* The rest of the ranking, the scores and the first frame read nothing more.
RankAndFrame ==
    /\ work.pc = "weighing" /\ work.found = {}
    /\ \E order \in RankForFacade(work.kept) :
       LET ranked == FirstOfSeq(Answering(order), Q.top)
           scores == [m \in ToSet(ranked) |-> Features(Candidate(m), Q)]
           frame == TextFrame(ranked, [m \in ToSet(ranked) |-> LinesFor(m)], Q.length, Q.budget)
       IN  work' = [work EXCEPT !.pc = "subgraphs", !.ranked = ranked, !.frame = frame,
                        !.supported = Supported(Q.terms, scores, Q.phase),
                        !.ids = Inspectable(frame, ranked)]
    /\ UNCHANGED <<tablesOfFacade, answer, held, curriculumVars>>

SubgraphsOf(ids, anchors) ==
    IF ids = {} THEN {}
    ELSE AnswerableSubgraphs(graph, anchors, ids, Q.at, IF Cardinality(anchors) >= 3 THEN 2 ELSE 1)

\* _answerable_subgraphs
ReadSubgraphs ==
    /\ work.pc = "subgraphs"
    /\ LET anchors == IF Anchors = {} THEN Q.terms ELSE Anchors
       IN  work' = [work EXCEPT !.pc = "hints",
                        !.subgraphs = {g \in SubgraphsOf(work.ids, anchors) : g.answerability > 0}]
    /\ UNCHANGED <<tablesOfFacade, answer, held, curriculumVars>>

\* _graph_hints (the limits of the lists are beyond Rows)
ReadHints ==
    /\ work.pc = "hints"
    /\ work' = [work EXCEPT !.pc = "evidence",
                    !.hints = {r \in graph : r.mem \in work.ids /\ InForce(r, Q.at)}]
    /\ UNCHANGED <<tablesOfFacade, answer, held, curriculumVars>>

\* _validated_by
ValidatedBy(m) ==
    LET why == Q.why[m]
        graphed == \E g \in work.subgraphs : m \in g.mems
    IN  {v \in {"graph_validated_topology", "graph", "answerable_subgraph", "lexical", "engram",
                "criticality"} :
            CASE v = "graph_validated_topology" -> "mobius_graph" \in why
              [] v = "graph" -> "graph" \in why \/ graphed
              [] v = "answerable_subgraph" -> graphed
              [] v = "lexical" -> "fts" \in why
              [] v = "engram" -> "engram" \in why
              [] v = "criticality" -> "critical" \in why}

\* _facade_evidence
GatherEvidence ==
    /\ work.pc = "evidence"
    /\ LET shown == Only(work.ranked, work.ids)
           rows == [i \in DOMAIN shown |->
                       [mem |-> shown[i], status |-> StatusOf(shown[i]),
                        validated |-> ValidatedBy(shown[i]),
                        withheld |-> Withheld(Envelopes[shown[i]])]]
       IN  work' = [work EXCEPT !.pc = "knowledge", !.evidence = FirstOfSeq(rows, 8)]
    /\ UNCHANGED <<tablesOfFacade, answer, held, curriculumVars>>

-----------------------------------------------------------------------------
(* The answer.                                                             *)

\* Of each list of the structured frame how long its entries are.
ListsOf(known) ==
    LET count == [assertions |-> Cardinality(known), entities |-> Cardinality(known),
                  hints |-> Cardinality(work.hints), subgraphs |-> Cardinality(work.subgraphs),
                  evidence |-> Len(work.evidence), current_facts |-> Cardinality(known),
                  decisions |-> Cardinality({i \in DOMAIN work.evidence :
                                   Envelopes[work.evidence[i].mem].type = "decision"})]
    IN  [l \in DOMAIN count |-> [i \in 1 .. count[l] |-> Sizes[l]]]

\* _procedural_lessons: those of the tools, then of ranked memories that are
\* lessons, four in all.
LessonsFor ==
    LET tool == Lessons(1)
        told == Only(work.ranked, {m \in Memories : /\ Lesson(Envelopes[m])
                                                    /\ Q.terms \cap Envelopes[m].terms # {}})
    IN  FirstOfSeq([i \in DOMAIN tool |-> tool[i].tool] \o told, 4)

\* _knowledge_context is read, the second frame fitted, and the call answered;
\* the caches are as before the call.
AnswerWork ==
    /\ work.pc = "knowledge"
    /\ LET known == {m \in work.ids : asserted[m] = "active"}
       IN  answer' = [query |-> Q, status |-> IF work.ids = {} THEN "abstained" ELSE "ok",
                      supported |-> work.supported, ranked |-> work.ranked,
                      frame |-> work.frame, ids |-> work.ids, evidence |-> work.evidence,
                      subgraphs |-> work.subgraphs, hints |-> work.hints, known |-> known,
                      sections |-> FitSections(ListsOf(known), Fixed, Q.budget),
                      lessons |-> LessonsFor, used |-> work.status, views |-> work.views,
                      held |-> held]
    /\ work' = NoWork /\ held' = [m \in Memories |-> {}]
    /\ UNCHANGED <<tablesOfFacade, curriculumVars>>

\* recall_context: the packets of what recall finds.
RecallContext(q) ==
    /\ FacadeIdle
    /\ \E ms \in SUBSET Memories :
          LET order == SetToSeq(ms) IN
          answer' = [query |-> q, status |-> "packets", ranked |-> order,
                     frame |-> Packets(order, [m \in ms |-> Envelopes[m].lines], q.budget)]
    /\ offered' = <<>>
    /\ UNCHANGED <<tablesOfFacade, work, held, tools, traces, lessonRows>>

-----------------------------------------------------------------------------
(* Other processes.                                                        *)

Relate(r) ==
    /\ r \notin graph
    /\ graph' = graph \cup {r}
    /\ UNCHANGED <<facts, asserted, work, answer, held, curriculumVars>>

\* add_fact, for a memory's fact or for one that replaces it.
AddFact(m) ==
    /\ facts[m] # "superseded"
    /\ facts' = [facts EXCEPT ![m] = IF @ = "none" THEN "active" ELSE "superseded"]
    /\ held' = IF FacadeIdle THEN held ELSE [held EXCEPT ![m] = @ \cup {facts'[m]}]
    /\ UNCHANGED <<graph, asserted, work, answer, curriculumVars>>

\* index_fact, in a commit of its own.
IndexFact(m) ==
    /\ asserted[m] # facts[m]
    /\ asserted' = [asserted EXCEPT ![m] = facts[m]]
    /\ UNCHANGED <<graph, facts, work, answer, held, curriculumVars>>

-----------------------------------------------------------------------------
Answered == answer # None /\ answer.status # "packets"

\* What the evidence says of a memory's fact is what its rank was computed with,
\* and the fact was so at some moment of this call, although other processes
\* supersede facts in between; and a memory of the answer was in force at the
\* time asked by the very relations its terms were taken from.
EvidenceIsOneView ==
    Answered =>
        /\ \A i \in DOMAIN answer.evidence :
              LET row == answer.evidence[i] IN
              /\ row.status = answer.used[row.mem]
              /\ row.status \in answer.held[row.mem] \cup {"none"}
        /\ answer.query.at # NoTime =>
              \A m \in answer.ids :
                  ~InactiveAt(Envelopes[m].relations \cup answer.views[m], answer.query.at)

\* The parts of an answer speak of the same memories: it abstains exactly when
\* nothing ranked, and then it has no evidence, relation or knowledge and is not
\* called supported; every part is about ids that can be inspected, which ranked,
\* and a frame that dropped some names the others.
PartsAgree ==
    Answered =>
        LET shown == {answer.evidence[i].mem : i \in DOMAIN answer.evidence} IN
        /\ (answer.status = "ok") = (answer.ranked # <<>>)
        /\ answer.supported => /\ answer.status = "ok"
                               /\ \A i \in DOMAIN answer.evidence : ~answer.evidence[i].withheld
        /\ answer.ids \subseteq ToSet(answer.ranked) /\ shown \subseteq answer.ids
        /\ {r.mem : r \in answer.hints} \cup answer.known \subseteq answer.ids
        /\ \A g \in answer.subgraphs : g.mems \subseteq answer.ids

\* What an answer takes of the budget: the text frame no more unless its first
\* line does, the packets no more, and the structured frame, unless all its lists
\* are empty, no more than an estimate of the whole budget would add, which is
\* written into it after it was fitted (sif.py:387).  What was not dropped is
\* named, and evidence is dropped only after all knowledge, hints and subgraphs.
FramesFit ==
    answer # None =>
        LET budget == answer.query.budget
            most(first) == IF first > budget * CharsPerToken THEN first ELSE budget * CharsPerToken
        IN  IF answer.status = "packets" THEN answer.frame.used <= budget
            ELSE /\ answer.frame.used <= most(HeaderLine(answer.query.length, budget))
                 /\ Len(answer.frame.ids) + answer.frame.dropped = Len(answer.ranked)
                 /\ LET left == answer.sections.lists IN
                    /\ \/ /\ answer.sections.roi <= budget
                          /\ answer.sections.tokens <= budget + Tokens(EstimateLength(budget))
                       \/ \A l \in DOMAIN left : left[l] = <<>>
                    /\ Len(left["evidence"]) < Len(answer.evidence) =>
                          \A l \in {"assertions", "entities", "hints", "subgraphs"} : left[l] = <<>>

=============================================================================
