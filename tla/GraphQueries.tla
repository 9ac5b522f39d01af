---------------------------- MODULE GraphQueries ----------------------------
(***************************************************************************)
(* The questions living_memoryv2 asks its relation graph (graph.py), over  *)
(* a set of rows.  A row has its subject, predicate, object and graph name *)
(* in normal form, the memory it came from, its validity, its confidence   *)
(* in hundredths and its age.                                              *)
(***************************************************************************)
EXTENDS Integers, Sequences, FiniteSets, SequencesExt

\* at_time, valid_from and valid_to may be None: -1, 0 and a late time.
InForce(r, at) == at = -1 \/ (r.from <= at /\ at <= r.to)

Nodes(r) == {r.subject, r.object}

\* relation_nodes_for_memory_ids, for one memory
NodesOf(rows, m, at) == UNION {Nodes(r) : r \in {x \in rows : x.mem = m /\ InForce(x, at)}}

\* The rows a frontier of terms touches: by subject, predicate or object.
Touched(rows, frontier, at) ==
    {r \in rows : InForce(r, at) /\ {r.subject, r.predicate, r.object} \cap frontier # {}}

\* One pass of the loop of walk_related_memory_ids; weights, which order what is
\* found, are left out.
AfterHop(rows, walk, at) ==
    LET asked == walk.frontier \ walk.seen
        found == Touched(rows, asked, at)
    IN  [frontier |-> UNION {Nodes(r) : r \in found},
         seen |-> walk.seen \cup asked,
         hits |-> walk.hits \cup found]

Walk(rows, terms, hops, at) ==
    LET last == IF hops < 1 THEN 1 ELSE hops
        walk[h \in 0 .. last] ==
            IF h = 0 THEN [frontier |-> terms, seen |-> {}, hits |-> {}]
            ELSE AfterHop(rows, walk[h - 1], at)
    IN  walk[last].hits

WalkedMemories(rows, terms, hops, at) == {r.mem : r \in Walk(rows, terms, hops, at)}

-----------------------------------------------------------------------------
(* answerable_subgraphs: by graph, the rows that match two anchors.        *)

RowTerms(r) == {r.subject, r.predicate, r.object, r.graph}
Anchored(rows, anchors, mems, at, least) ==
    {r \in rows : /\ mems = {} \/ r.mem \in mems
                  /\ InForce(r, at)
                  /\ Cardinality(anchors \cap RowTerms(r)) >= least}

\* Coverage grows row by row and is weighed with that row's confidence.
Answerability(order, anchors) ==
    LET covered(i) == anchors \cap UNION {RowTerms(order[j]) : j \in 1 .. i}
        value == {(Cardinality(covered(i)) * 100 * order[i].conf) \div Cardinality(anchors) :
                     i \in DOMAIN order}
    IN  CHOOSE v \in value : \A w \in value : w <= v

Confident(r, s) == r.conf > s.conf \/ (r.conf = s.conf /\ r.at > s.at)

Subgraph(rows, anchors, graph) ==
    LET order == SetToSortSeq({r \in rows : r.graph = graph}, Confident)
    IN  [graph |-> graph, rows |-> {r \in rows : r.graph = graph},
         mems |-> {r.mem : r \in {x \in rows : x.graph = graph}},
         anchors |-> anchors \cap UNION {RowTerms(r) : r \in {x \in rows : x.graph = graph}},
         answerability |-> Answerability(order, anchors)]

AnswerableSubgraphs(rows, anchors, mems, at, least) ==
    IF anchors = {} THEN {}
    ELSE LET found == Anchored(rows, anchors, mems, at, least)
         IN  {Subgraph(found, anchors, g) : g \in {r.graph : r \in found}}

=============================================================================
