------------------------------- MODULE Recall -------------------------------
(***************************************************************************)
(* RecallPipeline.recall of living_memoryv2 with its engram cache          *)
(* (recall.py, engram.py): one query gathers candidates from the store,    *)
(* the cache of its own process, the text index, the Mobius index and the  *)
(* graph, one read after the other, weighs them by lifecycle and cuts the  *)
(* order at top_k.  Nothing keeps the tables still meanwhile: other        *)
(* processes remember, replace, index and rebuild between the reads.       *)
(*                                                                         *)
(* The reads of one layer are one step.  Scores are in ten-thousandths,    *)
(* importance and confidence in hundredths.                                *)
(***************************************************************************)
EXTENDS Lifecycle, GraphQueries, Mobius, Functions

CONSTANTS
    Memories,
    Versions,      \* memory |-> the envelopes remembered under its id, in order
    Queries,       \* see Query
    Agents,        \* server processes, each with a cache
    Threshold,     \* cache_threshold
    MaxIds,        \* max_memory_ids
    ListMin, ListFactor,   \* 10 and 4: the least limit of a list, rows read per row asked
    MaxRecalls, MaxClears, \* bounds on the recalls and the rebuilds
    None

\* An envelope: its place, its marks, its weights, its relation.
Envelope == [scope : STRING, tags : SUBSET STRING, conf : 0 .. 100, created : Nat,
             life : View, cell : Cells,
             subject : STRING, object : STRING]

\* root: for each memory, the root of the share of the query's terms it has,
\* in hundredths; text: the memories the text index finds.
IsQuery(q) == /\ {"name", "scope", "tags", "top", "asks", "at", "hops", "terms", "root", "text"}
                    = DOMAIN q
              /\ q.asks \in Asks /\ q.top \in Nat /\ q.text \subseteq Memories
              /\ q.root \in [Memories -> 0 .. 100]

ASSUME RecallAssumption ==
    /\ IsFiniteSet(Memories) /\ \A m \in Memories : Versions[m] \in Seq(Envelope)
    /\ \A q \in Queries : IsQuery(q)
    /\ {Threshold, MaxIds, ListMin, ListFactor} \subseteq Nat \ {0}
    /\ {MaxRecalls, MaxClears} \subseteq Nat

VARIABLES
    rows,         \* memory.sqlite3: the version of each memory it has, or 0
    related,      \* memories whose relation graph.sqlite3 has
    cache,        \* each process: signature |-> the ids of its entry
    counts,       \* each process: signature |-> results recorded so far
    proc,         \* each process: the recall it is in
    answers,      \* ghost: signatures and ids that were returned, by process
    recalls, clears

tables == <<rows, related>>
caches == <<cache, counts>>
vars == <<tables, caches, proc, answers, recalls, clears>>

Idle == [pc |-> "idle", query |-> None, cand |-> <<>>, ids |-> {}, seeds |-> {},
         linked |-> {}, result |-> <<>>, calm |-> TRUE]

Init == /\ rows = [m \in Memories |-> 0] /\ related = {}
        /\ cache = [a \in Agents |-> <<>>] /\ counts = [a \in Agents |-> <<>>]
        /\ proc = [a \in Agents |-> Idle]
        /\ answers = {} /\ recalls = 0 /\ clears = 0

Stored == {m \in Memories : rows[m] > 0}
Env(m, v) == Versions[m][v]
Now(m) == Env(m, rows[m])
Matches(e, q) == q.scope \in {None, e.scope} /\ q.tags \subseteq e.tags
Found(q) == {m \in Stored : Matches(Now(m), q)}

Smaller(x, y) == IF x < y THEN x ELSE y
Larger(x, y) == IF x < y THEN y ELSE x

-----------------------------------------------------------------------------
(* store.list_memories: by importance, limited before it is filtered.      *)

Listed(m, n) == \/ Now(m).life.base > Now(n).life.base
                \/ Now(m).life.base = Now(n).life.base /\ Now(m).created > Now(n).created
FirstOf(ms, limit) == {m \in ms : Cardinality({n \in ms : Listed(n, m)}) < limit}

\* Mutant: no more rows are read than are asked for.
ListMemoriesTight(q, least, limit) ==
    LET read == FirstOf({m \in Stored : Now(m).life.base >= least}, limit)
    IN  FirstOf({m \in read : Matches(Now(m), q)}, limit)
ListMemories(q, least, limit) ==
    LET read == FirstOf({m \in Stored : Now(m).life.base >= least}, limit * ListFactor)
    IN  FirstOf({m \in read : Matches(Now(m), q)}, limit)

-----------------------------------------------------------------------------
(* Candidates: _merge keeps the envelope first read, the best score and    *)
(* every reason.                                                           *)

Merged(c, reason, score) ==
    [env |-> c.env, score |-> Larger(c.score, Clamp(score, 10000)), why |-> c.why \cup {reason}]

\* Every member of ms as it is stored now; score gives each its weight.
MergedAll(cand, ms, reason, score) ==
    LET fresh(m) == [env |-> Now(m), score |-> 0, why |-> {}]
        known(m) == IF m \in DOMAIN cand THEN cand[m] ELSE fresh(m)
    IN  [m \in DOMAIN cand \cup ms |->
            IF m \in ms THEN Merged(known(m), reason, score[m]) ELSE cand[m]]

Imp(m) == Now(m).life.base
LexicalScore(q, m) == IF q.root[m] = 0 THEN 0
                      ELSE Smaller(10000, q.root[m] * 70 + Imp(m) * 15)

\* Process a goes on to pc with these candidates.
Gather(a, pc, cand) == proc' = [proc EXCEPT ![a].pc = pc, ![a].cand = cand]
Q(a) == proc[a].query

-----------------------------------------------------------------------------
(* recall                                                                  *)

Ask(a, q) ==
    /\ proc[a].pc = "idle"
    /\ recalls < MaxRecalls
    /\ recalls' = recalls + 1
    /\ proc' = [proc EXCEPT ![a] = [Idle EXCEPT !.pc = "critical", !.query = q]]
    /\ UNCHANGED <<tables, caches, answers, clears>>

ReadCritical(a) ==
    /\ proc[a].pc = "critical"
    /\ LET ms == ListMemories(Q(a), 95, Larger(Q(a).top, ListMin))
       IN  Gather(a, "cached", MergedAll(proc[a].cand, ms, "critical",
                                         [m \in ms |-> 7000 + Imp(m) * 25]))
    /\ UNCHANGED <<tables, caches, answers, recalls, clears>>

\* The signature of a query: not its top_k, its time nor its hops.
Signature(q) == <<q.name, q.scope, q.tags>>

\* lookup: the first top_k ids of the entry.
LookUp(a) ==
    /\ proc[a].pc = "cached"
    /\ LET sig == Signature(Q(a))
           ids == IF sig \in DOMAIN cache[a] THEN cache[a][sig] ELSE <<>>
       IN  proc' = [proc EXCEPT ![a].pc = "inspecting",
                                ![a].ids = {ids[i] : i \in 1 .. Smaller(Q(a).top, Len(ids))}]
    /\ UNCHANGED <<tables, caches, answers, recalls, clears>>

\* Mutant: a cached id is trusted.
UsableCachedBlind(a, m) == TRUE
\* A memory may have been replaced since its id was cached.
UsableCached(a, m) == Matches(Now(m), Q(a))

InspectCached(a) ==
    /\ proc[a].pc = "inspecting"
    /\ \E m \in proc[a].ids \cap Stored :
          LET ms == IF UsableCached(a, m) THEN {m} ELSE {}
          IN  proc' = [proc EXCEPT ![a].ids = @ \ {m},
                                   ![a].cand = MergedAll(@, ms, "engram",
                                                         [n \in ms |-> 6000 + Imp(n) * 25])]
    /\ UNCHANGED <<tables, caches, answers, recalls, clears>>

\* invalidate_memory: no entry lists m, which an entry names once, and none is
\* empty.
Dropped(ids, m) == IF m \in Range(ids)
                   THEN RemoveAt(ids, CHOOSE i \in DOMAIN ids : ids[i] = m)
                   ELSE ids
Without(entries, m) ==
    LET kept == [s \in DOMAIN entries |-> Dropped(entries[s], m)]
    IN  [s \in {t \in DOMAIN kept : kept[t] # <<>>} |-> kept[s]]

\* inspect raises KeyError.
Invalidate(a) ==
    /\ proc[a].pc = "inspecting"
    /\ \E m \in proc[a].ids \ Stored :
          /\ cache' = [cache EXCEPT ![a] = Without(@, m)]
          /\ proc' = [proc EXCEPT ![a].ids = @ \ {m}]
    /\ UNCHANGED <<tables, counts, answers, recalls, clears>>

\* search_text, and of what it finds the first min(max(top_k, 1), 8) by bm25.
SearchText(a) ==
    /\ proc[a].pc = "inspecting" /\ proc[a].ids = {}
    /\ LET ms == Q(a).text \cap Found(Q(a))
           cand == MergedAll(proc[a].cand, ms, "fts", [m \in ms |-> LexicalScore(Q(a), m) + 3500])
           count == Smaller(Smaller(Larger(Q(a).top, 1), 8), Cardinality(ms))
       IN  \E seeds \in {s \in SUBSET ms : Cardinality(s) = count} :
              proc' = [proc EXCEPT ![a] = [@ EXCEPT !.pc = "linking", !.cand = cand,
                                                    !.seeds = seeds]]
    /\ UNCHANGED <<tables, caches, answers, recalls, clears>>

\* _graph_nodes_for_many: the nodes of the seeds are read before the rest.
ReadLinks(a) ==
    /\ proc[a].pc = "linking"
    /\ proc' = [proc EXCEPT ![a].pc = "neighbours", ![a].linked = proc[a].seeds \cap related]
    /\ UNCHANGED <<tables, caches, answers, recalls, clears>>

Relation(m, e) == [subject |-> e.subject, predicate |-> "about", object |-> e.object,
                   mem |-> m, graph |-> "semantic", from |-> e.life.from, to |-> e.life.to,
                   conf |-> e.conf, at |-> e.created]
\* A relation is that of the first envelope: INSERT OR IGNORE keeps it.
Relations(ms) == {Relation(m, Env(m, 1)) : m \in ms}

\* Cells around each cell of a memory, by the Mobius index of the store.
Around == [c \in UNION {{e.cell : e \in {Versions[m][v] : v \in DOMAIN Versions[m]}} :
                            m \in Memories} |-> Neighbours(c, 1)]
Near(s) == {m \in Stored : Now(m).cell \in Around[Now(s).cell]}

\* A neighbour that shares a node with its seed counts as the graph's too.
Validated(a, s, m) ==
    LET known(x) == IF x \in proc[a].seeds THEN proc[a].linked ELSE related
        nodes(x) == NodesOf(Relations({x} \cap known(x)), x, Q(a).at)
    IN  m # s /\ nodes(s) \cap nodes(m) # {}

ReadNeighbours(a) ==
    /\ proc[a].pc = "neighbours"
    /\ LET seeds == proc[a].seeds \cap Stored
           ms == {m \in Found(Q(a)) : \E s \in seeds : m \in Near(s)}
           sure == {m \in ms : \E s \in seeds : m \in Near(s) /\ Validated(a, s, m)}
           near == MergedAll(proc[a].cand, ms, "mobius", [m \in ms |-> 4500 + Imp(m) * 20])
       IN  Gather(a, "walking", MergedAll(near, sure, "mobius_graph",
                                          [m \in sure |-> 6800 + Imp(m) * 22]))
    /\ UNCHANGED <<tables, caches, answers, recalls, clears>>

WalkGraph(a) ==
    /\ proc[a].pc = "walking"
    /\ proc' = [proc EXCEPT ![a].pc = "reading",
                    ![a].ids = WalkedMemories(Relations(related), Q(a).terms, Q(a).hops, Q(a).at)]
    /\ UNCHANGED <<tables, caches, answers, recalls, clears>>

WalkedUsable(a) == proc[a].ids \cap Found(Q(a))

ReadWalked(a) ==
    /\ proc[a].pc = "reading"
    /\ LET ms == WalkedUsable(a)
       IN  Gather(a, "filling", MergedAll(proc[a].cand, ms, "graph",
                                          [m \in ms |-> 7200 + Imp(m) * 28]))
    /\ UNCHANGED <<tables, caches, answers, recalls, clears>>

\* With too few candidates every listed memory that has a term of the query.
FillUp(a) ==
    /\ proc[a].pc = "filling"
    /\ LET ms == IF Cardinality(DOMAIN proc[a].cand) >= Q(a).top THEN {}
                 ELSE {m \in ListMemories(Q(a), 0, 100) : LexicalScore(Q(a), m) > 0}
       IN  Gather(a, "ranking", MergedAll(proc[a].cand, ms, "lexical",
                                          [m \in ms |-> LexicalScore(Q(a), m)]))
    /\ UNCHANGED <<tables, caches, answers, recalls, clears>>

\* The key of the order: critical and active first, then the adjusted score,
\* importance, confidence and age.
Urgent(c) == "critical" \in c.why /\ c.env.life.state = "active"
RankOf(c, q) == <<IF Urgent(c) THEN 1 ELSE 0,
                  AdjustedScore(c.env.life, c.score, q.asks, q.at),
                  c.env.life.base, c.env.conf, c.env.created>>
Above(k, l) == \E i \in 1 .. 5 : k[i] > l[i] /\ \A j \in 1 .. i - 1 : k[j] = l[j]

\* What has the same key stays in the order it was found in: any order here.
Recalled(cand, q) == {m \in DOMAIN cand : ShouldRecall(cand[m].env.life, q.asks, q.at)}
Orders(cand, q) ==
    {order \in Bijection(1 .. Cardinality(Recalled(cand, q)), Recalled(cand, q)) :
        \A i, j \in DOMAIN order :
            i < j => ~Above(RankOf(cand[order[j]], q), RankOf(cand[order[i]], q))}

Rank(a) ==
    /\ proc[a].pc = "ranking"
    /\ \E order \in Orders(proc[a].cand, Q(a)) :
          proc' = [proc EXCEPT ![a].pc = "recording",
                               ![a].result = SubSeq(order, 1, Smaller(Q(a).top, Len(order)))]
    /\ UNCHANGED <<tables, caches, answers, recalls, clears>>

Put(table, key, value) == [k \in DOMAIN table \cup {key} |-> IF k = key THEN value ELSE table[k]]
Counted(a, sig) == (IF sig \in DOMAIN counts[a] THEN counts[a][sig] ELSE 0) + 1

\* Mutant: the entry is made one result early.
HotEarly(n) == n + 1 >= Threshold
Hot(n) == n >= Threshold

\* record_result: from the threshold on, the entry is the latest result.
Record(a) ==
    /\ proc[a].pc = "recording"
    /\ LET sig == Signature(Q(a))
           ids == proc[a].result
       IN  /\ counts' = IF ids = <<>> THEN counts
                        ELSE [counts EXCEPT ![a] = Put(@, sig, Counted(a, sig))]
           /\ cache' = IF ids = <<>> \/ ~Hot(Counted(a, sig)) THEN cache
                       ELSE [cache EXCEPT ![a] =
                                Put(@, sig, SubSeq(ids, 1, Smaller(MaxIds, Len(ids))))]
           /\ answers' = answers \cup {<<a, sig, ids[i]>> : i \in DOMAIN ids}
    /\ proc' = [proc EXCEPT ![a] = Idle]
    /\ UNCHANGED <<tables, recalls, clears>>

-----------------------------------------------------------------------------
(* Other processes: remember, and rebuild_indexes (Vault has their steps). *)

\* Every recall in progress has seen the tables change.
Disturb == proc' = [a \in Agents |-> IF proc[a].pc = "idle" THEN proc[a]
                                     ELSE [proc[a] EXCEPT !.calm = FALSE]]

\* The row, its text and its address in one commit.
StoreRow(m) ==
    /\ rows[m] < Len(Versions[m])
    /\ rows' = [rows EXCEPT ![m] = @ + 1]
    /\ Disturb
    /\ UNCHANGED <<related, caches, answers, recalls, clears>>

IndexRelation(m) ==
    /\ m \in Stored \ related
    /\ related' = related \cup {m}
    /\ Disturb
    /\ UNCHANGED <<rows, caches, answers, recalls, clears>>

\* A rebuild unlinks the store, clears the graph and stores every row anew.
ClearStore ==
    /\ Stored # {} /\ clears < MaxClears
    /\ clears' = clears + 1
    /\ rows' = [m \in Memories |-> 0]
    /\ Disturb
    /\ UNCHANGED <<related, caches, answers, recalls>>

ClearGraph ==
    /\ clears > 0 /\ Stored = {} /\ related # {}
    /\ related' = {}
    /\ Disturb
    /\ UNCHANGED <<rows, caches, answers, recalls, clears>>

Next == \/ \E a \in Agents :
              \/ \E q \in Queries : Ask(a, q)
              \/ ReadCritical(a) \/ LookUp(a) \/ InspectCached(a) \/ Invalidate(a)
              \/ SearchText(a) \/ ReadLinks(a) \/ ReadNeighbours(a)
              \/ WalkGraph(a) \/ ReadWalked(a) \/ FillUp(a) \/ Rank(a) \/ Record(a)
        \/ \E m \in Memories : StoreRow(m) \/ IndexRelation(m)
        \/ ClearStore \/ ClearGraph

Spec == Init /\ [][Next]_vars

-----------------------------------------------------------------------------
Reasons == {"critical", "engram", "fts", "mobius", "mobius_graph", "graph", "lexical"}

Results(a) == {proc[a].result[i] : i \in DOMAIN proc[a].result}

\* Whatever the cache kept, the graph led to, or others replaced or rebuilt
\* between the reads, every result is a memory as it was read: of the scope and
\* tags asked for, not deleted, in force at the time asked unless the query is
\* about history; there are at most top_k.
ResultsAnswerTheQuery ==
    \A a \in Agents : proc[a].pc = "recording" =>
        /\ Len(proc[a].result) <= Q(a).top
        /\ \A m \in Results(a) :
              LET e == proc[a].cand[m].env IN
              /\ Matches(e, Q(a))
              /\ e.life.state # "deleted"
              /\ ActiveAt(e.life, Q(a).at) \/ Q(a).asks.hist

\* The rows listed before m, of whatever scope.
Ahead(m) == {n \in Stored : Listed(n, m)}
Weight(c, q) == AdjustedScore(c.env.life, c.score, q.asks, q.at)

\* The reach of "critical" (recall.py:63, store.py:209): a critical, active memory
\* of the scope, in force, that has fewer than four times the limit of rows of any
\* scope before it, and fewer than the limit of its own scope, is among the
\* results of a recall that nobody disturbed, whatever the query says, or the
\* results are full, all critical and active, and none weighs less.  As the rows
\* are cut before they are filtered, more rows of other scopes do hide it.
CriticalIsRecalled ==
    \A a \in Agents : (proc[a].pc = "recording" /\ proc[a].calm) =>
        LET limit == Larger(Q(a).top, ListMin)
            c == proc[a].cand
        IN  \A m \in Found(Q(a)) \ Results(a) :
               (/\ Imp(m) >= 95 /\ Now(m).life.state = "active"
                /\ ActiveAt(Now(m).life, Q(a).at)
                /\ Cardinality(Ahead(m)) < limit * ListFactor
                /\ Cardinality(Ahead(m) \cap Found(Q(a))) < limit) =>
                   /\ m \in DOMAIN c /\ Cardinality(Results(a)) = Q(a).top
                   /\ \A n \in Results(a) :
                         Urgent(c[n]) /\ ~(Weight(c[m], Q(a)) > Weight(c[n], Q(a)))

\* A process caches a signature only after enough results for it, an entry is
\* never empty or long, and lists only what that process returned for the
\* signature: invalidation and replacement keep it so across rebuilds.
CacheRepeatsAnswers ==
    \A a \in Agents : \A s \in DOMAIN cache[a] :
        /\ s \in DOMAIN counts[a] /\ counts[a][s] >= Threshold
        /\ Len(cache[a][s]) \in 1 .. MaxIds
        /\ \A i \in DOMAIN cache[a][s] : <<a, s, cache[a][s][i]>> \in answers

=============================================================================
