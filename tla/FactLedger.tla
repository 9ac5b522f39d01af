----------------------------- MODULE FactLedger -----------------------------
(***************************************************************************)
(* The fact ledger of living_memoryv2 and the two indexes built from it.   *)
(* facts.sqlite3 keeps facts and conflicts, knowledge.sqlite3 assertions   *)
(* that repeat them, graph.sqlite3 an edge for each.  Every server process *)
(* of the vault writes all three databases, one commit at a time, and may  *)
(* rebuild the two indexes (vault.py, rebuild_indexes).                    *)
(*                                                                         *)
(* A fact's identity is the hash of what it says, so a caller may add it   *)
(* again.  All facts of the model share a subject, hence one entity.  A    *)
(* rank stands for (confidence, created_at), which a caller chooses.  The  *)
(* graph is kept as a set: its unique key has nullable columns, so         *)
(* INSERT OR IGNORE may store an edge twice, and no reader counts edges.   *)
(***************************************************************************)
EXTENDS Naturals, Sequences, FiniteSets

CONSTANTS
    Facts,        \* identities of facts
    Agents,       \* processes that share the vault
    Ranks,        \* places in the order (confidence, created_at)
    MaxAdds, MaxRebuilds, MaxCrashes,    \* bounds on the calls and on the crashes
    MaxRaces,     \* bound on the calls that begin inside another's
    Logged,       \* does memories.jsonl exist: was a memory ever remembered?
    None

ASSUME FactAssumption == /\ IsFiniteSet(Facts) /\ None \notin Facts /\ None \notin Agents
                         /\ Ranks \subseteq Nat
                         /\ MaxAdds \in Nat /\ MaxRebuilds \in Nat /\ MaxCrashes \in Nat
                         /\ MaxRaces \in Nat /\ Logged \in BOOLEAN

VARIABLES
    ledger,       \* table facts
    conflicts,    \* table fact_conflicts: <<superseding, superseded>>
    lock,         \* the process inside a write transaction of facts.sqlite3
    kg,           \* table kg_assertions, the assertion of each fact
    kgConflicts,  \* table kg_conflicts
    sources,      \* facts whose memory the subject's row of kg_entities lists
    edges,        \* graph.sqlite3
    proc,         \* each process: where it is and what it has read
    adds, rebuilds, crashes, races,
    history       \* ghost: have the calls so far, or since a rebuild, been alone?

facts == <<ledger, conflicts, lock>>
indexes == <<kg, kgConflicts, sources, edges>>
calls == <<adds, rebuilds, crashes, races>>
vars == <<facts, indexes, proc, calls, history>>

Edge == {"fact", "fact_conflict", "knowledge", "knowledge_conflict"} \X Facts \X Facts
Absent == [status |-> "absent", by |-> None, sups |-> {}, rank |-> 0, row |-> 0]
NoAssertion == [status |-> "absent", by |-> None]
Idle == [pc |-> "idle", fact |-> None, sups |-> {}, rank |-> 0, todo |-> {},
         queue |-> <<>>, olds |-> {}, seen |-> {}, rebuild |-> FALSE, alone |-> TRUE]

Stored == {f \in Facts : ledger[f].row # 0}
Asserted == {f \in Facts : kg[f].status # "absent"}
Busy == {a \in Agents : proc[a].pc # "idle"}

Init == /\ ledger = [f \in Facts |-> Absent]
        /\ conflicts = {}
        /\ lock = None
        /\ kg = [f \in Facts |-> NoAssertion]
        /\ kgConflicts = {}
        /\ sources = {}
        /\ edges = {}
        /\ proc = [a \in Agents |-> Idle]
        /\ adds = 0 /\ rebuilds = 0 /\ crashes = 0 /\ races = 0
        /\ history = "sequential"

-----------------------------------------------------------------------------
(* Calls.  What a call may rely on depends on its running alone.           *)

Started(a, p) ==
    proc' = [b \in Agents |-> IF b = a THEN [p EXCEPT !.alone = Busy = {}]
                                       ELSE [proc[b] EXCEPT !.alone = FALSE]]

Overlapping == /\ Busy = {} \/ races < MaxRaces
               /\ races' = IF Busy = {} THEN races ELSE races + 1
               /\ history' = IF Busy = {} THEN history ELSE "unknown"

Unlocked == lock = None

\* add_fact begins: INSERT OR REPLACE opens the write transaction.
AddFact(a, f, sups, rank) ==
    /\ a \notin Busy
    /\ Unlocked
    /\ adds < MaxAdds
    /\ adds' = adds + 1
    /\ lock' = a
    /\ Started(a, [Idle EXCEPT !.pc = "adding", !.fact = f, !.sups = sups, !.rank = rank,
                               !.todo = {<<"fact", f, f>>}
                                        \cup {<<"fact_conflict", f, o>> : o \in sups}])
    /\ Overlapping
    /\ UNCHANGED <<ledger, conflicts, indexes, rebuilds, crashes>>

\* rebuild_indexes begins: graph.clear().
Rebuild(a) ==
    /\ a \notin Busy
    /\ rebuilds < MaxRebuilds
    /\ rebuilds' = rebuilds + 1
    /\ edges' = {}
    /\ Started(a, [Idle EXCEPT !.pc = "clearing", !.rebuild = TRUE])
    /\ Overlapping
    /\ UNCHANGED <<facts, kg, kgConflicts, sources, adds, crashes>>

\* Each edge is a commit of graph.sqlite3; a fact's own edge comes first.
WriteEdge(a, e) ==
    /\ e \in proc[a].todo
    /\ e[1] \in {"fact_conflict", "knowledge_conflict"} =>
           ~\E d \in proc[a].todo : d[1] \in {"fact", "knowledge"}
    /\ edges' = edges \cup {e}
    /\ proc' = [proc EXCEPT ![a].todo = @ \ {e}]
    /\ UNCHANGED <<facts, kg, kgConflicts, sources, calls, history>>

\* Mutant: an upsert keeps the row of a fact that is replaced.
IsRowKept(f, n) ==
    IF ledger[f].row # 0 THEN n = ledger[f].row
    ELSE /\ \A g \in Facts \ {f} : ledger[g].row < n
         /\ n = 1 \/ \E g \in Facts \ {f} : ledger[g].row = n - 1
\* The key SQLite gives a new row: one more than the largest of the others.
IsNewRow(f, n) ==
    /\ \A g \in Facts \ {f} : ledger[g].row < n
    /\ n = 1 \/ \E g \in Facts \ {f} : ledger[g].row = n - 1

\* Mutant: a fact that is replaced keeps the heir it had.
InsertedKeepingHeir(f, sups, rank, n) ==
    [ledger EXCEPT ![f] = [status |-> "active", by |-> ledger[f].by, sups |-> sups,
                           rank |-> rank, row |-> n]]
Inserted(f, sups, rank, n) ==
    [ledger EXCEPT ![f] = [status |-> "active", by |-> None, sups |-> sups,
                           rank |-> rank, row |-> n]]

Superseded(table, f, sups) ==
    [o \in Facts |-> IF o \in sups /\ table[o].row # 0
                     THEN [table[o] EXCEPT !.status = "superseded", !.by = f]
                     ELSE table[o]]

Commit(a) ==
    /\ proc[a].pc = "adding" /\ proc[a].todo = {}
    /\ \E n \in 1 .. Cardinality(Facts) + MaxAdds :
          /\ IsNewRow(proc[a].fact, n)
          /\ ledger' = Superseded(Inserted(proc[a].fact, proc[a].sups, proc[a].rank, n),
                                  proc[a].fact, proc[a].sups)
    /\ conflicts' = conflicts \cup {<<proc[a].fact, o>> : o \in proc[a].sups}
    /\ lock' = None
    /\ proc' = [proc EXCEPT ![a].pc = "committed"]
    /\ UNCHANGED <<indexes, calls, history>>

\* What get and list_facts return of a fact.
Read(f) == [fact |-> f, status |-> ledger[f].status, sups |-> ledger[f].sups]

Get(a) ==
    /\ proc[a].pc = "committed"
    /\ proc' = [proc EXCEPT ![a].pc = "indexing", ![a].queue = <<Read(proc[a].fact)>>]
    /\ UNCHANGED <<facts, indexes, calls, history>>

-----------------------------------------------------------------------------
(* index_fact of the records in the queue, for a new fact or in a rebuild. *)

Head1(a) == Head(proc[a].queue)

\* assertion_ids_for_facts
LookUp(a) ==
    /\ proc[a].pc = "indexing" /\ proc[a].queue # <<>>
    /\ proc' = [proc EXCEPT ![a].pc = "upserting",
                            ![a].olds = Head1(a).sups \cap Asserted]
    /\ UNCHANGED <<facts, indexes, calls, history>>

\* upsert_entity reads the row and, in another transaction, replaces it.
ReadEntity(a) ==
    /\ proc[a].pc = "upserting"
    /\ proc' = [proc EXCEPT ![a].pc = "merging", ![a].seen = sources]
    /\ UNCHANGED <<facts, indexes, calls, history>>

Merged(a) == proc[a].seen \cup {Head1(a).fact}

WriteEntity(a) ==
    /\ proc[a].pc = "merging"
    /\ sources' = Merged(a)
    /\ proc' = [proc EXCEPT ![a].pc = "asserting"]
    /\ UNCHANGED <<facts, kg, kgConflicts, edges, calls, history>>

\* Mutant: an assertion is written as active, whatever the fact's status.
StatusActive(rec) == "active"
StatusOf(rec) == rec.status

Outdated(table, f, olds) ==
    [o \in Facts |-> IF o \in olds /\ table[o].status # "absent"
                     THEN [status |-> "superseded", by |-> f] ELSE table[o]]

\* add_assertion
WriteAssertion(a) ==
    /\ proc[a].pc = "asserting"
    /\ LET rec == Head1(a) IN
       LET f == rec.fact IN
       LET olds == proc[a].olds IN
          /\ kg' = Outdated([kg EXCEPT ![f] = [status |-> StatusOf(rec), by |-> None]], f, olds)
          /\ kgConflicts' = kgConflicts \cup {<<f, o>> : o \in olds}
          /\ proc' = [proc EXCEPT ![a].pc = "asserted",
                          ![a].todo = {<<"knowledge", f, f>>}
                                      \cup {<<"knowledge_conflict", f, o>> : o \in olds}]
    /\ UNCHANGED <<facts, sources, edges, calls, history>>

Finished(a) ==
    /\ proc' = [proc EXCEPT ![a] = Idle]
    /\ history' = IF proc[a].rebuild /\ proc[a].alone THEN "rebuilt" ELSE history

\* get_assertion reads the assertion back, and the next record's turn comes.
Indexed(a) ==
    /\ proc[a].pc = "asserted" /\ proc[a].todo = {}
    /\ Head1(a).fact \in Asserted
    /\ IF Len(proc[a].queue) = 1
          THEN Finished(a)
          ELSE /\ proc' = [proc EXCEPT ![a].pc = "indexing", ![a].queue = Tail(@)]
               /\ UNCHANGED history
    /\ UNCHANGED <<facts, indexes, calls>>

-----------------------------------------------------------------------------
(* rebuild_indexes, without the replay of the memories between.            *)

\* knowledge.clear(); without a log of memories the facts' turn never comes.
ClearKnowledge(a) ==
    /\ proc[a].pc = "clearing"
    /\ kg' = [f \in Facts |-> NoAssertion]
    /\ kgConflicts' = {}
    /\ sources' = {}
    /\ IF Logged THEN /\ proc' = [proc EXCEPT ![a].pc = "cleared"]
                      /\ UNCHANGED history
       ELSE /\ proc' = [proc EXCEPT ![a] = Idle]
            /\ history' = "unknown"
    /\ UNCHANGED <<facts, edges, calls>>

LedgerEdges ==
    {<<"fact", f, f>> : f \in Stored}
    \cup {<<"fact_conflict", c[1], c[2]>> : c \in {c \in conflicts : c[1] \in Stored}}

\* facts.rebuild_graph_index(): reads the ledger, then writes its edges.
RebuildGraph(a) ==
    /\ proc[a].pc = "cleared"
    /\ proc' = [proc EXCEPT ![a].pc = "regraphing", ![a].todo = LedgerEdges]
    /\ UNCHANGED <<facts, indexes, calls, history>>

\* Rows in the order confidence DESC, created_at DESC.
Listings == {s \in [1 .. Cardinality(Stored) -> Stored] :
                \A i, j \in DOMAIN s : i < j => /\ s[i] # s[j]
                                                /\ ledger[s[i]].rank >= ledger[s[j]].rank}

\* facts.list_facts(limit=None)
ListFacts(a) ==
    /\ proc[a].pc = "regraphing" /\ proc[a].todo = {}
    /\ \E s \in Listings :
          IF s = <<>> THEN Finished(a)
          ELSE /\ proc' = [proc EXCEPT ![a].pc = "indexing",
                                       ![a].queue = [i \in DOMAIN s |-> Read(s[i])]]
               /\ UNCHANGED history
    /\ UNCHANGED <<facts, indexes, calls>>

\* An exception (a database stays locked, an entity is gone) or the death
\* of the process: an open transaction is rolled back.
Abandon(a) ==
    /\ a \in Busy
    /\ crashes < MaxCrashes
    /\ crashes' = crashes + 1
    /\ lock' = IF lock = a THEN None ELSE lock
    /\ proc' = [proc EXCEPT ![a] = Idle]
    /\ history' = "unknown"
    /\ UNCHANGED <<ledger, conflicts, indexes, adds, rebuilds, races>>

\* get_assertion finds that another process cleared the assertion: KeyError.
AssertionGone(a) ==
    /\ proc[a].pc = "asserted" /\ proc[a].todo = {}
    /\ Head1(a).fact \notin Asserted
    /\ proc' = [proc EXCEPT ![a] = Idle]
    /\ UNCHANGED <<facts, indexes, calls, history>>

Step(a) == \/ \E e \in proc[a].todo : WriteEdge(a, e)
           \/ Commit(a) \/ Get(a)
           \/ LookUp(a) \/ ReadEntity(a) \/ WriteEntity(a) \/ WriteAssertion(a) \/ Indexed(a)
           \/ ClearKnowledge(a) \/ RebuildGraph(a) \/ ListFacts(a)
           \/ AssertionGone(a)

Next == \E a \in Agents :
           \/ \E f \in Facts, sups \in SUBSET Facts, rank \in Ranks : AddFact(a, f, sups, rank)
           \/ Rebuild(a)
           \/ Step(a)
           \/ Abandon(a)

Spec == Init /\ [][Next]_vars

-----------------------------------------------------------------------------
Status == {"absent", "active", "superseded"}
Places == {"idle", "adding", "committed", "indexing", "upserting", "merging", "asserting",
           "asserted", "clearing", "cleared", "regraphing"}
Reading == [fact : Facts, status : Status, sups : SUBSET Facts]
Process == [pc : Places, fact : Facts \cup {None}, sups : SUBSET Facts, rank : Ranks \cup {0},
            todo : SUBSET Edge, queue : Seq(Reading), olds : SUBSET Facts, seen : SUBSET Facts,
            rebuild : BOOLEAN, alone : BOOLEAN]

\* What a process needs at hand where it stands.
Equipped(p) ==
    /\ p.pc \in {"adding", "committed"} => p.fact \in Facts
    /\ p.pc \in {"upserting", "merging", "asserting", "asserted"} => p.queue # <<>>

\* The tables and what a process holds between two commits: only the process
\* inside a write transaction of the ledger holds its lock, and one that
\* indexes has a record to index (add_fact, index_fact).
TypeOK ==
    /\ ledger \in [Facts -> [status : Status, by : Facts \cup {None}, sups : SUBSET Facts,
                             rank : Ranks \cup {0}, row : Nat]]
    /\ conflicts \subseteq Facts \X Facts
    /\ lock \in Agents \cup {None}
    /\ kg \in [Facts -> [status : Status, by : Facts \cup {None}]]
    /\ kgConflicts \subseteq Facts \X Facts
    /\ sources \subseteq Facts
    /\ edges \subseteq Edge
    /\ proc \in [Agents -> Process]
    /\ \A a \in Agents :
          /\ proc[a].pc = "adding" <=> lock = a
          /\ Equipped(proc[a])
    /\ adds \in Nat /\ rebuilds \in Nat /\ crashes \in Nat /\ races \in Nat
    /\ history \in {"sequential", "rebuilt", "unknown"}

\* A superseded fact names the fact that replaced it, the conflict between the
\* two is on record, and the heir is the younger row: superseded_by never runs
\* in a circle, whatever facts are added again and replace each other, except
\* for a fact that was told to replace itself (add_fact).
HeirIsYounger ==
    \A o \in Stored : ledger[o].status = "superseded" =>
        LET f == ledger[o].by IN
           /\ f \in Stored
           /\ <<f, o>> \in conflicts
           /\ f = o \/ ledger[o].row < ledger[f].row

\* No process is inside a call, and those that changed the indexes were alone
\* since the start or since the last rebuild.
Settled == Busy = {} /\ history # "unknown"

\* Whether the calls came one by one or a rebuild repaired what a crash or two
\* writers had left: every fact has its assertion, and what the ledger calls
\* superseded the knowledge graph never calls active (index_fact); the graph has
\* exactly the edges of both, although each is a commit of its own, a fact's
\* edge is written before the fact, and a rollback leaves it (add_relation,
\* rebuild_graph_index); and the entity lists the memory of each assertion
\* (upsert_entity).
IndexesFollowLedger ==
    Settled =>
        /\ Asserted = Stored
        /\ \A f \in Facts : kg[f].status = "active" => ledger[f].status = "active"
        /\ edges = {<<"fact", f, f>> : f \in Stored}
                   \cup {<<"fact_conflict", c[1], c[2]>> : c \in conflicts}
                   \cup {<<"knowledge", f, f>> : f \in Asserted}
                   \cup {<<"knowledge_conflict", c[1], c[2]>> : c \in kgConflicts}
        /\ sources = Asserted

\* A knowledge graph that saw the facts one by one repeats the ledger:
\* statuses, heirs and conflicts between facts both of which exist (index_fact).
KnowledgeRepeatsLedger ==
    (Busy = {} /\ history = "sequential") =>
        \A f \in Stored : ledger[f].by # f =>
            kg[f] = [status |-> ledger[f].status, by |-> ledger[f].by]

=============================================================================
