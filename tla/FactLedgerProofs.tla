-------------------------- MODULE FactLedgerProofs --------------------------
(***************************************************************************)
(* Machine-checked proofs about FactLedger, for any facts, processes and   *)
(* number of calls, crashes and races.                                     *)
(***************************************************************************)
EXTENDS FactLedger, FiniteSetTheorems, TLAPS

\* What TypeOK says of the tables, and of the processes.
TablesOK ==
    /\ ledger \in [Facts -> [status : Status, by : Facts \cup {None}, sups : SUBSET Facts,
                             rank : Ranks \cup {0}, row : Nat]]
    /\ conflicts \subseteq Facts \X Facts
    /\ kg \in [Facts -> [status : Status, by : Facts \cup {None}]]
    /\ kgConflicts \subseteq Facts \X Facts
    /\ sources \subseteq Facts
    /\ edges \subseteq Edge

ProcessesOK ==
    /\ lock \in Agents \cup {None}
    /\ proc \in [Agents -> Process]
    /\ \A a \in Agents : (proc[a].pc = "adding" <=> lock = a) /\ Equipped(proc[a])

CountsOK ==
    /\ adds \in Nat /\ rebuilds \in Nat /\ crashes \in Nat /\ races \in Nat
    /\ history \in {"sequential", "rebuilt", "unknown"}

LEMMA TypeParts == TypeOK <=> TablesOK /\ ProcessesOK /\ CountsOK
  BY DEF TypeOK, TablesOK, ProcessesOK, CountsOK

LEMMA NextParts == TablesOK' /\ ProcessesOK' /\ CountsOK' => TypeOK'
  BY DEF TypeOK, TablesOK, ProcessesOK, CountsOK

LEMMA IdleIsProcess == Idle \in Process /\ Idle.pc = "idle"
  BY FactAssumption DEF Idle, Process, Places

LEMMA InitTypes == Init => TypeOK
  <1> SUFFICES ASSUME Init PROVE TypeOK
    OBVIOUS
  <1>1. TablesOK
    BY FactAssumption DEF Init, TablesOK, Status, Absent, NoAssertion
  <1>2. ProcessesOK
    BY FactAssumption, IdleIsProcess DEF Init, ProcessesOK, Equipped
  <1>3. CountsOK
    BY DEF Init, CountsOK
  <1> QED
    BY <1>1, <1>2, <1>3, TypeParts

\* A step of one process, the ledger's lock staying where it is: it is enough
\* to look at the record the process ends up with.
LEMMA OneProcess ==
    ASSUME ProcessesOK, NEW a \in Agents, NEW p \in Process, Equipped(p),
           p.pc = "adding" <=> proc[a].pc = "adding",
           proc' = [proc EXCEPT ![a] = p], lock' = lock
    PROVE  ProcessesOK'
  BY DEF ProcessesOK, Equipped

\* The same for a process that holds the lock no longer.
LEMMA OneReleases ==
    ASSUME ProcessesOK, NEW a \in Agents, NEW p \in Process, Equipped(p), p.pc # "adding",
           proc' = [proc EXCEPT ![a] = p], lock' = IF lock = a THEN None ELSE lock
    PROVE  ProcessesOK'
  BY FactAssumption DEF ProcessesOK, Equipped

\* Beginning a call.
LEMMA StartedTypes ==
    ASSUME ProcessesOK, NEW a \in Agents, NEW p \in Process, Started(a, p), Equipped(p),
           a \notin Busy,
           \/ p.pc # "adding" /\ lock' = lock
           \/ p.pc = "adding" /\ lock = None /\ lock' = a
    PROVE  ProcessesOK'
  <1> DEFINE q(b) == IF b = a THEN [p EXCEPT !.alone = Busy = {}]
                              ELSE [proc[b] EXCEPT !.alone = FALSE]
  <1>1. proc' = [b \in Agents |-> q(b)]
    BY DEF Started
  <1>2. ASSUME NEW r \in Process, NEW flag \in BOOLEAN
        PROVE  /\ [r EXCEPT !.alone = flag] \in Process
               /\ [r EXCEPT !.alone = flag].pc = r.pc
               /\ Equipped(r) => Equipped([r EXCEPT !.alone = flag])
    BY DEF Process, Equipped
  <1>3. proc \in [Agents -> Process] /\ proc[a].pc = "idle" /\ lock # a
    BY DEF ProcessesOK, Busy
  <1>4. ASSUME NEW b \in Agents
        PROVE  /\ q(b) \in Process /\ Equipped(q(b))
               /\ q(b).pc = IF b = a THEN p.pc ELSE proc[b].pc
    <2>1. (Busy = {}) \in BOOLEAN
      OBVIOUS
    <2> QED
      BY <1>2, <1>3, <2>1 DEF ProcessesOK
  <1> HIDE DEF q
  <1>5. \A b \in Agents : proc'[b] = q(b)
    BY <1>1
  <1>6. proc' \in [Agents -> Process]
    BY <1>1, <1>4
  <1>7. lock' \in Agents \cup {None}
    BY DEF ProcessesOK
  <1>8. \A b \in Agents : (proc'[b].pc = "adding" <=> lock' = b) /\ Equipped(proc'[b])
    BY <1>3, <1>4, <1>5, FactAssumption DEF ProcessesOK
  <1> QED
    BY <1>6, <1>7, <1>8 DEF ProcessesOK, Equipped


LEMMA AddTypes ==
    ASSUME TypeOK, NEW a \in Agents, NEW f \in Facts, NEW sups \in SUBSET Facts,
           NEW rank \in Ranks, AddFact(a, f, sups, rank)
    PROVE  TypeOK'
  <1> DEFINE todo == {<<"fact", f, f>>} \cup {<<"fact_conflict", f, o>> : o \in sups}
             p == [Idle EXCEPT !.pc = "adding", !.fact = f, !.sups = sups, !.rank = rank,
                               !.todo = todo]
  <1>1. todo \subseteq Edge
    BY DEF Edge
  <1>2. p \in Process /\ p.pc = "adding" /\ Equipped(p)
    <2> HIDE DEF todo
    <2> QED
      BY <1>1, IdleIsProcess DEF Process, Places, Equipped
  <1>3. Started(a, p) /\ a \notin Busy /\ lock = None /\ lock' = a
    BY DEF AddFact, Unlocked
  <1> HIDE DEF p
  <1>4. ProcessesOK'
    BY <1>2, <1>3, StartedTypes, TypeParts
  <1>5. TablesOK' /\ CountsOK'
    BY TypeParts DEF AddFact, Overlapping, indexes, TablesOK, CountsOK
  <1> QED
    BY <1>4, <1>5, NextParts

LEMMA RebuildTypes ==
    ASSUME TypeOK, NEW a \in Agents, Rebuild(a)
    PROVE  TypeOK'
  <1> DEFINE p == [Idle EXCEPT !.pc = "clearing", !.rebuild = TRUE]
  <1>1. p \in Process /\ p.pc = "clearing" /\ Equipped(p)
    BY IdleIsProcess DEF Process, Places, Equipped
  <1>2. Started(a, p) /\ a \notin Busy /\ lock' = lock
    BY DEF Rebuild, facts
  <1> HIDE DEF p
  <1>3. ProcessesOK'
    BY <1>1, <1>2, StartedTypes, TypeParts
  <1>4. TablesOK' /\ CountsOK'
    BY TypeParts DEF Rebuild, Overlapping, facts, TablesOK, CountsOK
  <1> QED
    BY <1>3, <1>4, NextParts

LEMMA WriteEdgeTypes ==
    ASSUME TypeOK, NEW a \in Agents, NEW e \in proc[a].todo, WriteEdge(a, e)
    PROVE  TypeOK'
  <1> DEFINE p == [proc[a] EXCEPT !.todo = @ \ {e}]
  <1>1. proc[a] \in Process /\ Equipped(proc[a])
    BY TypeParts DEF ProcessesOK
  <1>2. p \in Process /\ p.pc = proc[a].pc /\ Equipped(p)
    BY <1>1 DEF Process, Equipped
  <1>3. proc' = [proc EXCEPT ![a] = p] /\ lock' = lock
    BY DEF WriteEdge, facts
  <1> HIDE DEF p
  <1>4. ProcessesOK'
    BY <1>2, <1>3, OneProcess, TypeParts
  <1>5. TablesOK' /\ CountsOK'
    BY <1>1, TypeParts DEF WriteEdge, facts, calls, TablesOK, CountsOK, Process
  <1> QED
    BY <1>4, <1>5, NextParts

\* What Commit does to the ledger: rows of the other facts stay.
LEMMA CommitTables ==
    ASSUME TypeOK, NEW a \in Agents, Commit(a)
    PROVE  /\ proc[a].fact \in Facts /\ proc[a].sups \subseteq Facts
           /\ TablesOK'
           /\ ledger'[proc[a].fact].row \in Nat \ {0}
           /\ \A o \in Facts \ {proc[a].fact} :
                 /\ ledger'[o].row = ledger[o].row
                 /\ ledger[o].row < ledger'[proc[a].fact].row
           /\ \A o \in Facts :
                 IF o \in proc[a].sups /\ ledger'[o].row # 0
                 THEN ledger'[o].status = "superseded" /\ ledger'[o].by = proc[a].fact
                 ELSE IF o = proc[a].fact THEN ledger'[o].status = "active"
                 ELSE ledger'[o] = ledger[o]
  <1> DEFINE f == proc[a].fact
             sups == proc[a].sups
             Row == [status : Status, by : Facts \cup {None}, sups : SUBSET Facts,
                     rank : Ranks \cup {0}, row : Nat]
  <1>1. f \in Facts /\ sups \in SUBSET Facts /\ proc[a].rank \in Ranks \cup {0}
    BY TypeParts DEF Commit, ProcessesOK, Equipped, Process
  <1>2. ledger \in [Facts -> Row]
    BY TypeParts DEF TablesOK
  <1>3. PICK n \in 1 .. Cardinality(Facts) + MaxAdds :
           /\ IsNewRow(f, n)
           /\ ledger' = Superseded(Inserted(f, sups, proc[a].rank, n), f, sups)
    BY DEF Commit
  <1>4. n \in Nat \ {0}
    BY <1>3, FactAssumption, FS_CardinalityType
  <1> DEFINE new == [status |-> "active", by |-> None, sups |-> sups,
                     rank |-> proc[a].rank, row |-> n]
             table == [ledger EXCEPT ![f] = new]
  <1>5. new \in Row /\ new.row = n /\ new.status = "active"
    BY <1>1, <1>4 DEF Status
  <1>6. /\ table \in [Facts -> Row] /\ table[f] = new
        /\ \A o \in Facts \ {f} : table[o] = ledger[o]
    <2> HIDE DEF new
    <2> QED
      BY <1>1, <1>2, <1>5
  <1>7. ledger' = [o \in Facts |-> IF o \in sups /\ table[o].row # 0
                                   THEN [table[o] EXCEPT !.status = "superseded", !.by = f]
                                   ELSE table[o]]
    BY <1>3 DEF Superseded, Inserted
  <1> HIDE DEF table, new
  <1>8. ASSUME NEW r \in Row
        PROVE  LET s == [r EXCEPT !.status = "superseded", !.by = f] IN
               s \in Row /\ s.status = "superseded" /\ s.by = f /\ s.row = r.row
    BY <1>1 DEF Status
  <1>9. \A o \in Facts : ledger'[o] \in Row /\ ledger'[o].row = table[o].row
    BY <1>6, <1>7, <1>8
  <1>10. ledger' \in [Facts -> Row]
    BY <1>7, <1>9
  <1>11. TablesOK'
    BY <1>1, <1>10, TypeParts DEF Commit, indexes, TablesOK
  <1>12. \A o \in Facts :
            IF o \in sups /\ ledger'[o].row # 0
            THEN ledger'[o].status = "superseded" /\ ledger'[o].by = f
            ELSE IF o = f THEN ledger'[o].status = "active" ELSE ledger'[o] = ledger[o]
    BY <1>5, <1>6, <1>7, <1>8, <1>9
  <1>13. /\ ledger'[f].row = n
         /\ \A o \in Facts \ {f} : ledger'[o].row = ledger[o].row /\ ledger[o].row < n
    BY <1>1, <1>3, <1>5, <1>6, <1>9 DEF IsNewRow
  <1> QED
    BY <1>1, <1>4, <1>11, <1>12, <1>13

LEMMA CommitTypes ==
    ASSUME TypeOK, NEW a \in Agents, Commit(a)
    PROVE  TypeOK'
  <1> DEFINE p == [proc[a] EXCEPT !.pc = "committed"]
  <1>1. proc[a] \in Process /\ Equipped(proc[a]) /\ proc[a].pc = "adding" /\ lock = a
    BY TypeParts DEF ProcessesOK, Commit
  <1>2. p \in Process /\ p.pc = "committed" /\ Equipped(p)
    BY <1>1 DEF Process, Places, Equipped
  <1>3. proc' = [proc EXCEPT ![a] = p] /\ lock' = IF lock = a THEN None ELSE lock
    BY <1>1 DEF Commit
  <1> HIDE DEF p
  <1>4. ProcessesOK'
    BY <1>2, <1>3, OneReleases, TypeParts
  <1>5. TablesOK' /\ CountsOK'
    BY CommitTables, TypeParts DEF Commit, calls, CountsOK
  <1> QED
    BY <1>4, <1>5, NextParts


LEMMA GetTypes ==
    ASSUME TypeOK, NEW a \in Agents, Get(a)
    PROVE  TypeOK'
  <1> DEFINE queue == <<Read(proc[a].fact)>>
             p == [proc[a] EXCEPT !.pc = "indexing", !.queue = queue]
  <1>1. proc[a] \in Process /\ proc[a].fact \in Facts /\ proc[a].pc = "committed"
    BY TypeParts DEF ProcessesOK, Equipped, Get
  <1>2. queue \in Seq(Reading)
    BY <1>1, TypeParts DEF TablesOK, Read, Reading
  <1> HIDE DEF queue
  <1>3. p \in Process /\ p.pc = "indexing" /\ Equipped(p)
    BY <1>1, <1>2 DEF Process, Places, Equipped
  <1>4. proc' = [proc EXCEPT ![a] = p] /\ lock' = lock
    BY DEF Get, facts, queue
  <1> HIDE DEF p
  <1>5. ProcessesOK'
    BY <1>1, <1>3, <1>4, OneProcess, TypeParts
  <1>6. TablesOK' /\ CountsOK'
    BY TypeParts DEF Get, facts, indexes, calls, TablesOK, CountsOK
  <1> QED
    BY <1>5, <1>6, NextParts

\* The record a process indexes.
LEMMA HeadIsReading ==
    ASSUME TypeOK, NEW a \in Agents, proc[a].queue # <<>>
    PROVE  Head1(a) \in Reading
  <1>1. proc[a].queue \in Seq(Reading)
    BY TypeParts DEF ProcessesOK, Process
  <1> QED
    BY <1>1 DEF Head1

LEMMA LookUpTypes ==
    ASSUME TypeOK, NEW a \in Agents, LookUp(a)
    PROVE  TypeOK'
  <1> DEFINE olds == Head1(a).sups \cap Asserted
             p == [proc[a] EXCEPT !.pc = "upserting", !.olds = olds]
  <1>1. proc[a] \in Process /\ proc[a].queue # <<>> /\ proc[a].pc = "indexing"
    BY TypeParts DEF ProcessesOK, LookUp
  <1>2. olds \subseteq Facts
    BY DEF Asserted
  <1> HIDE DEF olds
  <1>3. p \in Process /\ p.pc = "upserting" /\ Equipped(p)
    BY <1>1, <1>2 DEF Process, Places, Equipped
  <1>4. proc' = [proc EXCEPT ![a] = p] /\ lock' = lock
    BY DEF LookUp, facts, olds
  <1> HIDE DEF p
  <1>5. ProcessesOK'
    BY <1>1, <1>3, <1>4, OneProcess, TypeParts
  <1>6. TablesOK' /\ CountsOK'
    BY TypeParts DEF LookUp, facts, indexes, calls, TablesOK, CountsOK
  <1> QED
    BY <1>5, <1>6, NextParts

LEMMA ReadEntityTypes ==
    ASSUME TypeOK, NEW a \in Agents, ReadEntity(a)
    PROVE  TypeOK'
  <1> DEFINE p == [proc[a] EXCEPT !.pc = "merging", !.seen = sources]
  <1>1. proc[a] \in Process /\ proc[a].queue # <<>> /\ proc[a].pc = "upserting"
    BY TypeParts DEF ProcessesOK, Equipped, ReadEntity
  <1>2. p \in Process /\ p.pc = "merging" /\ Equipped(p)
    BY <1>1, TypeParts DEF TablesOK, Process, Places, Equipped
  <1>3. proc' = [proc EXCEPT ![a] = p] /\ lock' = lock
    BY DEF ReadEntity, facts
  <1> HIDE DEF p
  <1>4. ProcessesOK'
    BY <1>1, <1>2, <1>3, OneProcess, TypeParts
  <1>5. TablesOK' /\ CountsOK'
    BY TypeParts DEF ReadEntity, facts, indexes, calls, TablesOK, CountsOK
  <1> QED
    BY <1>4, <1>5, NextParts

LEMMA WriteEntityTypes ==
    ASSUME TypeOK, NEW a \in Agents, WriteEntity(a)
    PROVE  TypeOK'
  <1> DEFINE p == [proc[a] EXCEPT !.pc = "asserting"]
  <1>1. proc[a] \in Process /\ proc[a].queue # <<>> /\ proc[a].pc = "merging"
    BY TypeParts DEF ProcessesOK, Equipped, WriteEntity
  <1>2. p \in Process /\ p.pc = "asserting" /\ Equipped(p)
    BY <1>1 DEF Process, Places, Equipped
  <1>3. proc' = [proc EXCEPT ![a] = p] /\ lock' = lock
    BY DEF WriteEntity, facts
  <1> HIDE DEF p
  <1>4. ProcessesOK'
    BY <1>1, <1>2, <1>3, OneProcess, TypeParts
  <1>5. sources' \subseteq Facts
    BY <1>1, HeadIsReading DEF WriteEntity, Merged, Process, Reading
  <1>6. TablesOK' /\ CountsOK'
    BY <1>5, TypeParts DEF WriteEntity, facts, calls, TablesOK, CountsOK
  <1> QED
    BY <1>4, <1>6, NextParts

LEMMA WriteAssertionTypes ==
    ASSUME TypeOK, NEW a \in Agents, WriteAssertion(a)
    PROVE  TypeOK'
  <1> DEFINE f == Head1(a).fact
             olds == proc[a].olds
             todo == {<<"knowledge", f, f>>} \cup {<<"knowledge_conflict", f, o>> : o \in olds}
             p == [proc[a] EXCEPT !.pc = "asserted", !.todo = todo]
             fresh == [status |-> Head1(a).status, by |-> None]
  <1>1. proc[a] \in Process /\ proc[a].queue # <<>> /\ proc[a].pc = "asserting"
    BY TypeParts DEF ProcessesOK, Equipped, WriteAssertion
  <1>2. f \in Facts /\ olds \subseteq Facts /\ Head1(a).status \in Status
    BY <1>1, HeadIsReading DEF Reading, Process
  <1>3. todo \subseteq Edge
    BY <1>2 DEF Edge
  <1>4. p \in Process /\ p.pc = "asserted" /\ Equipped(p)
    <2> HIDE DEF todo
    <2> QED
      BY <1>1, <1>3 DEF Process, Places, Equipped
  <1>5. /\ proc' = [proc EXCEPT ![a] = p] /\ lock' = lock
        /\ kg' = Outdated([kg EXCEPT ![f] = fresh], f, olds)
        /\ kgConflicts' = kgConflicts \cup {<<f, o>> : o \in olds}
    BY DEF WriteAssertion, StatusOf, facts
  <1> HIDE DEF p
  <1>6. ProcessesOK'
    BY <1>1, <1>4, <1>5, OneProcess, TypeParts
  <1>7. kg' \in [Facts -> [status : Status, by : Facts \cup {None}]]
    <2>1. [kg EXCEPT ![f] = fresh] \in [Facts -> [status : Status, by : Facts \cup {None}]]
      BY <1>2, TypeParts DEF TablesOK
    <2>2. [status |-> "superseded", by |-> f] \in [status : Status, by : Facts \cup {None}]
      BY <1>2 DEF Status
    <2> QED
      BY <1>5, <2>1, <2>2 DEF Outdated
  <1>8. kgConflicts' \subseteq Facts \X Facts
    BY <1>2, <1>5, TypeParts DEF TablesOK
  <1>9. UNCHANGED <<ledger, conflicts, sources, edges, calls, history>>
    BY DEF WriteAssertion, facts
  <1>10. TablesOK' /\ CountsOK'
    BY <1>7, <1>8, <1>9, TypeParts DEF calls, TablesOK, CountsOK
  <1> QED
    BY <1>6, <1>10, NextParts

\* A call that ends, and leaves the tables alone.
LEMMA EndTypes ==
    ASSUME TypeOK, NEW a \in Agents, proc' = [proc EXCEPT ![a] = Idle],
           proc[a].pc # "adding", history' \in {"sequential", "rebuilt", "unknown"},
           UNCHANGED <<facts, indexes, calls>>
    PROVE  TypeOK'
  <1>1. ProcessesOK'
    BY OneProcess, IdleIsProcess, TypeParts DEF Equipped, facts
  <1>2. TablesOK' /\ CountsOK'
    BY TypeParts DEF facts, indexes, calls, TablesOK, CountsOK
  <1> QED
    BY <1>1, <1>2, NextParts

LEMMA IndexedTypes ==
    ASSUME TypeOK, NEW a \in Agents, Indexed(a)
    PROVE  TypeOK'
  <1> DEFINE rest == Tail(proc[a].queue)
             p == [proc[a] EXCEPT !.pc = "indexing", !.queue = rest]
  <1>1. /\ proc[a] \in Process /\ proc[a].queue \in Seq(Reading) /\ proc[a].queue # <<>>
        /\ proc[a].pc = "asserted"
    BY TypeParts DEF ProcessesOK, Equipped, Indexed, Process
  <1>2. CASE Finished(a)
    BY <1>1, <1>2, EndTypes, TypeParts DEF Finished, Indexed, CountsOK
  <1>3. CASE proc' = [proc EXCEPT ![a] = p] /\ UNCHANGED history
    <2>0. rest \in Seq(Reading)
      BY <1>1
    <2> HIDE DEF rest
    <2>1. p \in Process /\ p.pc = "indexing" /\ Equipped(p)
      BY <1>1, <2>0 DEF Process, Places, Equipped
    <2> HIDE DEF p
    <2>2. ProcessesOK'
      BY <1>1, <1>3, <2>1, OneProcess, TypeParts DEF Indexed, facts
    <2>3. TablesOK' /\ CountsOK'
      BY <1>3, TypeParts DEF Indexed, facts, indexes, calls, TablesOK, CountsOK
    <2> QED
      BY <2>2, <2>3, NextParts
  <1> QED
    BY <1>2, <1>3 DEF Indexed


LEMMA ClearKnowledgeTypes ==
    ASSUME TypeOK, NEW a \in Agents, ClearKnowledge(a)
    PROVE  TypeOK'
  <1> DEFINE p == [proc[a] EXCEPT !.pc = "cleared"]
  <1>1. proc[a] \in Process /\ proc[a].pc = "clearing"
    BY TypeParts DEF ProcessesOK, ClearKnowledge
  <1>2. p \in Process /\ p.pc = "cleared" /\ Equipped(p)
    BY <1>1 DEF Process, Places, Equipped
  <1>3. proc' \in {[proc EXCEPT ![a] = p], [proc EXCEPT ![a] = Idle]} /\ lock' = lock
    BY DEF ClearKnowledge, facts
  <1> HIDE DEF p
  <1>4. ProcessesOK'
    <2>1. CASE proc' = [proc EXCEPT ![a] = p]
      BY <1>1, <1>2, <1>3, <2>1, OneProcess, TypeParts
    <2>2. CASE proc' = [proc EXCEPT ![a] = Idle]
      BY <1>1, <1>3, <2>2, IdleIsProcess, OneProcess, TypeParts DEF Equipped
    <2> QED
      BY <1>3, <2>1, <2>2
  <1>5. TablesOK' /\ history' \in {history, "unknown"} /\ UNCHANGED calls
    BY TypeParts DEF ClearKnowledge, facts, TablesOK, NoAssertion, Status
  <1>6. CountsOK'
    BY <1>5, TypeParts DEF calls, CountsOK
  <1> QED
    BY <1>4, <1>5, <1>6, NextParts

LEMMA RebuildGraphTypes ==
    ASSUME TypeOK, NEW a \in Agents, RebuildGraph(a)
    PROVE  TypeOK'
  <1> DEFINE todo == LedgerEdges
             p == [proc[a] EXCEPT !.pc = "regraphing", !.todo = todo]
  <1>1. proc[a] \in Process /\ proc[a].pc = "cleared"
    BY TypeParts DEF ProcessesOK, RebuildGraph
  <1>2. todo \subseteq Edge
    BY TypeParts DEF TablesOK, LedgerEdges, Edge, Stored
  <1> HIDE DEF todo
  <1>3. p \in Process /\ p.pc = "regraphing" /\ Equipped(p)
    BY <1>1, <1>2 DEF Process, Places, Equipped
  <1>4. proc' = [proc EXCEPT ![a] = p] /\ lock' = lock
    BY DEF RebuildGraph, facts, todo
  <1> HIDE DEF p
  <1>5. ProcessesOK'
    BY <1>1, <1>3, <1>4, OneProcess, TypeParts
  <1>6. TablesOK' /\ CountsOK'
    BY TypeParts DEF RebuildGraph, facts, indexes, calls, TablesOK, CountsOK
  <1> QED
    BY <1>5, <1>6, NextParts

LEMMA ListFactsTypes ==
    ASSUME TypeOK, NEW a \in Agents, ListFacts(a)
    PROVE  TypeOK'
  <1>1. proc[a] \in Process /\ proc[a].pc = "regraphing"
    BY TypeParts DEF ProcessesOK, ListFacts
  <1>2. PICK s \in Listings :
           IF s = <<>> THEN Finished(a)
           ELSE /\ proc' = [proc EXCEPT ![a].pc = "indexing",
                                        ![a].queue = [i \in DOMAIN s |-> Read(s[i])]]
                /\ UNCHANGED history
    BY DEF ListFacts
  <1>3. CASE s = <<>>
    BY <1>1, <1>2, <1>3, EndTypes, TypeParts DEF Finished, ListFacts, CountsOK
  <1>4. CASE s # <<>>
    <2> DEFINE queue == [i \in DOMAIN s |-> Read(s[i])]
               p == [proc[a] EXCEPT !.pc = "indexing", !.queue = queue]
    <2>1. \A f \in Facts : Read(f) \in Reading
      BY TypeParts DEF TablesOK, Read, Reading
    <2>2. /\ s \in [1 .. Cardinality(Stored) -> Stored] /\ Stored \subseteq Facts
          /\ Cardinality(Stored) \in Nat
      BY FactAssumption, FS_Subset, FS_CardinalityType DEF Listings, Stored
    <2>3. queue \in [1 .. Cardinality(Stored) -> Reading]
      BY <2>1, <2>2
    <2>4. queue \in Seq(Reading)
      BY <2>2, <2>3
    <2> HIDE DEF queue
    <2>5. p \in Process /\ p.pc = "indexing" /\ Equipped(p)
      BY <1>1, <2>4 DEF Process, Places, Equipped
    <2>6. proc' = [proc EXCEPT ![a] = p] /\ lock' = lock /\ UNCHANGED history
      BY <1>2, <1>4 DEF ListFacts, facts, queue
    <2> HIDE DEF p
    <2>7. ProcessesOK'
      BY <1>1, <2>5, <2>6, OneProcess, TypeParts
    <2>8. TablesOK' /\ CountsOK'
      BY <2>6, TypeParts DEF ListFacts, facts, indexes, calls, TablesOK, CountsOK
    <2> QED
      BY <2>7, <2>8, NextParts
  <1> QED
    BY <1>3, <1>4

LEMMA AbandonTypes ==
    ASSUME TypeOK, NEW a \in Agents, Abandon(a)
    PROVE  TypeOK'
  <1>1. ProcessesOK'
    BY OneReleases, IdleIsProcess, TypeParts DEF Abandon, Equipped
  <1>2. TablesOK' /\ CountsOK'
    BY TypeParts DEF Abandon, indexes, TablesOK, CountsOK
  <1> QED
    BY <1>1, <1>2, NextParts

LEMMA AssertionGoneTypes ==
    ASSUME TypeOK, NEW a \in Agents, AssertionGone(a)
    PROVE  TypeOK'
  BY EndTypes, TypeParts DEF AssertionGone, CountsOK

\* Whatever facts are added and whenever processes die or race, the tables and
\* the processes keep their shape: in particular the ledger's write lock is
\* held by exactly the process inside add_fact.
THEOREM LedgerTypeCorrect == Spec => []TypeOK
  <1>1. ASSUME TypeOK, [Next]_vars PROVE TypeOK'
    <2>1. CASE UNCHANGED vars
      BY <1>1, <2>1 DEF vars, facts, indexes, calls, TypeOK
    <2>2. CASE Next
      <3>1. PICK a \in Agents :
               \/ \E f \in Facts, sups \in SUBSET Facts, rank \in Ranks :
                     AddFact(a, f, sups, rank)
               \/ Rebuild(a) \/ Step(a) \/ Abandon(a)
        BY <2>2 DEF Next
      <3>2. CASE Step(a)
        BY <1>1, <3>2, WriteEdgeTypes, CommitTypes, GetTypes, LookUpTypes, ReadEntityTypes,
           WriteEntityTypes, WriteAssertionTypes, IndexedTypes, ClearKnowledgeTypes,
           RebuildGraphTypes, ListFactsTypes, AssertionGoneTypes DEF Step
      <3> QED
        BY <1>1, <3>1, <3>2, AddTypes, RebuildTypes, AbandonTypes
    <2> QED
      BY <1>1, <2>1, <2>2
  <1> QED
    BY InitTypes, <1>1, PTL DEF Spec


\* Of all steps only a commit of add_fact changes the ledger's tables.
LEMMA OnlyCommitWrites ==
    ASSUME NEW a \in Agents, Step(a), ~Commit(a)
    PROVE  UNCHANGED <<ledger, conflicts>>
  BY DEF Step, WriteEdge, Get, LookUp, ReadEntity, WriteEntity, WriteAssertion, Indexed,
         ClearKnowledge, RebuildGraph, ListFacts, AssertionGone, facts

LEMMA CommitKeepsHeirs ==
    ASSUME TypeOK, HeirIsYounger, NEW a \in Agents, Commit(a)
    PROVE  HeirIsYounger'
  <1> DEFINE f == proc[a].fact
             sups == proc[a].sups
  <1>1. f \in Facts /\ sups \subseteq Facts
    BY CommitTables
  <1>2. ledger'[f].row \in Nat \ {0} /\ \A o \in Facts : ledger[o].row \in Nat
    BY CommitTables, TypeParts DEF TablesOK
  <1>3. conflicts' = conflicts \cup {<<f, o>> : o \in sups}
    BY DEF Commit
  <1> SUFFICES ASSUME NEW o \in Facts, ledger'[o].row # 0, ledger'[o].status = "superseded"
               PROVE  LET g == ledger'[o].by IN
                         /\ g \in Facts /\ ledger'[g].row # 0
                         /\ <<g, o>> \in conflicts'
                         /\ g = o \/ ledger'[o].row < ledger'[g].row
    BY DEF HeirIsYounger, Stored
  <1>4. CASE o \in sups
    <2>1. ledger'[o].by = f
      BY <1>4, CommitTables
    <2>2. f = o \/ ledger'[o].row < ledger'[f].row
      BY <1>1, CommitTables
    <2> QED
      BY <1>1, <1>2, <1>3, <1>4, <2>1, <2>2
  <1>5. CASE o \notin sups
    <2>1. o # f /\ ledger'[o] = ledger[o]
      BY <1>1, <1>5, CommitTables
    <2> DEFINE g == ledger[o].by
    <2>2. /\ g \in Facts /\ ledger[g].row # 0 /\ <<g, o>> \in conflicts
          /\ g = o \/ ledger[o].row < ledger[g].row
      BY <2>1 DEF HeirIsYounger, Stored
    <2>3. ledger'[g].row # 0 /\ (g = o \/ ledger'[o].row < ledger'[g].row)
      <3>1. CASE g = f
        BY <1>1, <1>2, <2>1, <3>1, CommitTables
      <3>2. CASE g # f
        BY <1>1, <2>1, <2>2, <3>2, CommitTables
      <3> QED
        BY <3>1, <3>2
    <2> QED
      BY <1>3, <2>1, <2>2, <2>3
  <1> QED
    BY <1>4, <1>5

\* A superseded fact always leads to an heir whose row is younger and to a
\* conflict on record: facts may be added again and may supersede each other in
\* turn, and superseded_by still never runs in a circle (facts.py, add_fact).
THEOREM HeirsAreYounger == Spec => []HeirIsYounger
  <1>1. Init => HeirIsYounger
    BY DEF Init, HeirIsYounger, Stored, Absent
  <1>2. ASSUME TypeOK, HeirIsYounger, [Next]_vars PROVE HeirIsYounger'
    <2>1. CASE UNCHANGED <<ledger, conflicts>>
      BY <1>2, <2>1 DEF HeirIsYounger, Stored
    <2>2. CASE \E a \in Agents : Commit(a)
      BY <1>2, <2>2, CommitKeepsHeirs
    <2>3. CASE Next
      <3>1. PICK a \in Agents :
               \/ \E f \in Facts, sups \in SUBSET Facts, rank \in Ranks :
                     AddFact(a, f, sups, rank)
               \/ Rebuild(a) \/ Step(a) \/ Abandon(a)
        BY <2>3 DEF Next
      <3>2. CASE Step(a)
        BY <2>1, <2>2, <3>2, OnlyCommitWrites
      <3>3. CASE ~Step(a)
        <4>1. UNCHANGED <<ledger, conflicts>>
          BY <3>1, <3>3 DEF AddFact, Rebuild, Abandon, facts
        <4> QED
          BY <2>1, <4>1
      <3> QED
        BY <3>2, <3>3
    <2> QED
      BY <1>2, <2>1, <2>3 DEF vars, facts
  <1> QED
    BY <1>1, <1>2, LedgerTypeCorrect, PTL DEF Spec

-----------------------------------------------------------------------------
(* The two indexes and the ledger.                                         *)

\* The edges of facts F and of their conflicts C, and those of assertions.
FactEdges(F, C) == {<<"fact", f, f>> : f \in F} \cup {<<"fact_conflict", c[1], c[2]>> : c \in C}
KnowledgeEdges(F, C) ==
    {<<"knowledge", f, f>> : f \in F} \cup {<<"knowledge_conflict", c[1], c[2]>> : c \in C}

With(f, sups) == {<<f, o>> : o \in sups}
Queued(a) == {proc[a].queue[i].fact : i \in DOMAIN proc[a].queue}
Only(a) == \A b \in Agents : proc[b].pc # "idle" => b = a
Before == {"indexing", "upserting", "merging", "asserting"}

\* What the knowledge graph calls active is active, but for the facts X.
ActiveBut(X) == \A o \in Facts \ X : kg[o].status = "active" => ledger[o].status = "active"

\* Assertions, but for those of X, repeat the ledger.
RepeatsBut(X) == \A o \in Stored \ X :
    ledger[o].by # o => kg[o] = [status |-> ledger[o].status, by |-> ledger[o].by]

\* Fact f superseded sups, and nothing happened to them since.
JustAdded(f, sups) ==
    /\ \A o \in sups \cap Stored : ledger[o].status = "superseded" /\ ledger[o].by = f
    /\ f \notin sups => ledger[f].status = "active" /\ ledger[f].by = None

\* Whatever happens: conflicts are of facts that exist, a fact that exists has a
\* status, and a process has edges to write only in three places.
ShapeInv ==
    /\ \A c \in conflicts : c[1] \in Stored
    /\ \A f \in Stored : ledger[f].status # "absent"
    /\ \A a \in Agents : proc[a].todo # {} => proc[a].pc \in {"adding", "asserted", "regraphing"}

Followed == /\ Asserted = Stored /\ sources = Asserted /\ ActiveBut({})
            /\ edges = FactEdges(Stored, conflicts) \cup KnowledgeEdges(Asserted, kgConflicts)

\* What the indexes have and lack of the ledger where process a, alone, stands.
Pending(a) ==
    LET p == proc[a]
        h == Head1(a)
    IN  /\ p.pc \in {"clearing", "cleared"} => edges = {}
        /\ p.pc \in {"cleared", "regraphing"} => Asserted = {} /\ kgConflicts = {} /\ sources = {}
        /\ p.pc \notin {"clearing", "cleared"} =>
               edges \cup p.todo =
                   FactEdges(IF p.pc = "adding" THEN Stored \cup {p.fact} ELSE Stored,
                             IF p.pc = "adding" THEN conflicts \cup With(p.fact, p.sups)
                                                ELSE conflicts)
                   \cup KnowledgeEdges(Asserted, kgConflicts)
        /\ p.pc = "adding" => Asserted = Stored /\ ActiveBut({})
        /\ p.pc = "committed" => /\ Stored = Asserted \cup {p.fact}
                                 /\ ledger[p.fact].sups = p.sups
                                 /\ ActiveBut({p.fact} \cup p.sups)
        /\ p.pc \in Before \cup {"asserted"} =>
               /\ Stored = Asserted \cup Queued(a)
               /\ \A i \in DOMAIN p.queue : p.queue[i] = Read(p.queue[i].fact)
        /\ p.pc \in {"indexing", "asserted"} => p.queue # <<>>
        /\ p.pc \in Before => ActiveBut({h.fact} \cup h.sups)
        /\ p.pc \in Before \ {"indexing"} => p.olds = h.sups \cap Asserted
        /\ p.pc = "merging" => p.seen = sources
        /\ p.pc \in {"adding", "committed", "indexing", "upserting", "merging", "asserted"} =>
               sources = Asserted
        /\ p.pc = "asserting" => sources = Asserted \cup {h.fact}
        /\ p.pc = "asserted" => ActiveBut({}) /\ h.fact \in Asserted
        /\ p.pc \in {"clearing", "cleared", "regraphing"} => p.rebuild
        /\ ~p.rebuild /\ p.pc \in Before \cup {"asserted"} => Len(p.queue) = 1

\* What the assertions have of the ledger while add_fact runs alone.
Repeating(a) ==
    LET p == proc[a]
        h == Head1(a)
    IN  /\ p.pc \in {"adding", "asserted"} => RepeatsBut({})
        /\ p.pc = "committed" => JustAdded(p.fact, p.sups) /\ RepeatsBut({p.fact} \cup p.sups)
        /\ p.pc \in Before => JustAdded(h.fact, h.sups) /\ RepeatsBut({h.fact} \cup h.sups)

\* A process that is alone is the only one in a call.  In a known history whoever
\* is in a call is alone and has left to write what Pending and Repeating say;
\* so has a rebuild that is alone in any history.
FollowInv ==
    /\ \A a \in Agents : proc[a].pc # "idle" /\ proc[a].alone => Only(a)
    /\ history # "unknown" => /\ \A a \in Agents : proc[a].pc # "idle" => proc[a].alone
                              /\ (\A a \in Agents : proc[a].pc = "idle") => Followed
    /\ history = "sequential" /\ (\A a \in Agents : proc[a].pc = "idle") => RepeatsBut({})
    /\ \A a \in Agents : (/\ proc[a].pc # "idle" /\ proc[a].alone
                          /\ proc[a].rebuild \/ history # "unknown") => Pending(a)
    /\ \A a \in Agents : (/\ proc[a].pc # "idle" /\ proc[a].alone
                          /\ ~proc[a].rebuild /\ history = "sequential") => Repeating(a)

LEMMA NoEdges == FactEdges({}, {}) = {} /\ KnowledgeEdges({}, {}) = {}
  BY DEF FactEdges, KnowledgeEdges

LEMMA EdgesJoin ==
    ASSUME NEW F, NEW C, NEW G, NEW D
    PROVE  /\ FactEdges(F \cup G, C \cup D) = FactEdges(F, C) \cup FactEdges(G, D)
           /\ KnowledgeEdges(F \cup G, C \cup D) = KnowledgeEdges(F, C) \cup KnowledgeEdges(G, D)
  BY DEF FactEdges, KnowledgeEdges

\* The edges of one fact, as add_fact and index_fact list them.
LEMMA EdgesOfOne ==
    ASSUME NEW f, NEW S
    PROVE  /\ FactEdges({f}, With(f, S)) =
                  {<<"fact", f, f>>} \cup {<<"fact_conflict", f, o>> : o \in S}
           /\ KnowledgeEdges({f}, With(f, S)) =
                  {<<"knowledge", f, f>>} \cup {<<"knowledge_conflict", f, o>> : o \in S}
  <1>1. ASSUME NEW k
        PROVE  {<<k, c[1], c[2]>> : c \in With(f, S)} = {<<k, f, o>> : o \in S}
    <2>1. ASSUME NEW c \in With(f, S) PROVE \E o \in S : <<k, c[1], c[2]>> = <<k, f, o>>
      BY <2>1 DEF With
    <2>2. ASSUME NEW o \in S PROVE \E c \in With(f, S) : <<k, f, o>> = <<k, c[1], c[2]>>
      <3>1. <<f, o>> \in With(f, S) /\ <<f, o>>[1] = f /\ <<f, o>>[2] = o
        BY DEF With
      <3> QED
        BY <3>1
    <2> QED
      BY <2>1, <2>2
  <1>2. \A k : {<<k, g, g>> : g \in {f}} = {<<k, f, f>>}
    OBVIOUS
  <1> QED
    BY <1>1, <1>2 DEF FactEdges, KnowledgeEdges

\* The record of a process that a step of another leaves alone.
LEMMA OthersStay ==
    ASSUME TypeOK, NEW a \in Agents, Step(a) \/ Abandon(a)
    PROVE  \A b \in Agents \ {a} : proc'[b] = proc[b]
  <1>1. proc \in [Agents -> Process]
    BY TypeParts DEF ProcessesOK
  <1> QED
    BY <1>1 DEF Step, Abandon, WriteEdge, Commit, Get, LookUp, ReadEntity, WriteEntity,
       WriteAssertion, Indexed, Finished, ClearKnowledge, RebuildGraph, ListFacts, AssertionGone

\* A step of process a.  If it is not alone, the history is unknown; if it is,
\* only what it has left to write matters.
LEMMA FollowStep ==
    ASSUME FollowInv, NEW a \in Agents, proc[a].pc # "idle",
           \A b \in Agents \ {a} : proc'[b] = proc[b],
           proc'[a].pc # "idle" => proc'[a].alone = proc[a].alone
                                   /\ proc'[a].rebuild = proc[a].rebuild,
           history' = "unknown" \/ history' = history
               \/ (proc[a].alone /\ proc[a].rebuild /\ history' = "rebuilt"),
           (proc[a].alone /\ proc'[a].pc = "idle" /\ history' # "unknown") => Followed',
           (proc[a].alone /\ proc'[a].pc = "idle" /\ history' = "sequential") => RepeatsBut({})',
           (/\ proc[a].alone /\ proc'[a].pc # "idle"
            /\ proc[a].rebuild \/ history' # "unknown") => Pending(a)',
           (/\ proc[a].alone /\ proc'[a].pc # "idle"
            /\ ~proc[a].rebuild /\ history' = "sequential") => Repeating(a)'
    PROVE  FollowInv'
  <1>1. CASE ~proc[a].alone
    <2>1. history = "unknown" /\ history' = "unknown"
      BY <1>1 DEF FollowInv
    <2>2. \A b \in Agents : proc'[b].pc # "idle" => ~proc'[b].alone
      BY <1>1 DEF FollowInv, Only
    <2> QED
      BY <2>1, <2>2 DEF FollowInv
  <1>2. CASE proc[a].alone
    <2>1. \A b \in Agents \ {a} : proc[b].pc = "idle" /\ proc'[b].pc = "idle"
      BY <1>2 DEF FollowInv, Only
    <2>2. Only(a)'
      BY <2>1 DEF Only
    <2> QED
      BY <1>2, <2>1, <2>2 DEF FollowInv
  <1> QED
    BY <1>1, <1>2

\* What FollowInv says of a process that moves and is alone.
LEMMA WhatIsPending ==
    ASSUME FollowInv, NEW a \in Agents, proc[a].pc # "idle", proc[a].alone
    PROVE  /\ proc[a].rebuild \/ history # "unknown" => Pending(a)
           /\ ~proc[a].rebuild /\ history = "sequential" => Repeating(a)
  BY DEF FollowInv

\* Steps that leave the ledger and the knowledge graph alone.
LEMMA SameTables ==
    ASSUME UNCHANGED <<ledger, kg>>
    PROVE  /\ Stored' = Stored /\ Asserted' = Asserted
           /\ \A f \in Facts : Read(f)' = Read(f)
  BY DEF Stored, Asserted, Read

\* The row add_fact inserts.
LEMMA CommitRow ==
    ASSUME TypeOK, NEW a \in Agents, Commit(a)
    PROVE  /\ ledger'[proc[a].fact].sups = proc[a].sups
           /\ proc[a].fact \notin proc[a].sups => ledger'[proc[a].fact].by = None
  <1> DEFINE f == proc[a].fact
             sups == proc[a].sups
  <1>1. f \in Facts /\ ledger \in [Facts -> [status : Status, by : Facts \cup {None},
                             sups : SUBSET Facts, rank : Ranks \cup {0}, row : Nat]]
    BY CommitTables, TypeParts DEF TablesOK
  <1>2. PICK n \in 1 .. Cardinality(Facts) + MaxAdds :
           ledger' = Superseded(Inserted(f, sups, proc[a].rank, n), f, sups)
    BY DEF Commit
  <1> DEFINE new == [status |-> "active", by |-> None, sups |-> sups,
                     rank |-> proc[a].rank, row |-> n]
             table == [ledger EXCEPT ![f] = new]
  <1>3. new.sups = sups /\ new.by = None /\ table[f] = new
    BY <1>1
  <1>4. ledger'[f] = IF f \in sups /\ table[f].row # 0
                     THEN [table[f] EXCEPT !.status = "superseded", !.by = f]
                     ELSE table[f]
    BY <1>1, <1>2 DEF Superseded, Inserted
  <1>5. [new EXCEPT !.status = "superseded", !.by = f].sups = sups
    OBVIOUS
  <1> HIDE DEF new, table
  <1> QED
    BY <1>3, <1>4, <1>5

\* Conflicts are of stored facts, and edges are listed where they are written.
LEMMA StepShape ==
    ASSUME TypeOK, ShapeInv, NEW a \in Agents, Step(a) \/ Abandon(a)
    PROVE  ShapeInv'
  <1>1. \A b \in Agents \ {a} : proc'[b] = proc[b]
    BY OthersStay
  <1>2. proc \in [Agents -> Process] /\ proc[a] \in Process
    BY TypeParts DEF ProcessesOK
  <1>3. proc'[a].todo # {} => proc'[a].pc \in {"adding", "asserted", "regraphing"}
    <2>1. CASE \E e \in proc[a].todo : WriteEdge(a, e)
      BY <1>2, <2>1 DEF WriteEdge, Process, ShapeInv
    <2>2. CASE Commit(a) \/ Get(a)
      BY <1>2, <2>2 DEF Commit, Get, Process, ShapeInv
    <2>3. CASE LookUp(a)
      BY <1>2, <2>3 DEF LookUp, Process, ShapeInv
    <2>7. CASE ReadEntity(a)
      BY <1>2, <2>7 DEF ReadEntity, Process, ShapeInv
    <2>8. CASE WriteEntity(a)
      BY <1>2, <2>8 DEF WriteEntity, Process, ShapeInv
    <2>4. CASE WriteAssertion(a)
      BY <1>2, <2>4 DEF WriteAssertion, Process, ShapeInv
    <2>10. CASE Indexed(a)
      BY <1>2, <2>10 DEF Indexed, Finished, Idle, Process, ShapeInv
    <2>5. CASE ClearKnowledge(a)
      BY <1>2, <2>5 DEF ClearKnowledge, Idle, Process, ShapeInv
    <2>9. CASE RebuildGraph(a)
      BY <1>2, <2>9 DEF RebuildGraph, Process, ShapeInv
    <2>6. CASE ListFacts(a) \/ AssertionGone(a) \/ Abandon(a)
      BY <1>2, <2>6 DEF ListFacts, AssertionGone, Abandon, Finished, Idle, Process, ShapeInv
    <2> QED
      BY <2>1, <2>2, <2>3, <2>4, <2>5, <2>6, <2>7, <2>8, <2>9, <2>10
         DEF Step
  <1>4. (\A c \in conflicts' : c[1] \in Stored') /\ \A f \in Stored' : ledger'[f].status # "absent"
    <2>1. CASE Commit(a)
      <3>1. conflicts' = conflicts \cup {<<proc[a].fact, o>> : o \in proc[a].sups}
        BY <2>1 DEF Commit
      <3>2. proc[a].fact \in Stored' /\ Stored \subseteq Stored'
        BY <2>1, CommitTables DEF Stored
      <3>3. \A f \in Stored' : ledger'[f].status # "absent"
        <4> SUFFICES ASSUME NEW f \in Stored' PROVE ledger'[f].status # "absent"
          OBVIOUS
        <4>1. f \in Facts /\ (f = proc[a].fact \/ ledger'[f].row = ledger[f].row)
          BY <2>1, CommitTables DEF Stored
        <4>2. f = proc[a].fact \/ f \in Stored
          BY <4>1 DEF Stored
        <4>3. IF f \in proc[a].sups /\ ledger'[f].row # 0
              THEN ledger'[f].status = "superseded"
              ELSE IF f = proc[a].fact THEN ledger'[f].status = "active"
              ELSE ledger'[f] = ledger[f]
          BY <2>1, <4>1, CommitTables
        <4> QED
          BY <4>2, <4>3 DEF ShapeInv
      <3> QED
        BY <3>1, <3>2, <3>3 DEF ShapeInv
    <2>2. CASE ~Commit(a)
      <3>1. UNCHANGED <<ledger, conflicts>>
        BY <2>2, OnlyCommitWrites DEF Abandon
      <3> QED
        BY <3>1 DEF ShapeInv, Stored
    <2> QED
      BY <2>1, <2>2
  <1> QED
    BY <1>1, <1>3, <1>4 DEF ShapeInv

LEMMA BeginShape ==
    ASSUME TypeOK, ShapeInv, NEW a \in Agents,
           \/ \E f \in Facts, sups \in SUBSET Facts, rank \in Ranks : AddFact(a, f, sups, rank)
           \/ Rebuild(a)
    PROVE  ShapeInv'
  <1>1. UNCHANGED <<ledger, conflicts>>
    BY DEF AddFact, Rebuild, facts
  <1>2. proc \in [Agents -> Process]
    BY TypeParts DEF ProcessesOK
  <1>3. ASSUME NEW p \in Process, Started(a, p), p.todo # {} => p.pc = "adding"
        PROVE  \A b \in Agents : proc'[b].todo # {} =>
                   proc'[b].pc \in {"adding", "asserted", "regraphing"}
    <2>1. ASSUME NEW r \in Process, NEW flag \in BOOLEAN
          PROVE  [r EXCEPT !.alone = flag].pc = r.pc /\ [r EXCEPT !.alone = flag].todo = r.todo
      BY DEF Process
    <2>2. (Busy = {}) \in BOOLEAN
      OBVIOUS
    <2>3. \A b \in Agents : proc'[b] = IF b = a THEN [p EXCEPT !.alone = Busy = {}]
                                                ELSE [proc[b] EXCEPT !.alone = FALSE]
      BY <1>3 DEF Started
    <2>4. proc'[a].pc = p.pc /\ proc'[a].todo = p.todo
      <3> DEFINE flag == Busy = {}
      <3>1. flag \in BOOLEAN /\ proc'[a] = [p EXCEPT !.alone = flag]
        BY <2>2, <2>3
      <3> HIDE DEF flag
      <3> QED
        BY <2>1, <3>1
    <2>5. \A b \in Agents \ {a} : proc'[b].pc = proc[b].pc /\ proc'[b].todo = proc[b].todo
      BY <1>2, <2>1, <2>3
    <2> QED
      BY <1>3, <2>4, <2>5 DEF ShapeInv
  <1>4. \A b \in Agents : proc'[b].todo # {} =>
            proc'[b].pc \in {"adding", "asserted", "regraphing"}
    <2>1. CASE Rebuild(a)
      <3> DEFINE p == [Idle EXCEPT !.pc = "clearing", !.rebuild = TRUE]
      <3>1. p \in Process /\ p.todo = {}
        BY IdleIsProcess DEF Process, Places, Idle
      <3> QED
        BY <1>3, <2>1, <3>1 DEF Rebuild
    <2>2. ASSUME NEW f \in Facts, NEW sups \in SUBSET Facts, NEW rank \in Ranks,
                 AddFact(a, f, sups, rank)
          PROVE  \A b \in Agents : proc'[b].todo # {} =>
                     proc'[b].pc \in {"adding", "asserted", "regraphing"}
      <3> DEFINE todo == {<<"fact", f, f>>} \cup {<<"fact_conflict", f, o>> : o \in sups}
                 p == [Idle EXCEPT !.pc = "adding", !.fact = f, !.sups = sups, !.rank = rank,
                                   !.todo = todo]
      <3>1. todo \subseteq Edge
        BY DEF Edge
      <3>2. Started(a, p)
        BY <2>2 DEF AddFact
      <3> HIDE DEF todo
      <3>3. p \in Process /\ p.pc = "adding"
        BY <3>1, IdleIsProcess DEF Process, Places
      <3> QED
        BY <1>3, <3>2, <3>3
    <2> QED
      BY <2>1, <2>2
  <1> QED
    BY <1>1, <1>4 DEF ShapeInv, Stored

\* An edge less to write, and one more written.
LEMMA EdgeFollow ==
    ASSUME TypeOK, ShapeInv, FollowInv, NEW a \in Agents, NEW e \in proc[a].todo, WriteEdge(a, e)
    PROVE  FollowInv'
  <1>1. /\ UNCHANGED <<ledger, conflicts, kg, kgConflicts, sources, history>>
        /\ edges' = edges \cup {e} /\ proc' = [proc EXCEPT ![a].todo = @ \ {e}]
    BY DEF WriteEdge, facts
  <1>2. proc \in [Agents -> Process] /\ proc[a] \in Process
    BY TypeParts DEF ProcessesOK
  <1>3. /\ proc'[a].pc = proc[a].pc /\ proc'[a].fact = proc[a].fact
        /\ proc'[a].sups = proc[a].sups /\ proc'[a].queue = proc[a].queue
        /\ proc'[a].olds = proc[a].olds /\ proc'[a].seen = proc[a].seen
        /\ proc'[a].rebuild = proc[a].rebuild /\ proc'[a].alone = proc[a].alone
        /\ proc'[a].todo = proc[a].todo \ {e}
    BY <1>1, <1>2 DEF Process
  <1>4. proc[a].pc \in {"adding", "asserted", "regraphing"}
    BY DEF ShapeInv
  <1>5. edges' \cup proc'[a].todo = edges \cup proc[a].todo
    BY <1>1, <1>3
  <1>6. /\ Head1(a)' = Head1(a) /\ Queued(a)' = Queued(a)
        /\ Stored' = Stored /\ Asserted' = Asserted
    BY <1>1, <1>3, SameTables DEF Head1, Queued
  <1>7. Pending(a) => Pending(a)'
    <2>1. CASE proc[a].pc = "adding"
      BY <1>1, <1>3, <1>5, <1>6, <2>1 DEF Pending, ActiveBut, Before
    <2>2. ASSUME proc[a].pc = "asserted", Pending(a)
          PROVE  Pending(a)'
      <3>1. /\ Stored' = Asserted' \cup Queued(a)' /\ proc'[a].queue # <<>>
            /\ sources' = Asserted' /\ Head1(a)'.fact \in Asserted'
            /\ ~proc'[a].rebuild => Len(proc'[a].queue) = 1
            /\ edges' \cup proc'[a].todo = FactEdges(Stored', conflicts')
                                           \cup KnowledgeEdges(Asserted', kgConflicts')
        BY <1>1, <1>3, <1>5, <1>6, <2>2 DEF Pending, Before
      <3>2. (\A i \in DOMAIN proc[a].queue : proc[a].queue[i] = Read(proc[a].queue[i].fact))'
        <4>1. \A i \in DOMAIN proc[a].queue : proc[a].queue[i] = Read(proc[a].queue[i].fact)
          BY <2>2 DEF Pending
        <4>2. proc'[a].queue = proc[a].queue /\ ledger' = ledger
          BY <1>1, <1>3
        <4> QED
          BY <4>1, <4>2 DEF Read
      <3>3. ActiveBut({})' /\ proc'[a].pc = "asserted"
        BY <1>1, <1>3, <2>2 DEF Pending, ActiveBut
      <3> QED
        BY <3>1, <3>2, <3>3 DEF Pending, Before
    <2>3. CASE proc[a].pc = "regraphing"
      BY <1>1, <1>3, <1>5, <1>6, <2>3 DEF Pending, Before
    <2> QED
      BY <1>4, <2>1, <2>2, <2>3
  <1>8. Repeating(a) => Repeating(a)'
    BY <1>1, <1>3, <1>4, <1>6 DEF Repeating, RepeatsBut, JustAdded, Before
  <1>9. \A b \in Agents \ {a} : proc'[b] = proc[b]
    BY <1>1, <1>2
  <1>10. proc[a].pc # "idle" /\ proc'[a].pc # "idle" /\ history' = history
    BY <1>1, <1>3, <1>4
  <1>11. /\ proc[a].alone /\ (proc[a].rebuild \/ history # "unknown") => Pending(a)'
         /\ proc[a].alone /\ ~proc[a].rebuild /\ history = "sequential" => Repeating(a)'
    BY <1>7, <1>8, <1>10, WhatIsPending
  <1> QED
    BY <1>3, <1>9, <1>10, <1>11, FollowStep

\* What was to be followed changes, and add_fact has still to index it.
LEMMA CommitFollow ==
    ASSUME TypeOK, ShapeInv, FollowInv, NEW a \in Agents, Commit(a)
    PROVE  FollowInv'
  <1>1. PICK f, sups : f = proc[a].fact /\ sups = proc[a].sups
    OBVIOUS
  <1>2. /\ UNCHANGED <<kg, kgConflicts, sources, edges, history>>
        /\ proc[a].pc = "adding" /\ proc[a].todo = {}
        /\ conflicts' = conflicts \cup With(f, sups)
        /\ proc' = [proc EXCEPT ![a].pc = "committed"]
    BY <1>1 DEF Commit, indexes, With
  <1>3. /\ f \in Facts /\ sups \subseteq Facts /\ ledger'[f].row # 0
        /\ ledger'[f].sups = sups /\ (f \notin sups => ledger'[f].by = None)
        /\ \A o \in Facts \ {f} : ledger'[o].row = ledger[o].row
        /\ \A o \in Facts :
              IF o \in sups /\ ledger'[o].row # 0
              THEN ledger'[o].status = "superseded" /\ ledger'[o].by = f
              ELSE IF o = f THEN ledger'[o].status = "active" ELSE ledger'[o] = ledger[o]
    BY <1>1, CommitTables, CommitRow
  <1>4. proc \in [Agents -> Process] /\ proc[a] \in Process
    BY TypeParts DEF ProcessesOK
  <1>5. /\ proc'[a].pc = "committed" /\ proc'[a].fact = f /\ proc'[a].sups = sups
        /\ proc'[a].rebuild = proc[a].rebuild /\ proc'[a].alone = proc[a].alone
        /\ proc'[a].todo = {}
    BY <1>1, <1>2, <1>4 DEF Process
  <1>6. Stored' = Stored \cup {f} /\ Asserted' = Asserted
    <2>1. Asserted' = Asserted
      BY <1>2 DEF Asserted
    <2> QED
      BY <1>3, <2>1 DEF Stored
  <1>7. \A b \in Agents \ {a} : proc'[b] = proc[b]
    BY OthersStay DEF Step
  <1>8. Pending(a) => Pending(a)'
    <2> SUFFICES ASSUME Pending(a) PROVE Pending(a)'
      OBVIOUS
    <2>1. /\ Asserted = Stored /\ ActiveBut({}) /\ sources = Asserted
          /\ edges \cup proc[a].todo = FactEdges(Stored \cup {f}, conflicts \cup With(f, sups))
                                       \cup KnowledgeEdges(Asserted, kgConflicts)
      BY <1>1, <1>2 DEF Pending
    <2>2. ActiveBut({f} \cup sups)'
      BY <1>2, <1>3, <2>1 DEF ActiveBut
    <2>3. /\ sources' = Asserted' /\ Stored' = Asserted' \cup {f}
          /\ edges' \cup proc'[a].todo = FactEdges(Stored', conflicts')
                                         \cup KnowledgeEdges(Asserted', kgConflicts')
      BY <1>2, <1>5, <1>6, <2>1
    <2>4. ActiveBut({proc[a].fact} \cup proc[a].sups)'
      BY <1>5, <2>2 DEF ActiveBut
    <2> QED
      BY <1>3, <1>5, <2>3, <2>4 DEF Pending, Before
  <1>9. Repeating(a) => Repeating(a)'
    <2> SUFFICES ASSUME Repeating(a) PROVE Repeating(a)'
      OBVIOUS
    <2>1. RepeatsBut({})
      BY <1>2 DEF Repeating
    <2>2. RepeatsBut({f} \cup sups)'
      BY <1>2, <1>3, <1>6, <2>1 DEF RepeatsBut, Stored
    <2>3. JustAdded(f, sups)'
      BY <1>3 DEF JustAdded, Stored
    <2>4. JustAdded(proc[a].fact, proc[a].sups)' /\ RepeatsBut({proc[a].fact} \cup proc[a].sups)'
      BY <1>5, <2>2, <2>3 DEF JustAdded, RepeatsBut
    <2> QED
      BY <1>5, <2>4 DEF Repeating, Before
  <1>10. /\ proc[a].alone /\ (proc[a].rebuild \/ history # "unknown") => Pending(a)'
         /\ proc[a].alone /\ ~proc[a].rebuild /\ history = "sequential" => Repeating(a)'
    BY <1>2, <1>8, <1>9, WhatIsPending
  <1> QED
    BY <1>2, <1>5, <1>7, <1>10, FollowStep

\* The ledger's record of the fact is at hand.
LEMMA GetFollow ==
    ASSUME TypeOK, ShapeInv, FollowInv, NEW a \in Agents, Get(a)
    PROVE  FollowInv'
  <1>1. PICK f, sups : f = proc[a].fact /\ sups = proc[a].sups
    OBVIOUS
  <1>2. /\ UNCHANGED <<ledger, conflicts, kg, kgConflicts, sources, edges, history>>
        /\ proc[a].pc = "committed" /\ proc[a].todo = {} /\ f \in Facts
        /\ proc' = [proc EXCEPT ![a].pc = "indexing", ![a].queue = <<Read(f)>>]
    BY <1>1, TypeParts DEF Get, facts, indexes, ShapeInv, ProcessesOK, Equipped
  <1>3. proc \in [Agents -> Process] /\ proc[a] \in Process
    BY TypeParts DEF ProcessesOK
  <1>4. /\ proc'[a].pc = "indexing" /\ proc'[a].queue = <<Read(f)>>
        /\ proc'[a].rebuild = proc[a].rebuild /\ proc'[a].alone = proc[a].alone
        /\ proc'[a].todo = {}
    BY <1>2, <1>3 DEF Process
  <1>5. PICK r : r = Read(f)
    OBVIOUS
  <1>6. /\ Stored' = Stored /\ Asserted' = Asserted /\ Read(f)' = r
        /\ r.fact = f /\ r.sups = ledger[f].sups
    BY <1>2, <1>5, SameTables DEF Read
  <1>7. /\ Head1(a)' = r /\ Queued(a)' = {f} /\ Len(proc'[a].queue) = 1
        /\ \A i \in DOMAIN proc'[a].queue : proc'[a].queue[i] = r
        /\ proc'[a].queue # <<>>
    BY <1>4, <1>5, <1>6 DEF Head1, Queued
  <1>8. \A b \in Agents \ {a} : proc'[b] = proc[b]
    BY OthersStay DEF Step
  <1>9. Pending(a) => Pending(a)'
    <2> SUFFICES ASSUME Pending(a) PROVE Pending(a)'
      OBVIOUS
    <2>1. /\ Stored = Asserted \cup {f} /\ r.sups = sups
          /\ ActiveBut({f} \cup sups) /\ sources = Asserted
          /\ edges \cup proc[a].todo = FactEdges(Stored, conflicts)
                                       \cup KnowledgeEdges(Asserted, kgConflicts)
      BY <1>1, <1>2, <1>6 DEF Pending
    <2>2. ActiveBut({Head1(a).fact} \cup Head1(a).sups)'
      BY <1>2, <1>6, <1>7, <2>1 DEF ActiveBut
    <2>3. (\A i \in DOMAIN proc[a].queue : proc[a].queue[i] = Read(proc[a].queue[i].fact))'
      BY <1>2, <1>5, <1>6, <1>7 DEF Read
    <2>4. /\ sources' = Asserted' /\ Stored' = Asserted' \cup Queued(a)'
          /\ edges' \cup proc'[a].todo = FactEdges(Stored', conflicts')
                                         \cup KnowledgeEdges(Asserted', kgConflicts')
      BY <1>2, <1>4, <1>6, <1>7, <2>1
    <2> QED
      BY <1>4, <1>7, <2>2, <2>3, <2>4 DEF Pending, Before
  <1>10. Pending(a) /\ Repeating(a) => Repeating(a)'
    <2> SUFFICES ASSUME Pending(a), Repeating(a) PROVE Repeating(a)'
      OBVIOUS
    <2>1. JustAdded(f, sups) /\ RepeatsBut({f} \cup sups) /\ r.sups = sups
      BY <1>1, <1>2, <1>6 DEF Repeating, Pending
    <2>2. /\ JustAdded(Head1(a).fact, Head1(a).sups)'
          /\ RepeatsBut({Head1(a).fact} \cup Head1(a).sups)'
      BY <1>2, <1>6, <1>7, <2>1 DEF JustAdded, RepeatsBut
    <2> QED
      BY <1>4, <2>2 DEF Repeating, Before
  <1>11. /\ proc[a].alone /\ (proc[a].rebuild \/ history # "unknown") => Pending(a)'
         /\ proc[a].alone /\ ~proc[a].rebuild /\ history = "sequential" => Repeating(a)'
    BY <1>2, <1>9, <1>10, WhatIsPending
  <1> QED
    BY <1>2, <1>4, <1>8, <1>11, FollowStep

\* The assertions to outdate are looked up and the entity is merged.
LEMMA EntityFollow ==
    ASSUME TypeOK, ShapeInv, FollowInv, NEW a \in Agents,
           LookUp(a) \/ ReadEntity(a) \/ WriteEntity(a)
    PROVE  FollowInv'
  <1>1. PICK h : h = Head1(a)
    OBVIOUS
  <1>2. /\ UNCHANGED <<ledger, conflicts, kg, kgConflicts, edges, history>>
        /\ proc[a].pc \in {"indexing", "upserting", "merging"}
    BY DEF LookUp, ReadEntity, WriteEntity, facts, indexes
  <1>3. proc \in [Agents -> Process] /\ proc[a] \in Process /\ proc[a].todo = {}
    BY <1>2, TypeParts DEF ProcessesOK, ShapeInv
  <1>4. /\ proc'[a].queue = proc[a].queue /\ proc'[a].rebuild = proc[a].rebuild
        /\ proc'[a].alone = proc[a].alone /\ proc'[a].todo = {}
    <2>1. CASE LookUp(a)
      BY <1>3, <2>1 DEF LookUp, Process
    <2>2. CASE ReadEntity(a)
      BY <1>3, <2>2 DEF ReadEntity, Process
    <2>3. CASE WriteEntity(a)
      BY <1>3, <2>3 DEF WriteEntity, Process
    <2> QED
      BY <2>1, <2>2, <2>3
  <1>5. \/ /\ proc[a].pc = "indexing" /\ proc'[a].pc = "upserting" /\ sources' = sources
           /\ proc'[a].olds = h.sups \cap Asserted
        \/ /\ proc[a].pc = "upserting" /\ proc'[a].pc = "merging" /\ sources' = sources
           /\ proc'[a].olds = proc[a].olds /\ proc'[a].seen = sources
        \/ /\ proc[a].pc = "merging" /\ proc'[a].pc = "asserting"
           /\ sources' = proc[a].seen \cup {h.fact}
           /\ proc'[a].olds = proc[a].olds
    <2>1. CASE LookUp(a)
      BY <1>1, <1>3, <2>1 DEF LookUp, Process, indexes
    <2>2. CASE ReadEntity(a)
      BY <1>3, <2>2 DEF ReadEntity, Process, indexes
    <2>3. CASE WriteEntity(a)
      BY <1>1, <1>3, <2>3 DEF WriteEntity, Merged, Process
    <2> QED
      BY <2>1, <2>2, <2>3
  <1>6. /\ Stored' = Stored /\ Asserted' = Asserted
        /\ Head1(a)' = h /\ Queued(a)' = Queued(a)
    BY <1>1, <1>2, <1>4, SameTables DEF Head1, Queued
  <1>7. \A b \in Agents \ {a} : proc'[b] = proc[b]
    BY OthersStay DEF Step
  <1>8. Pending(a) => Pending(a)'
    <2> SUFFICES ASSUME Pending(a) PROVE Pending(a)'
      OBVIOUS
    <2>1. /\ edges \cup proc[a].todo = FactEdges(Stored, conflicts)
                                       \cup KnowledgeEdges(Asserted, kgConflicts)
          /\ Stored = Asserted \cup Queued(a)
          /\ \A i \in DOMAIN proc[a].queue : proc[a].queue[i] = Read(proc[a].queue[i].fact)
          /\ ActiveBut({h.fact} \cup h.sups) /\ sources = Asserted
          /\ ~proc[a].rebuild => Len(proc[a].queue) = 1
      BY <1>1, <1>2 DEF Pending, Before
    <2>2. /\ proc[a].pc # "indexing" => proc[a].olds = h.sups \cap Asserted
          /\ proc[a].pc = "merging" => proc[a].seen = sources
      BY <1>1, <1>2 DEF Pending, Before
    <2>3. ActiveBut({Head1(a).fact} \cup Head1(a).sups)'
      BY <1>2, <1>6, <2>1 DEF ActiveBut
    <2>4. (\A i \in DOMAIN proc[a].queue : proc[a].queue[i] = Read(proc[a].queue[i].fact))'
      BY <1>2, <1>4, <2>1 DEF Read
    <2>5. /\ edges' \cup proc'[a].todo = FactEdges(Stored', conflicts')
                                         \cup KnowledgeEdges(Asserted', kgConflicts')
          /\ Stored' = Asserted' \cup Queued(a)'
      BY <1>2, <1>3, <1>4, <1>6, <2>1
    <2>6. /\ proc'[a].pc \in {"upserting", "merging", "asserting"}
          /\ proc'[a].olds = (Head1(a).sups \cap Asserted)'
          /\ proc'[a].pc = "merging" => proc'[a].seen = sources'
          /\ proc'[a].pc # "asserting" => sources' = Asserted'
          /\ proc'[a].pc = "asserting" => sources' = Asserted' \cup {Head1(a)'.fact}
      BY <1>5, <1>6, <2>1, <2>2
    <2> QED
      BY <1>4, <2>1, <2>3, <2>4, <2>5, <2>6 DEF Pending, Before
  <1>9. Repeating(a) => Repeating(a)'
    <2> SUFFICES ASSUME Repeating(a) PROVE Repeating(a)'
      OBVIOUS
    <2>1. JustAdded(h.fact, h.sups) /\ RepeatsBut({h.fact} \cup h.sups)
      BY <1>1, <1>2 DEF Repeating, Before
    <2>2. /\ JustAdded(Head1(a).fact, Head1(a).sups)'
          /\ RepeatsBut({Head1(a).fact} \cup Head1(a).sups)'
      BY <1>2, <1>6, <2>1 DEF JustAdded, RepeatsBut
    <2>3. proc'[a].pc \in {"upserting", "merging", "asserting"}
      BY <1>5
    <2> QED
      BY <2>2, <2>3 DEF Repeating, Before
  <1>10. proc[a].pc # "idle" /\ proc'[a].pc # "idle" /\ history' = history
    BY <1>2, <1>5
  <1>11. /\ proc[a].alone /\ (proc[a].rebuild \/ history # "unknown") => Pending(a)'
         /\ proc[a].alone /\ ~proc[a].rebuild /\ history = "sequential" => Repeating(a)'
    BY <1>8, <1>9, <1>10, WhatIsPending
  <1> QED
    BY <1>4, <1>7, <1>10, <1>11, FollowStep

\* The record at the head of the queue is one of the facts, as the ledger has it.
LEMMA HeadIsRead ==
    ASSUME TypeOK, NEW a \in Agents, Pending(a), proc[a].pc \in Before \cup {"asserted"},
           proc[a].queue # <<>>
    PROVE  LET f == Head1(a).fact IN
           /\ f \in Stored /\ f \in Queued(a) /\ Head1(a) = Read(f)
           /\ Len(proc[a].queue) = 1 => Queued(a) = {f}
  <1>1. /\ Stored = Asserted \cup Queued(a)
        /\ \A i \in DOMAIN proc[a].queue : proc[a].queue[i] = Read(proc[a].queue[i].fact)
    BY DEF Pending
  <1>2. proc[a].queue \in Seq(Reading)
    BY TypeParts DEF ProcessesOK, Process
  <1>3. 1 \in DOMAIN proc[a].queue /\ Head1(a) = proc[a].queue[1]
        /\ (Len(proc[a].queue) = 1 => DOMAIN proc[a].queue = {1})
    BY <1>2 DEF Head1
  <1> QED
    BY <1>1, <1>3 DEF Queued

\* The assertion catches up with the ledger's fact and those it superseded.
LEMMA AssertionFollow ==
    ASSUME TypeOK, ShapeInv, FollowInv, NEW a \in Agents, WriteAssertion(a)
    PROVE  FollowInv'
  <1>1. PICK h, f, olds : h = Head1(a) /\ f = h.fact /\ olds = proc[a].olds
    OBVIOUS
  <1>2. /\ UNCHANGED <<ledger, conflicts, sources, edges, history>>
        /\ proc[a].pc = "asserting"
        /\ kg' = Outdated([kg EXCEPT ![f] = [status |-> h.status, by |-> None]], f, olds)
        /\ kgConflicts' = kgConflicts \cup With(f, olds)
        /\ proc' = [proc EXCEPT ![a].pc = "asserted", ![a].todo = KnowledgeEdges({f}, With(f, olds))]
    <2>1. /\ UNCHANGED <<ledger, conflicts, sources, edges, history>>
          /\ proc[a].pc = "asserting"
          /\ kg' = Outdated([kg EXCEPT ![f] = [status |-> h.status, by |-> None]], f, olds)
          /\ kgConflicts' = kgConflicts \cup {<<f, o>> : o \in olds}
          /\ proc' = [proc EXCEPT ![a].pc = "asserted",
                          ![a].todo = {<<"knowledge", f, f>>}
                                      \cup {<<"knowledge_conflict", f, o>> : o \in olds}]
      BY <1>1 DEF WriteAssertion, facts, StatusOf
    <2>2. KnowledgeEdges({f}, With(f, olds)) =
              {<<"knowledge", f, f>>} \cup {<<"knowledge_conflict", f, o>> : o \in olds}
      BY EdgesOfOne
    <2> QED
      BY <2>1, <2>2 DEF With
  <1>3. /\ proc \in [Agents -> Process] /\ proc[a] \in Process /\ proc[a].todo = {}
        /\ proc[a].queue # <<>> /\ olds \subseteq Facts
    BY <1>1, <1>2, TypeParts DEF ProcessesOK, Equipped, ShapeInv, Process
  <1>4. /\ proc'[a].pc = "asserted" /\ proc'[a].queue = proc[a].queue
        /\ proc'[a].todo = KnowledgeEdges({f}, With(f, olds))
        /\ proc'[a].rebuild = proc[a].rebuild /\ proc'[a].alone = proc[a].alone
    BY <1>2, <1>3 DEF Process
  <1>5. Stored' = Stored /\ Head1(a)' = h /\ Queued(a)' = Queued(a)
    BY <1>1, <1>2, <1>4 DEF Stored, Head1, Queued
  <1>6. \A b \in Agents \ {a} : proc'[b] = proc[b]
    BY OthersStay DEF Step
  <1>7. ASSUME Pending(a)
        PROVE  /\ f \in Stored /\ f \in Queued(a) /\ h.status = ledger[f].status
               /\ f \in Facts /\ olds = h.sups \cap Asserted /\ h = Read(f)
               /\ Len(proc[a].queue) = 1 => Queued(a) = {f}
               /\ \A o \in Facts : kg'[o] =
                     IF o \in olds THEN [status |-> "superseded", by |-> f]
                     ELSE IF o = f THEN [status |-> h.status, by |-> None] ELSE kg[o]
               /\ Asserted' = Asserted \cup {f}
    <2>1. /\ f \in Stored /\ f \in Queued(a) /\ h.status = ledger[f].status
          /\ f \in Facts /\ olds = h.sups \cap Asserted /\ h = Read(f)
          /\ Len(proc[a].queue) = 1 => Queued(a) = {f}
      <3>1. proc[a].pc \in Before /\ proc[a].pc \in Before \cup {"asserted"}
        BY <1>2 DEF Before
      <3>2. /\ f \in Stored /\ f \in Queued(a) /\ h = Read(f)
            /\ Len(proc[a].queue) = 1 => Queued(a) = {f}
        BY <1>1, <1>3, <1>7, <3>1, HeadIsRead
      <3>3. olds = h.sups \cap Asserted
        BY <1>1, <1>2, <1>7 DEF Pending, Before
      <3> QED
        BY <3>2, <3>3 DEF Read, Stored
    <2>2. h.status # "absent"
      BY <2>1 DEF ShapeInv
    <2>3. kg \in [Facts -> [status : Status, by : Facts \cup {None}]]
      BY TypeParts DEF TablesOK
    <2>4. \A o \in olds : kg[o].status # "absent"
      BY <2>1 DEF Asserted
    <2>5. \A o \in Facts : kg'[o] =
              IF o \in olds THEN [status |-> "superseded", by |-> f]
              ELSE IF o = f THEN [status |-> h.status, by |-> None] ELSE kg[o]
      <3> DEFINE table == [kg EXCEPT ![f] = [status |-> h.status, by |-> None]]
      <3>1. /\ \A o \in Facts \ {f} : table[o] = kg[o]
            /\ table[f] = [status |-> h.status, by |-> None]
        BY <2>1, <2>3
      <3>2. \A o \in olds : table[o].status # "absent"
        BY <1>3, <2>2, <2>4, <3>1
      <3>3. kg' = Outdated(table, f, olds)
        BY <1>2
      <3> HIDE DEF table
      <3> QED
        BY <3>1, <3>2, <3>3 DEF Outdated
    <2>6. Asserted' = Asserted \cup {f}
      BY <2>1, <2>2, <2>4, <2>5 DEF Asserted
    <2> QED
      BY <2>1, <2>5, <2>6
  <1>8. Pending(a) => Pending(a)'
    <2> SUFFICES ASSUME Pending(a) PROVE Pending(a)'
      OBVIOUS
    <2>1. /\ edges \cup proc[a].todo = FactEdges(Stored, conflicts)
                                       \cup KnowledgeEdges(Asserted, kgConflicts)
          /\ Stored = Asserted \cup Queued(a)
          /\ \A i \in DOMAIN proc[a].queue : proc[a].queue[i] = Read(proc[a].queue[i].fact)
          /\ ActiveBut({f} \cup h.sups) /\ sources = Asserted \cup {f}
          /\ ~proc[a].rebuild => Len(proc[a].queue) = 1
      BY <1>1, <1>2 DEF Pending, Before
    <2>2. ActiveBut({})'
      <3> SUFFICES ASSUME NEW o \in Facts, kg'[o].status = "active"
                   PROVE  ledger[o].status = "active"
        BY <1>2 DEF ActiveBut
      <3>1. o \notin olds
        BY <1>7
      <3>2. CASE o = f
        BY <1>7, <3>1, <3>2
      <3>3. CASE o # f
        <4>1. kg[o].status = "active"
          BY <1>7, <3>1, <3>3
        <4>2. o \notin h.sups
          BY <1>7, <3>1, <4>1 DEF Asserted
        <4> QED
          BY <2>1, <3>3, <4>1, <4>2 DEF ActiveBut
      <3> QED
        BY <3>2, <3>3
    <2>3. (\A i \in DOMAIN proc[a].queue : proc[a].queue[i] = Read(proc[a].queue[i].fact))'
      BY <1>2, <1>4, <2>1 DEF Read
    <2>4. edges' \cup proc'[a].todo = FactEdges(Stored', conflicts')
                                      \cup KnowledgeEdges(Asserted', kgConflicts')
      <3>1. KnowledgeEdges(Asserted \cup {f}, kgConflicts \cup With(f, olds)) =
                KnowledgeEdges(Asserted, kgConflicts) \cup KnowledgeEdges({f}, With(f, olds))
        BY DEF KnowledgeEdges
      <3>2. /\ Asserted' = Asserted \cup {f} /\ edges' = edges /\ conflicts' = conflicts
            /\ kgConflicts' = kgConflicts \cup With(f, olds)
            /\ proc'[a].todo = KnowledgeEdges({f}, With(f, olds))
        BY <1>2, <1>4, <1>7
      <3>3. KnowledgeEdges(Asserted', kgConflicts') =
                KnowledgeEdges(Asserted, kgConflicts) \cup KnowledgeEdges({f}, With(f, olds))
        BY <3>1, <3>2
      <3> QED
        BY <1>3, <1>5, <2>1, <3>2, <3>3
    <2>5. /\ Stored' = Asserted' \cup Queued(a)' /\ sources' = Asserted'
          /\ Head1(a)'.fact \in Asserted'
      BY <1>1, <1>2, <1>5, <1>7, <2>1
    <2> QED
      BY <1>3, <1>4, <2>1, <2>2, <2>3, <2>4, <2>5 DEF Pending, Before
  <1>9. ASSUME Pending(a), Repeating(a), ~proc[a].rebuild
        PROVE  Repeating(a)'
    <2>1. JustAdded(f, h.sups) /\ RepeatsBut({f} \cup h.sups)
      BY <1>1, <1>2, <1>9 DEF Repeating, Before
    <2>2. Stored = Asserted \cup {f}
      BY <1>2, <1>7, <1>9 DEF Pending, Before
    <2>3. RepeatsBut({})'
      <3> SUFFICES ASSUME NEW o \in Stored, ledger[o].by # o
                   PROVE  kg'[o] = [status |-> ledger[o].status, by |-> ledger[o].by]
        BY <1>2, <1>5 DEF RepeatsBut
      <3>1. o \in Facts
        BY DEF Stored
      <3>2. CASE o = f
        <4>1. f \notin h.sups
          BY <1>7, <2>1, <3>2 DEF JustAdded
        <4> QED
          BY <1>7, <1>9, <2>1, <3>2, <4>1 DEF JustAdded
      <3>3. CASE o # f /\ o \in h.sups
        <4>1. o \in olds /\ ledger[o].status = "superseded" /\ ledger[o].by = f
          BY <1>7, <1>9, <2>1, <2>2, <3>3 DEF JustAdded
        <4> QED
          BY <1>7, <1>9, <3>1, <4>1
      <3>4. CASE o # f /\ o \notin h.sups
        BY <1>7, <1>9, <2>1, <3>1, <3>4 DEF RepeatsBut
      <3> QED
        BY <3>2, <3>3, <3>4
    <2> QED
      BY <1>4, <2>3 DEF Repeating, Before
  <1>10. /\ proc[a].alone /\ (proc[a].rebuild \/ history # "unknown") => Pending(a)'
         /\ proc[a].alone /\ ~proc[a].rebuild /\ history = "sequential" => Repeating(a)'
    BY <1>2, <1>8, <1>9, WhatIsPending
  <1> QED
    BY <1>2, <1>4, <1>6, <1>10, FollowStep

\* The last record's assertion is read back and the call ends, or the next one's
\* turn comes.
LEMMA IndexedFollow ==
    ASSUME TypeOK, ShapeInv, FollowInv, NEW a \in Agents, Indexed(a)
    PROVE  FollowInv'
  <1>1. /\ UNCHANGED <<ledger, conflicts, kg, kgConflicts, sources, edges>>
        /\ proc[a].pc = "asserted" /\ proc[a].todo = {}
    BY DEF Indexed, facts, indexes
  <1>2. /\ proc \in [Agents -> Process] /\ proc[a] \in Process /\ proc[a].queue # <<>>
        /\ proc[a].queue \in Seq(Reading)
    BY <1>1, TypeParts DEF ProcessesOK, Equipped, Process
  <1>3. Stored' = Stored /\ Asserted' = Asserted
    BY <1>1, SameTables
  <1>4. \A b \in Agents \ {a} : proc'[b] = proc[b]
    BY OthersStay DEF Step
  <1>5. PICK q : q = proc[a].queue
    OBVIOUS
  <1>6. ASSUME Pending(a)
        PROVE  /\ edges = FactEdges(Stored, conflicts) \cup KnowledgeEdges(Asserted, kgConflicts)
               /\ Stored = Asserted \cup Queued(a)
               /\ \A i \in DOMAIN q : q[i] = Read(q[i].fact)
               /\ ActiveBut({}) /\ sources = Asserted /\ Head1(a).fact \in Asserted
               /\ ~proc[a].rebuild => Len(q) = 1
    BY <1>1, <1>5, <1>6 DEF Pending, Before
  <1>7. CASE Len(q) = 1
    <2>1. Finished(a)
      BY <1>5, <1>7 DEF Indexed
    <2>2. /\ proc'[a].pc = "idle"
          /\ history' = IF proc[a].rebuild /\ proc[a].alone THEN "rebuilt" ELSE history
      BY <1>2, <2>1 DEF Finished, Idle
    <2>3. ASSUME Pending(a)
          PROVE  Followed'
      <3>1. Queued(a) = {Head1(a).fact}
        BY <1>1, <1>2, <1>5, <1>7, <2>3, HeadIsRead
      <3>2. Followed
        BY <1>6, <2>3, <3>1 DEF Followed
      <3> QED
        BY <1>1, <1>3, <3>2 DEF Followed, ActiveBut
    <2>4. ASSUME Repeating(a)
          PROVE  RepeatsBut({})'
      <3>1. RepeatsBut({})
        BY <1>1, <2>4 DEF Repeating
      <3> QED
        BY <1>1, <1>3, <3>1 DEF RepeatsBut
    <2>5. /\ proc[a].alone /\ history' # "unknown" => Followed'
          /\ proc[a].alone /\ history' = "sequential" => RepeatsBut({})'
      BY <1>1, <2>2, <2>3, <2>4, WhatIsPending
    <2>6. history' = history \/ (proc[a].alone /\ proc[a].rebuild /\ history' = "rebuilt")
      BY <2>2
    <2>7. proc[a].pc # "idle"
      BY <1>1
    <2> QED
      BY <1>4, <2>2, <2>5, <2>6, <2>7, FollowStep
  <1>8. CASE Len(q) # 1
    <2>1. /\ proc' = [proc EXCEPT ![a].pc = "indexing", ![a].queue = Tail(q)]
          /\ history' = history
      BY <1>5, <1>8 DEF Indexed
    <2>2. /\ proc'[a].pc = "indexing" /\ proc'[a].queue = Tail(q) /\ proc'[a].todo = {}
          /\ proc'[a].rebuild = proc[a].rebuild /\ proc'[a].alone = proc[a].alone
      BY <1>1, <1>2, <2>1 DEF Process
    <2>3. /\ Len(q) \in Nat \ {0, 1} /\ Len(Tail(q)) = Len(q) - 1
          /\ DOMAIN q = 1 .. Len(q) /\ DOMAIN Tail(q) = 1 .. Len(q) - 1
          /\ \A i \in 1 .. Len(q) - 1 : Tail(q)[i] = q[i + 1]
          /\ Head1(a) = q[1] /\ Tail(q) \in Seq(Reading)
      BY <1>2, <1>5, <1>8 DEF Head1
    <2>4. Tail(q) # <<>> /\ Head1(a)' = Tail(q)[1]
      <3>1. Len(Tail(q)) # 0
        BY <2>3
      <3>2. Tail(q) # <<>>
        <4>1. Len(<<>>) = 0
          OBVIOUS
        <4> QED
          BY <3>1, <4>1
      <3>3. Head1(a)' = Head(Tail(q))
        BY <2>2 DEF Head1
      <3> QED
        BY <2>3, <3>2, <3>3
    <2>5. Queued(a) = {Head1(a).fact} \cup Queued(a)'
      <3>1. Queued(a)' = {Tail(q)[i].fact : i \in 1 .. Len(q) - 1}
        BY <2>2, <2>3 DEF Queued
      <3>2. Queued(a) = {q[i].fact : i \in 1 .. Len(q)}
        BY <1>5, <2>3 DEF Queued
      <3>3. ASSUME NEW i \in 1 .. Len(q)
            PROVE  q[i].fact \in {Head1(a).fact} \cup Queued(a)'
        <4>1. CASE i = 1
          BY <2>3, <4>1
        <4>2. CASE i # 1
          <5>1. i - 1 \in 1 .. Len(q) - 1 /\ Tail(q)[i - 1] = q[i]
            BY <2>3, <4>2
          <5> QED
            BY <3>1, <5>1
        <4> QED
          BY <4>1, <4>2
      <3>4. ASSUME NEW i \in 1 .. Len(q) - 1
            PROVE  Tail(q)[i].fact \in Queued(a)
        <4>1. i + 1 \in 1 .. Len(q) /\ Tail(q)[i] = q[i + 1]
          BY <2>3
        <4> QED
          BY <3>2, <4>1
      <3>5. Head1(a).fact \in Queued(a)
        BY <2>3, <3>2
      <3> QED
        BY <3>1, <3>2, <3>3, <3>4, <3>5
    <2>6. Pending(a) => Pending(a)'
      <3> SUFFICES ASSUME Pending(a) PROVE Pending(a)'
        OBVIOUS
      <3>1. /\ edges' \cup proc'[a].todo = FactEdges(Stored', conflicts')
                                           \cup KnowledgeEdges(Asserted', kgConflicts')
            /\ Stored' = Asserted' \cup Queued(a)' /\ sources' = Asserted'
        BY <1>1, <1>3, <1>6, <2>2, <2>5
      <3>2. (\A i \in DOMAIN proc[a].queue : proc[a].queue[i] = Read(proc[a].queue[i].fact))'
        BY <1>1, <1>6, <2>2, <2>3 DEF Read
      <3>3. ActiveBut({Head1(a).fact} \cup Head1(a).sups)'
        BY <1>1, <1>6 DEF ActiveBut
      <3>4. proc[a].rebuild
        BY <1>6, <1>8
      <3> QED
        BY <2>2, <2>4, <3>1, <3>2, <3>3, <3>4 DEF Pending, Before
    <2>7. proc[a].alone /\ history # "unknown" => proc[a].rebuild
      BY <1>1, <1>6, <1>8, WhatIsPending
    <2>8. /\ proc[a].alone /\ (proc[a].rebuild \/ history # "unknown") => Pending(a)'
          /\ proc[a].alone /\ ~proc[a].rebuild /\ history = "sequential" => Repeating(a)'
      BY <1>1, <2>6, <2>7, WhatIsPending
    <2>9. proc[a].pc # "idle"
      BY <1>1
    <2> QED
      BY <1>4, <2>1, <2>2, <2>8, <2>9, FollowStep
  <1> QED
    BY <1>7, <1>8

LEMMA ClearFollow ==
    ASSUME TypeOK, ShapeInv, FollowInv, NEW a \in Agents, ClearKnowledge(a)
    PROVE  FollowInv'
  <1>1. /\ UNCHANGED <<ledger, conflicts, edges>> /\ proc[a].pc = "clearing"
        /\ kg' = [f \in Facts |-> NoAssertion] /\ kgConflicts' = {} /\ sources' = {}
    BY DEF ClearKnowledge, facts
  <1>2. /\ proc \in [Agents -> Process] /\ proc[a] \in Process /\ proc[a].todo = {}
    BY <1>1, TypeParts DEF ProcessesOK, ShapeInv
  <1>3. \A b \in Agents \ {a} : proc'[b] = proc[b]
    BY OthersStay DEF Step
  <1>4. Asserted' = {}
    BY <1>1 DEF Asserted, NoAssertion
  <1>5. CASE Logged
    <2>1. /\ proc'[a].pc = "cleared" /\ history' = history
          /\ proc'[a].rebuild = proc[a].rebuild /\ proc'[a].alone = proc[a].alone
      BY <1>2, <1>5 DEF ClearKnowledge, Process
    <2>2. Pending(a) => Pending(a)' /\ proc[a].rebuild
      BY <1>1, <1>4, <2>1 DEF Pending, Before
    <2>3. proc[a].pc # "idle"
      BY <1>1
    <2>4. /\ proc[a].alone /\ (proc[a].rebuild \/ history # "unknown") => Pending(a)'
          /\ proc[a].alone /\ history # "unknown" => proc[a].rebuild
      BY <2>2, <2>3, WhatIsPending
    <2> QED
      BY <1>3, <2>1, <2>3, <2>4, FollowStep
  <1>6. CASE ~Logged
    <2>1. proc'[a].pc = "idle" /\ history' = "unknown" /\ proc[a].pc # "idle"
      BY <1>1, <1>2, <1>6 DEF ClearKnowledge, Idle
    <2> QED
      BY <1>3, <2>1, FollowStep
  <1> QED
    BY <1>5, <1>6

\* The edges of the ledger are listed.
LEMMA RegraphFollow ==
    ASSUME TypeOK, ShapeInv, FollowInv, NEW a \in Agents, RebuildGraph(a)
    PROVE  FollowInv'
  <1>1. /\ UNCHANGED <<ledger, conflicts, kg, kgConflicts, sources, edges, history>>
        /\ proc[a].pc = "cleared"
    BY DEF RebuildGraph, facts, indexes
  <1>2. proc \in [Agents -> Process] /\ proc[a] \in Process
    BY TypeParts DEF ProcessesOK
  <1>3. \A b \in Agents \ {a} : proc'[b] = proc[b]
    BY OthersStay DEF Step
  <1>4. LedgerEdges = FactEdges(Stored, conflicts)
    <2>1. {c \in conflicts : c[1] \in Stored} = conflicts
      BY DEF ShapeInv
    <2> QED
      BY <2>1 DEF LedgerEdges, FactEdges
  <1>5. /\ proc'[a].pc = "regraphing" /\ proc'[a].todo = FactEdges(Stored, conflicts)
        /\ proc'[a].rebuild = proc[a].rebuild /\ proc'[a].alone = proc[a].alone
    BY <1>2, <1>4 DEF RebuildGraph, Process
  <1>6. Stored' = Stored /\ Asserted' = Asserted
    BY <1>1, SameTables
  <1>7. Pending(a) => Pending(a)' /\ proc[a].rebuild
    <2> SUFFICES ASSUME Pending(a) PROVE Pending(a)' /\ proc[a].rebuild
      OBVIOUS
    <2>1. edges = {} /\ Asserted = {} /\ kgConflicts = {} /\ sources = {} /\ proc[a].rebuild
      BY <1>1 DEF Pending
    <2>2. edges' \cup proc'[a].todo = FactEdges(Stored', conflicts')
                                      \cup KnowledgeEdges(Asserted', kgConflicts')
      BY <1>1, <1>5, <1>6, <2>1, NoEdges
    <2> QED
      BY <1>1, <1>5, <1>6, <2>1, <2>2 DEF Pending, Before
  <1>8. proc[a].pc # "idle"
    BY <1>1
  <1>9. /\ proc[a].alone /\ (proc[a].rebuild \/ history # "unknown") => Pending(a)'
        /\ proc[a].alone /\ history # "unknown" => proc[a].rebuild
    BY <1>7, <1>8, WhatIsPending
  <1> QED
    BY <1>1, <1>3, <1>5, <1>8, <1>9, FollowStep

\* list_facts returns every fact.
LEMMA ListingsAreWhole ==
    ASSUME NEW s \in Listings
    PROVE  {s[i] : i \in DOMAIN s} = Stored
  <1>1. IsFiniteSet(Stored) /\ Cardinality(Stored) \in Nat
    BY FactAssumption, FS_Subset, FS_CardinalityType DEF Stored
  <1> DEFINE n == Cardinality(Stored)
  <1>2. s \in [1 .. n -> Stored] /\ \A i, j \in 1 .. n : i < j => s[i] # s[j]
    BY DEF Listings
  <1>3. \A i, j \in 1 .. n : s[i] = s[j] => i = j
    BY <1>1, <1>2
  <1>4. s \in Injection(1 .. n, Stored)
    BY <1>2, <1>3 DEF Injection, IsInjective
  <1>5. IsFiniteSet(1 .. n) /\ Cardinality(1 .. n) = n
    BY <1>1, FS_Interval
  <1>6. s \in Surjection(1 .. n, Stored)
    BY <1>1, <1>4, <1>5, FS_Injection
  <1>7. DOMAIN s = 1 .. n /\ \A f \in Stored : \E i \in 1 .. n : s[i] = f
    BY <1>2, <1>6 DEF Surjection
  <1> QED
    BY <1>2, <1>7

\* The facts are listed, or there are none and the rebuild is over.
LEMMA ListFollow ==
    ASSUME TypeOK, ShapeInv, FollowInv, NEW a \in Agents, ListFacts(a)
    PROVE  FollowInv'
  <1>1. /\ UNCHANGED <<ledger, conflicts, kg, kgConflicts, sources, edges>>
        /\ proc[a].pc = "regraphing" /\ proc[a].todo = {}
    BY DEF ListFacts, facts, indexes
  <1>2. proc \in [Agents -> Process] /\ proc[a] \in Process
    BY TypeParts DEF ProcessesOK
  <1>3. \A b \in Agents \ {a} : proc'[b] = proc[b]
    BY OthersStay DEF Step
  <1>4. /\ Stored' = Stored /\ Asserted' = Asserted
        /\ \A f \in Facts : Read(f)' = Read(f)
    BY <1>1, SameTables
  <1>5. PICK s \in Listings :
           IF s = <<>> THEN Finished(a)
           ELSE /\ proc' = [proc EXCEPT ![a].pc = "indexing",
                                        ![a].queue = [i \in DOMAIN s |-> Read(s[i])]]
                /\ UNCHANGED history
    BY DEF ListFacts
  <1>6. {s[i] : i \in DOMAIN s} = Stored /\ Stored \subseteq Facts
    BY ListingsAreWhole DEF Stored
  <1>7. ASSUME Pending(a)
        PROVE  /\ edges = FactEdges(Stored, conflicts) \cup KnowledgeEdges(Asserted, kgConflicts)
               /\ Asserted = {} /\ kgConflicts = {} /\ sources = {} /\ proc[a].rebuild
    BY <1>1, <1>7 DEF Pending
  <1>8. proc[a].pc # "idle"
    BY <1>1
  <1>9. CASE s = <<>>
    <2>1. /\ proc'[a].pc = "idle"
          /\ history' = IF proc[a].rebuild /\ proc[a].alone THEN "rebuilt" ELSE history
      BY <1>2, <1>5, <1>9 DEF Finished, Idle
    <2>2. Stored = {}
      BY <1>6, <1>9
    <2>3. ASSUME Pending(a)
          PROVE  Followed'
      <3>1. \A f \in Facts : kg'[f].status # "active"
        BY <1>1, <1>7, <2>3 DEF Asserted
      <3> QED
        BY <1>1, <1>4, <1>7, <2>2, <2>3, <3>1 DEF Followed, ActiveBut
    <2>4. /\ proc[a].alone /\ history' # "unknown" => Followed'
          /\ proc[a].alone => history' # "sequential"
      BY <1>7, <1>8, <2>1, <2>3, WhatIsPending
    <2>5. history' = history \/ (proc[a].alone /\ proc[a].rebuild /\ history' = "rebuilt")
      BY <2>1
    <2> QED
      BY <1>3, <1>8, <2>1, <2>4, <2>5, FollowStep
  <1>10. CASE s # <<>>
    <2> DEFINE queue == [i \in DOMAIN s |-> Read(s[i])]
    <2>1. PICK q : q = queue
      OBVIOUS
    <2>2. /\ proc'[a].pc = "indexing" /\ proc'[a].queue = q /\ proc'[a].todo = {}
          /\ proc'[a].rebuild = proc[a].rebuild /\ proc'[a].alone = proc[a].alone
          /\ history' = history
      BY <1>1, <1>2, <1>5, <1>10, <2>1 DEF Process
    <2>3. DOMAIN q = DOMAIN s /\ \A i \in DOMAIN q : q[i] = Read(s[i]) /\ q[i].fact = s[i]
      BY <2>1 DEF Read
    <2>4. Queued(a)' = Stored
      BY <1>6, <2>2, <2>3 DEF Queued
    <2>5. q # <<>>
      <3>1. Cardinality(Stored) \in Nat /\ s \in [1 .. Cardinality(Stored) -> Stored]
        BY FactAssumption, FS_Subset, FS_CardinalityType DEF Listings, Stored
      <3>2. Cardinality(Stored) # 0
        BY <1>10, <3>1
      <3>3. DOMAIN q # {}
        BY <2>3, <3>1, <3>2
      <3> QED
        BY <3>3
    <2>6. Pending(a) => Pending(a)'
      <3> SUFFICES ASSUME Pending(a) PROVE Pending(a)'
        OBVIOUS
      <3>1. /\ edges' \cup proc'[a].todo = FactEdges(Stored', conflicts')
                                           \cup KnowledgeEdges(Asserted', kgConflicts')
            /\ Stored' = Asserted' \cup Queued(a)' /\ sources' = Asserted'
            /\ proc[a].rebuild
        BY <1>1, <1>4, <1>7, <2>2, <2>4
      <3>2. (\A i \in DOMAIN proc[a].queue : proc[a].queue[i] = Read(proc[a].queue[i].fact))'
        BY <1>1, <2>2, <2>3 DEF Read
      <3>3. ActiveBut({Head1(a).fact} \cup Head1(a).sups)'
        BY <1>1, <1>7 DEF ActiveBut, Asserted
      <3> QED
        BY <2>2, <2>5, <3>1, <3>2, <3>3 DEF Pending, Before
    <2>7. /\ proc[a].alone /\ (proc[a].rebuild \/ history # "unknown") => Pending(a)'
          /\ proc[a].alone /\ history # "unknown" => proc[a].rebuild
      BY <1>7, <1>8, <2>6, WhatIsPending
    <2> QED
      BY <1>3, <1>8, <2>2, <2>7, FollowStep
  <1> QED
    BY <1>9, <1>10

\* An abandoned call leaves an unknown history; an assertion is gone only if the
\* process was not alone.
LEMMA BreakFollow ==
    ASSUME TypeOK, ShapeInv, FollowInv, NEW a \in Agents, AssertionGone(a) \/ Abandon(a)
    PROVE  FollowInv'
  <1>1. \A b \in Agents \ {a} : proc'[b] = proc[b]
    BY OthersStay DEF Step
  <1>2. proc \in [Agents -> Process]
    BY TypeParts DEF ProcessesOK
  <1>3. proc'[a].pc = "idle" /\ proc[a].pc # "idle"
    BY <1>2 DEF AssertionGone, Abandon, Idle, Busy
  <1>4. CASE Abandon(a)
    BY <1>1, <1>3, <1>4, FollowStep DEF Abandon
  <1>5. CASE AssertionGone(a)
    <2>1. /\ history' = history /\ proc[a].pc = "asserted" /\ Head1(a).fact \notin Asserted
      BY <1>5 DEF AssertionGone
    <2>2. proc[a].alone => history = "unknown"
      BY <1>3, <2>1, WhatIsPending DEF Pending
    <2> QED
      BY <1>1, <1>3, <2>1, <2>2, FollowStep
  <1> QED
    BY <1>4, <1>5

\* Calls that begin inside another's are not alone, nor is that one any more.
LEMMA StartFollow ==
    ASSUME TypeOK, FollowInv, NEW a \in Agents, NEW p \in Process, Started(a, p), Overlapping,
           p.pc # "idle",
           /\ proc'[a].pc = p.pc /\ proc'[a].rebuild = p.rebuild /\ Busy = {} =>
               /\ p.rebuild \/ history # "unknown" => Pending(a)'
               /\ ~p.rebuild /\ history = "sequential" => Repeating(a)'
    PROVE  FollowInv'
  <1>1. proc \in [Agents -> Process]
    BY TypeParts DEF ProcessesOK
  <1>2. ASSUME NEW r \in Process, NEW flag \in BOOLEAN
        PROVE  LET q == [r EXCEPT !.alone = flag] IN
               q.alone = flag /\ q.pc = r.pc /\ q.rebuild = r.rebuild
    BY DEF Process
  <1>3. /\ proc'[a] = [p EXCEPT !.alone = Busy = {}]
        /\ \A b \in Agents \ {a} : proc'[b] = [proc[b] EXCEPT !.alone = FALSE]
    BY DEF Started
  <1>4. /\ proc'[a].alone = (Busy = {}) /\ proc'[a].pc = p.pc
        /\ proc'[a].rebuild = p.rebuild
    <2> DEFINE flag == Busy = {}
    <2>1. flag \in BOOLEAN /\ proc'[a] = [p EXCEPT !.alone = flag]
      BY <1>3
    <2> HIDE DEF flag
    <2>2. proc'[a].alone = flag /\ proc'[a].pc = p.pc /\ proc'[a].rebuild = p.rebuild
      BY <1>2, <2>1
    <2> QED
      BY <2>2 DEF flag
  <1>5. ASSUME NEW b \in Agents \ {a}
        PROVE  ~proc'[b].alone /\ proc'[b].pc = proc[b].pc
    <2>1. proc[b] \in Process
      BY <1>1
    <2>2. proc'[b] = [proc[b] EXCEPT !.alone = FALSE]
      BY <1>3
    <2> QED
      BY <1>2, <2>1, <2>2
  <1>6. CASE Busy # {}
    <2>1. history' = "unknown" /\ \A b \in Agents : ~proc'[b].alone
      BY <1>4, <1>5, <1>6 DEF Overlapping
    <2> QED
      BY <2>1 DEF FollowInv
  <1>7. CASE Busy = {}
    <2>1. history' = history /\ \A b \in Agents \ {a} : proc'[b].pc = "idle"
      BY <1>5, <1>7 DEF Overlapping, Busy
    <2>2. Only(a)' /\ proc'[a].pc # "idle" /\ proc'[a].alone
      BY <1>4, <1>7, <2>1 DEF Only
    <2>3. /\ p.rebuild \/ history # "unknown" => Pending(a)'
          /\ ~p.rebuild /\ history = "sequential" => Repeating(a)'
      BY <1>4, <1>7
    <2> QED
      BY <1>4, <2>1, <2>2, <2>3 DEF FollowInv
  <1> QED
    BY <1>6, <1>7

LEMMA AddFollow ==
    ASSUME TypeOK, FollowInv, NEW a \in Agents, NEW f \in Facts, NEW sups \in SUBSET Facts,
           NEW rank \in Ranks, AddFact(a, f, sups, rank)
    PROVE  FollowInv'
  <1> DEFINE todo == {<<"fact", f, f>>} \cup {<<"fact_conflict", f, o>> : o \in sups}
             p == [Idle EXCEPT !.pc = "adding", !.fact = f, !.sups = sups, !.rank = rank,
                               !.todo = todo]
  <1>1. todo = FactEdges({f}, With(f, sups)) /\ todo \subseteq Edge
    <2>1. todo \subseteq Edge
      BY DEF Edge
    <2> QED
      BY <2>1, EdgesOfOne
  <1>2. /\ UNCHANGED <<ledger, conflicts, kg, kgConflicts, sources, edges>>
        /\ Started(a, p) /\ Overlapping
    BY DEF AddFact, indexes
  <1>3. Stored' = Stored /\ Asserted' = Asserted
    BY <1>2, SameTables
  <1>4. p \in Process /\ p.pc = "adding" /\ ~p.rebuild /\ p.fact = f /\ p.sups = sups
        /\ p.todo = todo
    <2> HIDE DEF todo
    <2> QED
      BY <1>1, IdleIsProcess DEF Process, Places, Idle
  <1> HIDE DEF todo
  <1>5. proc'[a].fact = f /\ proc'[a].sups = sups /\ proc'[a].todo = todo
    <2> DEFINE flag == Busy = {}
    <2>1. flag \in BOOLEAN /\ proc'[a] = [p EXCEPT !.alone = flag]
      BY <1>2 DEF Started
    <2> HIDE DEF flag, p
    <2> QED
      BY <1>4, <2>1 DEF Process
  <1> HIDE DEF p
  <1>6. ASSUME proc'[a].pc = p.pc, proc'[a].rebuild = p.rebuild, Busy = {}
        PROVE  /\ history # "unknown" => Pending(a)'
               /\ history = "sequential" => Repeating(a)'
    <2>1. \A b \in Agents : proc[b].pc = "idle"
      BY <1>6 DEF Busy
    <2>2. ASSUME history # "unknown"
          PROVE  Pending(a)'
      <3>1. Followed
        BY <2>1, <2>2 DEF FollowInv
      <3>2. FactEdges(Stored \cup {f}, conflicts \cup With(f, sups)) =
                FactEdges(Stored, conflicts) \cup FactEdges({f}, With(f, sups))
        BY DEF FactEdges
      <3>3. edges' \cup proc'[a].todo =
                FactEdges(Stored' \cup {f}, conflicts' \cup With(f, sups))
                \cup KnowledgeEdges(Asserted', kgConflicts')
        <4>1. edges = FactEdges(Stored, conflicts) \cup KnowledgeEdges(Asserted, kgConflicts)
          BY <3>1 DEF Followed
        <4>2. /\ edges' = edges /\ conflicts' = conflicts /\ kgConflicts' = kgConflicts
              /\ proc'[a].todo = FactEdges({f}, With(f, sups))
          BY <1>1, <1>2, <1>5
        <4> QED
          BY <1>3, <3>2, <4>1, <4>2
      <3>4. Asserted' = Stored' /\ sources' = Asserted' /\ ActiveBut({})'
        BY <1>2, <1>3, <3>1 DEF Followed, ActiveBut
      <3> QED
        BY <1>4, <1>5, <1>6, <3>3, <3>4 DEF Pending, Before
    <2>3. ASSUME history = "sequential"
          PROVE  Repeating(a)'
      <3>1. RepeatsBut({})
        BY <2>1, <2>3 DEF FollowInv
      <3>2. RepeatsBut({})'
        BY <1>2, <1>3, <3>1 DEF RepeatsBut
      <3> QED
        BY <1>4, <1>6, <3>2 DEF Repeating, Before
    <2> QED
      BY <2>2, <2>3
  <1> QED
    BY <1>2, <1>4, <1>6, StartFollow

LEMMA RebuildFollow ==
    ASSUME TypeOK, FollowInv, NEW a \in Agents, Rebuild(a)
    PROVE  FollowInv'
  <1> DEFINE p == [Idle EXCEPT !.pc = "clearing", !.rebuild = TRUE]
  <1>1. p \in Process /\ p.pc = "clearing" /\ p.rebuild
    BY IdleIsProcess DEF Process, Places, Idle
  <1>2. Started(a, p) /\ Overlapping /\ edges' = {}
    BY DEF Rebuild
  <1> HIDE DEF p
  <1>3. ASSUME proc'[a].pc = p.pc, proc'[a].rebuild = p.rebuild
        PROVE  Pending(a)'
    BY <1>1, <1>2, <1>3 DEF Pending, Before
  <1> QED
    BY <1>1, <1>2, <1>3, StartFollow

LEMMA LedgerFollowed == Spec => []FollowInv
  <1>1. Init => ShapeInv /\ FollowInv
    <2> SUFFICES ASSUME Init PROVE ShapeInv /\ FollowInv
      OBVIOUS
    <2>1. /\ Stored = {} /\ Asserted = {} /\ sources = {} /\ edges = {} /\ conflicts = {}
          /\ kgConflicts = {} /\ \A f \in Facts : kg[f].status = "absent"
      BY DEF Init, Stored, Asserted, Absent, NoAssertion
    <2>2. \A a \in Agents : proc[a].pc = "idle" /\ proc[a].todo = {}
      BY DEF Init, Idle
    <2>3. Followed /\ RepeatsBut({})
      BY <2>1, NoEdges DEF Followed, RepeatsBut, ActiveBut
    <2> QED
      BY <2>1, <2>2, <2>3 DEF ShapeInv, FollowInv
  <1>2. ASSUME TypeOK, ShapeInv, FollowInv, [Next]_vars PROVE ShapeInv' /\ FollowInv'
    <2>1. CASE UNCHANGED vars
      <3>1. UNCHANGED <<ledger, conflicts, kg, kgConflicts, sources, edges, proc, history>>
        BY <2>1 DEF vars, facts, indexes
      <3>2. Stored' = Stored /\ Asserted' = Asserted
        BY <3>1, SameTables
      <3>3. ShapeInv'
        BY <1>2, <3>1, <3>2 DEF ShapeInv
      <3>4. (Followed' <=> Followed) /\ (RepeatsBut({})' <=> RepeatsBut({}))
        BY <3>1, <3>2 DEF Followed, RepeatsBut, ActiveBut
      <3>5. ASSUME NEW a \in Agents
            PROVE  (Pending(a)' <=> Pending(a)) /\ (Repeating(a)' <=> Repeating(a))
                   /\ (Only(a)' <=> Only(a))
        <4>1. Head1(a)' = Head1(a) /\ Queued(a)' = Queued(a)
          BY <3>1 DEF Head1, Queued
        <4>2. Pending(a)' <=> Pending(a)
          BY <3>1, <3>2, <4>1 DEF Pending, ActiveBut, Read
        <4>3. Repeating(a)' <=> Repeating(a)
          BY <3>1, <3>2, <4>1 DEF Repeating, RepeatsBut, JustAdded
        <4> QED
          BY <3>1, <4>2, <4>3 DEF Only
      <3> QED
        BY <1>2, <3>1, <3>3, <3>4, <3>5 DEF FollowInv
    <2>2. CASE Next
      <3>1. PICK a \in Agents :
               \/ \E f \in Facts, sups \in SUBSET Facts, rank \in Ranks :
                     AddFact(a, f, sups, rank)
               \/ Rebuild(a) \/ Step(a) \/ Abandon(a)
        BY <2>2 DEF Next
      <3>2. ShapeInv'
        BY <1>2, <3>1, StepShape, BeginShape
      <3>3. CASE Step(a)
        <4>1. CASE \E e \in proc[a].todo : WriteEdge(a, e)
          BY <1>2, <3>2, <4>1, EdgeFollow
        <4>2. CASE Commit(a) \/ Get(a) \/ WriteAssertion(a) \/ Indexed(a)
          BY <1>2, <3>2, <4>2, CommitFollow, GetFollow, AssertionFollow, IndexedFollow
        <4>3. CASE LookUp(a) \/ ReadEntity(a) \/ WriteEntity(a)
          BY <1>2, <3>2, <4>3, EntityFollow
        <4>4. CASE ClearKnowledge(a) \/ RebuildGraph(a) \/ ListFacts(a) \/ AssertionGone(a)
          BY <1>2, <3>2, <4>4, ClearFollow, RegraphFollow, ListFollow, BreakFollow
        <4> QED
          BY <3>3, <4>1, <4>2, <4>3, <4>4 DEF Step
      <3> QED
        BY <1>2, <3>1, <3>2, <3>3, AddFollow, RebuildFollow, BreakFollow
    <2> QED
      BY <1>2, <2>1, <2>2
  <1> QED
    BY <1>1, <1>2, LedgerTypeCorrect, PTL DEF Spec

\* When nobody is in a call, and whoever wrote was alone since the start or since
\* the last rebuild that came to its end, every fact has its assertion, what the
\* ledger calls superseded the knowledge graph never calls active, the graph has
\* exactly the edges of both and the entity lists each memory: add_fact and
\* index_fact keep them so commit by commit, and rebuild_indexes makes them so
\* whatever crashes and races had left.
THEOREM IndexesAreTheLedger == Spec => []IndexesFollowLedger
  <1>1. FollowInv => IndexesFollowLedger
    BY DEF FollowInv, IndexesFollowLedger, Settled, Busy, Followed, ActiveBut, FactEdges,
           KnowledgeEdges
  <1> QED
    BY <1>1, LedgerFollowed, PTL

\* A knowledge graph that saw the facts one by one repeats statuses and heirs of
\* the ledger, however they are added again and supersede each other (index_fact
\* reads the fact back and outdates the assertions of those it replaced).
THEOREM KnowledgeIsTheLedger == Spec => []KnowledgeRepeatsLedger
  <1>1. FollowInv => KnowledgeRepeatsLedger
    BY DEF FollowInv, KnowledgeRepeatsLedger, Busy, RepeatsBut
  <1> QED
    BY <1>1, LedgerFollowed, PTL

=============================================================================
