--------------------------- MODULE Consolidation ---------------------------
(***************************************************************************)
(* Ingestion with consolidation: workers that compare a new memory with    *)
(* the active ones and merge, supersede or link it                         *)
(* (internal/services/ingestion/service.go,                                *)
(* internal/services/consolidation), and the scheduler's compaction job,   *)
(* which runs the same comparison over rows it listed earlier              *)
(* (internal/bootstrap/scheduler.go).  Nobody locks a row: every write is  *)
(* an Upsert of a whole row built from a copy listed before.               *)
(*                                                                         *)
(* The content of a memory is abstracted to Rel, what the similarity tests *)
(* decide for two contents.  A request that fails is redelivered by the    *)
(* queue (JobQueue) and starts again with new ids: an id is a request with *)
(* the number of the attempt, and names both the event and the memory.     *)
(***************************************************************************)
EXTENDS Integers, FiniteSets, FiniteSetsExt

CONSTANTS
    Requests,     \* ingest requests, one memory each
    Rel,          \* [Requests -> [Requests -> Actions]]: what Consolidate does
                  \* with a neighbour and a candidate of such contents
    MaxTries,     \* attempts the queue makes
    ListCap,      \* the cap of MemoryStore.List
    MaxBusy,      \* requests and compactions under way at the same time
    Compactions,  \* how often compaction runs
    MaxFaults,    \* bound on failed calls and dead processes
    None

Actions == {"merged", "superseded", "contradicts", "new"}

\* Similar is symmetric, subjectOverlap is not: a contradiction may be seen from
\* one side alone.  A content is a duplicate of itself, unless it has no word of
\* more than two letters: then it is like nothing, itself included.
ASSUME RelAssumption ==
    /\ Rel \in [Requests -> [Requests -> Actions]]
    /\ \A r, s \in Requests : Rel[r][s] \in {"merged", "superseded"} => Rel[s][r] = Rel[r][s]
    /\ \A r \in Requests : \/ Rel[r][r] = "merged"
                            \/ \A s \in Requests : Rel[r][s] = "new" /\ Rel[s][r] = "new"

ASSUME ConsolidationAssumption ==
    /\ IsFiniteSet(Requests)
    /\ MaxTries \in Nat \ {0}
    /\ {ListCap, Compactions} \subseteq Nat
    /\ None \notin Requests \X (1..MaxTries)

VARIABLES
    rows,       \* the memories table
    edges,      \* supersedes and contradicts edges of the graph store
    task,       \* each request: its attempt, program counter and local copies
    answer,     \* the memory id Ingest answered with
    compactor,  \* the compaction job
    left,       \* compactions left to run
    faults,     \* faults so far
    overlapped  \* whether two requests or compactions were ever under way at once

vars == <<rows, edges, task, answer, compactor, left, faults, overlapped>>

Ids == Requests \X (1..MaxTries)
NoRow == [status |-> "absent", sources |-> {}, heir |-> None]
Row == [status : {"absent", "active", "superseded"},
        sources : SUBSET Ids,
        heir : Ids \cup {None}]
NoCopies == [n \in {} |-> NoRow]
NewMemory(id) == [status |-> "active", sources |-> {id}, heir |-> None]
Idle == [pc |-> "idle", todo |-> NoCopies, cand |-> None, seen |-> NoCopies]

Init == /\ rows = [id \in Ids |-> NoRow]
        /\ edges = {}
        /\ task = [r \in Requests |-> [pc |-> "waiting", try |-> 1,
                                       seen |-> NoCopies, out |-> <<>>]]
        /\ answer = [r \in Requests |-> None]
        /\ compactor = Idle
        /\ left = Compactions
        /\ faults = 0
        /\ overlapped = FALSE

-----------------------------------------------------------------------------
(* consolidation.Service.Consolidate, in the two steps between which other  *)
(* processes run: the list of neighbours, and what is done with the first   *)
(* that matches.                                                            *)

Active == {id \in Ids : rows[id].status = "active"}

\* Copies of active rows, at most ListCap of them.  The order of the list, by
\* importance or of a Go map, is left open.
Listings == {[n \in L |-> rows[n]] :
                L \in kSubset(IF Cardinality(Active) <= ListCap
                              THEN Cardinality(Active) ELSE ListCap, Active)}

\* Mutant: a retry reuses the ids of the first attempt.
IdReused(r) == <<r, 1>>
Id(r) == <<r, task[r].try>>

\* The first related neighbour of the list decides, whichever it is.
Verdicts(id, seen) ==
    LET related == {n \in DOMAIN seen \ {id} : Rel[n[1]][id[1]] # "new"}
    IN  IF related = {} THEN {[action |-> "new", neighbor |-> None]}
        ELSE {[action |-> Rel[n[1]][id[1]], neighbor |-> n] : n \in related}

\* Mutant: the merged row keeps only its own source events.
MergeForgetting(row, sources) == row
Merge(row, sources) == [row EXCEPT !.sources = @ \cup sources]

\* AppendVersion keeps "superseded by <id>" in the row.
Supersede(row, id) == [row EXCEPT !.status = "superseded", !.heir = id]

\* Mutant: the row does not say what superseded it.
UpdatedNoHeir(v, id, sources, seen) ==
    CASE v.action = "merged" ->
            [rows EXCEPT ![v.neighbor] = Merge(seen[v.neighbor], sources)]
      [] v.action = "superseded" ->
            [rows EXCEPT ![v.neighbor] = Supersede(seen[v.neighbor], None)]
      [] OTHER -> rows

\* Consolidate's Upsert of the neighbour.
Updated(v, id, sources, seen) ==
    CASE v.action = "merged" ->
            [rows EXCEPT ![v.neighbor] = Merge(seen[v.neighbor], sources)]
      [] v.action = "superseded" ->
            [rows EXCEPT ![v.neighbor] = Supersede(seen[v.neighbor], id)]
      [] OTHER -> rows

\* linkRelation: from the candidate to the neighbour; its error is dropped.
Linked(v, id) ==
    IF v.action \in {"superseded", "contradicts"}
    THEN {edges, edges \cup {<<id, v.action, v.neighbor>>}}
    ELSE {edges}

-----------------------------------------------------------------------------
(* ingestion.Service.Ingest. *)

UnderWay == {r \in Requests : task[r].pc \in {"listed", "resolved", "stored"}}
Busy == Cardinality(UnderWay) + (IF compactor.pc = "idle" THEN 0 ELSE 1)

\* Events.Append, Extract and the list of neighbours.
Begin(r) ==
    /\ task[r].pc = "waiting"
    /\ Busy < MaxBusy
    /\ \E seen \in Listings :
          task' = [task EXCEPT ![r].pc = "listed", ![r].seen = seen]
    /\ overlapped' = (overlapped \/ Busy > 0)
    /\ UNCHANGED <<rows, edges, answer, compactor, left, faults>>

\* Mutant: the merged candidate is stored beside the row it was merged into.
ResultCandidate(v, id, seen) == <<id, NewMemory(id)>>
\* Mutant: whatever the action, the neighbour is what is stored.
ResultNeighbor(v, id, seen) ==
    IF v.action = "new" THEN <<id, NewMemory(id)>>
    ELSE <<v.neighbor, Merge(seen[v.neighbor], {id})>>
\* Result.Memory: the merged neighbour, or the candidate.
Result(v, id, seen) ==
    IF v.action = "merged"
    THEN <<v.neighbor, Merge(seen[v.neighbor], {id})>>
    ELSE <<id, NewMemory(id)>>

Resolve(r) ==
    /\ task[r].pc = "listed"
    /\ \E v \in Verdicts(Id(r), task[r].seen) :
          /\ rows' = Updated(v, Id(r), {Id(r)}, task[r].seen)
          /\ edges' \in Linked(v, Id(r))
          /\ task' = [task EXCEPT ![r].pc = "resolved", ![r].seen = NoCopies,
                                  ![r].out = Result(v, Id(r), task[r].seen)]
    /\ UNCHANGED <<answer, compactor, left, faults, overlapped>>

\* Ingest's own Upsert: for a merge it writes the same row once more.
Store(r) ==
    /\ task[r].pc = "resolved"
    /\ rows' = [rows EXCEPT ![task[r].out[1]] = task[r].out[2]]
    /\ task' = [task EXCEPT ![r].pc = "stored"]
    /\ UNCHANGED <<edges, answer, compactor, left, faults, overlapped>>

Answer(r) ==
    /\ task[r].pc = "stored"
    /\ answer' = [answer EXCEPT ![r] = task[r].out[1]]
    /\ task' = [task EXCEPT ![r].pc = "done", ![r].out = <<>>]
    /\ UNCHANGED <<rows, edges, compactor, left, faults, overlapped>>

\* A store, the embedder or the graph returns an error, or the process dies:
\* what was written stays, and the queue redelivers while it has attempts left.
Fail(r) ==
    /\ r \in UnderWay
    /\ faults < MaxFaults
    /\ faults' = faults + 1
    /\ task' = [task EXCEPT ![r] =
                  IF @.try < MaxTries
                  THEN [pc |-> "waiting", try |-> @.try + 1, seen |-> NoCopies, out |-> <<>>]
                  ELSE [pc |-> "failed", try |-> @.try, seen |-> NoCopies, out |-> <<>>]]
    /\ UNCHANGED <<rows, edges, answer, compactor, left, overlapped>>

-----------------------------------------------------------------------------
(* The compaction job: a list taken once, then Consolidate on every row of  *)
(* it, as that row was when it was listed.  The advisory lock keeps         *)
(* schedulers from compacting at the same time.                             *)

CompactBegin ==
    /\ compactor.pc = "idle"
    /\ left > 0
    /\ Busy < MaxBusy
    /\ left' = left - 1
    /\ \E todo \in Listings : compactor' = [Idle EXCEPT !.pc = "next", !.todo = todo]
    /\ overlapped' = (overlapped \/ Busy > 0)
    /\ UNCHANGED <<rows, edges, task, answer, faults>>

CompactNext ==
    /\ compactor.pc = "next"
    /\ \E id \in DOMAIN compactor.todo, seen \in Listings :
          compactor' = [compactor EXCEPT !.pc = "listed", !.cand = id, !.seen = seen]
    /\ UNCHANGED <<rows, edges, task, answer, left, faults, overlapped>>

CompactResolve ==
    LET id == compactor.cand
        rest == DOMAIN compactor.todo \ {id}
    IN
    /\ compactor.pc = "listed"
    /\ \E v \in Verdicts(id, compactor.seen) :
          /\ rows' = Updated(v, id, compactor.todo[id].sources, compactor.seen)
          /\ edges' \in Linked(v, id)
    /\ compactor' = [pc |-> "next", cand |-> None, seen |-> NoCopies,
                     todo |-> [n \in rest |-> compactor.todo[n]]]
    /\ UNCHANGED <<task, answer, left, faults, overlapped>>

\* The list is used up.
CompactEnd ==
    /\ compactor.pc = "next"
    /\ DOMAIN compactor.todo = {}
    /\ compactor' = Idle
    /\ UNCHANGED <<rows, edges, task, answer, left, faults, overlapped>>

\* An error ends the job, and so does the death of the scheduler.
CompactFail ==
    /\ compactor.pc # "idle"
    /\ faults < MaxFaults
    /\ faults' = faults + 1
    /\ compactor' = Idle
    /\ UNCHANGED <<rows, edges, task, answer, left, overlapped>>

Compaction == \/ CompactBegin \/ CompactNext \/ CompactResolve
              \/ CompactEnd \/ CompactFail

RequestStep(r) == Begin(r) \/ Resolve(r) \/ Store(r) \/ Answer(r) \/ Fail(r)

Next == (\E r \in Requests : RequestStep(r)) \/ Compaction

Spec == Init /\ [][Next]_vars

-----------------------------------------------------------------------------
(* Properties. *)

Quiet == UnderWay = {} /\ compactor.pc = "idle"
         /\ \A r \in Requests : task[r].pc = "done"

\* Where the statement of an id went: to the row that superseded its row, or,
\* when this attempt left no row, to the row its request was answered with.
Successor(id) ==
    IF rows[id].status = "absent" THEN answer[id[1]] ELSE rows[id].heir

\* Ids from which Successor never leads to an active row.
Forgotten(D) == /\ D \cap Active = {}
                /\ \A id \in D : Successor(id) \in D \cup {None}

\* Once all requests are done, every one of them is still known to the system:
\* the row it was answered with is active, or "superseded by" leads, over any
\* number of rows, to one that is.
EveryFactLives ==
    Quiet => \A D \in SUBSET Ids :
                 Forgotten(D) => \A r \in Requests : answer[r] \notin D

\* Ingestion alone keeps every fact: concurrent writers overwrite each other's
\* rows, attempts die half way, and no statement vanishes with them.
IngestionKeepsFacts == left = Compactions => EveryFactLives

\* "Superseded by" is a history: as long as no compaction compares stored rows
\* with each other, following it never leads back to where it started, because
\* a row is superseded only by one that is not stored yet.
SupersessionIsHistory ==
    left = Compactions =>
        \A C \in SUBSET {e[1] : e \in edges} :
            C # {} => \E id \in C : \A n \in C : <<id, "superseded", n>> \notin edges

\* Consolidation preserves provenance: the row a request was answered with
\* names the event of the attempt that answered it.
SourcesKept ==
    \A r \in Requests : answer[r] # None => Id(r) \in rows[answer[r]].sources

\* A superseded version stays superseded: one process at a time, nothing
\* brings it back to life.
SupersededStays ==
    [][~overlapped => \A id \in Ids : rows[id].status = "superseded"
                                          => rows'[id].status = "superseded"]_vars

\* Stored contents that one content is related to are copies or versions of each
\* other.
Kept == {id \in Ids : rows[id] # NoRow}
Known == {id[1] : id \in Kept}
CoherentOn(K) ==
    \A r, s, t \in K :
        Rel[s][r] # "new" /\ Rel[t][r] # "new" => Rel[s][t] \in {"merged", "superseded"}
Coherent == CoherentOn(Known)

\* Retries neither lose nor multiply: as long as no two attempts were under way
\* at once, whatever failed half way and whatever a compaction did in between,
\* the sources are kept, and the attempts of one request never leave two active
\* rows.  A retry does store a second one if it finds other rows before its own:
\* among unlike contents, or when the rows there were exceed the list, which is
\* cut (service.go:40-45); and if its content has no word to be found by
\* (merge.go:37).
AloneRetriesMerge ==
    ~overlapped => /\ SourcesKept
                   /\ Coherent /\ Cardinality(Kept) <= ListCap + 1 =>
                         \A n, m \in Active :
                            n[1] = m[1] /\ Rel[n[1]][n[1]] = "merged" => n = m
=============================================================================
