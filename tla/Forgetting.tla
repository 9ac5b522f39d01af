----------------------------- MODULE Forgetting -----------------------------
(***************************************************************************)
(* Forgetting against everything that runs beside it: the memories table   *)
(* (internal/adapters/storage/postgres/memory_store.go), deletion,         *)
(* redaction and retention sweeps (internal/services/forgetting), merges   *)
(* (internal/services/consolidation), vector indexing                      *)
(* (internal/services/embedding/service.go) and hybrid retrieval           *)
(* (internal/services/retrieval).                                          *)
(*                                                                         *)
(* Every store call is one step.  Between two steps of a task any other    *)
(* task may run: API requests are goroutines, scheduler jobs are another   *)
(* process, and no call spans a transaction over two steps.  A memory's    *)
(* content is abstracted to whether it still holds raw PII.                *)
(***************************************************************************)
EXTENDS Naturals, FiniteSets

CONSTANTS
    Mem,        \* memory ids
    Tasks,      \* concurrent requests and jobs
    ListCap,    \* NormalizedLimit's upper bound (50 in the code)
    Rank,       \* importance of each memory, all different
    Ops,        \* the operations tasks may start
    NoRow,      \* no such row, or no copy of it
    NoMem       \* the task is not about one memory

ASSUME ForgettingAssumption ==
    /\ ListCap \in Nat \ {0}
    /\ Rank \in [Mem -> Nat]
    /\ \A m, n \in Mem : Rank[m] = Rank[n] => m = n
    /\ NoMem \notin Mem

VARIABLES
    rows,       \* the memories table
    aged,       \* rows whose updated_at is older than the retention policy's TTL
    vectors,    \* what the vector index was computed from
    traces,     \* memory ids named by some stored retrieval trace
    receipts,   \* audit receipts appended, as <<action, id>>
    task,       \* the local state of each task
    forgotten,  \* deletions acknowledged to a caller
    redacted,   \* redactions acknowledged to a caller
    alive,      \* memories seen active since the task's retrieval began
    mishaps     \* what has gone other than planned so far: tasks overlapped,
                \* a call whose error is dropped had no effect

stores == <<rows, aged, vectors, traces, receipts>>
vars   == <<rows, aged, vectors, traces, receipts, task, forgotten, redacted, alive, mishaps>>

Row == [status : {"active", "expired", "deleted"}, raw : BOOLEAN]

ASSUME NoRowIsNoRow == NoRow \notin Row

Task == [op     : {"idle", "ingest", "delete", "redact", "merge", "sweep",
                   "reindex", "retrieve"},
         at     : {"start", "write", "rewrite", "index", "vectors", "traces", "receipt", "search", "check"},
         mem    : Mem \cup {NoMem},
         copy   : [Mem -> Row \cup {NoRow}],
         found  : SUBSET Mem,
         chosen : SUBSET Mem]

NoCopies == [m \in Mem |-> NoRow]

Idle == [op |-> "idle", at |-> "start", mem |-> NoMem, copy |-> NoCopies,
         found |-> {}, chosen |-> {}]

Copies(t) == {m \in Mem : task[t].copy[m] # NoRow}

Init == /\ rows      = [m \in Mem |-> NoRow]
        /\ aged    = {}
        /\ vectors   = [m \in Mem |-> "none"]
        /\ traces    = {}
        /\ receipts  = {}
        /\ task      = [t \in Tasks |-> Idle]
        /\ forgotten = {}
        /\ redacted  = {}
        /\ alive     = [t \in Tasks |-> {}]
        /\ mishaps   = {}

-----------------------------------------------------------------------------
(* MemoryStore. *)

HasStatus(m, s) == rows[m] # NoRow /\ rows[m].status = s

\* Get hides deleted rows, not expired ones.
Visible(m) == rows[m] # NoRow /\ rows[m].status # "deleted"

\* Memory.IsActive on the stored row.  Its valid_until test never decides here:
\* only Supersede sets valid_until, together with a status that is not active.
IsActive(m) == HasStatus(m, "active")

\* List filters on the status column alone, orders by importance and keeps
\* the first NormalizedLimit rows, whatever larger limit the caller asked for.
ListedAnyStatus == {m \in Mem : rows[m] # NoRow}   \* mutant: no status filter
Listed ==
    {m \in Mem : /\ HasStatus(m, "active")
                 /\ Cardinality({n \in Mem : /\ HasStatus(n, "active")
                                             /\ Rank[n] > Rank[m]}) < ListCap}

\* Get, then IsActive, as every retrieval channel does with an id.
FetchedAnyStatus(m) == Visible(m)                  \* mutant: no IsActive
FetchedActive(m) == Visible(m) /\ IsActive(m)

CopiesOf(S) == [m \in Mem |-> IF m \in S THEN rows[m] ELSE NoRow]

\* The whole row is overwritten: no version, status or existence test.  Every
\* caller sets updated_at to now.
Upsert(m, row) == /\ rows' = [rows EXCEPT ![m] = row]
                  /\ aged' = aged \ {m}

\* History, kept by every step: the memories that were active at some moment
\* of each running retrieval.
Watch == alive' = [t \in Tasks |->
    CASE task'[t].op # "retrieve" -> {}
      [] task[t].op = "retrieve"  -> alive[t] \cup {m \in Mem : IsActive(m)}
      [] OTHER                    -> {m \in Mem : IsActive(m)}]

Overlap == \E t, u \in Tasks : t # u /\ task'[t].op # "idle" /\ task'[u].op # "idle"
Note(lost) == mishaps' = mishaps \cup (IF Overlap THEN {"overlap"} ELSE {}) \cup lost

\* A step of task t.  When a call of it was lost, lost names what.
BecomeWith(t, record, lost) ==
    /\ task' = [task EXCEPT ![t] = record]
    /\ Watch
    /\ Note(lost)
Become(t, record) == BecomeWith(t, record, {})
Finish(t) == Become(t, Idle)
FinishWith(t, lost) == BecomeWith(t, Idle, lost)
CanStart(t, op) == task[t].op = "idle" /\ op \in Ops

\* A call whose error is thrown away: it takes effect or, silently, does not.
Outcomes == {{}, {"side store"}}
BestEffort(old, new, lost) == IF lost = {} THEN new ELSE old

-----------------------------------------------------------------------------
(* Ingestion of one memory under a fresh id, and vector indexing. *)

Ingest(t, m, raw) ==
    LET row == [status |-> "active", raw |-> raw] IN
    /\ CanStart(t, "ingest")
    /\ rows[m] = NoRow
    /\ Upsert(m, row)
    /\ Become(t, [Idle EXCEPT !.op = "ingest", !.at = "index", !.mem = m,
                              !.copy = [NoCopies EXCEPT ![m] = row]])
    /\ UNCHANGED <<vectors, traces, receipts, forgotten, redacted>>

Embedding(row) == IF row.raw THEN "raw" ELSE "masked"

\* IndexMemory / IndexMemories: vectors are computed from the copies the task
\* holds and upserted in one call, for ids that may be deleted by now.
IndexCopies(t) ==
    /\ task[t].at = "index"
    /\ vectors' = [m \in Mem |-> IF m \in Copies(t)
                                 THEN Embedding(task[t].copy[m])
                                 ELSE vectors[m]]
    /\ redacted' = IF task[t].op = "redact" THEN redacted \cup {task[t].mem}
                                            ELSE redacted
    /\ Finish(t)
    /\ UNCHANGED <<rows, aged, traces, receipts, forgotten>>

-----------------------------------------------------------------------------
(* forgetting.Service.Delete: the row, then three best-effort calls. *)

Delete(t, m) ==
    /\ CanStart(t, "delete")
    /\ rows[m] # NoRow
    /\ Upsert(m, [rows[m] EXCEPT !.status = "deleted"])
    /\ Become(t, [Idle EXCEPT !.op = "delete", !.at = "vectors", !.mem = m])
    /\ UNCHANGED <<vectors, traces, receipts, forgotten, redacted>>

\* Mutant: the vector index is left alone.
DeleteNoVectors(t) ==
    /\ task[t].at = "vectors"
    /\ Become(t, [task[t] EXCEPT !.at = "traces"])
    /\ UNCHANGED <<stores, forgotten, redacted>>

DeleteVectors(t) ==
    /\ task[t].at = "vectors"
    /\ \E lost \in Outcomes :
          /\ vectors' = BestEffort(vectors, [vectors EXCEPT ![task[t].mem] = "none"], lost)
          /\ BecomeWith(t, [task[t] EXCEPT !.at = "traces"], lost)
    /\ UNCHANGED <<rows, aged, traces, receipts, forgotten, redacted>>

DeleteTraces(t) ==
    /\ task[t].at = "traces"
    /\ \E lost \in Outcomes :
          /\ traces' = BestEffort(traces, traces \ {task[t].mem}, lost)
          /\ BecomeWith(t, [task[t] EXCEPT !.at = "receipt"], lost)
    /\ UNCHANGED <<rows, aged, vectors, receipts, forgotten, redacted>>

AppendReceipt(t) ==
    /\ task[t].at = "receipt"
    /\ \E lost \in Outcomes :
          /\ receipts' = BestEffort(receipts, receipts \cup {<<"delete", task[t].mem>>}, lost)
          /\ FinishWith(t, lost)
    /\ forgotten' = forgotten \cup {task[t].mem}
    /\ UNCHANGED <<rows, aged, vectors, traces, redacted>>

-----------------------------------------------------------------------------
(* Redactor.Redact: Get, mask and Upsert the copy, re-embed it. *)

Redact(t, m) ==
    /\ CanStart(t, "redact")
    /\ Visible(m)
    /\ Become(t, [Idle EXCEPT !.op = "redact", !.at = "write", !.mem = m,
                              !.copy = CopiesOf({m})])
    /\ UNCHANGED <<stores, forgotten, redacted>>

MaskedPartly(row) == row                           \* mutant: PII survives
Masked(row) == [row EXCEPT !.raw = FALSE]

WriteMasked(t) ==
    LET m == task[t].mem
        masked == Masked(task[t].copy[m])
    IN  /\ task[t].op = "redact" /\ task[t].at = "write"
        /\ IF task[t].copy[m].raw
           THEN /\ Upsert(m, masked)
                /\ Become(t, [task[t] EXCEPT !.at = "index", !.copy[m] = masked])
                /\ UNCHANGED redacted
           ELSE /\ redacted' = redacted \cup {m}
                /\ Finish(t)
                /\ UNCHANGED <<rows, aged>>
        /\ UNCHANGED <<vectors, traces, receipts, forgotten>>

-----------------------------------------------------------------------------
(* Consolidate's merge of a new candidate into memory m: the neighbour is
   taken from the listing, written back by the consolidator, written again by
   Ingest, and re-indexed (IndexCopies). *)

Merge(t, m) ==
    /\ CanStart(t, "merge")
    /\ m \in Listed
    /\ Become(t, [Idle EXCEPT !.op = "merge", !.at = "write", !.mem = m,
                              !.copy = CopiesOf({m})])
    /\ UNCHANGED <<stores, forgotten, redacted>>

WriteMerged(t) ==
    LET m == task[t].mem IN
    /\ task[t].op = "merge"
    /\ task[t].at \in {"write", "rewrite"}
    /\ Upsert(m, task[t].copy[m])
    /\ Become(t, [task[t] EXCEPT !.at = IF @ = "write" THEN "rewrite" ELSE "index"])
    /\ UNCHANGED <<vectors, traces, receipts, forgotten, redacted>>

-----------------------------------------------------------------------------
(* Sweeper.Sweep under a soft policy with a TTL: the listing is read once,
   then each copy older than the TTL is written back as expired.  In which
   order the copies are written is left open. *)

Sweep(t) ==
    /\ CanStart(t, "sweep")
    /\ Listed \cap aged # {}
    /\ Become(t, [Idle EXCEPT !.op = "sweep", !.at = "write",
                              !.copy = CopiesOf(Listed \cap aged)])
    /\ UNCHANGED <<stores, forgotten, redacted>>

ExpireCopy(t, m) ==
    LET rest == [task[t].copy EXCEPT ![m] = NoRow] IN
    /\ task[t].op = "sweep"
    /\ m \in Copies(t)
    /\ Upsert(m, [task[t].copy[m] EXCEPT !.status = "expired"])
    /\ Become(t, IF rest = NoCopies THEN Idle ELSE [task[t] EXCEPT !.copy = rest])
    /\ UNCHANGED <<vectors, traces, receipts, forgotten, redacted>>

\* The scheduler's reindex job: List, then one IndexMemories (IndexCopies).
Reindex(t) ==
    /\ CanStart(t, "reindex")
    /\ Listed # {}
    /\ Become(t, [Idle EXCEPT !.op = "reindex", !.at = "index",
                              !.copy = CopiesOf(Listed)])
    /\ UNCHANGED <<stores, forgotten, redacted>>

-----------------------------------------------------------------------------
(* Retrieve: text hits are rows; vector hits are ids, fetched again one by
   one; the selected ids are saved in a trace. *)

Retrieve(t) ==
    /\ CanStart(t, "retrieve")
    /\ \E hits \in SUBSET Listed :
          Become(t, [Idle EXCEPT !.op = "retrieve", !.at = "search", !.chosen = hits])
    /\ UNCHANGED <<stores, forgotten, redacted>>

VectorSearch(t) ==
    /\ task[t].at = "search"
    /\ Become(t, [task[t] EXCEPT !.at = "check",
                                 !.found = {m \in Mem : vectors[m] # "none"}])
    /\ UNCHANGED <<stores, forgotten, redacted>>

CheckHit(t, m) ==
    /\ task[t].at = "check"
    /\ m \in task[t].found
    /\ Become(t, [task[t] EXCEPT !.found = @ \ {m},
                                 !.chosen = IF FetchedActive(m) THEN @ \cup {m} ELSE @])
    /\ UNCHANGED <<stores, forgotten, redacted>>

SaveTrace(t) ==
    /\ task[t].at = "check"
    /\ task[t].found = {}
    /\ traces' = traces \cup task[t].chosen
    /\ Finish(t)
    /\ UNCHANGED <<rows, aged, vectors, receipts, forgotten, redacted>>

-----------------------------------------------------------------------------
\* A store call fails, the request is cancelled, or the process dies: the
\* rest of the operation does not happen.
Abandon(t) ==
    /\ task[t].op # "idle"
    /\ Finish(t)
    /\ UNCHANGED <<stores, forgotten, redacted>>

\* Nothing touches row m for as long as the TTL.
Age(m) ==
    /\ rows[m] # NoRow
    /\ aged' = aged \cup {m}
    /\ UNCHANGED <<rows, vectors, traces, receipts, task, forgotten, redacted, mishaps>>
    /\ Watch

Step(t) ==
    \/ \E m \in Mem, raw \in BOOLEAN : Ingest(t, m, raw)
    \/ \E m \in Mem : \/ Delete(t, m) \/ Redact(t, m) \/ Merge(t, m)
                      \/ ExpireCopy(t, m) \/ CheckHit(t, m)
    \/ DeleteVectors(t) \/ DeleteTraces(t) \/ AppendReceipt(t)
    \/ WriteMasked(t) \/ WriteMerged(t) \/ IndexCopies(t)
    \/ Sweep(t) \/ Reindex(t)
    \/ Retrieve(t) \/ VectorSearch(t) \/ SaveTrace(t)
    \/ Abandon(t)

Next == \/ \E t \in Tasks : Step(t)
        \/ \E m \in Mem : Age(m)

Spec == Init /\ [][Next]_vars

-----------------------------------------------------------------------------
(* Properties. *)

\* Stale vectors are harmless: whatever the index still holds, Retrieve only
\* selects memories that were active at some moment while it ran (the Get and
\* IsActive of each channel).
NeverServesTheDead ==
    \A t \in Tasks : task[t].op = "retrieve" => task[t].chosen \subseteq alive[t]

\* A task can bring memory m back: it is going to write back a copy of m that
\* it read while m was not deleted.
HoldsLiveCopy(t, m) ==
    /\ m \in Copies(t)
    /\ task[t].copy[m].status # "deleted"
    /\ \/ task[t].op = "sweep"
       \/ task[t].op \in {"redact", "merge"} /\ task[t].at \in {"write", "rewrite"}

\* Deletion is final up to operations already under way: a deleted row leaves
\* deleted only while some task holds a copy from before, so operations that
\* start after the deletion never bring the memory back (Get and List filter).
OnlyStaleCopiesResurrect ==
    [][\A m \in Mem :
          /\ HasStatus(m, "deleted")
          /\ \A t \in Tasks : ~HoldsLiveCopy(t, m)
          => HasStatus(m, "deleted")']_vars

\* As long as no two operations overlapped, an acknowledged deletion stays
\* ("deleted or redacted with an auditable receipt"), and so does an
\* acknowledged redaction ("PII is masked in place"): no merge, sweep or reindex
\* brings the row or its raw content back.  "so vectors and traces go too": when
\* moreover no call was lost, nothing of a forgotten memory is left in the index
\* or in the traces once every task is idle, whatever was abandoned.
AloneForgets ==
    /\ "overlap" \notin mishaps => /\ \A m \in forgotten : HasStatus(m, "deleted")
                                  /\ \A m \in redacted : ~rows[m].raw
    /\ (mishaps = {} /\ \A t \in Tasks : task[t].op = "idle")
          => \A m \in forgotten : vectors[m] = "none" /\ m \notin traces

=============================================================================
