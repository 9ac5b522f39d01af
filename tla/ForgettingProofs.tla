-------------------------- MODULE ForgettingProofs ---------------------------
(***************************************************************************)
(* Machine-checked proofs about Forgetting, for any memories, tasks, bound *)
(* of the listings and operations, and about TraceStore, for any traces,   *)
(* memories and rankings.                                                  *)
(***************************************************************************)
EXTENDS Forgetting, TraceStore, WellFoundedInduction, TLAPS

\* Where an operation can stand, and what it holds there: only what was listed
\* is swept, and a memory that is redacted or merged was found.
Placed(r) ==
    /\ r.op \in {"idle", "delete", "retrieve"} => \A m \in Mem : r.copy[m] = NoRow
    /\ r.op = "ingest" => r.at = "index"
    /\ r.op = "delete" => r.at \in {"vectors", "traces", "receipt"} /\ r.mem \in Mem
    /\ r.op \in {"redact", "merge"} => /\ r.at \in {"write", "rewrite", "index"}
                                       /\ r.mem \in Mem /\ r.copy[r.mem] # NoRow
    /\ r.op = "sweep" => /\ r.at = "write"
                         /\ \A m \in Mem : r.copy[m] # NoRow => r.copy[m].status = "active"
    /\ r.op = "reindex" => r.at = "index"
    /\ r.op = "retrieve" => r.at \in {"search", "check"}
    /\ r.op = "idle" => r.at = "start"

\* The stores and what the tasks hold.
TablesOK ==
    /\ rows \in [Mem -> Row \cup {NoRow}]
    /\ aged \subseteq Mem /\ traces \subseteq Mem
    /\ vectors \in [Mem -> {"none", "raw", "masked"}]
    /\ forgotten \subseteq Mem /\ redacted \subseteq Mem

TypeOK ==
    /\ TablesOK
    /\ task \in [Tasks -> Task] /\ alive \in [Tasks -> SUBSET Mem]
    /\ \A t \in Tasks : Placed(task[t])

\* Of an operation that is the only one: what it copied is in the table and not
\* deleted, what it deleted or masked is so, and what it chose is active.
Current(r) ==
    /\ \A m \in Mem : r.copy[m] # NoRow => r.copy[m] = rows[m] /\ rows[m].status # "deleted"
    /\ r.op = "delete" => HasStatus(r.mem, "deleted")
    /\ r.op = "redact" /\ r.at = "index" => ~rows[r.mem].raw
    /\ r.op = "retrieve" => \A m \in r.chosen : IsActive(m)

\* What was acknowledged.
Gone == /\ \A m \in forgotten : HasStatus(m, "deleted")
        /\ \A m \in redacted : rows[m] # NoRow /\ ~rows[m].raw

\* While operations have not overlapped there is one at most.
AloneInv ==
    "overlap" \notin mishaps =>
        /\ \A t, u \in Tasks : task[t].op # "idle" /\ task[u].op # "idle" => t = u
        /\ \A t \in Tasks : Current(task[t])
        /\ Gone

\* How far the index and the traces are cleaned, and what a deletion has cleaned.
Clean == \A m \in forgotten : vectors[m] = "none" /\ m \notin traces
Cleaned(r) == r.op = "delete" =>
                  /\ r.at \in {"traces", "receipt"} => vectors[r.mem] = "none"
                  /\ r.at = "receipt" => r.mem \notin traces

CleanInv == mishaps = {} => Clean /\ \A t \in Tasks : Cleaned(task[t])

IInv == TypeOK /\ AloneInv /\ CleanInv /\ NeverServesTheDead

\* What a retrieval of task t may choose in a step.
Serves(t, r) ==
    r.op = "retrieve" =>
        \A m \in r.chosen : IsActive(m) \/ (task[t].op = "retrieve" /\ m \in task[t].chosen)

LEMMA IdleIsTask ==
    /\ Idle \in Task /\ Placed(Idle) /\ Idle.op = "idle"
    /\ \A m \in Mem : Idle.copy[m] = NoRow
  BY DEF Idle, Task, Placed, NoCopies

LEMMA InitInv == Init => IInv
  <1> SUFFICES ASSUME Init PROVE IInv
    OBVIOUS
  <1>1. \A t \in Tasks : task[t] = Idle
    BY DEF Init
  <1>2. TypeOK
    BY <1>1, IdleIsTask DEF Init, TypeOK, TablesOK
  <1>3. AloneInv
    BY <1>1, IdleIsTask DEF Init, AloneInv, Current, Gone
  <1>4. CleanInv
    BY <1>1, IdleIsTask DEF Init, CleanInv, Clean, Cleaned
  <1>5. NeverServesTheDead
    BY <1>1, IdleIsTask DEF NeverServesTheDead
  <1> QED
    BY <1>2, <1>3, <1>4, <1>5 DEF IInv

\* What holds of a task and of the stores before a step that goes as planned.
LEMMA Planned ==
    ASSUME IInv, NEW t \in Tasks, NEW r, NEW lost, BecomeWith(t, r, lost)
    PROVE  /\ "overlap" \notin mishaps' => Current(task[t]) /\ Gone
           /\ mishaps' = {} => /\ "overlap" \notin mishaps'
                               /\ Clean /\ Cleaned(task[t]) /\ lost = {}
  <1>1. mishaps \subseteq mishaps' /\ lost \subseteq mishaps'
    BY DEF BecomeWith, Note
  <1>2. "overlap" \notin mishaps' => Current(task[t]) /\ Gone
    BY <1>1 DEF IInv, AloneInv
  <1>3. mishaps' = {} => mishaps = {} /\ lost = {} /\ "overlap" \notin mishaps'
    BY <1>1
  <1> QED
    BY <1>2, <1>3 DEF IInv, CleanInv

\* A step of task t, which becomes r: of the other tasks none runs if operations
\* have not overlapped, so what holds of r is all there is to show.
LEMMA StepKeeps ==
    ASSUME IInv, NEW t \in Tasks, NEW r \in Task, Placed(r), NEW lost,
           BecomeWith(t, r, lost), task[t].op # "idle" \/ r.op # "idle",
           TablesOK', Serves(t, r),
           "overlap" \notin mishaps' => Current(r)' /\ Gone',
           mishaps' = {} => Clean' /\ Cleaned(r)'
    PROVE  IInv'
  <1>1. /\ task \in [Tasks -> Task] /\ alive \in [Tasks -> SUBSET Mem]
        /\ \A u \in Tasks : Placed(task[u])
    BY DEF IInv, TypeOK
  <1>2. /\ task' = [task EXCEPT ![t] = r] /\ task'[t] = r
        /\ \A u \in Tasks : u # t => task'[u] = task[u]
    BY <1>1 DEF BecomeWith
  <1>3. Watch /\ Note(lost)
    BY DEF BecomeWith
  <1>4. TypeOK'
    <2>1. task' \in [Tasks -> Task]
      BY <1>1, <1>2
    <2>2. alive' \in [Tasks -> SUBSET Mem]
      BY <1>1, <1>3 DEF Watch
    <2>3. \A u \in Tasks : Placed(task'[u])
      BY <1>1, <1>2
    <2> QED
      BY <2>1, <2>2, <2>3 DEF TypeOK, Placed
  <1>5. mishaps \subseteq mishaps' /\ (Overlap => "overlap" \in mishaps')
    BY <1>3 DEF Note
  <1>6. ASSUME "overlap" \notin mishaps'
        PROVE  \A u \in Tasks : u # t => task'[u].op = "idle"
    <2>1. "overlap" \notin mishaps /\ ~Overlap
      BY <1>5, <1>6
    <2>2. CASE r.op # "idle"
      BY <1>2, <2>1, <2>2 DEF Overlap
    <2>3. CASE task[t].op # "idle"
      BY <1>2, <2>1, <2>3 DEF IInv, AloneInv
    <2> QED
      BY <2>2, <2>3
  <1>7. AloneInv'
    <2>1. ASSUME "overlap" \notin mishaps', NEW u \in Tasks
          PROVE  Current(task[u])'
      <3>1. CASE u = t
        BY <1>2, <2>1, <3>1 DEF Current, HasStatus, IsActive
      <3>2. CASE u # t
        <4>1. task'[u].op = "idle" /\ Placed(task'[u])
          BY <1>1, <1>2, <1>6, <2>1, <3>2
        <4> QED
          BY <4>1 DEF Current, Placed
      <3> QED
        BY <3>1, <3>2
    <2> QED
      BY <1>6, <2>1 DEF AloneInv
  <1>8. CleanInv'
    <2>1. ASSUME mishaps' = {}, NEW u \in Tasks
          PROVE  Cleaned(task[u])'
      <3>1. CASE u = t
        BY <1>2, <2>1, <3>1 DEF Cleaned
      <3>2. CASE u # t
        BY <1>6, <2>1, <3>2 DEF Cleaned
      <3> QED
        BY <3>1, <3>2
    <2> QED
      BY <2>1 DEF CleanInv
  <1>9. NeverServesTheDead'
    <2>1. SUFFICES ASSUME NEW u \in Tasks, task'[u].op = "retrieve",
                          NEW m \in task'[u].chosen
                   PROVE  m \in alive'[u]
      BY DEF NeverServesTheDead
    <2>2. m \in Mem
      BY <1>4, <2>1 DEF TypeOK, Task
    <2>3. IsActive(m) \/ (task[u].op = "retrieve" /\ m \in task[u].chosen)
      BY <1>2, <2>1 DEF Serves
    <2>4. task[u].op = "retrieve" => task[u].chosen \subseteq alive[u]
      BY DEF IInv, NeverServesTheDead
    <2> QED
      BY <1>3, <2>1, <2>2, <2>3, <2>4 DEF Watch
  <1> QED
    BY <1>4, <1>7, <1>8, <1>9 DEF IInv

\* A step that ends task t's operation.
LEMMA FinishKeeps ==
    ASSUME IInv, NEW t \in Tasks, NEW lost, FinishWith(t, lost), task[t].op # "idle",
           TablesOK', "overlap" \notin mishaps' => Gone', mishaps' = {} => Clean'
    PROVE  IInv'
  <1>1. PICK r : r = Idle
    OBVIOUS
  <1>2. r \in Task /\ Placed(r) /\ r.op = "idle" /\ \A m \in Mem : r.copy[m] = NoRow
    BY <1>1, IdleIsTask
  <1>3. BecomeWith(t, r, lost)
    BY <1>1 DEF FinishWith
  <1>4. Serves(t, r) /\ Current(r)' /\ Cleaned(r)'
    BY <1>2 DEF Serves, Current, Cleaned
  <1> QED
    BY <1>2, <1>3, <1>4, StepKeeps

-----------------------------------------------------------------------------
(* The actions. *)

\* An idle task starts an operation that changes no store.
LEMMA StartKeeps ==
    ASSUME IInv, NEW t \in Tasks, NEW r \in Task, Placed(r), Become(t, r),
           task[t].op = "idle", r.op \in {"redact", "merge", "sweep", "reindex", "retrieve"},
           \A m \in Mem : r.copy[m] # NoRow => r.copy[m] = rows[m] /\ rows[m].status # "deleted",
           r.op = "redact" => r.at # "index",
           r.op = "retrieve" => \A m \in r.chosen : IsActive(m),
           UNCHANGED <<stores, forgotten, redacted>>
    PROVE  IInv'
  <1>1. BecomeWith(t, r, {})
    BY DEF Become
  <1>2. TablesOK' /\ UNCHANGED <<rows, vectors, traces, forgotten, redacted>>
    BY DEF IInv, TypeOK, TablesOK, stores
  <1>3. Serves(t, r)
    BY DEF Serves
  <1>4. "overlap" \notin mishaps' => Current(r)' /\ Gone'
    BY <1>1, <1>2, Planned DEF Current, Gone, HasStatus, IsActive
  <1>5. mishaps' = {} => Clean' /\ Cleaned(r)'
    BY <1>1, <1>2, Planned DEF Clean, Cleaned
  <1> QED
    BY <1>1, <1>2, <1>3, <1>4, <1>5, StepKeeps

LEMMA CopiesAreRows ==
    ASSUME TablesOK, NEW S \in SUBSET Mem
    PROVE  /\ CopiesOf(S) \in [Mem -> Row \cup {NoRow}]
           /\ \A m \in Mem : CopiesOf(S)[m] # NoRow => m \in S /\ CopiesOf(S)[m] = rows[m]
           /\ \A m \in S : CopiesOf(S)[m] = rows[m]
  BY DEF TablesOK, CopiesOf

LEMMA ListedAreActive ==
    ASSUME NEW m \in Listed PROVE m \in Mem /\ rows[m] # NoRow /\ rows[m].status = "active"
  BY DEF Listed, HasStatus

LEMMA RedactKeeps ==
    ASSUME IInv, NEW t \in Tasks, NEW m \in Mem, Redact(t, m)
    PROVE  IInv'
  <1>1. PICK r : r = [Idle EXCEPT !.op = "redact", !.at = "write", !.mem = m,
                                  !.copy = CopiesOf({m})]
    OBVIOUS
  <1>2. TablesOK
    BY DEF IInv, TypeOK
  <1>3. /\ CopiesOf({m}) \in [Mem -> Row \cup {NoRow}]
        /\ \A n \in Mem : CopiesOf({m})[n] # NoRow => n = m /\ CopiesOf({m})[n] = rows[n]
        /\ CopiesOf({m})[m] = rows[m]
    BY <1>2, CopiesAreRows
  <1>4. /\ r \in Task /\ r.op = "redact" /\ r.at = "write" /\ r.mem = m
        /\ r.copy = CopiesOf({m})
    BY <1>1, <1>3 DEF Idle, Task
  <1>5. rows[m] # NoRow /\ rows[m].status # "deleted"
    BY DEF Redact, Visible
  <1>6. Placed(r)
    BY <1>3, <1>4, <1>5 DEF Placed
  <1>7. /\ Become(t, r) /\ task[t].op = "idle" /\ UNCHANGED <<stores, forgotten, redacted>>
    BY <1>1 DEF Redact, CanStart
  <1> QED
    BY <1>3, <1>4, <1>5, <1>6, <1>7, StartKeeps

LEMMA MergeKeeps ==
    ASSUME IInv, NEW t \in Tasks, NEW m \in Mem, Merge(t, m)
    PROVE  IInv'
  <1>1. PICK r : r = [Idle EXCEPT !.op = "merge", !.at = "write", !.mem = m,
                                  !.copy = CopiesOf({m})]
    OBVIOUS
  <1>2. TablesOK
    BY DEF IInv, TypeOK
  <1>3. /\ CopiesOf({m}) \in [Mem -> Row \cup {NoRow}]
        /\ \A n \in Mem : CopiesOf({m})[n] # NoRow => n = m /\ CopiesOf({m})[n] = rows[n]
        /\ CopiesOf({m})[m] = rows[m]
    BY <1>2, CopiesAreRows
  <1>4. /\ r \in Task /\ r.op = "merge" /\ r.at = "write" /\ r.mem = m
        /\ r.copy = CopiesOf({m})
    BY <1>1, <1>3 DEF Idle, Task
  <1>5. rows[m] # NoRow /\ rows[m].status # "deleted"
    BY ListedAreActive DEF Merge
  <1>6. Placed(r)
    BY <1>3, <1>4, <1>5 DEF Placed
  <1>7. /\ Become(t, r) /\ task[t].op = "idle" /\ UNCHANGED <<stores, forgotten, redacted>>
    BY <1>1 DEF Merge, CanStart
  <1> QED
    BY <1>3, <1>4, <1>5, <1>6, <1>7, StartKeeps

LEMMA SweepKeeps ==
    ASSUME IInv, NEW t \in Tasks, Sweep(t)
    PROVE  IInv'
  <1>1. PICK r : r = [Idle EXCEPT !.op = "sweep", !.at = "write",
                                  !.copy = CopiesOf(Listed \cap aged)]
    OBVIOUS
  <1>2. TablesOK /\ Listed \cap aged \in SUBSET Mem
    BY DEF IInv, TypeOK, Listed
  <1>3. /\ CopiesOf(Listed \cap aged) \in [Mem -> Row \cup {NoRow}]
        /\ \A n \in Mem : CopiesOf(Listed \cap aged)[n] # NoRow =>
              CopiesOf(Listed \cap aged)[n] = rows[n] /\ rows[n].status = "active"
    BY <1>2, CopiesAreRows, ListedAreActive
  <1>4. /\ r \in Task /\ r.op = "sweep" /\ r.at = "write"
        /\ r.copy = CopiesOf(Listed \cap aged)
    BY <1>1, <1>3 DEF Idle, Task
  <1>5. Placed(r)
    BY <1>3, <1>4 DEF Placed
  <1>6. /\ Become(t, r) /\ task[t].op = "idle" /\ UNCHANGED <<stores, forgotten, redacted>>
    BY <1>1 DEF Sweep, CanStart
  <1> QED
    BY <1>3, <1>4, <1>5, <1>6, StartKeeps

LEMMA ReindexKeeps ==
    ASSUME IInv, NEW t \in Tasks, Reindex(t)
    PROVE  IInv'
  <1>1. PICK r : r = [Idle EXCEPT !.op = "reindex", !.at = "index",
                                  !.copy = CopiesOf(Listed)]
    OBVIOUS
  <1>2. TablesOK /\ Listed \in SUBSET Mem
    BY DEF IInv, TypeOK, Listed
  <1>3. /\ CopiesOf(Listed) \in [Mem -> Row \cup {NoRow}]
        /\ \A n \in Mem : CopiesOf(Listed)[n] # NoRow =>
              CopiesOf(Listed)[n] = rows[n] /\ rows[n].status = "active"
    BY <1>2, CopiesAreRows, ListedAreActive
  <1>4. /\ r \in Task /\ r.op = "reindex" /\ r.at = "index"
        /\ r.copy = CopiesOf(Listed)
    BY <1>1, <1>3 DEF Idle, Task
  <1>5. Placed(r)
    BY <1>4 DEF Placed
  <1>6. /\ Become(t, r) /\ task[t].op = "idle" /\ UNCHANGED <<stores, forgotten, redacted>>
    BY <1>1 DEF Reindex, CanStart
  <1> QED
    BY <1>3, <1>4, <1>5, <1>6, StartKeeps

LEMMA RetrieveKeeps ==
    ASSUME IInv, NEW t \in Tasks, Retrieve(t)
    PROVE  IInv'
  <1>1. PICK hits \in SUBSET Listed :
            Become(t, [Idle EXCEPT !.op = "retrieve", !.at = "search", !.chosen = hits])
    BY DEF Retrieve
  <1>2. PICK r : r = [Idle EXCEPT !.op = "retrieve", !.at = "search", !.chosen = hits]
    OBVIOUS
  <1>3. \A m \in hits : m \in Mem /\ IsActive(m)
    BY <1>1, ListedAreActive DEF IsActive, HasStatus
  <1>4. /\ r \in Task /\ r.op = "retrieve" /\ r.at = "search" /\ r.chosen = hits
        /\ r.copy = Idle.copy
    BY <1>2, <1>3 DEF Idle, Task, NoCopies
  <1>5. Placed(r)
    BY <1>4, IdleIsTask DEF Placed
  <1>6. /\ Become(t, r) /\ task[t].op = "idle" /\ UNCHANGED <<stores, forgotten, redacted>>
    BY <1>1, <1>2 DEF Retrieve, CanStart
  <1> QED
    BY <1>3, <1>4, <1>5, <1>6, IdleIsTask, StartKeeps

LEMMA Typed ==
    ASSUME IInv, NEW t \in Tasks
    PROVE  TablesOK /\ task[t] \in Task /\ Placed(task[t])
  BY DEF IInv, TypeOK

\* Where a task stands tells what it does.
LEMMA AtTellsOp ==
    ASSUME IInv, NEW t \in Tasks
    PROVE  /\ task[t].at \in {"vectors", "traces", "receipt"} =>
                 task[t].op = "delete" /\ task[t].mem \in Mem
           /\ task[t].at = "index" => task[t].op \in {"ingest", "redact", "merge", "reindex"}
           /\ task[t].at \in {"search", "check"} => task[t].op = "retrieve"
  BY Typed DEF Task, Placed

LEMMA IngestKeeps ==
    ASSUME IInv, NEW t \in Tasks, NEW m \in Mem, NEW raw \in BOOLEAN, Ingest(t, m, raw)
    PROVE  IInv'
  <1>1. PICK row : row = [status |-> "active", raw |-> raw]
    OBVIOUS
  <1>2. PICK r : r = [Idle EXCEPT !.op = "ingest", !.at = "index", !.mem = m,
                                  !.copy = [NoCopies EXCEPT ![m] = row]]
    OBVIOUS
  <1>3. /\ CanStart(t, "ingest") /\ rows[m] = NoRow /\ Upsert(m, row) /\ Become(t, r)
        /\ UNCHANGED <<vectors, traces, receipts, forgotten, redacted>>
    BY <1>1, <1>2 DEF Ingest
  <1>4. row \in Row /\ row # NoRow /\ row.status = "active"
    BY <1>1, NoRowIsNoRow DEF Row
  <1>5. /\ r \in Task /\ r.op = "ingest" /\ r.at = "index" /\ r.mem = m
        /\ r.copy = [NoCopies EXCEPT ![m] = row]
    BY <1>2, <1>4 DEF Idle, Task, NoCopies
  <1>6. r.copy[m] = row /\ \A n \in Mem : n # m => r.copy[n] = NoRow
    BY <1>5 DEF NoCopies
  <1>7. TablesOK
    BY Typed
  <1>8. rows'[m] = row /\ \A n \in Mem : n # m => rows'[n] = rows[n]
    BY <1>3, <1>7 DEF Upsert, TablesOK
  <1>9. TablesOK'
    BY <1>3, <1>4, <1>7 DEF Upsert, TablesOK
  <1>10. Placed(r) /\ Serves(t, r)
    BY <1>5 DEF Placed, Serves
  <1>11. BecomeWith(t, r, {}) /\ r.op # "idle"
    BY <1>3, <1>5 DEF Become
  <1>12. "overlap" \notin mishaps' => Current(r)' /\ Gone'
    <2>1. Current(r)'
      BY <1>4, <1>5, <1>6, <1>8 DEF Current
    <2>2. Gone => Gone'
      BY <1>3, <1>7, <1>8 DEF Gone, HasStatus, TablesOK
    <2> QED
      BY <2>1, <2>2, <1>11, Planned
  <1>13. mishaps' = {} => Clean' /\ Cleaned(r)'
    BY <1>3, <1>5, <1>11, Planned DEF Clean, Cleaned
  <1> QED
    BY <1>5, <1>9, <1>10, <1>11, <1>12, <1>13, StepKeeps

LEMMA DeleteKeeps ==
    ASSUME IInv, NEW t \in Tasks, NEW m \in Mem, Delete(t, m)
    PROVE  IInv'
  <1>1. PICK row : row = [rows[m] EXCEPT !.status = "deleted"]
    OBVIOUS
  <1>2. PICK r : r = [Idle EXCEPT !.op = "delete", !.at = "vectors", !.mem = m]
    OBVIOUS
  <1>3. /\ CanStart(t, "delete") /\ rows[m] # NoRow /\ Upsert(m, row) /\ Become(t, r)
        /\ UNCHANGED <<vectors, traces, receipts, forgotten, redacted>>
    BY <1>1, <1>2 DEF Delete
  <1>4. TablesOK
    BY Typed
  <1>5. /\ row \in Row /\ row # NoRow /\ row.status = "deleted" /\ row.raw = rows[m].raw
    BY <1>1, <1>3, <1>4, NoRowIsNoRow DEF Row, TablesOK
  <1>6. /\ r \in Task /\ r.op = "delete" /\ r.at = "vectors" /\ r.mem = m
        /\ r.copy = Idle.copy
    BY <1>2, <1>4 DEF Idle, Task, NoCopies
  <1>7. rows'[m] = row /\ \A n \in Mem : n # m => rows'[n] = rows[n]
    BY <1>3, <1>4 DEF Upsert, TablesOK
  <1>8. TablesOK'
    BY <1>3, <1>4, <1>5 DEF Upsert, TablesOK
  <1>9. Placed(r) /\ Serves(t, r)
    BY <1>6, IdleIsTask DEF Placed, Serves
  <1>10. BecomeWith(t, r, {}) /\ r.op # "idle"
    BY <1>3, <1>6 DEF Become
  <1>11. "overlap" \notin mishaps' => Current(r)' /\ Gone'
    <2>1. Current(r)'
      BY <1>5, <1>6, <1>7, IdleIsTask DEF Current, HasStatus
    <2>2. Gone => Gone'
      BY <1>3, <1>4, <1>5, <1>7 DEF Gone, HasStatus, TablesOK
    <2> QED
      BY <2>1, <2>2, <1>10, Planned
  <1>12. mishaps' = {} => Clean' /\ Cleaned(r)'
    BY <1>3, <1>6, <1>10, Planned DEF Clean, Cleaned
  <1> QED
    BY <1>6, <1>8, <1>9, <1>10, <1>11, <1>12, StepKeeps

LEMMA DeleteVectorsKeeps ==
    ASSUME IInv, NEW t \in Tasks, DeleteVectors(t)
    PROVE  IInv'
  <1>1. PICK lost \in Outcomes :
          /\ vectors' = BestEffort(vectors, [vectors EXCEPT ![task[t].mem] = "none"], lost)
          /\ BecomeWith(t, [task[t] EXCEPT !.at = "traces"], lost)
    BY DEF DeleteVectors
  <1>2. PICK r : r = [task[t] EXCEPT !.at = "traces"]
    OBVIOUS
  <1>3. BecomeWith(t, r, lost)
    BY <1>1, <1>2
  <1>4. task[t].op = "delete" /\ task[t].mem \in Mem
    BY AtTellsOp DEF DeleteVectors
  <1>5. TablesOK /\ task[t] \in Task /\ Placed(task[t])
    BY Typed
  <1>6. /\ r \in Task /\ r.op = "delete" /\ r.at = "traces"
        /\ r.mem = task[t].mem /\ r.copy = task[t].copy
    BY <1>2, <1>4, <1>5 DEF Task
  <1>7. Placed(r) /\ Serves(t, r)
    BY <1>4, <1>5, <1>6 DEF Placed, Serves
  <1>8. UNCHANGED <<rows, aged, traces, receipts, forgotten, redacted>>
    BY DEF DeleteVectors
  <1>9. /\ vectors' \in [Mem -> {"none", "raw", "masked"}]
        /\ lost = {} => vectors'[task[t].mem] = "none"
        /\ \A m \in Mem : vectors[m] = "none" => vectors'[m] = "none"
    BY <1>1, <1>4, <1>5 DEF BestEffort, TablesOK
  <1>10. TablesOK'
    BY <1>5, <1>8, <1>9 DEF TablesOK
  <1>11. "overlap" \notin mishaps' => Current(r)' /\ Gone'
    BY <1>3, <1>4, <1>6, <1>8, Planned DEF Current, Gone, HasStatus
  <1>12. mishaps' = {} => Clean' /\ Cleaned(r)'
    <2>1. Clean => Clean'
      BY <1>5, <1>8, <1>9 DEF Clean, TablesOK
    <2>2. lost = {} => Cleaned(r)'
      BY <1>6, <1>9 DEF Cleaned
    <2> QED
      BY <2>1, <2>2, <1>3, Planned
  <1> QED
    BY <1>3, <1>4, <1>6, <1>7, <1>10, <1>11, <1>12, StepKeeps

LEMMA DeleteTracesKeeps ==
    ASSUME IInv, NEW t \in Tasks, DeleteTraces(t)
    PROVE  IInv'
  <1>1. PICK lost \in Outcomes :
          /\ traces' = BestEffort(traces, traces \ {task[t].mem}, lost)
          /\ BecomeWith(t, [task[t] EXCEPT !.at = "receipt"], lost)
    BY DEF DeleteTraces
  <1>2. PICK r : r = [task[t] EXCEPT !.at = "receipt"]
    OBVIOUS
  <1>3. BecomeWith(t, r, lost)
    BY <1>1, <1>2
  <1>4. task[t].op = "delete" /\ task[t].mem \in Mem /\ task[t].at = "traces"
    BY AtTellsOp DEF DeleteTraces
  <1>5. TablesOK /\ task[t] \in Task /\ Placed(task[t])
    BY Typed
  <1>6. /\ r \in Task /\ r.op = "delete" /\ r.at = "receipt"
        /\ r.mem = task[t].mem /\ r.copy = task[t].copy
    BY <1>2, <1>4, <1>5 DEF Task
  <1>7. Placed(r) /\ Serves(t, r)
    BY <1>4, <1>5, <1>6 DEF Placed, Serves
  <1>8. UNCHANGED <<rows, aged, vectors, receipts, forgotten, redacted>>
    BY DEF DeleteTraces
  <1>9. traces' \subseteq traces /\ (lost = {} => task[t].mem \notin traces')
    BY <1>1 DEF BestEffort
  <1>10. TablesOK'
    BY <1>5, <1>8, <1>9 DEF TablesOK
  <1>11. "overlap" \notin mishaps' => Current(r)' /\ Gone'
    BY <1>3, <1>4, <1>6, <1>8, Planned DEF Current, Gone, HasStatus
  <1>12. mishaps' = {} => Clean' /\ Cleaned(r)'
    <2>1. Clean => Clean'
      BY <1>8, <1>9 DEF Clean
    <2>2. lost = {} /\ Cleaned(task[t]) => Cleaned(r)'
      BY <1>4, <1>6, <1>8, <1>9 DEF Cleaned
    <2> QED
      BY <2>1, <2>2, <1>3, Planned
  <1> QED
    BY <1>3, <1>4, <1>6, <1>7, <1>10, <1>11, <1>12, StepKeeps

LEMMA AppendReceiptKeeps ==
    ASSUME IInv, NEW t \in Tasks, AppendReceipt(t)
    PROVE  IInv'
  <1>1. PICK lost : FinishWith(t, lost)
    BY DEF AppendReceipt
  <1>2. BecomeWith(t, Idle, lost)
    BY <1>1 DEF FinishWith
  <1>3. task[t].op = "delete" /\ task[t].mem \in Mem /\ task[t].at = "receipt"
    BY AtTellsOp DEF AppendReceipt
  <1>4. UNCHANGED <<rows, aged, vectors, traces, redacted>>
        /\ forgotten' = forgotten \cup {task[t].mem}
    BY DEF AppendReceipt
  <1>5. TablesOK'
    BY <1>3, <1>4, Typed DEF TablesOK
  <1>6. "overlap" \notin mishaps' => Gone'
    BY <1>2, <1>3, <1>4, Planned DEF Current, Gone, HasStatus
  <1>7. mishaps' = {} => Clean'
    BY <1>2, <1>3, <1>4, Planned DEF Clean, Cleaned
  <1> QED
    BY <1>1, <1>3, <1>5, <1>6, <1>7, FinishKeeps

LEMMA UpsertWrites ==
    ASSUME TablesOK, NEW m \in Mem, NEW row \in Row, Upsert(m, row)
    PROVE  /\ rows' \in [Mem -> Row \cup {NoRow}] /\ aged' \subseteq Mem
           /\ rows'[m] = row /\ row # NoRow
           /\ \A n \in Mem : n # m => rows'[n] = rows[n]
  BY NoRowIsNoRow DEF Upsert, TablesOK

LEMMA WriteMaskedKeeps ==
    ASSUME IInv, NEW t \in Tasks, WriteMasked(t)
    PROVE  IInv'
  <1>1. PICK m : m = task[t].mem
    OBVIOUS
  <1>2. PICK row : row = Masked(task[t].copy[m])
    OBVIOUS
  <1>3. PICK r : r = [task[t] EXCEPT !.at = "index", !.copy[m] = row]
    OBVIOUS
  <1>4. TablesOK /\ task[t] \in Task /\ Placed(task[t])
    BY Typed
  <1>5. /\ task[t].op = "redact" /\ task[t].at = "write"
        /\ UNCHANGED <<vectors, traces, receipts, forgotten>>
    BY DEF WriteMasked
  <1>6. m \in Mem /\ task[t].copy[m] \in Row /\ task[t].copy[m] # NoRow
    BY <1>1, <1>4, <1>5 DEF Placed, Task
  <1>7. CASE task[t].copy[m].raw
    <2>1. Upsert(m, row) /\ Become(t, r) /\ UNCHANGED redacted
      BY <1>1, <1>2, <1>3, <1>7 DEF WriteMasked
    <2>2. row \in Row /\ row.raw = FALSE /\ row.status = task[t].copy[m].status
      BY <1>2, <1>6 DEF Masked, Row
    <2>3. /\ rows' \in [Mem -> Row \cup {NoRow}] /\ aged' \subseteq Mem
          /\ rows'[m] = row /\ row # NoRow
          /\ \A n \in Mem : n # m => rows'[n] = rows[n]
      BY <1>4, <1>6, <2>1, <2>2, UpsertWrites
    <2>4. /\ r \in Task /\ r.op = "redact" /\ r.at = "index" /\ r.mem = m
          /\ r.copy[m] = row /\ \A n \in Mem : n # m => r.copy[n] = task[t].copy[n]
      BY <1>1, <1>3, <1>4, <1>5, <1>6, <2>2 DEF Task
    <2>5. TablesOK' /\ Placed(r) /\ Serves(t, r)
      BY <1>4, <1>5, <1>6, <2>1, <2>3, <2>4 DEF TablesOK, Placed, Serves
    <2>6. BecomeWith(t, r, {})
      BY <2>1 DEF Become
    <2>7. Current(task[t]) /\ Gone => Current(r)' /\ Gone'
      <3> SUFFICES ASSUME Current(task[t]), Gone PROVE Current(r)' /\ Gone'
        OBVIOUS
      <3>1. task[t].copy[m] = rows[m] /\ rows[m].status # "deleted"
        BY <1>6 DEF Current
      <3>2. Current(r)'
        BY <2>2, <2>3, <2>4, <3>1 DEF Current
      <3>3. Gone'
        BY <1>4, <1>5, <2>1, <2>2, <2>3, <3>1 DEF Gone, HasStatus, TablesOK
      <3> QED
        BY <3>2, <3>3
    <2>8. mishaps' = {} => Clean' /\ Cleaned(r)'
      BY <1>5, <2>4, <2>6, Planned DEF Clean, Cleaned
    <2> QED
      BY <1>5, <2>4, <2>5, <2>6, <2>7, <2>8, Planned, StepKeeps
  <1>8. CASE ~task[t].copy[m].raw
    <2>1. redacted' = redacted \cup {m} /\ Finish(t) /\ UNCHANGED <<rows, aged>>
      BY <1>1, <1>8 DEF WriteMasked
    <2>2. FinishWith(t, {}) /\ BecomeWith(t, Idle, {})
      BY <2>1 DEF Finish, Become, FinishWith
    <2>3. TablesOK'
      BY <1>4, <1>5, <1>6, <2>1 DEF TablesOK
    <2>4. "overlap" \notin mishaps' => Gone'
      BY <1>5, <1>6, <1>8, <2>1, <2>2, Planned DEF Current, Gone, HasStatus
    <2>5. mishaps' = {} => Clean'
      BY <1>5, <2>2, Planned DEF Clean
    <2> QED
      BY <1>5, <2>2, <2>3, <2>4, <2>5, FinishKeeps
  <1> QED
    BY <1>7, <1>8

LEMMA WriteMergedKeeps ==
    ASSUME IInv, NEW t \in Tasks, WriteMerged(t)
    PROVE  IInv'
  <1>1. PICK m : m = task[t].mem
    OBVIOUS
  <1>2. PICK r : r = [task[t] EXCEPT !.at = IF @ = "write" THEN "rewrite" ELSE "index"]
    OBVIOUS
  <1>3. TablesOK /\ task[t] \in Task /\ Placed(task[t])
    BY Typed
  <1>4. /\ task[t].op = "merge" /\ task[t].at \in {"write", "rewrite"}
        /\ Upsert(m, task[t].copy[m]) /\ Become(t, r)
        /\ UNCHANGED <<vectors, traces, receipts, forgotten, redacted>>
    BY <1>1, <1>2 DEF WriteMerged
  <1>5. m \in Mem /\ task[t].copy[m] \in Row /\ task[t].copy[m] # NoRow
    BY <1>1, <1>3, <1>4 DEF Placed, Task
  <1>6. /\ rows' \in [Mem -> Row \cup {NoRow}] /\ aged' \subseteq Mem
        /\ rows'[m] = task[t].copy[m]
        /\ \A n \in Mem : n # m => rows'[n] = rows[n]
    BY <1>3, <1>4, <1>5, UpsertWrites
  <1>7. /\ r \in Task /\ r.op = "merge" /\ r.at \in {"rewrite", "index"} /\ r.mem = m
        /\ r.copy = task[t].copy
    BY <1>1, <1>2, <1>3, <1>4 DEF Task
  <1>8. TablesOK' /\ Placed(r) /\ Serves(t, r)
    BY <1>3, <1>4, <1>5, <1>6, <1>7 DEF TablesOK, Placed, Serves
  <1>9. BecomeWith(t, r, {})
    BY <1>4 DEF Become
  <1>10. Current(task[t]) /\ Gone => Current(r)' /\ Gone'
    <2> SUFFICES ASSUME Current(task[t]), Gone PROVE Current(r)' /\ Gone'
      OBVIOUS
    <2>1. \A n \in Mem : rows'[n] = rows[n]
      BY <1>5, <1>6 DEF Current
    <2>2. Current(r)'
      BY <1>5, <1>7, <2>1 DEF Current
    <2>3. Gone'
      BY <1>3, <1>4, <2>1 DEF Gone, HasStatus, TablesOK
    <2> QED
      BY <2>2, <2>3
  <1>11. mishaps' = {} => Clean' /\ Cleaned(r)'
    BY <1>4, <1>7, <1>9, Planned DEF Clean, Cleaned
  <1> QED
    BY <1>4, <1>7, <1>8, <1>9, <1>10, <1>11, Planned, StepKeeps

LEMMA ExpireCopyKeeps ==
    ASSUME IInv, NEW t \in Tasks, NEW m \in Mem, ExpireCopy(t, m)
    PROVE  IInv'
  <1>1. PICK rest : rest = [task[t].copy EXCEPT ![m] = NoRow]
    OBVIOUS
  <1>2. PICK row : row = [task[t].copy[m] EXCEPT !.status = "expired"]
    OBVIOUS
  <1>3. PICK r : r = IF rest = NoCopies THEN Idle ELSE [task[t] EXCEPT !.copy = rest]
    OBVIOUS
  <1>4. TablesOK /\ task[t] \in Task /\ Placed(task[t])
    BY Typed
  <1>5. /\ task[t].op = "sweep" /\ m \in Copies(t) /\ Upsert(m, row) /\ Become(t, r)
        /\ UNCHANGED <<vectors, traces, receipts, forgotten, redacted>>
    BY <1>1, <1>2, <1>3 DEF ExpireCopy
  <1>6. /\ task[t].copy[m] \in Row /\ task[t].copy[m] # NoRow
        /\ task[t].copy[m].status = "active"
    BY <1>4, <1>5 DEF Copies, Placed, Task
  <1>7. row \in Row /\ row.status = "expired" /\ row.raw = task[t].copy[m].raw
    BY <1>2, <1>6 DEF Row
  <1>8. /\ rows' \in [Mem -> Row \cup {NoRow}] /\ aged' \subseteq Mem
        /\ rows'[m] = row /\ row # NoRow
        /\ \A n \in Mem : n # m => rows'[n] = rows[n]
    BY <1>4, <1>5, <1>7, UpsertWrites
  <1>9. rest \in [Mem -> Row \cup {NoRow}] /\ rest[m] = NoRow
        /\ \A n \in Mem : n # m => rest[n] = task[t].copy[n]
    BY <1>1, <1>4 DEF Task
  <1>10. r \in Task /\ Placed(r) /\ r.op \in {"idle", "sweep"}
         /\ r.copy[m] = NoRow /\ \A n \in Mem : r.copy[n] # NoRow => r.copy[n] = task[t].copy[n]
    <2>1. CASE rest = NoCopies
      BY <1>3, <2>1, IdleIsTask
    <2>2. CASE rest # NoCopies
      <3>1. /\ r \in Task /\ r.op = "sweep" /\ r.at = task[t].at /\ r.mem = task[t].mem
            /\ r.copy = rest
        BY <1>3, <1>4, <1>5, <1>9, <2>2 DEF Task
      <3> QED
        BY <1>4, <1>5, <1>9, <3>1 DEF Placed
    <2> QED
      BY <2>1, <2>2
  <1>11. TablesOK' /\ Serves(t, r)
    BY <1>4, <1>5, <1>8, <1>10 DEF TablesOK, Serves
  <1>12. BecomeWith(t, r, {})
    BY <1>5 DEF Become
  <1>13. Current(task[t]) /\ Gone => Current(r)' /\ Gone'
    <2> SUFFICES ASSUME Current(task[t]), Gone PROVE Current(r)' /\ Gone'
      OBVIOUS
    <2>1. task[t].copy[m] = rows[m] /\ rows[m].status # "deleted"
      BY <1>6 DEF Current
    <2>2. Current(r)'
      <3>1. \A n \in Mem : r.copy[n] # NoRow => r.copy[n] = rows[n] /\ rows'[n] = rows[n]
                                                /\ rows[n].status # "deleted"
        BY <1>8, <1>10 DEF Current
      <3> QED
        BY <1>10, <3>1 DEF Current
    <2>3. Gone'
      BY <1>4, <1>5, <1>7, <1>8, <2>1 DEF Gone, HasStatus, TablesOK
    <2> QED
      BY <2>2, <2>3
  <1>14. mishaps' = {} => Clean' /\ Cleaned(r)'
    BY <1>5, <1>10, <1>12, Planned DEF Clean, Cleaned
  <1> QED
    BY <1>5, <1>10, <1>11, <1>12, <1>13, <1>14, Planned, StepKeeps

LEMMA IndexCopiesKeeps ==
    ASSUME IInv, NEW t \in Tasks, IndexCopies(t)
    PROVE  IInv'
  <1>1. TablesOK /\ task[t] \in Task /\ Placed(task[t])
    BY Typed
  <1>2. task[t].at = "index" /\ task[t].op \in {"ingest", "redact", "merge", "reindex"}
    BY AtTellsOp DEF IndexCopies
  <1>3. UNCHANGED <<rows, aged, traces, receipts, forgotten>>
    BY DEF IndexCopies
  <1>4. /\ task[t].op = "redact" => task[t].mem \in Mem /\ task[t].copy[task[t].mem] # NoRow
        /\ task[t].op = "redact" => redacted' = redacted \cup {task[t].mem}
        /\ task[t].op # "redact" => redacted' = redacted
    BY <1>1 DEF IndexCopies, Placed
  <1>5. FinishWith(t, {}) /\ BecomeWith(t, Idle, {})
    BY DEF IndexCopies, Finish, Become, FinishWith
  <1>6. /\ vectors' \in [Mem -> {"none", "raw", "masked"}]
        /\ \A m \in Mem : task[t].copy[m] = NoRow => vectors'[m] = vectors[m]
    BY <1>1 DEF IndexCopies, Copies, Embedding, TablesOK
  <1>7. TablesOK'
    BY <1>1, <1>3, <1>4, <1>6 DEF TablesOK
  <1>8. "overlap" \notin mishaps' => Gone'
    BY <1>2, <1>3, <1>4, <1>5, Planned DEF Current, Gone, HasStatus
  <1>9. mishaps' = {} => Clean'
    BY <1>1, <1>3, <1>5, <1>6, Planned DEF Clean, Current, Gone, HasStatus, TablesOK
  <1> QED
    BY <1>2, <1>5, <1>7, <1>8, <1>9, FinishKeeps

LEMMA VectorSearchKeeps ==
    ASSUME IInv, NEW t \in Tasks, VectorSearch(t)
    PROVE  IInv'
  <1>1. PICK r : r = [task[t] EXCEPT !.at = "check",
                                     !.found = {m \in Mem : vectors[m] # "none"}]
    OBVIOUS
  <1>2. TablesOK /\ task[t] \in Task /\ Placed(task[t]) /\ task[t].op = "retrieve"
    BY Typed, AtTellsOp DEF VectorSearch
  <1>3. /\ r \in Task /\ r.op = "retrieve" /\ r.at = "check" /\ r.mem = task[t].mem
        /\ r.chosen = task[t].chosen /\ r.copy = task[t].copy
    BY <1>1, <1>2 DEF Task
  <1>4. UNCHANGED <<stores, forgotten, redacted>> /\ BecomeWith(t, r, {})
    BY <1>1 DEF VectorSearch, Become
  <1>5. UNCHANGED <<rows, aged, vectors, traces, forgotten, redacted>>
    BY <1>4 DEF stores
  <1>6. TablesOK' /\ Placed(r) /\ Serves(t, r)
    BY <1>2, <1>3, <1>5 DEF TablesOK, Placed, Serves
  <1>7. "overlap" \notin mishaps' => Current(r)' /\ Gone'
    BY <1>2, <1>3, <1>4, <1>5, Planned DEF Current, Gone, HasStatus, IsActive
  <1>8. mishaps' = {} => Clean' /\ Cleaned(r)'
    BY <1>3, <1>4, <1>5, Planned DEF Clean, Cleaned
  <1> QED
    BY <1>2, <1>3, <1>4, <1>6, <1>7, <1>8, StepKeeps

LEMMA CheckHitKeeps ==
    ASSUME IInv, NEW t \in Tasks, NEW m \in Mem, CheckHit(t, m)
    PROVE  IInv'
  <1>1. PICK r : r = [task[t] EXCEPT !.found = @ \ {m},
                                     !.chosen = IF FetchedActive(m) THEN @ \cup {m} ELSE @]
    OBVIOUS
  <1>2. TablesOK /\ task[t] \in Task /\ Placed(task[t]) /\ task[t].op = "retrieve"
    BY Typed, AtTellsOp DEF CheckHit
  <1>3. /\ r \in Task /\ r.op = "retrieve" /\ r.at = task[t].at /\ r.mem = task[t].mem
        /\ r.copy = task[t].copy
        /\ \A n \in r.chosen : n \in task[t].chosen \/ IsActive(n)
    BY <1>1, <1>2 DEF Task, FetchedActive
  <1>4. UNCHANGED <<stores, forgotten, redacted>> /\ BecomeWith(t, r, {})
    BY <1>1 DEF CheckHit, Become
  <1>5. UNCHANGED <<rows, aged, vectors, traces, forgotten, redacted>>
    BY <1>4 DEF stores
  <1>6. TablesOK' /\ Placed(r) /\ Serves(t, r)
    BY <1>2, <1>3, <1>5 DEF TablesOK, Placed, Serves
  <1>7. "overlap" \notin mishaps' => Current(r)' /\ Gone'
    BY <1>2, <1>3, <1>4, <1>5, Planned DEF Current, Gone, HasStatus, IsActive
  <1>8. mishaps' = {} => Clean' /\ Cleaned(r)'
    BY <1>3, <1>4, <1>5, Planned DEF Clean, Cleaned
  <1> QED
    BY <1>2, <1>3, <1>4, <1>6, <1>7, <1>8, StepKeeps

LEMMA SaveTraceKeeps ==
    ASSUME IInv, NEW t \in Tasks, SaveTrace(t)
    PROVE  IInv'
  <1>1. TablesOK /\ task[t] \in Task /\ task[t].op = "retrieve"
    BY Typed, AtTellsOp DEF SaveTrace
  <1>2. /\ UNCHANGED <<rows, aged, vectors, receipts, forgotten, redacted>>
        /\ traces' = traces \cup task[t].chosen
    BY DEF SaveTrace
  <1>3. FinishWith(t, {}) /\ BecomeWith(t, Idle, {})
    BY DEF SaveTrace, Finish, Become, FinishWith
  <1>4. TablesOK'
    BY <1>1, <1>2 DEF TablesOK, Task
  <1>5. "overlap" \notin mishaps' => Gone'
    BY <1>2, <1>3, Planned DEF Gone, HasStatus
  <1>6. mishaps' = {} => Clean'
    BY <1>1, <1>2, <1>3, Planned DEF Clean, Current, Gone, IsActive, HasStatus
  <1> QED
    BY <1>1, <1>3, <1>4, <1>5, <1>6, FinishKeeps

LEMMA AbandonKeeps ==
    ASSUME IInv, NEW t \in Tasks, Abandon(t)
    PROVE  IInv'
  <1>1. UNCHANGED <<rows, aged, vectors, traces, forgotten, redacted>>
    BY DEF Abandon, stores
  <1>2. FinishWith(t, {}) /\ BecomeWith(t, Idle, {}) /\ task[t].op # "idle"
    BY DEF Abandon, Finish, Become, FinishWith
  <1>3. TablesOK'
    BY <1>1, Typed DEF TablesOK
  <1>4. ("overlap" \notin mishaps' => Gone') /\ (mishaps' = {} => Clean')
    BY <1>1, <1>2, Planned DEF Gone, HasStatus, Clean
  <1> QED
    BY <1>2, <1>3, <1>4, FinishKeeps

LEMMA AgeKeeps ==
    ASSUME IInv, NEW m \in Mem, Age(m)
    PROVE  IInv'
  <1>1. /\ UNCHANGED <<rows, vectors, traces, receipts, task, forgotten, redacted, mishaps>>
        /\ aged' = aged \cup {m} /\ Watch
    BY DEF Age
  <1>2. TypeOK'
    BY <1>1 DEF IInv, TypeOK, TablesOK, Watch
  <1>3. AloneInv'
    BY <1>1 DEF IInv, AloneInv, Current, Gone, HasStatus, IsActive
  <1>4. CleanInv'
    BY <1>1 DEF IInv, CleanInv, Clean, Cleaned
  <1>5. NeverServesTheDead'
    BY <1>1 DEF IInv, NeverServesTheDead, Watch
  <1> QED
    BY <1>2, <1>3, <1>4, <1>5 DEF IInv

LEMMA StepPreserves == IInv /\ [Next]_vars => IInv'
  <1> SUFFICES ASSUME IInv, [Next]_vars PROVE IInv'
    OBVIOUS
  <1>1. CASE UNCHANGED vars
    BY <1>1 DEF vars, IInv, TypeOK, TablesOK, AloneInv, Current, Gone, HasStatus, IsActive,
                CleanInv, Clean, Cleaned, NeverServesTheDead
  <1>2. ASSUME NEW m \in Mem, Age(m)
        PROVE  IInv'
    BY <1>2, AgeKeeps
  <1>3. ASSUME NEW t \in Tasks, Step(t)
        PROVE  IInv'
    <2>1. CASE \E m \in Mem, raw \in BOOLEAN : Ingest(t, m, raw)
      BY <2>1, IngestKeeps
    <2>2. CASE \E m \in Mem : Delete(t, m) \/ Redact(t, m) \/ Merge(t, m)
      BY <2>2, DeleteKeeps, RedactKeeps, MergeKeeps
    <2>3. CASE \E m \in Mem : ExpireCopy(t, m) \/ CheckHit(t, m)
      BY <2>3, ExpireCopyKeeps, CheckHitKeeps
    <2>4. CASE DeleteVectors(t) \/ DeleteTraces(t) \/ AppendReceipt(t)
      BY <2>4, DeleteVectorsKeeps, DeleteTracesKeeps, AppendReceiptKeeps
    <2>5. CASE WriteMasked(t) \/ WriteMerged(t) \/ IndexCopies(t)
      BY <2>5, WriteMaskedKeeps, WriteMergedKeeps, IndexCopiesKeeps
    <2>6. CASE Sweep(t) \/ Reindex(t) \/ Retrieve(t)
      BY <2>6, SweepKeeps, ReindexKeeps, RetrieveKeeps
    <2>7. CASE VectorSearch(t) \/ SaveTrace(t) \/ Abandon(t)
      BY <2>7, VectorSearchKeeps, SaveTraceKeeps, AbandonKeeps
    <2> QED
      BY <1>3, <2>1, <2>2, <2>3, <2>4, <2>5, <2>6, <2>7 DEF Step
  <1> QED
    BY <1>1, <1>2, <1>3 DEF Next

LEMMA Invariant == Spec => []IInv
  BY InitInv, StepPreserves, PTL DEF Spec

-----------------------------------------------------------------------------
(* The theorems. *)

\* Whatever the vector index still holds, Retrieve only selects memories that
\* were active at some moment while it ran: a hit is fetched again, and dropped
\* unless IsActive.
THEOREM ServesTheLiving == Spec => []NeverServesTheDead
  <1>1. IInv => NeverServesTheDead
    BY DEF IInv
  <1> QED
    BY <1>1, Invariant, PTL

\* As long as no two operations overlapped, a deletion or redaction that was
\* acknowledged stays; and when no best-effort call of Delete was lost either,
\* neither vectors nor traces of a forgotten memory are left once all is idle.
THEOREM AloneIsForgotten == Spec => []AloneForgets
  <1>1. ASSUME IInv PROVE AloneForgets
    <2>1. "overlap" \notin mishaps => /\ \A m \in forgotten : HasStatus(m, "deleted")
                                      /\ \A m \in redacted : ~rows[m].raw
      BY <1>1 DEF IInv, AloneInv, Gone
    <2>2. mishaps = {} => \A m \in forgotten : vectors[m] = "none" /\ m \notin traces
      BY <1>1 DEF IInv, CleanInv, Clean
    <2> QED
      BY <2>1, <2>2 DEF AloneForgets
  <1> QED
    BY <1>1, Invariant, PTL

\* What a task writes over a deleted row is deleted too, unless it holds a copy
\* from before the deletion: Get and List filter what an operation starts from.
LEMMA WritesKeepDeleted ==
    ASSUME IInv, Next, NEW m \in Mem, HasStatus(m, "deleted"),
           \A t \in Tasks : ~HoldsLiveCopy(t, m)
    PROVE  HasStatus(m, "deleted")'
  <1>1. TablesOK /\ rows[m] # NoRow /\ rows[m].status = "deleted"
    BY DEF IInv, TypeOK, HasStatus
  <1>2. ASSUME NEW n \in Mem, NEW row \in Row, Upsert(n, row),
               n = m => row.status = "deleted"
        PROVE  HasStatus(m, "deleted")'
    BY <1>1, <1>2, UpsertWrites DEF HasStatus
  <1>3. CASE UNCHANGED rows
    BY <1>1, <1>3 DEF HasStatus
  <1>4. ASSUME NEW t \in Tasks, NEW n \in Mem, NEW raw \in BOOLEAN, Ingest(t, n, raw)
        PROVE  HasStatus(m, "deleted")'
    <2>1. PICK row : row = [status |-> "active", raw |-> raw]
      OBVIOUS
    <2>2. row \in Row /\ rows[n] = NoRow /\ Upsert(n, row)
      BY <1>4, <2>1 DEF Ingest, Row
    <2> QED
      BY <1>1, <1>2, <2>2
  <1>5. ASSUME NEW t \in Tasks, NEW n \in Mem, Delete(t, n)
        PROVE  HasStatus(m, "deleted")'
    <2>1. PICK row : row = [rows[n] EXCEPT !.status = "deleted"]
      OBVIOUS
    <2>2. rows[n] # NoRow /\ Upsert(n, row)
      BY <1>5, <2>1 DEF Delete
    <2>3. row \in Row /\ row.status = "deleted"
      BY <1>1, <2>1, <2>2 DEF TablesOK, Row
    <2> QED
      BY <1>2, <2>2, <2>3
  <1>6. ASSUME NEW t \in Tasks, NEW n \in Mem, ExpireCopy(t, n)
        PROVE  HasStatus(m, "deleted")'
    <2>1. PICK row : row = [task[t].copy[n] EXCEPT !.status = "expired"]
      OBVIOUS
    <2>2. task[t].op = "sweep" /\ n \in Copies(t) /\ Upsert(n, row)
      BY <1>6, <2>1 DEF ExpireCopy
    <2>3. /\ task[t].copy[n] \in Row /\ task[t].copy[n].status = "active"
      BY <2>2, Typed DEF Copies, Placed, Task
    <2>4. row \in Row /\ n # m
      BY <2>1, <2>2, <2>3 DEF Row, HoldsLiveCopy
    <2> QED
      BY <1>2, <2>2, <2>4
  <1>7. ASSUME NEW t \in Tasks, WriteMasked(t)
        PROVE  HasStatus(m, "deleted")'
    <2>1. PICK n : n = task[t].mem
      OBVIOUS
    <2>2. PICK row : row = Masked(task[t].copy[n])
      OBVIOUS
    <2>3. /\ task[t].op = "redact" /\ task[t].at = "write"
          /\ Upsert(n, row) \/ UNCHANGED rows
      BY <1>7, <2>1, <2>2 DEF WriteMasked
    <2>4. n \in Mem /\ task[t].copy[n] \in Row /\ task[t].copy[n] # NoRow
      BY <2>1, <2>3, Typed DEF Placed, Task
    <2>5. row \in Row /\ row.status = task[t].copy[n].status
      BY <2>2, <2>4 DEF Masked, Row
    <2>6. n = m => row.status = "deleted"
      BY <2>3, <2>4, <2>5 DEF HoldsLiveCopy, Copies
    <2> QED
      BY <1>2, <1>3, <2>3, <2>4, <2>5, <2>6
  <1>8. ASSUME NEW t \in Tasks, WriteMerged(t)
        PROVE  HasStatus(m, "deleted")'
    <2>1. PICK n : n = task[t].mem
      OBVIOUS
    <2>2. /\ task[t].op = "merge" /\ task[t].at \in {"write", "rewrite"}
          /\ Upsert(n, task[t].copy[n])
      BY <1>8, <2>1 DEF WriteMerged
    <2>3. n \in Mem /\ task[t].copy[n] \in Row /\ task[t].copy[n] # NoRow
      BY <2>1, <2>2, Typed DEF Placed, Task
    <2>4. n = m => task[t].copy[n].status = "deleted"
      BY <2>2, <2>3 DEF HoldsLiveCopy, Copies
    <2> QED
      BY <1>2, <2>2, <2>3, <2>4
  <1>9. ASSUME NEW t \in Tasks, Step(t)
        PROVE  HasStatus(m, "deleted")'
    <2>1. CASE DeleteVectors(t) \/ DeleteTraces(t) \/ AppendReceipt(t) \/ IndexCopies(t)
      BY <1>3, <2>1 DEF DeleteVectors, DeleteTraces, AppendReceipt, IndexCopies
    <2>2. CASE Sweep(t) \/ Reindex(t) \/ Retrieve(t) \/ VectorSearch(t)
      BY <1>3, <2>2 DEF Sweep, Reindex, Retrieve, VectorSearch, stores
    <2>3. CASE SaveTrace(t) \/ Abandon(t)
      BY <1>3, <2>3 DEF SaveTrace, Abandon, stores
    <2>4. CASE \E n \in Mem : Redact(t, n) \/ Merge(t, n) \/ CheckHit(t, n)
      BY <1>3, <2>4 DEF Redact, Merge, CheckHit, stores
    <2>5. CASE \/ \E n \in Mem, raw \in BOOLEAN : Ingest(t, n, raw)
               \/ \E n \in Mem : Delete(t, n) \/ ExpireCopy(t, n)
               \/ WriteMasked(t) \/ WriteMerged(t)
      BY <1>4, <1>5, <1>6, <1>7, <1>8, <2>5
    <2> QED
      BY <1>9, <2>1, <2>2, <2>3, <2>4, <2>5 DEF Step
  <1>10. ASSUME NEW n \in Mem, Age(n)
         PROVE  HasStatus(m, "deleted")'
    BY <1>3, <1>10 DEF Age
  <1> QED
    BY <1>9, <1>10 DEF Next

\* A deleted row leaves deleted only through a task that holds a copy of it from
\* before the deletion: the sweeper, the redactor and the merge write back what
\* they read, without looking at the row again.
THEOREM ResurrectionsAreStale == Spec => OnlyStaleCopiesResurrect
  <1>1. IInv /\ [Next]_vars =>
            [\A m \in Mem :
               /\ HasStatus(m, "deleted")
               /\ \A t \in Tasks : ~HoldsLiveCopy(t, m)
               => HasStatus(m, "deleted")']_vars
    BY WritesKeepDeleted
  <1> QED
    BY <1>1, Invariant, PTL DEF Spec, OnlyStaleCopiesResurrect

-----------------------------------------------------------------------------
(* Induction over the natural numbers. *)

\* Some number of a set of natural numbers is its least.
LEMMA LeastNumber ==
    ASSUME NEW S \in SUBSET Nat, S # {}
    PROVE  \E n \in S : \A k \in S : n <= k
  <1> DEFINE R == OpToRel(<, Nat)
  <1>1. IsWellFoundedOn(R, Nat)
    BY NatLessThanWellFounded
  <1>2. PICK n \in S : \A k \in S : <<k, n>> \notin R
    BY <1>1, WFMin
  <1>3. \A k \in S : ~(k < n)
    BY <1>2 DEF OpToRel
  <1> QED
    BY <1>3

\* Induction: a set that holds 0, and with every number the next, holds them all.
LEMMA Induct ==
    ASSUME NEW S, 0 \in S, \A n \in Nat : n \in S => n + 1 \in S
    PROVE  Nat \subseteq S
  <1> DEFINE T == Nat \ S
  <1>1. SUFFICES ASSUME T # {} PROVE FALSE
    OBVIOUS
  <1>2. PICK n \in T : \A k \in T : n <= k
    <2> T \in SUBSET Nat
      OBVIOUS
    <2> HIDE DEF T
    <2> QED
      BY <1>1, LeastNumber
  <1>3. n # 0 /\ n - 1 \in Nat /\ n - 1 \notin T
    BY <1>2
  <1> QED
    BY <1>2, <1>3

-----------------------------------------------------------------------------
(* TraceStore: removeString is a filter, although it overwrites what it reads. *)

\* What computes Without: the ids kept of each of the first n + 1 fronts of s.
IsFront(f, s, S, n) ==
    f = [i \in 0 .. n |-> IF i = 0 THEN <<>> ELSE KeptOf(f[i - 1], s[i], S)]

\* The function that computes Without exists.
LEMMA FrontExists ==
    ASSUME NEW s, NEW S, NEW n \in Nat
    PROVE  \E f : IsFront(f, s, S, n)
  <1> DEFINE N == {k \in Nat : \E f : IsFront(f, s, S, k)}
  <1>1. 0 \in N
    <2>1. IsFront([i \in 0 .. 0 |-> <<>>], s, S, 0)
      BY DEF IsFront
    <2> QED
      BY <2>1
  <1>2. ASSUME NEW k \in Nat, k \in N
        PROVE  k + 1 \in N
    <2>1. PICK f : IsFront(f, s, S, k)
      BY <1>2
    <2> DEFINE g == [i \in 0 .. k + 1 |->
                        IF i <= k THEN f[i] ELSE KeptOf(f[i - 1], s[i], S)]
    <2>2. ASSUME NEW i \in 0 .. k + 1
          PROVE  g[i] = IF i = 0 THEN <<>> ELSE KeptOf(g[i - 1], s[i], S)
      <3>1. i # 0 => i - 1 \in 0 .. k /\ g[i - 1] = f[i - 1]
        OBVIOUS
      <3>2. i <= k => f[i] = IF i = 0 THEN <<>> ELSE KeptOf(f[i - 1], s[i], S)
        BY <2>1 DEF IsFront
      <3> QED
        BY <3>1, <3>2
    <2>3. IsFront(g, s, S, k + 1)
      BY <2>2 DEF IsFront
    <2> QED
      BY <2>3
  <1> QED
    <2> HIDE DEF N
    <2>1. n \in N
      BY <1>1, <1>2, Induct
    <2> QED
      BY <2>1 DEF N

LEMMA WithoutFront ==
    ASSUME NEW s \in Seq(Memories), NEW S
    PROVE  \E f : IsFront(f, s, S, Len(s)) /\ Without(s, S) = f[Len(s)]
  <1> Len(s) \in Nat
    OBVIOUS
  <1>1. \E f : IsFront(f, s, S, Len(s))
    BY FrontExists
  <1> DEFINE f == CHOOSE f : IsFront(f, s, S, Len(s))
  <1>2. IsFront(f, s, S, Len(s))
    BY <1>1
  <1>3. Without(s, S) = f[Len(s)]
    BY DEF Without, IsFront
  <1> QED
    BY <1>2, <1>3

\* Fronts of two sequences agree as far as the sequences do.
LEMMA FrontsAgree ==
    ASSUME NEW s, NEW u, NEW S, NEW n \in Nat, NEW p \in n .. n + 1,
           \A i \in 1 .. n : s[i] = u[i],
           NEW f, IsFront(f, s, S, n), NEW g, IsFront(g, u, S, p)
    PROVE  f[n] = g[n]
  <1> DEFINE N == {k \in Nat : k <= n => f[k] = g[k]}
  <1>1. 0 \in N
    BY DEF IsFront
  <1>2. ASSUME NEW k \in Nat, k \in N
        PROVE  k + 1 \in N
    <2>1. SUFFICES ASSUME k + 1 <= n PROVE f[k + 1] = g[k + 1]
      OBVIOUS
    <2>2. f[k + 1] = KeptOf(f[k], s[k + 1], S)
      BY <2>1 DEF IsFront
    <2>3. g[k + 1] = KeptOf(g[k], u[k + 1], S)
      BY <2>1 DEF IsFront
    <2> QED
      BY <1>2, <2>1, <2>2, <2>3
  <1> QED
    <2> HIDE DEF N
    <2>1. n \in N
      BY <1>1, <1>2, Induct
    <2> QED
      BY <2>1 DEF N

\* Without one id at a time.
LEMMA WithoutNone ==
    ASSUME NEW S
    PROVE  Without(<<>>, S) = <<>>
  <1>1. <<>> \in Seq(Memories) /\ Len(<<>>) = 0
    OBVIOUS
  <1>2. PICK f : IsFront(f, <<>>, S, 0) /\ Without(<<>>, S) = f[0]
    BY <1>1, WithoutFront
  <1> QED
    BY <1>2 DEF IsFront

LEMMA WithoutOne ==
    ASSUME NEW s \in Seq(Memories), NEW x \in Memories, NEW S
    PROVE  Without(Append(s, x), S) = KeptOf(Without(s, S), x, S)
  <1> DEFINE u == Append(s, x)
             n == Len(s)
  <1>1. /\ n \in Nat /\ u \in Seq(Memories) /\ Len(u) = n + 1 /\ u[n + 1] = x
        /\ \A i \in 1 .. n : s[i] = u[i]
    OBVIOUS
  <1>2. PICK f : IsFront(f, s, S, n) /\ Without(s, S) = f[n]
    BY WithoutFront
  <1> HIDE DEF u, n
  <1>3. PICK g : IsFront(g, u, S, n + 1) /\ Without(u, S) = g[n + 1]
    BY <1>1, WithoutFront
  <1>4. g[n + 1] = KeptOf(g[n], x, S)
    BY <1>1, <1>3 DEF IsFront
  <1>5. f[n] = g[n]
    BY <1>1, <1>2, <1>3, FrontsAgree
  <1> QED
    BY <1>2, <1>3, <1>4, <1>5 DEF u

\* The first ids of a list, one more at a time.
LEMMA SliceSteps ==
    ASSUME NEW s \in Seq(Memories), NEW n \in 0 .. Len(s)
    PROVE  /\ Slice(s, n) \in Seq(Memories) /\ Len(Slice(s, n)) = n
           /\ \A i \in 1 .. n : Slice(s, n)[i] = s[i]
           /\ n = 0 => Slice(s, n) = <<>>
           /\ n # 0 => Slice(s, n) = Append(Slice(s, n - 1), s[n]) /\ s[n] \in Memories
           /\ n = Len(s) => Slice(s, n) = s
  BY DEF Slice

\* What is not to be removed stays, and removing more is removing the rest.
LEMMA WithoutSteps ==
    ASSUME NEW s \in Seq(Memories), NEW S, NEW m \in Memories
    PROVE  /\ Without(s, S) \in Seq(Memories)
           /\ Without(Without(s, S), {m}) = Without(s, S \cup {m})
           /\ (\A i \in 1 .. Len(s) : s[i] \notin S) => Without(s, S) = s
  <1> DEFINE Good(u) == /\ Without(u, S) \in Seq(Memories)
                        /\ Without(Without(u, S), {m}) = Without(u, S \cup {m})
             N == {k \in Nat : k <= Len(s) =>
                       /\ Good(Slice(s, k))
                       /\ (\A i \in 1 .. k : s[i] \notin S) => Without(Slice(s, k), S) = Slice(s, k)}
  <1>1. 0 \in N
    BY SliceSteps, WithoutNone
  <1>2. ASSUME NEW k \in Nat, k \in N
        PROVE  k + 1 \in N
    <2>1. SUFFICES ASSUME k + 1 <= Len(s)
          PROVE  /\ Good(Slice(s, k + 1))
                 /\ (\A i \in 1 .. k + 1 : s[i] \notin S)
                    => Without(Slice(s, k + 1), S) = Slice(s, k + 1)
      OBVIOUS
    <2> DEFINE u == Slice(s, k)
               x == s[k + 1]
    <2>2. Slice(s, k + 1) = Append(u, x) /\ x \in Memories /\ u \in Seq(Memories)
      <3>1. k + 1 \in 0 .. Len(s) /\ k \in 0 .. Len(s) /\ k + 1 - 1 = k
        BY <2>1
      <3> QED
        BY <3>1, SliceSteps
    <2>3. Good(u) /\ ((\A i \in 1 .. k : s[i] \notin S) => Without(u, S) = u)
      BY <1>2, <2>1
    <2> HIDE DEF u, x
    <2>4. /\ Without(Append(u, x), S) = KeptOf(Without(u, S), x, S)
          /\ Without(Append(u, x), S \cup {m}) = KeptOf(Without(u, S \cup {m}), x, S \cup {m})
      BY <2>2, WithoutOne
    <2>5. Without(Append(Without(u, S), x), {m}) = KeptOf(Without(Without(u, S), {m}), x, {m})
      BY <2>2, <2>3, WithoutOne
    <2>6. CASE x \in S
      <3>1. Without(Append(u, x), S) = Without(u, S)
        BY <2>4, <2>6 DEF KeptOf
      <3>2. Without(Append(u, x), S \cup {m}) = Without(u, S \cup {m})
        BY <2>4, <2>6 DEF KeptOf
      <3>3. Good(Slice(s, k + 1))
        BY <2>2, <2>3, <3>1, <3>2
      <3>4. k + 1 \in 1 .. k + 1 /\ s[k + 1] \in S
        BY <2>6 DEF x
      <3> QED
        BY <3>3, <3>4
    <2>7. CASE x \notin S
      <3>1. Without(Append(u, x), S) = Append(Without(u, S), x)
        BY <2>4, <2>7 DEF KeptOf
      <3>2. Append(Without(u, S), x) \in Seq(Memories)
        BY <2>2, <2>3
      <3>3. x \in S \cup {m} <=> x \in {m}
        BY <2>7
      <3>4. Without(Append(u, x), S \cup {m}) = KeptOf(Without(Without(u, S), {m}), x, {m})
        BY <2>3, <2>4, <3>3 DEF KeptOf
      <3>5. Good(Slice(s, k + 1))
        BY <2>2, <2>5, <3>1, <3>2, <3>4
      <3>6. ASSUME \A i \in 1 .. k + 1 : s[i] \notin S
            PROVE  Without(u, S) = u
        BY <2>3, <3>6
      <3> QED
        BY <2>2, <3>1, <3>5, <3>6
    <2> QED
      BY <2>6, <2>7
  <1> QED
    <2>1. Len(s) \in Nat
      OBVIOUS
    <2>2. Slice(s, Len(s)) = s
      BY <2>1, SliceSteps
    <2> HIDE DEF N
    <2>3. Len(s) \in N
      BY <1>1, <1>2, <2>1, Induct
    <2> QED
      BY <2>1, <2>2, <2>3 DEF N

LEMMA SliceGrows ==
    ASSUME NEW s \in Seq(Memories), NEW n \in Nat, n < Len(s)
    PROVE  Slice(s, n + 1) = Append(Slice(s, n), s[n + 1])
  <1>1. n + 1 \in 0 .. Len(s) /\ n + 1 # 0 /\ n + 1 - 1 = n
    OBVIOUS
  <1>2. Slice(s, n + 1) = Append(Slice(s, n + 1 - 1), s[n + 1])
    BY <1>1, SliceSteps
  <1> QED
    BY <1>1, <1>2

LEMMA SlicesAgree ==
    ASSUME NEW s \in Seq(Memories), NEW u \in Seq(Memories), Len(s) = Len(u),
           NEW n \in 0 .. Len(s), \A i \in 1 .. n : s[i] = u[i]
    PROVE  Slice(s, n) = Slice(u, n)
  <1>1. /\ Slice(s, n) \in Seq(Memories) /\ Len(Slice(s, n)) = n
        /\ Slice(u, n) \in Seq(Memories) /\ Len(Slice(u, n)) = n
        /\ \A i \in 1 .. n : Slice(s, n)[i] = Slice(u, n)[i]
    BY SliceSteps
  <1> HIDE DEF Slice
  <1> QED
    BY <1>1

\* The loop of removeString, and where it stands after i ids: what it has kept is
\* in front, what it has not read is as it was, and where nothing was removed
\* nothing moved.
IsLoop(f, a, n, m) ==
    f = [i \in 0 .. n |-> IF i = 0 THEN [cells |-> a, kept |-> 0] ELSE KeptInFront(f[i - 1], i, m)]

LEMMA LoopExists ==
    ASSUME NEW a, NEW m, NEW n \in Nat
    PROVE  \E f : IsLoop(f, a, n, m)
  <1> DEFINE N == {k \in Nat : \E f : IsLoop(f, a, k, m)}
  <1>1. 0 \in N
    <2>1. IsLoop([i \in 0 .. 0 |-> [cells |-> a, kept |-> 0]], a, 0, m)
      BY DEF IsLoop
    <2> QED
      BY <2>1
  <1>2. ASSUME NEW k \in Nat, k \in N
        PROVE  k + 1 \in N
    <2>1. PICK f : IsLoop(f, a, k, m)
      BY <1>2
    <2> DEFINE g == [i \in 0 .. k + 1 |-> IF i <= k THEN f[i] ELSE KeptInFront(f[i - 1], i, m)]
    <2>2. ASSUME NEW i \in 0 .. k + 1
          PROVE  g[i] = IF i = 0 THEN [cells |-> a, kept |-> 0] ELSE KeptInFront(g[i - 1], i, m)
      <3>1. i # 0 => i - 1 \in 0 .. k /\ g[i - 1] = f[i - 1]
        OBVIOUS
      <3>2. i <= k => f[i] = IF i = 0 THEN [cells |-> a, kept |-> 0]
                             ELSE KeptInFront(f[i - 1], i, m)
        BY <2>1 DEF IsLoop
      <3> QED
        BY <3>1, <3>2
    <2>3. IsLoop(g, a, k + 1, m)
      BY <2>2 DEF IsLoop
    <2> QED
      BY <2>3
  <1> QED
    <2> HIDE DEF N
    <2>1. n \in N
      BY <1>1, <1>2, Induct
    <2> QED
      BY <2>1 DEF N

LEMMA RemoveLoop ==
    ASSUME NEW a, NEW m, NEW n \in Nat
    PROVE  \E f : IsLoop(f, a, n, m) /\ RemoveString(a, n, m) = f[n]
  <1>1. \E f : IsLoop(f, a, n, m)
    BY LoopExists
  <1> DEFINE f == CHOOSE f : IsLoop(f, a, n, m)
  <1>2. IsLoop(f, a, n, m)
    BY <1>1
  <1>3. RemoveString(a, n, m) = f[n]
    BY DEF RemoveString, IsLoop
  <1> QED
    BY <1>2, <1>3

Untouched(r, a, i, m) ==
    \A k \in 0 .. Len(a) :
        (\A j \in 1 .. k : a[j] # m) => /\ k <= r.kept \/ r.kept = i
                                        /\ \A j \in 1 .. k : r.cells[j] = a[j]

From(r, a, i, m) ==
    /\ \A j \in i + 1 .. Len(a) : r.cells[j] = a[j]
    /\ \A j \in 1 .. Len(a) : r.cells[j] = a[j] \/ \E x \in 1 .. i : r.cells[j] = a[x]
    /\ \A j \in 1 .. r.kept : r.cells[j] # m /\ \E x \in 1 .. i : r.cells[j] = a[x]

AfterIds(r, a, i, m) ==
    /\ r.kept \in 0 .. i
    /\ r.cells \in Seq(Memories) /\ Len(r.cells) = Len(a)
    /\ From(r, a, i, m)
    /\ Slice(r.cells, r.kept) = Without(Slice(a, i), {m})
    /\ Untouched(r, a, i, m)

LEMMA OneMoreId ==
    ASSUME NEW a \in Seq(Memories), NEW m \in Memories, NEW i \in Nat, i < Len(a),
           NEW r, AfterIds(r, a, i, m)
    PROVE  AfterIds(KeptInFront(r, i + 1, m), a, i + 1, m)
  <1> DEFINE v == a[i + 1]
             q == KeptInFront(r, i + 1, m)
  <1>1. /\ Len(a) \in Nat /\ i + 1 \in 1 .. Len(a) /\ v \in Memories
        /\ r.cells[i + 1] = v /\ r.kept \in 0 .. i
    BY DEF AfterIds, From
  <1>2. Without(Slice(a, i + 1), {m}) = KeptOf(Without(Slice(a, i), {m}), v, {m})
    <2>1. i + 1 \in 0 .. Len(a) /\ i \in 0 .. Len(a) /\ i + 1 - 1 = i
      BY <1>1
    <2>2. Slice(a, i + 1) = Append(Slice(a, i), v) /\ Slice(a, i) \in Seq(Memories)
      BY <2>1, SliceSteps
    <2> DEFINE u == Slice(a, i)
    <2>3. u \in Seq(Memories) /\ v \in Memories
      BY <1>1, <2>2
    <2> HIDE DEF u, v
    <2>4. Without(Append(u, v), {m}) = KeptOf(Without(u, {m}), v, {m})
      BY <2>3, WithoutOne
    <2> QED
      BY <2>2, <2>4 DEF u
  <1>3. CASE v = m
    <2>1. q = r
      BY <1>1, <1>3 DEF KeptInFront
    <2>2. Without(Slice(a, i + 1), {m}) = Without(Slice(a, i), {m})
      BY <1>2, <1>3 DEF KeptOf
    <2>3. From(r, a, i + 1, m)
      BY <1>1 DEF AfterIds, From
    <2>4. Untouched(r, a, i + 1, m)
      BY <1>1, <1>3 DEF AfterIds, Untouched
    <2> HIDE DEF q, v
    <2> QED
      BY <1>1, <2>1, <2>2, <2>3, <2>4 DEF AfterIds, q
  <1>4. CASE v # m
    <2> DEFINE c == [r.cells EXCEPT ![r.kept + 1] = v]
    <2>1. q = [cells |-> c, kept |-> r.kept + 1]
      BY <1>1, <1>4 DEF KeptInFront
    <2>2. /\ r.cells \in Seq(Memories) /\ Len(r.cells) = Len(a)
          /\ r.kept + 1 \in 1 .. i + 1 /\ r.kept + 1 \in 1 .. Len(a)
      BY <1>1 DEF AfterIds
    <2>3. /\ c \in Seq(Memories) /\ Len(c) = Len(a)
          /\ c[r.kept + 1] = v /\ \A j \in 1 .. Len(a) : j # r.kept + 1 => c[j] = r.cells[j]
      BY <1>1, <2>2
    <2> HIDE DEF c, q
    <2>4. Slice(c, r.kept + 1) = Without(Slice(a, i + 1), {m})
      <3>1. r.kept + 1 \in 0 .. Len(c) /\ r.kept \in 0 .. Len(c) /\ r.kept + 1 - 1 = r.kept
        BY <2>2, <2>3, <1>1
      <3>2. Slice(c, r.kept + 1) = Append(Slice(c, r.kept), v)
        <4>1. r.kept \in Nat /\ r.kept < Len(c)
          BY <1>1, <2>3
        <4>2. Slice(c, r.kept + 1) = Append(Slice(c, r.kept), c[r.kept + 1])
          BY <2>3, <4>1, SliceGrows
        <4> QED
          BY <2>3, <4>2
      <3>3. Slice(c, r.kept) = Slice(r.cells, r.kept)
        <4>1. \A j \in 1 .. r.kept : c[j] = r.cells[j]
          BY <1>1, <2>2, <2>3
        <4>2. r.cells \in Seq(Memories) /\ Len(c) = Len(r.cells)
          BY <2>2, <2>3
        <4> QED
          BY <2>3, <3>1, <4>1, <4>2, SlicesAgree
      <3>4. Slice(r.cells, r.kept) = Without(Slice(a, i), {m})
        BY DEF AfterIds
      <3> QED
        BY <1>2, <1>4, <3>2, <3>3, <3>4 DEF KeptOf
    <2>5. From(q, a, i + 1, m)
      <3>1. ASSUME NEW j \in i + 2 .. Len(a)
            PROVE  c[j] = a[j]
        BY <1>1, <2>2, <2>3 DEF AfterIds, From
      <3>2. ASSUME NEW j \in 1 .. Len(a)
            PROVE  c[j] = a[j] \/ \E x \in 1 .. i + 1 : c[j] = a[x]
        BY <1>1, <2>2, <2>3 DEF AfterIds, From
      <3>3. ASSUME NEW j \in 1 .. r.kept + 1
            PROVE  c[j] # m /\ \E x \in 1 .. i + 1 : c[j] = a[x]
        <4>1. CASE j = r.kept + 1
          BY <1>1, <1>4, <2>3, <4>1
        <4>2. CASE j # r.kept + 1
          <5>1. j \in 1 .. r.kept /\ j \in 1 .. Len(a)
            BY <1>1, <2>2, <4>2
          <5>2. r.cells[j] # m /\ \E x \in 1 .. i : r.cells[j] = a[x]
            BY <5>1 DEF AfterIds, From
          <5> QED
            BY <2>3, <4>2, <5>1, <5>2
        <4> QED
          BY <4>1, <4>2
      <3>4. i + 1 + 1 = i + 2
        OBVIOUS
      <3> QED
        BY <2>1, <3>1, <3>2, <3>3, <3>4 DEF From
    <2>6. Untouched(q, a, i + 1, m)
      <3>1. ASSUME NEW k \in 0 .. Len(a), \A j \in 1 .. k : a[j] # m
            PROVE  /\ k <= r.kept + 1 \/ r.kept + 1 = i + 1
                   /\ \A j \in 1 .. k : c[j] = a[j]
        <4>1. /\ k <= r.kept \/ r.kept = i
              /\ \A j \in 1 .. k : r.cells[j] = a[j]
          BY <3>1 DEF AfterIds, Untouched
        <4>2. k <= r.kept + 1 \/ r.kept + 1 = i + 1
          BY <1>1, <4>1
        <4>3. ASSUME NEW j \in 1 .. k
              PROVE  c[j] = a[j]
          <5>1. j \in 1 .. Len(a)
            BY <1>1
          <5>2. CASE j = r.kept + 1
            <6>1. r.kept = i
              BY <1>1, <4>1, <5>2
            <6> QED
              BY <2>3, <5>2, <6>1
          <5>3. CASE j # r.kept + 1
            BY <2>3, <4>1, <5>1, <5>3
          <5> QED
            BY <5>2, <5>3
        <4> QED
          BY <4>2, <4>3
      <3> QED
        BY <2>1, <3>1 DEF Untouched
    <2> QED
      BY <2>1, <2>2, <2>3, <2>4, <2>5, <2>6 DEF AfterIds, q
  <1> QED
    BY <1>3, <1>4

LEMMA RemoveStringDoes ==
    ASSUME NEW a \in Seq(Memories), NEW m \in Memories, NEW n \in 0 .. Len(a)
    PROVE  AfterIds(RemoveString(a, n, m), a, n, m)
  <1>1. Len(a) \in Nat /\ n \in Nat
    OBVIOUS
  <1>2. PICK f : IsLoop(f, a, n, m) /\ RemoveString(a, n, m) = f[n]
    BY <1>1, RemoveLoop
  <1> DEFINE N == {k \in Nat : k <= n => AfterIds(f[k], a, k, m)}
  <1>3. 0 \in N
    <2>1. f[0] = [cells |-> a, kept |-> 0]
      BY <1>1, <1>2 DEF IsLoop
    <2>2. Slice(a, 0) = <<>> /\ Without(<<>>, {m}) = <<>>
      BY <1>1, SliceSteps, WithoutNone
    <2> QED
      BY <1>1, <2>1, <2>2 DEF AfterIds, From, Untouched
  <1>4. ASSUME NEW k \in Nat, k \in N
        PROVE  k + 1 \in N
    <2>1. SUFFICES ASSUME k + 1 <= n PROVE AfterIds(f[k + 1], a, k + 1, m)
      OBVIOUS
    <2>2. f[k + 1] = KeptInFront(f[k], k + 1, m)
      BY <1>1, <1>2, <2>1 DEF IsLoop
    <2>3. k < Len(a) /\ AfterIds(f[k], a, k, m)
      BY <1>1, <1>4, <2>1
    <2> QED
      BY <2>2, <2>3, OneMoreId
  <1> QED
    <2> HIDE DEF N
    <2>1. n \in N
      BY <1>1, <1>3, <1>4, Induct
    <2> QED
      BY <1>2, <2>1 DEF N


\* No id of S is in a cell of the two lists.
CleanLists(cells, n, k, S) ==
    \A i \in 1 .. Len(cells) : i <= n \/ i <= k => cells[i] \notin S

\* The lists of a trace lie in its array, and no id erased since it
\* was saved is in a cell of them.
TraceInv ==
    /\ array \in [Traces -> Seq(Memories)]
    /\ candidates \in [Traces -> Nat] /\ selected \in [Traces -> Nat]
    /\ scores \in [Traces -> SUBSET Memories]
    /\ returned \in [Traces -> Seq(Memories)]
    /\ saved \subseteq Traces /\ erased \in [Traces -> SUBSET Memories]
    /\ \A t \in Traces :
          /\ candidates[t] <= Len(array[t]) /\ selected[t] <= Len(array[t])
          /\ CleanLists(array[t], candidates[t], selected[t], erased[t])
          /\ erased[t] \cap scores[t] = {}
          /\ CandidateIDs(t) = Remaining(t)

LEMMA TraceInit0 == TraceInit => TraceInv
  <1> SUFFICES ASSUME TraceInit PROVE TraceInv
    OBVIOUS
  <1>1. ASSUME NEW t \in Traces
        PROVE  CandidateIDs(t) = Remaining(t)
    <2>1. Slice(<<>>, 0) = <<>>
      BY DEF Slice
    <2> QED
      BY <2>1, WithoutNone DEF TraceInit, CandidateIDs, Remaining
  <1> QED
    BY <1>1 DEF TraceInit, TraceInv, CleanLists

\* Nothing was erased since a trace that is saved now.
LEMMA BuildTraceKeeps ==
    ASSUME TraceInv, NEW t \in Traces, NEW ids \in Rankings, BuildTrace(t, ids)
    PROVE  TraceInv'
  <1>1. /\ ids \in Seq(Memories) /\ Len(ids) \in Nat /\ ToSet(ids) \subseteq Memories
        /\ \A i \in 1 .. Len(ids) : ids[i] \notin {}
    BY RankingsAreDuplicateFree DEF ToSet
  <1>2. Slice(ids, Len(ids)) = Without(ids, {})
    <2>1. ids \in Seq(Memories)
      BY <1>1
    <2>2. Slice(ids, Len(ids)) = ids
      BY <2>1, SliceSteps
    <2>3. CASE Memories = {}
      <3>1. ids = <<>>
        BY <1>1, <2>3
      <3> QED
        BY <2>2, <3>1, WithoutNone
    <2>4. CASE Memories # {}
      BY <1>1, <2>2, <2>4, WithoutSteps
    <2> QED
      BY <2>3, <2>4
  <1>3. ASSUME NEW u \in Traces
        PROVE  /\ candidates'[u] <= Len(array'[u]) /\ selected'[u] <= Len(array'[u])
               /\ CleanLists(array'[u], candidates'[u], selected'[u], erased'[u])
               /\ erased'[u] \cap scores'[u] = {}
               /\ CandidateIDs(u)' = Remaining(u)'
    <2>1. CASE u = t
      <3>1. /\ array'[u] = ids /\ candidates'[u] = Len(ids) /\ selected'[u] = Len(ids)
            /\ scores'[u] = ToSet(ids) /\ returned'[u] = ids /\ erased'[u] = {}
        BY <2>1 DEF BuildTrace, TraceInv
      <3>2. CandidateIDs(u)' = Slice(ids, Len(ids)) /\ Remaining(u)' = Without(ids, {})
        BY <3>1 DEF CandidateIDs, Remaining
      <3> QED
        BY <1>1, <1>2, <3>1, <3>2 DEF CleanLists
    <2>2. CASE u # t
      <3>1. /\ array'[u] = array[u] /\ candidates'[u] = candidates[u]
            /\ selected'[u] = selected[u] /\ scores'[u] = scores[u]
            /\ returned'[u] = returned[u] /\ erased'[u] = erased[u]
        BY <2>2 DEF BuildTrace, TraceInv
      <3>2. CandidateIDs(u)' = CandidateIDs(u) /\ Remaining(u)' = Remaining(u)
        BY <3>1 DEF CandidateIDs, Remaining
      <3> QED
        BY <3>1, <3>2 DEF TraceInv
    <2> QED
      BY <2>1, <2>2
  <1>4. /\ array' \in [Traces -> Seq(Memories)]
        /\ candidates' \in [Traces -> Nat] /\ selected' \in [Traces -> Nat]
        /\ scores' \in [Traces -> SUBSET Memories]
        /\ returned' \in [Traces -> Seq(Memories)]
        /\ saved' \subseteq Traces /\ erased' \in [Traces -> SUBSET Memories]
    BY <1>1 DEF BuildTrace, TraceInv
  <1> QED
    BY <1>3, <1>4 DEF TraceInv

\* The second filter works on what the first has left in the array they share.
LEMMA TwoFilters ==
    ASSUME NEW a \in Seq(Memories), NEW m \in Memories, NEW S,
           NEW n \in 0 .. Len(a), NEW k \in 0 .. Len(a),
           CleanLists(a, n, k, S),
           NEW p, p = RemoveString(a, n, m),
           NEW q, q = RemoveString(p.cells, k, m)
    PROVE  /\ p.kept \in Nat /\ q.kept \in Nat /\ q.cells \in Seq(Memories)
           /\ p.kept <= Len(q.cells) /\ q.kept <= Len(q.cells)
           /\ Slice(q.cells, p.kept) = Without(Slice(a, n), {m})
           /\ CleanLists(q.cells, p.kept, q.kept, S \cup {m})
  <1> DEFINE c == p.cells
  <1>1. AfterIds(p, a, n, m)
    BY RemoveStringDoes
  <1>2. c \in Seq(Memories) /\ Len(c) = Len(a) /\ Len(a) \in Nat
    BY <1>1 DEF AfterIds
  <1>3. AfterIds(q, c, k, m)
    BY <1>2, RemoveStringDoes
  <1>4. /\ p.kept \in 0 .. n /\ q.kept \in 0 .. k
        /\ q.cells \in Seq(Memories) /\ Len(q.cells) = Len(a)
    BY <1>1, <1>2, <1>3 DEF AfterIds
  <1> HIDE DEF c
  <1>5. \A i \in 1 .. p.kept : /\ c[i] # m /\ c[i] \notin S
                               /\ q.cells[i] = c[i]
    <2>1. \A i \in 1 .. p.kept : c[i] # m /\ \E x \in 1 .. n : c[i] = a[x]
      BY <1>1 DEF AfterIds, From, c
    <2>2. p.kept \in 0 .. Len(c)
      BY <1>2, <1>4
    <2>3. \A i \in 1 .. p.kept : q.cells[i] = c[i]
      BY <1>3, <2>1, <2>2 DEF AfterIds, Untouched
    <2>4. \A x \in 1 .. n : a[x] \notin S
      BY <1>2 DEF CleanLists
    <2> QED
      BY <2>1, <2>3, <2>4
  <1>6. \A i \in 1 .. q.kept : q.cells[i] \notin S \cup {m}
    <2>1. ASSUME NEW i \in 1 .. q.kept
          PROVE  q.cells[i] # m /\ \E x \in 1 .. k : q.cells[i] = c[x]
      BY <1>3 DEF AfterIds, From
    <2>2. ASSUME NEW x \in 1 .. k
          PROVE  c[x] \notin S
      <3>1. x \in 1 .. Len(a) /\ a[x] \notin S
        BY <1>2 DEF CleanLists
      <3>2. c[x] = a[x] \/ \E y \in 1 .. n : c[x] = a[y]
        BY <1>1, <3>1 DEF AfterIds, From, c
      <3>3. \A y \in 1 .. n : a[y] \notin S
        BY <1>2 DEF CleanLists
      <3> QED
        BY <3>1, <3>2, <3>3
    <2> QED
      BY <2>1, <2>2
  <1>7. Slice(q.cells, p.kept) = Without(Slice(a, n), {m})
    <2>1. Slice(q.cells, p.kept) = Slice(c, p.kept)
      <3>1. p.kept \in 0 .. Len(q.cells) /\ Len(q.cells) = Len(c)
        BY <1>2, <1>4
      <3> QED
        BY <1>2, <1>4, <1>5, <3>1, SlicesAgree
    <2> QED
      BY <1>1, <2>1 DEF AfterIds, c
  <1>8. p.kept \in Nat /\ q.kept \in Nat /\ p.kept <= Len(q.cells) /\ q.kept <= Len(q.cells)
    BY <1>2, <1>4
  <1>9. ASSUME NEW i \in 1 .. Len(q.cells)
        PROVE  i <= p.kept \/ i <= q.kept => q.cells[i] \notin S \cup {m}
    <2>1. CASE i <= p.kept
      <3>1. i \in 1 .. p.kept
        BY <1>8, <2>1
      <3> QED
        BY <1>5, <3>1
    <2>2. CASE i <= q.kept
      <3>1. i \in 1 .. q.kept
        BY <1>8, <2>2
      <3> QED
        BY <1>6, <3>1
    <2> QED
      BY <2>1, <2>2
  <1> QED
    BY <1>4, <1>7, <1>8, <1>9 DEF CleanLists

LEMMA DeleteByMemoryIDKeeps ==
    ASSUME TraceInv, NEW m \in Memories, DeleteByMemoryID(m)
    PROVE  TraceInv'
  <1> DEFINE p(t) == RemoveString(array[t], candidates[t], m)
             q(t) == RemoveString(p(t).cells, selected[t], m)
  <1>1. /\ candidates' = [t \in Traces |-> p(t).kept]
        /\ selected'   = [t \in Traces |-> q(t).kept]
        /\ array'      = [t \in Traces |-> q(t).cells]
        /\ scores'     = [t \in Traces |-> scores[t] \ {m}]
        /\ erased'     = [t \in Traces |-> erased[t] \cup {m}]
        /\ UNCHANGED <<returned, saved>>
    BY DEF DeleteByMemoryID
  <1>2. ASSUME NEW t \in Traces
        PROVE  /\ p(t).kept \in Nat /\ q(t).kept \in Nat /\ q(t).cells \in Seq(Memories)
               /\ p(t).kept <= Len(q(t).cells) /\ q(t).kept <= Len(q(t).cells)
               /\ Slice(q(t).cells, p(t).kept) = Without(Slice(array[t], candidates[t]), {m})
               /\ CleanLists(q(t).cells, p(t).kept, q(t).kept, erased[t] \cup {m})
    <2>1. /\ array[t] \in Seq(Memories)
          /\ candidates[t] \in 0 .. Len(array[t]) /\ selected[t] \in 0 .. Len(array[t])
          /\ CleanLists(array[t], candidates[t], selected[t], erased[t])
      BY DEF TraceInv
    <2>2. /\ p(t) = RemoveString(array[t], candidates[t], m)
          /\ q(t) = RemoveString(p(t).cells, selected[t], m)
      OBVIOUS
    <2> HIDE DEF p, q
    <2> QED
      BY <2>1, <2>2, TwoFilters
  <1> HIDE DEF p, q
  <1>3. ASSUME NEW t \in Traces
        PROVE  CandidateIDs(t)' = Remaining(t)'
    <2>1. CandidateIDs(t)' = Slice(q(t).cells, p(t).kept)
      BY <1>1 DEF CandidateIDs
    <2>2. Slice(array[t], candidates[t]) = Without(returned[t], erased[t])
      BY DEF TraceInv, CandidateIDs, Remaining
    <2>3. returned[t] \in Seq(Memories)
      BY DEF TraceInv
    <2>4. Without(Without(returned[t], erased[t]), {m}) = Without(returned[t], erased[t] \cup {m})
      BY <2>3, WithoutSteps
    <2>5. Remaining(t)' = Without(returned[t], erased[t] \cup {m})
      BY <1>1 DEF Remaining
    <2> QED
      BY <1>2, <2>1, <2>2, <2>4, <2>5
  <1>4. ASSUME NEW t \in Traces
        PROVE  /\ candidates'[t] <= Len(array'[t]) /\ selected'[t] <= Len(array'[t])
               /\ CleanLists(array'[t], candidates'[t], selected'[t], erased'[t])
               /\ erased'[t] \cap scores'[t] = {}
    <2>1. erased'[t] \cap scores'[t] = {}
      BY <1>1 DEF TraceInv
    <2> QED
      BY <1>1, <1>2, <2>1
  <1>5. /\ array' \in [Traces -> Seq(Memories)]
        /\ candidates' \in [Traces -> Nat] /\ selected' \in [Traces -> Nat]
    BY <1>1, <1>2
  <1>6. /\ scores' \in [Traces -> SUBSET Memories]
        /\ returned' \in [Traces -> Seq(Memories)]
        /\ saved' \subseteq Traces /\ erased' \in [Traces -> SUBSET Memories]
    BY <1>1 DEF TraceInv
  <1> QED
    BY <1>3, <1>4, <1>5, <1>6 DEF TraceInv

LEMMA TracesKept == TraceInv => TracesForgetAndExplain
  <1> SUFFICES ASSUME TraceInv, NEW t \in Traces
               PROVE  erased[t] \cap ToSet(SelectedIDs(t)) = {}
    BY DEF TraceInv, TracesForgetAndExplain
  <1>1. array[t] \in Seq(Memories) /\ selected[t] \in 0 .. Len(array[t])
    BY DEF TraceInv
  <1>2. /\ SelectedIDs(t) \in Seq(Memories) /\ Len(SelectedIDs(t)) = selected[t]
        /\ \A i \in 1 .. selected[t] : SelectedIDs(t)[i] = array[t][i]
    BY <1>1, SliceSteps DEF SelectedIDs
  <1>3. ASSUME NEW i \in DOMAIN SelectedIDs(t)
        PROVE  SelectedIDs(t)[i] \notin erased[t]
    <2>1. i \in 1 .. selected[t] /\ i \in 1 .. Len(array[t])
      BY <1>1, <1>2
    <2> QED
      BY <1>1, <1>2, <2>1 DEF TraceInv, CleanLists
  <1> QED
    BY <1>3 DEF ToSet

\* TraceStore.TracesForgetAndExplain, whatever the traces, the rankings and the
\* memories erased: removeString's loop, written into the array it reads, is the
\* filter, and the two filters on one array do not harm each other.
THEOREM TracesThm == TraceSpec => []TracesForgetAndExplain
  <1>1. TraceInit => TraceInv
    BY TraceInit0
  <1>2. TraceInv /\ [TraceNext]_traceVars => TraceInv'
    <2> SUFFICES ASSUME TraceInv, [TraceNext]_traceVars PROVE TraceInv'
      OBVIOUS
    <2>1. CASE UNCHANGED traceVars
      BY <2>1 DEF traceVars, TraceInv, CandidateIDs, Remaining
    <2>2. ASSUME NEW t \in Traces, NEW ids \in Rankings, BuildTrace(t, ids)
          PROVE  TraceInv'
      BY <2>2, BuildTraceKeeps
    <2>3. ASSUME NEW m \in Memories, DeleteByMemoryID(m)
          PROVE  TraceInv'
      BY <2>3, DeleteByMemoryIDKeeps
    <2> QED
      BY <2>1, <2>2, <2>3 DEF TraceNext
  <1> QED
    BY <1>1, <1>2, TracesKept, PTL DEF TraceSpec
=============================================================================
