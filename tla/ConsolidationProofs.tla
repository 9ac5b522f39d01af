------------------------ MODULE ConsolidationProofs ------------------------
(***************************************************************************)
(* Consolidation, for any requests, similarities, attempts, faults and     *)
(* compactions; and the scheduler's jobs, of which compaction is one, for  *)
(* any replicas, jobs, deaths and lost sessions.                           *)
(***************************************************************************)
EXTENDS Consolidation, Scheduler, FiniteSetTheorems, TLAPS

-----------------------------------------------------------------------------
(* What is always so: the kinds of all values, and who knows which rows.    *)

Stored(n) == rows[n].status # "absent"

\* Copies of rows that were active when they were listed.
Copies(f) ==
    /\ DOMAIN f \subseteq Ids
    /\ \A n \in DOMAIN f : f[n] \in Row /\ f[n].status = "active" /\ Stored(n)

\* The row an attempt is going to store, or has stored: its own, or one that is
\* there already.
Outcome(r, out) ==
    /\ out[1] \in Ids /\ out[2] \in Row /\ out[2].status = "active"
    /\ out[1] # Id(r) => Stored(out[1])

\* An attempt's id names no row before it stores one, nor do those of later
\* attempts.
Unborn(r, k) == \/ k > task[r].try
                \/ k = task[r].try /\ task[r].pc \in {"waiting", "listed"}

TaskOK(r) ==
    /\ task[r].pc \in {"waiting", "listed", "resolved", "stored", "done", "failed"}
    /\ task[r].try \in 1..MaxTries
    /\ Copies(task[r].seen)
    /\ task[r].pc \in {"resolved", "stored"} => Outcome(r, task[r].out)
    /\ task[r].pc = "stored" => Stored(task[r].out[1])
    /\ \A k \in 1..MaxTries : Unborn(r, k) => ~Stored(<<r, k>>)
    /\ answer[r] \in Ids \cup {None}
    /\ answer[r] # None <=> task[r].pc = "done"

CompactorOK ==
    /\ compactor.pc \in {"idle", "next", "listed"}
    /\ Copies(compactor.todo)
    /\ Copies(compactor.seen)
    /\ compactor.pc = "listed" => compactor.cand \in DOMAIN compactor.todo
    /\ left = Compactions => compactor.pc = "idle"

RowsOK ==
    /\ rows \in [Ids -> Row]
    /\ \A n \in Ids : rows[n].status = "superseded" => rows[n].heir \in Ids
    /\ \A n \in Ids : ~Stored(n) => rows[n] = NoRow

EdgesOK ==
    /\ edges \subseteq Ids \X Actions \X Ids
    /\ \A e \in edges : Stored(e[3])

\* The parts of every task and of the compactor.
RecordsOK ==
    /\ task = [r \in Requests |-> task[r]]
    /\ \A r \in Requests : task[r] = [pc |-> task[r].pc, try |-> task[r].try,
                                      seen |-> task[r].seen, out |-> task[r].out]
    /\ answer = [r \in Requests |-> answer[r]]
    /\ compactor = [pc |-> compactor.pc, todo |-> compactor.todo,
                    cand |-> compactor.cand, seen |-> compactor.seen]

ShapeInv ==
    /\ RowsOK
    /\ EdgesOK
    /\ RecordsOK
    /\ \A r \in Requests : TaskOK(r)
    /\ CompactorOK
    /\ left \in 0..Compactions

LEMMA ListingFacts ==
    ASSUME RowsOK, NEW f \in Listings
    PROVE  /\ Copies(f)
           /\ DOMAIN f \subseteq Active
           /\ \A n \in DOMAIN f : f[n] = rows[n]
  <1>1. PICK L \in SUBSET Active : f = [n \in L |-> rows[n]]
    BY DEF Listings, kSubset
  <1> QED
    BY <1>1 DEF Active, RowsOK, Copies, Stored

LEMMA NoCopiesFacts == Copies(NoCopies) /\ DOMAIN NoCopies = {}
  BY DEF Copies, NoCopies

LEMMA RelFacts ==
    ASSUME NEW r \in Requests, NEW s \in Requests
    PROVE  /\ Rel[r][s] \in Actions
           /\ Rel[r][s] \in {"merged", "superseded"} => Rel[s][r] = Rel[r][s]
           /\ Rel[r][s] # "new" => Rel[r][r] = "merged" /\ Rel[s][s] = "merged"
  BY RelAssumption

LEMMA IdFacts ==
    ASSUME NEW n \in Ids
    PROVE  n[1] \in Requests /\ n[2] \in 1..MaxTries /\ n = <<n[1], n[2]>>
  BY DEF Ids

LEMMA OwnId ==
    ASSUME NEW r \in Requests, TaskOK(r)
    PROVE  Id(r) \in Ids /\ Id(r)[1] = r /\ Id(r) = <<r, task[r].try>>
  BY DEF Id, Ids, TaskOK

\* What the first related neighbour decides.
LEMMA VerdictFacts ==
    ASSUME NEW id \in Ids, NEW seen, DOMAIN seen \subseteq Ids,
           NEW v \in Verdicts(id, seen)
    PROVE  /\ v.action \in Actions
           /\ \/ /\ v.action = "new"
                 /\ \A n \in DOMAIN seen \ {id} : Rel[n[1]][id[1]] = "new"
              \/ /\ v.neighbor \in DOMAIN seen \ {id}
                 /\ v.action = Rel[v.neighbor[1]][id[1]]
                 /\ v.action # "new"
  <1> DEFINE related == {n \in DOMAIN seen \ {id} : Rel[n[1]][id[1]] # "new"}
  <1>1. CASE related = {}
    BY <1>1 DEF Verdicts, Actions
  <1>2. CASE related # {}
    <2>1. PICK n \in related : v = [action |-> Rel[n[1]][id[1]], neighbor |-> n]
      BY <1>2 DEF Verdicts
    <2>2. Rel[n[1]][id[1]] \in Actions
      BY IdFacts, RelFacts
    <2> QED
      BY <2>1, <2>2
  <1> QED
    BY <1>1, <1>2

Wrote(n, row) == rows' = [rows EXCEPT ![n] = row]

\* What Consolidate writes.
LEMMA UpdateFacts ==
    ASSUME NEW id \in Ids, NEW seen, Copies(seen), NEW v \in Verdicts(id, seen),
           NEW sources \in SUBSET Ids,
           rows' = Updated(v, id, sources, seen)
    PROVE  \/ v.action \in {"new", "contradicts"} /\ rows' = rows
           \/ /\ v.action = "merged" /\ v.neighbor \in DOMAIN seen
              /\ Wrote(v.neighbor, Merge(seen[v.neighbor], sources))
           \/ /\ v.action = "superseded" /\ v.neighbor \in DOMAIN seen
              /\ Wrote(v.neighbor, Supersede(seen[v.neighbor], id))
  BY VerdictFacts DEF Copies, Updated, Actions, Wrote

LEMMA MergeFacts ==
    ASSUME NEW row \in Row, NEW sources \in SUBSET Ids
    PROVE  /\ Merge(row, sources) \in Row
           /\ Merge(row, sources).status = row.status
           /\ Merge(row, sources).heir = row.heir
           /\ Merge(row, sources).sources = row.sources \cup sources
  BY DEF Merge, Row

LEMMA SupersedeFacts ==
    ASSUME NEW row \in Row, NEW id \in Ids
    PROVE  /\ Supersede(row, id) \in Row
           /\ Supersede(row, id).status = "superseded"
           /\ Supersede(row, id).heir = id
           /\ Supersede(row, id).sources = row.sources
  BY DEF Supersede, Row

LEMMA NewFacts ==
    ASSUME NEW id \in Ids
    PROVE  /\ NewMemory(id) \in Row
           /\ NewMemory(id).status = "active"
           /\ NewMemory(id).sources = {id}
  BY DEF NewMemory, Row

\* A row is written, and no row vanishes.
LEMMA WriteFacts ==
    ASSUME RowsOK, NEW n \in Ids, NEW row \in Row, row.status # "absent",
           row.status = "superseded" => row.heir \in Ids,
           Wrote(n, row)
    PROVE  /\ RowsOK'
           /\ rows'[n] = row
           /\ \A m \in Ids : m # n => rows'[m] = rows[m]
           /\ \A m \in Ids : Stored(m)' <=> Stored(m) \/ m = n
  BY DEF RowsOK, Stored, Wrote

-----------------------------------------------------------------------------
(* ShapeInv. *)

LEMMA InitShape == ASSUME Init PROVE ShapeInv
  <1>1. RowsOK
    BY DEF Init, RowsOK, NoRow, Row, Stored
  <1>2. EdgesOK /\ RecordsOK /\ left \in 0..Compactions
    BY ConsolidationAssumption DEF Init, EdgesOK, RecordsOK, Idle
  <1>3. ASSUME NEW r \in Requests PROVE TaskOK(r)
    BY NoCopiesFacts, ConsolidationAssumption
       DEF Init, TaskOK, Unborn, Stored, NoRow, Ids, Outcome
  <1>4. CompactorOK
    BY NoCopiesFacts DEF Init, Idle, CompactorOK
  <1> QED
    BY <1>1, <1>2, <1>3, <1>4 DEF ShapeInv

\* No row vanishes: what others know of the rows stays so.
Grows == \A m \in Ids : Stored(m) => Stored(m)'

LEMMA OthersKept ==
    ASSUME NEW s \in Requests, TaskOK(s), Grows,
           task'[s] = task[s], answer'[s] = answer[s],
           \A k \in 1..MaxTries : Stored(<<s, k>>)' => Stored(<<s, k>>)
    PROVE  TaskOK(s)'
  <1> DEFINE t == task[s]
  <1>1. Copies(t.seen)'
    BY DEF TaskOK, Copies, Grows
  <1>2. t.pc \in {"resolved", "stored"} => Outcome(s, t.out)'
    BY DEF TaskOK, Outcome, Grows, Id
  <1> QED
    BY <1>1, <1>2 DEF TaskOK, Unborn, Grows, Outcome

LEMMA CompactorKept ==
    ASSUME CompactorOK, Grows, compactor' = compactor, left' = left
    PROVE  CompactorOK'
  <1>1. Copies(compactor.todo)' /\ Copies(compactor.seen)'
    BY DEF CompactorOK, Copies, Grows
  <1> QED
    BY <1>1 DEF CompactorOK

LEMMA EdgesKept ==
    ASSUME EdgesOK, Grows, edges' = edges
    PROVE  EdgesOK'
  BY DEF EdgesOK, Grows

LEMMA EdgesLinked ==
    ASSUME EdgesOK, Grows, NEW id \in Ids, NEW seen, Copies(seen),
           NEW v \in Verdicts(id, seen), edges' \in Linked(v, id)
    PROVE  EdgesOK'
  <1>1. CASE edges' = edges
    BY <1>1, EdgesKept
  <1>2. CASE edges' = edges \cup {<<id, v.action, v.neighbor>>}
             /\ v.action \in {"superseded", "contradicts"}
    <2>1. v.neighbor \in Ids /\ Stored(v.neighbor) /\ v.action \in Actions
      BY <1>2, VerdictFacts DEF Copies
    <2> QED
      BY <1>2, <2>1 DEF EdgesOK, Grows
  <1> QED
    BY <1>1, <1>2 DEF Linked

LEMMA SameRows ==
    ASSUME RowsOK, rows' = rows
    PROVE  RowsOK' /\ Grows /\ \A m \in Ids : Stored(m)' <=> Stored(m)
  BY DEF RowsOK, Grows, Stored

\* Consolidate writes a row that was there before.
LEMMA UpdateShape ==
    ASSUME RowsOK, NEW id \in Ids, NEW seen, Copies(seen), NEW v \in Verdicts(id, seen),
           NEW sources \in SUBSET Ids,
           rows' = Updated(v, id, sources, seen)
    PROVE  RowsOK' /\ Grows /\ \A m \in Ids : Stored(m)' <=> Stored(m)
  <1>1. CASE rows' = rows
    BY <1>1, SameRows
  <1>2. ASSUME NEW n \in DOMAIN seen, NEW row \in Row, row.status # "absent",
               row.status = "superseded" => row.heir \in Ids,
               Wrote(n, row)
        PROVE  RowsOK' /\ Grows /\ \A m \in Ids : Stored(m)' <=> Stored(m)
    <2>1. n \in Ids /\ Stored(n)
      BY DEF Copies
    <2> QED
      BY <1>2, <2>1, WriteFacts DEF Grows
  <1>3. CASE v.action = "merged" /\ v.neighbor \in DOMAIN seen
             /\ Wrote(v.neighbor, Merge(seen[v.neighbor], sources))
    BY <1>2, <1>3, MergeFacts DEF Copies
  <1>4. CASE v.action = "superseded" /\ v.neighbor \in DOMAIN seen
             /\ Wrote(v.neighbor, Supersede(seen[v.neighbor], id))
    BY <1>2, <1>4, SupersedeFacts DEF Copies
  <1> QED
    BY <1>1, <1>3, <1>4, UpdateFacts

LEMMA BeginShape ==
    ASSUME ShapeInv, NEW r \in Requests, Begin(r)
    PROVE  ShapeInv'
  <1>1. PICK seen \in Listings :
           task' = [task EXCEPT ![r].pc = "listed", ![r].seen = seen]
    BY DEF Begin
  <1>2. Copies(seen)
    BY ListingFacts DEF ShapeInv
  <1>3. /\ rows' = rows /\ edges' = edges /\ answer' = answer
        /\ compactor' = compactor /\ left' = left
    BY DEF Begin
  <1>4. RowsOK' /\ Grows /\ \A m \in Ids : Stored(m)' <=> Stored(m)
    BY <1>3, SameRows DEF ShapeInv
  <1>5. RecordsOK'
    BY <1>1, <1>3 DEF ShapeInv, RecordsOK
  <1>6. /\ task'[r].pc = "listed" /\ task'[r].seen = seen
        /\ task'[r].try = task[r].try
    <2>1. task'[r] = [task[r] EXCEPT !.pc = "listed", !.seen = seen]
      BY <1>1 DEF ShapeInv, RecordsOK
    <2>2. task[r] = [pc |-> task[r].pc, try |-> task[r].try,
                     seen |-> task[r].seen, out |-> task[r].out]
      BY DEF ShapeInv, RecordsOK
    <2> QED
      BY <2>1, <2>2
  <1>7. Copies(seen)'
    BY <1>2, <1>4 DEF Copies
  <1>8. TaskOK(r)'
    BY <1>3, <1>4, <1>6, <1>7 DEF ShapeInv, TaskOK, Unborn, Ids, Begin
  <1>9. ASSUME NEW s \in Requests, s # r PROVE TaskOK(s)'
    <2>1. task'[s] = task[s]
      BY <1>1, <1>9 DEF ShapeInv, RecordsOK
    <2> QED
      BY <1>3, <1>4, <2>1, OthersKept DEF ShapeInv, Ids
  <1> QED
    BY <1>3, <1>4, <1>5, <1>8, <1>9, EdgesKept, CompactorKept DEF ShapeInv

LEMMA ResolveShape ==
    ASSUME ShapeInv, NEW r \in Requests, Resolve(r)
    PROVE  ShapeInv'
  <1>0. PICK id, seen : id = Id(r) /\ seen = task[r].seen
    OBVIOUS
  <1>1. PICK v \in Verdicts(id, seen) :
           /\ rows' = Updated(v, id, {id}, seen)
           /\ edges' \in Linked(v, id)
           /\ task' = [task EXCEPT ![r].pc = "resolved", ![r].seen = NoCopies,
                                   ![r].out = Result(v, id, seen)]
    BY <1>0 DEF Resolve
  <1>2. id \in Ids /\ id = <<r, task[r].try>> /\ Copies(seen) /\ task[r].pc = "listed"
    BY <1>0, OwnId DEF ShapeInv, TaskOK, Resolve
  <1>3. answer' = answer /\ compactor' = compactor /\ left' = left
    BY DEF Resolve
  <1>4. RecordsOK'
    BY <1>1, <1>3 DEF ShapeInv, RecordsOK
  <1>5. /\ task'[r].pc = "resolved" /\ task'[r].seen = NoCopies
        /\ task'[r].try = task[r].try /\ task'[r].out = Result(v, id, seen)
    BY <1>1 DEF ShapeInv, RecordsOK
  <1>6. Id(r)' = id
    BY <1>0, <1>5 DEF Id
  <1>7. RowsOK' /\ Grows /\ \A m \in Ids : Stored(m)' <=> Stored(m)
    BY <1>1, <1>2, UpdateShape DEF ShapeInv
  <1>8. EdgesOK'
    BY <1>1, <1>2, <1>7, EdgesLinked DEF ShapeInv
  <1>9. Outcome(r, Result(v, id, seen))'
    <2>1. CASE v.action = "merged"
      <3>1. /\ v.neighbor \in DOMAIN seen /\ v.neighbor \in Ids /\ Stored(v.neighbor)
            /\ seen[v.neighbor] \in Row /\ seen[v.neighbor].status = "active"
        BY <1>2, <2>1, VerdictFacts DEF Copies
      <3>2. Result(v, id, seen) = <<v.neighbor, Merge(seen[v.neighbor], {id})>>
        BY <2>1 DEF Result
      <3> QED
        BY <1>2, <1>7, <3>1, <3>2, MergeFacts DEF Outcome
    <2>2. CASE v.action # "merged"
      BY <1>2, <1>6, <2>2, NewFacts DEF Result, Outcome
    <2> QED
      BY <2>1, <2>2
  <1>10. TaskOK(r)'
    BY <1>3, <1>2, <1>5, <1>7, <1>9, NoCopiesFacts DEF ShapeInv, TaskOK, Unborn, Ids, Copies
  <1>11. ASSUME NEW s \in Requests, s # r PROVE TaskOK(s)'
    <2>1. task'[s] = task[s]
      BY <1>1, <1>11 DEF ShapeInv, RecordsOK
    <2> QED
      BY <1>3, <1>7, <2>1, OthersKept DEF ShapeInv, Ids
  <1> QED
    BY <1>3, <1>4, <1>7, <1>8, <1>10, <1>11, CompactorKept DEF ShapeInv

\* What Store writes: its attempt's own row, or one that was there before.
LEMMA StoreFacts ==
    ASSUME ShapeInv, NEW r \in Requests, Store(r)
    PROVE  \E n \in Ids, row \in Row :
               /\ task[r].out[1] = n /\ task[r].out[2] = row /\ row.status = "active"
               /\ RowsOK' /\ Grows
               /\ rows'[n] = row
               /\ \A m \in Ids : m # n => rows'[m] = rows[m]
               /\ \A m \in Ids : Stored(m)' <=> Stored(m) \/ m = n
               /\ n = <<r, task[r].try>> \/ Stored(n)
               /\ task'[r] = [pc |-> "stored", try |-> task[r].try,
                              seen |-> task[r].seen, out |-> task[r].out]
               /\ \A s \in Requests : s # r => task'[s] = task[s]
  <1>0. PICK n, row : n = task[r].out[1] /\ row = task[r].out[2]
    OBVIOUS
  <1>1. /\ n \in Ids /\ row \in Row /\ row.status = "active"
        /\ n = <<r, task[r].try>> \/ Stored(n)
    BY <1>0 DEF Store, ShapeInv, TaskOK, Outcome, Id
  <1>2. Wrote(n, row)
    BY <1>0 DEF Store, Wrote
  <1>3. /\ RowsOK' /\ rows'[n] = row
        /\ \A m \in Ids : m # n => rows'[m] = rows[m]
        /\ \A m \in Ids : Stored(m)' <=> Stored(m) \/ m = n
    BY <1>1, <1>2, WriteFacts DEF ShapeInv
  <1>4. task' = [task EXCEPT ![r] = [task[r] EXCEPT !.pc = "stored"]]
    BY DEF Store
  <1>5. /\ task'[r] = [task[r] EXCEPT !.pc = "stored"]
        /\ \A s \in Requests : s # r => task'[s] = task[s]
    BY <1>4 DEF ShapeInv, RecordsOK
  <1>6. task[r] = [pc |-> task[r].pc, try |-> task[r].try,
                   seen |-> task[r].seen, out |-> task[r].out]
    BY DEF ShapeInv, RecordsOK
  <1>7. task'[r] = [pc |-> "stored", try |-> task[r].try,
                    seen |-> task[r].seen, out |-> task[r].out]
    BY <1>5, <1>6
  <1>8. Grows
    BY <1>3 DEF Grows
  <1>9. n = <<r, task[r].try>> \/ Stored(n)
    BY <1>1
  <1> n \in Ids /\ row \in Row
    BY <1>1
  <1> WITNESS n \in Ids, row \in Row
  <1> QED
    BY <1>0, <1>1, <1>3, <1>5, <1>7, <1>8, <1>9

LEMMA StoreShape ==
    ASSUME ShapeInv, NEW r \in Requests, Store(r)
    PROVE  ShapeInv'
  <1>1. PICK n \in Ids, row \in Row :
               /\ task[r].out[1] = n /\ task[r].out[2] = row /\ row.status = "active"
               /\ RowsOK' /\ Grows
               /\ rows'[n] = row
               /\ \A m \in Ids : m # n => rows'[m] = rows[m]
               /\ \A m \in Ids : Stored(m)' <=> Stored(m) \/ m = n
               /\ n = <<r, task[r].try>> \/ Stored(n)
               /\ task'[r] = [pc |-> "stored", try |-> task[r].try,
                              seen |-> task[r].seen, out |-> task[r].out]
               /\ \A s \in Requests : s # r => task'[s] = task[s]
    BY StoreFacts
  <1>2. /\ edges' = edges /\ answer' = answer /\ compactor' = compactor /\ left' = left
        /\ task[r].pc = "resolved"
    BY DEF Store
  <1>3. /\ task'[r].pc = "stored" /\ task'[r].try = task[r].try
        /\ task'[r].seen = task[r].seen /\ task'[r].out = task[r].out
    BY <1>1
  <1>4. RecordsOK'
    <2>1. task' = [s \in Requests |-> task'[s]]
      BY DEF Store, ShapeInv, RecordsOK
    <2> QED
      BY <1>1, <1>2, <1>3, <2>1 DEF ShapeInv, RecordsOK
  <1>5. TaskOK(r)'
    <2>1. Copies(task[r].seen)'
      BY <1>1, <1>3 DEF ShapeInv, TaskOK, Copies, Grows
    <2>2. \A k \in 1..MaxTries : Unborn(r, k)' => Unborn(r, k) /\ <<r, k>> # n
      BY <1>1, <1>2, <1>3 DEF Unborn, ShapeInv, TaskOK
    <2>3. Outcome(r, task[r].out)'
      BY <1>1, <1>2, <1>3 DEF Outcome, ShapeInv, TaskOK, Id
    <2> QED
      BY <1>1, <1>2, <1>3, <2>1, <2>2, <2>3 DEF ShapeInv, TaskOK, Ids
  <1>6. ASSUME NEW s \in Requests, s # r PROVE TaskOK(s)'
    <2>1. \A k \in 1..MaxTries : Stored(<<s, k>>)' => Stored(<<s, k>>)
      BY <1>1, <1>6 DEF Ids
    <2> QED
      BY <1>1, <1>2, <1>6, <2>1, OthersKept DEF ShapeInv
  <1> QED
    BY <1>1, <1>2, <1>4, <1>5, <1>6, EdgesKept, CompactorKept DEF ShapeInv

LEMMA AnswerShape ==
    ASSUME ShapeInv, NEW r \in Requests, Answer(r)
    PROVE  ShapeInv'
  <1>1. /\ rows' = rows /\ edges' = edges /\ compactor' = compactor /\ left' = left
        /\ task[r].pc = "stored"
        /\ task' = [task EXCEPT ![r] = [task[r] EXCEPT !.pc = "done", !.out = <<>>]]
    BY DEF Answer
  <1>2. RowsOK' /\ Grows /\ \A m \in Ids : Stored(m)' <=> Stored(m)
    BY <1>1, SameRows DEF ShapeInv
  <1>3. task[r] = [pc |-> task[r].pc, try |-> task[r].try,
                   seen |-> task[r].seen, out |-> task[r].out]
    BY DEF ShapeInv, RecordsOK
  <1>4. /\ task'[r] = [task[r] EXCEPT !.pc = "done", !.out = <<>>]
        /\ \A s \in Requests : s # r => task'[s] = task[s]
        /\ task' = [s \in Requests |-> task'[s]]
    BY <1>1 DEF ShapeInv, RecordsOK
  <1>5. task'[r] = [pc |-> "done", try |-> task[r].try, seen |-> task[r].seen, out |-> <<>>]
    BY <1>3, <1>4
  <1>6. /\ task'[r].pc = "done" /\ task'[r].try = task[r].try
        /\ task'[r].seen = task[r].seen /\ task'[r].out = <<>>
    BY <1>5
  <1>7. /\ answer'[r] = task[r].out[1] /\ task[r].out[1] \in Ids
        /\ \A s \in Requests : s # r => answer'[s] = answer[s]
        /\ answer' = [s \in Requests |-> answer'[s]]
    BY <1>1 DEF ShapeInv, RecordsOK, Answer, TaskOK, Outcome
  <1>8. RecordsOK'
    BY <1>1, <1>4, <1>5, <1>6, <1>7 DEF ShapeInv, RecordsOK
  <1>9. TaskOK(r)'
    <2>1. Copies(task[r].seen)'
      BY <1>2, <1>6 DEF ShapeInv, TaskOK, Copies, Grows
    <2>2. \A k \in 1..MaxTries : Unborn(r, k)' => Unborn(r, k)
      BY <1>1, <1>6 DEF Unborn
    <2>3. task[r].out[1] # None
      BY <1>7, ConsolidationAssumption DEF Ids
    <2> QED
      BY <1>1, <1>2, <1>6, <1>7, <2>1, <2>2, <2>3 DEF ShapeInv, TaskOK, Ids
  <1>10. ASSUME NEW s \in Requests, s # r PROVE TaskOK(s)'
    BY <1>2, <1>4, <1>7, <1>10, OthersKept DEF ShapeInv, Ids
  <1> QED
    BY <1>1, <1>2, <1>8, <1>9, <1>10, EdgesKept, CompactorKept DEF ShapeInv

LEMMA FailShape ==
    ASSUME ShapeInv, NEW r \in Requests, Fail(r)
    PROVE  ShapeInv'
  <1>1. /\ rows' = rows /\ edges' = edges /\ compactor' = compactor /\ left' = left
        /\ answer' = answer
    BY DEF Fail
  <1>2. RowsOK' /\ Grows /\ \A m \in Ids : Stored(m)' <=> Stored(m)
    BY <1>1, SameRows DEF ShapeInv
  <1>3. /\ task'[r] = IF task[r].try < MaxTries
                      THEN [pc |-> "waiting", try |-> task[r].try + 1, seen |-> NoCopies, out |-> <<>>]
                      ELSE [pc |-> "failed", try |-> task[r].try, seen |-> NoCopies, out |-> <<>>]
        /\ \A s \in Requests : s # r => task'[s] = task[s]
        /\ task' = [s \in Requests |-> task'[s]]
    BY DEF ShapeInv, RecordsOK, Fail
  <1>4. RecordsOK'
    BY <1>1, <1>3 DEF ShapeInv, RecordsOK
  <1>5. TaskOK(r)'
    <2>1. task[r].try \in 1..MaxTries /\ MaxTries \in Nat /\ task[r].pc # "done"
      BY ConsolidationAssumption DEF ShapeInv, TaskOK, Fail, UnderWay
    <2>2. \A k \in 1..MaxTries : Unborn(r, k)' => Unborn(r, k)
      BY <1>3, <2>1 DEF Unborn
    <2>3. Copies(task[r].seen)'
      BY <1>3, NoCopiesFacts DEF Copies
    <2>4. /\ task'[r].pc \in {"waiting", "failed"} /\ task'[r].try \in 1..MaxTries
      BY <1>3, <2>1
    <2> QED
      BY <1>1, <1>2, <2>1, <2>2, <2>3, <2>4 DEF ShapeInv, TaskOK, Ids
  <1>6. ASSUME NEW s \in Requests, s # r PROVE TaskOK(s)'
    BY <1>1, <1>2, <1>3, <1>6, OthersKept DEF ShapeInv, Ids
  <1> QED
    BY <1>1, <1>2, <1>4, <1>5, <1>6, EdgesKept, CompactorKept DEF ShapeInv

LEMMA CompactionShape ==
    ASSUME ShapeInv, Compaction
    PROVE  ShapeInv'
  <1>1. task' = task /\ answer' = answer
    BY DEF Compaction, CompactBegin, CompactNext, CompactResolve, CompactEnd, CompactFail
  <1>2. CASE CompactResolve
    <2>0. PICK id, seen, todo : /\ id = compactor.cand /\ seen = compactor.seen
                                /\ todo = compactor.todo
      OBVIOUS
    <2>1. PICK v \in Verdicts(id, seen) :
             /\ rows' = Updated(v, id, todo[id].sources, seen)
             /\ edges' \in Linked(v, id)
      BY <1>2, <2>0 DEF CompactResolve
    <2>2. /\ id \in DOMAIN todo /\ id \in Ids /\ Copies(seen) /\ Copies(todo)
          /\ todo[id].sources \in SUBSET Ids
      BY <1>2, <2>0 DEF CompactResolve, ShapeInv, CompactorOK, Copies, Row
    <2>3. RowsOK' /\ Grows /\ \A m \in Ids : Stored(m)' <=> Stored(m)
      BY <2>1, <2>2, UpdateShape DEF ShapeInv
    <2>4. EdgesOK'
      BY <2>1, <2>2, <2>3, EdgesLinked DEF ShapeInv
    <2>5. ASSUME NEW s \in Requests PROVE TaskOK(s)'
      BY <1>1, <2>3, <2>5, OthersKept DEF ShapeInv, Ids
    <2>6. /\ compactor' = [pc |-> "next", cand |-> None, seen |-> NoCopies,
                           todo |-> [n \in DOMAIN todo \ {id} |-> todo[n]]]
          /\ left' = left /\ compactor.pc = "listed"
      BY <1>2, <2>0 DEF CompactResolve
    <2>7. CompactorOK'
      BY <2>2, <2>3, <2>6, NoCopiesFacts DEF ShapeInv, CompactorOK, Copies, Grows
    <2> QED
      BY <1>1, <2>3, <2>4, <2>5, <2>6, <2>7 DEF ShapeInv, RecordsOK
  <1>3. CASE CompactBegin \/ CompactNext \/ CompactEnd \/ CompactFail
    <2>1. rows' = rows /\ edges' = edges
      BY <1>3 DEF CompactBegin, CompactNext, CompactEnd, CompactFail
    <2>2. RowsOK' /\ Grows /\ \A m \in Ids : Stored(m)' <=> Stored(m)
      BY <2>1, SameRows DEF ShapeInv
    <2>3. ASSUME NEW s \in Requests PROVE TaskOK(s)'
      BY <1>1, <2>2, <2>3, OthersKept DEF ShapeInv, Ids
    <2>4. CompactorOK' /\ RecordsOK' /\ left' \in 0..Compactions
      <3>1. CASE CompactBegin
        <4>1. PICK todo \in Listings : compactor' = [Idle EXCEPT !.pc = "next", !.todo = todo]
          BY <3>1 DEF CompactBegin
        <4>2. Copies(todo)
          BY ListingFacts DEF ShapeInv
        <4>3. compactor' = [pc |-> "next", todo |-> todo, cand |-> None, seen |-> NoCopies]
          BY <4>1 DEF Idle
        <4>4. left' = left - 1 /\ left > 0 /\ left \in 0..Compactions
          BY <3>1 DEF CompactBegin, ShapeInv
        <4>5. Copies(todo)' /\ Copies(NoCopies)'
          BY <2>2, <4>2, NoCopiesFacts DEF Copies, Grows
        <4>6. CompactorOK' /\ left' \in 0..Compactions
          BY <4>3, <4>4, <4>5, ConsolidationAssumption DEF CompactorOK
        <4> QED
          BY <1>1, <4>3, <4>6 DEF ShapeInv, RecordsOK
      <3>2. CASE CompactNext
        <4>1. PICK id \in DOMAIN compactor.todo, seen \in Listings :
                 compactor' = [compactor EXCEPT !.pc = "listed", !.cand = id, !.seen = seen]
          BY <3>2 DEF CompactNext
        <4>2. Copies(seen)
          BY ListingFacts DEF ShapeInv
        <4>3. compactor' = [pc |-> "listed", todo |-> compactor.todo, cand |-> id, seen |-> seen]
          BY <4>1 DEF ShapeInv, RecordsOK
        <4>4. left' = left /\ left \in 0..Compactions /\ compactor.pc = "next"
          BY <3>2 DEF CompactNext, ShapeInv
        <4>5. Copies(compactor.todo)' /\ Copies(seen)'
          BY <2>2, <4>2, <4>3 DEF ShapeInv, CompactorOK, Copies, Grows
        <4>6. CompactorOK'
          BY <4>3, <4>4, <4>5 DEF CompactorOK, ShapeInv
        <4> QED
          BY <1>1, <4>3, <4>4, <4>6 DEF ShapeInv, RecordsOK
      <3>3. CASE CompactEnd \/ CompactFail
        <4>1. compactor' = Idle /\ left' = left
          BY <3>3 DEF CompactEnd, CompactFail
        <4>2. CompactorOK'
          BY <4>1, NoCopiesFacts DEF CompactorOK, Idle, Copies
        <4> QED
          BY <1>1, <4>1, <4>2 DEF ShapeInv, RecordsOK, Idle
      <3> QED
        BY <1>3, <3>1, <3>2, <3>3
    <2> QED
      BY <2>1, <2>2, <2>3, <2>4, EdgesKept DEF ShapeInv
  <1> QED
    BY <1>2, <1>3 DEF Compaction

LEMMA StutterShape == ASSUME ShapeInv, UNCHANGED vars PROVE ShapeInv'
  <1>1. /\ rows' = rows /\ edges' = edges /\ task' = task /\ answer' = answer
        /\ compactor' = compactor /\ left' = left
    BY DEF vars
  <1>2. RowsOK' /\ Grows /\ \A m \in Ids : Stored(m)' <=> Stored(m)
    BY <1>1, SameRows DEF ShapeInv
  <1>3. ASSUME NEW s \in Requests PROVE TaskOK(s)'
    BY <1>1, <1>2, <1>3, OthersKept DEF ShapeInv, Ids
  <1> QED
    BY <1>1, <1>2, <1>3, EdgesKept, CompactorKept DEF ShapeInv, RecordsOK

LEMMA NextShape == ASSUME ShapeInv, [Next]_vars PROVE ShapeInv'
  BY BeginShape, ResolveShape, StoreShape, AnswerShape, FailShape, CompactionShape,
     StutterShape DEF Next, RequestStep

-----------------------------------------------------------------------------
(* SupersessionIsHistory is inductive given ShapeInv: a new edge leaves an  *)
(* id that no edge reaches yet, since edges reach stored rows only.         *)

LEMMA InitHistory == ASSUME Init PROVE SupersessionIsHistory
  BY DEF Init, SupersessionIsHistory

\* Before the first compaction, none of its other steps is taken.
LEMMA CompactionWaits ==
    ASSUME ShapeInv, Compaction \/ UNCHANGED vars, left' = Compactions
    PROVE  left' = left /\ rows' = rows /\ edges' = edges
  <1>1. left \in 0..Compactions /\ Compactions \in Nat /\ CompactorOK
    BY ConsolidationAssumption DEF ShapeInv
  <1>2. ASSUME CompactBegin PROVE FALSE
    <2>1. left' = left - 1
      BY <1>2 DEF CompactBegin
    <2> QED
      BY <1>1, <2>1
  <1>3. CASE CompactResolve
    BY <1>1, <1>3 DEF CompactResolve, CompactorOK
  <1> QED
    BY <1>2, <1>3 DEF Compaction, CompactNext, CompactEnd, CompactFail, vars

\* Before the first compaction, a step that changes edges or rows is a request's.
LEMMA BeforeCompaction ==
    ASSUME ShapeInv, [Next]_vars, left' = Compactions
    PROVE  /\ left = Compactions
           /\ \/ rows' = rows /\ edges' = edges
              \/ \E r \in Requests : Resolve(r)
              \/ \E r \in Requests : Store(r) /\ edges' = edges
  <1>1. ASSUME NEW r \in Requests, Begin(r) \/ Answer(r) \/ Fail(r)
        PROVE  left' = left /\ rows' = rows /\ edges' = edges
    BY <1>1 DEF Begin, Answer, Fail
  <1>2. ASSUME NEW r \in Requests, Resolve(r) \/ Store(r)
        PROVE  left' = left /\ (Store(r) => edges' = edges)
    BY <1>2 DEF Resolve, Store
  <1> QED
    BY <1>1, <1>2, CompactionWaits DEF Next, RequestStep

LEMMA NextHistory ==
    ASSUME ShapeInv, SupersessionIsHistory, [Next]_vars
    PROVE  SupersessionIsHistory'
  <1> SUFFICES ASSUME left' = Compactions,
                      NEW C \in SUBSET {e[1] : e \in edges'}, C # {}
               PROVE  \E id \in C : \A n \in C : <<id, "superseded", n>> \notin edges'
    BY DEF SupersessionIsHistory
  <1>1. left = Compactions
    BY BeforeCompaction
  <1>2. CASE edges' = edges
    BY <1>1, <1>2 DEF SupersessionIsHistory
  <1>3. CASE \E r \in Requests : Resolve(r)
    <2>1. PICK r \in Requests : Resolve(r)
      BY <1>3
    <2>0. PICK id, seen : id = Id(r) /\ seen = task[r].seen
      OBVIOUS
    <2>2. PICK v \in Verdicts(id, seen) : edges' \in Linked(v, id)
      BY <2>0, <2>1 DEF Resolve
    <2>3. id \in Ids /\ Copies(seen) /\ ~Stored(id)
      BY <2>0, <2>1, OwnId DEF ShapeInv, TaskOK, Unborn, Resolve
    <2>4. SUFFICES ASSUME v.action \in {"superseded", "contradicts"},
                          edges' = edges \cup {<<id, v.action, v.neighbor>>}
                   PROVE  \E x \in C : \A n \in C : <<x, "superseded", n>> \notin edges'
      BY <1>2, <2>2 DEF Linked
    <2>5. v.neighbor # id
      BY <2>3, <2>4, VerdictFacts DEF Copies
    <2>6. \A x : <<x, "superseded", id>> \notin edges
      BY <2>3 DEF ShapeInv, EdgesOK
    <2>7. CASE C \subseteq {id}
      BY <2>4, <2>5, <2>6, <2>7
    <2>8. CASE ~(C \subseteq {id})
      <3>1. C \ {id} \in SUBSET {e[1] : e \in edges} /\ C \ {id} # {}
        BY <2>4, <2>8
      <3>2. PICK x \in C \ {id} : \A n \in C \ {id} : <<x, "superseded", n>> \notin edges
        BY <1>1, <3>1 DEF SupersessionIsHistory
      <3> QED
        BY <2>4, <2>6, <3>2
    <2> QED
      BY <2>7, <2>8
  <1> QED
    BY <1>2, <1>3, BeforeCompaction

-----------------------------------------------------------------------------
(* IngestionKeepsFacts.  It is not inductive: it speaks of a state in which *)
(* all is answered.  NoTrap says it of every state: no set of ids without   *)
(* an active row is closed under Heading, which leads from a superseded row *)
(* to its heir and from an id without a row to what its request is settled  *)
(* with.  A new heir has no row and its request is not settled, so it heads *)
(* out of every set; a request is settled by writing an active row.         *)

\* The row a request is, or is about to be, answered with.
Settled(r) == IF task[r].pc = "stored" THEN task[r].out[1] ELSE answer[r]
Heading(n) == IF rows[n].status = "absent" THEN Settled(n[1]) ELSE rows[n].heir

NoTrap ==
    left = Compactions =>
        \A D \in SUBSET Ids :
            D # {} /\ D \cap Active = {} => \E n \in D : Heading(n) \notin D

LEMMA InitTrap == ASSUME Init PROVE NoTrap
  <1> SUFFICES ASSUME NEW D \in SUBSET Ids, D # {}
               PROVE  \E n \in D : Heading(n) \notin D
    BY DEF NoTrap
  <1>1. PICK n \in D : n \in Ids
    OBVIOUS
  <1>2. Heading(n) = None
    BY <1>1, IdFacts DEF Init, Heading, Settled, NoRow
  <1> QED
    BY <1>1, <1>2, ConsolidationAssumption DEF Ids

\* Steps that leave rows alone settle nothing anew.
LEMMA TrapKept ==
    ASSUME NoTrap, left = Compactions, rows' = rows,
           \A r \in Requests : Settled(r)' \in {Settled(r), None}
    PROVE  NoTrap'
  <1> SUFFICES ASSUME NEW D \in SUBSET Ids, D # {}, D \cap Active' = {}
               PROVE  \E n \in D : Heading(n)' \notin D
    BY DEF NoTrap
  <1>1. PICK n \in D : Heading(n) \notin D
    BY DEF NoTrap, Active
  <1>2. Heading(n)' \in {Heading(n), None}
    BY <1>1, IdFacts DEF Heading
  <1> QED
    BY <1>1, <1>2, ConsolidationAssumption DEF Ids

\* A row becomes active, or stays so; nothing that was settled is unsettled, but
\* by that row.
LEMMA TrapActivated ==
    ASSUME NoTrap, left = Compactions, NEW n \in Ids,
           rows'[n].status = "active",
           \A m \in Ids : m # n => rows'[m] = rows[m],
           \A r \in Requests : Settled(r)' \in {Settled(r), n}
    PROVE  NoTrap'
  <1> SUFFICES ASSUME NEW D \in SUBSET Ids, D # {}, D \cap Active' = {}
               PROVE  \E m \in D : Heading(m)' \notin D
    BY DEF NoTrap
  <1>1. n \notin D
    BY DEF Active
  <1>2. D \cap Active = {}
    BY <1>1 DEF Active
  <1>3. PICK m \in D : Heading(m) \notin D
    BY <1>2 DEF NoTrap
  <1>4. Heading(m)' \in {Heading(m), n}
    BY <1>1, <1>3, IdFacts DEF Heading
  <1> QED
    BY <1>1, <1>3, <1>4

\* A row is superseded by an id that has no row and is not settled.
LEMMA TrapSuperseded ==
    ASSUME NoTrap, left = Compactions, NEW n \in Ids, NEW id \in Ids,
           rows'[n].status = "superseded", rows'[n].heir = id,
           \A m \in Ids : m # n => rows'[m] = rows[m],
           ~Stored(id), id # n, Settled(id[1]) = None,
           \A r \in Requests : Settled(r)' = Settled(r)
    PROVE  NoTrap'
  <1> SUFFICES ASSUME NEW D \in SUBSET Ids, D # {}, D \cap Active' = {}
               PROVE  \E m \in D : Heading(m)' \notin D
    BY DEF NoTrap
  <1>1. Heading(id)' = None /\ None \notin D
    BY IdFacts, ConsolidationAssumption DEF Heading, Stored, Ids
  <1>2. Heading(n)' = id
    BY DEF Heading
  <1>3. CASE n \in D
    BY <1>1, <1>2, <1>3
  <1>4. CASE n \notin D
    <2>1. D \cap Active = {}
      BY <1>4 DEF Active
    <2>2. PICK m \in D : Heading(m) \notin D
      BY <2>1 DEF NoTrap
    <2>3. Heading(m)' = Heading(m)
      BY <1>4, <2>2, IdFacts DEF Heading
    <2> QED
      BY <2>2, <2>3
  <1> QED
    BY <1>3, <1>4

LEMMA NextTrap ==
    ASSUME ShapeInv, NoTrap, [Next]_vars
    PROVE  NoTrap'
  <1> SUFFICES ASSUME left' = Compactions
               PROVE  NoTrap'
    BY DEF NoTrap
  <1>0. left = Compactions
    BY BeforeCompaction
  <1>1. ASSUME NEW r \in Requests, Begin(r)
        PROVE  NoTrap'
    <2>1. PICK seen : task' = [task EXCEPT ![r].pc = "listed", ![r].seen = seen]
      BY <1>1 DEF Begin
    <2>2. \A s \in Requests : Settled(s)' = Settled(s)
      BY <1>1, <2>1 DEF Begin, Settled, ShapeInv, RecordsOK
    <2> QED
      BY <1>0, <1>1, <2>2, TrapKept DEF Begin
  <1>2. ASSUME NEW r \in Requests, Resolve(r)
        PROVE  NoTrap'
    <2>0. PICK id, seen : id = Id(r) /\ seen = task[r].seen
      OBVIOUS
    <2>1. PICK v \in Verdicts(id, seen) :
             /\ rows' = Updated(v, id, {id}, seen)
             /\ task' = [task EXCEPT ![r].pc = "resolved", ![r].seen = NoCopies,
                                     ![r].out = Result(v, id, seen)]
      BY <1>2, <2>0 DEF Resolve
    <2>2. /\ id \in Ids /\ id[1] = r /\ Copies(seen) /\ ~Stored(id)
          /\ task[r].pc = "listed" /\ answer[r] = None
      BY <1>2, <2>0, OwnId, ConsolidationAssumption DEF ShapeInv, TaskOK, Unborn, Resolve
    <2>3. \A s \in Requests : Settled(s)' = Settled(s)
      BY <1>2, <2>1, <2>2 DEF Resolve, Settled, ShapeInv, RecordsOK
    <2>4. CASE rows' = rows
      BY <1>0, <2>3, <2>4, TrapKept
    <2>5. CASE /\ v.action = "merged" /\ v.neighbor \in DOMAIN seen
               /\ Wrote(v.neighbor, Merge(seen[v.neighbor], {id}))
      <3>1. /\ v.neighbor \in Ids /\ seen[v.neighbor] \in Row
            /\ seen[v.neighbor].status = "active"
        BY <2>2, <2>5 DEF Copies
      <3>2. /\ Merge(seen[v.neighbor], {id}) \in Row
            /\ Merge(seen[v.neighbor], {id}).status = "active"
        BY <2>2, <3>1, MergeFacts
      <3>3. /\ rows'[v.neighbor].status = "active"
            /\ \A m \in Ids : m # v.neighbor => rows'[m] = rows[m]
        BY <2>5, <3>1, <3>2, WriteFacts DEF ShapeInv
      <3> QED
        BY <1>0, <2>3, <3>1, <3>3, TrapActivated
    <2>6. CASE /\ v.action = "superseded" /\ v.neighbor \in DOMAIN seen
               /\ Wrote(v.neighbor, Supersede(seen[v.neighbor], id))
      <3>1. /\ v.neighbor \in Ids /\ seen[v.neighbor] \in Row /\ Stored(v.neighbor)
        BY <2>2, <2>6 DEF Copies
      <3>2. /\ Supersede(seen[v.neighbor], id) \in Row
            /\ Supersede(seen[v.neighbor], id).status = "superseded"
            /\ Supersede(seen[v.neighbor], id).heir = id
        BY <2>2, <3>1, SupersedeFacts
      <3>3. /\ rows'[v.neighbor].status = "superseded" /\ rows'[v.neighbor].heir = id
            /\ \A m \in Ids : m # v.neighbor => rows'[m] = rows[m]
        BY <2>2, <2>6, <3>1, <3>2, WriteFacts DEF ShapeInv
      <3>4. Settled(id[1]) = None /\ id # v.neighbor
        BY <2>2, <3>1 DEF Settled
      <3> QED
        BY <1>0, <2>2, <2>3, <3>1, <3>3, <3>4, TrapSuperseded
    <2> QED
      BY <2>1, <2>2, <2>4, <2>5, <2>6, UpdateFacts
  <1>3. ASSUME NEW r \in Requests, Store(r)
        PROVE  NoTrap'
    <2>1. PICK n \in Ids, row \in Row :
               /\ task[r].out[1] = n /\ task[r].out[2] = row /\ row.status = "active"
               /\ rows'[n] = row
               /\ \A m \in Ids : m # n => rows'[m] = rows[m]
               /\ task'[r] = [pc |-> "stored", try |-> task[r].try,
                              seen |-> task[r].seen, out |-> task[r].out]
               /\ \A s \in Requests : s # r => task'[s] = task[s]
      BY <1>3, StoreFacts
    <2>2. \A s \in Requests : Settled(s)' \in {Settled(s), n}
      BY <1>3, <2>1 DEF Store, Settled
    <2> QED
      BY <1>0, <2>1, <2>2, TrapActivated
  <1>4. ASSUME NEW r \in Requests, Answer(r)
        PROVE  NoTrap'
    <2>1. \A s \in Requests : Settled(s)' = Settled(s)
      BY <1>4 DEF Answer, Settled, ShapeInv, RecordsOK
    <2> QED
      BY <1>0, <1>4, <2>1, TrapKept DEF Answer
  <1>5. ASSUME NEW r \in Requests, Fail(r)
        PROVE  NoTrap'
    <2>1. answer[r] = None
      BY <1>5 DEF Fail, UnderWay, ShapeInv, TaskOK
    <2>2. \A s \in Requests : Settled(s)' \in {Settled(s), None}
      BY <1>5, <2>1 DEF Fail, Settled, ShapeInv, RecordsOK
    <2> QED
      BY <1>0, <1>5, <2>2, TrapKept DEF Fail
  <1>6. CASE Compaction \/ UNCHANGED vars
    <2>1. task' = task /\ answer' = answer
      BY <1>6 DEF Compaction, CompactBegin, CompactNext, CompactResolve, CompactEnd,
                  CompactFail, vars
    <2>2. rows' = rows
      BY <1>6, CompactionWaits
    <2> QED
      BY <1>0, <2>1, <2>2, TrapKept DEF Settled
  <1> QED
    BY <1>1, <1>2, <1>3, <1>4, <1>5, <1>6 DEF Next, RequestStep

\* Once all requests are answered no id heads out of a set of their ids but to
\* an active row.
LEMMA TrapKeepsFacts == ASSUME ShapeInv, NoTrap PROVE IngestionKeepsFacts
  <1> SUFFICES ASSUME left = Compactions, Quiet, NEW D \in SUBSET Ids, Forgotten(D),
                      NEW r \in Requests, answer[r] \in D
               PROVE  FALSE
    BY DEF IngestionKeepsFacts, EveryFactLives
  <1>1. PICK n \in D : Heading(n) \notin D
    BY DEF NoTrap, Forgotten
  <1>2. n \in Ids /\ n[1] \in Requests /\ rows[n].status \in {"absent", "superseded"}
    BY <1>1, IdFacts DEF Forgotten, Active, ShapeInv, RowsOK, Row
  <1>3. Heading(n) = Successor(n)
    BY <1>2 DEF Heading, Successor, Settled, Quiet
  <1>4. Successor(n) = None
    BY <1>1, <1>3 DEF Forgotten
  <1>5. CASE rows[n].status = "absent"
    BY <1>2, <1>4, <1>5 DEF Successor, Quiet, ShapeInv, TaskOK
  <1>6. CASE rows[n].status = "superseded"
    BY <1>2, <1>4, <1>6, ConsolidationAssumption DEF Successor, ShapeInv, RowsOK, Ids
  <1> QED
    BY <1>2, <1>5, <1>6

-----------------------------------------------------------------------------
(* One process at a time: what it has read is what is there.                *)

Current(f) == \A n \in DOMAIN f : rows[n] = f[n]

Unshared == /\ \A r, s \in UnderWay : r = s
            /\ compactor.pc # "idle" => UnderWay = {}

\* A resolved attempt is about to store a row of its own, or has merged: then
\* it writes the same row once more.
Reached(r) ==
    /\ task[r].pc = "listed" => Current(task[r].seen)
    /\ task[r].pc = "resolved" =>
          \/ task[r].out = <<Id(r), NewMemory(Id(r))>> /\ ~Stored(Id(r))
          \/ task[r].out[2] = rows[task[r].out[1]]
    /\ task[r].pc = "stored" => task[r].out[2] = rows[task[r].out[1]]
    /\ task[r].pc \in {"resolved", "stored"} => Id(r) \in task[r].out[2].sources

AloneInv ==
    ~overlapped => /\ Unshared
                   /\ \A r \in Requests : Reached(r)
                   /\ compactor.pc = "listed" => Current(compactor.seen)
                   /\ SourcesKept

LEMMA InitAlone == ASSUME Init PROVE AloneInv
  BY DEF Init, AloneInv, Unshared, UnderWay, Reached, Idle, SourcesKept

\* Rows lose no source and do not come back to life.
Widens ==
    \A m \in Ids : /\ rows[m].sources \subseteq rows'[m].sources
                   /\ rows[m].status = "superseded" => rows'[m].status = "superseded"

LEMMA UpdateWidens ==
    ASSUME RowsOK, NEW id \in Ids, NEW seen, Copies(seen), Current(seen),
           NEW v \in Verdicts(id, seen), NEW sources \in SUBSET Ids,
           rows' = Updated(v, id, sources, seen)
    PROVE  /\ Widens
           /\ Active' \subseteq Active
           /\ v.action = "superseded" => Active' = Active \ {v.neighbor}
           /\ v.action # "superseded" => Active' = Active
           /\ v.action = "merged" =>
                 rows'[v.neighbor] = Merge(seen[v.neighbor], sources)
  <1>1. CASE v.action \in {"new", "contradicts"} /\ rows' = rows
    BY <1>1 DEF Widens, Active
  <1>2. CASE /\ v.action = "merged" /\ v.neighbor \in DOMAIN seen
             /\ Wrote(v.neighbor, Merge(seen[v.neighbor], sources))
    <2>1. /\ v.neighbor \in Ids /\ seen[v.neighbor] \in Row
          /\ seen[v.neighbor].status = "active" /\ seen[v.neighbor] = rows[v.neighbor]
      BY <1>2 DEF Copies, Current
    <2>2. /\ Merge(seen[v.neighbor], sources) \in Row
          /\ Merge(seen[v.neighbor], sources).status = "active"
          /\ Merge(seen[v.neighbor], sources).sources = seen[v.neighbor].sources \cup sources
      BY <2>1, MergeFacts
    <2>3. /\ rows'[v.neighbor] = Merge(seen[v.neighbor], sources)
          /\ \A m \in Ids : m # v.neighbor => rows'[m] = rows[m]
      BY <1>2, <2>1, <2>2, WriteFacts
    <2> QED
      BY <1>2, <2>1, <2>2, <2>3 DEF Widens, Active
  <1>3. CASE /\ v.action = "superseded" /\ v.neighbor \in DOMAIN seen
             /\ Wrote(v.neighbor, Supersede(seen[v.neighbor], id))
    <2>1. /\ v.neighbor \in Ids /\ seen[v.neighbor] \in Row
          /\ seen[v.neighbor].status = "active" /\ seen[v.neighbor] = rows[v.neighbor]
      BY <1>3 DEF Copies, Current
    <2>2. /\ Supersede(seen[v.neighbor], id) \in Row
          /\ Supersede(seen[v.neighbor], id).status = "superseded"
          /\ Supersede(seen[v.neighbor], id).heir = id
          /\ Supersede(seen[v.neighbor], id).sources = seen[v.neighbor].sources
      BY <2>1, SupersedeFacts
    <2>3. /\ rows'[v.neighbor] = Supersede(seen[v.neighbor], id)
          /\ \A m \in Ids : m # v.neighbor => rows'[m] = rows[m]
      BY <1>3, <2>1, <2>2, WriteFacts
    <2> QED
      BY <1>3, <2>1, <2>2, <2>3 DEF Widens, Active
  <1> QED
    BY <1>1, <1>2, <1>3, UpdateFacts

\* A store writes what is there, or a row where there was none.
LEMMA StoreAlone ==
    ASSUME ShapeInv, AloneInv, ~overlapped, NEW r \in Requests, Store(r)
    PROVE  LET n == task[r].out[1] IN
           /\ Widens
           /\ rows'[n] = task[r].out[2]
           /\ \/ rows' = rows
              \/ n = Id(r) /\ ~Stored(n) /\ Active' = Active \cup {n}
  <1>1. PICK n \in Ids, row \in Row :
               /\ task[r].out[1] = n /\ task[r].out[2] = row /\ row.status = "active"
               /\ rows'[n] = row
               /\ \A m \in Ids : m # n => rows'[m] = rows[m]
    <2>1. PICK n \in Ids : \E row \in Row :
                 /\ task[r].out[1] = n /\ task[r].out[2] = row /\ row.status = "active"
                 /\ RowsOK' /\ Grows
                 /\ rows'[n] = row
                 /\ \A m \in Ids : m # n => rows'[m] = rows[m]
                 /\ \A m \in Ids : Stored(m)' <=> Stored(m) \/ m = n
                 /\ n = <<r, task[r].try>> \/ Stored(n)
                 /\ task'[r] = [pc |-> "stored", try |-> task[r].try,
                                seen |-> task[r].seen, out |-> task[r].out]
                 /\ \A s \in Requests : s # r => task'[s] = task[s]
      BY StoreFacts, Zenon
    <2> QED
      BY <2>1
  <1>2. /\ rows = [m \in Ids |-> rows[m]] /\ rows' = [m \in Ids |-> rows'[m]]
        /\ ~Stored(n) => rows[n].sources = {} /\ rows[n].status = "absent"
    <2>1. rows \in [Ids -> Row] /\ rows' \in [Ids -> Row]
      BY StoreShape DEF ShapeInv, RowsOK
    <2>2. ~Stored(n) => rows[n] = NoRow
      BY <1>1 DEF ShapeInv, RowsOK
    <2> QED
      BY <2>1, <2>2 DEF NoRow
  <1>3. \/ n = Id(r) /\ ~Stored(n)
        \/ row = rows[n]
    BY <1>1 DEF AloneInv, Reached, Store
  <1>4. CASE n = Id(r) /\ ~Stored(n)
    BY <1>1, <1>2, <1>4 DEF Widens, Active
  <1>5. CASE row = rows[n]
    <2>1. rows' = rows
      BY <1>1, <1>2, <1>5
    <2> QED
      BY <1>1, <2>1 DEF Widens
  <1> QED
    BY <1>3, <1>4, <1>5

LEMMA AloneWidens ==
    ASSUME ShapeInv, AloneInv, ~overlapped, [Next]_vars
    PROVE  Widens
  <1>1. CASE rows' = rows
    BY <1>1 DEF Widens
  <1>2. ASSUME NEW r \in Requests, Resolve(r) PROVE Widens
    <2>0. PICK id, seen : id = Id(r) /\ seen = task[r].seen
      OBVIOUS
    <2>1. PICK v \in Verdicts(id, seen) : rows' = Updated(v, id, {id}, seen)
      BY <1>2, <2>0 DEF Resolve
    <2>2. id \in Ids /\ Copies(seen) /\ Current(seen)
      BY <1>2, <2>0, OwnId DEF ShapeInv, TaskOK, Resolve, AloneInv, Reached
    <2> QED
      BY <2>1, <2>2, UpdateWidens DEF ShapeInv
  <1>3. ASSUME NEW r \in Requests, Store(r) PROVE Widens
    BY <1>3, StoreAlone
  <1>4. CASE CompactResolve
    <2>0. PICK id, seen, todo : /\ id = compactor.cand /\ seen = compactor.seen
                                /\ todo = compactor.todo
      OBVIOUS
    <2>1. PICK v \in Verdicts(id, seen) : rows' = Updated(v, id, todo[id].sources, seen)
      BY <1>4, <2>0 DEF CompactResolve
    <2>2. /\ id \in Ids /\ Copies(seen) /\ Current(seen) /\ todo[id].sources \in SUBSET Ids
      BY <1>4, <2>0 DEF CompactResolve, ShapeInv, CompactorOK, Copies, Row, AloneInv
    <2> QED
      BY <2>1, <2>2, UpdateWidens DEF ShapeInv
  <1>5. ASSUME NEW r \in Requests, Begin(r) \/ Answer(r) \/ Fail(r) PROVE rows' = rows
    BY <1>5 DEF Begin, Answer, Fail
  <1>6. CASE CompactBegin \/ CompactNext \/ CompactEnd \/ CompactFail \/ UNCHANGED vars
    BY <1>1, <1>6 DEF CompactBegin, CompactNext, CompactEnd, CompactFail, vars
  <1> QED
    BY <1>1, <1>2, <1>3, <1>4, <1>5, <1>6 DEF Next, RequestStep, Compaction

LEMMA SourcesWiden ==
    ASSUME ShapeInv, SourcesKept, Widens, answer' = answer,
           \A s \in Requests : answer[s] # None => task'[s].try = task[s].try
    PROVE  SourcesKept'
  <1> SUFFICES ASSUME NEW s \in Requests, answer[s] # None
               PROVE  Id(s)' \in rows'[answer[s]].sources
    BY DEF SourcesKept
  <1>1. answer[s] \in Ids /\ Id(s)' = Id(s)
    BY DEF ShapeInv, TaskOK, Id
  <1> QED
    BY <1>1 DEF SourcesKept, Widens

\* Nothing under way: whoever begins is alone.
LEMMA BeginsAlone ==
    ASSUME ~(Busy > 0)
    PROVE  UnderWay = {} /\ compactor.pc = "idle"
  <1>1. IsFiniteSet(UnderWay)
    BY ConsolidationAssumption, FS_Subset DEF UnderWay
  <1>2. Cardinality(UnderWay) \in Nat
    BY <1>1, FS_CardinalityType
  <1>3. Cardinality(UnderWay) = 0 /\ compactor.pc = "idle"
    BY <1>2 DEF Busy
  <1> QED
    BY <1>1, <1>3, FS_EmptySet

\* Only one is under way: the others have nothing to reach.
LEMMA IdleReaches ==
    ASSUME NEW s \in Requests, s \notin UnderWay
    PROVE  Reached(s)
  BY DEF UnderWay, Reached

LEMMA BeginAlone ==
    ASSUME ShapeInv, AloneInv, NEW r \in Requests, Begin(r)
    PROVE  AloneInv'
  <1> SUFFICES ASSUME ~overlapped' PROVE AloneInv'
    BY DEF AloneInv
  <1>1. ~overlapped /\ UnderWay = {} /\ compactor.pc = "idle"
    BY BeginsAlone DEF Begin
  <1>2. PICK seen \in Listings :
           task' = [task EXCEPT ![r] = [task[r] EXCEPT !.pc = "listed", !.seen = seen]]
    BY DEF Begin
  <1>3. /\ task'[r] = [task[r] EXCEPT !.pc = "listed", !.seen = seen]
        /\ \A s \in Requests : s # r => task'[s] = task[s]
    BY <1>2 DEF ShapeInv, RecordsOK
  <1>4. task[r] = [pc |-> task[r].pc, try |-> task[r].try,
                   seen |-> task[r].seen, out |-> task[r].out]
    BY DEF ShapeInv, RecordsOK
  <1>5. task'[r].pc = "listed" /\ task'[r].seen = seen /\ task'[r].try = task[r].try
    BY <1>3, <1>4
  <1>6. UnderWay' = {r}
    BY <1>1, <1>3, <1>5 DEF UnderWay
  <1>7. rows' = rows /\ answer' = answer /\ compactor' = compactor
    BY DEF Begin
  <1>8. Reached(r)'
    BY <1>5, <1>7, ListingFacts DEF Reached, Current, ShapeInv
  <1>9. ASSUME NEW s \in Requests, s # r PROVE Reached(s)'
    BY <1>6, <1>9 DEF UnderWay, Reached
  <1>10. SourcesKept'
    BY <1>1, <1>3, <1>5, <1>7, SourcesWiden DEF Widens, AloneInv
  <1> QED
    BY <1>1, <1>6, <1>7, <1>8, <1>9, <1>10 DEF AloneInv, Unshared

LEMMA ResolveAlone ==
    ASSUME ShapeInv, AloneInv, NEW r \in Requests, Resolve(r)
    PROVE  AloneInv'
  <1> SUFFICES ASSUME ~overlapped' PROVE AloneInv'
    BY DEF AloneInv
  <1>0. PICK id, seen : id = Id(r) /\ seen = task[r].seen
    OBVIOUS
  <1>1. PICK v \in Verdicts(id, seen) :
           /\ rows' = Updated(v, id, {id}, seen)
           /\ task' = [task EXCEPT ![r].pc = "resolved", ![r].seen = NoCopies,
                                   ![r].out = Result(v, id, seen)]
    BY <1>0 DEF Resolve
  <1>2. /\ ~overlapped /\ r \in UnderWay /\ UnderWay = {r} /\ compactor.pc = "idle"
        /\ answer' = answer /\ compactor' = compactor
    BY DEF Resolve, UnderWay, AloneInv, Unshared
  <1>3. /\ id \in Ids /\ id = <<r, task[r].try>> /\ Copies(seen) /\ Current(seen)
        /\ ~Stored(id)
    BY <1>0, <1>2, OwnId DEF ShapeInv, TaskOK, Unborn, Resolve, AloneInv, Reached
  <1>4. /\ task'[r].pc = "resolved" /\ task'[r].seen = NoCopies
        /\ task'[r].try = task[r].try /\ task'[r].out = Result(v, id, seen)
        /\ \A s \in Requests : s # r => task'[s] = task[s]
    BY <1>1 DEF ShapeInv, RecordsOK
  <1>5. Id(r)' = id
    BY <1>3, <1>4 DEF Id
  <1>6. UnderWay' = {r}
    BY <1>2, <1>4 DEF UnderWay
  <1>7. Widens /\ (v.action = "merged" => rows'[v.neighbor] = Merge(seen[v.neighbor], {id}))
    <2>1. rows' = Updated(v, id, {id}, seen) /\ {id} \in SUBSET Ids /\ RowsOK
      BY <1>1, <1>3 DEF ShapeInv
    <2> QED
      BY <1>3, <2>1, UpdateWidens
  <1>8. ~Stored(id)'
    BY <1>1, <1>3, UpdateShape DEF ShapeInv
  <1>9. Reached(r)'
    <2>1. CASE v.action = "merged"
      <3>1. Result(v, id, seen) = <<v.neighbor, Merge(seen[v.neighbor], {id})>>
        BY <2>1 DEF Result
      <3>2. id \in Merge(seen[v.neighbor], {id}).sources
        <4>1. DOMAIN seen \subseteq Ids /\ \A n \in DOMAIN seen : seen[n] \in Row
          BY <1>3 DEF Copies
        <4>2. v.neighbor \in DOMAIN seen
          BY <1>3, <2>1, <4>1, VerdictFacts
        <4>3. seen[v.neighbor] \in Row /\ {id} \in SUBSET Ids
          BY <1>3, <4>1, <4>2
        <4> QED
          BY <4>3, MergeFacts
      <3> QED
        BY <1>4, <1>5, <1>7, <2>1, <3>1, <3>2 DEF Reached
    <2>2. CASE v.action # "merged"
      <3>1. Result(v, id, seen) = <<id, NewMemory(id)>> /\ id \in NewMemory(id).sources
        BY <1>3, <2>2, NewFacts DEF Result
      <3> QED
        BY <1>4, <1>5, <1>8, <3>1 DEF Reached
    <2> QED
      BY <2>1, <2>2
  <1>10. ASSUME NEW s \in Requests, s # r PROVE Reached(s)'
    BY <1>6, <1>10 DEF UnderWay, Reached
  <1>11. SourcesKept'
    BY <1>2, <1>4, <1>7, SourcesWiden DEF AloneInv
  <1> QED
    BY <1>2, <1>6, <1>9, <1>10, <1>11 DEF AloneInv, Unshared

LEMMA StoreKeepsAlone ==
    ASSUME ShapeInv, AloneInv, NEW r \in Requests, Store(r)
    PROVE  AloneInv'
  <1> SUFFICES ASSUME ~overlapped' PROVE AloneInv'
    BY DEF AloneInv
  <1>1. /\ ~overlapped /\ r \in UnderWay /\ UnderWay = {r} /\ compactor.pc = "idle"
        /\ answer' = answer /\ compactor' = compactor
    BY DEF Store, UnderWay, AloneInv, Unshared
  <1>2. /\ task'[r] = [pc |-> "stored", try |-> task[r].try,
                       seen |-> task[r].seen, out |-> task[r].out]
        /\ \A s \in Requests : s # r => task'[s] = task[s]
    BY StoreFacts
  <1>3. task'[r].pc = "stored" /\ task'[r].try = task[r].try /\ task'[r].out = task[r].out
    BY <1>2
  <1>4. UnderWay' = {r}
    BY <1>1, <1>2, <1>3 DEF UnderWay
  <1>5. Widens /\ rows'[task[r].out[1]] = task[r].out[2]
    BY <1>1, StoreAlone
  <1>6. Reached(r)'
    BY <1>1, <1>3, <1>5 DEF Reached, AloneInv, Store, Id
  <1>7. ASSUME NEW s \in Requests, s # r PROVE Reached(s)'
    BY <1>4, <1>7 DEF UnderWay, Reached
  <1>8. SourcesKept'
    BY <1>1, <1>2, <1>3, <1>5, SourcesWiden DEF AloneInv
  <1> QED
    BY <1>1, <1>4, <1>6, <1>7, <1>8 DEF AloneInv, Unshared

LEMMA AnswerAlone ==
    ASSUME ShapeInv, AloneInv, NEW r \in Requests, Answer(r)
    PROVE  AloneInv'
  <1> SUFFICES ASSUME ~overlapped' PROVE AloneInv'
    BY DEF AloneInv
  <1>1. /\ ~overlapped /\ UnderWay = {r} /\ compactor.pc = "idle"
        /\ rows' = rows /\ compactor' = compactor
    BY DEF Answer, UnderWay, AloneInv, Unshared
  <1>2. /\ task'[r].pc = "done" /\ task'[r].try = task[r].try
        /\ \A s \in Requests : s # r => task'[s] = task[s]
    BY DEF Answer, ShapeInv, RecordsOK
  <1>3. /\ answer'[r] = task[r].out[1]
        /\ \A s \in Requests : s # r => answer'[s] = answer[s]
    BY DEF Answer, ShapeInv, RecordsOK
  <1>4. UnderWay' = {}
    BY <1>1, <1>2 DEF UnderWay
  <1>5. ASSUME NEW s \in Requests PROVE Reached(s)'
    BY <1>4, <1>5 DEF UnderWay, Reached
  <1>6. Id(r) \in rows[task[r].out[1]].sources
    BY <1>1 DEF AloneInv, Reached, Answer
  <1>7. SourcesKept'
    BY <1>1, <1>2, <1>3, <1>6 DEF AloneInv, SourcesKept, Id
  <1> QED
    BY <1>1, <1>4, <1>5, <1>7 DEF AloneInv, Unshared

LEMMA FailAlone ==
    ASSUME ShapeInv, AloneInv, NEW r \in Requests, Fail(r)
    PROVE  AloneInv'
  <1> SUFFICES ASSUME ~overlapped' PROVE AloneInv'
    BY DEF AloneInv
  <1>1. /\ ~overlapped /\ UnderWay = {r} /\ compactor.pc = "idle"
        /\ rows' = rows /\ compactor' = compactor /\ answer' = answer
    BY DEF Fail, AloneInv, Unshared
  <1>2. /\ task'[r].pc \in {"waiting", "failed"}
        /\ \A s \in Requests : s # r => task'[s] = task[s]
    BY DEF Fail, ShapeInv, RecordsOK
  <1>3. UnderWay' = {}
    BY <1>1, <1>2 DEF UnderWay
  <1>4. ASSUME NEW s \in Requests PROVE Reached(s)'
    BY <1>3, <1>4 DEF UnderWay, Reached
  <1>5. answer[r] = None
    BY <1>1 DEF ShapeInv, TaskOK, UnderWay
  <1>6. SourcesKept'
    BY <1>1, <1>2, <1>5, SourcesWiden DEF AloneInv, Widens
  <1> QED
    BY <1>1, <1>3, <1>4, <1>6 DEF AloneInv, Unshared

LEMMA CompactionAlone ==
    ASSUME ShapeInv, AloneInv, Compaction
    PROVE  AloneInv'
  <1> SUFFICES ASSUME ~overlapped' PROVE AloneInv'
    BY DEF AloneInv
  <1>1. /\ ~overlapped /\ UnderWay = {} /\ task' = task /\ answer' = answer
    <2>1. CASE CompactBegin
      BY <2>1, BeginsAlone DEF CompactBegin
    <2>2. CASE CompactNext \/ CompactResolve \/ CompactEnd \/ CompactFail
      <3>1. compactor.pc # "idle" /\ overlapped' = overlapped
            /\ task' = task /\ answer' = answer
        BY <2>2 DEF CompactNext, CompactResolve, CompactEnd, CompactFail
      <3> QED
        BY <3>1 DEF AloneInv, Unshared
    <2> QED
      BY <2>1, <2>2 DEF Compaction
  <1>2. UnderWay' = {}
    BY <1>1 DEF UnderWay
  <1>3. ASSUME NEW s \in Requests PROVE Reached(s)'
    BY <1>2, <1>3 DEF UnderWay, Reached
  <1>4. Widens
    BY <1>1, AloneWidens DEF Next
  <1>5. SourcesKept'
    BY <1>1, <1>4, SourcesWiden DEF AloneInv
  <1>6. compactor'.pc = "listed" => Current(compactor.seen)'
    <2>1. CASE CompactNext
      <3>1. PICK id \in DOMAIN compactor.todo, seen \in Listings :
               compactor' = [compactor EXCEPT !.pc = "listed", !.cand = id, !.seen = seen]
        BY <2>1 DEF CompactNext
      <3>2. compactor'.seen = seen
        BY <3>1 DEF ShapeInv, RecordsOK
      <3>3. rows' = rows
        BY <2>1 DEF CompactNext
      <3> QED
        BY <3>2, <3>3, ListingFacts DEF ShapeInv, Current
    <2>2. CASE CompactBegin
      BY <2>2 DEF CompactBegin, Idle
    <2>3. CASE CompactResolve \/ CompactEnd \/ CompactFail
      BY <2>3 DEF CompactResolve, CompactEnd, CompactFail, Idle
    <2> QED
      BY <2>1, <2>2, <2>3 DEF Compaction
  <1> QED
    BY <1>2, <1>3, <1>5, <1>6 DEF AloneInv, Unshared

LEMMA NextAlone == ASSUME ShapeInv, AloneInv, [Next]_vars PROVE AloneInv'
  <1>1. CASE UNCHANGED vars
    BY <1>1 DEF vars, AloneInv, Unshared, UnderWay, Reached, Current, SourcesKept, Id, Stored
  <1> QED
    BY <1>1, BeginAlone, ResolveAlone, StoreKeepsAlone, AnswerAlone, FailAlone,
       CompactionAlone DEF Next, RequestStep

-----------------------------------------------------------------------------
(* The rows of one request, while the list of neighbours holds all that are *)
(* active.  Of coherent contents no two active rows are related, so the     *)
(* list has at most one related neighbour, and an attempt that stores a row *)
(* of its own has superseded it.                                            *)

Unlike(n, m) == Rel[n[1]][m[1]] = "new"
Few(more) == Cardinality(Kept) <= ListCap + more

SingleInv ==
    ~overlapped =>
        /\ Coherent /\ Few(1) => \A n, m \in Active : n # m => Unlike(n, m)
        /\ \A r \in Requests :
              task[r].pc = "listed" /\ Few(0) => DOMAIN task[r].seen = Active
        /\ \A r \in Requests :
              /\ task[r].pc = "resolved" /\ ~Stored(task[r].out[1])
              /\ CoherentOn(Known \cup {r}) /\ Few(0)
              => \A n \in Active : Rel[n[1]][r] = "new"

LEMMA KnownFacts ==
    ASSUME RowsOK
    PROVE  /\ Known = {id[1] : id \in {n \in Ids : Stored(n)}}
           /\ Known \subseteq Requests
           /\ \A n \in Active : n[1] \in Known
  <1>1. \A n \in Ids : rows[n] # NoRow <=> Stored(n)
    BY DEF RowsOK, Stored, NoRow
  <1>2. Known = {id[1] : id \in {n \in Ids : Stored(n)}}
    BY <1>1 DEF Known, Kept
  <1>3. Active \subseteq {n \in Ids : Stored(n)}
    BY DEF Active, Stored
  <1> QED
    BY <1>2, <1>3, IdFacts

LEMMA KnownNext ==
    ASSUME RowsOK'
    PROVE  /\ Known' = {id[1] : id \in {n \in Ids : Stored(n)'}}
           /\ \A n \in Active' : n[1] \in Known'
  <1>1. \A n \in Ids : rows'[n] # NoRow <=> Stored(n)'
    BY DEF RowsOK, Stored, NoRow
  <1>2. Known' = {id[1] : id \in {n \in Ids : Stored(n)'}}
    BY <1>1 DEF Known, Kept
  <1>3. Active' \subseteq {n \in Ids : Stored(n)'}
    BY DEF Active, Stored
  <1> QED
    BY <1>2, <1>3

LEMMA KnownGrows ==
    ASSUME RowsOK, RowsOK', Grows
    PROVE  Known \subseteq Known'
  BY KnownFacts, KnownNext DEF Grows

LEMMA CoherentSubset ==
    ASSUME NEW K, NEW L, L \subseteq K, CoherentOn(K)
    PROVE  CoherentOn(L)
  BY DEF CoherentOn

\* A relation between coherent contents is seen from both sides.
LEMMA CoherentBothWays ==
    ASSUME NEW K \in SUBSET Requests, CoherentOn(K), NEW r \in K, NEW s \in K,
           Rel[r][s] # "new"
    PROVE  /\ Rel[r][s] \in {"merged", "superseded"} /\ Rel[s][r] = Rel[r][s]
           /\ Rel[r][r] = "merged"
  <1>1. Rel[s][s] = "merged" /\ Rel[r][r] = "merged"
    BY RelFacts
  <1>2. Rel[r][s] \in {"merged", "superseded"}
    BY <1>1 DEF CoherentOn
  <1> QED
    BY <1>1, <1>2, RelFacts

LEMMA IdsFinite ==
    ASSUME NEW K \in SUBSET Ids
    PROVE  IsFiniteSet(K) /\ Cardinality(K) \in Nat
  <1>1. IsFiniteSet(1 .. MaxTries)
    BY ConsolidationAssumption, FS_Interval
  <1>2. IsFiniteSet(Ids)
    BY <1>1, ConsolidationAssumption, FS_Product DEF Ids
  <1>3. IsFiniteSet(K)
    BY <1>2, FS_Subset
  <1> QED
    BY <1>3, FS_CardinalityType

LEMMA KeptFacts ==
    ASSUME RowsOK
    PROVE  /\ Kept = {n \in Ids : Stored(n)} /\ Active \subseteq Kept
           /\ IsFiniteSet(Kept) /\ Cardinality(Kept) \in Nat
  <1>1. Kept = {n \in Ids : Stored(n)} /\ Active \subseteq Kept
    BY DEF RowsOK, Stored, NoRow, Kept, Active
  <1> QED
    BY <1>1, IdsFinite

LEMMA KeptNext ==
    ASSUME RowsOK'
    PROVE  /\ Kept' = {n \in Ids : Stored(n)'}
           /\ IsFiniteSet(Kept') /\ Cardinality(Kept') \in Nat
  <1>1. \A n \in Ids : rows'[n] # NoRow <=> Stored(n)'
    BY DEF RowsOK, Stored, NoRow
  <1>2. Kept' = {n \in Ids : Stored(n)'}
    BY <1>1 DEF Kept
  <1> QED
    BY <1>2, IdsFinite

\* Fewer rows are fewer than as many, or one more.
LEMMA FewFacts ==
    ASSUME RowsOK
    PROVE  Few(0) => Few(1)
  BY KeptFacts, ConsolidationAssumption DEF Few

\* No row goes, so that what there is now was not more before.
LEMMA FewWere ==
    ASSUME RowsOK, RowsOK', Grows, NEW more \in {0, 1}
    PROVE  Few(more)' => Few(more)
  <1>1. /\ IsFiniteSet(Kept') /\ Kept' = {n \in Ids : Stored(n)'}
        /\ Cardinality(Kept') \in Nat /\ Cardinality(Kept) \in Nat
    BY KeptFacts, KeptNext
  <1>2. Kept \in SUBSET Kept'
    BY <1>1, KeptFacts DEF Grows
  <1>3. Cardinality(Kept) <= Cardinality(Kept')
    BY <1>1, <1>2, FS_Subset
  <1> QED
    BY <1>1, <1>3, ConsolidationAssumption DEF Few

\* The list holds all active rows, if it could hold all there are.
LEMMA ListsAll ==
    ASSUME RowsOK, Few(0), NEW f \in Listings
    PROVE  DOMAIN f = Active
  <1>1. /\ IsFiniteSet(Active) /\ Cardinality(Active) <= Cardinality(Kept)
        /\ Cardinality(Active) \in Nat /\ Cardinality(Kept) \in Nat
    BY KeptFacts, FS_Subset, FS_CardinalityType
  <1>2. Cardinality(Active) <= ListCap
    BY <1>1, ConsolidationAssumption DEF Few
  <1>3. PICK L \in SUBSET Active : f = [n \in L |-> rows[n]] /\ Cardinality(L) = Cardinality(Active)
    BY <1>2 DEF Listings, kSubset
  <1>4. L = Active
    BY <1>1, <1>3, FS_Subset
  <1> QED
    BY <1>3, <1>4

LEMMA InitSingle == ASSUME Init PROVE SingleInv
  <1>1. Active = {}
    BY DEF Init, Active, NoRow
  <1> QED
    BY <1>1 DEF Init, SingleInv

\* The only related neighbour is superseded, or nothing is stored beside it.
LEMMA OneRelated ==
    ASSUME RowsOK, NEW r \in Requests, NEW id \in Ids, id[1] = r, ~Stored(id),
           NEW seen, DOMAIN seen = Active, NEW v \in Verdicts(id, seen),
           CoherentOn(Known \cup {r}),
           \A n, m \in Active : n # m => Unlike(n, m),
           v.action # "merged",
           NEW n \in Active, Rel[n[1]][r] # "new"
    PROVE  v.action = "superseded" /\ v.neighbor = n
  <1>1. n \in DOMAIN seen \ {id} /\ n[1] \in Known /\ n[1] \in Requests
    BY KnownFacts DEF Active, Stored
  <1>2. /\ v.neighbor \in DOMAIN seen \ {id} /\ v.action = Rel[v.neighbor[1]][r]
        /\ v.action # "new"
    BY <1>1, VerdictFacts DEF Active
  <1>3. v.neighbor \in Active /\ v.neighbor[1] \in Known /\ v.neighbor[1] \in Requests
    BY <1>2, KnownFacts
  <1>4. v.neighbor = n
    BY <1>1, <1>2, <1>3 DEF CoherentOn, Unlike
  <1>5. Rel[n[1]][r] \in {"merged", "superseded"}
    BY <1>1, KnownFacts, CoherentBothWays
  <1> QED
    BY <1>2, <1>4, <1>5

LEMMA NextSingle ==
    ASSUME ShapeInv, AloneInv, SingleInv, [Next]_vars
    PROVE  SingleInv'
  <1> SUFFICES ASSUME ~overlapped' PROVE SingleInv'
    BY DEF SingleInv
  <1>1. ~overlapped
    BY DEF Next, RequestStep, Compaction, Begin, Resolve, Store, Answer, Fail, CompactBegin,
           CompactNext, CompactResolve, CompactEnd, CompactFail, vars
  <1>2. ShapeInv' /\ AloneInv'
    BY NextShape, NextAlone
  <1>3. Unshared' /\ Unshared
    BY <1>1, <1>2 DEF AloneInv
  <1>4. rows' = rows => /\ Active' = Active /\ Known' = Known /\ (Coherent' <=> Coherent)
                        /\ \A n \in Ids : Stored(n)' <=> Stored(n)
                        /\ (Few(0)' <=> Few(0)) /\ (Few(1)' <=> Few(1))
    BY DEF Active, Kept, Known, Coherent, CoherentOn, Stored, Few
  <1>5. ASSUME NEW r \in Requests, Begin(r) PROVE SingleInv'
    <2>1. PICK seen \in Listings :
             task' = [task EXCEPT ![r] = [task[r] EXCEPT !.pc = "listed", !.seen = seen]]
      BY <1>5 DEF Begin
    <2>2. task'[r] = [task[r] EXCEPT !.pc = "listed", !.seen = seen]
      BY <2>1 DEF ShapeInv, RecordsOK
    <2>3. task[r] = [pc |-> task[r].pc, try |-> task[r].try,
                     seen |-> task[r].seen, out |-> task[r].out]
      BY DEF ShapeInv, RecordsOK
    <2>4. task'[r].pc = "listed" /\ task'[r].seen = seen
      BY <2>2, <2>3
    <2>5. \A s \in Requests : s # r => task'[s].pc \notin {"listed", "resolved"}
      BY <1>3, <2>4 DEF Unshared, UnderWay
    <2>6. Few(0) => DOMAIN seen = Active
      BY ListsAll DEF ShapeInv
    <2>7. rows' = rows
      BY <1>5 DEF Begin
    <2> QED
      BY <1>1, <1>4, <2>4, <2>5, <2>6, <2>7 DEF SingleInv, Unlike
  <1>6. ASSUME NEW r \in Requests, Resolve(r) PROVE SingleInv'
    <2>0. PICK id, seen : id = Id(r) /\ seen = task[r].seen
      OBVIOUS
    <2>1. PICK v \in Verdicts(id, seen) :
             /\ rows' = Updated(v, id, {id}, seen)
             /\ task' = [task EXCEPT ![r].pc = "resolved", ![r].seen = NoCopies,
                                     ![r].out = Result(v, id, seen)]
      BY <1>6, <2>0 DEF Resolve
    <2>2. /\ id \in Ids /\ id[1] = r /\ Copies(seen) /\ Current(seen) /\ ~Stored(id)
          /\ task[r].pc = "listed" /\ RowsOK /\ {id} \in SUBSET Ids
          /\ rows' = Updated(v, id, {id}, seen)
      BY <1>1, <1>6, <2>0, <2>1, OwnId DEF ShapeInv, TaskOK, Unborn, Resolve, AloneInv, Reached
    <2>3. /\ Active' \subseteq Active
          /\ v.action = "superseded" => Active' = Active \ {v.neighbor}
      BY <2>2, UpdateWidens
    <2>4. \A m \in Ids : Stored(m)' <=> Stored(m)
      BY <2>2, UpdateShape
    <2>5. /\ Known' = Known
          /\ (Few(0)' => Few(0)) /\ (Few(1)' => Few(1))
      BY <1>2, <2>2, <2>4, KnownFacts, KnownNext, FewWere DEF ShapeInv, Grows
    <2>6. task'[r].pc = "resolved" /\ task'[r].out = Result(v, id, seen)
      BY <2>1 DEF ShapeInv, RecordsOK
    <2>7. \A s \in Requests : s # r => task'[s].pc \notin {"listed", "resolved"}
      BY <1>3, <2>6 DEF Unshared, UnderWay
    <2>8. ASSUME ~Stored(Result(v, id, seen)[1])', CoherentOn(Known \cup {r}), Few(0),
                 NEW n \in Active'
          PROVE  Rel[n[1]][r] = "new"
      <3>1. v.action # "merged"
        BY <2>2, <2>4, <2>8, VerdictFacts DEF Result, Copies
      <3>2. Coherent
        BY <2>8, CoherentSubset DEF Coherent
      <3>3. DOMAIN seen = Active /\ \A x, y \in Active : x # y => Unlike(x, y)
        BY <1>1, <2>0, <2>2, <2>8, <3>2, FewFacts DEF SingleInv
      <3>4. n \in Active
        BY <2>3, <2>8
      <3>5. Rel[n[1]][r] # "new" => v.action = "superseded" /\ v.neighbor = n
        BY <2>2, <2>8, <3>1, <3>3, <3>4, OneRelated
      <3> QED
        BY <2>3, <2>8, <3>5
    <2>9. Coherent' => Coherent
      BY <2>5 DEF Coherent, CoherentOn
    <2> QED
      BY <1>1, <2>3, <2>5, <2>6, <2>7, <2>8, <2>9 DEF SingleInv, Unlike, CoherentOn
  <1>7. ASSUME NEW r \in Requests, Store(r) PROVE SingleInv'
    <2>1. /\ task'[r] = [pc |-> "stored", try |-> task[r].try,
                         seen |-> task[r].seen, out |-> task[r].out]
          /\ \A s \in Requests : s # r => task'[s] = task[s]
      BY <1>7, StoreFacts
    <2>2. \A s \in Requests : task'[s].pc \notin {"listed", "resolved"}
      BY <1>3, <2>1 DEF Unshared, UnderWay
    <2>3. CASE rows' = rows
      BY <1>1, <1>4, <2>2, <2>3 DEF SingleInv, Unlike
    <2>4. PICK n : n = task[r].out[1]
      OBVIOUS
    <2>5. CASE n = Id(r) /\ ~Stored(n) /\ Active' = Active \cup {n}
      <3>1. n \in Ids /\ n[1] = r /\ task[r].pc = "resolved" /\ RowsOK /\ RowsOK'
        BY <1>2, <1>7, <2>5, OwnId DEF Store, ShapeInv
      <3>2. Grows
        BY <1>7, StoreFacts
      <3>3. r \in Known'
        <4>1. n[1] \in Known'
          BY <1>2, <2>5, KnownNext DEF ShapeInv
        <4> QED
          BY <3>1, <4>1
      <3>4. Known \cup {r} \subseteq Known'
        BY <3>1, <3>2, <3>3, KnownGrows
      <3>5. Coherent' => CoherentOn(Known \cup {r}) /\ Coherent
        <4>1. Coherent' => CoherentOn(Known')
          BY DEF Coherent, CoherentOn
        <4> QED
          BY <3>4, <4>1, CoherentSubset DEF Coherent
      <3>6. CoherentOn(Known \cup {r}) /\ Few(0) => \A m \in Active : Rel[m[1]][r] = "new"
        BY <1>1, <2>4, <2>5, <3>1 DEF SingleInv
      <3>7. ASSUME Coherent', Few(0), NEW m \in Active
            PROVE  Rel[m[1]][r] = "new" /\ Rel[r][m[1]] = "new"
        <4>1. CoherentOn(Known \cup {r}) /\ Rel[m[1]][r] = "new"
          BY <3>5, <3>6, <3>7
        <4>2. Known \cup {r} \in SUBSET Requests /\ m[1] \in Known
          BY <3>1, KnownFacts
        <4> QED
          BY <4>1, <4>2, CoherentBothWays
      <3>8. Few(1)' => Few(0)
        <4>1. Kept' = Kept \cup {n} /\ n \notin Kept
          <5>1. \A m \in Ids : Stored(m)' <=> Stored(m) \/ m = n
            <6>1. \E k \in Ids : /\ task[r].out[1] = k
                                 /\ \A m \in Ids : Stored(m)' <=> Stored(m) \/ m = k
              BY <1>7, StoreFacts
            <6> QED
              BY <2>4, <6>1
          <5> QED
            BY <2>5, <3>1, <5>1, KeptFacts, KeptNext
        <4>2. Cardinality(Kept') = Cardinality(Kept) + 1
          BY <3>1, <4>1, KeptFacts, FS_AddElement
        <4> QED
          BY <3>1, <4>2, KeptFacts, ConsolidationAssumption DEF Few
      <3>9. Coherent' /\ Few(1)' => \A x, y \in Active' : x # y => Rel[x[1]][y[1]] = "new"
        BY <1>1, <2>5, <3>1, <3>5, <3>7, <3>8, FewFacts DEF SingleInv, Unlike
      <3> QED
        BY <2>2, <3>9 DEF SingleInv, Unlike
    <2> QED
      BY <1>1, <1>7, <2>3, <2>4, <2>5, StoreAlone
  <1>8. ASSUME NEW r \in Requests, Answer(r) \/ Fail(r) PROVE SingleInv'
    <2>1. UnderWay = {r} /\ rows' = rows
      BY <1>3, <1>8 DEF Answer, Fail, Unshared, UnderWay
    <2>2. task'[r].pc \notin {"listed", "resolved"} /\ \A s \in Requests : s # r => task'[s] = task[s]
      BY <1>8 DEF Answer, Fail, ShapeInv, RecordsOK
    <2>3. \A s \in Requests : task'[s].pc \notin {"listed", "resolved"}
      BY <2>1, <2>2 DEF UnderWay
    <2> QED
      BY <1>1, <1>4, <2>1, <2>3 DEF SingleInv, Unlike
  <1>9. CASE Compaction
    <2>1. task' = task
      BY <1>9 DEF Compaction, CompactBegin, CompactNext, CompactResolve, CompactEnd, CompactFail
    <2>2. UnderWay = {}
      <3>1. CASE CompactBegin
        BY <3>1, BeginsAlone DEF CompactBegin
      <3>2. CASE CompactNext \/ CompactResolve \/ CompactEnd \/ CompactFail
        <4>1. compactor.pc # "idle"
          BY <3>2 DEF CompactNext, CompactResolve, CompactEnd, CompactFail
        <4> QED
          BY <1>3, <4>1 DEF Unshared
      <3> QED
        BY <1>9, <3>1, <3>2 DEF Compaction
    <2>3. \A s \in Requests : task'[s].pc \notin {"listed", "resolved"}
      BY <2>1, <2>2 DEF UnderWay
    <2>4. CASE rows' = rows
      BY <1>1, <1>4, <2>3, <2>4 DEF SingleInv, Unlike
    <2>5. CASE CompactResolve
      <3>0. PICK id, seen, todo : /\ id = compactor.cand /\ seen = compactor.seen
                                  /\ todo = compactor.todo
        OBVIOUS
      <3>1. PICK v \in Verdicts(id, seen) : rows' = Updated(v, id, todo[id].sources, seen)
        BY <2>5, <3>0 DEF CompactResolve
      <3>2. /\ id \in Ids /\ Copies(seen) /\ Current(seen) /\ todo[id].sources \in SUBSET Ids
        BY <1>1, <2>5, <3>0 DEF CompactResolve, ShapeInv, CompactorOK, Copies, Row, AloneInv
      <3>3. Active' \subseteq Active
        BY <3>1, <3>2, UpdateWidens DEF ShapeInv
      <3>4. Grows
        BY <3>1, <3>2, UpdateShape DEF ShapeInv
      <3>5. Known \subseteq Known'
        BY <1>2, <3>4, KnownGrows DEF ShapeInv
      <3>6. Coherent' => Coherent
        <4>1. Coherent' => CoherentOn(Known')
          BY DEF Coherent, CoherentOn
        <4> QED
          BY <3>5, <4>1, CoherentSubset DEF Coherent
      <3>7. Few(1)' => Few(1)
        BY <1>2, <3>4, FewWere DEF ShapeInv
      <3> QED
        BY <1>1, <2>3, <3>3, <3>6, <3>7 DEF SingleInv, Unlike
    <2> QED
      BY <1>9, <2>4, <2>5 DEF Compaction, CompactBegin, CompactNext, CompactEnd, CompactFail
  <1>10. CASE UNCHANGED vars
    <2>1. task' = task /\ rows' = rows
      BY <1>10 DEF vars
    <2>2. \A n : Stored(n)' <=> Stored(n)
      BY <2>1 DEF Stored
    <2>3. \A K : CoherentOn(K)' <=> CoherentOn(K)
      BY DEF CoherentOn
    <2> QED
      BY <1>1, <1>4, <2>1, <2>2, <2>3 DEF SingleInv, Unlike
  <1> QED
    BY <1>5, <1>6, <1>7, <1>8, <1>9, <1>10 DEF Next, RequestStep

-----------------------------------------------------------------------------
(* The theorems. *)

LEMMA ConsolidationInvariant ==
    Spec => [](ShapeInv /\ SupersessionIsHistory /\ NoTrap /\ AloneInv)
  <1> DEFINE Inv == ShapeInv /\ SupersessionIsHistory /\ NoTrap /\ AloneInv
  <1>1. Init => Inv
    BY InitShape, InitHistory, InitTrap, InitAlone
  <1>2. Inv /\ [Next]_vars => Inv'
    BY NextShape, NextHistory, NextTrap, NextAlone
  <1> QED
    BY <1>1, <1>2, PTL DEF Spec

\* Concurrent ingests overwrite each other's rows and die half way, and every
\* request that was answered is known by an active row (service.go,
\* consolidation/service.go).
THEOREM FactsAreKept == Spec => []IngestionKeepsFacts
  <1>1. ShapeInv /\ NoTrap => IngestionKeepsFacts
    BY TrapKeepsFacts
  <1> QED
    BY <1>1, ConsolidationInvariant, PTL

\* Until a compaction compares stored rows with each other, "superseded by" never
\* leads in a circle (linkRelation).
THEOREM HistoryIsKept == Spec => []SupersessionIsHistory
  BY ConsolidationInvariant, PTL

\* While one process runs at a time nothing brings a superseded row back, though
\* every Upsert writes a whole row from a copy listed before.
THEOREM SupersededIsFinal == Spec => SupersededStays
  <1>1. ShapeInv /\ AloneInv /\ [Next]_vars =>
           [~overlapped => \A id \in Ids : rows[id].status = "superseded"
                                               => rows'[id].status = "superseded"]_vars
    BY AloneWidens DEF Widens
  <1> QED
    BY <1>1, ConsolidationInvariant, PTL DEF Spec, SupersededStays

\* One process at a time, the row a request was answered with names its event:
\* no merge, retry or compaction loses a source.
THEOREM SourcesAreKept == Spec => [](~overlapped => SourcesKept)
  <1>1. AloneInv => (~overlapped => SourcesKept)
    BY DEF AloneInv
  <1> QED
    BY <1>1, ConsolidationInvariant, PTL

\* Retries neither lose nor multiply what has words: of coherent contents no
\* request leaves two active rows, as long as the list of neighbours held the rows
\* there were (consolidation/service.go:40-77).
THEOREM RetriesMerge == Spec => []AloneRetriesMerge
  <1> DEFINE Inv == ShapeInv /\ AloneInv /\ SingleInv
  <1>1. Init => Inv
    BY InitShape, InitAlone, InitSingle
  <1>2. Inv /\ [Next]_vars => Inv'
    BY NextShape, NextAlone, NextSingle
  <1>3. Inv => AloneRetriesMerge
    <2> SUFFICES ASSUME Inv, ~overlapped, Coherent, Few(1), NEW n \in Active, NEW m \in Active,
                        n[1] = m[1], Rel[n[1]][n[1]] = "merged"
                 PROVE  n = m
      BY DEF AloneInv, AloneRetriesMerge, Few
    <2> QED
      BY DEF SingleInv, Unlike
  <1> QED
    BY <1>1, <1>2, <1>3, PTL DEF Spec

-----------------------------------------------------------------------------
(* The scheduler's jobs, of which compaction is one.                        *)

\* Replicas that run a job without their session holding its lock.
Strays(j) == {r \in Replicas : run[r][j] /\ lock[j] # r}

\* OneFlightPerSession is not inductive: a replica whose session was lost runs
\* on while the lock is free, so what is counted is the strays.
StraysAreLosses == \A j \in JobNames : Cardinality(Strays(j)) <= drops

SchedulerInv == TypeOK /\ StrandedOnlyInShutdown /\ StraysAreLosses

LEMMA StraysFinite ==
    ASSUME NEW j \in JobNames
    PROVE  /\ IsFiniteSet(Strays(j)) /\ Cardinality(Strays(j)) \in Nat
           /\ IsFiniteSet(Strays(j)') /\ Cardinality(Strays(j)') \in Nat
  <1>1. Strays(j) \subseteq Replicas /\ Strays(j)' \subseteq Replicas
    BY DEF Strays
  <1> QED
    BY <1>1, SchedulerAssumption, FS_Subset, FS_CardinalityType

LEMMA InitScheduler == ASSUME SchedulerInit PROVE SchedulerInv
  <1>1. \A j \in JobNames : Strays(j) = {}
    BY DEF SchedulerInit, Strays
  <1>2. StraysAreLosses
    <2>1. \A j \in JobNames : Cardinality(Strays(j)) = 0
      BY <1>1, FS_EmptySet
    <2> QED
      BY <2>1 DEF SchedulerInit, StraysAreLosses
  <1>3. StrandedOnlyInShutdown
    BY DEF SchedulerInit, StrandedOnlyInShutdown
  <1>4. TypeOK
    BY SchedulerAssumption DEF SchedulerInit, TypeOK
  <1> QED
    BY <1>2, <1>3, <1>4 DEF SchedulerInv

\* Types, with the locks of dead processes, and the locks without a job.
LEMMA StepTypeOK ==
    ASSUME TypeOK, StrandedOnlyInShutdown, SchedulerNext
    PROVE  TypeOK' /\ StrandedOnlyInShutdown'
  <1> USE SchedulerAssumption DEF TypeOK, StrandedOnlyInShutdown
  <1>1. ASSUME NEW r \in Replicas, NEW j \in JobNames, Tick(r, j)
        PROVE  TypeOK' /\ StrandedOnlyInShutdown'
    BY <1>1 DEF Tick, Acquirable
  <1>2. ASSUME NEW r \in Replicas, NEW j \in JobNames, Finish(r, j)
        PROVE  TypeOK' /\ StrandedOnlyInShutdown'
    BY <1>2 DEF Finish, Unlocked
  <1>3. ASSUME NEW r \in Replicas, NEW j \in JobNames, FinishCancelled(r, j)
        PROVE  TypeOK' /\ StrandedOnlyInShutdown'
    BY <1>3 DEF FinishCancelled
  <1>4. ASSUME NEW r \in Replicas, NEW j \in JobNames, Drop(r, j)
        PROVE  TypeOK' /\ StrandedOnlyInShutdown'
    BY <1>4 DEF Drop
  <1>5. ASSUME NEW r \in Replicas, Cancel(r)
        PROVE  TypeOK' /\ StrandedOnlyInShutdown'
    BY <1>5 DEF Cancel
  <1>6. ASSUME NEW r \in Replicas, Close(r)
        PROVE  TypeOK' /\ StrandedOnlyInShutdown'
    BY <1>6 DEF Close, JobsReturned, SessionsEnd
  <1>7. ASSUME NEW r \in Replicas, Crash(r)
        PROVE  TypeOK' /\ StrandedOnlyInShutdown'
    BY <1>7 DEF Crash, SessionsEnd
  <1>8. ASSUME NEW r \in Replicas, Restart(r)
        PROVE  TypeOK' /\ StrandedOnlyInShutdown'
    BY <1>8 DEF Restart
  <1> HIDE DEF TypeOK, StrandedOnlyInShutdown
  <1> QED
    BY <1>1, <1>2, <1>3, <1>4, <1>5, <1>6, <1>7, <1>8 DEF SchedulerNext, JobStep

\* Only the loss of a session makes a stray, and it makes one.
LEMMA NoNewStrays ==
    ASSUME TypeOK, NEW r \in Replicas,
           \/ \E i \in JobNames : Tick(r, i) \/ Finish(r, i) \/ FinishCancelled(r, i)
           \/ Cancel(r) \/ Close(r) \/ Crash(r) \/ Restart(r),
           NEW j \in JobNames
    PROVE  Strays(j)' \subseteq Strays(j) /\ drops' = drops
  <1> USE SchedulerAssumption DEF TypeOK, Strays
  <1>1. ASSUME NEW i \in JobNames, Tick(r, i)
        PROVE  Strays(j)' \subseteq Strays(j) /\ drops' = drops
    BY <1>1 DEF Tick, Acquirable
  <1>2. ASSUME NEW i \in JobNames, Finish(r, i) \/ FinishCancelled(r, i)
        PROVE  Strays(j)' \subseteq Strays(j) /\ drops' = drops
    BY <1>2 DEF Finish, FinishCancelled, Unlocked
  <1>3. CASE Close(r)
    BY <1>3 DEF Close, JobsReturned, SessionsEnd
  <1>4. CASE Crash(r)
    BY <1>4 DEF Crash, SessionsEnd
  <1>5. CASE Cancel(r) \/ Restart(r)
    BY <1>5 DEF Cancel, Restart
  <1> QED
    BY <1>1, <1>2, <1>3, <1>4, <1>5

LEMMA OneNewStray ==
    ASSUME TypeOK, NEW r \in Replicas, NEW i \in JobNames, Drop(r, i), NEW j \in JobNames
    PROVE  Strays(j)' \subseteq Strays(j) \cup {r} /\ drops' = drops + 1
  BY DEF TypeOK, Drop, Strays

LEMMA StepStrays ==
    ASSUME TypeOK, StraysAreLosses, SchedulerNext
    PROVE  StraysAreLosses'
  <1> SUFFICES ASSUME NEW j \in JobNames
               PROVE  Cardinality(Strays(j)') <= drops'
    BY DEF StraysAreLosses
  <1>0. drops \in Nat /\ Cardinality(Strays(j)) <= drops
    BY SchedulerAssumption DEF TypeOK, StraysAreLosses
  <1>1. CASE Strays(j)' \subseteq Strays(j) /\ drops' = drops
    <2>1. Cardinality(Strays(j)') <= Cardinality(Strays(j))
      BY <1>1, StraysFinite, FS_Subset
    <2> QED
      BY <1>0, <1>1, <2>1, StraysFinite
  <1>2. ASSUME NEW r \in Replicas, Strays(j)' \subseteq Strays(j) \cup {r},
               drops' = drops + 1
        PROVE  Cardinality(Strays(j)') <= drops'
    <2>1. /\ IsFiniteSet(Strays(j) \cup {r})
          /\ Cardinality(Strays(j) \cup {r}) <= Cardinality(Strays(j)) + 1
      BY StraysFinite, FS_AddElement
    <2>2. Cardinality(Strays(j)') <= Cardinality(Strays(j) \cup {r})
      BY <1>2, <2>1, FS_Subset
    <2>3. Cardinality(Strays(j) \cup {r}) \in Nat
      BY <2>1, FS_CardinalityType
    <2> QED
      BY <1>0, <1>2, <2>1, <2>2, <2>3, StraysFinite
  <1> QED
    BY <1>1, <1>2, NoNewStrays, OneNewStray DEF SchedulerNext, JobStep

LEMMA StutterScheduler == ASSUME SchedulerInv, UNCHANGED schedulerVars PROVE SchedulerInv'
  BY DEF SchedulerInv, TypeOK, StrandedOnlyInShutdown, StraysAreLosses, Strays, schedulerVars

LEMMA SchedulerInvariant == SchedulerSpec => []SchedulerInv
  <1>1. SchedulerInit => SchedulerInv
    BY InitScheduler
  <1>2. SchedulerInv /\ [SchedulerNext]_schedulerVars => SchedulerInv'
    BY StepTypeOK, StepStrays, StutterScheduler DEF SchedulerInv
  <1> QED
    BY <1>1, <1>2, PTL DEF SchedulerSpec

\* Locks, jobs and processes fit together: no lock outlives its process.
THEOREM SchedulerTypeCorrect == SchedulerSpec => []TypeOK
  BY SchedulerInvariant, PTL DEF SchedulerInv

\* Only a stopping process holds a lock of a job it does not run.
THEOREM StrandsOnlyInShutdown == SchedulerSpec => []StrandedOnlyInShutdown
  BY SchedulerInvariant, PTL DEF SchedulerInv

\* A job is in as many flights as sessions were lost, plus one.
THEOREM FlightsAreBounded == SchedulerSpec => []OneFlightPerSession
  <1>1. SchedulerInv => OneFlightPerSession
    <2> SUFFICES ASSUME SchedulerInv, NEW j \in JobNames
                 PROVE  Cardinality({r \in Replicas : run[r][j]}) <= 1 + drops
      BY DEF OneFlightPerSession
    <2> DEFINE Runners == {r \in Replicas : run[r][j]}
    <2>1. Runners \subseteq Strays(j) \cup {lock[j]}
      BY DEF Strays
    <2> DEFINE holder == lock[j]
    <2>2. /\ IsFiniteSet(Strays(j) \cup {holder})
          /\ Cardinality(Strays(j) \cup {holder}) <= Cardinality(Strays(j)) + 1
      <3> HIDE DEF holder
      <3>1. IsFiniteSet(Strays(j)) /\ Cardinality(Strays(j)) \in Nat
        BY StraysFinite
      <3> QED
        BY <3>1, FS_AddElement
    <2>3. Cardinality(Runners) <= Cardinality(Strays(j) \cup {lock[j]})
      BY <2>1, <2>2, FS_Subset
    <2>4. /\ Cardinality(Strays(j)) <= drops /\ drops \in Nat
      BY SchedulerAssumption DEF SchedulerInv, StraysAreLosses, TypeOK
    <2>5. Cardinality(Strays(j) \cup {lock[j]}) \in Nat /\ Cardinality(Runners) \in Nat
      BY <2>1, <2>2, FS_CardinalityType, FS_Subset
    <2> QED
      BY <2>2, <2>3, <2>4, <2>5, StraysFinite
  <1> QED
    BY <1>1, SchedulerInvariant, PTL

=============================================================================
