---------------------------- MODULE TasksProofs -----------------------------
(***************************************************************************)
(* What agents write besides memories, for any number of them, of patches, *)
(* captures, calls and crashes:                                            *)
(*   - as long as no two updates overlap, the task's checkpoint sequence   *)
(*     never goes back and no update is lost (IInv): at most one process   *)
(*     saves, and what it read is still the row;                           *)
(*   - a proposal that is reviewed by one at a time is decided once        *)
(*     (ReviewInv): no two rows, and no captured memory, share an id;      *)
(*   - an answered capture is whole (CaptureInv): what it has stored,      *)
(*     proposed or related is never taken away.                            *)
(***************************************************************************)
EXTENDS Tasks, TLAPS

\* A record of a process, whatever its values.
Of(T) == [pc : T, call : T, ask : T, next : T, todo : T, edge : T, patch : T, read : T,
          prop : T, verdict : T]
Shape(p) == \E T : p \in Of(T)

\* A patch sets fields of the task, and a checkpoint only to one that has a name.
PatchOK(q) ==
    /\ q.seq \in Nat \cup {None}
    /\ DOMAIN q.fields \subseteq Fields
    /\ \A f \in DOMAIN q.fields : q.fields[f] \in Value
    /\ "checkpoint_id" \in DOMAIN q.fields => q.fields["checkpoint_id"] # Empty

ProcessOK(p) ==
    /\ Shape(p)
    /\ p.call \in Nat
    /\ p.pc \in {"reading", "saving"} => PatchOK(p.patch)
    /\ p.pc = "saving" => p.read \in Row

Types == /\ task \in Row /\ given \in [Fields -> Value]
         /\ called \in Nat /\ raced \in BOOLEAN
         /\ proc = [a \in Agents |-> proc[a]]
         /\ \A a \in Agents : ProcessOK(proc[a])

\* What is saved next is a patch of the row as it is.
OneSaves ==
    /\ \A a, b \in Agents : proc[a].pc = "saving" /\ proc[b].pc = "saving" => a = b
    /\ \A a \in Agents : proc[a].pc = "saving" =>
          proc[a].read = task /\ ~Stale(proc[a].patch, task)

IInv == Types /\ (raced \/ OneSaves)

LEMMA IdleIsProcess == ProcessOK(Idle) /\ Shape(Idle) /\ Idle.pc = "idle" /\ Idle.call = 0
  <1> DEFINE T == {"idle", 0, None, 1, {}, NoPatch, NoTask, "none"}
  <1>1. Idle \in Of(T)
    BY DEF Idle, Of
  <1>2. QED
    BY <1>1 DEF Idle, ProcessOK, Shape

LEMMA EmptyIsValue ==
    /\ Empty \in Value
    /\ \A n \in Nat : From(n) \in Value /\ From(n) # Empty /\ Default(n) \in Value
  BY DEF Empty, From, Default, Value

LEMMA InitInv == Init => IInv
  <1> SUFFICES ASSUME Init PROVE IInv
    OBVIOUS
  <1>1. NoTask \in Row /\ NoTask.fields \in [Fields -> Value]
    BY EmptyIsValue DEF NoTask, Row
  <1>2. \A a \in Agents : proc[a] = Idle
    BY DEF Init
  <1>3. proc = [a \in Agents |-> proc[a]]
    BY DEF Init
  <1>4. Types
    BY <1>1, <1>2, <1>3, IdleIsProcess DEF Init, Types
  <1>5. OneSaves
    BY <1>2, IdleIsProcess DEF OneSaves
  <1>6. QED
    BY <1>4, <1>5 DEF IInv

\* A step that leaves the task alone and brings its process to no save.
LEMMA Elsewhere ==
    ASSUME IInv, NEW a \in Agents, NEW p, ProcessOK(p), p.pc # "saving",
           proc' = [proc EXCEPT ![a] = p],
           UNCHANGED <<task, given, raced>>, called' \in Nat
    PROVE  IInv'
  <1>1. proc'[a] = p /\ \A b \in Agents \ {a} : proc'[b] = proc[b]
    BY DEF IInv, Types
  <1>2. proc' = [b \in Agents |-> proc'[b]]
    BY DEF IInv, Types
  <1>3. \A b \in Agents : ProcessOK(proc'[b])
    BY <1>1 DEF IInv, Types
  <1>4. Types'
    BY <1>2, <1>3 DEF IInv, Types
  <1>5. (raced \/ OneSaves)'
    BY <1>1 DEF IInv, OneSaves
  <1>6. QED
    BY <1>4, <1>5 DEF IInv

LEMMA SameTask ==
    ASSUME IInv, UNCHANGED <<task, given, raced, called, proc>>
    PROVE  IInv'
  BY DEF IInv, Types, OneSaves

\* The record of a process with up to three other values.
LEMMA Wider ==
    ASSUME NEW p, Shape(p), NEW x, NEW y, NEW z
    PROVE  \E T : p \in Of(T) /\ x \in T /\ y \in T /\ z \in T
  <1>1. PICK T : p \in Of(T)
    BY DEF Shape
  <1> DEFINE S == T \cup {x, y, z}
  <1>2. p \in Of(S)
    BY <1>1 DEF Of
  <1>3. x \in S /\ y \in S /\ z \in S
    OBVIOUS
  <1> HIDE DEF S
  <1>4. QED
    BY <1>2, <1>3

\* A call begins: a new record with the number of the call.
LEMMA Beginning ==
    ASSUME IInv, NEW a \in Agents, NEW p, Shape(p), p.pc # "saving",
           p.pc = "reading" => PatchOK(p.patch),
           Begin(a, p), UNCHANGED <<task, given, raced>>
    PROVE  IInv'
  <1> DEFINE q == [p EXCEPT !.call = called + 1]
  <1>1. called' = called + 1 /\ called \in Nat /\ called' \in Nat
    BY DEF Begin, IInv, Types
  <1>2. q.pc = p.pc /\ q.patch = p.patch /\ q.read = p.read /\ q.call = called + 1 /\ Shape(q)
    <2>1. PICK T : p \in Of(T) /\ called + 1 \in T
      BY Wider
    <2>2. /\ q \in Of(T)
          /\ q.pc = p.pc /\ q.patch = p.patch /\ q.read = p.read /\ q.call = called + 1
      BY <2>1 DEF Of
    <2>3. QED
      BY <2>2 DEF Shape
  <1> HIDE DEF q
  <1>3. ProcessOK(q) /\ q.pc # "saving"
    BY <1>1, <1>2 DEF ProcessOK
  <1>4. proc' = [proc EXCEPT ![a] = q]
    BY DEF Begin, q
  <1>5. QED
    BY <1>1, <1>3, <1>4, Elsewhere

\* A process ends: it is idle again.
LEMMA Ending ==
    ASSUME IInv, NEW a \in Agents, End(a), UNCHANGED <<task, given, raced, called>>
    PROVE  IInv'
  <1>1. called' \in Nat
    BY DEF IInv, Types
  <1>2. QED
    BY <1>1, IdleIsProcess, Elsewhere DEF End

\* A process goes on to something that is neither to read nor to save the task.
LEMMA Going ==
    ASSUME IInv, NEW a \in Agents, NEW p, Shape(p), p.call \in Nat,
           p.pc \notin {"reading", "saving"},
           proc' = [proc EXCEPT ![a] = p], UNCHANGED <<task, given, raced, called>>
    PROVE  IInv'
  <1>1. called' \in Nat
    BY DEF IInv, Types
  <1>2. ProcessOK(p) /\ p.pc # "saving"
    BY DEF ProcessOK
  <1>3. QED
    BY <1>1, <1>2, Elsewhere

LEMMA UpdateInv ==
    ASSUME IInv, NEW a \in Agents, NEW p \in Patches, Update(a, p)
    PROVE  IInv'
  <1> DEFINE q == [fields |-> [f \in p.sets |-> From(called + 1)], seq |-> p.seq]
             r == [Idle EXCEPT !.pc = "reading", !.patch = q]
  <1>1. p \in Patch /\ called \in Nat
    BY TasksAssumption DEF IInv, Types
  <1>2. p.sets \subseteq Fields /\ p.seq \in Nat \cup {None}
    BY <1>1 DEF Patch
  <1>3. PatchOK(q)
    BY <1>1, <1>2, EmptyIsValue DEF PatchOK
  <1> HIDE DEF q
  <1>4. Shape(r) /\ r.pc = "reading" /\ r.patch = q
    <2>1. PICK T : Idle \in Of(T) /\ "reading" \in T /\ q \in T
      BY Wider, IdleIsProcess
    <2>2. r \in Of(T) /\ r.pc = "reading" /\ r.patch = q
      BY <2>1 DEF Of
    <2>3. QED
      BY <2>2 DEF Shape
  <1>5. Begin(a, r) /\ UNCHANGED <<task, given, raced>>
    BY DEF Update, tables, ghosts, q
  <1> HIDE DEF r
  <1>6. QED
    BY <1>3, <1>4, <1>5, Beginning

LEMMA StartInv ==
    ASSUME IInv, NEW a \in Agents
    PROVE  /\ \A c \in Captures : CaptureAll(a, c) => IInv'
           /\ \A p \in DOMAIN proposals, v \in {"approved", "rejected"} :
                 StartReview(a, p, v) => IInv'
           /\ Consolidate(a) => IInv'
  <1>1. ASSUME NEW c \in Captures, CaptureAll(a, c)
        PROVE  IInv'
    <2> DEFINE r == [Idle EXCEPT !.pc = "capturing", !.ask = c]
    <2>1. Shape(r) /\ r.pc = "capturing"
      <3>1. PICK T : Idle \in Of(T) /\ "capturing" \in T /\ c \in T
        BY Wider, IdleIsProcess
      <3>2. r \in Of(T) /\ r.pc = "capturing"
        BY <3>1 DEF Of
      <3>3. QED
        BY <3>2 DEF Shape
    <2>2. Begin(a, r) /\ UNCHANGED <<task, given, raced>>
      BY <1>1 DEF CaptureAll, tables, ghosts
    <2> HIDE DEF r
    <2>3. QED BY <2>1, <2>2, Beginning
  <1>2. ASSUME NEW p \in DOMAIN proposals, NEW v \in {"approved", "rejected"},
               StartReview(a, p, v)
        PROVE  IInv'
    <2> DEFINE r == [Idle EXCEPT !.pc = IF v = "approved" THEN "approving" ELSE "reviewing",
                                 !.prop = p, !.verdict = v]
    <2>1. Shape(r) /\ r.pc \in {"approving", "reviewing"}
      <3>1. PICK T : Idle \in Of(T) /\ (IF v = "approved" THEN "approving" ELSE "reviewing") \in T /\ p \in T /\ v \in T
        BY Wider, IdleIsProcess
      <3>2. r \in Of(T) /\ r.pc \in {"approving", "reviewing"}
        BY <3>1 DEF Of
      <3>3. QED
        BY <3>2 DEF Shape
    <2>2. Begin(a, r) /\ UNCHANGED <<task, given, raced>>
      BY <1>2 DEF StartReview, tables
    <2> HIDE DEF r
    <2>3. QED BY <2>1, <2>2, Beginning
  <1>3. ASSUME Consolidate(a)
        PROVE  IInv'
    <2> DEFINE r == [Idle EXCEPT !.pc = "extracting",
                                 !.todo = {m \in Stored : m.role = "note"}]
    <2>1. Shape(r) /\ r.pc = "extracting"
      <3>1. PICK T : Idle \in Of(T) /\ "extracting" \in T /\ {m \in Stored : m.role = "note"} \in T
        BY Wider, IdleIsProcess
      <3>2. r \in Of(T) /\ r.pc = "extracting"
        BY <3>1 DEF Of
      <3>3. QED
        BY <3>2 DEF Shape
    <2>2. Begin(a, r) /\ UNCHANGED <<task, given, raced>>
      BY <1>3 DEF Consolidate, tables, ghosts
    <2> HIDE DEF r
    <2>3. QED BY <2>1, <2>2, Beginning
  <1>4. QED BY <1>1, <1>2, <1>3

\* The steps of a capture, a review and a consolidation between their commits
\* to the task.
LEMMA ProceedInv ==
    ASSUME IInv, NEW a \in Agents
    PROVE  /\ StoreItem(a) \/ ProposeItem(a) \/ IgnoreItem(a) => IInv'
           /\ ItemsDone(a) => IInv'
           /\ Relate(a) \/ Affirm(a) => IInv'
           /\ RememberApproved(a) => IInv'
           /\ ReadFacts(a) \/ ProposeFact(a) => IInv'
  <1> DEFINE p == proc[a]
  <1>1. Shape(p) /\ p.call \in Nat
    BY DEF IInv, Types, ProcessOK
  <1>3. ASSUME StoreItem(a) \/ ProposeItem(a) \/ IgnoreItem(a)
        PROVE  IInv'
    <2> DEFINE q == [p EXCEPT !.next = p.next + 1]
    <2>1. PICK T : p \in Of(T) /\ p.next + 1 \in T
      BY <1>1, Wider
    <2>2. q \in Of(T) /\ q.pc = p.pc /\ q.call = p.call
      BY <2>1 DEF Of
    <2>3. p.pc = "capturing" /\ UNCHANGED <<task, given, raced, called>>
      BY <1>3 DEF StoreItem, ProposeItem, IgnoreItem, Capturing, tables, ghosts
    <2>4. proc' = [proc EXCEPT ![a] = q]
      BY <1>3 DEF StoreItem, ProposeItem, IgnoreItem
    <2> HIDE DEF p, q
    <2>5. QED
      BY <1>1, <2>2, <2>3, <2>4, Going DEF Shape
  <1>4. ASSUME ItemsDone(a)
        PROVE  IInv'
    <2> DEFINE q == [p EXCEPT !.pc = "relating", !.todo = ToRelate(a)]
    <2>1. PICK T : p \in Of(T) /\ "relating" \in T /\ ToRelate(a) \in T
      BY <1>1, Wider
    <2>2. q \in Of(T) /\ q.pc = "relating" /\ q.call = p.call
      BY <2>1 DEF Of
    <2>3. UNCHANGED <<task, given, raced, called>>
      BY <1>4 DEF ItemsDone, tables, ghosts
    <2>4. proc' = [proc EXCEPT ![a] = IF Refused(a) THEN Idle ELSE q]
      BY <1>4 DEF ItemsDone
    <2> HIDE DEF p, q
    <2>5. CASE Refused(a)
      BY <2>3, <2>4, <2>5, Ending DEF End
    <2>6. CASE ~Refused(a)
      BY <1>1, <2>2, <2>3, <2>4, <2>6, Going DEF Shape
    <2>7. QED
      BY <2>5, <2>6
  <1>5. ASSUME Relate(a) \/ Affirm(a)
        PROVE  IInv'
    <2>1. UNCHANGED <<task, given, raced, called>>
      BY <1>5 DEF Relate, Affirm, ghosts
    <2>2. CASE Relate(a)
      <3>1. PICK r \in p.todo :
                proc' = [proc EXCEPT ![a].pc = "asserting", ![a].todo = @ \ {r}, ![a].edge = r]
        BY <2>2 DEF Relate
      <3> DEFINE q == [p EXCEPT !.pc = "asserting", !.todo = p.todo \ {r}, !.edge = r]
      <3>2. PICK T : p \in Of(T) /\ "asserting" \in T /\ p.todo \ {r} \in T /\ r \in T
        BY <1>1, Wider
      <3>3. q \in Of(T) /\ q.pc = "asserting" /\ q.call = p.call
        BY <3>2 DEF Of
      <3>4. proc' = [proc EXCEPT ![a] = q]
        BY <3>1
      <3> HIDE DEF p, q
      <3>5. QED
        BY <1>1, <2>1, <3>3, <3>4, Going DEF Shape
    <2>3. CASE Affirm(a)
      <3> DEFINE q == [p EXCEPT !.pc = "relating"]
      <3>1. PICK T : p \in Of(T) /\ "relating" \in T
        BY <1>1, Wider
      <3>2. q \in Of(T) /\ q.pc = "relating" /\ q.call = p.call
        BY <3>1 DEF Of
      <3>3. proc' = [proc EXCEPT ![a] = q]
        BY <2>3 DEF Affirm, To
      <3> HIDE DEF p, q
      <3>4. QED
        BY <1>1, <2>1, <3>2, <3>3, Going DEF Shape
    <2>4. QED
      BY <1>5, <2>2, <2>3
  <1>6. ASSUME RememberApproved(a)
        PROVE  IInv'
    <2> DEFINE q == [p EXCEPT !.pc = "reviewing"]
    <2>1. PICK T : p \in Of(T) /\ "reviewing" \in T
      BY <1>1, Wider
    <2>2. q \in Of(T) /\ q.pc = "reviewing" /\ q.call = p.call
      BY <2>1 DEF Of
    <2>3. proc' = [proc EXCEPT ![a] = q] /\ UNCHANGED <<task, given, raced, called>>
      BY <1>6 DEF RememberApproved, To, ghosts
    <2> HIDE DEF p, q
    <2>4. QED
      BY <1>1, <2>2, <2>3, Going DEF Shape
  <1>7. ASSUME ReadFacts(a)
        PROVE  IInv'
    <2> DEFINE q == [p EXCEPT !.pc = "deriving", !.todo = p.todo \ ledger]
    <2>1. PICK T : p \in Of(T) /\ "deriving" \in T /\ p.todo \ ledger \in T
      BY <1>1, Wider
    <2>2. q \in Of(T) /\ q.pc = "deriving" /\ q.call = p.call
      BY <2>1 DEF Of
    <2>3. proc' = [proc EXCEPT ![a] = q] /\ UNCHANGED <<task, given, raced, called>>
      BY <1>7 DEF ReadFacts, tables, ghosts
    <2> HIDE DEF p, q
    <2>4. QED
      BY <1>1, <2>2, <2>3, Going DEF Shape
  <1>8. ASSUME ProposeFact(a)
        PROVE  IInv'
    <2>1. p.pc = "deriving" /\ UNCHANGED <<task, given, raced, called>>
      BY <1>8 DEF ProposeFact, ghosts
    <2>2. PICK m \in p.todo :
              proc' = [proc EXCEPT ![a] = IF p.todo = {m} THEN Idle
                                          ELSE [p EXCEPT !.todo = p.todo \ {m}]]
      BY <1>8 DEF ProposeFact
    <2> DEFINE q == [p EXCEPT !.todo = p.todo \ {m}]
    <2>3. PICK T : p \in Of(T) /\ p.todo \ {m} \in T
      BY <1>1, Wider
    <2>4. q \in Of(T) /\ q.pc = p.pc /\ q.call = p.call
      BY <2>3 DEF Of
    <2> HIDE DEF p, q
    <2>5. CASE p.todo = {m}
      BY <2>1, <2>2, <2>5, Ending DEF End, q
    <2>6. CASE p.todo # {m}
      BY <1>1, <2>1, <2>2, <2>4, <2>6, Going DEF Shape, q
    <2>7. QED
      BY <2>5, <2>6
  <1>9. QED
    BY <1>3, <1>4, <1>5, <1>6, <1>7, <1>8

\* What is captured patches the task with its own call, or with nothing.
LEMMA CapturePatchOK ==
    ASSUME NEW n \in Nat, NEW c
    PROVE  PatchOK(CapturePatch(n, c))
  <1> DEFINE roles == {m.role : m \in CapturedBy(n, c)}
             value == [objective |-> IF roles \cap {"plan", "spec"} # {} THEN From(n) ELSE Empty,
                       completed |-> IF "progress" \in roles THEN From(n) ELSE Empty,
                       checkpoint_id |-> From(n)]
             sets == {"objective", "completed"}
                     \cup (IF "checkpoint" \in roles THEN {"checkpoint_id"} ELSE {})
  <1>1. sets \subseteq Fields
    BY DEF Fields
  <1>2. \A f \in Fields : value[f] \in Value
    BY EmptyIsValue DEF Fields
  <1>3. value["checkpoint_id"] # Empty
    BY EmptyIsValue
  <1> HIDE DEF value, sets, roles
  <1>4. CapturePatch(n, c) = [fields |-> [f \in sets |-> value[f]], seq |-> None]
    BY DEF CapturePatch, value, sets, roles
  <1>5. QED
    BY <1>1, <1>2, <1>3, <1>4 DEF PatchOK

LEMMA SyncTaskInv ==
    ASSUME IInv, NEW a \in Agents, SyncTask(a)
    PROVE  IInv'
  <1> DEFINE p == proc[a]
             syncs == p.ask.task /\ Seen(p.ask)
             patch == CapturePatch(p.call, p.ask)
             q == [p EXCEPT !.pc = "reading", !.patch = patch]
  <1>1. Shape(p) /\ p.call \in Nat /\ UNCHANGED <<task, given, raced, called>> /\ called \in Nat
    BY DEF IInv, Types, ProcessOK, SyncTask, tables
  <1>2. proc' = [proc EXCEPT ![a] = IF syncs THEN q ELSE Idle]
    BY DEF SyncTask
  <1>3. PatchOK(patch)
    BY <1>1, CapturePatchOK
  <1> HIDE DEF patch, syncs
  <1>4. PICK T : p \in Of(T) /\ "reading" \in T /\ patch \in T
    BY <1>1, Wider
  <1>5. q \in Of(T) /\ q.pc = "reading" /\ q.call = p.call /\ q.patch = patch
    BY <1>4 DEF Of
  <1> HIDE DEF p, q
  <1>6. ProcessOK(q) /\ q.pc # "saving"
    BY <1>1, <1>3, <1>5 DEF ProcessOK, Shape
  <1>7. CASE syncs
    BY <1>1, <1>2, <1>6, <1>7, Elsewhere
  <1>8. CASE ~syncs
    BY <1>1, <1>2, <1>8, Ending DEF End
  <1>9. QED
    BY <1>7, <1>8

\* get: whoever reads while another is about to save has raced; one that reads
\* alone holds the row.
LEMMA ReadTaskInv ==
    ASSUME IInv, NEW a \in Agents, ReadTask(a)
    PROVE  IInv'
  <1> DEFINE p == proc[a]
             q == [p EXCEPT !.pc = "saving", !.read = task]
             r == IF Stale(p.patch, task) THEN Idle ELSE q
  <1>1. /\ Shape(p) /\ p.call \in Nat /\ p.pc = "reading" /\ PatchOK(p.patch)
        /\ UNCHANGED <<task, given, called>> /\ called \in Nat /\ task \in Row
    BY DEF IInv, Types, ProcessOK, ReadTask, tables
  <1>2. /\ proc' = [proc EXCEPT ![a] = r]
        /\ raced' = (raced \/ \E b \in Agents : proc[b].pc = "saving")
    BY DEF ReadTask
  <1>3. PICK T : p \in Of(T) /\ "saving" \in T /\ task \in T
    BY <1>1, Wider
  <1>4. q \in Of(T) /\ q.pc = "saving" /\ q.call = p.call /\ q.patch = p.patch /\ q.read = task
    BY <1>3 DEF Of
  <1> HIDE DEF p, q
  <1>5. ProcessOK(r)
    BY <1>1, <1>4, IdleIsProcess DEF ProcessOK, Shape
  <1>6. r.pc = "saving" => r.read = task /\ ~Stale(r.patch, task)
    BY <1>4, IdleIsProcess
  <1> HIDE DEF r
  <1>7. proc'[a] = r /\ (\A b \in Agents \ {a} : proc'[b] = proc[b])
        /\ proc' = [b \in Agents |-> proc'[b]]
    BY <1>2 DEF IInv, Types
  <1>8. Types'
    BY <1>1, <1>2, <1>5, <1>7 DEF IInv, Types
  <1>9. ASSUME ~raced'
        PROVE  OneSaves'
    <2>1. \A b \in Agents : proc[b].pc # "saving"
      BY <1>2, <1>9
    <2>2. QED
      BY <1>1, <1>6, <1>7, <2>1 DEF OneSaves
  <1>10. QED
    BY <1>8, <1>9 DEF IInv

LEMMA Overlaid ==
    ASSUME NEW f, NEW g \in [Fields -> Value], DOMAIN f \subseteq Fields,
           \A x \in DOMAIN f : f[x] \in Value
    PROVE  /\ Over(f, g) \in [Fields -> Value]
           /\ \A x \in Fields : Over(f, g)[x] = IF x \in DOMAIN f THEN f[x] ELSE g[x]
  BY DEF Over

\* What update makes of a row it is not stale for.
LEMMA PatchedRow ==
    ASSUME NEW row \in Row, NEW q, PatchOK(q)
    PROVE  /\ Patched(row, q) \in Row
           /\ ~Stale(q, row) => Patched(row, q).seq >= row.seq
           /\ \A f \in Fields :
                 LET laid == IF f \in DOMAIN q.fields THEN q.fields[f] ELSE row.fields[f] IN
                 Patched(row, q).fields[f] = IF f = "checkpoint_id" /\ laid = Empty
                                             THEN Default(Patched(row, q).seq) ELSE laid
  <1> DEFINE seq == IF q.seq # None THEN q.seq ELSE row.seq + 1
             laid == Over(q.fields, row.fields)
  <1>1. row.seq \in Nat /\ row.fields \in [Fields -> Value]
    BY DEF Row
  <1>2. seq \in Nat /\ (~Stale(q, row) => seq >= row.seq)
    BY <1>1 DEF PatchOK, Stale
  <1>3. /\ laid \in [Fields -> Value]
        /\ \A f \in Fields : laid[f] = IF f \in DOMAIN q.fields THEN q.fields[f]
                                       ELSE row.fields[f]
    BY <1>1, Overlaid DEF PatchOK
  <1>4. "checkpoint_id" \in Fields
    BY DEF Fields
  <1>5. Patched(row, q)
          = [seq |-> seq, fields |-> IF laid["checkpoint_id"] = Empty
                                     THEN [laid EXCEPT !["checkpoint_id"] = Default(seq)]
                                     ELSE laid]
    BY DEF Patched
  <1> HIDE DEF seq, laid
  <1>6. [laid EXCEPT !["checkpoint_id"] = Default(seq)] \in [Fields -> Value]
    BY <1>2, <1>3, EmptyIsValue
  <1>7. Patched(row, q) \in Row
    BY <1>2, <1>3, <1>5, <1>6 DEF Row
  <1>8. Patched(row, q).seq = seq
    BY <1>5
  <1>9. \A f \in Fields : Patched(row, q).fields[f]
           = IF f = "checkpoint_id" /\ laid[f] = Empty THEN Default(seq) ELSE laid[f]
    <2>1. CASE laid["checkpoint_id"] = Empty
      <3>1. Patched(row, q).fields = [laid EXCEPT !["checkpoint_id"] = Default(seq)]
        BY <1>5, <2>1
      <3>2. QED
        BY <1>3, <1>4, <2>1, <3>1
    <2>2. CASE laid["checkpoint_id"] # Empty
      <3>1. Patched(row, q).fields = laid
        BY <1>5, <2>2
      <3>2. QED
        BY <2>2, <3>1
    <2>3. QED
      BY <2>1, <2>2
  <1>10. QED
    BY <1>2, <1>3, <1>7, <1>8, <1>9

LEMMA SaveTaskFacts ==
    ASSUME IInv, NEW a \in Agents, SaveTask(a)
    PROVE  /\ proc[a].pc = "saving" /\ PatchOK(proc[a].patch) /\ proc[a].read \in Row
           /\ task' = Patched(proc[a].read, proc[a].patch)
           /\ given' = Over(proc[a].patch.fields, given)
           /\ given' \in [Fields -> Value]
           /\ End(a) /\ UNCHANGED <<raced, called>>
  <1>1. proc[a].pc = "saving" /\ PatchOK(proc[a].patch) /\ proc[a].read \in Row
    BY DEF SaveTask, IInv, Types, ProcessOK
  <1>2. given' = Over(proc[a].patch.fields, given)
    BY DEF SaveTask
  <1>3. given' \in [Fields -> Value]
    BY <1>1, <1>2, Overlaid DEF IInv, Types, PatchOK
  <1>4. QED
    BY <1>1, <1>2, <1>3 DEF SaveTask

\* _save: the only process that was about to save is idle, so what the others
\* have read does not matter.
LEMMA SaveTaskInv ==
    ASSUME IInv, NEW a \in Agents, SaveTask(a)
    PROVE  IInv'
  <1>1. /\ proc[a].pc = "saving" /\ PatchOK(proc[a].patch) /\ proc[a].read \in Row
        /\ task' = Patched(proc[a].read, proc[a].patch) /\ given' \in [Fields -> Value]
        /\ End(a) /\ UNCHANGED <<raced, called>>
    BY SaveTaskFacts
  <1>2. task' \in Row
    BY <1>1, PatchedRow
  <1>3. proc' = [b \in Agents |-> proc'[b]] /\ proc'[a] = Idle
        /\ \A b \in Agents \ {a} : proc'[b] = proc[b]
    BY <1>1 DEF End, IInv, Types
  <1>4. Types'
    BY <1>1, <1>2, <1>3, IdleIsProcess DEF IInv, Types
  <1>5. ASSUME OneSaves
        PROVE  OneSaves'
    <2>1. \A b \in Agents : proc'[b].pc # "saving"
      BY <1>1, <1>3, <1>5, IdleIsProcess DEF OneSaves
    <2>2. QED
      BY <2>1 DEF OneSaves
  <1>6. QED
    BY <1>1, <1>4, <1>5 DEF IInv

LEMMA NextInv == IInv /\ [Next]_vars => IInv'
  <1> SUFFICES ASSUME IInv, [Next]_vars PROVE IInv'
    OBVIOUS
  <1>1. CASE UNCHANGED vars
    BY <1>1, SameTask DEF vars, tables, ghosts
  <1>2. CASE AddFact
    BY <1>2, SameTask DEF AddFact, ghosts
  <1>3. ASSUME NEW a \in Agents,
               \/ \E p \in Patches : Update(a, p)
               \/ \E c \in Captures : CaptureAll(a, c)
               \/ \E p \in DOMAIN proposals, v \in {"approved", "rejected"} :
                     StartReview(a, p, v)
               \/ Consolidate(a)
        PROVE  IInv'
    BY <1>3, UpdateInv, StartInv
  <1>4. ASSUME NEW a \in Agents,
               StoreItem(a) \/ ProposeItem(a) \/ IgnoreItem(a) \/ ItemsDone(a)
               \/ Relate(a) \/ Affirm(a) \/ RememberApproved(a) \/ ReadFacts(a)
               \/ ProposeFact(a)
        PROVE  IInv'
    BY <1>4, ProceedInv
  <1>5. ASSUME NEW a \in Agents, WriteVerdict(a) \/ NothingNew(a) \/ Abandon(a)
        PROVE  IInv'
    <2>1. End(a) /\ UNCHANGED <<task, given, raced, called>>
      BY <1>5 DEF WriteVerdict, NothingNew, Abandon, tables, ghosts
    <2>2. QED
      BY <2>1, Ending
  <1>6. ASSUME NEW a \in Agents, ReadTask(a) \/ SaveTask(a) \/ SyncTask(a)
        PROVE  IInv'
    BY <1>6, ReadTaskInv, SaveTaskInv, SyncTaskInv
  <1>7. QED
    BY <1>1, <1>2, <1>3, <1>4, <1>5, <1>6 DEF Next

LEMMA Invariance == Spec => []IInv
  <1>1. QED
    BY InitInv, NextInv, PTL DEF Spec

LEMMA OnlySaves ==
    ASSUME [Next]_vars
    PROVE  (\E a \in Agents : SaveTask(a)) \/ UNCHANGED <<task, given>>
  <1>1. CASE UNCHANGED vars \/ AddFact
    BY <1>1 DEF vars, tables, ghosts, AddFact
  <1>2. ASSUME NEW a \in Agents,
               \/ \E p \in Patches : Update(a, p)
               \/ \E c \in Captures : CaptureAll(a, c)
               \/ \E p \in DOMAIN proposals, v \in {"approved", "rejected"} : StartReview(a, p, v)
               \/ Consolidate(a) \/ ReadTask(a)
        PROVE  UNCHANGED <<task, given>>
    BY <1>2 DEF Update, CaptureAll, StartReview, Consolidate, ReadTask, tables, ghosts
  <1>3. ASSUME NEW a \in Agents,
               \/ StoreItem(a) \/ ProposeItem(a) \/ IgnoreItem(a)
               \/ ItemsDone(a) \/ Relate(a) \/ Affirm(a) \/ SyncTask(a)
        PROVE  UNCHANGED <<task, given>>
    BY <1>3 DEF StoreItem, ProposeItem, IgnoreItem, ItemsDone, Relate, Affirm, SyncTask,
       tables, ghosts
  <1>4. ASSUME NEW a \in Agents,
               \/ RememberApproved(a) \/ WriteVerdict(a)
               \/ ReadFacts(a) \/ ProposeFact(a) \/ NothingNew(a) \/ Abandon(a)
        PROVE  UNCHANGED <<task, given>>
    BY <1>4 DEF RememberApproved, WriteVerdict, ReadFacts, ProposeFact, NothingNew, Abandon,
       tables, ghosts
  <1>5. QED
    BY <1>1, <1>2, <1>3, <1>4 DEF Next

LEMMA RacedStays ==
    ASSUME IInv, [Next]_vars, raced
    PROVE  raced'
  <1>1. CASE UNCHANGED vars \/ AddFact
    BY <1>1 DEF vars, tables, ghosts, AddFact
  <1>2. ASSUME NEW a \in Agents,
               \/ \E p \in Patches : Update(a, p)
               \/ \E c \in Captures : CaptureAll(a, c)
               \/ \E p \in DOMAIN proposals, v \in {"approved", "rejected"} : StartReview(a, p, v)
               \/ Consolidate(a) \/ ReadTask(a) \/ SaveTask(a)
        PROVE  raced'
    BY <1>2 DEF Update, CaptureAll, StartReview, Consolidate, ReadTask, SaveTask, tables, ghosts
  <1>3. ASSUME NEW a \in Agents,
               \/ StoreItem(a) \/ ProposeItem(a) \/ IgnoreItem(a)
               \/ ItemsDone(a) \/ Relate(a) \/ Affirm(a) \/ SyncTask(a)
        PROVE  raced'
    BY <1>3 DEF StoreItem, ProposeItem, IgnoreItem, ItemsDone, Relate, Affirm, SyncTask,
       tables, ghosts
  <1>4. ASSUME NEW a \in Agents,
               \/ RememberApproved(a) \/ WriteVerdict(a)
               \/ ReadFacts(a) \/ ProposeFact(a) \/ NothingNew(a) \/ Abandon(a)
        PROVE  raced'
    BY <1>4 DEF RememberApproved, WriteVerdict, ReadFacts, ProposeFact, NothingNew, Abandon,
       tables, ghosts
  <1>5. QED
    BY <1>1, <1>2, <1>3, <1>4 DEF Next

\* update refuses a checkpoint that is behind the one it has read; this protects
\* the row from going back for as long as no two updates overlap.
THEOREM SequenceGoesForward == Spec => SequenceNeverBack
  <1>1. ASSUME IInv, [Next]_vars
        PROVE  [~raced' => task'.seq >= task.seq]_vars
    <2>1. CASE UNCHANGED task
      BY <1>1, <2>1 DEF IInv, Types, Row
    <2>2. ASSUME NEW a \in Agents, SaveTask(a), ~raced'
          PROVE  task'.seq >= task.seq
      <3>1. /\ proc[a].pc = "saving" /\ PatchOK(proc[a].patch) /\ UNCHANGED raced
            /\ task' = Patched(proc[a].read, proc[a].patch)
        BY <1>1, <2>2, SaveTaskFacts
      <3>2. proc[a].read = task /\ ~Stale(proc[a].patch, task) /\ task \in Row
        BY <1>1, <2>2, <3>1 DEF IInv, Types, OneSaves
      <3>3. QED
        BY <3>1, <3>2, PatchedRow
    <2>3. (\E a \in Agents : SaveTask(a)) \/ UNCHANGED task
      BY <1>1, OnlySaves
    <2>4. QED
      BY <2>1, <2>2, <2>3
  <1>2. QED
    BY <1>1, Invariance, PTL DEF Spec, SequenceNeverBack

\* Until two updates overlapped, the row has the last value that an update or a
\* capture gave each field: neither loses what the other wrote to other fields.
THEOREM UpdatesAreKept == Spec => []NoUpdateLost
  <1>1. Init => NoUpdateLost
    BY DEF Init, NoUpdateLost, NoTask
  <1>2. ASSUME IInv, NoUpdateLost, [Next]_vars
        PROVE  NoUpdateLost'
    <2>1. CASE UNCHANGED <<task, given>>
      <3>1. raced => raced'
        BY <1>2, RacedStays
      <3>2. QED
        BY <1>2, <2>1, <3>1 DEF NoUpdateLost
    <2>2. ASSUME NEW a \in Agents, SaveTask(a), ~raced', NEW f \in Fields
          PROVE  \/ task'.fields[f] = given'[f]
                 \/ /\ f = "checkpoint_id" /\ given'[f] = Empty
                    /\ \E s \in 0 .. task'.seq : task'.fields[f] = Default(s)
      <3> DEFINE q == proc[a].patch
      <3>1. /\ proc[a].pc = "saving" /\ PatchOK(q) /\ UNCHANGED raced
            /\ task' = Patched(proc[a].read, q) /\ given' = Over(q.fields, given)
        BY <1>2, <2>2, SaveTaskFacts
      <3>2. proc[a].read = task /\ ~Stale(q, task) /\ task \in Row /\ given \in [Fields -> Value]
        BY <1>2, <2>2, <3>1 DEF IInv, Types, OneSaves
      <3>3. given'[f] = IF f \in DOMAIN q.fields THEN q.fields[f] ELSE given[f]
        BY <3>1, <3>2, Overlaid DEF PatchOK
      <3> HIDE DEF q
      <3> DEFINE laid == IF f \in DOMAIN q.fields THEN q.fields[f] ELSE task.fields[f]
      <3>4. task' \in Row /\ task'.seq >= task.seq
            /\ task'.fields[f] = IF f = "checkpoint_id" /\ laid = Empty
                                 THEN Default(task'.seq) ELSE laid
        BY <3>1, <3>2, PatchedRow
      <3>5. task.seq \in Nat /\ task'.seq \in Nat
        BY <3>2, <3>4 DEF Row
      <3>6. CASE f \in DOMAIN q.fields
        BY <3>1, <3>3, <3>4, <3>6 DEF PatchOK
      <3>7. CASE f \notin DOMAIN q.fields
        <4>1. given'[f] = given[f] /\ laid = task.fields[f]
          BY <3>3, <3>7
        <4>2. CASE task.fields[f] = given[f]
          BY <3>4, <3>5, <4>1, <4>2
        <4>3. CASE /\ f = "checkpoint_id" /\ given[f] = Empty
                   /\ \E s \in 0 .. task.seq : task.fields[f] = Default(s)
          <5>1. PICK s \in 0 .. task.seq : task.fields[f] = Default(s)
            BY <4>3
          <5>2. s \in 0 .. task'.seq /\ laid # Empty
            BY <3>4, <3>5, <4>1, <5>1 DEF Default, Empty
          <5>3. QED
            BY <3>4, <4>1, <4>3, <5>1, <5>2
        <4>4. QED
          BY <1>2, <2>2, <3>1, <4>2, <4>3 DEF NoUpdateLost
      <3>8. QED
        BY <3>6, <3>7
    <2>3. (\E a \in Agents : SaveTask(a)) \/ UNCHANGED <<task, given>>
      BY <1>2, OnlySaves
    <2>4. QED
      BY <2>1, <2>2, <2>3 DEF NoUpdateLost
  <1>3. QED
    BY <1>1, <1>2, Invariance, PTL DEF Spec

-----------------------------------------------------------------------------
(* Proposals.  What they say is decided once because no two rows, and no   *)
(* captured memory, share an id: a call makes its ids from its own number, *)
(* and no two calls under way have the same.                               *)

ProposalRow == [mem : MemoryIds, of : MemoryIds \cup {None},
                status : {"pending", "approved", "rejected"},
                reviewer : Agents \cup {None}, memory_id : MemoryIds \cup {None}]

Known(props, stored) == stored \cup {props[q].mem : q \in DOMAIN props}

\* The memory that a process makes next is nobody's yet.
Unused(p, props, stored) ==
    /\ p.pc = "capturing" /\ p.ask.mode = "remember" =>
           \A q \in DOMAIN props : props[q].mem.call # p.call
    /\ p.pc = "capturing" /\ p.ask.mode = "propose" =>
           \A m \in Known(props, stored) : m.call = p.call => m.at < p.next
    /\ p.pc \in {"extracting", "deriving"} =>
           \A m \in Known(props, stored) : m.call = p.call => m.at <= Len(props)

Approves(p) == p.pc = "reviewing" /\ p.verdict = "approved"

\* What a process holds where it stands, given the tables.
Standing(p, props, stored, n) ==
    /\ p.call \in 0 .. n
    /\ p.ask \in Captures \cup {None}
    /\ IF p.pc \in {"approving", "reviewing"}
       THEN p.prop \in DOMAIN props ELSE p.prop = 0
    /\ p.pc = "approving" => p.verdict = "approved"
    /\ p.pc = "reviewing" => p.verdict \in {"approved", "rejected"}
    /\ Approves(p) => props[p.prop].mem \in stored
    /\ p.pc \in {"capturing", "relating", "asserting"} => p.ask # None
    /\ p.pc = "capturing" => p.next \in Nat \ {0}
    /\ p.pc \in {"extracting", "deriving"} => p.todo \subseteq MemoryIds
    /\ Unused(p, props, stored)

Books ==
    /\ proposals \in Seq(ProposalRow)
    /\ Stored \subseteq MemoryIds
    /\ \A m \in Known(proposals, Stored) : m.call <= called
    /\ \A p, q \in DOMAIN proposals : proposals[p].mem = proposals[q].mem => p = q
    /\ \A a \in Agents : Standing(proc[a], proposals, Stored, called)
    /\ \A a, b \in Agents : (/\ proc[a].pc # "idle" /\ proc[b].pc # "idle"
                             /\ proc[a].call = proc[b].call) => a = b

\* A row names its memory exactly if it is approved, and then the memory is
\* stored.  Without a contest one process at most reviews it, and until its
\* verdict the row is pending and the memory, if stored, is that reviewer's.
DecidedAt(p) ==
    LET row == proposals[p] IN
    /\ IF row.status = "approved" THEN row.memory_id = row.mem /\ row.mem \in Stored
       ELSE row.memory_id = None
    /\ \/ p \in contested
       \/ /\ \A a \in Agents : proc[a].prop = p =>
                 /\ row.status = "pending"
                 /\ IF Approves(proc[a]) THEN row.mem \in Stored /\ vault[row.mem] = a
                    ELSE row.mem \notin Stored
          /\ \A a, b \in Agents : proc[a].prop = p /\ proc[b].prop = p => a = b
          /\ ~Reviewing(p) => IF row.mem \in Stored
                              THEN row.status = "approved" /\ vault[row.mem] = row.reviewer
                              ELSE row.status # "approved"

ReviewInv == Books /\ \A p \in DOMAIN proposals : DecidedAt(p)

\* What a process holds stays true when rows and memories are added, as long as
\* none of the new ones has the process's own number.
LEMMA StandsStill ==
    ASSUME NEW p, NEW props \in Seq(ProposalRow), NEW props2 \in Seq(ProposalRow),
           NEW stored, NEW stored2, NEW n \in Nat, NEW n2 \in Nat,
           n <= n2, Len(props) <= Len(props2), stored \subseteq stored2,
           \A q \in DOMAIN props : props2[q].mem = props[q].mem,
           Known(props, stored) \subseteq MemoryIds,
           p.pc # "idle" =>
               /\ \A m \in Known(props2, stored2) \ Known(props, stored) : m.call # p.call
               /\ \A q \in DOMAIN props2 \ DOMAIN props : props2[q].mem.call # p.call,
           Standing(p, props, stored, n)
    PROVE  Standing(p, props2, stored2, n2)
  <1>1. DOMAIN props = 1 .. Len(props) /\ DOMAIN props2 = 1 .. Len(props2)
        /\ Len(props) \in Nat /\ Len(props2) \in Nat
    OBVIOUS
  <1>2. DOMAIN props \subseteq DOMAIN props2
    BY <1>1
  <1>3. p.call \in 0 .. n2
    BY DEF Standing
  <1>4. Unused(p, props2, stored2)
    <2>1. ASSUME p.pc = "capturing", p.ask.mode = "remember", NEW q \in DOMAIN props2
          PROVE  props2[q].mem.call # p.call
      <3>1. props2[q].mem \in Known(props2, stored2)
        BY DEF Known
      <3>2. CASE q \in DOMAIN props
        BY <2>1, <3>2 DEF Standing, Unused
      <3>3. CASE q \notin DOMAIN props
        BY <2>1, <3>3
      <3>4. QED
        BY <3>2, <3>3
    <2>2. ASSUME p.pc = "capturing", p.ask.mode = "propose",
                 NEW m \in Known(props2, stored2), m.call = p.call
          PROVE  m.at < p.next
      BY <2>2 DEF Standing, Unused
    <2>3. ASSUME p.pc \in {"extracting", "deriving"},
                 NEW m \in Known(props2, stored2), m.call = p.call
          PROVE  m.at <= Len(props2)
      <3>1. m \in Known(props, stored) /\ m.at <= Len(props)
        BY <2>3 DEF Standing, Unused
      <3>2. m.at \in Nat
        BY <3>1 DEF MemoryIds
      <3>3. QED
        BY <1>1, <3>1, <3>2
    <2>4. QED
      BY <2>1, <2>2, <2>3 DEF Unused
  <1>5. QED
    BY <1>2, <1>3, <1>4 DEF Standing, Approves

\* A step of one process that adds rows and memories with its own number.
LEMMA OneStands ==
    ASSUME IInv, Books, NEW a \in Agents, NEW p, proc' = [proc EXCEPT ![a] = p],
           proposals' \in Seq(ProposalRow), Stored' \subseteq MemoryIds,
           called' \in Nat, called <= called',
           Len(proposals') \in {Len(proposals), Len(proposals) + 1}, Stored \subseteq Stored',
           \A q \in DOMAIN proposals : proposals'[q].mem = proposals[q].mem,
           \A m \in Known(proposals', Stored') \ Known(proposals, Stored) :
               proc[a].pc # "idle" /\ m.call = proc[a].call,
           \A q \in DOMAIN proposals' \ DOMAIN proposals :
               /\ proc[a].pc # "idle" /\ proposals'[q].mem.call = proc[a].call
               /\ proposals'[q].mem \notin Known(proposals, Stored),
           Standing(p, proposals', Stored', called'),
           p.pc # "idle" => \/ p.call > called
                            \/ proc[a].pc # "idle" /\ p.call = proc[a].call
    PROVE  Books'
  <1>1. called \in Nat /\ \A b \in Agents : proc'[b] = IF b = a THEN p ELSE proc[b]
    BY DEF IInv, Types
  <1>2. Len(proposals) \in Nat /\ Len(proposals) <= Len(proposals')
        /\ DOMAIN proposals = 1 .. Len(proposals) /\ DOMAIN proposals' = 1 .. Len(proposals')
    BY DEF Books
  <1>3. Known(proposals, Stored) \subseteq MemoryIds /\ proposals \in Seq(ProposalRow)
    <2>1. \A q \in DOMAIN proposals : proposals[q] \in ProposalRow
      BY DEF Books
    <2>2. \A q \in DOMAIN proposals : proposals[q].mem \in MemoryIds
      BY <2>1 DEF ProposalRow
    <2>3. QED
      BY <2>2 DEF Known, Books
  <1>4. \A b \in Agents : proc[b].call \in 0 .. called
    BY DEF Books, Standing
  <1>5. ASSUME NEW m \in Known(proposals', Stored')
        PROVE  m.call <= called'
    <2>1. m \in MemoryIds
      <3>1. \A q \in DOMAIN proposals' : proposals'[q] \in ProposalRow
        OBVIOUS
      <3>2. \A q \in DOMAIN proposals' : proposals'[q].mem \in MemoryIds
        BY <3>1 DEF ProposalRow
      <3>3. QED
        BY <3>2 DEF Known
    <2>2. m.call \in Nat
      BY <2>1 DEF MemoryIds
    <2>3. m.call <= called
      BY <1>1, <1>4, <2>2 DEF Books
    <2>4. QED
      BY <1>1, <2>2, <2>3
  <1>6. ASSUME NEW q \in DOMAIN proposals', NEW r \in DOMAIN proposals',
               proposals'[q].mem = proposals'[r].mem
        PROVE  q = r
    <2>1. CASE q \in DOMAIN proposals /\ r \in DOMAIN proposals
      BY <1>6, <2>1 DEF Books
    <2>2. CASE q \in DOMAIN proposals /\ r \notin DOMAIN proposals
      BY <1>6, <2>2 DEF Known
    <2>3. CASE q \notin DOMAIN proposals /\ r \in DOMAIN proposals
      BY <1>6, <2>3 DEF Known
    <2>4. CASE q \notin DOMAIN proposals /\ r \notin DOMAIN proposals
      <3>1. q \in 1 .. Len(proposals') /\ r \in 1 .. Len(proposals')
            /\ q \notin 1 .. Len(proposals) /\ r \notin 1 .. Len(proposals)
        BY <1>2, <2>4
      <3>2. Len(proposals') = Len(proposals) \/ Len(proposals') = Len(proposals) + 1
        OBVIOUS
      <3>3. ASSUME NEW k \in Nat, NEW l, l = k \/ l = k + 1,
                   NEW x \in 1 .. l, NEW y \in 1 .. l, x \notin 1 .. k, y \notin 1 .. k
            PROVE  x = y
        BY <3>3
      <3>4. QED
        BY <1>2, <3>1, <3>2, <3>3
    <2>5. QED
      BY <2>1, <2>2, <2>3, <2>4
  <1>7. ASSUME NEW b \in Agents
        PROVE  Standing(proc'[b], proposals', Stored', called')
    <2>1. CASE b = a
      BY <1>1, <2>1
    <2>2. CASE b # a
      <3>1. Standing(proc[b], proposals, Stored, called)
        BY DEF Books
      <3>2. proc[b].pc # "idle" =>
               /\ \A m \in Known(proposals', Stored') \ Known(proposals, Stored) :
                      m.call # proc[b].call
               /\ \A q \in DOMAIN proposals' \ DOMAIN proposals :
                      proposals'[q].mem.call # proc[b].call
        BY <2>2 DEF Books
      <3>3. Standing(proc[b], proposals', Stored', called')
        BY <1>1, <1>2, <1>3, <3>1, <3>2, StandsStill
      <3>4. QED
        BY <1>1, <2>2, <3>3
    <2>3. QED
      BY <2>1, <2>2
  <1>8. ASSUME NEW b \in Agents, NEW c \in Agents, proc'[b].pc # "idle", proc'[c].pc # "idle",
               proc'[b].call = proc'[c].call
        PROVE  b = c
    <2>1. CASE b # a /\ c # a
      BY <1>1, <1>8, <2>1 DEF Books
    <2>2. ASSUME NEW d \in Agents, d # a, proc[d].pc # "idle", p.pc # "idle",
                 p.call = proc[d].call
          PROVE  FALSE
      BY <1>1, <1>4, <2>2 DEF Books
    <2>3. QED
      BY <1>1, <1>8, <2>1, <2>2
  <1>9. QED
    BY <1>5, <1>6, <1>7, <1>8 DEF Books

\* A step that adds neither.
LEMMA SameBooks ==
    ASSUME IInv, Books, NEW a \in Agents, NEW p, proc' = [proc EXCEPT ![a] = p],
           UNCHANGED <<proposals, vault>>, called' \in Nat, called <= called',
           Standing(p, proposals, Stored, called'),
           p.pc # "idle" => \/ p.call > called
                            \/ proc[a].pc # "idle" /\ p.call = proc[a].call
    PROVE  Books'
  <1>1. Stored' = Stored /\ proposals \in Seq(ProposalRow) /\ Stored \subseteq MemoryIds
    BY DEF Stored, Books
  <1>2. Known(proposals', Stored') = Known(proposals, Stored)
        /\ DOMAIN proposals' = DOMAIN proposals /\ Len(proposals') = Len(proposals)
    BY <1>1
  <1>3. Standing(p, proposals', Stored', called')
    BY <1>1
  <1>4. QED
    BY <1>1, <1>2, <1>3, OneStands

\* A proposal whose row, memory and reviewers stay as they are.
LEMMA SameDecision ==
    ASSUME NEW p, DecidedAt(p), proposals'[p] = proposals[p], contested \subseteq contested',
           proposals[p].mem \in Stored' <=> proposals[p].mem \in Stored,
           proposals[p].mem \in Stored => vault'[proposals[p].mem] = vault[proposals[p].mem],
           \A b \in Agents : /\ proc'[b].prop = p <=> proc[b].prop = p
                             /\ proc[b].prop = p => (Approves(proc'[b]) <=> Approves(proc[b]))
    PROVE  DecidedAt(p)'
  BY DEF DecidedAt, Reviewing

\* A step that reviews nothing.
LEMMA NoReview ==
    ASSUME IInv, Books, \A q \in DOMAIN proposals : DecidedAt(q),
           NEW a \in Agents, NEW p, proc' = [proc EXCEPT ![a] = p],
           UNCHANGED <<proposals, vault>>, contested \subseteq contested',
           p.prop = 0, proc[a].prop = 0
    PROVE  \A q \in DOMAIN proposals' : DecidedAt(q)'
  <1>1. \A b \in Agents : proc'[b] = IF b = a THEN p ELSE proc[b]
    BY DEF IInv, Types
  <1>2. Stored' = Stored
    BY DEF Stored
  <1>3. ASSUME NEW q \in DOMAIN proposals
        PROVE  DecidedAt(q)'
    <2>1. q # 0
      BY DEF Books
    <2>2. QED
      BY <1>1, <1>2, <2>1, SameDecision
  <1>4. QED
    BY <1>3

\* A step that changes neither a table of reviews nor a process that reviews.
LEMMA QuietStep ==
    ASSUME IInv, ReviewInv, NEW a \in Agents, NEW p, proc' = [proc EXCEPT ![a] = p],
           UNCHANGED <<proposals, vault, contested>>, called' \in Nat, called <= called',
           p.prop = 0, proc[a].prop = 0, Standing(p, proposals, Stored, called'),
           p.pc # "idle" => \/ p.call > called
                            \/ proc[a].pc # "idle" /\ p.call = proc[a].call
    PROVE  ReviewInv'
  <1>1. Books'
    BY SameBooks DEF ReviewInv
  <1>2. \A q \in DOMAIN proposals' : DecidedAt(q)'
    BY NoReview DEF ReviewInv
  <1>3. QED
    BY <1>1, <1>2 DEF ReviewInv

LEMMA IdleStands ==
    ASSUME NEW props, NEW stored, NEW n \in Nat
    PROVE  /\ Standing(Idle, props, stored, n) /\ Idle.pc = "idle" /\ Idle.prop = 0
           /\ Idle.ask = None /\ Idle.call = 0
  <1>1. Idle.call = 0 /\ Idle.ask = None /\ Idle.prop = 0 /\ Idle.pc = "idle"
    BY DEF Idle
  <1>2. QED
    BY <1>1 DEF Standing, Unused, Approves

\* A process that neither reviews nor makes memories.
LEMMA BusyStands ==
    ASSUME NEW p, NEW props, NEW stored, NEW n \in Nat, p.call \in 0 .. n,
           p.ask \in Captures \cup {None}, p.prop = 0,
           \/ p.pc \in {"reading", "saving"}
           \/ p.pc \in {"relating", "asserting"} /\ p.ask # None
    PROVE  Standing(p, props, stored, n)
  BY DEF Standing, Unused, Approves

LEMMA InitReview == Init => ReviewInv
  <1> SUFFICES ASSUME Init PROVE ReviewInv
    OBVIOUS
  <1>1. proposals = <<>> /\ Stored = {} /\ called = 0 /\ \A a \in Agents : proc[a] = Idle
    BY DEF Init, Stored
  <1>2. \A a \in Agents : Standing(proc[a], proposals, Stored, called) /\ proc[a].pc = "idle"
    BY <1>1, IdleStands
  <1>3. proposals \in Seq(ProposalRow) /\ DOMAIN proposals = {} /\ Known(proposals, Stored) = {}
    BY <1>1 DEF Known
  <1>4. QED
    BY <1>1, <1>2, <1>3 DEF ReviewInv, Books

\* What ReviewInv says of the process that moves.
LEMMA WhereItStands ==
    ASSUME IInv, ReviewInv, NEW a \in Agents
    PROVE  /\ Shape(proc[a]) /\ called \in Nat
           /\ Standing(proc[a], proposals, Stored, called)
           /\ proc[a].call \in 0 .. called /\ proc[a].ask \in Captures \cup {None}
           /\ proc[a].pc \notin {"approving", "reviewing"} => proc[a].prop = 0
           /\ proc[a].pc \in {"capturing", "relating", "asserting"} => proc[a].ask # None
  BY DEF IInv, Types, ProcessOK, ReviewInv, Books, Standing

\* A process ends that does not review.
LEMMA EndReview ==
    ASSUME IInv, ReviewInv, NEW a \in Agents, End(a), proc[a].pc \notin {"approving", "reviewing"},
           UNCHANGED <<proposals, vault, contested, called>>
    PROVE  ReviewInv'
  <1>1. /\ called' \in Nat /\ called <= called' /\ UNCHANGED <<proposals, vault, contested>>
        /\ proc[a].prop = 0 /\ proc' = [proc EXCEPT ![a] = Idle]
    BY WhereItStands DEF End
  <1>2. Standing(Idle, proposals, Stored, called') /\ Idle.pc = "idle" /\ Idle.prop = 0
    BY <1>1, IdleStands
  <1>3. QED
    BY <1>1, <1>2, QuietStep

\* Calls that read the task, and the end of a capture.
LEMMA TaskReview ==
    ASSUME IInv, ReviewInv, NEW a \in Agents
    PROVE  /\ ReadTask(a) => ReviewInv'
           /\ SyncTask(a) => ReviewInv'
           /\ ItemsDone(a) => ReviewInv'
           /\ Relate(a) => ReviewInv'
           /\ Affirm(a) => ReviewInv'
  <1> DEFINE p == proc[a]
  <1>1. /\ Shape(p) /\ called \in Nat /\ p.call \in 0 .. called
        /\ p.ask \in Captures \cup {None}
        /\ p.pc \notin {"approving", "reviewing"} => p.prop = 0
        /\ p.pc \in {"capturing", "relating", "asserting"} => p.ask # None
    BY WhereItStands
  \* Where such a process may go.
  <1>2. ASSUME NEW q, proc' = [proc EXCEPT ![a] = q],
               UNCHANGED <<proposals, vault, contested, called>>,
               q.call = p.call, q.ask = p.ask, q.prop = p.prop, p.pc # "idle",
               p.pc \notin {"approving", "reviewing"},
               \/ q.pc \in {"reading", "saving"}
               \/ q.pc \in {"relating", "asserting"} /\ p.ask # None
        PROVE  ReviewInv'
    <2>1. /\ Standing(q, proposals, Stored, called') /\ q.prop = 0 /\ p.prop = 0
          /\ called' \in Nat /\ called <= called' /\ UNCHANGED <<proposals, vault, contested>>
      BY <1>1, <1>2, BusyStands
    <2>2. QED
      BY <1>1, <1>2, <2>1, QuietStep
  <1>3. ASSUME ReadTask(a)
        PROVE  ReviewInv'
    <2> DEFINE q == [p EXCEPT !.pc = "saving", !.read = task]
    <2>1. PICK T : p \in Of(T) /\ "saving" \in T /\ task \in T
      BY <1>1, Wider
    <2>2. q.pc = "saving" /\ q.call = p.call /\ q.ask = p.ask /\ q.prop = p.prop
      BY <2>1 DEF Of
    <2>3. p.pc = "reading" /\ UNCHANGED <<proposals, vault, contested, called>>
      BY <1>3 DEF ReadTask, tables
    <2>4. proc' = [proc EXCEPT ![a] = IF Stale(p.patch, task) THEN Idle ELSE q]
      BY <1>3 DEF ReadTask
    <2> HIDE DEF p, q
    <2>5. CASE Stale(p.patch, task)
      BY <2>3, <2>4, <2>5, EndReview DEF End, p
    <2>6. CASE ~Stale(p.patch, task)
      BY <1>2, <2>2, <2>3, <2>4, <2>6
    <2>7. QED
      BY <2>5, <2>6
  <1>4. ASSUME SyncTask(a)
        PROVE  ReviewInv'
    <2> DEFINE syncs == p.ask.task /\ Seen(p.ask)
               patch == CapturePatch(p.call, p.ask)
               q == [p EXCEPT !.pc = "reading", !.patch = patch]
    <2>1. PICK T : p \in Of(T) /\ "reading" \in T /\ patch \in T
      BY <1>1, Wider
    <2>2. q.pc = "reading" /\ q.call = p.call /\ q.ask = p.ask /\ q.prop = p.prop
      BY <2>1 DEF Of
    <2>3. p.pc = "relating" /\ UNCHANGED <<proposals, vault, contested, called>>
      BY <1>4 DEF SyncTask, tables
    <2>4. proc' = [proc EXCEPT ![a] = IF syncs THEN q ELSE Idle]
      BY <1>4 DEF SyncTask
    <2> HIDE DEF p, q, syncs
    <2>5. CASE ~syncs
      BY <2>3, <2>4, <2>5, EndReview DEF End, p
    <2>6. CASE syncs
      BY <1>2, <2>2, <2>3, <2>4, <2>6
    <2>7. QED
      BY <2>5, <2>6
  <1>5. ASSUME ItemsDone(a)
        PROVE  ReviewInv'
    <2> DEFINE q == [p EXCEPT !.pc = "relating", !.todo = ToRelate(a)]
    <2>1. PICK T : p \in Of(T) /\ "relating" \in T /\ ToRelate(a) \in T
      BY <1>1, Wider
    <2>2. q.pc = "relating" /\ q.call = p.call /\ q.ask = p.ask /\ q.prop = p.prop
      BY <2>1 DEF Of
    <2>3. p.pc = "capturing" /\ UNCHANGED <<proposals, vault, contested, called>>
      BY <1>5 DEF ItemsDone, tables, ghosts
    <2>4. proc' = [proc EXCEPT ![a] = IF Refused(a) THEN Idle ELSE q]
      BY <1>5 DEF ItemsDone
    <2> HIDE DEF p, q
    <2>5. CASE Refused(a)
      BY <2>3, <2>4, <2>5, EndReview DEF End, p
    <2>6. CASE ~Refused(a)
      BY <1>1, <1>2, <2>2, <2>3, <2>4, <2>6
    <2>7. QED
      BY <2>5, <2>6
  <1>6. ASSUME Relate(a)
        PROVE  ReviewInv'
    <2>1. PICK r \in p.todo :
              proc' = [proc EXCEPT ![a].pc = "asserting", ![a].todo = @ \ {r}, ![a].edge = r]
      BY <1>6 DEF Relate
    <2> DEFINE q == [p EXCEPT !.pc = "asserting", !.todo = p.todo \ {r}, !.edge = r]
    <2>2. PICK T : p \in Of(T) /\ "asserting" \in T /\ p.todo \ {r} \in T /\ r \in T
      BY <1>1, Wider
    <2>3. q.pc = "asserting" /\ q.call = p.call /\ q.ask = p.ask /\ q.prop = p.prop
      BY <2>2 DEF Of
    <2>4. p.pc = "relating" /\ UNCHANGED <<proposals, vault, contested, called>>
      BY <1>6 DEF Relate, ghosts
    <2>5. proc' = [proc EXCEPT ![a] = q]
      BY <2>1
    <2> HIDE DEF p, q
    <2>6. QED
      BY <1>1, <1>2, <2>3, <2>4, <2>5
  <1>7. ASSUME Affirm(a)
        PROVE  ReviewInv'
    <2> DEFINE q == [p EXCEPT !.pc = "relating"]
    <2>1. PICK T : p \in Of(T) /\ "relating" \in T
      BY <1>1, Wider
    <2>2. q.pc = "relating" /\ q.call = p.call /\ q.ask = p.ask /\ q.prop = p.prop
      BY <2>1 DEF Of
    <2>3. p.pc = "asserting" /\ UNCHANGED <<proposals, vault, contested, called>>
      BY <1>7 DEF Affirm, ghosts
    <2>4. proc' = [proc EXCEPT ![a] = q]
      BY <1>7 DEF Affirm, To
    <2> HIDE DEF p, q
    <2>5. QED
      BY <1>1, <1>2, <2>2, <2>3, <2>4
  <1>8. QED
    BY <1>3, <1>4, <1>5, <1>6, <1>7

\* A call begins with the next number; nothing has that number yet.
LEMMA BeginStands ==
    ASSUME IInv, ReviewInv, NEW a \in Agents, NEW p, Shape(p), Begin(a, p),
           p.ask \in Captures \cup {None}, p.pc \in {"approving", "reviewing"} \/ p.prop = 0,
           \/ p.pc = "reading"
           \/ p.pc = "capturing" /\ p.ask # None /\ p.next = 1
           \/ p.pc = "extracting" /\ p.todo \subseteq MemoryIds
           \/ p.pc = "approving" /\ p.verdict = "approved" /\ p.prop \in DOMAIN proposals
           \/ p.pc = "reviewing" /\ p.verdict = "rejected" /\ p.prop \in DOMAIN proposals
    PROVE  \E q : /\ proc' = [proc EXCEPT ![a] = q]
                  /\ called' \in Nat /\ called <= called' /\ q.call > called
                  /\ q.pc = p.pc /\ q.prop = p.prop /\ q.verdict = p.verdict
                  /\ proc[a].pc = "idle" /\ proc[a].prop = 0
                  /\ Standing(q, proposals, Stored, called')
  <1> DEFINE q == [p EXCEPT !.call = called + 1]
  <1>1. PICK T : p \in Of(T) /\ called + 1 \in T
    BY Wider
  <1>2. /\ q.pc = p.pc /\ q.prop = p.prop /\ q.verdict = p.verdict /\ q.ask = p.ask
        /\ q.next = p.next /\ q.todo = p.todo /\ q.call = called + 1
    BY <1>1 DEF Of
  <1>3. proc' = [proc EXCEPT ![a] = q] /\ called' = called + 1 /\ proc[a].pc = "idle"
    BY DEF Begin
  <1> HIDE DEF q
  <1>4. called \in Nat /\ proc[a].prop = 0
    BY <1>3, WhereItStands
  <1>5. \A m \in Known(proposals, Stored) : m.call # q.call
    <2>1. \A m \in Known(proposals, Stored) : m \in MemoryIds
      <3>1. \A r \in DOMAIN proposals : proposals[r] \in ProposalRow
        BY DEF ReviewInv, Books
      <3>2. \A r \in DOMAIN proposals : proposals[r].mem \in MemoryIds
        BY <3>1 DEF ProposalRow
      <3>3. QED
        BY <3>2 DEF Known, ReviewInv, Books
    <2>2. \A m \in Known(proposals, Stored) : m.call \in Nat
      BY <2>1 DEF MemoryIds
    <2>3. \A m \in Known(proposals, Stored) : m.call <= called
      BY DEF ReviewInv, Books
    <2>4. QED
      BY <1>2, <1>4, <2>2, <2>3
  <1>6. Unused(q, proposals, Stored)
    <2>1. \A r \in DOMAIN proposals : proposals[r].mem \in Known(proposals, Stored)
      BY DEF Known
    <2>2. QED
      BY <1>5, <2>1 DEF Unused
  <1>7. Standing(q, proposals, Stored, called')
    BY <1>2, <1>3, <1>4, <1>6 DEF Standing, Approves
  <1>8. called' \in Nat /\ called <= called' /\ q.call > called
    BY <1>2, <1>3, <1>4
  <1>9. QED
    BY <1>2, <1>3, <1>4, <1>7, <1>8

\* Calls that begin without a review.
LEMMA BeginReview ==
    ASSUME IInv, ReviewInv, NEW a \in Agents
    PROVE  /\ \A p \in Patches : Update(a, p) => ReviewInv'
           /\ \A c \in Captures : CaptureAll(a, c) => ReviewInv'
           /\ Consolidate(a) => ReviewInv'
  <1>1. ASSUME NEW p, Begin(a, p), Shape(p), p.ask \in Captures \cup {None}, p.prop = 0,
               \/ p.pc = "reading"
               \/ p.pc = "capturing" /\ p.ask # None /\ p.next = 1
               \/ p.pc = "extracting" /\ p.todo \subseteq MemoryIds,
               proposals' = proposals, vault' = vault, contested' = contested
        PROVE  ReviewInv'
    <2>1. PICK q : /\ proc' = [proc EXCEPT ![a] = q]
                   /\ called' \in Nat /\ called <= called' /\ q.call > called
                   /\ q.prop = p.prop /\ proc[a].prop = 0
                   /\ Standing(q, proposals, Stored, called')
      BY <1>1, BeginStands
    <2>2. UNCHANGED <<proposals, vault, contested>>
      BY <1>1
    <2>3. QED
      BY <1>1, <2>1, <2>2, QuietStep
  <1>2. ASSUME NEW p \in Patches, Update(a, p)
        PROVE  ReviewInv'
    <2> DEFINE q == [fields |-> [f \in p.sets |-> From(called + 1)], seq |-> p.seq]
               r == [Idle EXCEPT !.pc = "reading", !.patch = q]
    <2>1. Begin(a, r) /\ proposals' = proposals /\ vault' = vault /\ contested' = contested
      BY <1>2 DEF Update, tables, ghosts
    <2> HIDE DEF q
    <2>2. PICK T : Idle \in Of(T) /\ "reading" \in T /\ q \in T
      BY Wider, IdleIsProcess
    <2>3. r \in Of(T) /\ r.pc = "reading" /\ r.ask = None /\ r.prop = 0
      BY <2>2, IdleStands DEF Of
    <2> HIDE DEF r
    <2>4. QED
      BY <1>1, <2>1, <2>3 DEF Shape
  <1>3. ASSUME NEW c \in Captures, CaptureAll(a, c)
        PROVE  ReviewInv'
    <2> DEFINE r == [Idle EXCEPT !.pc = "capturing", !.ask = c]
    <2>1. Begin(a, r) /\ proposals' = proposals /\ vault' = vault /\ contested' = contested
      BY <1>3 DEF CaptureAll, tables, ghosts
    <2>2. PICK T : Idle \in Of(T) /\ "capturing" \in T /\ c \in T
      BY Wider, IdleIsProcess
    <2>3. r \in Of(T) /\ r.pc = "capturing" /\ r.ask = c /\ r.prop = 0 /\ r.next = 1
      BY <2>2, IdleStands DEF Of, Idle
    <2>4. c # None
      BY TasksAssumption
    <2> HIDE DEF r
    <2>5. QED
      BY <1>1, <2>1, <2>3, <2>4 DEF Shape
  <1>4. ASSUME Consolidate(a)
        PROVE  ReviewInv'
    <2> DEFINE todo == {m \in Stored : m.role = "note"}
               r == [Idle EXCEPT !.pc = "extracting", !.todo = todo]
    <2>1. Begin(a, r) /\ proposals' = proposals /\ vault' = vault /\ contested' = contested
      BY <1>4 DEF Consolidate, tables, ghosts
    <2>2. todo \subseteq MemoryIds
      BY DEF ReviewInv, Books
    <2> HIDE DEF todo
    <2>3. PICK T : Idle \in Of(T) /\ "extracting" \in T /\ todo \in T
      BY Wider, IdleIsProcess
    <2>4. r \in Of(T) /\ r.pc = "extracting" /\ r.ask = None /\ r.prop = 0 /\ r.todo = todo
      BY <2>3, IdleStands DEF Of
    <2> HIDE DEF r
    <2>5. QED
      BY <1>1, <2>1, <2>2, <2>4 DEF Shape
  <1>5. QED
    BY <1>2, <1>3, <1>4

\* The test of the status: a review that is alone finds a memory nobody stored.
LEMMA StartReviewReview ==
    ASSUME IInv, ReviewInv, NEW a \in Agents, NEW p \in DOMAIN proposals,
           NEW v \in {"approved", "rejected"}, StartReview(a, p, v)
    PROVE  ReviewInv'
  <1> DEFINE r == [Idle EXCEPT !.pc = IF v = "approved" THEN "approving" ELSE "reviewing",
                               !.prop = p, !.verdict = v]
  <1>1. /\ Begin(a, r) /\ proposals' = proposals /\ vault' = vault
        /\ contested' = IF Reviewing(p) THEN contested \cup {p} ELSE contested
        /\ proposals[p].status = "pending"
    BY DEF StartReview, tables, Reviewable
  <1>2. PICK T : Idle \in Of(T)
                 /\ (IF v = "approved" THEN "approving" ELSE "reviewing") \in T /\ p \in T /\ v \in T
    BY Wider, IdleIsProcess
  <1>3. /\ r \in Of(T) /\ r.pc = (IF v = "approved" THEN "approving" ELSE "reviewing")
        /\ r.ask = None /\ r.prop = p /\ r.verdict = v
    BY <1>2, IdleStands DEF Of
  <1> HIDE DEF r
  <1>4. PICK q : /\ proc' = [proc EXCEPT ![a] = q]
                 /\ called' \in Nat /\ called <= called' /\ q.call > called
                 /\ q.pc = r.pc /\ q.prop = r.prop /\ q.verdict = r.verdict
                 /\ proc[a].pc = "idle" /\ proc[a].prop = 0
                 /\ Standing(q, proposals, Stored, called')
    BY <1>1, <1>3, BeginStands DEF Shape
  <1>5. Books'
    <2>1. UNCHANGED <<proposals, vault>>
      BY <1>1
    <2>2. QED
      BY <1>4, <2>1, SameBooks DEF ReviewInv
  <1>6. Stored' = Stored /\ ~Approves(q) /\ q.prop = p
        /\ \A b \in Agents : proc'[b] = IF b = a THEN q ELSE proc[b]
    BY <1>1, <1>3, <1>4 DEF Stored, Approves, IInv, Types
  <1>7. ASSUME NEW s \in DOMAIN proposals
        PROVE  DecidedAt(s)'
    <2>1. DecidedAt(s) /\ s # 0
      BY DEF ReviewInv, Books
    <2>2. CASE s # p
      BY <1>1, <1>4, <1>6, <2>1, <2>2, SameDecision
    <2>3. CASE s = p /\ Reviewing(p)
      BY <1>1, <1>6, <2>1, <2>3 DEF DecidedAt
    <2>4. CASE s = p /\ ~Reviewing(p)
      <3>1. p \in contested \/ proposals[p].mem \notin Stored
        BY <1>1, <2>1, <2>4 DEF DecidedAt
      <3>2. \A b \in Agents : proc'[b].prop = p <=> b = a
        BY <1>6, <2>4 DEF Reviewing
      <3>3. \A b \in Agents : proc'[b].prop = p => ~Approves(proc'[b])
        BY <1>6, <3>2
      <3>4. QED
        BY <1>1, <1>6, <2>1, <2>4, <3>1, <3>2, <3>3 DEF DecidedAt, Reviewing
    <2>5. QED
      BY <2>2, <2>3, <2>4
  <1>8. QED
    BY <1>1, <1>5, <1>7 DEF ReviewInv

\* The step of a process that stores a memory under an id no proposal has.
LEMMA StoreItemReview ==
    ASSUME IInv, ReviewInv, NEW a \in Agents, StoreItem(a)
    PROVE  ReviewInv'
  <1> DEFINE p == proc[a]
             m == ItemMemory(a)
             q == [p EXCEPT !.next = p.next + 1]
  <1>1. /\ Shape(p) /\ called \in Nat /\ Standing(p, proposals, Stored, called)
        /\ p.call \in 0 .. called /\ p.prop = 0 /\ p.pc = "capturing"
        /\ p.ask \in Captures /\ p.next \in Nat \ {0} /\ p.next \in DOMAIN p.ask.items
        /\ p.ask.mode = "remember"
    <2>1. p.pc = "capturing" /\ p.ask.mode = "remember" /\ p.next <= Len(p.ask.items)
      BY DEF StoreItem, Capturing
    <2>2. p.ask \in Captures /\ p.next \in Nat \ {0} /\ p.prop = 0
      BY <2>1, WhereItStands DEF Standing
    <2>3. p.ask.items \in Seq(Roles)
      BY <2>2, TasksAssumption DEF Capture
    <2>4. QED
      BY <2>1, <2>2, <2>3, WhereItStands
  <1>2. m \in MemoryIds /\ m.call = p.call
    <2>1. p.ask.items \in Seq(Roles)
      BY <1>1, TasksAssumption DEF Capture
    <2>2. p.ask.items[p.next] \in Roles
      BY <1>1, <2>1
    <2>3. QED
      BY <1>1, <2>2 DEF ItemMemory, Item, Memory, MemoryIds
  <1>3. \A r \in DOMAIN proposals : proposals[r].mem # m
    BY <1>1, <1>2 DEF Standing, Unused
  <1>4. PICK T : p \in Of(T) /\ p.next + 1 \in T
    BY <1>1, Wider
  <1>5. /\ q.pc = p.pc /\ q.call = p.call /\ q.ask = p.ask /\ q.prop = p.prop
        /\ q.next = p.next + 1
    BY <1>4 DEF Of
  <1>6. /\ proc' = [proc EXCEPT ![a] = q] /\ vault' = Remembered(m, None)
        /\ proposals' = proposals /\ contested' = contested /\ called' = called
    BY DEF StoreItem, ghosts
  <1> HIDE DEF q, p, m
  <1>7. Stored' = Stored \cup {m} /\ \A n \in Stored : n # m => vault'[n] = vault[n]
    BY <1>6 DEF Stored, Remembered
  <1>8. \A b \in Agents : proc'[b] = IF b = a THEN q ELSE proc[b]
    BY <1>6 DEF IInv, Types
  <1>9. Known(proposals', Stored') = Known(proposals, Stored) \cup {m}
    BY <1>6, <1>7 DEF Known
  <1>10. Standing(q, proposals', Stored', called')
    <2>1. \A r \in DOMAIN proposals : proposals[r].mem.call # p.call
      BY <1>1 DEF Standing, Unused
    <2>2. QED
      BY <1>1, <1>5, <1>6, <2>1 DEF Standing, Unused, Approves
  <1>11. Books'
    <2>1. /\ proposals' \in Seq(ProposalRow) /\ Stored' \subseteq MemoryIds
          /\ called' \in Nat /\ called <= called' /\ Stored \subseteq Stored'
          /\ Len(proposals') \in {Len(proposals), Len(proposals) + 1}
      BY <1>1, <1>2, <1>6, <1>7 DEF ReviewInv, Books
    <2>2. QED
      BY <1>1, <1>2, <1>5, <1>6, <1>9, <1>10, <2>1, OneStands DEF ReviewInv, p
  <1>12. ASSUME NEW s \in DOMAIN proposals
         PROVE  DecidedAt(s)'
    <2>1. DecidedAt(s) /\ s # 0 /\ proposals[s].mem # m
      BY <1>3 DEF ReviewInv, Books
    <2>2. proposals[s].mem \in Stored => vault'[proposals[s].mem] = vault[proposals[s].mem]
      BY <1>7, <2>1
    <2>3. QED
      BY <1>1, <1>5, <1>6, <1>7, <1>8, <2>1, <2>2, SameDecision DEF p
  <1>13. QED
    BY <1>6, <1>11, <1>12 DEF ReviewInv

\* A new proposal, for a memory nobody has: pending, and reviewed by nobody.
LEMMA Proposing ==
    ASSUME IInv, ReviewInv, NEW a \in Agents, NEW p, proc' = [proc EXCEPT ![a] = p],
           NEW m \in MemoryIds, NEW of \in MemoryIds \cup {None},
           proposals' = Append(proposals, Proposal(m, of)),
           vault' = vault, contested' = contested, called' = called,
           proc[a].pc # "idle", m.call = proc[a].call, m \notin Known(proposals, Stored),
           Standing(p, proposals', Stored, called), p.prop = 0, proc[a].prop = 0,
           p.pc # "idle" => p.call = proc[a].call
    PROVE  ReviewInv'
  <1> DEFINE row == Proposal(m, of)
  <1>1. /\ row \in ProposalRow /\ row.mem = m /\ row.status = "pending"
        /\ row.memory_id = None
    BY DEF Proposal, ProposalRow
  <1> HIDE DEF row
  <1>2. /\ proposals \in Seq(ProposalRow) /\ Stored \subseteq MemoryIds /\ called \in Nat
        /\ Len(proposals) \in Nat
    BY DEF ReviewInv, Books, IInv, Types
  <1>0. PICK n \in Nat : n = Len(proposals) + 1
    BY <1>2
  <1>3. proposals' = Append(proposals, row)
    BY DEF row
  <1>4. /\ proposals' \in Seq(ProposalRow) /\ Len(proposals') = n
        /\ DOMAIN proposals' = DOMAIN proposals \cup {n} /\ n \notin DOMAIN proposals
        /\ proposals'[n] = row /\ \A s \in DOMAIN proposals : proposals'[s] = proposals[s]
    BY <1>0, <1>1, <1>2, <1>3
  <1>5. Stored' = Stored
    BY DEF Stored
  <1>6. Known(proposals', Stored') = Known(proposals, Stored) \cup {m}
    BY <1>1, <1>4, <1>5 DEF Known
  <1>7. Books'
    <2>1. Len(proposals') \in {Len(proposals), Len(proposals) + 1}
      BY <1>0, <1>4
    <2>2. \A s \in DOMAIN proposals : proposals'[s].mem = proposals[s].mem
      BY <1>4
    <2>3. \A x \in Known(proposals', Stored') \ Known(proposals, Stored) :
             proc[a].pc # "idle" /\ x.call = proc[a].call
      BY <1>6
    <2>4. \A s \in DOMAIN proposals' \ DOMAIN proposals :
             /\ proc[a].pc # "idle" /\ proposals'[s].mem.call = proc[a].call
             /\ proposals'[s].mem \notin Known(proposals, Stored)
      BY <1>1, <1>4
    <2>5. Standing(p, proposals', Stored', called') /\ called' \in Nat /\ called <= called'
          /\ Stored' \subseteq MemoryIds /\ Stored \subseteq Stored'
      BY <1>2, <1>5
    <2>6. QED
      BY <1>4, <2>1, <2>2, <2>3, <2>4, <2>5, OneStands DEF ReviewInv
  <1>8. \A b \in Agents : proc'[b] = IF b = a THEN p ELSE proc[b]
    BY DEF IInv, Types
  <1>9. ASSUME NEW s \in DOMAIN proposals
        PROVE  DecidedAt(s)'
    <2>1. DecidedAt(s) /\ s # 0 /\ proposals'[s] = proposals[s]
      BY <1>2, <1>4 DEF ReviewInv
    <2>2. QED
      BY <1>5, <1>8, <2>1, SameDecision
  <1>10. DecidedAt(n)'
    <2>1. \A b \in Agents : proc'[b].prop # n
      <3>1. n # 0
        BY <1>0, <1>2
      <3>2. \A b \in Agents : Standing(proc[b], proposals, Stored, called)
        BY DEF ReviewInv, Books
      <3>3. \A b \in Agents : proc[b].prop \in DOMAIN proposals \cup {0}
        BY <3>2 DEF Standing
      <3>4. QED
        BY <1>4, <1>8, <3>1, <3>3
    <2>2. m \notin Stored
      BY DEF Known
    <2>3. QED
      BY <1>1, <1>4, <1>5, <2>1, <2>2 DEF DecidedAt, Reviewing
  <1>11. QED
    BY <1>4, <1>7, <1>9, <1>10 DEF ReviewInv

LEMMA ProposeItemReview ==
    ASSUME IInv, ReviewInv, NEW a \in Agents, ProposeItem(a)
    PROVE  ReviewInv'
  <1> DEFINE p == proc[a]
             m == ItemMemory(a)
             q == [p EXCEPT !.next = p.next + 1]
  <1>1. /\ Shape(p) /\ called \in Nat /\ Standing(p, proposals, Stored, called)
        /\ p.call \in 0 .. called /\ p.prop = 0 /\ p.pc = "capturing"
        /\ p.ask \in Captures /\ p.next \in Nat \ {0} /\ p.next <= Len(p.ask.items)
        /\ p.ask.items \in Seq(Roles) /\ p.ask.mode = "propose"
    <2>1. p.pc = "capturing" /\ p.ask.mode = "propose" /\ p.next <= Len(p.ask.items)
      BY DEF ProposeItem, Capturing
    <2>2. p.ask \in Captures /\ p.next \in Nat \ {0} /\ p.prop = 0
      BY <2>1, WhereItStands DEF Standing
    <2>3. p.ask.items \in Seq(Roles)
      BY <2>2, TasksAssumption DEF Capture
    <2>4. QED
      BY <2>1, <2>2, <2>3, WhereItStands
  <1>2. m \in MemoryIds /\ m.call = p.call /\ m.at = p.next
    <2>1. p.ask.items[p.next] \in Roles
      BY <1>1
    <2>2. QED
      BY <1>1, <2>1 DEF ItemMemory, Item, Memory, MemoryIds
  <1>3. m \notin Known(proposals, Stored)
    BY <1>1, <1>2 DEF Standing, Unused
  <1>4. PICK T : p \in Of(T) /\ p.next + 1 \in T
    BY <1>1, Wider
  <1>5. /\ q.pc = p.pc /\ q.call = p.call /\ q.ask = p.ask /\ q.prop = p.prop
        /\ q.next = p.next + 1
    BY <1>4 DEF Of
  <1>6. /\ proc' = [proc EXCEPT ![a] = q] /\ proposals' = Append(proposals, Proposal(m, None))
        /\ vault' = vault /\ contested' = contested /\ called' = called
    BY DEF ProposeItem, ghosts
  <1> HIDE DEF q, p, m
  <1>7. Known(proposals', Stored) \subseteq Known(proposals, Stored) \cup {m}
    <2>1. proposals \in Seq(ProposalRow) /\ Proposal(m, None).mem = m
      BY DEF ReviewInv, Books, Proposal
    <2>2. \A s \in DOMAIN proposals' :
             \/ s \in DOMAIN proposals /\ proposals'[s] = proposals[s]
             \/ proposals'[s] = Proposal(m, None)
      BY <1>6, <2>1
    <2>3. QED
      BY <2>1, <2>2 DEF Known
  <1>8. Standing(q, proposals', Stored, called)
    <2>1. ASSUME NEW x \in Known(proposals', Stored), x.call = p.call
          PROVE  x.at < p.next + 1
      <3>1. CASE x = m
        BY <1>1, <1>2, <3>1
      <3>2. CASE x # m
        <4>1. x \in Known(proposals, Stored) /\ x.at < p.next
          BY <1>1, <1>7, <2>1, <3>2 DEF Standing, Unused
        <4>2. \A s \in DOMAIN proposals : proposals[s] \in ProposalRow
          BY DEF ReviewInv, Books
        <4>3. \A s \in DOMAIN proposals : proposals[s].mem \in MemoryIds
          BY <4>2 DEF ProposalRow
        <4>4. x \in MemoryIds
          BY <4>1, <4>3 DEF Known, ReviewInv, Books
        <4>5. x.at \in Nat
          BY <4>4 DEF MemoryIds
        <4>6. QED
          BY <1>1, <4>1, <4>5
      <3>3. QED
        BY <3>1, <3>2
    <2>2. QED
      BY <1>1, <1>5, <2>1 DEF Standing, Unused, Approves
  <1>9. /\ p.pc # "idle" /\ m.call = p.call /\ q.prop = 0 /\ None \in MemoryIds \cup {None}
    BY <1>1, <1>2, <1>5
  <1>10. QED
    BY <1>1, <1>2, <1>3, <1>5, <1>6, <1>8, <1>9, Proposing DEF p

\* A fact's proposal is numbered by its row, so that no other has its id.
LEMMA ProposeFactReview ==
    ASSUME IInv, ReviewInv, NEW a \in Agents, ProposeFact(a)
    PROVE  ReviewInv'
  <1> DEFINE p == proc[a]
             x == Memory(p.call, Len(proposals) + 1, "fact")
  <1>1. PICK m \in p.todo :
            /\ proposals' = Append(proposals, Proposal(x, m))
            /\ proc' = [proc EXCEPT ![a] = IF p.todo = {m} THEN Idle
                                           ELSE [p EXCEPT !.todo = p.todo \ {m}]]
    BY DEF ProposeFact
  <1> DEFINE q == [p EXCEPT !.todo = p.todo \ {m}]
             r == IF p.todo = {m} THEN Idle ELSE q
  <1>2. /\ Shape(p) /\ called \in Nat /\ Standing(p, proposals, Stored, called)
        /\ p.call \in 0 .. called /\ p.prop = 0 /\ p.pc = "deriving"
        /\ p.todo \subseteq MemoryIds /\ p.ask \in Captures \cup {None}
    <2>1. p.pc = "deriving"
      BY DEF ProposeFact
    <2>2. QED
      BY <2>1, WhereItStands DEF Standing
  <1>3. PICK T : p \in Of(T) /\ p.todo \ {m} \in T
    BY <1>2, Wider
  <1>4. /\ q.pc = p.pc /\ q.call = p.call /\ q.ask = p.ask /\ q.prop = p.prop
        /\ q.todo = p.todo \ {m}
    BY <1>3 DEF Of
  <1>5. /\ proc' = [proc EXCEPT ![a] = r] /\ proposals' = Append(proposals, Proposal(x, m))
        /\ vault' = vault /\ contested' = contested /\ called' = called
    BY <1>1 DEF ProposeFact, ghosts
  <1>6. /\ proposals \in Seq(ProposalRow) /\ Len(proposals) \in Nat
        /\ \A s \in DOMAIN proposals : proposals[s].mem \in MemoryIds
    <2>1. \A s \in DOMAIN proposals : proposals[s] \in ProposalRow
      BY DEF ReviewInv, Books
    <2>2. QED
      BY <2>1 DEF ProposalRow, ReviewInv, Books
  <1>7. x \in MemoryIds /\ x.call = p.call /\ x.at = Len(proposals) + 1
    BY <1>2, <1>6 DEF Memory, MemoryIds
  <1>8. x \notin Known(proposals, Stored)
    BY <1>2, <1>6, <1>7 DEF Standing, Unused
  <1> HIDE DEF q, p, x
  <1>9. Known(proposals', Stored) \subseteq Known(proposals, Stored) \cup {x}
        /\ Len(proposals') = Len(proposals) + 1
    <2>1. Proposal(x, m).mem = x
      BY DEF Proposal
    <2>2. \A s \in DOMAIN proposals' :
             \/ s \in DOMAIN proposals /\ proposals'[s] = proposals[s]
             \/ proposals'[s] = Proposal(x, m)
      BY <1>5, <1>6
    <2>3. QED
      BY <1>5, <1>6, <2>1, <2>2 DEF Known
  <1>10. Standing(q, proposals', Stored, called)
    <2>1. ASSUME NEW y \in Known(proposals', Stored), y.call = p.call
          PROVE  y.at <= Len(proposals')
      <3>1. CASE y = x
        BY <1>6, <1>7, <1>9, <3>1
      <3>2. CASE y # x
        <4>1. y \in Known(proposals, Stored) /\ y.at <= Len(proposals)
          BY <1>2, <1>9, <2>1, <3>2 DEF Standing, Unused
        <4>2. y \in MemoryIds
          BY <1>6, <4>1 DEF Known, ReviewInv, Books
        <4>3. y.at \in Nat
          BY <4>2 DEF MemoryIds
        <4>4. QED
          BY <1>6, <1>9, <4>1, <4>3
      <3>3. QED
        BY <3>1, <3>2
    <2>2. QED
      BY <1>2, <1>4, <2>1 DEF Standing, Unused, Approves
  <1>11. Standing(r, proposals', Stored, called) /\ r.prop = 0
         /\ (r.pc # "idle" => r.call = p.call)
    BY <1>2, <1>4, <1>10, IdleStands
  <1>12. m \in MemoryIds \cup {None} /\ p.pc # "idle" /\ m \in MemoryIds
    BY <1>1, <1>2 DEF p
  <1> HIDE DEF r
  <1>13. QED
    BY <1>2, <1>5, <1>7, <1>8, <1>11, <1>12, Proposing DEF p

LEMMA IgnoreItemReview ==
    ASSUME IInv, ReviewInv, NEW a \in Agents, IgnoreItem(a)
    PROVE  ReviewInv'
  <1> DEFINE p == proc[a]
             q == [p EXCEPT !.next = p.next + 1]
  <1>1. /\ proc' = [proc EXCEPT ![a] = q] /\ p.pc = "capturing"
        /\ proposals' = proposals /\ vault' = vault /\ contested' = contested
        /\ called' = called
    BY DEF IgnoreItem, Capturing, tables, ghosts
  <1>2. /\ Shape(p) /\ called \in Nat /\ Standing(p, proposals, Stored, called)
        /\ p.call \in 0 .. called /\ p.prop = 0
    BY <1>1, WhereItStands
  <1>3. PICK T : p \in Of(T) /\ p.next + 1 \in T
    BY <1>2, Wider
  <1>4. /\ q.pc = p.pc /\ q.call = p.call /\ q.ask = p.ask /\ q.prop = p.prop
        /\ q.next = p.next + 1
    BY <1>3 DEF Of
  <1> HIDE DEF p, q
  <1>5. \A m \in Known(proposals, Stored) : m.at \in Nat
    <2>1. \A s \in DOMAIN proposals : proposals[s] \in ProposalRow
      BY DEF ReviewInv, Books
    <2>2. \A s \in DOMAIN proposals : proposals[s].mem \in MemoryIds
      BY <2>1 DEF ProposalRow
    <2>3. \A m \in Known(proposals, Stored) : m \in MemoryIds
      BY <2>2 DEF Known, ReviewInv, Books
    <2>4. QED
      BY <2>3 DEF MemoryIds
  <1>6. Standing(q, proposals, Stored, called')
    BY <1>1, <1>2, <1>4, <1>5 DEF Standing, Unused, Approves
  <1>7. /\ UNCHANGED <<proposals, vault, contested>> /\ called' \in Nat /\ called <= called'
        /\ q.prop = 0
    BY <1>1, <1>2, <1>4
  <1>8. QED
    BY <1>1, <1>2, <1>4, <1>6, <1>7, QuietStep DEF p

LEMMA ReadFactsReview ==
    ASSUME IInv, ReviewInv, NEW a \in Agents, ReadFacts(a)
    PROVE  ReviewInv'
  <1> DEFINE p == proc[a]
             q == [p EXCEPT !.pc = "deriving", !.todo = p.todo \ ledger]
  <1>1. /\ proc' = [proc EXCEPT ![a] = q] /\ p.pc = "extracting"
        /\ proposals' = proposals /\ vault' = vault /\ contested' = contested
        /\ called' = called
    BY DEF ReadFacts, tables, ghosts
  <1>2. /\ Shape(p) /\ called \in Nat /\ Standing(p, proposals, Stored, called)
        /\ p.call \in 0 .. called /\ p.prop = 0
    BY <1>1, WhereItStands
  <1>3. PICK T : p \in Of(T) /\ "deriving" \in T /\ p.todo \ ledger \in T
    BY <1>2, Wider
  <1>4. /\ q.pc = "deriving" /\ q.call = p.call /\ q.ask = p.ask /\ q.prop = p.prop
        /\ q.todo = p.todo \ ledger
    BY <1>3 DEF Of
  <1> HIDE DEF p, q
  <1>5. Standing(q, proposals, Stored, called')
    BY <1>1, <1>2, <1>4 DEF Standing, Unused, Approves
  <1>6. /\ UNCHANGED <<proposals, vault, contested>> /\ called' \in Nat /\ called <= called'
        /\ q.prop = 0
    BY <1>1, <1>2, <1>4
  <1>7. QED
    BY <1>1, <1>2, <1>4, <1>5, <1>6, QuietStep DEF p

\* approve stores the memory of its proposal, and of no other, before its verdict.
LEMMA RememberApprovedReview ==
    ASSUME IInv, ReviewInv, NEW a \in Agents, RememberApproved(a)
    PROVE  ReviewInv'
  <1> DEFINE p == proc[a]
             q == [p EXCEPT !.pc = "reviewing"]
  <1>0. PICK r : r = p.prop
    OBVIOUS
  <1> DEFINE m == proposals[r].mem
  <1>1. /\ p.pc = "approving" /\ proc' = [proc EXCEPT ![a] = q] /\ vault' = Remembered(m, a)
        /\ proposals' = proposals /\ contested' = contested /\ called' = called
    BY <1>0 DEF RememberApproved, To, ghosts
  <1>2. /\ Shape(p) /\ called \in Nat /\ Standing(p, proposals, Stored, called)
        /\ p.call \in 0 .. called
    BY WhereItStands
  <1>3. r \in DOMAIN proposals /\ p.verdict = "approved"
    BY <1>0, <1>1, <1>2 DEF Standing
  <1>4. PICK T : p \in Of(T) /\ "reviewing" \in T
    BY <1>2, Wider
  <1>5. /\ q.pc = "reviewing" /\ q.call = p.call /\ q.ask = p.ask /\ q.prop = p.prop
        /\ q.verdict = p.verdict
    BY <1>4 DEF Of
  <1> HIDE DEF q, p
  <1>6. m \in MemoryIds /\ m \in Known(proposals, Stored) /\ proposals \in Seq(ProposalRow)
    <2>1. proposals \in Seq(ProposalRow)
      BY DEF ReviewInv, Books
    <2>2. proposals[r] \in ProposalRow
      BY <1>3, <2>1
    <2>3. QED
      BY <1>3, <2>1, <2>2 DEF ProposalRow, Known
  <1>7. /\ Stored' = Stored \cup {m} /\ vault'[m] = a
        /\ \A n \in Stored : n # m => vault'[n] = vault[n]
    BY <1>1 DEF Stored, Remembered
  <1>8. Known(proposals', Stored') = Known(proposals, Stored)
    BY <1>1, <1>6, <1>7 DEF Known
  <1>9. Standing(q, proposals', Stored', called')
    BY <1>0, <1>1, <1>2, <1>3, <1>5, <1>7 DEF Standing, Unused, Approves
  <1>10. Books'
    <2>1. /\ Stored' \subseteq MemoryIds /\ called' \in Nat /\ called <= called'
          /\ Stored \subseteq Stored' /\ Len(proposals') \in {Len(proposals), Len(proposals) + 1}
      BY <1>1, <1>2, <1>6, <1>7 DEF ReviewInv, Books
    <2>2. QED
      BY <1>1, <1>5, <1>6, <1>8, <1>9, <2>1, OneStands DEF ReviewInv, p
  <1>11. \A b \in Agents : proc'[b] = IF b = a THEN q ELSE proc[b]
    BY <1>1 DEF IInv, Types
  <1>12. ASSUME NEW s \in DOMAIN proposals
         PROVE  DecidedAt(s)'
    <2>1. DecidedAt(s) /\ (proposals[s].mem = m => s = r)
      BY <1>3 DEF ReviewInv, Books
    <2>2. CASE s = r
      <3>1. Approves(q) /\ q.prop = r /\ proc[a].prop = r
        BY <1>0, <1>3, <1>5 DEF Approves, p
      <3>2. Reviewing(r)'
        BY <1>11, <3>1 DEF Reviewing
      <3>3. \A b \in Agents : proc'[b].prop = r <=> proc[b].prop = r
        BY <1>11, <3>1
      <3>4. s \in contested \/ \A b \in Agents : proc'[b].prop = r => b = a
        BY <2>1, <2>2, <3>1, <3>3 DEF DecidedAt
      <3>5. QED
        BY <1>1, <1>7, <1>11, <2>1, <2>2, <3>1, <3>2, <3>3, <3>4 DEF DecidedAt
    <2>3. CASE s # r
      <3>1. proposals[s].mem \in Stored' <=> proposals[s].mem \in Stored
        BY <1>7, <2>1, <2>3
      <3>2. proposals[s].mem \in Stored => vault'[proposals[s].mem] = vault[proposals[s].mem]
        BY <1>7, <2>1, <2>3
      <3>3. \A b \in Agents : /\ proc'[b].prop = s <=> proc[b].prop = s
                              /\ proc[b].prop = s => (Approves(proc'[b]) <=> Approves(proc[b]))
        BY <1>0, <1>5, <1>11, <2>3 DEF p
      <3>4. QED
        BY <1>1, <2>1, <3>1, <3>2, <3>3, SameDecision
    <2>4. QED
      BY <2>2, <2>3
  <1>13. QED
    BY <1>1, <1>10, <1>12 DEF ReviewInv

\* _review: a verdict of one that reviewed alone agrees with the vault.
LEMMA WriteVerdictReview ==
    ASSUME IInv, ReviewInv, NEW a \in Agents, WriteVerdict(a)
    PROVE  ReviewInv'
  <1> DEFINE p == proc[a]
  <1>0. PICK r : r = p.prop
    OBVIOUS
  <1> DEFINE row == proposals[r]
             new == Verdict(row, p.verdict, a)
  <1>1. /\ p.pc = "reviewing" /\ proc' = [proc EXCEPT ![a] = Idle]
        /\ proposals' = [proposals EXCEPT ![r] = new] /\ vault' = vault
        /\ contested' = contested /\ called' = called
    BY <1>0 DEF WriteVerdict, End, ghosts
  <1>2. /\ called \in Nat /\ Standing(p, proposals, Stored, called)
        /\ r \in DOMAIN proposals /\ p.verdict \in {"approved", "rejected"}
        /\ (p.verdict = "approved" => Approves(p) /\ row.mem \in Stored)
    BY <1>0, <1>1, WhereItStands DEF Standing, Approves
  <1>3. proposals \in Seq(ProposalRow) /\ row \in ProposalRow /\ DecidedAt(r)
    BY <1>2 DEF ReviewInv, Books
  <1>4. /\ new \in ProposalRow /\ new.mem = row.mem /\ new.status = p.verdict /\ new.reviewer = a
        /\ new.memory_id = IF p.verdict = "approved" THEN row.mem ELSE None
    BY <1>2, <1>3 DEF Verdict, ProposalRow
  <1> HIDE DEF p, new
  <1>5. /\ proposals' \in Seq(ProposalRow) /\ Len(proposals') = Len(proposals)
        /\ DOMAIN proposals' = DOMAIN proposals /\ proposals'[r] = new
        /\ \A s \in DOMAIN proposals : s # r => proposals'[s] = proposals[s]
    BY <1>1, <1>2, <1>3, <1>4
  <1>6. \A s \in DOMAIN proposals : proposals'[s].mem = proposals[s].mem
    BY <1>4, <1>5
  <1>7. Stored' = Stored /\ Known(proposals', Stored') = Known(proposals, Stored)
    BY <1>1, <1>5, <1>6 DEF Stored, Known
  <1>8. Books'
    <2>1. /\ Stored' \subseteq MemoryIds /\ Stored \subseteq Stored' /\ called' \in Nat
          /\ called <= called' /\ Len(proposals') \in {Len(proposals), Len(proposals) + 1}
      BY <1>1, <1>2, <1>5, <1>7 DEF ReviewInv, Books
    <2>2. Standing(Idle, proposals', Stored', called') /\ Idle.pc = "idle"
      BY <2>1, IdleStands
    <2>3. QED
      BY <1>1, <1>5, <1>6, <1>7, <2>1, <2>2, OneStands DEF ReviewInv
  <1>9. (\A b \in Agents : proc'[b] = IF b = a THEN Idle ELSE proc[b]) /\ Idle.prop = 0
    BY <1>1 DEF IInv, Types, Idle
  <1>10. ASSUME NEW s \in DOMAIN proposals
         PROVE  DecidedAt(s)'
    <2>1. DecidedAt(s) /\ s # 0
      BY <1>3 DEF ReviewInv
    <2>2. CASE s = r
      <3>1. s \in contested \/ ~Reviewing(s)'
        BY <1>0, <1>1, <1>9, <2>1, <2>2 DEF DecidedAt, Reviewing, p
      <3>2. \/ s \in contested
            \/ IF p.verdict = "approved" THEN row.mem \in Stored /\ vault[row.mem] = a
               ELSE row.mem \notin Stored
        BY <1>0, <1>2, <2>1, <2>2 DEF DecidedAt, Approves, p
      <3>3. proposals'[s] = new
        BY <1>5, <2>2
      <3>4. QED
        BY <1>1, <1>2, <1>4, <1>7, <3>1, <3>2, <3>3 DEF DecidedAt, Reviewing
    <2>3. CASE s # r
      <3>1. proposals'[s] = proposals[s]
        BY <1>5, <2>3
      <3>2. \A b \in Agents : /\ proc'[b].prop = s <=> proc[b].prop = s
                              /\ proc[b].prop = s => (Approves(proc'[b]) <=> Approves(proc[b]))
        BY <1>0, <1>9, <2>1, <2>3 DEF p
      <3>3. QED
        BY <1>1, <1>7, <2>1, <3>1, <3>2, SameDecision
    <2>4. QED
      BY <2>2, <2>3
  <1>11. QED
    BY <1>5, <1>8, <1>10 DEF ReviewInv

\* Whoever dies while reviewing leaves a proposal that counts as contested.
LEMMA AbandonReview ==
    ASSUME IInv, ReviewInv, NEW a \in Agents, Abandon(a)
    PROVE  ReviewInv'
  <1>0. PICK r : r = proc[a].prop
    OBVIOUS
  <1>1. /\ proc' = [proc EXCEPT ![a] = Idle] /\ called' = called
        /\ proposals' = proposals /\ vault' = vault
        /\ contested' = IF r = 0 THEN contested ELSE contested \cup {r}
    BY <1>0 DEF Abandon, End, tables
  <1>2. called \in Nat /\ called' \in Nat /\ called <= called'
        /\ UNCHANGED <<proposals, vault>> /\ Stored' = Stored
    BY <1>1, WhereItStands DEF Stored
  <1>3. Standing(Idle, proposals, Stored, called') /\ Idle.pc = "idle" /\ Idle.prop = 0
    BY <1>2, IdleStands
  <1>4. Books'
    BY <1>1, <1>2, <1>3, SameBooks DEF ReviewInv
  <1>5. \A b \in Agents : proc'[b] = IF b = a THEN Idle ELSE proc[b]
    BY <1>1 DEF IInv, Types
  <1>6. ASSUME NEW s \in DOMAIN proposals
        PROVE  DecidedAt(s)'
    <2>1. DecidedAt(s) /\ s # 0
      BY DEF ReviewInv, Books
    <2>2. CASE s = r
      BY <1>1, <1>2, <2>1, <2>2 DEF DecidedAt
    <2>3. CASE s # r
      BY <1>0, <1>1, <1>2, <1>3, <1>5, <2>1, <2>3, SameDecision
    <2>4. QED
      BY <2>2, <2>3
  <1>7. QED
    BY <1>1, <1>4, <1>6 DEF ReviewInv

LEMMA NextReview == IInv /\ ReviewInv /\ [Next]_vars => ReviewInv'
  <1> SUFFICES ASSUME IInv, ReviewInv, [Next]_vars PROVE ReviewInv'
    OBVIOUS
  <1>1. CASE UNCHANGED <<proposals, vault, contested, called, proc>>
    BY <1>1 DEF ReviewInv, Books, Stored, Known, DecidedAt, Reviewing
  <1>2. ASSUME NEW a \in Agents,
               \/ \E p \in Patches : Update(a, p)
               \/ \E c \in Captures : CaptureAll(a, c)
               \/ \E p \in DOMAIN proposals, v \in {"approved", "rejected"} :
                     StartReview(a, p, v)
               \/ Consolidate(a)
        PROVE  ReviewInv'
    BY <1>2, BeginReview, StartReviewReview
  <1>3. ASSUME NEW a \in Agents,
               StoreItem(a) \/ ProposeItem(a) \/ IgnoreItem(a) \/ ItemsDone(a)
               \/ Relate(a) \/ Affirm(a) \/ ReadTask(a) \/ SyncTask(a)
        PROVE  ReviewInv'
    BY <1>3, StoreItemReview, ProposeItemReview, IgnoreItemReview, TaskReview
  <1>4. ASSUME NEW a \in Agents,
               RememberApproved(a) \/ WriteVerdict(a) \/ ReadFacts(a) \/ ProposeFact(a)
               \/ Abandon(a)
        PROVE  ReviewInv'
    BY <1>4, RememberApprovedReview, WriteVerdictReview, ReadFactsReview, ProposeFactReview,
       AbandonReview
  <1>5. ASSUME NEW a \in Agents, NothingNew(a) \/ SaveTask(a)
        PROVE  ReviewInv'
    <2>1. /\ End(a) /\ proc[a].pc \notin {"approving", "reviewing"}
          /\ UNCHANGED <<proposals, vault, contested, called>>
      BY <1>5 DEF NothingNew, SaveTask, tables, ghosts
    <2>2. QED
      BY <2>1, EndReview
  <1>6. (UNCHANGED vars \/ AddFact) => UNCHANGED <<proposals, vault, contested, called, proc>>
    BY DEF vars, tables, ghosts, AddFact
  <1>7. QED
    BY <1>1, <1>2, <1>3, <1>4, <1>5, <1>6 DEF Next

LEMMA Reviews == Spec => [](IInv /\ ReviewInv)
  <1>1. QED
    BY InitInv, NextInv, InitReview, NextReview, PTL DEF Spec

\* approve remembers the memory before its verdict, and rows and memories share
\* no id: a proposal names a stored memory exactly if it was approved, and one
\* that was reviewed by one at a time is decided as its reviewer decided.
THEOREM ApprovalsAreKept == Spec => []ApprovalsAreFinal
  <1>1. ASSUME ReviewInv
        PROVE  ApprovalsAreFinal
    <2>1. ASSUME NEW p \in DOMAIN proposals
          PROVE  /\ proposals[p].status = "approved"
                      <=> proposals[p].memory_id = proposals[p].mem /\ proposals[p].mem \in Stored
                 /\ (p \notin contested /\ ~Reviewing(p)) =>
                       IF proposals[p].mem \in Stored
                       THEN /\ proposals[p].status = "approved"
                            /\ vault[proposals[p].mem] = proposals[p].reviewer
                       ELSE proposals[p].status # "approved"
      <3>1. DecidedAt(p) /\ proposals[p] \in ProposalRow
        BY <1>1 DEF ReviewInv, Books
      <3>2. proposals[p].mem # None
        BY <3>1, TasksAssumption DEF ProposalRow
      <3>3. QED
        BY <3>1, <3>2 DEF DecidedAt
    <2>2. QED
      BY <2>1 DEF ApprovalsAreFinal
  <1>2. QED
    BY <1>1, Reviews, PTL

-----------------------------------------------------------------------------
(* Captures.  Memories, proposals and relations are only added, so what a  *)
(* capture has stored, proposed or related stays until it is answered.     *)

Made(props) == {props[q].mem : q \in DOMAIN props}

\* Item j of capture c is where it belongs.
Filed(n, c, j, props, stored) ==
    c.items[j] # "ephemeral" =>
        Memory(n, j, c.items[j]) \in IF c.mode = "propose" THEN Made(props) ELSE stored

Relations(n, c) == AutoRelations(CapturedBy(n, c)) \cup Given(n, c)

Whole(n, c, props, stored, affirmed) ==
    /\ \A j \in DOMAIN c.items : Filed(n, c, j, props, stored)
    /\ Relations(n, c) \subseteq affirmed
    /\ c.relation = "good" => Carriers(n, c) # {}

\* A capture whose items are stored or proposed.
Relating(p) == \/ p.pc \in {"relating", "asserting"}
               \/ p.pc \in {"reading", "saving"} /\ p.ask # None

\* How far the capture of a process has come.
Progress(p, props, stored, edges, affirmed) ==
    /\ p.pc = "capturing" =>
          \A j \in DOMAIN p.ask.items : j < p.next => Filed(p.call, p.ask, j, props, stored)
    /\ Relating(p) =>
          /\ \A j \in DOMAIN p.ask.items : Filed(p.call, p.ask, j, props, stored)
          /\ p.ask.relation = "good" => Carriers(p.call, p.ask) # {}
          /\ \A r \in Relations(p.call, p.ask) :
                r \in affirmed \cup p.todo \/ (p.pc = "asserting" /\ r = p.edge)
          /\ \A r \in p.todo : Grounded(r, stored)
    /\ p.pc = "asserting" => p.edge \in edges
    /\ p.pc \in {"reading", "saving"} /\ p.ask # None => p.todo = {}

CaptureInv ==
    /\ knowledge \subseteq graph
    /\ \A r \in graph : Grounded(r, Stored)
    /\ \A a \in Agents : Progress(proc[a], proposals, Stored, graph, knowledge)
    /\ \A x \in answered : x.ask \in Captures /\ Whole(x.call, x.ask, proposals, Stored, knowledge)

LEMMA GroundedStays ==
    ASSUME NEW r, NEW stored, NEW stored2, stored \subseteq stored2, Grounded(r, stored)
    PROVE  Grounded(r, stored2)
  BY DEF Grounded

\* The relations of a capture are between its memories, or their carrier is one
\* of them, or is named by the caller.
LEMMA RelationsGrounded ==
    ASSUME NEW n, NEW c \in Captures, NEW stored, CapturedBy(n, c) \subseteq stored,
           NEW r \in Relations(n, c)
    PROVE  Grounded(r, stored)
  <1>1. CASE r \in AutoRelations(CapturedBy(n, c))
    <2>1. PICK q \in CapturedBy(n, c) \X CapturedBy(n, c) :
              r = Edge(q[1].call, q[1], {q[1]}, {q[2]})
      BY <1>1 DEF AutoRelations
    <2>2. r.by = q[1] /\ r.subject = {q[1]} /\ r.object = {q[2]}
      BY <2>1 DEF Edge
    <2>3. QED
      BY <2>2 DEF Grounded
  <1>2. CASE c.relation = "good" /\ r \in GivenRelation(n, c)
    <2>1. PICK m \in Carriers(n, c) : r = Edge(n, m, {}, {})
      BY <1>2 DEF GivenRelation
    <2>2. r.by = m /\ r.subject = {} /\ r.object = {}
      BY <2>1 DEF Edge
    <2>3. m = c.memory_id \/ m \in CapturedBy(n, c)
      BY <2>1 DEF Carriers, Referred
    <2>4. QED
      BY <1>2, <2>2, <2>3 DEF Grounded
  <1>3. QED
    BY <1>1, <1>2 DEF Relations, Given

\* The memories of a capture are its filed items.
LEMMA FiledCaptured ==
    ASSUME NEW n, NEW c \in Captures, NEW props, NEW stored,
           \A j \in DOMAIN c.items : Filed(n, c, j, props, stored)
    PROVE  CapturedBy(n, c) \subseteq stored
  BY TasksAssumption DEF CapturedBy, Filed, Capture

LEMMA FiledStays ==
    ASSUME NEW n, NEW c, NEW j, NEW props, NEW stored, NEW props2, NEW stored2,
           Made(props) \subseteq Made(props2), stored \subseteq stored2,
           Filed(n, c, j, props, stored)
    PROVE  Filed(n, c, j, props2, stored2)
  BY DEF Filed

LEMMA ProgressStays ==
    ASSUME NEW p, NEW props, NEW stored, NEW edges, NEW affirmed,
           NEW props2, NEW stored2, NEW edges2, NEW affirmed2,
           Made(props) \subseteq Made(props2), stored \subseteq stored2,
           edges \subseteq edges2, affirmed \subseteq affirmed2,
           Progress(p, props, stored, edges, affirmed)
    PROVE  Progress(p, props2, stored2, edges2, affirmed2)
  <1>1. \A j : Filed(p.call, p.ask, j, props, stored) => Filed(p.call, p.ask, j, props2, stored2)
    BY FiledStays
  <1>2. ASSUME p.pc = "capturing", NEW j \in DOMAIN p.ask.items, j < p.next
        PROVE  Filed(p.call, p.ask, j, props2, stored2)
    BY <1>1, <1>2 DEF Progress
  <1>3. ASSUME Relating(p)
        PROVE  /\ \A j \in DOMAIN p.ask.items : Filed(p.call, p.ask, j, props2, stored2)
               /\ p.ask.relation = "good" => Carriers(p.call, p.ask) # {}
               /\ \A r \in Relations(p.call, p.ask) :
                     r \in affirmed2 \cup p.todo \/ (p.pc = "asserting" /\ r = p.edge)
               /\ \A r \in p.todo : Grounded(r, stored2)
    BY <1>1, <1>3, GroundedStays DEF Progress
  <1>4. QED
    BY <1>2, <1>3 DEF Progress

LEMMA WholeStays ==
    ASSUME NEW n, NEW c, NEW props, NEW stored, NEW affirmed,
           NEW props2, NEW stored2, NEW affirmed2,
           Made(props) \subseteq Made(props2), stored \subseteq stored2,
           affirmed \subseteq affirmed2, Whole(n, c, props, stored, affirmed)
    PROVE  Whole(n, c, props2, stored2, affirmed2)
  <1>1. \A j : Filed(n, c, j, props, stored) => Filed(n, c, j, props2, stored2)
    BY FiledStays
  <1>2. QED
    BY <1>1 DEF Whole

\* A step of one process, which only adds to the tables.
LEMMA CaptureStep ==
    ASSUME IInv, CaptureInv, NEW a \in Agents, NEW p, proc' = [proc EXCEPT ![a] = p],
           Made(proposals) \subseteq Made(proposals'), Stored \subseteq Stored',
           graph \subseteq graph', knowledge \subseteq knowledge',
           knowledge' \subseteq graph', \A r \in graph' \ graph : Grounded(r, Stored'),
           Progress(p, proposals', Stored', graph', knowledge'),
           \A x \in answered' \ answered :
               x.ask \in Captures /\ Whole(x.call, x.ask, proposals', Stored', knowledge')
    PROVE  CaptureInv'
  <1>1. \A b \in Agents : proc'[b] = IF b = a THEN p ELSE proc[b]
    BY DEF IInv, Types
  <1>2. ASSUME NEW b \in Agents
        PROVE  Progress(proc'[b], proposals', Stored', graph', knowledge')
    <2>1. Progress(proc[b], proposals, Stored, graph, knowledge)
      BY DEF CaptureInv
    <2>2. Progress(proc[b], proposals', Stored', graph', knowledge')
      BY <2>1, ProgressStays
    <2>3. QED
      BY <1>1, <2>2
  <1>3. ASSUME NEW x \in answered'
        PROVE  x.ask \in Captures /\ Whole(x.call, x.ask, proposals', Stored', knowledge')
    <2>1. x \in answered => x.ask \in Captures /\ Whole(x.call, x.ask, proposals, Stored, knowledge)
      BY DEF CaptureInv
    <2>2. x \in answered => Whole(x.call, x.ask, proposals', Stored', knowledge')
      BY <2>1, WholeStays
    <2>3. QED
      BY <2>1, <2>2
  <1>4. ASSUME NEW r \in graph'
        PROVE  Grounded(r, Stored')
    <2>1. r \in graph => Grounded(r, Stored)
      BY DEF CaptureInv
    <2>2. r \in graph => Grounded(r, Stored')
      BY <2>1, GroundedStays
    <2>3. QED
      BY <2>2
  <1>5. QED
    BY <1>2, <1>3, <1>4 DEF CaptureInv

\* A step that changes no table of captures.
LEMMA QuietCapture ==
    ASSUME IInv, CaptureInv, NEW a \in Agents, NEW p, proc' = [proc EXCEPT ![a] = p],
           UNCHANGED <<proposals, vault, graph, knowledge, answered>>,
           Progress(p, proposals, Stored, graph, knowledge)
    PROVE  CaptureInv'
  <1>1. Stored' = Stored /\ Made(proposals') = Made(proposals)
    BY DEF Stored, Made
  <1>2. Progress(p, proposals', Stored', graph', knowledge')
    BY <1>1
  <1>3. QED
    BY <1>1, <1>2, CaptureStep DEF CaptureInv

LEMMA NoCapture ==
    ASSUME NEW p, p.pc \notin {"capturing", "relating", "asserting"},
           p.pc \in {"reading", "saving"} => p.ask = None,
           NEW props, NEW stored, NEW edges, NEW affirmed
    PROVE  Progress(p, props, stored, edges, affirmed)
  BY DEF Progress, Relating

LEMMA EndCapture ==
    ASSUME IInv, CaptureInv, NEW a \in Agents, End(a),
           UNCHANGED <<proposals, vault, graph, knowledge, answered>>
    PROVE  CaptureInv'
  <1>1. Progress(Idle, proposals, Stored, graph, knowledge)
    BY IdleIsProcess, NoCapture
  <1>2. QED
    BY <1>1, QuietCapture DEF End

\* A call begins: nothing of it is stored, proposed or related yet.
LEMMA BeginCapture ==
    ASSUME IInv, CaptureInv, NEW a \in Agents, NEW p, Shape(p), Begin(a, p),
           UNCHANGED <<proposals, vault, graph, knowledge, answered>>,
           \/ p.pc \in {"approving", "reviewing", "extracting"}
           \/ p.pc = "reading" /\ p.ask = None
           \/ p.pc = "capturing" /\ p.ask \in Captures /\ p.next = 1
    PROVE  CaptureInv'
  <1> DEFINE q == [p EXCEPT !.call = called + 1]
  <1>1. PICK T : p \in Of(T) /\ called + 1 \in T
    BY Wider
  <1>2. q.pc = p.pc /\ q.ask = p.ask /\ q.next = p.next
    BY <1>1 DEF Of
  <1>3. proc' = [proc EXCEPT ![a] = q]
    BY DEF Begin
  <1> HIDE DEF q
  <1>4. CASE p.pc # "capturing"
    BY <1>2, <1>3, <1>4, NoCapture, QuietCapture
  <1>5. CASE p.pc = "capturing"
    <2>1. p.ask.items \in Seq(Roles)
      BY <1>5, TasksAssumption DEF Capture
    <2>2. \A j \in DOMAIN q.ask.items : ~(j < q.next)
      BY <1>2, <1>5, <2>1
    <2>3. Progress(q, proposals, Stored, graph, knowledge)
      BY <1>2, <1>5, <2>2 DEF Progress, Relating
    <2>4. QED
      BY <1>3, <2>3, QuietCapture
  <1>6. QED
    BY <1>4, <1>5

LEMMA BeginsCapture ==
    ASSUME IInv, CaptureInv, NEW a \in Agents
    PROVE  /\ \A p \in Patches : Update(a, p) => CaptureInv'
           /\ \A c \in Captures : CaptureAll(a, c) => CaptureInv'
           /\ \A p \in DOMAIN proposals, v \in {"approved", "rejected"} :
                 StartReview(a, p, v) => CaptureInv'
           /\ Consolidate(a) => CaptureInv'
  <1>1. ASSUME NEW p \in Patches, Update(a, p)
        PROVE  CaptureInv'
    <2> DEFINE q == [fields |-> [f \in p.sets |-> From(called + 1)], seq |-> p.seq]
               r == [Idle EXCEPT !.pc = "reading", !.patch = q]
    <2>1. Begin(a, r) /\ UNCHANGED <<proposals, vault, graph, knowledge, answered>>
      BY <1>1 DEF Update, tables, ghosts
    <2> HIDE DEF q
    <2>2. PICK T : Idle \in Of(T) /\ "reading" \in T /\ q \in T
      BY Wider, IdleIsProcess
    <2>3. r \in Of(T) /\ r.pc = "reading" /\ r.ask = None
      BY <2>2 DEF Of, Idle
    <2> HIDE DEF r
    <2>4. QED
      BY <2>1, <2>3, BeginCapture DEF Shape
  <1>2. ASSUME NEW c \in Captures, CaptureAll(a, c)
        PROVE  CaptureInv'
    <2> DEFINE r == [Idle EXCEPT !.pc = "capturing", !.ask = c]
    <2>1. Begin(a, r) /\ UNCHANGED <<proposals, vault, graph, knowledge, answered>>
      BY <1>2 DEF CaptureAll, tables, ghosts
    <2>2. PICK T : Idle \in Of(T) /\ "capturing" \in T /\ c \in T
      BY Wider, IdleIsProcess
    <2>3. r \in Of(T) /\ r.pc = "capturing" /\ r.ask = c /\ r.next = 1
      BY <2>2 DEF Of, Idle
    <2> HIDE DEF r
    <2>4. QED
      BY <2>1, <2>3, BeginCapture DEF Shape
  <1>3. ASSUME NEW p \in DOMAIN proposals, NEW v \in {"approved", "rejected"},
               StartReview(a, p, v)
        PROVE  CaptureInv'
    <2> DEFINE r == [Idle EXCEPT !.pc = IF v = "approved" THEN "approving" ELSE "reviewing",
                                 !.prop = p, !.verdict = v]
    <2>1. Begin(a, r) /\ UNCHANGED <<proposals, vault, graph, knowledge, answered>>
      BY <1>3 DEF StartReview, tables
    <2>2. PICK T : Idle \in Of(T)
                   /\ (IF v = "approved" THEN "approving" ELSE "reviewing") \in T
                   /\ p \in T /\ v \in T
      BY Wider, IdleIsProcess
    <2>3. r \in Of(T) /\ r.pc \in {"approving", "reviewing"}
      BY <2>2 DEF Of
    <2> HIDE DEF r
    <2>4. QED
      BY <2>1, <2>3, BeginCapture DEF Shape
  <1>4. ASSUME Consolidate(a)
        PROVE  CaptureInv'
    <2> DEFINE todo == {m \in Stored : m.role = "note"}
               r == [Idle EXCEPT !.pc = "extracting", !.todo = todo]
    <2>1. Begin(a, r) /\ UNCHANGED <<proposals, vault, graph, knowledge, answered>>
      BY <1>4 DEF Consolidate, tables, ghosts
    <2> HIDE DEF todo
    <2>2. PICK T : Idle \in Of(T) /\ "extracting" \in T /\ todo \in T
      BY Wider, IdleIsProcess
    <2>3. r \in Of(T) /\ r.pc = "extracting"
      BY <2>2 DEF Of
    <2> HIDE DEF r
    <2>4. QED
      BY <2>1, <2>3, BeginCapture DEF Shape
  <1>5. QED
    BY <1>1, <1>2, <1>3, <1>4

\* What a capturing process has, and what its item is.
LEMMA CapturingFacts ==
    ASSUME IInv, ReviewInv, CaptureInv, NEW a \in Agents, proc[a].pc = "capturing"
    PROVE  /\ Shape(proc[a]) /\ proc[a].ask \in Captures /\ proc[a].next \in Nat \ {0}
           /\ proc[a].ask.items \in Seq(Roles)
           /\ proc[a].ask.mode \in {"remember", "propose"}
           /\ \A j \in DOMAIN proc[a].ask.items : j < proc[a].next =>
                 Filed(proc[a].call, proc[a].ask, j, proposals, Stored)
  <1>1. /\ Shape(proc[a]) /\ proc[a].ask \in Captures /\ proc[a].next \in Nat \ {0}
    BY WhereItStands DEF Standing
  <1>2. proc[a].ask \in Capture
    BY <1>1, TasksAssumption
  <1>3. QED
    BY <1>1, <1>2 DEF Capture, CaptureInv, Progress

\* The next item of a capture: stored, proposed or ignored.
LEMMA ItemCapture ==
    ASSUME IInv, ReviewInv, CaptureInv, NEW a \in Agents,
           StoreItem(a) \/ ProposeItem(a) \/ IgnoreItem(a)
    PROVE  CaptureInv'
  <1> DEFINE p == proc[a]
             c == p.ask
             q == [p EXCEPT !.next = p.next + 1]
  <1>1. /\ p.pc = "capturing" /\ proc' = [proc EXCEPT ![a] = q]
        /\ UNCHANGED <<graph, knowledge, answered>>
    BY DEF StoreItem, ProposeItem, IgnoreItem, Capturing, tables, ghosts
  <1>2. /\ Shape(p) /\ c \in Captures /\ p.next \in Nat \ {0} /\ c.items \in Seq(Roles)
        /\ \A j \in DOMAIN c.items : j < p.next => Filed(p.call, c, j, proposals, Stored)
    BY <1>1, CapturingFacts
  <1>3. PICK T : p \in Of(T) /\ p.next + 1 \in T
    BY <1>2, Wider
  <1>4. q.pc = p.pc /\ q.call = p.call /\ q.ask = c /\ q.next = p.next + 1
    BY <1>3 DEF Of
  <1>5. /\ Stored \subseteq Stored' /\ Made(proposals) \subseteq Made(proposals')
        /\ Filed(p.call, c, p.next, proposals', Stored')
    <2>1. CASE StoreItem(a)
      <3>1. /\ vault' = Remembered(ItemMemory(a), None) /\ proposals' = proposals
            /\ c.mode = "remember"
        BY <2>1 DEF StoreItem
      <3>2. Stored' = Stored \cup {ItemMemory(a)}
        BY <3>1 DEF Stored, Remembered
      <3>3. QED
        BY <3>1, <3>2 DEF Filed, ItemMemory, Item
    <2>2. CASE ProposeItem(a)
      <3>1. /\ proposals' = Append(proposals, Proposal(ItemMemory(a), None)) /\ vault' = vault
            /\ c.mode = "propose" /\ proposals \in Seq(ProposalRow)
        BY <2>2 DEF ProposeItem, ReviewInv, Books
      <3>2. /\ DOMAIN proposals' = DOMAIN proposals \cup {Len(proposals) + 1}
            /\ \A s \in DOMAIN proposals : proposals'[s] = proposals[s]
            /\ proposals'[Len(proposals) + 1] = Proposal(ItemMemory(a), None)
        BY <3>1
      <3>3. Proposal(ItemMemory(a), None).mem = ItemMemory(a)
        BY DEF Proposal
      <3>4. Made(proposals) \subseteq Made(proposals') /\ ItemMemory(a) \in Made(proposals')
        BY <3>2, <3>3 DEF Made
      <3>5. QED
        BY <3>1, <3>4 DEF Filed, ItemMemory, Item, Stored
    <2>3. CASE IgnoreItem(a)
      BY <2>3 DEF IgnoreItem, Item, Filed, Stored, Made, tables
    <2>4. QED
      BY <2>1, <2>2, <2>3
  <1> HIDE DEF q
  <1>6. Progress(q, proposals', Stored', graph', knowledge')
    <2>1. ASSUME NEW j \in DOMAIN c.items, j < p.next + 1
          PROVE  Filed(p.call, c, j, proposals', Stored')
      <3>1. j \in Nat /\ (j < p.next \/ j = p.next)
        BY <1>2, <2>1
      <3>2. j < p.next => Filed(p.call, c, j, proposals', Stored')
        BY <1>2, <1>5, FiledStays
      <3>3. QED
        BY <1>5, <3>1, <3>2
    <2>2. QED
      BY <1>1, <1>4, <2>1 DEF Progress, Relating
  <1>7. graph \subseteq graph' /\ knowledge \subseteq knowledge' /\ knowledge' \subseteq graph'
        /\ graph' \ graph = {} /\ answered' \ answered = {}
    BY <1>1 DEF CaptureInv
  <1>8. QED
    BY <1>1, <1>5, <1>6, <1>7, CaptureStep

\* The relations of a capture that is not refused are still to be made, and
\* grounded in the memories it has stored.
LEMMA ItemsDoneCapture ==
    ASSUME IInv, ReviewInv, CaptureInv, NEW a \in Agents, ItemsDone(a)
    PROVE  CaptureInv'
  <1> DEFINE p == proc[a]
             c == p.ask
             q == [p EXCEPT !.pc = "relating", !.todo = ToRelate(a)]
  <1>1. /\ p.pc = "capturing" /\ p.next > Len(c.items)
        /\ proc' = [proc EXCEPT ![a] = IF Refused(a) THEN Idle ELSE q]
        /\ UNCHANGED <<proposals, vault, graph, knowledge, answered>>
    BY DEF ItemsDone, tables, ghosts
  <1>2. /\ Shape(p) /\ c \in Captures /\ p.next \in Nat \ {0} /\ c.items \in Seq(Roles)
        /\ \A j \in DOMAIN c.items : j < p.next => Filed(p.call, c, j, proposals, Stored)
    BY <1>1, CapturingFacts
  <1>3. \A j \in DOMAIN c.items : Filed(p.call, c, j, proposals, Stored)
    BY <1>1, <1>2
  <1>4. ToRelate(a) = Relations(p.call, c)
    BY DEF ToRelate, Relations, Captured
  <1>5. PICK T : p \in Of(T) /\ "relating" \in T /\ ToRelate(a) \in T
    BY <1>2, Wider
  <1>6. q.pc = "relating" /\ q.call = p.call /\ q.ask = c /\ q.todo = Relations(p.call, c)
    BY <1>4, <1>5 DEF Of
  <1>7. CapturedBy(p.call, c) \subseteq Stored
    BY <1>2, <1>3, FiledCaptured
  <1>8. \A r \in Relations(p.call, c) : Grounded(r, Stored)
    BY <1>2, <1>7, RelationsGrounded
  <1>9. ~Refused(a) => (c.relation = "good" => Carriers(p.call, c) # {})
    BY DEF Refused
  <1> HIDE DEF p, q
  <1>10. CASE Refused(a)
    BY <1>1, <1>10, EndCapture DEF End
  <1>11. CASE ~Refused(a)
    <2>1. Progress(q, proposals, Stored, graph, knowledge)
      BY <1>3, <1>6, <1>8, <1>9, <1>11 DEF Progress, Relating
    <2>2. QED
      BY <1>1, <1>11, <2>1, QuietCapture
  <1>12. QED
    BY <1>10, <1>11

LEMMA RelateCapture ==
    ASSUME IInv, ReviewInv, CaptureInv, NEW a \in Agents, Relate(a)
    PROVE  CaptureInv'
  <1> DEFINE p == proc[a]
  <1>1. PICK r \in p.todo :
            /\ graph' = graph \cup {r}
            /\ proc' = [proc EXCEPT ![a].pc = "asserting", ![a].todo = @ \ {r}, ![a].edge = r]
    BY DEF Relate
  <1> DEFINE q == [p EXCEPT !.pc = "asserting", !.todo = p.todo \ {r}, !.edge = r]
  <1>2. /\ p.pc = "relating" /\ Shape(p) /\ proc' = [proc EXCEPT ![a] = q]
        /\ UNCHANGED <<proposals, vault, knowledge, answered>>
    <2>1. p.pc = "relating" /\ UNCHANGED <<proposals, vault, knowledge, answered>>
      BY DEF Relate, ghosts
    <2>2. Shape(p)
      BY WhereItStands
    <2>3. proc' = [proc EXCEPT ![a] = q]
      BY <1>1
    <2>4. QED
      BY <2>1, <2>2, <2>3
  <1>3. PICK T : p \in Of(T) /\ "asserting" \in T /\ p.todo \ {r} \in T /\ r \in T
    BY <1>2, Wider
  <1>4. /\ q.pc = "asserting" /\ q.call = p.call /\ q.ask = p.ask
        /\ q.todo = p.todo \ {r} /\ q.edge = r
    BY <1>3 DEF Of
  <1> HIDE DEF q
  <1>5. Stored' = Stored /\ Made(proposals') = Made(proposals)
    BY <1>2 DEF Stored, Made
  <1>6. Progress(p, proposals, Stored, graph, knowledge) /\ Relating(p)
    BY <1>2 DEF CaptureInv, Relating
  <1> HIDE DEF p
  <1>7. Progress(q, proposals', Stored', graph', knowledge')
    <2>1. \A s \in Relations(q.call, q.ask) :
             s \in knowledge' \cup q.todo \/ (q.pc = "asserting" /\ s = q.edge)
      BY <1>2, <1>4, <1>6 DEF Progress
    <2>2. \A j \in DOMAIN q.ask.items : Filed(q.call, q.ask, j, proposals', Stored')
      BY <1>2, <1>4, <1>5, <1>6 DEF Progress
    <2>3. QED
      BY <1>1, <1>4, <1>5, <1>6, <2>1, <2>2 DEF Progress, Relating
  <1>8. \A s \in graph' \ graph : Grounded(s, Stored')
    BY <1>1, <1>5, <1>6 DEF Progress
  <1>9. graph \subseteq graph' /\ knowledge' \subseteq graph' /\ answered' \ answered = {}
        /\ knowledge \subseteq knowledge' /\ Stored \subseteq Stored'
        /\ Made(proposals) \subseteq Made(proposals')
    BY <1>1, <1>2, <1>5 DEF CaptureInv
  <1>10. QED
    BY <1>2, <1>7, <1>8, <1>9, CaptureStep

LEMMA AffirmCapture ==
    ASSUME IInv, ReviewInv, CaptureInv, NEW a \in Agents, Affirm(a)
    PROVE  CaptureInv'
  <1> DEFINE p == proc[a]
             q == [p EXCEPT !.pc = "relating"]
  <1>1. /\ p.pc = "asserting" /\ Shape(p) /\ proc' = [proc EXCEPT ![a] = q]
        /\ knowledge' = knowledge \cup {p.edge}
        /\ UNCHANGED <<proposals, vault, graph, answered>>
    BY WhereItStands DEF Affirm, To, ghosts
  <1>2. PICK T : p \in Of(T) /\ "relating" \in T
    BY <1>1, Wider
  <1>3. /\ q.pc = "relating" /\ q.call = p.call /\ q.ask = p.ask /\ q.todo = p.todo
    BY <1>2 DEF Of
  <1> HIDE DEF q
  <1>4. Stored' = Stored /\ Made(proposals') = Made(proposals)
    BY <1>1 DEF Stored, Made
  <1>5. Progress(p, proposals, Stored, graph, knowledge) /\ Relating(p)
    BY <1>1 DEF CaptureInv, Relating
  <1> HIDE DEF p
  <1>6. Progress(q, proposals', Stored', graph', knowledge')
    <2>1. \A s \in Relations(q.call, q.ask) : s \in knowledge' \cup q.todo
      BY <1>1, <1>3, <1>5 DEF Progress
    <2>2. \A j \in DOMAIN q.ask.items : Filed(q.call, q.ask, j, proposals', Stored')
      BY <1>1, <1>3, <1>4, <1>5 DEF Progress
    <2>3. QED
      BY <1>3, <1>4, <1>5, <2>1, <2>2 DEF Progress, Relating
  <1>7. knowledge' \subseteq graph'
    BY <1>1, <1>5 DEF Progress, CaptureInv
  <1>8. graph \subseteq graph' /\ answered' \ answered = {} /\ graph' \ graph = {}
        /\ knowledge \subseteq knowledge' /\ Stored \subseteq Stored'
        /\ Made(proposals) \subseteq Made(proposals')
    BY <1>1, <1>4
  <1>9. QED
    BY <1>1, <1>6, <1>7, <1>8, CaptureStep

\* A capture that ends with no relation left has all of them.
LEMMA AnswerCapture ==
    ASSUME IInv, CaptureInv, NEW a \in Agents, End(a), Relating(proc[a]),
           proc[a].pc # "asserting", proc[a].todo = {}, proc[a].ask \in Captures,
           UNCHANGED <<proposals, vault, graph, knowledge>>,
           answered' = answered \cup {[call |-> proc[a].call, ask |-> proc[a].ask]}
    PROVE  CaptureInv'
  <1> DEFINE p == proc[a]
             x == [call |-> p.call, ask |-> p.ask]
  <1>1. Stored' = Stored /\ Made(proposals') = Made(proposals) /\ proposals' = proposals
        /\ knowledge' = knowledge /\ graph' = graph
    BY DEF Stored, Made
  <1>2. Progress(p, proposals, Stored, graph, knowledge)
    BY DEF CaptureInv
  <1>3. Relating(p) /\ p.pc # "asserting" /\ p.todo = {}
    OBVIOUS
  <1>4. Whole(p.call, p.ask, proposals', Stored', knowledge')
    BY <1>1, <1>2, <1>3 DEF Progress, Whole
  <1>5. \A y \in answered' \ answered :
           y.ask \in Captures /\ Whole(y.call, y.ask, proposals', Stored', knowledge')
    <2>1. x.call = p.call /\ x.ask = p.ask
      OBVIOUS
    <2>2. \A y \in answered' \ answered : y = x
      OBVIOUS
    <2>3. QED
      BY <1>4, <2>1, <2>2
  <1>6. Progress(Idle, proposals', Stored', graph', knowledge')
    BY IdleIsProcess, NoCapture
  <1>7. knowledge' \subseteq graph' /\ graph' \ graph = {} /\ proc' = [proc EXCEPT ![a] = Idle]
    BY <1>1 DEF CaptureInv, End
  <1>8. QED
    BY <1>1, <1>5, <1>6, <1>7, CaptureStep

LEMMA TaskCapture ==
    ASSUME IInv, ReviewInv, CaptureInv, NEW a \in Agents
    PROVE  /\ SyncTask(a) => CaptureInv'
           /\ ReadTask(a) => CaptureInv'
           /\ SaveTask(a) => CaptureInv'
  <1> DEFINE p == proc[a]
  <1>1. /\ Shape(p) /\ Progress(p, proposals, Stored, graph, knowledge)
        /\ p.ask \in Captures \cup {None}
        /\ p.pc \in {"capturing", "relating", "asserting"} => p.ask # None
    BY WhereItStands DEF CaptureInv
  <1>2. ASSUME SyncTask(a)
        PROVE  CaptureInv'
    <2> DEFINE syncs == p.ask.task /\ Seen(p.ask)
               patch == CapturePatch(p.call, p.ask)
               q == [p EXCEPT !.pc = "reading", !.patch = patch]
    <2>1. /\ p.pc = "relating" /\ p.todo = {} /\ UNCHANGED <<proposals, vault, graph, knowledge>>
          /\ proc' = [proc EXCEPT ![a] = IF syncs THEN q ELSE Idle]
          /\ answered' = IF syncs THEN answered
                         ELSE answered \cup {[call |-> p.call, ask |-> p.ask]}
      BY <1>2 DEF SyncTask, tables
    <2>2. PICK T : p \in Of(T) /\ "reading" \in T /\ patch \in T
      BY <1>1, Wider
    <2>3. q.pc = "reading" /\ q.call = p.call /\ q.ask = p.ask /\ q.todo = p.todo
      BY <2>2 DEF Of
    <2> HIDE DEF q, syncs
    <2>4. CASE syncs
      <3>1. Progress(q, proposals, Stored, graph, knowledge)
        BY <1>1, <2>1, <2>3 DEF Progress, Relating
      <3>2. UNCHANGED <<proposals, vault, graph, knowledge, answered>>
        BY <2>1, <2>4
      <3>3. QED
        BY <2>1, <2>4, <3>1, <3>2, QuietCapture
    <2>5. CASE ~syncs
      <3>1. End(a) /\ Relating(p) /\ p.ask \in Captures
        BY <1>1, <2>1, <2>5 DEF End, Relating
      <3>2. QED
        BY <2>1, <2>5, <3>1, AnswerCapture
    <2>6. QED
      BY <2>4, <2>5
  <1>3. ASSUME ReadTask(a)
        PROVE  CaptureInv'
    <2> DEFINE q == [p EXCEPT !.pc = "saving", !.read = task]
    <2>1. /\ p.pc = "reading" /\ UNCHANGED <<proposals, vault, graph, knowledge, answered>>
          /\ proc' = [proc EXCEPT ![a] = IF Stale(p.patch, task) THEN Idle ELSE q]
      BY <1>3 DEF ReadTask, tables
    <2>2. PICK T : p \in Of(T) /\ "saving" \in T /\ task \in T
      BY <1>1, Wider
    <2>3. q.pc = "saving" /\ q.call = p.call /\ q.ask = p.ask /\ q.todo = p.todo
      BY <2>2 DEF Of
    <2> HIDE DEF p, q
    <2>4. CASE Stale(p.patch, task)
      BY <2>1, <2>4, EndCapture DEF End
    <2>5. CASE ~Stale(p.patch, task)
      <3>1. Progress(q, proposals, Stored, graph, knowledge)
        BY <1>1, <2>1, <2>3 DEF Progress, Relating
      <3>2. QED
        BY <2>1, <2>5, <3>1, QuietCapture
    <2>6. QED
      BY <2>4, <2>5
  <1>4. ASSUME SaveTask(a)
        PROVE  CaptureInv'
    <2>1. /\ p.pc = "saving" /\ UNCHANGED <<proposals, vault, graph, knowledge>> /\ End(a)
          /\ answered' = IF p.ask = None THEN answered
                         ELSE answered \cup {[call |-> p.call, ask |-> p.ask]}
      BY <1>4 DEF SaveTask
    <2>2. CASE p.ask = None
      <3>1. UNCHANGED <<proposals, vault, graph, knowledge, answered>>
        BY <2>1, <2>2
      <3>2. QED
        BY <2>1, <3>1, EndCapture
    <2>3. CASE p.ask # None
      <3>1. Relating(p) /\ p.ask \in Captures /\ p.todo = {}
        BY <1>1, <2>1, <2>3 DEF Relating, Progress
      <3>2. QED
        BY <2>1, <2>3, <3>1, AnswerCapture
    <2>4. QED
      BY <2>2, <2>3
  <1>5. QED
    BY <1>2, <1>3, <1>4

\* Reviews and consolidation runs add memories and proposals and drop none.
LEMMA OtherCapture ==
    ASSUME IInv, ReviewInv, CaptureInv, NEW a \in Agents
    PROVE  /\ RememberApproved(a) => CaptureInv'
           /\ WriteVerdict(a) => CaptureInv'
           /\ ReadFacts(a) => CaptureInv'
           /\ ProposeFact(a) => CaptureInv'
  <1> DEFINE p == proc[a]
  <1>1. Shape(p) /\ proposals \in Seq(ProposalRow) /\ Standing(p, proposals, Stored, called)
    BY WhereItStands DEF ReviewInv, Books
  <1>2. ASSUME NEW q, proc' = [proc EXCEPT ![a] = q],
               q.pc \in {"idle", "reviewing", "deriving"},
               UNCHANGED <<graph, knowledge, answered>>, Stored \subseteq Stored',
               Made(proposals) \subseteq Made(proposals')
        PROVE  CaptureInv'
    <2>1. /\ Progress(q, proposals', Stored', graph', knowledge')
          /\ graph' \ graph = {} /\ answered' \ answered = {}
          /\ graph \subseteq graph' /\ knowledge \subseteq knowledge' /\ knowledge' \subseteq graph'
      BY <1>2, NoCapture DEF CaptureInv
    <2>2. QED
      BY <1>2, <2>1, CaptureStep
  <1>3. ASSUME RememberApproved(a)
        PROVE  CaptureInv'
    <2> DEFINE q == [p EXCEPT !.pc = "reviewing"]
    <2>1. /\ proc' = [proc EXCEPT ![a] = q] /\ UNCHANGED <<graph, knowledge, answered>>
          /\ proposals' = proposals /\ vault' = Remembered(proposals[p.prop].mem, a)
      BY <1>3 DEF RememberApproved, To, ghosts
    <2>2. PICK T : p \in Of(T) /\ "reviewing" \in T
      BY <1>1, Wider
    <2>3. q.pc = "reviewing"
      BY <2>2 DEF Of
    <2>4. Stored \subseteq Stored' /\ Made(proposals) \subseteq Made(proposals')
      BY <2>1 DEF Stored, Remembered
    <2> HIDE DEF q
    <2>5. QED
      BY <1>2, <2>1, <2>3, <2>4
  <1>4. ASSUME WriteVerdict(a)
        PROVE  CaptureInv'
    <2> DEFINE row == proposals[p.prop]
               new == Verdict(row, p.verdict, a)
    <2>1. /\ proc' = [proc EXCEPT ![a] = Idle] /\ UNCHANGED <<graph, knowledge, answered>>
          /\ proposals' = [proposals EXCEPT ![p.prop] = new]
          /\ vault' = vault /\ p.prop \in DOMAIN proposals
      BY <1>1, <1>4 DEF WriteVerdict, End, ghosts, Standing
    <2>2. row \in ProposalRow
      BY <1>1, <2>1
    <2>3. new.mem = row.mem
      BY <2>2 DEF Verdict, ProposalRow
    <2>4. DOMAIN proposals' = DOMAIN proposals
          /\ \A s \in DOMAIN proposals : proposals'[s].mem = proposals[s].mem
      BY <2>1, <2>3
    <2>5. Stored \subseteq Stored' /\ Made(proposals) \subseteq Made(proposals')
      BY <2>1, <2>4 DEF Stored, Made
    <2>6. QED
      BY <1>2, <2>1, <2>5, IdleIsProcess
  <1>5. ASSUME ReadFacts(a)
        PROVE  CaptureInv'
    <2> DEFINE q == [p EXCEPT !.pc = "deriving", !.todo = p.todo \ ledger]
    <2>1. proc' = [proc EXCEPT ![a] = q]
          /\ UNCHANGED <<proposals, vault, graph, knowledge, answered>>
      BY <1>5 DEF ReadFacts, tables, ghosts
    <2>2. PICK T : p \in Of(T) /\ "deriving" \in T /\ p.todo \ ledger \in T
      BY <1>1, Wider
    <2>3. q.pc = "deriving"
      BY <2>2 DEF Of
    <2> HIDE DEF q
    <2>4. QED
      BY <1>2, <2>1, <2>3 DEF Stored
  <1>6. ASSUME ProposeFact(a)
        PROVE  CaptureInv'
    <2>1. PICK m \in p.todo :
              /\ proposals' = Append(proposals,
                     Proposal(Memory(p.call, Len(proposals) + 1, "fact"), m))
              /\ proc' = [proc EXCEPT ![a] = IF p.todo = {m} THEN Idle
                                             ELSE [p EXCEPT !.todo = p.todo \ {m}]]
      BY <1>6 DEF ProposeFact
    <2> DEFINE q == [p EXCEPT !.todo = p.todo \ {m}]
               r == IF p.todo = {m} THEN Idle ELSE q
    <2>2. PICK T : p \in Of(T) /\ p.todo \ {m} \in T
      BY <1>1, Wider
    <2>3. q.pc = p.pc /\ p.pc = "deriving"
      BY <1>6, <2>2 DEF Of, ProposeFact
    <2>4. \A s \in DOMAIN proposals : s \in DOMAIN proposals' /\ proposals'[s] = proposals[s]
      BY <1>1, <2>1
    <2>5. Stored \subseteq Stored' /\ Made(proposals) \subseteq Made(proposals')
          /\ UNCHANGED <<graph, knowledge, answered>>
      BY <1>6, <2>4 DEF ProposeFact, ghosts, Stored, Made
    <2>6. proc' = [proc EXCEPT ![a] = r] /\ r.pc \in {"idle", "deriving"}
      BY <2>1, <2>3, IdleIsProcess
    <2> HIDE DEF r
    <2>7. QED
      BY <1>2, <2>5, <2>6
  <1>7. QED
    BY <1>3, <1>4, <1>5, <1>6

LEMMA NextCapture == IInv /\ ReviewInv /\ CaptureInv /\ [Next]_vars => CaptureInv'
  <1> SUFFICES ASSUME IInv, ReviewInv, CaptureInv, [Next]_vars PROVE CaptureInv'
    OBVIOUS
  <1>1. CASE UNCHANGED <<proposals, vault, graph, knowledge, answered, proc>>
    BY <1>1 DEF CaptureInv, Stored
  <1>2. ASSUME NEW a \in Agents,
               \/ \E p \in Patches : Update(a, p)
               \/ \E c \in Captures : CaptureAll(a, c)
               \/ \E p \in DOMAIN proposals, v \in {"approved", "rejected"} :
                     StartReview(a, p, v)
               \/ Consolidate(a)
        PROVE  CaptureInv'
    BY <1>2, BeginsCapture
  <1>3. ASSUME NEW a \in Agents,
               StoreItem(a) \/ ProposeItem(a) \/ IgnoreItem(a) \/ ItemsDone(a)
               \/ Relate(a) \/ Affirm(a) \/ ReadTask(a) \/ SaveTask(a) \/ SyncTask(a)
        PROVE  CaptureInv'
    BY <1>3, ItemCapture, ItemsDoneCapture, RelateCapture, AffirmCapture, TaskCapture
  <1>4. ASSUME NEW a \in Agents,
               RememberApproved(a) \/ WriteVerdict(a) \/ ReadFacts(a) \/ ProposeFact(a)
        PROVE  CaptureInv'
    BY <1>4, OtherCapture
  <1>5. ASSUME NEW a \in Agents, NothingNew(a) \/ Abandon(a)
        PROVE  CaptureInv'
    <2>1. End(a) /\ UNCHANGED <<proposals, vault, graph, knowledge, answered>>
      BY <1>5 DEF NothingNew, Abandon, tables, ghosts
    <2>2. QED
      BY <2>1, EndCapture
  <1>6. (UNCHANGED vars \/ AddFact)
            => UNCHANGED <<proposals, vault, graph, knowledge, answered, proc>>
    BY DEF vars, tables, ghosts, AddFact
  <1>7. QED
    BY <1>1, <1>2, <1>3, <1>4, <1>5, <1>6 DEF Next

LEMMA InitCapture == Init => CaptureInv
  <1> SUFFICES ASSUME Init PROVE CaptureInv
    OBVIOUS
  <1>1. knowledge = {} /\ graph = {} /\ answered = {} /\ \A a \in Agents : proc[a] = Idle
    BY DEF Init
  <1>2. \A a \in Agents : Progress(proc[a], proposals, Stored, graph, knowledge)
    BY <1>1, IdleIsProcess, NoCapture
  <1>3. QED
    BY <1>1, <1>2 DEF CaptureInv

\* An answered capture has every item in the vault or in a proposal and every
\* relation in both graphs, whoever else captured, reviewed or died meanwhile;
\* no relation is of a memory outside the vault but one a caller named, and no
\* assertion is without its edge.
THEOREM CapturesAreKept == Spec => []CapturesAreWhole
  <1>1. ASSUME CaptureInv
        PROVE  CapturesAreWhole
    <2>1. ASSUME NEW x \in answered
          PROVE  /\ CapturedBy(x.call, x.ask) \subseteq Stored
                 /\ AutoRelations(CapturedBy(x.call, x.ask)) \subseteq knowledge
                 /\ x.ask.relation = "good" =>
                       /\ GivenRelation(x.call, x.ask) \subseteq knowledge
                       /\ Carriers(x.call, x.ask) # {}
                 /\ x.ask.mode = "propose" =>
                       \A i \in DOMAIN x.ask.items : x.ask.items[i] # "ephemeral" =>
                           \E p \in DOMAIN proposals :
                               proposals[p].mem = Memory(x.call, i, x.ask.items[i])
      <3>1. x.ask \in Captures /\ Whole(x.call, x.ask, proposals, Stored, knowledge)
        BY <1>1 DEF CaptureInv
      <3>2. CapturedBy(x.call, x.ask) \subseteq Stored
        BY <3>1, FiledCaptured DEF Whole
      <3>3. AutoRelations(CapturedBy(x.call, x.ask)) \subseteq knowledge
            /\ (x.ask.relation = "good" =>
                   /\ GivenRelation(x.call, x.ask) \subseteq knowledge
                   /\ Carriers(x.call, x.ask) # {})
        BY <3>1 DEF Whole, Relations, Given
      <3>4. ASSUME x.ask.mode = "propose", NEW i \in DOMAIN x.ask.items,
                   x.ask.items[i] # "ephemeral"
            PROVE  \E p \in DOMAIN proposals :
                       proposals[p].mem = Memory(x.call, i, x.ask.items[i])
        <4>1. Memory(x.call, i, x.ask.items[i]) \in Made(proposals)
          BY <3>1, <3>4 DEF Whole, Filed
        <4>2. QED
          BY <4>1 DEF Made
      <3>5. QED
        BY <3>2, <3>3, <3>4
    <2>2. QED
      BY <1>1, <2>1 DEF CaptureInv, CapturesAreWhole
  <1>2. QED
    BY <1>1, Reviews, InitCapture, NextCapture, PTL DEF Spec

=============================================================================
