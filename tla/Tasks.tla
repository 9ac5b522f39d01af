------------------------------- MODULE Tasks --------------------------------
(***************************************************************************)
(* What agents write through the facade of living_memoryv2 besides plain   *)
(* memories: the state of a task, proposals that a reviewer approves or    *)
(* rejects, the capture at the end of an interaction (memories or          *)
(* proposals, relations, the task's state) and the consolidation run that  *)
(* proposes extracted facts (task_state.py, agents.py, consolidation.py,   *)
(* mcp_server.py).                                                         *)
(*                                                                         *)
(* Server processes share the databases and every commit is a step; that   *)
(* vault.remember is several of them is the matter of Vault.  Nothing here *)
(* has a version or a lock: update reads, patches and replaces, a review   *)
(* reads the status and later overwrites it.                               *)
(***************************************************************************)
EXTENDS Integers, Sequences, FiniteSets

CONSTANTS
    Agents,       \* server processes
    Patches,      \* what callers of update ask for, see Patch
    Captures,     \* what callers of capture ask for, see Capture
    MaxCalls,     \* bound on the calls
    MaxCrashes,   \* bound on the processes that die
    None

Fields == {"objective", "completed", "checkpoint_id"}

\* A value of the task's state, by the call that gave it, or the default name
\* of a checkpoint, by its sequence.
Empty == <<"empty", 0>>
From(n) == <<"call", n>>
Default(s) == <<"ckpt", s>>

\* The fields a caller sets, and checkpoint_sequence if it gives one.
Patch == [sets : SUBSET Fields, seq : Nat \cup {None}]

Roles == {"note", "plan", "spec", "progress", "checkpoint", "ephemeral"}
Agentic == Roles \ {"note"}

\* What tells memories apart: the call that made one, its place there, its role.
MemoryIds == [call : Nat, at : Nat, role : Roles \cup {"fact"}]

\* The items by role, "ephemeral" for one that is empty or marked transient; one
\* relation of the caller's, or none, with the memory_id and the memory_ref it
\* names (0 for none, -1 for "last"); the task's id, or none.  A capture that also
\* brings task_state_update ends like an Update.
Capture == [items : Seq(Roles), mode : {"remember", "propose"},
            relation : {"none", "good", "malformed"},
            memory_id : MemoryIds \cup {None}, memory_ref : Int, task : BOOLEAN]

ASSUME TasksAssumption ==
    /\ Patches \subseteq Patch /\ Captures \subseteq Capture
    /\ MaxCalls \in Nat /\ MaxCrashes \in Nat
    /\ None \notin Nat \cup Agents \cup Captures \cup MemoryIds

VARIABLES
    task,         \* the row of the task in task_states
    vault,        \* memory |-> the reviewer in its provenance
    proposals,    \* the rows of proposals, in the order of their creation
    ledger,       \* memories whose fact the fact ledger has
    graph,        \* relations by graph.add_relation, see Edge
    knowledge,    \* relations by knowledge.add_assertion
    proc,         \* each process: what it was asked and what it has read
    called, crashes,
    answered,     \* ghost: captures that were answered, by call
    given,        \* ghost: the last value given to each field
    raced,        \* ghost: did one update read before another that had read saved?
    contested     \* ghost: proposals with two reviews at once, or an aborted one

tables == <<task, vault, proposals, ledger, graph, knowledge>>
ghosts == <<answered, given, raced, contested>>
vars == <<tables, proc, called, crashes, ghosts>>

NoTask == [seq |-> 0, fields |-> [f \in Fields |-> Empty]]
NoPatch == [fields |-> <<>>, seq |-> None]
Idle == [pc |-> "idle", call |-> 0, ask |-> None, next |-> 1, todo |-> {},
         edge |-> None, patch |-> NoPatch, read |-> NoTask, prop |-> 0,
         verdict |-> "none"]

Init == /\ task = NoTask /\ vault = <<>> /\ proposals = <<>> /\ ledger = {}
        /\ graph = {} /\ knowledge = {}
        /\ proc = [a \in Agents |-> Idle]
        /\ called = 0 /\ crashes = 0
        /\ answered = {} /\ given = NoTask.fields /\ raced = FALSE /\ contested = {}

Stored == DOMAIN vault
To(a, pc) == proc' = [proc EXCEPT ![a].pc = pc]
End(a) == proc' = [proc EXCEPT ![a] = Idle]

\* A process that serves nobody begins a call.
Begin(a, p) ==
    /\ proc[a].pc = "idle"
    /\ called < MaxCalls
    /\ called' = called + 1
    /\ proc' = [proc EXCEPT ![a] = [p EXCEPT !.call = called + 1]]
    /\ UNCHANGED crashes

Remembered(m, reviewer) == [n \in Stored \cup {m} |-> IF n = m THEN reviewer ELSE vault[n]]

-----------------------------------------------------------------------------
(* TaskStateStore.update.                                                  *)

Update(a, p) ==
    /\ Begin(a, [Idle EXCEPT !.pc = "reading",
                    !.patch = [fields |-> [f \in p.sets |-> From(called + 1)],
                               seq |-> p.seq]])
    /\ UNCHANGED <<tables, ghosts>>

\* Mutant: a stale checkpoint is taken.
NeverStale(p, row) == FALSE
\* A caller's checkpoint_sequence may not be behind the row's.
Stale(p, row) == p.seq # None /\ p.seq < row.seq

\* get: the state as it is now, or a new one.  A stale checkpoint raises.
ReadTask(a) ==
    /\ proc[a].pc = "reading"
    /\ proc' = [proc EXCEPT ![a] = IF Stale(@.patch, task) THEN Idle
                                   ELSE [@ EXCEPT !.pc = "saving", !.read = task]]
    /\ raced' = (raced \/ \E b \in Agents : proc[b].pc = "saving")
    /\ UNCHANGED <<tables, called, crashes, answered, given, contested>>

\* The fields of p, and those of q that p does not have.
Over(p, q) == [f \in DOMAIN p \cup DOMAIN q |-> IF f \in DOMAIN p THEN p[f] ELSE q[f]]

\* Mutant: what the patch does not name starts empty.
PatchedAnew(row, p) ==
    [seq |-> IF p.seq # None THEN p.seq ELSE row.seq + 1,
     fields |-> Over(p.fields, NoTask.fields)]
\* The fields the patch names, and a name for a checkpoint that has none.
Patched(row, p) ==
    LET seq == IF p.seq # None THEN p.seq ELSE row.seq + 1
        fields == Over(p.fields, row.fields)
    IN  [seq |-> seq,
         fields |-> IF fields["checkpoint_id"] = Empty
                    THEN [fields EXCEPT !["checkpoint_id"] = Default(seq)] ELSE fields]

\* _save: INSERT OR REPLACE of the whole state.
SaveTask(a) ==
    /\ proc[a].pc = "saving"
    /\ task' = Patched(proc[a].read, proc[a].patch)
    /\ given' = Over(proc[a].patch.fields, given)
    /\ answered' = IF proc[a].ask = None THEN answered
                   ELSE answered \cup {[call |-> proc[a].call, ask |-> proc[a].ask]}
    /\ End(a)
    /\ UNCHANGED <<vault, proposals, ledger, graph, knowledge, called, crashes, raced,
                   contested>>

-----------------------------------------------------------------------------
(* _living_memory_capture.                                                 *)

\* A memory's id comes from its content and its created_at, so no call makes a
\* memory of another, not even a retry.
Memory(n, at, role) == [call |-> n, at |-> at, role |-> role]

\* The memories of capture c with a call's number: in order, without those
\* _prepare_agentic_capture_item ignores.
CapturedBy(n, c) ==
    IF c.mode = "propose" THEN {}
    ELSE {Memory(n, i, c.items[i]) : i \in {j \in DOMAIN c.items : c.items[j] # "ephemeral"}}

Seen(c) == \E i \in DOMAIN c.items : c.items[i] \in Agentic

\* A relation of a call: the memory_id that carries it and the memories at its
\* ends, none where the caller gives a name of its own.
Edge(n, by, subject, object) == [call |-> n, by |-> by, subject |-> subject, object |-> object]

\* The auto relations: each subject with the first memory of the object's role.
Binding == {<<"plan", "spec">>, <<"progress", "plan">>, <<"checkpoint", "plan">>}
AutoRelations(mems) ==
    {Edge(r[1].call, r[1], {r[1]}, {r[2]}) :
        r \in {q \in mems \X mems : /\ <<q[1].role, q[2].role>> \in Binding
                                   /\ \A m \in mems : m.role = q[2].role => q[2].at <= m.at}}

\* _memory_id_from_ref: a place among the captured memories, from their end if
\* negative, and the first one for a place that is not there.
Referred(mems, ref) ==
    LET place == IF ref < 0 THEN Cardinality(mems) + ref ELSE ref
        before(m) == {g \in mems : g.at < m.at}
    IN  {m \in mems : Cardinality(before(m)) =
                         IF place \in 0 .. Cardinality(mems) - 1 THEN place ELSE 0}

\* The memory a given relation is bound to: whatever id the caller names, which
\* nothing looks for in the vault, or else a captured one, if there is any.
Carriers(n, c) == IF c.memory_id # None THEN {c.memory_id}
                  ELSE Referred(CapturedBy(n, c), c.memory_ref)
GivenRelation(n, c) == {Edge(n, m, {}, {}) : m \in Carriers(n, c)}

\* Every field of the patch is set, from the memory of its role or to nothing,
\* but a checkpoint's name only from a checkpoint.
CapturePatch(n, c) ==
    LET roles == {m.role : m \in CapturedBy(n, c)}
        value == [objective |-> IF roles \cap {"plan", "spec"} # {} THEN From(n) ELSE Empty,
                  completed |-> IF "progress" \in roles THEN From(n) ELSE Empty,
                  checkpoint_id |-> From(n)]
        sets == {"objective", "completed"}
                \cup (IF "checkpoint" \in roles THEN {"checkpoint_id"} ELSE {})
    IN  [fields |-> [f \in sets |-> value[f]], seq |-> None]

CaptureAll(a, c) ==
    /\ Begin(a, [Idle EXCEPT !.pc = "capturing", !.ask = c])
    /\ UNCHANGED <<tables, ghosts>>

Item(a) == proc[a].ask.items[proc[a].next]
ItemMemory(a) == Memory(proc[a].call, proc[a].next, Item(a))
Capturing(a) == proc[a].pc = "capturing" /\ proc[a].next <= Len(proc[a].ask.items)

Proposal(m, of) == [mem |-> m, of |-> of, status |-> "pending", reviewer |-> None,
                    memory_id |-> None]

\* _capture_memory_item
StoreItem(a) ==
    /\ Capturing(a) /\ Item(a) # "ephemeral" /\ proc[a].ask.mode = "remember"
    /\ vault' = Remembered(ItemMemory(a), None)
    /\ proc' = [proc EXCEPT ![a].next = @ + 1]
    /\ UNCHANGED <<task, proposals, ledger, graph, knowledge, called, crashes, ghosts>>

ProposeItem(a) ==
    /\ Capturing(a) /\ Item(a) # "ephemeral" /\ proc[a].ask.mode = "propose"
    /\ proposals' = Append(proposals, Proposal(ItemMemory(a), None))
    /\ proc' = [proc EXCEPT ![a].next = @ + 1]
    /\ UNCHANGED <<task, vault, ledger, graph, knowledge, called, crashes, ghosts>>

IgnoreItem(a) ==
    /\ Capturing(a) /\ Item(a) = "ephemeral"
    /\ proc' = [proc EXCEPT ![a].next = @ + 1]
    /\ UNCHANGED <<tables, called, crashes, ghosts>>

\* _capture_relations raises for a malformed relation, and for one that neither
\* the caller nor a captured memory gives an id to; memories and proposals stay.
Captured(a) == CapturedBy(proc[a].call, proc[a].ask)
Refused(a) == \/ proc[a].ask.relation = "malformed"
              \/ /\ proc[a].ask.relation = "good"
                 /\ Carriers(proc[a].call, proc[a].ask) = {}

Given(n, c) == IF c.relation = "good" THEN GivenRelation(n, c) ELSE {}

\* Mutant: a relation the caller gives replaces the automatic ones.
ToRelateGiven(a) == IF proc[a].ask.relation = "good" THEN Given(proc[a].call, proc[a].ask)
                    ELSE AutoRelations(Captured(a))
ToRelate(a) == AutoRelations(Captured(a)) \cup Given(proc[a].call, proc[a].ask)

ItemsDone(a) ==
    /\ proc[a].pc = "capturing"
    /\ proc[a].next > Len(proc[a].ask.items)
    /\ proc' = [proc EXCEPT ![a] = IF Refused(a) THEN Idle
                                   ELSE [@ EXCEPT !.pc = "relating", !.todo = ToRelate(a)]]
    /\ UNCHANGED <<tables, called, crashes, ghosts>>

Relate(a) ==
    /\ proc[a].pc = "relating"
    /\ \E r \in proc[a].todo :
          /\ graph' = graph \cup {r}
          /\ proc' = [proc EXCEPT ![a].pc = "asserting", ![a].todo = @ \ {r},
                                  ![a].edge = r]
    /\ UNCHANGED <<task, vault, proposals, ledger, knowledge, called, crashes, ghosts>>

Affirm(a) ==
    /\ proc[a].pc = "asserting"
    /\ knowledge' = knowledge \cup {proc[a].edge}
    /\ To(a, "relating")
    /\ UNCHANGED <<task, vault, proposals, ledger, graph, called, crashes, ghosts>>

\* The task's state is patched from the capture, or the call is answered.
SyncTask(a) ==
    /\ proc[a].pc = "relating" /\ proc[a].todo = {}
    /\ LET syncs == proc[a].ask.task /\ Seen(proc[a].ask)
       IN  /\ proc' = [proc EXCEPT ![a] =
                  IF syncs
                  THEN [@ EXCEPT !.pc = "reading",
                                 !.patch = CapturePatch(proc[a].call, proc[a].ask)]
                  ELSE Idle]
           /\ answered' = IF syncs THEN answered
                          ELSE answered \cup {[call |-> proc[a].call, ask |-> proc[a].ask]}
    /\ UNCHANGED <<tables, called, crashes, given, raced, contested>>

-----------------------------------------------------------------------------
(* ProposalStore: approve and reject.                                      *)

Reviewing(p) == \E b \in Agents : proc[b].prop = p

\* Mutant: the status is not tested.
AlwaysReviewable(p) == TRUE
Reviewable(p) == proposals[p].status = "pending"

\* get, and the test of the status.
StartReview(a, p, verdict) ==
    /\ Reviewable(p)
    /\ Begin(a, [Idle EXCEPT !.pc = IF verdict = "approved" THEN "approving" ELSE "reviewing",
                             !.prop = p, !.verdict = verdict])
    /\ contested' = IF Reviewing(p) THEN contested \cup {p} ELSE contested
    /\ UNCHANGED <<tables, answered, given, raced>>

RememberApproved(a) ==
    /\ proc[a].pc = "approving"
    /\ vault' = Remembered(proposals[proc[a].prop].mem, a)
    /\ To(a, "reviewing")
    /\ UNCHANGED <<task, proposals, ledger, graph, knowledge, called, crashes, ghosts>>

Verdict(row, v, a) == [row EXCEPT !.status = v, !.reviewer = a,
                                  !.memory_id = IF v = "approved" THEN row.mem ELSE None]

\* _review: an UPDATE by id that does not ask for the status again.
WriteVerdict(a) ==
    /\ proc[a].pc = "reviewing"
    /\ proposals' = [proposals EXCEPT ![proc[a].prop] = Verdict(@, proc[a].verdict, a)]
    /\ End(a)
    /\ UNCHANGED <<task, vault, ledger, graph, knowledge, called, crashes, ghosts>>

-----------------------------------------------------------------------------
(* ConsolidationRunner.propose_from_recent.                                *)

Consolidate(a) ==
    /\ Begin(a, [Idle EXCEPT !.pc = "extracting",
                             !.todo = {m \in Stored : m.role = "note"}])
    /\ UNCHANGED <<tables, ghosts>>

\* The signatures of the ledger; those of proposals, pending or approved, are
\* not asked for, so every run proposes a fact again until the ledger has it.
ReadFacts(a) ==
    /\ proc[a].pc = "extracting"
    /\ proc' = [proc EXCEPT ![a].pc = "deriving", ![a].todo = @ \ ledger]
    /\ UNCHANGED <<tables, called, crashes, ghosts>>

ProposeFact(a) ==
    /\ proc[a].pc = "deriving"
    /\ \E m \in proc[a].todo :
          /\ proposals' = Append(proposals,
                 Proposal(Memory(proc[a].call, Len(proposals) + 1, "fact"), m))
          /\ proc' = [proc EXCEPT ![a] =
                 IF @.todo = {m} THEN Idle ELSE [@ EXCEPT !.todo = proc[a].todo \ {m}]]
    /\ UNCHANGED <<task, vault, ledger, graph, knowledge, called, crashes, ghosts>>

NothingNew(a) ==
    /\ proc[a].pc = "deriving" /\ proc[a].todo = {}
    /\ End(a)
    /\ UNCHANGED <<tables, called, crashes, ghosts>>

\* Another caller adds the fact of a note to the ledger (FactLedger).
AddFact == /\ \E m \in Stored : m.role = "note" /\ m \notin ledger /\ ledger' = ledger \cup {m}
           /\ UNCHANGED <<task, vault, proposals, graph, knowledge, proc, called, crashes,
                          ghosts>>

-----------------------------------------------------------------------------
\* An exception or the death of the process between two commits.
Abandon(a) ==
    /\ proc[a].pc # "idle"
    /\ crashes < MaxCrashes
    /\ crashes' = crashes + 1
    /\ contested' = IF proc[a].prop = 0 THEN contested ELSE contested \cup {proc[a].prop}
    /\ End(a)
    /\ UNCHANGED <<tables, called, answered, given, raced>>

Next == \/ \E a \in Agents :
              \/ \E p \in Patches : Update(a, p)
              \/ \E c \in Captures : CaptureAll(a, c)
              \/ \E p \in DOMAIN proposals, v \in {"approved", "rejected"} : StartReview(a, p, v)
              \/ Consolidate(a)
              \/ ReadTask(a) \/ SaveTask(a)
              \/ StoreItem(a) \/ ProposeItem(a) \/ IgnoreItem(a)
              \/ ItemsDone(a) \/ Relate(a) \/ Affirm(a) \/ SyncTask(a)
              \/ RememberApproved(a) \/ WriteVerdict(a)
              \/ ReadFacts(a) \/ ProposeFact(a) \/ NothingNew(a)
              \/ Abandon(a)
        \/ AddFact

Spec == Init /\ [][Next]_vars

-----------------------------------------------------------------------------
Value == {"empty", "call", "ckpt"} \X Nat
Row == [seq : Nat, fields : [Fields -> Value]]

\* The checkpoint sequence of a task goes back only when two updates read it
\* before either saved: update refuses a stale one, but tests what it read.
SequenceNeverBack == [][~raced' => task'.seq >= task.seq]_vars

\* Until two updates overlapped so, no update is lost: each field has the last
\* value it was given, by an update or by a capture, whoever else wrote other
\* fields since; a checkpoint nobody named has the name of an early sequence.
NoUpdateLost ==
    raced \/ \A f \in Fields :
        \/ task.fields[f] = given[f]
        \/ /\ f = "checkpoint_id" /\ given[f] = Empty
           /\ \E s \in 0 .. task.seq : task.fields[f] = Default(s)

\* Whoever races or dies, a proposal that names a memory was approved and the
\* memory is in the vault: approve remembers before it reviews, and a rejection
\* that overwrites an approval takes the name away.  A proposal reviewed by one
\* at a time, none of them dying, is decided once: approved with its memory in
\* the vault under the name of its reviewer, or not approved and not in it.
ApprovalsAreFinal ==
    \A p \in DOMAIN proposals :
        LET row == proposals[p] IN
        /\ row.status = "approved" <=> row.memory_id = row.mem /\ row.mem \in Stored
        /\ (p \notin contested /\ ~Reviewing(p)) =>
              IF row.mem \in Stored
              THEN row.status = "approved" /\ vault[row.mem] = row.reviewer
              ELSE row.status # "approved"

\* The memories at the ends of a relation are stored, and so is the one that
\* carries it, unless a caller named that itself.
Grounded(r, stored) ==
    /\ r.subject \cup r.object \subseteq stored
    /\ \/ r.by \in stored
       \/ r.subject = {} /\ \E c \in Captures : c.relation = "good" /\ c.memory_id = r.by

\* An answered capture left every memory or proposal and every relation, the
\* automatic and the given, in both graphs; a capture that raised or died left
\* no assertion without its edge and no relation of a memory that is not in the
\* vault, but for an id a caller named, which no capture checks.
CapturesAreWhole ==
    /\ knowledge \subseteq graph
    /\ \A r \in graph : Grounded(r, Stored)
    /\ \A x \in answered :
          LET mems == CapturedBy(x.call, x.ask) IN
          /\ mems \subseteq Stored
          /\ AutoRelations(mems) \subseteq knowledge
          /\ x.ask.relation = "good" =>
                GivenRelation(x.call, x.ask) \subseteq knowledge /\ Carriers(x.call, x.ask) # {}
          /\ x.ask.mode = "propose" =>
                \A i \in DOMAIN x.ask.items : x.ask.items[i] # "ephemeral" =>
                    \E p \in DOMAIN proposals :
                        proposals[p].mem = Memory(x.call, i, x.ask.items[i])

=============================================================================
