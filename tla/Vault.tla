------------------------------- MODULE Vault --------------------------------
(***************************************************************************)
(* The memory vault of living_memoryv2: the canonical log memories.jsonl,  *)
(* the blobs of large payloads, the store memory.sqlite3 with its text     *)
(* index, the relations of the graph and of the knowledge graph, and one   *)
(* box.  Server processes share the vault's directory; each SQLite commit, *)
(* append and file operation is a step, and rebuild_indexes replays the    *)
(* log (store.py, vault.py).  FactLedger has the facts.                    *)
(*                                                                         *)
(* Every memory of the model has one relation.  An append writes one line  *)
(* whole or fails part way (a full disk, a power cut).                     *)
(***************************************************************************)
EXTENDS Naturals, Sequences, FiniteSets

CONSTANTS
    Memories,     \* memories by id
    Large,        \* memories with the same payload above blob_threshold
    Bad,          \* memories whose relation has an empty part: ValueError
    Agents,       \* processes that share the vault
    MaxCalls, MaxRebuilds, MaxCrashes,   \* bounds on the calls and on the crashes
    MaxRaces,     \* bound on the calls that begin inside another's
    Garbled,      \* a line of the log that is no JSON
    None

ASSUME VaultAssumption == /\ Large \subseteq Memories /\ Bad \subseteq Memories
                          /\ None \notin Memories /\ Garbled \notin Memories
                          /\ MaxCalls \in Nat /\ MaxRebuilds \in Nat /\ MaxCrashes \in Nat
                          /\ MaxRaces \in Nat

VARIABLES
    journal,      \* memories.jsonl, whole lines
    torn,         \* the journal ends in a part of a line
    blob,         \* the file of the large payload
    rows,         \* memory.sqlite3: with the text, or with a row but no text
    relations,    \* memories whose relation graph.sqlite3 has
    assertions,   \* memories whose relation knowledge.sqlite3 has
    box,          \* table box_memories of one box: sequence, 0 for no row
    answered,     \* memories some caller was given the id of
    proc,         \* each process: where it is and what it has read
    called, rebuilds, crashes, races,
    lost,         \* ghost: memories whose line was appended to a torn one
    history       \* ghost: have the calls so far, or since a rebuild, been alone?

canon == <<journal, torn, blob, lost>>
indexes == <<rows, relations, assertions>>
calls == <<called, rebuilds, crashes, races>>
vars == <<canon, indexes, box, answered, proc, calls, history>>

Idle == [pc |-> "idle", mem |-> None, boxed |-> FALSE, seq |-> 0, todo |-> <<>>,
         rebuild |-> FALSE, alone |-> TRUE]

Busy == {a \in Agents : proc[a].pc # "idle"}
Lines == {journal[i] : i \in DOMAIN journal} \cap Memories
Rows == {m \in Memories : rows[m] # "none"}

Init == /\ journal = <<>> /\ torn = FALSE /\ blob = "none" /\ lost = {}
        /\ rows = [m \in Memories |-> "none"]
        /\ relations = {} /\ assertions = {}
        /\ box = [m \in Memories |-> 0]
        /\ answered = {}
        /\ proc = [a \in Agents |-> Idle]
        /\ called = 0 /\ rebuilds = 0 /\ crashes = 0 /\ races = 0
        /\ history = "sequential"

Started(a, p) ==
    proc' = [b \in Agents |-> IF b = a THEN [p EXCEPT !.alone = Busy = {}]
                                       ELSE [proc[b] EXCEPT !.alone = FALSE]]

Overlapping == /\ Busy = {} \/ races < MaxRaces
               /\ races' = IF Busy = {} THEN races ELSE races + 1
               /\ history' = IF Busy = {} THEN history ELSE "unknown"

To(a, pc) == proc' = [proc EXCEPT ![a].pc = pc]
End(a) == proc' = [proc EXCEPT ![a] = Idle]
Mem(a) == proc[a].mem

-----------------------------------------------------------------------------
(* vault.remember.                                                         *)

Remember(a, m, boxed) ==
    /\ a \notin Busy
    /\ called < MaxCalls
    /\ called' = called + 1
    /\ Started(a, [Idle EXCEPT !.pc = IF m \in Large THEN "checking" ELSE "storing",
                               !.mem = m, !.boxed = boxed])
    /\ Overlapping
    /\ UNCHANGED <<canon, indexes, box, answered, rebuilds, crashes>>

\* _externalize_large_payloads: the file is written only if there is none.
CheckBlob(a) ==
    /\ proc[a].pc = "checking"
    /\ To(a, IF blob = "none" THEN "opening" ELSE "storing")
    /\ UNCHANGED <<canon, indexes, box, answered, calls, history>>

\* write_bytes truncates the file, then fills it.
OpenBlob(a) ==
    /\ proc[a].pc = "opening"
    /\ blob' = "partial"
    /\ To(a, "writing")
    /\ UNCHANGED <<journal, torn, lost, indexes, box, answered, calls, history>>

\* Mutant: the payload is left to a later flush.
BlobWrittenLater == blob
BlobWritten == "whole"

WriteBlob(a) ==
    /\ proc[a].pc = "writing"
    /\ blob' = BlobWritten
    /\ To(a, "storing")
    /\ UNCHANGED <<journal, torn, lost, indexes, box, answered, calls, history>>

\* A row replayed from the log has no text where the payload became a blob.
TextOf(a) == IF proc[a].rebuild /\ Mem(a) \in Large THEN "bare" ELSE "full"

\* Mutant: the log is taken for another index and left to a rebuild.
AfterRowUnlogged(a) == "relating"
\* append_log=False in a rebuild.
AfterRow(a) == IF proc[a].rebuild THEN "relating" ELSE "appending"

\* store.remember: the row, its text and its address in one commit.
StoreRow(a) ==
    /\ proc[a].pc = "storing"
    /\ rows' = [rows EXCEPT ![Mem(a)] = TextOf(a)]
    /\ To(a, AfterRow(a))
    /\ UNCHANGED <<canon, relations, assertions, box, answered, calls, history>>

\* Mutant: the file is opened to write anew.
AppendedAnew(m) == <<m>>
\* Behind a torn line the new one is part of it, and neither can be parsed.
Appended(m) == Append(journal, IF torn THEN Garbled ELSE m)

AppendLine(a) ==
    /\ proc[a].pc = "appending"
    /\ torn' = FALSE
    /\ journal' = Appended(Mem(a))
    /\ lost' = IF torn THEN lost \cup {Mem(a)} ELSE lost
    /\ To(a, "relating")
    /\ UNCHANGED <<blob, indexes, box, answered, calls, history>>

\* graph.index_memory, which refuses an empty subject, predicate or object.
Relate(a) ==
    /\ proc[a].pc = "relating"
    /\ Mem(a) \notin Bad
    /\ relations' = relations \cup {Mem(a)}
    /\ To(a, "asserting")
    /\ UNCHANGED <<canon, rows, assertions, box, answered, calls, history>>

Refuse(a) ==
    /\ proc[a].pc = "relating"
    /\ Mem(a) \in Bad
    /\ End(a)
    /\ history' = IF proc[a].rebuild THEN "unknown" ELSE history
    /\ UNCHANGED <<canon, indexes, box, answered, calls>>

\* Where a process goes from the knowledge graph.
AfterAssertion(a) == IF proc[a].rebuild THEN "replaying"
                     ELSE IF proc[a].boxed THEN "numbering" ELSE "answering"

\* Mutant: an assertion is committed only when the store has no row.
AssertedUnlessStored(a) == IF Mem(a) \in Rows THEN assertions ELSE assertions \cup {Mem(a)}
Asserted(a) == assertions \cup {Mem(a)}

\* knowledge.index_memory
WriteAssertion(a) ==
    /\ proc[a].pc = "asserting"
    /\ assertions' = Asserted(a)
    /\ To(a, AfterAssertion(a))
    /\ UNCHANGED <<canon, rows, relations, box, answered, calls, history>>

Numbers == {box[m] : m \in Memories}

\* SELECT MAX(sequence) comes before the transaction of the INSERT.
ReadNumber(a) ==
    /\ proc[a].pc = "numbering"
    /\ \E n \in Numbers : /\ \A k \in Numbers : k <= n
                          /\ proc' = [proc EXCEPT ![a].pc = "boxing", ![a].seq = n]
    /\ UNCHANGED <<canon, indexes, box, answered, calls, history>>

\* Mutant: INSERT OR REPLACE.
BoxedAnew(a) == [box EXCEPT ![Mem(a)] = proc[a].seq + 1]
\* INSERT OR IGNORE.
Boxed(a) == IF box[Mem(a)] = 0 THEN [box EXCEPT ![Mem(a)] = proc[a].seq + 1] ELSE box

WriteBox(a) ==
    /\ proc[a].pc = "boxing"
    /\ box' = Boxed(a)
    /\ To(a, "answering")
    /\ UNCHANGED <<canon, indexes, answered, calls, history>>

Answer(a) ==
    /\ proc[a].pc = "answering"
    /\ answered' = answered \cup {Mem(a)}
    /\ End(a)
    /\ UNCHANGED <<canon, indexes, box, calls, history>>

-----------------------------------------------------------------------------
(* rebuild_indexes.                                                        *)

\* store.clear_indexes unlinks memory.sqlite3 and creates it anew.
Rebuild(a) ==
    /\ a \notin Busy
    /\ rebuilds < MaxRebuilds
    /\ rebuilds' = rebuilds + 1
    /\ rows' = [m \in Memories |-> "none"]
    /\ Started(a, [Idle EXCEPT !.pc = "clearing graph", !.rebuild = TRUE])
    /\ Overlapping
    /\ UNCHANGED <<canon, relations, assertions, box, answered, called, crashes>>

ClearGraph(a) ==
    /\ proc[a].pc = "clearing graph"
    /\ relations' = {}
    /\ To(a, "clearing knowledge")
    /\ UNCHANGED <<canon, rows, assertions, box, answered, calls, history>>

ClearKnowledge(a) ==
    /\ proc[a].pc = "clearing knowledge"
    /\ assertions' = {}
    /\ To(a, "reading")
    /\ UNCHANGED <<canon, rows, relations, box, answered, calls, history>>

\* read_text().splitlines() takes a torn end for a line.
ReadJournal(a) ==
    /\ proc[a].pc = "reading"
    /\ proc' = [proc EXCEPT ![a].pc = "replaying",
                            ![a].todo = IF torn THEN Append(journal, Garbled) ELSE journal]
    /\ UNCHANGED <<canon, indexes, box, answered, calls, history>>

Replay(a) ==
    /\ proc[a].pc = "replaying"
    /\ proc[a].todo # <<>>
    /\ Head(proc[a].todo) # Garbled
    /\ proc' = [proc EXCEPT ![a].pc = "storing", ![a].mem = Head(proc[a].todo),
                            ![a].todo = Tail(@)]
    /\ UNCHANGED <<canon, indexes, box, answered, calls, history>>

\* json.loads raises.
ReplayFails(a) ==
    /\ proc[a].pc = "replaying"
    /\ proc[a].todo # <<>>
    /\ Head(proc[a].todo) = Garbled
    /\ End(a)
    /\ history' = "unknown"
    /\ UNCHANGED <<canon, indexes, box, answered, calls>>

\* The replay is over, and the facts' indexes follow (FactLedger).
Rebuilt(a) ==
    /\ proc[a].pc = "replaying"
    /\ proc[a].todo = <<>>
    /\ End(a)
    /\ history' = IF proc[a].alone THEN "rebuilt" ELSE history
    /\ UNCHANGED <<canon, indexes, box, answered, calls>>

-----------------------------------------------------------------------------
\* An exception or the death of the process between two steps.
Abandon(a) ==
    /\ a \in Busy
    /\ crashes < MaxCrashes
    /\ crashes' = crashes + 1
    /\ torn' \in IF proc[a].pc = "appending" THEN {torn, TRUE} ELSE {torn}
    /\ End(a)
    /\ history' = "unknown"
    /\ UNCHANGED <<journal, blob, lost, indexes, box, answered, called, rebuilds, races>>

Step(a) == \/ CheckBlob(a) \/ OpenBlob(a) \/ WriteBlob(a)
           \/ StoreRow(a) \/ AppendLine(a)
           \/ Relate(a) \/ Refuse(a) \/ WriteAssertion(a)
           \/ ReadNumber(a) \/ WriteBox(a) \/ Answer(a)
           \/ ClearGraph(a) \/ ClearKnowledge(a) \/ ReadJournal(a)
           \/ Replay(a) \/ ReplayFails(a) \/ Rebuilt(a)

Next == \E a \in Agents :
           \/ \E m \in Memories, boxed \in BOOLEAN : Remember(a, m, boxed)
           \/ Rebuild(a)
           \/ Step(a)
           \/ Abandon(a)

Spec == Init /\ [][Next]_vars

-----------------------------------------------------------------------------
Remembering == {"checking", "opening", "writing", "storing", "appending", "relating",
                "asserting", "numbering", "boxing", "answering"}
Rebuilding == {"clearing graph", "clearing knowledge", "reading", "replaying",
               "storing", "relating", "asserting"}
Line == Memories \cup {Garbled}
Process == [pc : {"idle"} \cup Remembering \cup Rebuilding, mem : Memories \cup {None},
            boxed : BOOLEAN, seq : Nat, todo : Seq(Line), rebuild : BOOLEAN, alone : BOOLEAN]

\* The files, the tables and what a process holds between two steps: only a
\* call that remembers appends or answers, and one that writes has a memory.
TypeOK ==
    /\ journal \in Seq(Line) /\ torn \in BOOLEAN /\ blob \in {"none", "partial", "whole"}
    /\ lost \subseteq Memories
    /\ rows \in [Memories -> {"none", "bare", "full"}]
    /\ relations \subseteq Memories /\ assertions \subseteq Memories
    /\ box \in [Memories -> Nat]
    /\ answered \subseteq Memories
    /\ proc \in [Agents -> Process]
    /\ \A a \in Agents :
          /\ proc[a].pc \in IF proc[a].rebuild THEN Rebuilding ELSE {"idle"} \cup Remembering
          /\ proc[a].pc \in Remembering => proc[a].mem \in Memories
    /\ called \in Nat /\ rebuilds \in Nat /\ crashes \in Nat /\ races \in Nat
    /\ history \in {"sequential", "rebuilt", "unknown"}

\* Whatever a caller was given the id of, and whatever a box lists, stands in
\* the canonical log, whoever raced or died meanwhile, unless its line was
\* appended to a torn one; it never was refused (store.remember appends before
\* the indexes are written, vault.remember answers after them).
AnsweredIsCanonical ==
    answered \cup {m \in Memories : box[m] # 0} \subseteq (Lines \ Bad) \cup lost

\* The payload of an answered large memory is on disk, unless another process
\* is writing the same payload or died doing so: a file that exists is never
\* written again (_externalize_large_payloads).
AnsweredPayloadIsWhole ==
    (answered \cap Large # {} /\ crashes = 0 /\ ~\E a \in Agents : proc[a].pc = "writing")
        => blob = "whole"

\* Until the first rebuild every answered memory is in all indexes with its
\* text, whatever raced or died.
AnsweredIsIndexed ==
    rebuilds = 0 => /\ \A m \in answered : rows[m] = "full"
                    /\ answered \subseteq relations \cap assertions

\* No process is inside a call, and those that wrote were alone since the start
\* or since the last rebuild that came to its end.
Settled == Busy = {} /\ history # "unknown"

\* Then the indexes are exactly what the log says, which makes a rebuild repair
\* what crashes and races left; a refused memory has a row and a line but no
\* relation (vault.remember, rebuild_indexes).
IndexesFollowJournal ==
    Settled => /\ Rows = Lines
               /\ relations = Lines \ Bad /\ assertions = Lines \ Bad

\* Without races the sequences of a box are 1, 2, 3 ..., each given once, and
\* remembering again keeps a memory's place.
BoxIsNumbered ==
    races = 0 => LET boxed == {m \in Memories : box[m] # 0} IN
                 {box[m] : m \in boxed} = 1 .. Cardinality(boxed)

=============================================================================
