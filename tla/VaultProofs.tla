----------------------------- MODULE VaultProofs ------------------------------
(***************************************************************************)
(* Machine-checked proofs about Vault, for any memories, processes and     *)
(* number of calls, rebuilds, crashes and races.                           *)
(***************************************************************************)
EXTENDS Vault, FiniteSetTheorems, TLAPS

\* What TypeOK says of the files and tables, and of the processes.
TablesOK ==
    /\ journal \in Seq(Line) /\ torn \in BOOLEAN /\ blob \in {"none", "partial", "whole"}
    /\ lost \subseteq Memories
    /\ rows \in [Memories -> {"none", "bare", "full"}]
    /\ relations \subseteq Memories /\ assertions \subseteq Memories
    /\ box \in [Memories -> Nat]
    /\ answered \subseteq Memories

Placed(p) == /\ p.pc \in IF p.rebuild THEN Rebuilding ELSE {"idle"} \cup Remembering
             /\ p.pc \in Remembering => p.mem \in Memories

ProcessesOK == /\ proc \in [Agents -> Process]
               /\ \A a \in Agents : Placed(proc[a])

CountsOK ==
    /\ called \in Nat /\ rebuilds \in Nat /\ crashes \in Nat /\ races \in Nat
    /\ history \in {"sequential", "rebuilt", "unknown"}

LEMMA TypeParts == TypeOK <=> TablesOK /\ ProcessesOK /\ CountsOK
  BY DEF TypeOK, TablesOK, ProcessesOK, CountsOK, Placed

LEMMA NextParts == TablesOK' /\ ProcessesOK' /\ CountsOK' => TypeOK'
  BY DEF TypeOK, TablesOK, ProcessesOK, CountsOK, Placed

LEMMA IdleIsProcess == Idle \in Process /\ Idle.pc = "idle" /\ ~Idle.rebuild /\ Placed(Idle)
  BY DEF Idle, Process, Placed, Remembering

LEMMA InitTypes == Init => TypeOK
  <1> SUFFICES ASSUME Init PROVE TypeOK
    OBVIOUS
  <1>1. TablesOK
    <2>1. journal \in Seq(Line)
      BY DEF Init
    <2>2. rows \in [Memories -> {"none", "bare", "full"}] /\ box \in [Memories -> Nat]
      BY DEF Init
    <2> QED
      BY <2>1, <2>2 DEF Init, TablesOK
  <1>2. ProcessesOK
    BY IdleIsProcess DEF Init, ProcessesOK
  <1>3. CountsOK
    BY DEF Init, CountsOK
  <1> QED
    BY <1>1, <1>2, <1>3, TypeParts

\* A step of one process: it is enough to look at the record it ends up with.
LEMMA OneProcess ==
    ASSUME ProcessesOK, NEW a \in Agents, NEW p \in Process, Placed(p),
           proc' = [proc EXCEPT ![a] = p]
    PROVE  ProcessesOK'
  BY DEF ProcessesOK, Placed

\* A step that only moves a process on.
LEMMA Moves ==
    ASSUME ProcessesOK, NEW a \in Agents, NEW pc, To(a, pc),
           pc \in IF proc[a].rebuild THEN Rebuilding ELSE Remembering,
           proc[a].pc \in Remembering \/ pc \notin Remembering
    PROVE  ProcessesOK'
  <1> DEFINE p == [proc[a] EXCEPT !.pc = pc]
  <1>1. proc[a] \in Process /\ Placed(proc[a])
    BY DEF ProcessesOK
  <1>2. p \in Process /\ p.pc = pc /\ p.mem = proc[a].mem /\ p.rebuild = proc[a].rebuild
    BY <1>1 DEF Process, Remembering, Rebuilding
  <1>3. proc' = [proc EXCEPT ![a] = p]
    BY DEF To
  <1> HIDE DEF p
  <1>4. Placed(p)
    BY <1>1, <1>2 DEF Placed
  <1> QED
    BY <1>2, <1>3, <1>4, OneProcess

LEMMA Ends ==
    ASSUME ProcessesOK, NEW a \in Agents, End(a)
    PROVE  ProcessesOK'
  BY OneProcess, IdleIsProcess DEF End

\* Beginning a call.
LEMMA StartedTypes ==
    ASSUME ProcessesOK, NEW a \in Agents, NEW p \in Process, Started(a, p), Placed(p)
    PROVE  ProcessesOK'
  <1> DEFINE q(b) == IF b = a THEN [p EXCEPT !.alone = Busy = {}]
                              ELSE [proc[b] EXCEPT !.alone = FALSE]
  <1>1. proc' = [b \in Agents |-> q(b)]
    BY DEF Started
  <1>2. ASSUME NEW r \in Process, NEW flag \in BOOLEAN, Placed(r)
        PROVE  [r EXCEPT !.alone = flag] \in Process /\ Placed([r EXCEPT !.alone = flag])
    BY <1>2 DEF Process, Placed
  <1>3. (Busy = {}) \in BOOLEAN
    OBVIOUS
  <1>4. ASSUME NEW b \in Agents PROVE q(b) \in Process /\ Placed(q(b))
    BY <1>2, <1>3 DEF ProcessesOK
  <1> HIDE DEF q
  <1>5. proc' \in [Agents -> Process] /\ \A b \in Agents : proc'[b] = q(b)
    BY <1>1, <1>4
  <1>6. \A b \in Agents : Placed(proc'[b])
    BY <1>4, <1>5
  <1> QED
    BY <1>5, <1>6 DEF ProcessesOK, Placed

LEMMA RememberTypes ==
    ASSUME TypeOK, NEW a \in Agents, NEW m \in Memories, NEW boxed \in BOOLEAN,
           Remember(a, m, boxed)
    PROVE  TypeOK'
  <1> DEFINE p == [Idle EXCEPT !.pc = IF m \in Large THEN "checking" ELSE "storing",
                               !.mem = m, !.boxed = boxed]
  <1>1. p \in Process /\ Placed(p)
    BY IdleIsProcess DEF Process, Placed, Remembering
  <1>2. Started(a, p)
    BY DEF Remember
  <1> HIDE DEF p
  <1>3. ProcessesOK'
    BY <1>1, <1>2, StartedTypes, TypeParts
  <1>4. TablesOK'
    <2>1. UNCHANGED <<canon, indexes, box, answered>>
      BY DEF Remember
    <2> QED
      BY <2>1, TypeParts DEF canon, indexes, TablesOK
  <1>5. CountsOK'
    BY TypeParts DEF Remember, Overlapping, CountsOK
  <1> QED
    BY <1>3, <1>4, <1>5, NextParts

LEMMA RebuildTypes ==
    ASSUME TypeOK, NEW a \in Agents, Rebuild(a)
    PROVE  TypeOK'
  <1> DEFINE p == [Idle EXCEPT !.pc = "clearing graph", !.rebuild = TRUE]
  <1>1. p \in Process /\ Placed(p)
    BY IdleIsProcess DEF Process, Placed, Remembering, Rebuilding
  <1>2. Started(a, p)
    BY DEF Rebuild
  <1> HIDE DEF p
  <1>3. ProcessesOK'
    BY <1>1, <1>2, StartedTypes, TypeParts
  <1>4. TablesOK'
    <2>1. rows' \in [Memories -> {"none", "bare", "full"}]
      BY DEF Rebuild
    <2>2. UNCHANGED <<canon, relations, assertions, box, answered>>
      BY DEF Rebuild
    <2> QED
      BY <2>1, <2>2, TypeParts DEF canon, TablesOK
  <1>5. CountsOK'
    BY TypeParts DEF Rebuild, Overlapping, CountsOK
  <1> QED
    BY <1>3, <1>4, <1>5, NextParts

\* Only a call that remembers checks, writes a blob, appends, numbers or
\* answers, and a process that writes has a memory.
LEMMA WhereItStands ==
    ASSUME TypeOK, NEW a \in Agents
    PROVE  /\ proc[a].rebuild \in BOOLEAN
           /\ proc[a].pc \in {"checking", "opening", "writing", "appending", "numbering",
                              "boxing", "answering"} => ~proc[a].rebuild
           /\ proc[a].pc \in {"clearing graph", "clearing knowledge", "reading", "replaying"}
                  => proc[a].rebuild
           /\ proc[a].pc \in Remembering => Mem(a) \in Memories
  BY TypeParts DEF ProcessesOK, Placed, Process, Remembering, Rebuilding, Mem

LEMMA BlobTypes ==
    ASSUME TypeOK, NEW a \in Agents, CheckBlob(a) \/ OpenBlob(a) \/ WriteBlob(a)
    PROVE  TypeOK'
  <1>1. ProcessesOK'
    BY Moves, WhereItStands, TypeParts DEF CheckBlob, OpenBlob, WriteBlob, Remembering
  <1>2. TablesOK' /\ CountsOK'
    BY TypeParts DEF CheckBlob, OpenBlob, WriteBlob, BlobWritten, canon, indexes, calls,
                     TablesOK, CountsOK
  <1> QED
    BY <1>1, <1>2, NextParts

LEMMA StoreRowTypes ==
    ASSUME TypeOK, NEW a \in Agents, StoreRow(a)
    PROVE  TypeOK'
  <1>1. ProcessesOK'
    BY Moves, WhereItStands, TypeParts DEF StoreRow, AfterRow, Remembering, Rebuilding
  <1>2. TablesOK' /\ CountsOK'
    BY TypeParts DEF StoreRow, TextOf, canon, calls, TablesOK, CountsOK
  <1> QED
    BY <1>1, <1>2, NextParts

LEMMA AppendLineTypes ==
    ASSUME TypeOK, NEW a \in Agents, AppendLine(a)
    PROVE  TypeOK'
  <1>1. Mem(a) \in Memories /\ ~proc[a].rebuild
    BY WhereItStands DEF AppendLine, Remembering
  <1>2. ProcessesOK'
    BY <1>1, Moves, TypeParts DEF AppendLine, Remembering
  <1>3. journal' \in Seq(Line)
    <2>1. (IF torn THEN Garbled ELSE Mem(a)) \in Line
      BY <1>1 DEF Line
    <2> QED
      BY <2>1, TypeParts DEF AppendLine, Appended, TablesOK
  <1>4. TablesOK'
    BY <1>1, <1>3, TypeParts DEF AppendLine, indexes, TablesOK
  <1>5. CountsOK'
    BY TypeParts DEF AppendLine, calls, CountsOK
  <1> QED
    BY <1>2, <1>4, <1>5, NextParts

LEMMA IndexTypes ==
    ASSUME TypeOK, NEW a \in Agents, Relate(a) \/ WriteAssertion(a)
    PROVE  TypeOK'
  <1>1. Mem(a) \in Memories
    BY WhereItStands DEF Relate, WriteAssertion, Remembering
  <1>2. ProcessesOK'
    BY Moves, WhereItStands, TypeParts DEF Relate, WriteAssertion, AfterAssertion,
                                           Remembering, Rebuilding
  <1>3. TablesOK' /\ CountsOK'
    BY <1>1, TypeParts DEF Relate, WriteAssertion, Asserted, canon, calls, TablesOK, CountsOK
  <1> QED
    BY <1>2, <1>3, NextParts

LEMMA ReadNumberTypes ==
    ASSUME TypeOK, NEW a \in Agents, ReadNumber(a)
    PROVE  TypeOK'
  <1>1. PICK n \in Numbers : proc' = [proc EXCEPT ![a].pc = "boxing", ![a].seq = n]
    BY DEF ReadNumber
  <1> DEFINE p == [proc[a] EXCEPT !.pc = "boxing", !.seq = n]
  <1>2. n \in Nat
    BY TypeParts DEF Numbers, TablesOK
  <1>3. proc[a] \in Process /\ Placed(proc[a]) /\ proc[a].pc = "numbering"
    BY TypeParts DEF ReadNumber, ProcessesOK
  <1>4. p \in Process /\ Placed(p)
    BY <1>2, <1>3 DEF Process, Placed, Remembering, Rebuilding
  <1>5. proc' = [proc EXCEPT ![a] = p]
    BY <1>1
  <1> HIDE DEF p
  <1>6. ProcessesOK'
    BY <1>4, <1>5, OneProcess, TypeParts
  <1>7. TablesOK' /\ CountsOK'
    BY TypeParts DEF ReadNumber, canon, indexes, calls, TablesOK, CountsOK
  <1> QED
    BY <1>6, <1>7, NextParts

LEMMA WriteBoxTypes ==
    ASSUME TypeOK, NEW a \in Agents, WriteBox(a)
    PROVE  TypeOK'
  <1>1. Mem(a) \in Memories /\ proc[a].seq \in Nat
    BY WhereItStands, TypeParts DEF WriteBox, Remembering, ProcessesOK, Process
  <1>2. ProcessesOK'
    BY Moves, WhereItStands, TypeParts DEF WriteBox, Remembering
  <1>3. TablesOK' /\ CountsOK'
    BY <1>1, TypeParts DEF WriteBox, Boxed, canon, indexes, calls, TablesOK, CountsOK
  <1> QED
    BY <1>2, <1>3, NextParts

\* The steps a call ends with.
LEMMA EndTypes ==
    ASSUME TypeOK, NEW a \in Agents,
           Refuse(a) \/ Answer(a) \/ ReplayFails(a) \/ Rebuilt(a) \/ Abandon(a)
    PROVE  TypeOK'
  <1>1. ProcessesOK'
    BY Ends, TypeParts DEF Refuse, Answer, ReplayFails, Rebuilt, Abandon
  <1>2. CASE Answer(a)
    <2>1. Mem(a) \in Memories
      BY <1>2, WhereItStands DEF Answer, Remembering
    <2>2. TablesOK' /\ CountsOK'
      BY <1>2, <2>1, TypeParts DEF Answer, canon, indexes, calls, TablesOK, CountsOK
    <2> QED
      BY <1>1, <2>2, NextParts
  <1>3. CASE Refuse(a) \/ ReplayFails(a) \/ Rebuilt(a)
    <2>1. /\ UNCHANGED <<canon, indexes, box, answered, calls>>
          /\ history' \in {history, "rebuilt", "unknown"}
      BY <1>3 DEF Refuse, ReplayFails, Rebuilt
    <2>2. TablesOK' /\ CountsOK'
      BY <2>1, TypeParts DEF canon, indexes, calls, TablesOK, CountsOK
    <2> QED
      BY <1>1, <2>2, NextParts
  <1>4. CASE Abandon(a)
    <2>1. torn' \in BOOLEAN
      <3>1. torn' \in IF proc[a].pc = "appending" THEN {torn, TRUE} ELSE {torn}
        BY <1>4 DEF Abandon
      <3> QED
        BY <3>1, TypeParts DEF TablesOK
    <2>2. UNCHANGED <<journal, blob, lost, indexes, box, answered>>
      BY <1>4 DEF Abandon
    <2>3. TablesOK'
      BY <2>1, <2>2, TypeParts DEF indexes, TablesOK
    <2>4. CountsOK'
      BY <1>4, TypeParts DEF Abandon, CountsOK
    <2> QED
      BY <1>1, <2>3, <2>4, NextParts
  <1> QED
    BY <1>2, <1>3, <1>4

LEMMA ClearTypes ==
    ASSUME TypeOK, NEW a \in Agents, ClearGraph(a) \/ ClearKnowledge(a)
    PROVE  TypeOK'
  <1>1. ProcessesOK'
    BY Moves, WhereItStands, TypeParts DEF ClearGraph, ClearKnowledge, Remembering, Rebuilding
  <1>2. TablesOK' /\ CountsOK'
    BY TypeParts DEF ClearGraph, ClearKnowledge, canon, calls, TablesOK, CountsOK
  <1> QED
    BY <1>1, <1>2, NextParts

LEMMA ReadJournalTypes ==
    ASSUME TypeOK, NEW a \in Agents, ReadJournal(a)
    PROVE  TypeOK'
  <1> DEFINE todo == IF torn THEN Append(journal, Garbled) ELSE journal
             p == [proc[a] EXCEPT !.pc = "replaying", !.todo = todo]
  <1>1. todo \in Seq(Line)
    <2>1. journal \in Seq(Line) /\ Garbled \in Line
      BY TypeParts DEF TablesOK, Line
    <2> QED
      BY <2>1
  <1>2. proc[a] \in Process /\ Placed(proc[a]) /\ proc[a].pc = "reading"
    BY TypeParts DEF ReadJournal, ProcessesOK
  <1>3. proc' = [proc EXCEPT ![a] = p]
    BY DEF ReadJournal
  <1> HIDE DEF todo
  <1>4. p \in Process /\ Placed(p)
    BY <1>1, <1>2 DEF Process, Placed, Remembering, Rebuilding
  <1> HIDE DEF p
  <1>5. ProcessesOK'
    BY <1>3, <1>4, OneProcess, TypeParts
  <1>6. TablesOK' /\ CountsOK'
    BY TypeParts DEF ReadJournal, canon, indexes, calls, TablesOK, CountsOK
  <1> QED
    BY <1>5, <1>6, NextParts

LEMMA ReplayTypes ==
    ASSUME TypeOK, NEW a \in Agents, Replay(a)
    PROVE  TypeOK'
  <1> DEFINE m == Head(proc[a].todo)
             rest == Tail(proc[a].todo)
             p == [proc[a] EXCEPT !.pc = "storing", !.mem = m, !.todo = rest]
  <1>1. proc[a] \in Process /\ Placed(proc[a]) /\ proc[a].pc = "replaying" /\ proc[a].todo # <<>>
    BY TypeParts DEF Replay, ProcessesOK
  <1>2. m \in Memories /\ rest \in Seq(Line)
    <2>1. proc[a].todo \in Seq(Line)
      BY <1>1 DEF Process
    <2>2. m \in Line /\ rest \in Seq(Line)
      BY <1>1, <2>1
    <2> QED
      BY <2>2 DEF Replay, Line
  <1>3. proc' = [proc EXCEPT ![a] = p]
    BY DEF Replay
  <1>4. proc[a].rebuild
    BY <1>1, WhereItStands
  <1> HIDE DEF m, rest
  <1>5. p \in Process /\ Placed(p)
    BY <1>1, <1>2, <1>4 DEF Process, Placed, Remembering, Rebuilding
  <1> HIDE DEF p
  <1>6. ProcessesOK'
    BY <1>3, <1>5, OneProcess, TypeParts
  <1>7. TablesOK' /\ CountsOK'
    BY TypeParts DEF Replay, canon, indexes, calls, TablesOK, CountsOK
  <1> QED
    BY <1>6, <1>7, NextParts

\* Whatever calls and rebuilds overlap, fail or die, files, tables and
\* processes keep their shape: in particular a rebuild never appends to the
\* log it replays, nor answers (append_log=False).
THEOREM VaultTypeCorrect == Spec => []TypeOK
  <1>1. ASSUME TypeOK, [Next]_vars PROVE TypeOK'
    <2>1. CASE UNCHANGED vars
      BY <1>1, <2>1 DEF vars, canon, indexes, calls, TypeOK
    <2>2. CASE Next
      <3>1. PICK a \in Agents :
               \/ \E m \in Memories, boxed \in BOOLEAN : Remember(a, m, boxed)
               \/ Rebuild(a) \/ Step(a) \/ Abandon(a)
        BY <2>2 DEF Next
      <3>2. CASE Step(a)
        BY <1>1, <3>2, BlobTypes, StoreRowTypes, AppendLineTypes, IndexTypes, ReadNumberTypes,
           WriteBoxTypes, EndTypes, ClearTypes, ReadJournalTypes, ReplayTypes DEF Step
      <3> QED
        BY <1>1, <3>1, <3>2, RememberTypes, RebuildTypes, EndTypes
    <2> QED
      BY <1>1, <2>1, <2>2
  <1> QED
    BY InitTypes, <1>1, PTL DEF Spec

-----------------------------------------------------------------------------
\* What process a knows of the log: behind its append the memory is there, and
\* past the graph it is one the graph takes.
CanonOK(a) ==
    ~proc[a].rebuild =>
        /\ proc[a].pc = "relating" => Mem(a) \in Lines \cup lost
        /\ proc[a].pc \in {"asserting", "numbering", "boxing", "answering"} =>
               Mem(a) \in (Lines \ Bad) \cup lost

CanonInv == AnsweredIsCanonical /\ \A a \in Agents : CanonOK(a)

\* Process b stands where it stood.
Stays(b) == /\ proc'[b].pc = proc[b].pc /\ proc'[b].mem = proc[b].mem
            /\ proc'[b].rebuild = proc[b].rebuild

LEMMA CanonStep ==
    ASSUME CanonInv, NEW a \in Agents, \A b \in Agents \ {a} : Stays(b), CanonOK(a)',
           Lines \subseteq Lines', lost \subseteq lost', AnsweredIsCanonical'
    PROVE  CanonInv'
  <1>1. ASSUME NEW b \in Agents \ {a} PROVE CanonOK(b)'
    <2>1. CanonOK(b) /\ Stays(b)
      BY DEF CanonInv
    <2> QED
      BY <2>1 DEF CanonOK, Stays, Mem
  <1> QED
    BY <1>1 DEF CanonInv

LEMMA StepStays ==
    ASSUME TypeOK, NEW a \in Agents, Step(a) \/ Abandon(a)
    PROVE  \A b \in Agents \ {a} : Stays(b)
  <1>1. proc \in [Agents -> Process]
    BY TypeParts DEF ProcessesOK
  <1>2. \A b \in Agents \ {a} : proc'[b] = proc[b]
    BY <1>1 DEF Step, Abandon, CheckBlob, OpenBlob, WriteBlob, StoreRow, AppendLine, Relate,
       Refuse, WriteAssertion, ReadNumber, WriteBox, Answer, ClearGraph, ClearKnowledge,
       ReadJournal, Replay, ReplayFails, Rebuilt, To, End
  <1> QED
    BY <1>2 DEF Stays

LEMMA StartStays ==
    ASSUME TypeOK, NEW a \in Agents, NEW p \in Process, Started(a, p)
    PROVE  /\ \A b \in Agents \ {a} : Stays(b)
           /\ proc'[a].pc = p.pc /\ proc'[a].rebuild = p.rebuild /\ proc'[a].mem = p.mem
  <1>1. proc \in [Agents -> Process]
    BY TypeParts DEF ProcessesOK
  <1>2. ASSUME NEW r \in Process, NEW flag
        PROVE  LET q == [r EXCEPT !.alone = flag] IN
               q.pc = r.pc /\ q.mem = r.mem /\ q.rebuild = r.rebuild
    BY DEF Process
  <1> QED
    BY <1>1, <1>2 DEF Started, Stays

\* Where process a stands after a step that only moves it on.
LEMMA Moved ==
    ASSUME TypeOK, NEW a \in Agents, NEW pc, To(a, pc)
    PROVE  proc'[a].pc = pc /\ proc'[a].mem = proc[a].mem /\ proc'[a].rebuild = proc[a].rebuild
  BY TypeParts DEF To, ProcessesOK, Process

LEMMA Ended ==
    ASSUME TypeOK, NEW a \in Agents, End(a)
    PROVE  proc'[a] = Idle
  BY TypeParts DEF End, ProcessesOK

\* An append takes nothing from the log, and adds the memory unless it was torn.
LEMMA AppendGrows ==
    ASSUME TypeOK, NEW a \in Agents, AppendLine(a)
    PROVE  Lines \subseteq Lines' /\ Mem(a) \in Lines' \cup lost'
  <1> DEFINE x == IF torn THEN Garbled ELSE Mem(a)
  <1>1. journal \in Seq(Line) /\ Mem(a) \in Memories
    BY WhereItStands, TypeParts DEF AppendLine, Remembering, TablesOK
  <1>2. journal' = Append(journal, x)
    BY DEF AppendLine, Appended
  <1>3. x \in Line
    BY <1>1 DEF Line
  <1> HIDE DEF x
  <1>4. /\ \A i \in DOMAIN journal : i \in DOMAIN journal' /\ journal'[i] = journal[i]
        /\ Len(journal) + 1 \in DOMAIN journal' /\ journal'[Len(journal) + 1] = x
    BY <1>1, <1>2, <1>3
  <1>5. Lines \subseteq Lines' /\ (x \in Memories => x \in Lines')
    BY <1>4 DEF Lines
  <1> QED
    BY <1>1, <1>5 DEF AppendLine, x

\* A step that leaves log, answers and box alone disturbs what nobody knows.
LEMMA QuietCanon ==
    ASSUME CanonInv, UNCHANGED <<journal, lost, answered, box>>
    PROVE  Lines' = Lines /\ AnsweredIsCanonical'
  BY DEF CanonInv, AnsweredIsCanonical, Lines

LEMMA BeginCanon ==
    ASSUME TypeOK, CanonInv, NEW a \in Agents,
           \/ \E m \in Memories, boxed \in BOOLEAN : Remember(a, m, boxed)
           \/ Rebuild(a)
    PROVE  CanonInv'
  <1>1. UNCHANGED <<journal, lost, answered, box>>
    BY DEF Remember, Rebuild, canon
  <1>2. PICK p \in Process : /\ Started(a, p)
                             /\ p.pc \in {"checking", "storing", "clearing graph"}
    <2>1. CASE Rebuild(a)
      <3> DEFINE q == [Idle EXCEPT !.pc = "clearing graph", !.rebuild = TRUE]
      <3>1. q \in Process /\ q.pc = "clearing graph"
        BY IdleIsProcess DEF Process, Rebuilding
      <3>2. Started(a, q)
        BY <2>1 DEF Rebuild
      <3> QED
        BY <3>1, <3>2
    <2>2. ASSUME NEW m \in Memories, NEW boxed \in BOOLEAN, Remember(a, m, boxed)
          PROVE  \E r \in Process : /\ Started(a, r)
                                    /\ r.pc \in {"checking", "storing", "clearing graph"}
      <3> DEFINE q == [Idle EXCEPT !.pc = IF m \in Large THEN "checking" ELSE "storing",
                                   !.mem = m, !.boxed = boxed]
      <3>1. q \in Process /\ q.pc \in {"checking", "storing", "clearing graph"}
        BY IdleIsProcess DEF Process, Remembering
      <3>2. Started(a, q)
        BY <2>2 DEF Remember
      <3> QED
        BY <3>1, <3>2
    <2> QED
      BY <2>1, <2>2
  <1>3. /\ \A b \in Agents \ {a} : Stays(b)
        /\ proc'[a].pc = p.pc
    BY <1>2, StartStays
  <1>4. CanonOK(a)'
    BY <1>2, <1>3 DEF CanonOK
  <1> QED
    BY <1>1, <1>3, <1>4, QuietCanon, CanonStep

\* Steps that leave log, answers and box alone.
LEMMA QuietStepCanon ==
    ASSUME TypeOK, CanonInv, NEW a \in Agents,
           \/ CheckBlob(a) \/ OpenBlob(a) \/ WriteBlob(a) \/ StoreRow(a)
           \/ Relate(a) \/ Refuse(a) \/ WriteAssertion(a) \/ ReadNumber(a)
           \/ ClearGraph(a) \/ ClearKnowledge(a) \/ ReadJournal(a)
           \/ Replay(a) \/ ReplayFails(a) \/ Rebuilt(a) \/ Abandon(a)
    PROVE  CanonInv'
  <1>1. UNCHANGED <<journal, lost, answered, box>>
    BY DEF CheckBlob, OpenBlob, WriteBlob, StoreRow, Relate, Refuse, WriteAssertion, ReadNumber,
           ClearGraph, ClearKnowledge, ReadJournal, Replay, ReplayFails, Rebuilt, Abandon, canon
  <1>2. \A b \in Agents \ {a} : Stays(b)
    BY StepStays DEF Step
  <1>3. Lines' = Lines /\ AnsweredIsCanonical' /\ CanonOK(a)
    BY <1>1, QuietCanon DEF CanonInv
  <1>4. CASE CheckBlob(a) \/ OpenBlob(a) \/ WriteBlob(a) \/ ClearGraph(a) \/ ClearKnowledge(a)
    <2>1. proc'[a].pc \in {"opening", "storing", "writing", "clearing knowledge", "reading"}
      BY <1>4, Moved DEF CheckBlob, OpenBlob, WriteBlob, ClearGraph, ClearKnowledge
    <2> QED
      BY <1>1, <1>2, <1>3, <2>1, CanonStep DEF CanonOK
  <1>5. CASE StoreRow(a)
    <2>1. proc'[a].pc \in {"relating", "appending"} /\ (proc'[a].pc = "relating" => proc'[a].rebuild)
      BY <1>5, Moved DEF StoreRow, AfterRow
    <2> QED
      BY <1>1, <1>2, <1>3, <2>1, CanonStep DEF CanonOK
  <1>6. CASE Relate(a)
    <2>1. /\ proc[a].pc = "relating" /\ Mem(a) \notin Bad
          /\ proc'[a].pc = "asserting" /\ Mem(a)' = Mem(a) /\ proc'[a].rebuild = proc[a].rebuild
      BY <1>6, Moved DEF Relate, Mem
    <2>2. CanonOK(a)'
      BY <1>1, <1>3, <2>1 DEF CanonOK
    <2> QED
      BY <1>1, <1>2, <1>3, <2>2, CanonStep
  <1>7. CASE WriteAssertion(a)
    <2>1. /\ proc[a].pc = "asserting"
          /\ proc'[a].pc \in {"replaying", "numbering", "answering"}
          /\ Mem(a)' = Mem(a) /\ proc'[a].rebuild = proc[a].rebuild
      BY <1>7, Moved DEF WriteAssertion, AfterAssertion, Mem
    <2>2. CanonOK(a)'
      BY <1>1, <1>3, <2>1 DEF CanonOK
    <2> QED
      BY <1>1, <1>2, <1>3, <2>2, CanonStep
  <1>8. CASE ReadNumber(a)
    <2>1. /\ proc[a].pc = "numbering"
          /\ proc'[a].pc = "boxing" /\ Mem(a)' = Mem(a) /\ proc'[a].rebuild = proc[a].rebuild
      BY <1>8, TypeParts DEF ReadNumber, ProcessesOK, Process, Mem
    <2>2. CanonOK(a)'
      BY <1>1, <1>3, <2>1 DEF CanonOK
    <2> QED
      BY <1>1, <1>2, <1>3, <2>2, CanonStep
  <1>9. CASE ReadJournal(a) \/ Replay(a)
    <2>1. proc'[a].pc \in {"replaying", "storing"}
      BY <1>9, TypeParts DEF ReadJournal, Replay, ProcessesOK, Process
    <2> QED
      BY <1>1, <1>2, <1>3, <2>1, CanonStep DEF CanonOK
  <1>10. CASE Refuse(a) \/ ReplayFails(a) \/ Rebuilt(a) \/ Abandon(a)
    <2>1. proc'[a].pc = "idle"
      BY <1>10, Ended, IdleIsProcess DEF Refuse, ReplayFails, Rebuilt, Abandon
    <2> QED
      BY <1>1, <1>2, <1>3, <2>1, CanonStep DEF CanonOK
  <1> QED
    BY <1>4, <1>5, <1>6, <1>7, <1>8, <1>9, <1>10

LEMMA AppendLineCanon ==
    ASSUME TypeOK, CanonInv, NEW a \in Agents, AppendLine(a)
    PROVE  CanonInv'
  <1>1. \A b \in Agents \ {a} : Stays(b)
    BY StepStays DEF Step
  <1>2. /\ Lines \subseteq Lines' /\ lost \subseteq lost' /\ UNCHANGED <<answered, box>>
        /\ Mem(a) \in Lines' \cup lost'
    BY AppendGrows DEF AppendLine
  <1>3. proc'[a].pc = "relating" /\ Mem(a)' = Mem(a)
    BY Moved DEF AppendLine, Mem
  <1>4. CanonOK(a)'
    BY <1>2, <1>3 DEF CanonOK
  <1>5. AnsweredIsCanonical'
    BY <1>2 DEF CanonInv, AnsweredIsCanonical
  <1> QED
    BY <1>1, <1>2, <1>4, <1>5, CanonStep

\* A box takes, and a caller gets, only what went through log and graph.
LEMMA GiveCanon ==
    ASSUME TypeOK, CanonInv, NEW a \in Agents, WriteBox(a) \/ Answer(a)
    PROVE  CanonInv'
  <1>1. \A b \in Agents \ {a} : Stays(b)
    BY StepStays DEF Step
  <1>2. Lines' = Lines /\ lost' = lost
    BY DEF WriteBox, Answer, canon, Lines
  <1>3. proc[a].pc \in {"boxing", "answering"} /\ ~proc[a].rebuild
    BY WhereItStands DEF WriteBox, Answer
  <1>4. Mem(a) \in (Lines \ Bad) \cup lost
    BY <1>3 DEF CanonInv, CanonOK
  <1>5. AnsweredIsCanonical'
    <2>1. CASE WriteBox(a)
      <3>1. answered' = answered /\ \A m \in Memories : box'[m] # 0 => box[m] # 0 \/ m = Mem(a)
        BY <2>1, TypeParts DEF WriteBox, Boxed, TablesOK
      <3> QED
        BY <1>2, <1>4, <3>1 DEF CanonInv, AnsweredIsCanonical
    <2>2. CASE Answer(a)
      BY <1>2, <1>4, <2>2 DEF Answer, CanonInv, AnsweredIsCanonical
    <2> QED
      BY <2>1, <2>2
  <1>6. CanonOK(a)'
    <2>1. CASE WriteBox(a)
      BY <1>2, <1>4, <2>1, Moved DEF WriteBox, CanonOK, Mem
    <2>2. CASE Answer(a)
      BY <2>2, Ended, IdleIsProcess DEF Answer, CanonOK
    <2> QED
      BY <2>1, <2>2
  <1> QED
    BY <1>1, <1>2, <1>5, <1>6, CanonStep

\* Whoever races, dies or rebuilds meanwhile: a memory whose id a caller was
\* given, or that a box lists, has its line in the canonical log, or was written
\* behind a torn one (store.remember, vault.remember).
THEOREM AnswersAreCanonical == Spec => []AnsweredIsCanonical
  <1>1. Init => CanonInv
    BY DEF Init, CanonInv, AnsweredIsCanonical, CanonOK, Idle
  <1>2. ASSUME TypeOK, CanonInv, [Next]_vars PROVE CanonInv'
    <2>1. CASE UNCHANGED vars
      <3>1. UNCHANGED <<journal, lost, answered, box, proc>>
        BY <2>1 DEF vars, canon
      <3> QED
        BY <1>2, <3>1 DEF CanonInv, AnsweredIsCanonical, CanonOK, Lines, Mem
    <2>2. CASE Next
      <3>1. PICK a \in Agents :
               \/ \E m \in Memories, boxed \in BOOLEAN : Remember(a, m, boxed)
               \/ Rebuild(a) \/ Step(a) \/ Abandon(a)
        BY <2>2 DEF Next
      <3>2. CASE Step(a)
        BY <1>2, <3>2, QuietStepCanon, AppendLineCanon, GiveCanon DEF Step
      <3> QED
        BY <1>2, <3>1, <3>2, BeginCanon, QuietStepCanon
    <2> QED
      BY <1>2, <2>1, <2>2
  <1>3. CanonInv => AnsweredIsCanonical
    BY DEF CanonInv
  <1> QED
    BY <1>1, <1>2, <1>3, VaultTypeCorrect, PTL DEF Spec

-----------------------------------------------------------------------------
\* Before any rebuild, what process a knows of the indexes it has written.
IndexOK(a) ==
    /\ ~proc[a].rebuild
    /\ proc[a].pc \in {"appending", "relating", "asserting", "numbering", "boxing", "answering"}
           => rows[Mem(a)] = "full"
    /\ proc[a].pc \in {"asserting", "numbering", "boxing", "answering"} => Mem(a) \in relations
    /\ proc[a].pc \in {"numbering", "boxing", "answering"} => Mem(a) \in assertions

IndexInv == AnsweredIsIndexed /\ (rebuilds = 0 => \A a \in Agents : IndexOK(a))

\* No step takes anything from the indexes.
Grows == /\ \A m \in Memories : rows[m] = "full" => rows'[m] = "full"
         /\ relations \subseteq relations' /\ assertions \subseteq assertions'

LEMMA IndexStep ==
    ASSUME TypeOK, IndexInv, NEW a \in Agents, rebuilds = 0, Grows,
           \A b \in Agents \ {a} : Stays(b), IndexOK(a)',
           \A m \in answered' \ answered : m = Mem(a) /\ proc[a].pc = "answering"
    PROVE  IndexInv'
  <1>1. ASSUME NEW b \in Agents \ {a} PROVE IndexOK(b)'
    <2>1. IndexOK(b) /\ Stays(b)
      BY DEF IndexInv
    <2>2. proc[b].pc \in Remembering => Mem(b) \in Memories
      BY WhereItStands
    <2> QED
      BY <2>1, <2>2 DEF IndexOK, Stays, Mem, Grows, Remembering
  <1>2. ASSUME NEW m \in answered'
        PROVE  m \in Memories /\ rows[m] = "full" /\ m \in relations \cap assertions
    <2>1. CASE m \in answered
      BY <2>1, TypeParts DEF IndexInv, AnsweredIsIndexed, TablesOK
    <2>2. CASE m \notin answered
      <3>1. m = Mem(a) /\ proc[a].pc = "answering" /\ IndexOK(a)
        BY <1>2, <2>2 DEF IndexInv
      <3> QED
        BY <3>1, WhereItStands DEF IndexOK, Remembering
    <2> QED
      BY <2>1, <2>2
  <1>3. AnsweredIsIndexed'
    BY <1>2 DEF AnsweredIsIndexed, Grows
  <1> QED
    BY <1>1, <1>3 DEF IndexInv

LEMMA RememberIndex ==
    ASSUME TypeOK, IndexInv, NEW a \in Agents, NEW m \in Memories, NEW boxed \in BOOLEAN,
           Remember(a, m, boxed), rebuilds = 0
    PROVE  IndexInv'
  <1> DEFINE p == [Idle EXCEPT !.pc = IF m \in Large THEN "checking" ELSE "storing",
                               !.mem = m, !.boxed = boxed]
  <1>1. p \in Process /\ p.pc \in {"checking", "storing"} /\ ~p.rebuild
    BY IdleIsProcess DEF Process, Remembering
  <1>2. Started(a, p)
    BY DEF Remember
  <1> HIDE DEF p
  <1>3. (\A b \in Agents \ {a} : Stays(b)) /\ IndexOK(a)'
    BY <1>1, <1>2, StartStays DEF IndexOK
  <1>4. Grows /\ answered' = answered
    BY DEF Remember, Grows, indexes
  <1> QED
    BY <1>3, <1>4, IndexStep

LEMMA StepIndex ==
    ASSUME TypeOK, IndexInv, NEW a \in Agents, Step(a) \/ Abandon(a), rebuilds = 0
    PROVE  IndexInv'
  <1>1. \A b \in Agents \ {a} : Stays(b)
    BY StepStays
  <1>2. IndexOK(a) /\ ~proc[a].rebuild
    BY DEF IndexInv, IndexOK
  <1>3. ~(ClearGraph(a) \/ ClearKnowledge(a) \/ ReadJournal(a) \/ Replay(a) \/ ReplayFails(a) \/ Rebuilt(a))
    BY <1>2, WhereItStands DEF ClearGraph, ClearKnowledge, ReadJournal, Replay, ReplayFails, Rebuilt
  <1>4. CASE CheckBlob(a) \/ OpenBlob(a) \/ WriteBlob(a)
    <2>1. Grows /\ answered' = answered
      BY <1>4 DEF CheckBlob, OpenBlob, WriteBlob, Grows, indexes
    <2>2. IndexOK(a)'
      BY <1>2, <1>4, Moved DEF CheckBlob, OpenBlob, WriteBlob, IndexOK
    <2> QED
      BY <1>1, <2>1, <2>2, IndexStep
  <1>5. CASE StoreRow(a)
    <2>1. Mem(a) \in Memories /\ rows \in [Memories -> {"none", "bare", "full"}]
      BY <1>5, WhereItStands, TypeParts DEF StoreRow, Remembering, TablesOK
    <2>2. rows' = [rows EXCEPT ![Mem(a)] = "full"]
      BY <1>2, <1>5 DEF StoreRow, TextOf
    <2>3. Grows /\ answered' = answered
      BY <1>5, <2>1, <2>2 DEF StoreRow, Grows
    <2>4. proc'[a].pc = "appending" /\ Mem(a)' = Mem(a) /\ ~proc'[a].rebuild
      BY <1>2, <1>5, Moved DEF StoreRow, AfterRow, Mem
    <2>5. IndexOK(a)'
      BY <2>1, <2>2, <2>4 DEF IndexOK
    <2> QED
      BY <1>1, <2>3, <2>5, IndexStep
  <1>6. CASE AppendLine(a)
    <2>1. Grows /\ answered' = answered /\ UNCHANGED indexes
      BY <1>6 DEF AppendLine, Grows, indexes
    <2>2. proc[a].pc = "appending" /\ proc'[a].pc = "relating" /\ Mem(a)' = Mem(a) /\ ~proc'[a].rebuild
      BY <1>2, <1>6, Moved DEF AppendLine, Mem
    <2>3. IndexOK(a)'
      BY <1>2, <2>1, <2>2 DEF IndexOK, indexes
    <2> QED
      BY <1>1, <2>1, <2>3, IndexStep
  <1>7. CASE Relate(a)
    <2>1. Grows /\ answered' = answered /\ rows' = rows
      BY <1>7 DEF Relate, Grows
    <2>2. proc[a].pc = "relating" /\ proc'[a].pc = "asserting" /\ Mem(a)' = Mem(a) /\ ~proc'[a].rebuild
      BY <1>2, <1>7, Moved DEF Relate, Mem
    <2>3. IndexOK(a)'
      BY <1>2, <1>7, <2>1, <2>2 DEF Relate, IndexOK
    <2> QED
      BY <1>1, <2>1, <2>3, IndexStep
  <1>8. CASE WriteAssertion(a)
    <2>1. Grows /\ answered' = answered /\ UNCHANGED <<rows, relations>> /\ Mem(a) \in assertions'
      BY <1>8 DEF WriteAssertion, Asserted, Grows
    <2>2. /\ proc[a].pc = "asserting" /\ proc'[a].pc \in {"numbering", "answering"}
          /\ Mem(a)' = Mem(a) /\ ~proc'[a].rebuild
      BY <1>2, <1>8, Moved DEF WriteAssertion, AfterAssertion, Mem
    <2>3. IndexOK(a)'
      BY <1>2, <2>1, <2>2 DEF IndexOK
    <2> QED
      BY <1>1, <2>1, <2>3, IndexStep
  <1>9. CASE ReadNumber(a) \/ WriteBox(a)
    <2>1. Grows /\ answered' = answered /\ UNCHANGED indexes
      BY <1>9 DEF ReadNumber, WriteBox, Grows, indexes
    <2>2. /\ proc[a].pc \in {"numbering", "boxing"} /\ proc'[a].pc \in {"boxing", "answering"}
          /\ Mem(a)' = Mem(a) /\ ~proc'[a].rebuild
      <3>1. CASE ReadNumber(a)
        BY <1>2, <3>1, TypeParts DEF ReadNumber, ProcessesOK, Process, Mem
      <3>2. CASE WriteBox(a)
        BY <1>2, <3>2, Moved DEF WriteBox, Mem
      <3> QED
        BY <1>9, <3>1, <3>2
    <2>3. IndexOK(a)'
      BY <1>2, <2>1, <2>2 DEF IndexOK, indexes
    <2> QED
      BY <1>1, <2>1, <2>3, IndexStep
  <1>10. CASE Refuse(a) \/ Abandon(a) \/ Answer(a)
    <2>1. /\ Grows
          /\ \A m \in answered' \ answered : m = Mem(a) /\ proc[a].pc = "answering"
      BY <1>10 DEF Refuse, Abandon, Answer, Grows, indexes
    <2>2. proc'[a] = Idle
      BY <1>10, Ended DEF Refuse, Abandon, Answer
    <2>3. IndexOK(a)'
      BY <2>2, IdleIsProcess DEF IndexOK
    <2> QED
      BY <1>1, <2>1, <2>3, IndexStep
  <1> QED
    BY <1>3, <1>4, <1>5, <1>6, <1>7, <1>8, <1>9, <1>10 DEF Step

\* A rebuild has begun, and the promise is void.
LEMMA RebuiltVoid ==
    ASSUME rebuilds' \in Nat \ {0}
    PROVE  IndexInv'
  BY DEF IndexInv, AnsweredIsIndexed

\* Until the first rebuild, an answered memory is in every index with its text:
\* each index is committed before the answer, and nothing but a rebuild takes
\* from an index, whoever races or dies (vault.remember).
THEOREM AnswersAreIndexed == Spec => []AnsweredIsIndexed
  <1>1. Init => IndexInv
    BY DEF Init, IndexInv, AnsweredIsIndexed, IndexOK, Idle
  <1>2. ASSUME TypeOK, IndexInv, [Next]_vars PROVE IndexInv'
    <2>1. CASE UNCHANGED vars
      <3>1. UNCHANGED <<indexes, answered, proc, rebuilds>>
        BY <2>1 DEF vars, calls
      <3> QED
        BY <1>2, <3>1 DEF IndexInv, AnsweredIsIndexed, IndexOK, indexes, Mem
    <2>2. CASE Next /\ rebuilds = 0
      <3>1. PICK a \in Agents :
               \/ \E m \in Memories, boxed \in BOOLEAN : Remember(a, m, boxed)
               \/ Rebuild(a) \/ Step(a) \/ Abandon(a)
        BY <2>2 DEF Next
      <3>2. CASE Rebuild(a)
        BY <2>2, <3>2, RebuiltVoid DEF Rebuild
      <3> QED
        BY <1>2, <2>2, <3>1, <3>2, RememberIndex, StepIndex
    <2>3. CASE Next /\ rebuilds # 0
      <3>1. rebuilds \in Nat
        BY <1>2, TypeParts DEF CountsOK
      <3>2. rebuilds' \in {rebuilds, rebuilds + 1}
        <4>1. ASSUME NEW a \in Agents, \E m \in Memories, boxed \in BOOLEAN : Remember(a, m, boxed)
              PROVE  rebuilds' = rebuilds
          BY <4>1 DEF Remember, calls
        <4>2. ASSUME NEW a \in Agents, Rebuild(a) \/ Abandon(a)
              PROVE  rebuilds' \in {rebuilds, rebuilds + 1}
          BY <4>2 DEF Rebuild, Abandon, calls
        <4>3. ASSUME NEW a \in Agents, Step(a)
              PROVE  rebuilds' = rebuilds
          <5>1. \/ CheckBlob(a) \/ OpenBlob(a) \/ WriteBlob(a) \/ StoreRow(a) \/ AppendLine(a)
                \/ Relate(a) \/ Refuse(a) \/ WriteAssertion(a)
                => rebuilds' = rebuilds
            BY DEF CheckBlob, OpenBlob, WriteBlob, StoreRow, AppendLine, Relate, Refuse,
               WriteAssertion, calls
          <5>2. \/ ReadNumber(a) \/ WriteBox(a) \/ Answer(a) \/ ClearGraph(a)
                \/ ClearKnowledge(a) \/ ReadJournal(a) \/ Replay(a) \/ ReplayFails(a)
                \/ Rebuilt(a)
                => rebuilds' = rebuilds
            BY DEF ReadNumber, WriteBox, Answer, ClearGraph, ClearKnowledge, ReadJournal,
               Replay, ReplayFails, Rebuilt, calls
          <5> QED
            BY <4>3, <5>1, <5>2 DEF Step
        <4> QED
          BY <2>3, <4>1, <4>2, <4>3 DEF Next
      <3> QED
        BY <2>3, <3>1, <3>2, RebuiltVoid
    <2> QED
      BY <1>2, <2>1, <2>2, <2>3
  <1>3. IndexInv => AnsweredIsIndexed
    BY DEF IndexInv
  <1> QED
    BY <1>1, <1>2, <1>3, VaultTypeCorrect, PTL DEF Spec

-----------------------------------------------------------------------------
\* Without crashes a part of the payload has its writer, and past the check of
\* the file there is one.
PayloadInv ==
    /\ crashes = 0 /\ blob = "partial" => \E a \in Agents : proc[a].pc = "writing"
    /\ \A a \in Agents :
          ~proc[a].rebuild /\ Mem(a) \in Large /\ proc[a].pc \in Remembering
              => proc[a].pc \in {"checking", "opening"} \/ blob # "none"
    /\ answered \cap Large # {} => blob # "none"

\* No step but that of a writer, and a crash, takes a writer away.
LEMMA PayloadStep ==
    ASSUME TypeOK, PayloadInv, NEW a \in Agents, \A b \in Agents \ {a} : Stays(b),
           blob' = blob \/ blob' = "whole" \/ (blob' = "partial" /\ proc'[a].pc = "writing"),
           crashes' \in Nat, crashes' = 0 => crashes = 0,
           (crashes' = 0 /\ blob' = "partial") => proc[a].pc # "writing",
           ~proc'[a].rebuild /\ Mem(a)' \in Large /\ proc'[a].pc \in Remembering
               => proc'[a].pc \in {"checking", "opening"} \/ blob' # "none",
           \A m \in answered' \ answered : m \in Large => blob # "none"
    PROVE  PayloadInv'
  <1>1. blob # "none" => blob' # "none"
    OBVIOUS
  <1>2. \A b \in Agents \ {a} : /\ proc'[b].pc = proc[b].pc /\ Mem(b)' = Mem(b)
                                /\ proc'[b].rebuild = proc[b].rebuild
    BY DEF Stays, Mem
  <1>3. (crashes' = 0 /\ blob' = "partial") => \E b \in Agents : proc'[b].pc = "writing"
    <2>1. ASSUME crashes' = 0, blob' = "partial"
          PROVE  \E b \in Agents : proc'[b].pc = "writing"
      <3>1. CASE proc'[a].pc = "writing"
        BY <3>1
      <3>2. CASE blob = "partial"
        <4>1. PICK b \in Agents : proc[b].pc = "writing"
          BY <2>1, <3>2 DEF PayloadInv
        <4>2. QED
          BY <1>2, <2>1, <4>1
      <3>3. QED
        BY <2>1, <3>1, <3>2
    <2>2. QED
      BY <2>1
  <1>4. ASSUME NEW b \in Agents,
               ~proc'[b].rebuild /\ Mem(b)' \in Large /\ proc'[b].pc \in Remembering
        PROVE  proc'[b].pc \in {"checking", "opening"} \/ blob' # "none"
    <2>1. CASE b = a
      BY <1>4, <2>1
    <2>2. CASE b # a
      BY <1>1, <1>2, <1>4, <2>2 DEF PayloadInv
    <2>3. QED
      BY <2>1, <2>2
  <1>5. answered' \cap Large # {} => blob' # "none"
    BY <1>1 DEF PayloadInv
  <1>6. QED
    BY <1>3, <1>4, <1>5 DEF PayloadInv

LEMMA BeginPayload ==
    ASSUME TypeOK, PayloadInv, NEW a \in Agents,
           \/ \E m \in Memories, boxed \in BOOLEAN : Remember(a, m, boxed)
           \/ Rebuild(a)
    PROVE  PayloadInv'
  <1>1. UNCHANGED <<blob, answered, crashes>> /\ proc[a].pc = "idle" /\ crashes' \in Nat
    BY TypeParts DEF Remember, Rebuild, canon, Busy, CountsOK
  <1>2. PICK p \in Process : /\ Started(a, p)
                             /\ p.pc = "checking" \/ p.rebuild \/ p.mem \notin Large
    <2>1. CASE Rebuild(a)
      <3> DEFINE q == [Idle EXCEPT !.pc = "clearing graph", !.rebuild = TRUE]
      <3>1. q \in Process /\ q.rebuild
        BY IdleIsProcess DEF Process, Rebuilding
      <3>2. Started(a, q)
        BY <2>1 DEF Rebuild
      <3> QED
        BY <3>1, <3>2
    <2>2. ASSUME NEW m \in Memories, NEW boxed \in BOOLEAN, Remember(a, m, boxed)
          PROVE  \E r \in Process : /\ Started(a, r)
                                    /\ r.pc = "checking" \/ r.rebuild \/ r.mem \notin Large
      <3> DEFINE q == [Idle EXCEPT !.pc = IF m \in Large THEN "checking" ELSE "storing",
                                   !.mem = m, !.boxed = boxed]
      <3>1. q \in Process /\ (q.pc = "checking" \/ q.mem \notin Large)
        BY IdleIsProcess DEF Process, Remembering
      <3>2. Started(a, q)
        BY <2>2 DEF Remember
      <3> QED
        BY <3>1, <3>2
    <2> QED
      BY <2>1, <2>2
  <1>3. /\ \A b \in Agents \ {a} : Stays(b)
        /\ proc'[a].pc = p.pc /\ proc'[a].rebuild = p.rebuild /\ Mem(a)' = p.mem
    BY <1>2, StartStays DEF Mem
  <1> QED
    BY <1>1, <1>2, <1>3, PayloadStep

LEMMA StepPayload ==
    ASSUME TypeOK, PayloadInv, NEW a \in Agents, Step(a) \/ Abandon(a)
    PROVE  PayloadInv'
  <1>1. \A b \in Agents \ {a} : Stays(b)
    BY StepStays
  <1>2. crashes \in Nat
    BY TypeParts DEF CountsOK
  <1>3. CASE CheckBlob(a)
    <2>1. /\ UNCHANGED <<blob, answered, crashes>> /\ proc[a].pc = "checking"
          /\ (proc'[a].pc = "opening" \/ blob # "none")
      BY <1>3, Moved DEF CheckBlob, canon, calls
    <2> QED
      BY <1>1, <1>2, <2>1, PayloadStep
  <1>4. CASE OpenBlob(a)
    <2>1. /\ UNCHANGED <<answered, crashes>> /\ proc[a].pc = "opening"
          /\ proc'[a].pc = "writing" /\ blob' = "partial"
      BY <1>4, Moved DEF OpenBlob, calls
    <2> QED
      BY <1>1, <1>2, <2>1, PayloadStep
  <1>5. CASE WriteBlob(a)
    <2>1. UNCHANGED <<answered, crashes>> /\ blob' = "whole"
      BY <1>5 DEF WriteBlob, BlobWritten, calls
    <2> QED
      BY <1>1, <1>2, <2>1, PayloadStep
  <1>6. CASE StoreRow(a) \/ AppendLine(a) \/ Relate(a) \/ WriteAssertion(a) \/ ReadNumber(a)
             \/ WriteBox(a)
    <2>1. /\ UNCHANGED <<blob, answered, crashes>>
          /\ proc[a].pc \in {"storing", "appending", "relating", "asserting", "numbering", "boxing"}
      BY <1>6 DEF StoreRow, AppendLine, Relate, WriteAssertion, ReadNumber, WriteBox, canon, calls
    <2>2. Mem(a)' = Mem(a) /\ proc'[a].rebuild = proc[a].rebuild
      BY <1>6, Moved, TypeParts DEF StoreRow, AppendLine, Relate, WriteAssertion, ReadNumber,
         WriteBox, Mem, ProcessesOK, Process
    <2>3. ~proc[a].rebuild /\ Mem(a) \in Large => blob # "none"
      BY <2>1 DEF PayloadInv, Remembering
    <2> QED
      BY <1>1, <1>2, <2>1, <2>2, <2>3, PayloadStep
  <1>7. CASE ClearGraph(a) \/ ClearKnowledge(a) \/ ReadJournal(a) \/ Replay(a)
    <2>1. UNCHANGED <<blob, answered, crashes>> /\ proc[a].rebuild /\ proc[a].pc # "writing"
      BY <1>7, WhereItStands DEF ClearGraph, ClearKnowledge, ReadJournal, Replay, canon, calls
    <2>2. proc'[a].rebuild = proc[a].rebuild
      <3>1. CASE ClearGraph(a) \/ ClearKnowledge(a)
        BY <3>1, Moved DEF ClearGraph, ClearKnowledge
      <3>2. CASE ReadJournal(a) \/ Replay(a)
        BY <3>2, TypeParts DEF ReadJournal, Replay, ProcessesOK, Process
      <3> QED
        BY <1>7, <3>1, <3>2
    <2> QED
      BY <1>1, <1>2, <2>1, <2>2, PayloadStep
  <1>8. CASE Refuse(a) \/ Answer(a) \/ ReplayFails(a) \/ Rebuilt(a) \/ Abandon(a)
    <2>1. proc'[a].pc = "idle"
      BY <1>8, Ended, IdleIsProcess DEF Refuse, Answer, ReplayFails, Rebuilt, Abandon
    <2>2. /\ blob' = blob /\ crashes' \in Nat
          /\ (crashes' = 0 => crashes = 0)
          /\ (crashes' = 0 => proc[a].pc # "writing")
      <3>1. CASE Abandon(a)
        <4>1. blob' = blob /\ crashes' = crashes + 1
          BY <3>1 DEF Abandon
        <4> QED
          BY <1>2, <4>1
      <3>2. CASE ~Abandon(a)
        BY <1>2, <1>8, <3>2 DEF Refuse, Answer, ReplayFails, Rebuilt, canon, calls
      <3> QED
        BY <3>1, <3>2
    <2>3. \A m \in answered' \ answered : m \in Large => blob # "none"
      <3>1. CASE Answer(a)
        <4>1. answered' = answered \cup {Mem(a)} /\ ~proc[a].rebuild /\ proc[a].pc = "answering"
          BY <3>1, WhereItStands DEF Answer
        <4> QED
          BY <4>1 DEF PayloadInv, Remembering
      <3>2. CASE ~Answer(a)
        BY <1>8, <3>2 DEF Refuse, ReplayFails, Rebuilt, Abandon
      <3> QED
        BY <3>1, <3>2
    <2>4. proc'[a].pc \notin Remembering
      BY <2>1 DEF Remembering
    <2> QED
      BY <1>1, <2>2, <2>3, <2>4, PayloadStep
  <1> QED
    BY <1>3, <1>4, <1>5, <1>6, <1>7, <1>8 DEF Step

\* Without crashes, an answered large memory has its payload on disk unless some
\* process is inside write_bytes of the same payload: a file that exists is not
\* written again, so the one who finds a part of it answers before its writer
\* (_externalize_large_payloads).
THEOREM PayloadsAreWhole == Spec => []AnsweredPayloadIsWhole
  <1>1. Init => PayloadInv
    BY DEF Init, PayloadInv, Idle, Remembering
  <1>2. ASSUME TypeOK, PayloadInv, [Next]_vars PROVE PayloadInv'
    <2>1. CASE UNCHANGED vars
      <3>1. UNCHANGED <<blob, answered, proc, crashes>>
        BY <2>1 DEF vars, canon, calls
      <3> QED
        BY <1>2, <3>1 DEF PayloadInv, Mem
    <2>2. CASE Next
      BY <1>2, <2>2, BeginPayload, StepPayload DEF Next
    <2> QED
      BY <1>2, <2>1, <2>2
  <1>3. TypeOK /\ PayloadInv => AnsweredPayloadIsWhole
    BY TypeParts DEF PayloadInv, AnsweredPayloadIsWhole, TablesOK
  <1> QED
    BY <1>1, <1>2, <1>3, VaultTypeCorrect, PTL DEF Spec

-----------------------------------------------------------------------------
Only(a) == \A b \in Agents : proc[b].pc # "idle" => b = a

\* The memories a rebuild has still to replay.
Ahead(a) == IF proc[a].rebuild THEN {proc[a].todo[i] : i \in DOMAIN proc[a].todo} \cap Memories
            ELSE {}

\* The indexes are what the log says once the memories R have their rows, X
\* their relations and A their assertions.
Upto(R, X, A) == /\ Rows \cup R = Lines
                 /\ relations \cup (X \ Bad) = Lines \ Bad
                 /\ assertions \cup (A \ Bad) = Lines \ Bad

\* What is left to write of the indexes for process a, which is alone.
Pending(a) ==
    LET T == Ahead(a)
        TM == T \cup {Mem(a)}
    IN  /\ proc[a].pc \in {"checking", "opening", "writing", "numbering", "boxing", "answering",
                           "replaying"} => Upto(T, T, T)
        /\ proc[a].pc = "storing" => IF proc[a].rebuild THEN Upto(TM, TM, TM) ELSE Upto(T, T, T)
        /\ proc[a].pc = "appending" => /\ Rows = Lines \cup {Mem(a)}
                                       /\ relations = Lines \ Bad /\ assertions = Lines \ Bad
        /\ proc[a].pc = "relating" => Upto(T, TM, TM) /\ Mem(a) \in Lines
        /\ proc[a].pc = "asserting" => Upto(T, T, TM) /\ Mem(a) \in Lines \ Bad
        /\ proc[a].pc = "clearing graph" => Rows = {}
        /\ proc[a].pc = "clearing knowledge" => Rows = {} /\ relations = {}
        /\ proc[a].pc = "reading" => Rows = {} /\ relations = {} /\ assertions = {}
        /\ proc[a].rebuild /\ torn /\ proc[a].pc \in Remembering \cup {"replaying"}
               => \E i \in DOMAIN proc[a].todo : proc[a].todo[i] = Garbled

\* A process that is alone is the only one in a call.  In a known history the
\* log has no torn end, whoever is in a call is alone, and has left to write
\* what Pending says; so has a rebuild that is alone in any history.
FollowInv ==
    /\ \A a \in Agents : proc[a].pc # "idle" /\ proc[a].alone => Only(a)
    /\ history # "unknown" => /\ ~torn
                              /\ \A a \in Agents : proc[a].pc # "idle" => proc[a].alone
                              /\ (\A a \in Agents : proc[a].pc = "idle") => Upto({}, {}, {})
    /\ \A a \in Agents : (/\ proc[a].pc # "idle" /\ proc[a].alone
                          /\ proc[a].rebuild \/ history # "unknown") => Pending(a)

\* A step of process a.  If it is not alone, nobody is and the history is
\* unknown; if it is, only what it has left to write matters.
LEMMA FollowStep ==
    ASSUME FollowInv, NEW a \in Agents, proc[a].pc # "idle",
           \A b \in Agents \ {a} : proc'[b] = proc[b],
           proc'[a].pc # "idle" => proc'[a].alone = proc[a].alone,
           history' = "unknown" \/ history' = history \/ proc[a].alone,
           (proc[a].alone /\ history' # "unknown") =>
               ~torn' /\ (proc'[a].pc = "idle" => Upto({}, {}, {})'),
           (/\ proc[a].alone /\ proc'[a].pc # "idle"
            /\ proc'[a].rebuild \/ history' # "unknown") => Pending(a)'
    PROVE  FollowInv'
  <1>1. CASE ~proc[a].alone
    <2>1. history = "unknown" /\ history' = "unknown"
      BY <1>1 DEF FollowInv
    <2>2. \A b \in Agents : proc'[b].pc # "idle" => ~proc'[b].alone
      BY <1>1 DEF FollowInv, Only
    <2> QED
      BY <2>1, <2>2 DEF FollowInv
  <1>2. CASE proc[a].alone
    <2>1. \A b \in Agents \ {a} : proc[b].pc = "idle" /\ proc'[b].pc = "idle"
      BY <1>2 DEF FollowInv, Only
    <2>2. Only(a)'
      BY <2>1 DEF Only
    <2> QED
      BY <1>2, <2>1, <2>2 DEF FollowInv
  <1> QED
    BY <1>1, <1>2

\* Calls that begin inside another's are not alone, nor is that one any more;
\* one that begins alone finds the indexes as the log says, or starts to clear
\* them.
LEMMA BeginFollow ==
    ASSUME TypeOK, FollowInv, NEW a \in Agents,
           \/ \E m \in Memories, boxed \in BOOLEAN : Remember(a, m, boxed)
           \/ Rebuild(a)
    PROVE  FollowInv'
  <1>1. PICK p \in Process :
            /\ Started(a, p)
            /\ \/ ~p.rebuild /\ p.pc \in {"checking", "storing"} /\ rows' = rows
               \/ p.rebuild /\ p.pc = "clearing graph" /\ Rows' = {}
    <2>1. CASE Rebuild(a)
      <3> DEFINE q == [Idle EXCEPT !.pc = "clearing graph", !.rebuild = TRUE]
      <3>1. q \in Process /\ q.rebuild /\ q.pc = "clearing graph"
        BY IdleIsProcess DEF Process, Rebuilding
      <3>2. Started(a, q) /\ Rows' = {}
        BY <2>1 DEF Rebuild, Rows
      <3> QED
        BY <3>1, <3>2
    <2>2. ASSUME NEW m \in Memories, NEW boxed \in BOOLEAN, Remember(a, m, boxed)
          PROVE  \E r \in Process :
                     /\ Started(a, r) /\ ~r.rebuild /\ r.pc \in {"checking", "storing"}
                     /\ rows' = rows
      <3> DEFINE q == [Idle EXCEPT !.pc = IF m \in Large THEN "checking" ELSE "storing",
                                   !.mem = m, !.boxed = boxed]
      <3>1. q \in Process /\ q.pc \in {"checking", "storing"} /\ ~q.rebuild
        BY IdleIsProcess DEF Process, Remembering
      <3>2. Started(a, q) /\ rows' = rows
        BY <2>2 DEF Remember, indexes
      <3> QED
        BY <3>1, <3>2
    <2> QED
      BY <2>1, <2>2
  <1>2. /\ UNCHANGED <<journal, torn, relations, assertions>> /\ Overlapping
    BY DEF Remember, Rebuild, canon, indexes
  <1>3. Lines' = Lines
    BY <1>2 DEF Lines
  <1>4. proc \in [Agents -> Process]
    BY TypeParts DEF ProcessesOK
  <1>5. ASSUME NEW r \in Process, NEW flag \in BOOLEAN
        PROVE  LET q == [r EXCEPT !.alone = flag] IN
               q.alone = flag /\ q.pc = r.pc /\ q.rebuild = r.rebuild
    BY DEF Process
  <1>6. /\ proc'[a].alone = (Busy = {}) /\ proc'[a].pc = p.pc /\ proc'[a].rebuild = p.rebuild
        /\ \A b \in Agents \ {a} : ~proc'[b].alone /\ proc'[b].pc = proc[b].pc
    <2>1. (Busy = {}) \in BOOLEAN
      OBVIOUS
    <2>2. /\ proc'[a] = [p EXCEPT !.alone = Busy = {}]
          /\ \A b \in Agents \ {a} : proc'[b] = [proc[b] EXCEPT !.alone = FALSE]
      BY <1>1 DEF Started
    <2>3. /\ proc'[a].alone = (Busy = {}) /\ proc'[a].pc = p.pc
          /\ proc'[a].rebuild = p.rebuild
      <3> DEFINE flag == Busy = {}
      <3>1. flag \in BOOLEAN /\ proc'[a] = [p EXCEPT !.alone = flag]
        BY <2>1, <2>2
      <3> HIDE DEF flag
      <3>2. proc'[a].alone = flag /\ proc'[a].pc = p.pc /\ proc'[a].rebuild = p.rebuild
        BY <1>5, <3>1
      <3> QED
        BY <3>2 DEF flag
    <2>4. ASSUME NEW b \in Agents \ {a}
          PROVE  ~proc'[b].alone /\ proc'[b].pc = proc[b].pc
      <3>1. proc[b] \in Process
        BY <1>4
      <3>2. proc'[b] = [proc[b] EXCEPT !.alone = FALSE]
        BY <2>2
      <3> QED
        BY <1>5, <3>1, <3>2
    <2> QED
      BY <2>3, <2>4
  <1>7. CASE Busy # {}
    <2>1. history' = "unknown" /\ \A b \in Agents : ~proc'[b].alone
      BY <1>2, <1>6, <1>7 DEF Overlapping
    <2> QED
      BY <2>1 DEF FollowInv
  <1>8. CASE Busy = {}
    <2>1. history' = history /\ \A b \in Agents \ {a} : proc'[b].pc = "idle"
      BY <1>2, <1>6, <1>8 DEF Overlapping, Busy
    <2>2. history # "unknown" => ~torn /\ Upto({}, {}, {})
      BY <1>8 DEF FollowInv, Busy
    <2>3. ASSUME proc'[a].rebuild \/ history' # "unknown"
          PROVE  Pending(a)'
      <3>1. CASE p.rebuild
        BY <1>1, <1>6, <3>1 DEF Pending, Remembering
      <3>2. CASE ~p.rebuild
        <4>1. Upto({}, {}, {}) /\ Rows' = Rows /\ Ahead(a)' = {}
          BY <1>1, <1>6, <2>1, <2>2, <2>3, <3>2 DEF Rows, Ahead
        <4>2. Upto(Ahead(a), Ahead(a), Ahead(a))'
          BY <1>2, <1>3, <4>1 DEF Upto
        <4> QED
          BY <1>1, <1>6, <3>2, <4>2 DEF Pending
      <3> QED
        BY <3>1, <3>2
    <2> QED
      BY <1>1, <1>2, <1>6, <1>8, <2>1, <2>2, <2>3 DEF FollowInv, Only
  <1> QED
    BY <1>7, <1>8

\* What FollowInv says of a process that moves and is alone.
LEMMA WhatIsPending ==
    ASSUME TypeOK, FollowInv, NEW a \in Agents, proc[a].pc # "idle", proc[a].alone
    PROVE  /\ history # "unknown" => ~torn /\ Pending(a)
           /\ proc[a].rebuild => Pending(a)
  BY DEF FollowInv

\* The record of a process that a step of another leaves alone.
LEMMA OthersStay ==
    ASSUME TypeOK, NEW a \in Agents, Step(a) \/ Abandon(a)
    PROVE  \A b \in Agents \ {a} : proc'[b] = proc[b]
  <1>1. proc \in [Agents -> Process]
    BY TypeParts DEF ProcessesOK
  <1> QED
    BY <1>1 DEF Step, Abandon, CheckBlob, OpenBlob, WriteBlob, StoreRow, AppendLine, Relate,
       Refuse, WriteAssertion, ReadNumber, WriteBox, Answer, ClearGraph, ClearKnowledge,
       ReadJournal, Replay, ReplayFails, Rebuilt, To, End

\* What a step that only moves a process on keeps of its record.
LEMMA MovedOn ==
    ASSUME TypeOK, NEW a \in Agents, NEW pc, To(a, pc)
    PROVE  /\ proc'[a].pc = pc /\ Mem(a)' = Mem(a) /\ proc'[a].rebuild = proc[a].rebuild
           /\ proc'[a].alone = proc[a].alone /\ proc'[a].todo = proc[a].todo
           /\ Ahead(a)' = Ahead(a)
  <1>1. /\ proc'[a].pc = pc /\ proc'[a].mem = proc[a].mem /\ proc'[a].rebuild = proc[a].rebuild
        /\ proc'[a].alone = proc[a].alone /\ proc'[a].todo = proc[a].todo
    BY TypeParts DEF To, ProcessesOK, Process
  <1> QED
    BY <1>1 DEF Mem, Ahead

\* Steps of a call that change no index and no line.
LEMMA QuietFollow ==
    ASSUME TypeOK, FollowInv, NEW a \in Agents,
           \/ CheckBlob(a) \/ OpenBlob(a) \/ WriteBlob(a) \/ ReadNumber(a) \/ WriteBox(a)
           \/ Answer(a)
    PROVE  FollowInv'
  <1>1. /\ UNCHANGED <<journal, torn, rows, relations, assertions, history>>
        /\ proc[a].pc \in {"checking", "opening", "writing", "numbering", "boxing", "answering"}
    BY DEF CheckBlob, OpenBlob, WriteBlob, ReadNumber, WriteBox, Answer, canon, indexes
  <1>2. Lines' = Lines /\ Rows' = Rows /\ ~proc[a].rebuild /\ Ahead(a) = {}
    BY <1>1, WhereItStands DEF Lines, Rows, Ahead
  <1>3. \A b \in Agents \ {a} : proc'[b] = proc[b]
    BY OthersStay DEF Step
  <1>4. (proc[a].alone /\ history' # "unknown") => ~torn' /\ Upto({}, {}, {})'
    <2>1. (proc[a].alone /\ history # "unknown") => ~torn /\ Upto({}, {}, {})
      BY <1>1, <1>2, WhatIsPending DEF Pending
    <2> QED
      BY <1>1, <1>2, <2>1 DEF Upto
  <1>5. CASE Answer(a)
    <2>1. proc'[a].pc = "idle"
      BY <1>5, Ended, IdleIsProcess DEF Answer
    <2> QED
      BY <1>1, <1>3, <1>4, <2>1, FollowStep
  <1>6. CASE ~Answer(a)
    <2>1. /\ proc'[a].pc \in {"opening", "storing", "writing", "boxing", "answering"}
          /\ ~proc'[a].rebuild /\ proc'[a].alone = proc[a].alone
      <3>1. CASE ReadNumber(a)
        BY <1>2, <3>1, TypeParts DEF ReadNumber, ProcessesOK, Process
      <3>2. CASE CheckBlob(a) \/ OpenBlob(a) \/ WriteBlob(a) \/ WriteBox(a)
        BY <1>2, <3>2, MovedOn DEF CheckBlob, OpenBlob, WriteBlob, WriteBox
      <3> QED
        BY <1>6, <3>1, <3>2
    <2>2. Ahead(a)' = {}
      BY <2>1 DEF Ahead
    <2>3. (proc[a].alone /\ history' # "unknown") => Pending(a)'
      BY <1>4, <2>1, <2>2 DEF Pending
    <2> QED
      BY <1>1, <1>3, <1>4, <2>1, <2>3, FollowStep
  <1> QED
    BY <1>5, <1>6

LEMMA StoreRowFollow ==
    ASSUME TypeOK, FollowInv, NEW a \in Agents, StoreRow(a)
    PROVE  FollowInv'
  <1>1. /\ UNCHANGED <<journal, torn, relations, assertions, history>>
        /\ proc[a].pc = "storing" /\ rows' = [rows EXCEPT ![Mem(a)] = TextOf(a)]
        /\ To(a, AfterRow(a))
    BY DEF StoreRow, canon
  <1>2. Mem(a) \in Memories /\ rows \in [Memories -> {"none", "bare", "full"}]
        /\ proc[a].rebuild \in BOOLEAN
    BY <1>1, WhereItStands, TypeParts DEF Remembering, TablesOK
  <1>3. Rows' = Rows \cup {Mem(a)} /\ Lines' = Lines
    BY <1>1, <1>2 DEF Rows, Lines, TextOf
  <1>4. /\ proc'[a].pc = AfterRow(a) /\ Mem(a)' = Mem(a) /\ proc'[a].rebuild = proc[a].rebuild
        /\ proc'[a].alone = proc[a].alone /\ proc'[a].todo = proc[a].todo
        /\ Ahead(a)' = Ahead(a)
    BY <1>1, MovedOn
  <1>5. \A b \in Agents \ {a} : proc'[b] = proc[b]
    BY OthersStay DEF Step
  <1>6. ASSUME proc[a].alone, proc[a].rebuild \/ history # "unknown"
        PROVE  Pending(a)'
    <2>1. Pending(a)
      BY <1>1, <1>6, WhatIsPending
    <2>2. CASE proc[a].rebuild
      <3>1. Upto(Ahead(a) \cup {Mem(a)}, Ahead(a) \cup {Mem(a)}, Ahead(a) \cup {Mem(a)})
        BY <1>1, <2>1, <2>2 DEF Pending
      <3>2. Mem(a) \in Lines
        BY <3>1 DEF Upto
      <3>3. Upto(Ahead(a), Ahead(a) \cup {Mem(a)}, Ahead(a) \cup {Mem(a)})'
        BY <1>1, <1>3, <1>4, <3>1 DEF Upto
      <3>4. proc'[a].pc = "relating"
        BY <1>4, <2>2 DEF AfterRow
      <3>5. torn' => \E i \in DOMAIN proc'[a].todo : proc'[a].todo[i] = Garbled
        BY <1>1, <1>4, <2>1, <2>2 DEF Pending, Remembering
      <3> QED
        BY <1>3, <1>4, <3>2, <3>3, <3>4, <3>5 DEF Pending
    <2>3. CASE ~proc[a].rebuild
      <3>1. Upto(Ahead(a), Ahead(a), Ahead(a)) /\ Ahead(a) = {}
        BY <1>1, <2>1, <2>3 DEF Pending, Ahead
      <3>2. proc'[a].pc = "appending" /\ ~proc'[a].rebuild
        BY <1>4, <2>3 DEF AfterRow
      <3>3. /\ Rows' = Lines' \cup {Mem(a)'}
            /\ relations' = Lines' \ Bad /\ assertions' = Lines' \ Bad
        BY <1>1, <1>3, <1>4, <3>1 DEF Upto
      <3> QED
        BY <3>2, <3>3 DEF Pending
    <2> QED
      BY <1>2, <2>2, <2>3
  <1>7. proc'[a].pc # "idle" /\ (history # "unknown" => ~torn)
    BY <1>4 DEF AfterRow, FollowInv
  <1> QED
    BY <1>1, <1>4, <1>5, <1>6, <1>7, FollowStep

\* In a known history the log has no torn end, so an append adds its memory.
LEMMA AppendLineFollow ==
    ASSUME TypeOK, FollowInv, NEW a \in Agents, AppendLine(a)
    PROVE  FollowInv'
  <1>1. /\ UNCHANGED <<rows, relations, assertions, history>> /\ ~torn'
        /\ proc[a].pc = "appending" /\ To(a, "relating")
        /\ journal' = Append(journal, IF torn THEN Garbled ELSE Mem(a))
    BY DEF AppendLine, indexes, Appended
  <1>2. Mem(a) \in Memories /\ journal \in Seq(Line) /\ ~proc[a].rebuild /\ Rows' = Rows
    BY <1>1, WhereItStands, TypeParts DEF Remembering, TablesOK, Rows
  <1>3. ~torn => Lines' = Lines \cup {Mem(a)}
    <2>1. ASSUME ~torn PROVE Lines' = Lines \cup {Mem(a)}
      <3>1. journal' = Append(journal, Mem(a))
        BY <1>1, <2>1
      <3>2. /\ DOMAIN journal' = DOMAIN journal \cup {Len(journal) + 1}
            /\ \A i \in DOMAIN journal : journal'[i] = journal[i]
            /\ journal'[Len(journal) + 1] = Mem(a)
        BY <1>2, <3>1
      <3> QED
        BY <1>2, <3>2 DEF Lines
    <2> QED
      BY <2>1
  <1>4. /\ proc'[a].pc = "relating" /\ Mem(a)' = Mem(a) /\ proc'[a].rebuild = proc[a].rebuild
        /\ proc'[a].alone = proc[a].alone /\ Ahead(a)' = {}
    BY <1>1, <1>2, MovedOn DEF Ahead
  <1>5. \A b \in Agents \ {a} : proc'[b] = proc[b]
    BY OthersStay DEF Step
  <1>6. ASSUME proc[a].alone, history # "unknown"
        PROVE  Pending(a)'
    <2>1. ~torn /\ Rows = Lines \cup {Mem(a)} /\ relations = Lines \ Bad /\ assertions = Lines \ Bad
      BY <1>1, <1>6, WhatIsPending DEF Pending
    <2>2. Lines' = Lines \cup {Mem(a)}
      BY <1>3, <2>1
    <2>3. Upto({}, {Mem(a)}, {Mem(a)})'
      BY <1>1, <1>2, <1>4, <2>1, <2>2 DEF Upto
    <2> QED
      BY <1>2, <1>4, <2>2, <2>3 DEF Pending
  <1> QED
    BY <1>1, <1>2, <1>4, <1>5, <1>6, FollowStep

LEMMA IndexFollow ==
    ASSUME TypeOK, FollowInv, NEW a \in Agents, Relate(a) \/ WriteAssertion(a)
    PROVE  FollowInv'
  <1>1. /\ UNCHANGED <<journal, torn, rows, history>> /\ Lines' = Lines /\ Rows' = Rows
    BY DEF Relate, WriteAssertion, canon, Lines, Rows
  <1>2. Mem(a) \in Memories /\ proc[a].rebuild \in BOOLEAN
    BY WhereItStands DEF Relate, WriteAssertion, Remembering
  <1>3. \A b \in Agents \ {a} : proc'[b] = proc[b]
    BY OthersStay DEF Step
  <1>4. PICK pc \in {"asserting", "replaying", "numbering", "answering"} :
            /\ To(a, pc)
            /\ Relate(a) => pc = "asserting"
            /\ WriteAssertion(a) => pc # "asserting" /\ (pc = "replaying" <=> proc[a].rebuild)
    BY DEF Relate, WriteAssertion, AfterAssertion
  <1>5. /\ proc'[a].pc = pc /\ Mem(a)' = Mem(a) /\ proc'[a].rebuild = proc[a].rebuild
        /\ proc'[a].alone = proc[a].alone /\ proc'[a].todo = proc[a].todo
        /\ Ahead(a)' = Ahead(a)
    BY <1>4, MovedOn
  <1>6. proc[a].pc \in {"relating", "asserting"}
    BY DEF Relate, WriteAssertion
  <1>7. ASSUME proc[a].alone, proc[a].rebuild \/ history # "unknown"
        PROVE  Pending(a)'
    <2>1. Pending(a)
      BY <1>6, <1>7, WhatIsPending
    <2>2. (proc'[a].rebuild /\ torn') => \E i \in DOMAIN proc'[a].todo : proc'[a].todo[i] = Garbled
      BY <1>1, <1>5, <1>6, <2>1 DEF Pending, Remembering
    <2>3. CASE Relate(a)
      <3>1. /\ Upto(Ahead(a), Ahead(a) \cup {Mem(a)}, Ahead(a) \cup {Mem(a)}) /\ Mem(a) \in Lines
            /\ Mem(a) \notin Bad /\ relations' = relations \cup {Mem(a)}
            /\ assertions' = assertions
        BY <2>1, <2>3 DEF Relate, Pending
      <3>2. Upto(Ahead(a), Ahead(a), Ahead(a) \cup {Mem(a)})'
        BY <1>1, <1>5, <3>1 DEF Upto
      <3> QED
        BY <1>1, <1>4, <1>5, <2>2, <2>3, <3>1, <3>2 DEF Pending
    <2>4. CASE WriteAssertion(a)
      <3>1. /\ Upto(Ahead(a), Ahead(a), Ahead(a) \cup {Mem(a)}) /\ Mem(a) \in Lines \ Bad
            /\ assertions' = assertions \cup {Mem(a)} /\ relations' = relations
        BY <2>1, <2>4 DEF WriteAssertion, Asserted, Pending
      <3>2. Upto(Ahead(a), Ahead(a), Ahead(a))'
        BY <1>1, <1>5, <3>1 DEF Upto
      <3> QED
        BY <1>4, <1>5, <2>2, <2>4, <3>2 DEF Pending
    <2> QED
      BY <2>3, <2>4
  <1>8. proc'[a].pc # "idle" /\ proc[a].pc # "idle" /\ (history # "unknown" => ~torn)
    BY <1>5, <1>6 DEF FollowInv
  <1> QED
    BY <1>1, <1>3, <1>5, <1>7, <1>8, FollowStep

LEMMA ClearFollow ==
    ASSUME TypeOK, FollowInv, NEW a \in Agents, ClearGraph(a) \/ ClearKnowledge(a)
    PROVE  FollowInv'
  <1>1. /\ UNCHANGED <<journal, torn, rows, history>> /\ Rows' = Rows /\ proc[a].rebuild
        /\ proc[a].pc \in {"clearing graph", "clearing knowledge"}
    BY WhereItStands DEF ClearGraph, ClearKnowledge, canon, Rows
  <1>2. \A b \in Agents \ {a} : proc'[b] = proc[b]
    BY OthersStay DEF Step
  <1>3. proc[a].alone => Pending(a)
    BY <1>1, WhatIsPending
  <1>4. /\ proc'[a].alone = proc[a].alone
        /\ \/ ClearGraph(a) /\ proc'[a].pc = "clearing knowledge"
           \/ ClearKnowledge(a) /\ proc'[a].pc = "reading"
    BY MovedOn DEF ClearGraph, ClearKnowledge
  <1>5. proc[a].alone => Pending(a)'
    <2>1. CASE ClearGraph(a) /\ proc'[a].pc = "clearing knowledge"
      BY <1>1, <1>3, <2>1 DEF ClearGraph, Pending, Remembering
    <2>2. CASE ClearKnowledge(a) /\ proc'[a].pc = "reading"
      BY <1>1, <1>3, <2>2 DEF ClearKnowledge, Pending, Remembering
    <2> QED
      BY <1>4, <2>1, <2>2
  <1>6. proc'[a].pc # "idle" /\ proc[a].pc # "idle" /\ (history # "unknown" => ~torn)
    BY <1>1, <1>4 DEF FollowInv
  <1> QED
    BY <1>1, <1>2, <1>4, <1>5, <1>6, FollowStep

\* The whole log is still to replay, and a torn end with it.
LEMMA ReadJournalFollow ==
    ASSUME TypeOK, FollowInv, NEW a \in Agents, ReadJournal(a)
    PROVE  FollowInv'
  <1> DEFINE todo == IF torn THEN Append(journal, Garbled) ELSE journal
             p == [proc[a] EXCEPT !.pc = "replaying", !.todo = todo]
  <1>1. /\ UNCHANGED <<journal, torn, rows, relations, assertions, history>>
        /\ proc[a].pc = "reading" /\ proc[a].rebuild /\ proc' = [proc EXCEPT ![a] = p]
        /\ Rows' = Rows /\ Lines' = Lines
    BY WhereItStands DEF ReadJournal, canon, indexes, Rows, Lines
  <1>2. journal \in Seq(Line) /\ todo \in Seq(Line)
        /\ {todo[i] : i \in DOMAIN todo} \cap Memories = Lines
        /\ (torn => \E i \in DOMAIN todo : todo[i] = Garbled)
    <2>1. journal \in Seq(Line) /\ Garbled \in Line
      BY TypeParts DEF TablesOK, Line
    <2>2. CASE torn
      <3>1. todo = Append(journal, Garbled)
        BY <2>2
      <3>2. /\ DOMAIN todo = DOMAIN journal \cup {Len(journal) + 1}
            /\ \A i \in DOMAIN journal : todo[i] = journal[i]
            /\ todo[Len(journal) + 1] = Garbled /\ todo \in Seq(Line)
        BY <2>1, <3>1
      <3> QED
        BY <2>1, <2>2, <3>2, VaultAssumption DEF Lines
    <2>3. CASE ~torn
      BY <2>1, <2>3 DEF Lines
    <2> QED
      BY <2>2, <2>3
  <1> HIDE DEF todo
  <1>3. proc \in [Agents -> Process] /\ proc[a] \in Process
    BY TypeParts DEF ProcessesOK
  <1>4. /\ p.pc = "replaying" /\ p.rebuild = proc[a].rebuild /\ p.alone = proc[a].alone
        /\ p.todo = todo
    BY <1>3 DEF Process
  <1> HIDE DEF p
  <1>5. proc'[a] = p
    BY <1>1, <1>3
  <1>6. \A b \in Agents \ {a} : proc'[b] = proc[b]
    BY OthersStay DEF Step
  <1>7. Ahead(a)' = Lines
    BY <1>1, <1>2, <1>4, <1>5 DEF Ahead
  <1>8. ASSUME proc[a].alone
        PROVE  Pending(a)'
    <2>1. Rows = {} /\ relations = {} /\ assertions = {}
      BY <1>1, <1>8, WhatIsPending DEF Pending
    <2>2. Upto(Ahead(a), Ahead(a), Ahead(a))'
      BY <1>1, <1>7, <2>1 DEF Upto
    <2> QED
      BY <1>1, <1>2, <1>4, <1>5, <2>2 DEF Pending
  <1>9. proc'[a].pc # "idle" /\ proc[a].pc # "idle" /\ (history # "unknown" => ~torn)
    BY <1>1, <1>4, <1>5 DEF FollowInv
  <1> QED
    BY <1>1, <1>4, <1>5, <1>6, <1>8, <1>9, FollowStep

LEMMA ReplayFollow ==
    ASSUME TypeOK, FollowInv, NEW a \in Agents, Replay(a)
    PROVE  FollowInv'
  <1> DEFINE todo == proc[a].todo
             m == Head(todo)
             p == [proc[a] EXCEPT !.pc = "storing", !.mem = m, !.todo = Tail(todo)]
  <1>1. /\ UNCHANGED <<journal, torn, rows, relations, assertions, history>>
        /\ proc[a].pc = "replaying" /\ proc[a].rebuild /\ proc' = [proc EXCEPT ![a] = p]
        /\ Rows' = Rows /\ Lines' = Lines /\ todo # <<>> /\ m # Garbled
    BY WhereItStands DEF Replay, canon, indexes, Rows, Lines
  <1>2. proc \in [Agents -> Process] /\ proc[a] \in Process /\ todo \in Seq(Line)
    BY TypeParts DEF ProcessesOK, Process
  <1>3. /\ m \in Memories /\ Tail(todo) \in Seq(Line)
        /\ \A x : (\E i \in DOMAIN todo : todo[i] = x)
                      <=> x = m \/ \E i \in DOMAIN Tail(todo) : Tail(todo)[i] = x
    <2>1. Len(todo) \in Nat \ {0} /\ m = todo[1] /\ m \in Line
          /\ DOMAIN todo = 1 .. Len(todo) /\ DOMAIN Tail(todo) = 1 .. Len(todo) - 1
          /\ \A i \in 1 .. Len(todo) - 1 : Tail(todo)[i] = todo[i + 1]
      BY <1>1, <1>2
    <2>2. m \in Memories
      BY <1>1, <2>1 DEF Line
    <2>3. ASSUME NEW i \in DOMAIN todo
          PROVE  todo[i] = m \/ \E j \in DOMAIN Tail(todo) : Tail(todo)[j] = todo[i]
      <3>1. i = 1 \/ i - 1 \in 1 .. Len(todo) - 1
        BY <2>1
      <3>2. i # 1 => Tail(todo)[i - 1] = todo[i]
        BY <2>1, <3>1
      <3> QED
        BY <2>1, <3>1, <3>2
    <2>4. ASSUME NEW j \in DOMAIN Tail(todo)
          PROVE  j + 1 \in DOMAIN todo /\ todo[j + 1] = Tail(todo)[j]
      BY <2>1
    <2>5. 1 \in DOMAIN todo
      BY <2>1
    <2> HIDE DEF m, todo
    <2>6. ASSUME NEW x
          PROVE  (\E i \in DOMAIN todo : todo[i] = x)
                     <=> x = m \/ \E i \in DOMAIN Tail(todo) : Tail(todo)[i] = x
      <3>1. ASSUME NEW i \in DOMAIN todo, todo[i] = x
            PROVE  x = m \/ \E j \in DOMAIN Tail(todo) : Tail(todo)[j] = x
        BY <2>3, <3>1
      <3>2. x = m => \E i \in DOMAIN todo : todo[i] = x
        BY <2>1, <2>5
      <3>3. ASSUME NEW j \in DOMAIN Tail(todo), Tail(todo)[j] = x
            PROVE  \E i \in DOMAIN todo : todo[i] = x
        BY <2>4, <3>3
      <3> QED
        BY <3>1, <3>2, <3>3
    <2> QED
      BY <1>2, <2>2, <2>6
  <1>4. /\ p.pc = "storing" /\ p.rebuild = proc[a].rebuild /\ p.alone = proc[a].alone
        /\ p.todo = Tail(todo) /\ p.mem = m
    BY <1>2 DEF Process
  <1>5. proc'[a] = p
    BY <1>1, <1>2
  <1> HIDE DEF p, todo, m
  <1>6. \A b \in Agents \ {a} : proc'[b] = proc[b]
    BY OthersStay DEF Step
  <1>7. Ahead(a) = Ahead(a)' \cup {Mem(a)'}
    <2>1. Ahead(a) = {todo[i] : i \in DOMAIN todo} \cap Memories
      BY <1>1 DEF Ahead, todo
    <2>2. /\ proc'[a].rebuild /\ proc'[a].todo = Tail(todo) /\ proc'[a].mem = m
      BY <1>1, <1>4, <1>5
    <2>3. Ahead(a)' = {Tail(todo)[i] : i \in DOMAIN Tail(todo)} \cap Memories
      BY <2>2 DEF Ahead
    <2>4. Mem(a)' = m
      BY <2>2 DEF Mem
    <2> QED
      BY <1>3, <2>1, <2>3, <2>4
  <1>8. ASSUME proc[a].alone
        PROVE  Pending(a)'
    <2>1. Pending(a)
      BY <1>1, <1>8, WhatIsPending
    <2>2. /\ Upto(Ahead(a), Ahead(a), Ahead(a))
          /\ torn => \E i \in DOMAIN todo : todo[i] = Garbled
      BY <1>1, <2>1 DEF Pending, todo
    <2>3. Upto(Ahead(a) \cup {Mem(a)}, Ahead(a) \cup {Mem(a)}, Ahead(a) \cup {Mem(a)})'
      BY <1>1, <1>7, <2>2 DEF Upto
    <2>4. torn' => \E i \in DOMAIN proc'[a].todo : proc'[a].todo[i] = Garbled
      <3>1. torn => \E i \in DOMAIN Tail(todo) : Tail(todo)[i] = Garbled
        BY <1>1, <1>3, <2>2
      <3> QED
        BY <1>1, <1>4, <1>5, <3>1
    <2> QED
      BY <1>1, <1>4, <1>5, <2>3, <2>4 DEF Pending
  <1>9. proc'[a].pc # "idle" /\ proc[a].pc # "idle" /\ (history # "unknown" => ~torn)
    BY <1>1, <1>4, <1>5 DEF FollowInv
  <1> QED
    BY <1>1, <1>4, <1>5, <1>6, <1>8, <1>9, FollowStep

\* A refusal in a known history leaves a row and a line and no relation; a
\* rebuild that comes to its end alone has replayed a log without a torn end.
LEMMA EndFollow ==
    ASSUME TypeOK, FollowInv, NEW a \in Agents,
           Refuse(a) \/ ReplayFails(a) \/ Rebuilt(a) \/ Abandon(a)
    PROVE  FollowInv'
  <1>1. proc'[a].pc = "idle" /\ proc[a].pc # "idle"
    BY Ended, IdleIsProcess DEF Refuse, ReplayFails, Rebuilt, Abandon, Busy
  <1>2. \A b \in Agents \ {a} : proc'[b] = proc[b]
    BY OthersStay DEF Step
  <1>3. CASE ReplayFails(a) \/ Abandon(a)
    <2>1. history' = "unknown"
      BY <1>3 DEF ReplayFails, Abandon
    <2> QED
      BY <1>1, <1>2, <2>1, FollowStep
  <1>4. CASE Refuse(a) \/ Rebuilt(a)
    <2>1. /\ UNCHANGED <<journal, torn, rows, relations, assertions>>
          /\ Rows' = Rows /\ Lines' = Lines
      BY <1>4 DEF Refuse, Rebuilt, canon, indexes, Rows, Lines
    <2>2. history' = "unknown" \/ history' = history \/ proc[a].alone
      BY <1>4 DEF Refuse, Rebuilt
    <2>3. ASSUME proc[a].alone, history' # "unknown"
          PROVE  ~torn /\ Upto({}, {}, {})
      <3>1. CASE Refuse(a)
        <4>1. /\ history # "unknown" /\ ~proc[a].rebuild /\ Mem(a) \in Bad
              /\ proc[a].pc = "relating"
          BY <2>3, <3>1 DEF Refuse
        <4>2. ~torn /\ Pending(a)
          BY <1>1, <2>3, <4>1, WhatIsPending
        <4>3. Upto({}, {Mem(a)}, {Mem(a)})
          BY <4>1, <4>2 DEF Pending, Ahead
        <4> QED
          BY <4>1, <4>2, <4>3 DEF Upto
      <3>2. CASE Rebuilt(a)
        <4>1. proc[a].pc = "replaying" /\ proc[a].todo = <<>> /\ proc[a].rebuild
          BY <3>2, WhereItStands DEF Rebuilt
        <4>2. Pending(a) /\ Ahead(a) = {} /\ DOMAIN proc[a].todo = {}
          BY <1>1, <2>3, <4>1, WhatIsPending DEF Ahead
        <4> QED
          BY <4>1, <4>2 DEF Pending
      <3> QED
        BY <1>4, <3>1, <3>2
    <2>4. (proc[a].alone /\ history' # "unknown") => ~torn' /\ Upto({}, {}, {})'
      BY <2>1, <2>3 DEF Upto
    <2> QED
      BY <1>1, <1>2, <2>2, <2>4, FollowStep
  <1> QED
    BY <1>3, <1>4

\* When nobody is in a call, and whoever wrote was alone since the start or since
\* the last rebuild that came to its end, the store, the graph and the knowledge
\* graph hold exactly what the canonical log says: remember keeps them so, and
\* rebuild_indexes makes them so whatever crashes and races had left.
THEOREM IndexesAreTheLog == Spec => []IndexesFollowJournal
  <1>1. Init => FollowInv
    <2> SUFFICES ASSUME Init PROVE FollowInv
      OBVIOUS
    <2>1. /\ ~torn /\ \A a \in Agents : proc[a].pc = "idle"
      BY DEF Init, Idle
    <2>2. Rows = {} /\ Lines = {} /\ relations = {} /\ assertions = {}
      BY DEF Init, Rows, Lines
    <2> QED
      BY <2>1, <2>2 DEF FollowInv, Upto
  <1>2. ASSUME TypeOK, FollowInv, [Next]_vars PROVE FollowInv'
    <2>1. CASE UNCHANGED vars
      <3>1. UNCHANGED <<journal, torn, rows, relations, assertions, proc, history>>
        BY <2>1 DEF vars, canon, indexes
      <3>2. Rows' = Rows /\ Lines' = Lines
        BY <3>1 DEF Rows, Lines
      <3>3. Upto({}, {}, {})' <=> Upto({}, {}, {})
        BY <3>1, <3>2 DEF Upto
      <3>4. ASSUME NEW a \in Agents PROVE (Pending(a)' <=> Pending(a)) /\ (Only(a)' <=> Only(a))
        BY <3>1, <3>2 DEF Pending, Upto, Ahead, Mem, Only
      <3> QED
        BY <1>2, <3>1, <3>3, <3>4 DEF FollowInv
    <2>2. CASE Next
      <3>1. PICK a \in Agents :
               \/ \E m \in Memories, boxed \in BOOLEAN : Remember(a, m, boxed)
               \/ Rebuild(a) \/ Step(a) \/ Abandon(a)
        BY <2>2 DEF Next
      <3>2. CASE Step(a)
        BY <1>2, <3>2, QuietFollow, StoreRowFollow, AppendLineFollow, IndexFollow, ClearFollow,
           ReadJournalFollow, ReplayFollow, EndFollow DEF Step
      <3> QED
        BY <1>2, <3>1, <3>2, BeginFollow, EndFollow
    <2> QED
      BY <1>2, <2>1, <2>2
  <1>3. FollowInv => IndexesFollowJournal
    BY DEF FollowInv, IndexesFollowJournal, Settled, Busy, Upto
  <1> QED
    BY <1>1, <1>2, <1>3, VaultTypeCorrect, PTL DEF Spec

-----------------------------------------------------------------------------
BoxedMemories == {m \in Memories : box[m] # 0}

\* Without races one process at most is in a call, and the sequence it has read
\* is the number of the memories in the box.
BoxInv ==
    races = 0 =>
        /\ \A a, b \in Agents : proc[a].pc # "idle" /\ proc[b].pc # "idle" => a = b
        /\ IsFiniteSet(BoxedMemories)
        /\ {box[m] : m \in BoxedMemories} = 1 .. Cardinality(BoxedMemories)
        /\ \A a \in Agents : proc[a].pc = "boxing" => proc[a].seq = Cardinality(BoxedMemories)

\* A step that leaves the box alone, and reads no sequence.
LEMMA QuietBox ==
    ASSUME BoxInv, NEW a \in Agents, UNCHANGED box, races' = 0 => races = 0,
           \A b \in Agents \ {a} : proc'[b].pc = proc[b].pc /\ proc'[b].seq = proc[b].seq,
           races' = 0 /\ proc[a].pc = "idle" => \A b \in Agents : proc[b].pc = "idle",
           proc'[a].pc # "boxing"
    PROVE  BoxInv'
  <1> SUFFICES ASSUME races' = 0 PROVE BoxInv'
    BY DEF BoxInv
  <1>1. BoxedMemories' = BoxedMemories
    BY DEF BoxedMemories
  <1>2. \A b \in Agents \ {a} : proc'[b].pc = "idle" \/ proc[a].pc = "idle"
    BY DEF BoxInv
  <1>3. \A b \in Agents \ {a} : proc'[b].pc = "idle"
    BY <1>2
  <1> QED
    BY <1>1, <1>3 DEF BoxInv

\* SELECT MAX(sequence): the sequences in use are 1 to n, or none are.
LEMMA ReadNumberBox ==
    ASSUME TypeOK, BoxInv, NEW a \in Agents, ReadNumber(a)
    PROVE  BoxInv'
  <1> SUFFICES ASSUME races' = 0 PROVE BoxInv'
    BY DEF BoxInv
  <1> DEFINE n == Cardinality(BoxedMemories)
  <1>1. UNCHANGED <<box, races>> /\ proc[a].pc = "numbering" /\ Mem(a) \in Memories
    BY WhereItStands DEF ReadNumber, calls, Remembering
  <1>2. PICK k \in Numbers : /\ \A l \in Numbers : l <= k
                             /\ proc' = [proc EXCEPT ![a].pc = "boxing", ![a].seq = k]
    BY DEF ReadNumber
  <1>3. IsFiniteSet(BoxedMemories) /\ {box[m] : m \in BoxedMemories} = 1 .. n /\ n \in Nat
    BY <1>1, FS_CardinalityType DEF BoxInv
  <1>4. box \in [Memories -> Nat] /\ proc \in [Agents -> Process]
    BY TypeParts DEF TablesOK, ProcessesOK
  <1> HIDE DEF n
  <1>5. Numbers \subseteq 0 .. n
    <2>1. ASSUME NEW m \in Memories PROVE box[m] \in 0 .. n
      <3>1. CASE box[m] = 0
        BY <1>3, <3>1
      <3>2. CASE box[m] # 0
        <4>1. box[m] \in {box[x] : x \in BoxedMemories}
          BY <3>2 DEF BoxedMemories
        <4>2. box[m] \in 1 .. n
          BY <1>3, <4>1
        <4> QED
          BY <1>3, <4>2
      <3> QED
        BY <3>1, <3>2
    <2> QED
      BY <2>1 DEF Numbers
  <1>6. n = 0 \/ n \in Numbers
    <2>1. n \in 1 .. n => n \in {box[x] : x \in BoxedMemories}
      BY <1>3
    <2>2. n = 0 \/ n \in 1 .. n
      BY <1>3
    <2> QED
      BY <2>1, <2>2 DEF Numbers, BoxedMemories
  <1>7. k = n
    <2>1. k \in 0 .. n
      BY <1>5
    <2>2. n \in Numbers => n <= k
      BY <1>2
    <2> QED
      BY <1>3, <1>6, <2>1, <2>2
  <1>8. /\ proc'[a].pc = "boxing" /\ proc'[a].seq = k
        /\ \A b \in Agents \ {a} : proc'[b] = proc[b]
    BY <1>2, <1>4 DEF Process
  <1>9. BoxedMemories' = BoxedMemories
    BY <1>1 DEF BoxedMemories
  <1>10. \A b \in Agents \ {a} : proc'[b].pc = "idle"
    BY <1>1, <1>8 DEF BoxInv
  <1> QED
    BY <1>1, <1>3, <1>7, <1>8, <1>9, <1>10 DEF BoxInv, n

\* INSERT OR IGNORE: a new memory has the next sequence, another keeps its own.
LEMMA WriteBoxBox ==
    ASSUME TypeOK, BoxInv, NEW a \in Agents, WriteBox(a)
    PROVE  BoxInv'
  <1> SUFFICES ASSUME races' = 0 PROVE BoxInv'
    BY DEF BoxInv
  <1>1. /\ races' = races /\ proc[a].pc = "boxing" /\ Mem(a) \in Memories
        /\ box' = (IF box[Mem(a)] = 0 THEN [box EXCEPT ![Mem(a)] = proc[a].seq + 1] ELSE box)
    BY WhereItStands DEF WriteBox, Boxed, calls, Remembering
  <1>2. box \in [Memories -> Nat] /\ proc \in [Agents -> Process]
    BY TypeParts DEF TablesOK, ProcessesOK
  <1>3. proc'[a].pc = "answering" /\ \A b \in Agents \ {a} : proc'[b] = proc[b]
    BY Moved, OthersStay DEF WriteBox, Step
  <1>4. CASE box[Mem(a)] # 0
    BY <1>1, <1>3, <1>4, QuietBox
  <1>5. CASE box[Mem(a)] = 0
    <2>0. PICK m \in Memories : m = Mem(a)
      BY <1>1
    <2>1. PICK n : /\ n = Cardinality(BoxedMemories) /\ proc[a].seq = n
                   /\ IsFiniteSet(BoxedMemories)
                   /\ {box[x] : x \in BoxedMemories} = 1 .. n /\ n \in Nat
      BY <1>1, FS_CardinalityType DEF BoxInv
    <2>2. box' = [box EXCEPT ![m] = n + 1] /\ m \notin BoxedMemories
      BY <1>1, <1>5, <2>0, <2>1 DEF BoxedMemories
    <2>3. box'[m] = n + 1 /\ \A x \in Memories \ {m} : box'[x] = box[x]
      BY <1>2, <2>2
    <2>4. BoxedMemories' = BoxedMemories \cup {m}
      BY <2>1, <2>3 DEF BoxedMemories
    <2>5. IsFiniteSet(BoxedMemories') /\ Cardinality(BoxedMemories') = n + 1
      BY <2>1, <2>2, <2>4, FS_AddElement
    <2>6. {box'[x] : x \in BoxedMemories'} = {box[x] : x \in BoxedMemories} \cup {n + 1}
      BY <2>2, <2>3, <2>4 DEF BoxedMemories
    <2>7. {box'[x] : x \in BoxedMemories'} = 1 .. n + 1
      BY <2>1, <2>6
    <2>8. \A b \in Agents \ {a} : proc'[b].pc = "idle"
      BY <1>1, <1>3 DEF BoxInv
    <2> QED
      BY <1>3, <2>5, <2>7, <2>8 DEF BoxInv
  <1> QED
    BY <1>4, <1>5

\* Without races a call begins when nobody is in one, so that the sequence it
\* reads is still the last when its row is inserted: the sequences of a box are
\* 1, 2, 3 ... without a gap or a double, and a memory keeps its place.
THEOREM BoxesAreNumbered == Spec => []BoxIsNumbered
  <1>1. Init => BoxInv
    <2> SUFFICES ASSUME Init PROVE BoxInv
      OBVIOUS
    <2>1. BoxedMemories = {}
      BY DEF Init, BoxedMemories
    <2>2. IsFiniteSet({}) /\ Cardinality({}) = 0
      BY FS_EmptySet
    <2>3. \A a \in Agents : proc[a].pc = "idle"
      BY DEF Init, Idle
    <2> QED
      BY <2>1, <2>2, <2>3 DEF BoxInv
  <1>2. ASSUME TypeOK, BoxInv, [Next]_vars PROVE BoxInv'
    <2>1. CASE UNCHANGED vars
      <3>1. UNCHANGED <<box, proc, races>>
        BY <2>1 DEF vars, calls
      <3> QED
        BY <1>2, <3>1 DEF BoxInv, BoxedMemories
    <2>2. ASSUME NEW a \in Agents, Step(a) \/ Abandon(a), ~ReadNumber(a), ~WriteBox(a)
          PROVE  BoxInv'
      <3>1. UNCHANGED <<box, races>> /\ proc[a].pc # "idle"
        BY <2>2 DEF Step, Abandon, Busy, CheckBlob, OpenBlob, WriteBlob, StoreRow, AppendLine,
           Relate, Refuse, WriteAssertion, Answer, ClearGraph, ClearKnowledge, ReadJournal,
           Replay, ReplayFails, Rebuilt, calls
      <3>2. \A b \in Agents \ {a} : proc'[b] = proc[b]
        BY <1>2, <2>2, OthersStay
      <3>3. proc'[a].pc # "boxing"
        <4>1. CASE Refuse(a) \/ Answer(a) \/ ReplayFails(a) \/ Rebuilt(a) \/ Abandon(a)
          BY <1>2, <4>1, Ended, IdleIsProcess DEF Refuse, Answer, ReplayFails, Rebuilt, Abandon
        <4>2. CASE ReadJournal(a) \/ Replay(a)
          BY <1>2, <4>2, TypeParts DEF ReadJournal, Replay, ProcessesOK, Process
        <4>3. CASE CheckBlob(a) \/ OpenBlob(a) \/ WriteBlob(a) \/ AppendLine(a)
          BY <1>2, <4>3, Moved DEF CheckBlob, OpenBlob, WriteBlob, AppendLine
        <4>4. CASE StoreRow(a) \/ WriteAssertion(a)
          BY <1>2, <4>4, Moved DEF StoreRow, AfterRow, WriteAssertion, AfterAssertion
        <4>5. CASE Relate(a)
          BY <1>2, <4>5, Moved DEF Relate
        <4>6. CASE ClearGraph(a)
          <5>1. To(a, "clearing knowledge")
            BY <4>6 DEF ClearGraph
          <5>2. proc'[a].pc = "clearing knowledge"
            BY <1>2, <5>1, Moved
          <5> QED
            BY <5>2
        <4>7. CASE ClearKnowledge(a)
          <5>1. To(a, "reading")
            BY <4>7 DEF ClearKnowledge
          <5>2. proc'[a].pc = "reading"
            BY <1>2, <5>1, Moved
          <5> QED
            BY <5>2
        <4> QED
          BY <2>2, <4>1, <4>2, <4>3, <4>4, <4>5, <4>6, <4>7 DEF Step
      <3> QED
        BY <1>2, <3>1, <3>2, <3>3, QuietBox
    <2>3. ASSUME NEW a \in Agents, NEW p \in Process, Started(a, p), Overlapping, UNCHANGED box,
                 p.pc # "boxing", a \notin Busy
          PROVE  BoxInv'
      <3>1. proc \in [Agents -> Process] /\ races \in Nat
        BY <1>2, TypeParts DEF ProcessesOK, CountsOK
      <3>2. (races' = 0 => races = 0) /\ (races' = 0 => Busy = {})
        BY <2>3, <3>1 DEF Overlapping
      <3>3. \A b \in Agents \ {a} : proc'[b] = [proc[b] EXCEPT !.alone = FALSE]
        BY <2>3 DEF Started
      <3>4. \A b \in Agents \ {a} : proc'[b].pc = proc[b].pc /\ proc'[b].seq = proc[b].seq
        BY <3>1, <3>3 DEF Process
      <3>5. proc'[a].pc = p.pc
        BY <1>2, <2>3, StartStays
      <3> QED
        BY <1>2, <2>3, <3>2, <3>4, <3>5, QuietBox DEF Busy
    <2>4. ASSUME NEW a \in Agents, NEW m \in Memories, NEW boxed \in BOOLEAN, Remember(a, m, boxed)
          PROVE  BoxInv'
      <3> DEFINE q == [Idle EXCEPT !.pc = IF m \in Large THEN "checking" ELSE "storing",
                                   !.mem = m, !.boxed = boxed]
      <3>1. q \in Process /\ q.pc # "boxing"
        BY IdleIsProcess DEF Process, Remembering
      <3>2. Started(a, q) /\ Overlapping /\ UNCHANGED box /\ a \notin Busy
        BY <2>4 DEF Remember
      <3> QED
        BY <2>3, <3>1, <3>2
    <2>5. ASSUME NEW a \in Agents, Rebuild(a)
          PROVE  BoxInv'
      <3> DEFINE q == [Idle EXCEPT !.pc = "clearing graph", !.rebuild = TRUE]
      <3>1. q \in Process /\ q.pc # "boxing"
        BY IdleIsProcess DEF Process, Rebuilding
      <3>2. Started(a, q) /\ Overlapping /\ UNCHANGED box /\ a \notin Busy
        BY <2>5 DEF Rebuild
      <3> QED
        BY <2>3, <3>1, <3>2
    <2> QED
      BY <1>2, <2>1, <2>2, <2>4, <2>5, ReadNumberBox, WriteBoxBox DEF Next
  <1>3. BoxInv => BoxIsNumbered
    BY DEF BoxInv, BoxIsNumbered, BoxedMemories
  <1> QED
    BY <1>1, <1>2, <1>3, VaultTypeCorrect, PTL DEF Spec

=============================================================================
