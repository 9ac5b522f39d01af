------------------------------- MODULE Server -------------------------------
(***************************************************************************)
(* One server process of living_memoryv2 (mcp_server.py, run_stdio): it    *)
(* serves one call at a time, of the facade, of the tool curriculum or of  *)
(* the documents, while other processes write the databases.  The lessons  *)
(* of the curriculum are part of the facade's answers.  When the process   *)
(* ends, what it held in memory is gone.                                   *)
(***************************************************************************)
EXTENDS Facade, Documents

CONSTANTS MaxServed,   \* bound on the calls and on the ends of the process
          MaxWrites    \* bound on the writes of other processes

ASSUME ServerAssumption == {MaxServed, MaxWrites} \subseteq Nat

VARIABLES served, writes

bounds == <<served, writes>>
vars == <<facadeVars, curriculumVars, documentVars, bounds>>

Init == FacadeInit /\ CurriculumInit /\ DocumentsInit
        /\ served = 0 /\ writes = 0

\* handle reads the next message when the last is answered.  Calls that change
\* nothing are not counted.
Serve == FacadeIdle /\ FilingIdle /\ UNCHANGED writes
Counted == served < MaxServed /\ served' = served + 1

CallFacade == /\ Serve
              /\ \E q \in Queries : \/ StartWork(q) /\ Counted
                                    \/ RecallContext(q) /\ UNCHANGED served
              /\ UNCHANGED documentVars

CallCurriculum == /\ Serve
                  /\ \/ \E s \in Specs : RegisterTool(s) /\ Counted
                     \/ \E t \in Traces : RecordTrace(t) /\ Counted
                     \/ \E o \in Offers : SelectTools(o) /\ UNCHANGED served
                  /\ answer' = None
                  /\ UNCHANGED <<tablesOfFacade, work, held, documentVars>>

CallDocuments == /\ Serve /\ Counted
                 /\ \/ \E text \in Texts : RememberMarkdown(text)
                    \/ \E r \in Records : IngestRecord(r)
                 /\ answer' = None /\ offered' = <<>>
                 /\ UNCHANGED <<tablesOfFacade, work, held, tools, traces, lessonRows>>

Work == /\ RecallForWork \/ FilterTemporal \/ Weigh \/ RankAndFrame
           \/ ReadSubgraphs \/ ReadHints \/ GatherEvidence \/ AnswerWork
        /\ UNCHANGED <<documentVars, bounds>>

File == /\ ShelveChunk \/ AnswerMarkdown
        /\ UNCHANGED <<facadeVars, curriculumVars, bounds>>

\* Other processes; what they write between two calls is as good as written at
\* the end of the first.
Write == /\ ~FacadeIdle /\ writes < MaxWrites /\ writes' = writes + 1
         /\ \/ \E r \in Rows : Relate(r)
            \/ \E m \in Memories : AddFact(m) \/ IndexFact(m)
         /\ UNCHANGED <<documentVars, served>>

\* The process ends, in a call or between two, and is started again.
Restart == /\ Counted
           /\ ForgetCurriculum
           /\ work' = NoWork /\ answer' = None /\ held' = [m \in Memories |-> {}]
           /\ filing' = NoFiling
           /\ UNCHANGED <<tablesOfFacade, shelf, filed, shelved, requests, writes>>

Next == CallFacade \/ CallCurriculum \/ CallDocuments \/ Work \/ File \/ Write \/ Restart

Spec == Init /\ [][Next]_vars

=============================================================================
