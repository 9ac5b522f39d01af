----------------------------- MODULE Curriculum -----------------------------
(***************************************************************************)
(* The tool curriculum of living_memoryv2 (tool_curriculum.py and its      *)
(* calls in mcp_server.py): tools are registered, offered for a task with  *)
(* distractors, and what became of them is recorded; failures lift a tool  *)
(* and become lessons.  It lives in the server process: a restart forgets  *)
(* it, and only persisted lessons stay.                                    *)
(***************************************************************************)
EXTENDS Lists, Integers, FiniteSets

CONSTANTS
    Specs,       \* what callers register: see Spec
    Offers,      \* what callers ask for: see Offer
    Traces,      \* what callers record: see Trace
    MaxTraces,   \* bound on the traces recorded
    NoTask       \* task is None

\* terms: the words of name, task, description and tags.
ToolSpec == [name : STRING, task : STRING, terms : SUBSET STRING, difficulty : Nat]
Stages == {"warmup", "in_category", "cross_category"}
Offer == [terms : SUBSET STRING, task : STRING \cup {NoTask}, stage : Stages, top : Nat,
          distractors : Nat]
Trace == [selected : SUBSET STRING, expected : SUBSET STRING, success : BOOLEAN,
          error : STRING, persist : BOOLEAN]

ASSUME CurriculumAssumption ==
    /\ \A s \in Specs : s \in ToolSpec /\ s.difficulty >= 1
    /\ Offers \subseteq Offer /\ \A o \in Offers : IsFiniteSet(o.terms)
    /\ Traces \subseteq Trace /\ MaxTraces \in Nat

VARIABLES
    tools,       \* ToolCurriculum.tools, in the order of their registration
    traces,      \* ToolCurriculum.traces
    lessonRows,  \* lessons in the vault, in the order they were remembered
    offered      \* the answer of select_tools, with its question, until the next call

curriculumVars == <<tools, traces, lessonRows, offered>>

CurriculumInit == tools = <<>> /\ traces = <<>> /\ lessonRows = <<>> /\ offered = <<>>

Named(n) == {i \in DOMAIN tools : tools[i].name = n}

\* register_tool: a name is replaced where it stands.
RegisterTool(s) ==
    /\ tools' = IF Named(s.name) = {} THEN Append(tools, s)
                ELSE [i \in DOMAIN tools |-> IF i \in Named(s.name) THEN s ELSE tools[i]]
    /\ offered' = <<>>
    /\ UNCHANGED <<traces, lessonRows>>

-----------------------------------------------------------------------------
(* introspect_failures and lesson_memories                                 *)

\* A failure is that of the tools expected, or if none were, of those selected.
Blamed(t) == IF t.expected # {} THEN t.expected ELSE t.selected

Failures(n) == {i \in DOMAIN traces : ~traces[i].success /\ n \in Blamed(traces[i])}
Failed(least) == {n \in UNION {Blamed(traces[i]) : i \in DOMAIN traces} :
                     Cardinality(Failures(n)) >= least}
LessonOf(n) == [tool |-> n, failures |-> Cardinality(Failures(n)),
                task |-> {tools[i].task : i \in Named(n)},
                errors |-> {traces[i].error : i \in Failures(n)} \ {""}]
\* Most failures first; names, of equal failures, in some order.
Lessons(least) ==
    SetToSortSeq({LessonOf(n) : n \in Failed(IF least < 1 THEN 1 ELSE least)},
                 LAMBDA l, k : l.failures > k.failures)

\* record_tool_trace: persist_lessons remembers every lesson there is, each time.
RecordTrace(t) ==
    /\ Len(traces) < MaxTraces
    /\ traces' = Append(traces, t)
    /\ UNCHANGED tools
    /\ lessonRows' = IF t.persist THEN lessonRows \o Lessons(1)' ELSE lessonRows
    /\ offered' = <<>>

-----------------------------------------------------------------------------
(* select_tools                                                            *)

Shared(o, s) == (100 * Cardinality(o.terms \cap s.terms))
                \div (IF o.terms = {} THEN 1 ELSE Cardinality(o.terms))
\* _score_tool, in hundredths
ToolScore(o, s) ==
    Shared(o, s) + (IF s.task = o.task THEN 25 ELSE 0)
    + (IF Cardinality(Failures(s.name)) > 5 THEN 20 ELSE 4 * Cardinality(Failures(s.name)))
    - (IF s.difficulty > 10 THEN 10 ELSE s.difficulty)

\* The best first, of equal ones that registered first.
Before(o, i, j) == \/ ToolScore(o, tools[i]) > ToolScore(o, tools[j])
                   \/ ToolScore(o, tools[i]) = ToolScore(o, tools[j]) /\ i < j
RankOf(o, i) == Cardinality({j \in DOMAIN tools : Before(o, j, i)}) + 1
RankedTools(o) ==
    [k \in DOMAIN tools |-> tools[CHOOSE i \in DOMAIN tools : RankOf(o, i) = k]]

ForTask(o, specs) == {s \in specs : o.task \in {NoTask, s.task}}

\* Mutant: distractors come before what is left of the budget.
ChosenEager(o) ==
    LET ofTask == Only(RankedTools(o), ForTask(o, ToSet(tools)))
        others == Without(RankedTools(o), ForTask(o, ToSet(tools)))
        few == FirstOfSeq(ofTask, o.top - o.distractors)
        pool == IF o.stage = "cross_category" /\ o.task # NoTask THEN others
                ELSE Without(ofTask, ToSet(few))
    IN  FirstOfSeq(few \o FirstOfSeq(pool, o.distractors), o.top)
\* The tools of the task, and in the later stages distractors among the last.
\* Without a task every tool is of it, and a distractor what is not chosen yet.
Chosen(o) ==
    LET ofTask == Only(RankedTools(o), ForTask(o, ToSet(tools)))
        others == Without(RankedTools(o), ForTask(o, ToSet(tools)))
        few == FirstOfSeq(ofTask, IF o.top - o.distractors > 1 THEN o.top - o.distractors ELSE 1)
        pool == IF o.stage = "cross_category" /\ o.task # NoTask THEN others
                ELSE Without(ofTask, ToSet(few))
        room == o.top - Len(few)
    IN  IF o.stage = "warmup" THEN FirstOfSeq(ofTask, o.top)
        ELSE few \o FirstOfSeq(pool, IF o.distractors < room THEN o.distractors ELSE room)

\* The call takes 0 for its defaults.
OrDefault(n, default) == IF n = 0 THEN default ELSE n
Asked(o) == [o EXCEPT !.top = OrDefault(@, 8), !.distractors = OrDefault(@, 2)]

SelectTools(o) ==
    /\ offered' = <<Asked(o), Chosen(Asked(o))>>
    /\ UNCHANGED <<tools, traces, lessonRows>>

\* The process ends, and a new one has no tools and no traces.
ForgetCurriculum ==
    /\ tools' = <<>> /\ traces' = <<>> /\ offered' = <<>>
    /\ UNCHANGED lessonRows

-----------------------------------------------------------------------------
\* Whatever was registered again, failed and was lifted: an offer is no longer
\* than asked and repeats nothing; the best tool of the task always comes first;
\* tools of other tasks are only in the last stage and no more than the
\* distractors asked for; distractors of the task itself change nothing: what
\* in_category offers, and any stage without a task, is what warmup does
\* (select_tools).
OffersKeepTheirStage ==
    offered # <<>> =>
        LET o == offered[1]
            got == offered[2]
            strange == {i \in DOMAIN got : o.task \notin {NoTask, got[i].task}}
        IN  /\ Len(got) <= o.top
            /\ Cardinality({got[i].name : i \in DOMAIN got}) = Len(got)
            /\ strange # {} => o.stage = "cross_category" /\ Cardinality(strange) <= o.distractors
            /\ \A i \in strange : \A j \in DOMAIN got \ strange : j < i
            /\ \A i \in DOMAIN tools : o.task \in {NoTask, tools[i].task} =>
                  got # <<>> /\ ToolScore(o, got[1]) >= ToolScore(o, tools[i])
            /\ o.stage = "in_category" \/ o.task = NoTask =>
                  got = Chosen([o EXCEPT !.stage = "warmup"])

=============================================================================
