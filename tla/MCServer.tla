------------------------------ MODULE MCServer ------------------------------
(***************************************************************************)
(* Server with three memories: "rule" is in force from 2 to 6 by its own   *)
(* relation; "key" shows a credential and is withheld; "howto" is a lesson *)
(* without a topic of the first query.  The queries differ in their time,  *)
(* phase and budget, which has room for one short line in the second.      *)
(***************************************************************************)
EXTENDS Server

MCMemories == {"rule", "key", "howto"}

Always == [state |-> "active", from |-> 0, to |-> 9, bonus |-> 0, delta |-> 0, base |-> 60]
Row(m, object, from, to) ==
    [subject |-> m, predicate |-> "about", object |-> object, mem |-> m, graph |-> "semantic",
     from |-> from, to |-> to, conf |-> 90, at |-> 1]

Env0 == [terms |-> {"cache", "deploy"}, heading |-> {"deploy"}, root |-> 141, type |-> "decision",
         tags |-> {"t"}, labels |-> {}, sensitivity |-> "normal", shown |-> {}, weak |-> FALSE,
         unsafe |-> FALSE, conf |-> 90, usage |-> 20, recency |-> 90, life |-> Always,
         lines |-> [text |-> 90, gap |-> TRUE, meta |-> 40, micro |-> 12, extras |-> <<10, 30>>],
         relations |-> {}]

MCEnvelopes ==
    "rule" :> [Env0 EXCEPT !.relations = {Row("rule", "cache", 2, 6)}] @@
    "key" :> [Env0 EXCEPT !.shown = {"credential"}, !.type = "semantic"] @@
    "howto" :> [Env0 EXCEPT !.type = "procedural", !.terms = {"deploy", "lesson"},
                          !.lines.micro = 40]

MCRows == {Row("rule", "deploy", 0, 9), Row("key", "cache", 4, 9)}

Query0 == [terms |-> {"cache", "deploy", "now"}, asks |-> [hist |-> FALSE, cur |-> TRUE],
           at |-> NoTime, phase |-> "work_start", budget |-> 44, length |-> 20, top |-> 2,
           score |-> [m \in MCMemories |-> IF m = "rule" THEN 7000 ELSE 6000],
           why |-> [m \in MCMemories |-> IF m = "howto" THEN {"lexical"} ELSE {"fts", "graph"}]]

MCQueries == {Query0, [Query0 EXCEPT !.at = 3, !.budget = 8, !.phase = "planning"]}

MCSizes == [l \in ToSet(ShrinkOrder) |-> IF l = "evidence" THEN 50 ELSE 30]

Spec1(n, task, terms) == [name |-> n, task |-> task, terms |-> terms, difficulty |-> 1]
MCSpecs == {Spec1("grep", "code", {"search"}), Spec1("sed", "code", {"edit"}),
            Spec1("curl", "web", {"search", "web"})}
Offer0(task, stage, distractors) ==
    [terms |-> {"search"}, task |-> task, stage |-> stage, top |-> 2, distractors |-> distractors]
MCOffers == {Offer0("code", s, d) : s \in Stages, d \in {0, 2}}
            \cup {Offer0(NoTask, s, 1) : s \in Stages}
MCTraces == {[selected |-> {"grep"}, expected |-> {"sed"}, success |-> FALSE, error |-> "args",
              persist |-> TRUE]}

Para(size, blanks) == [level |-> 0, title |-> "", size |-> size, blanks |-> blanks]
Heading(level, title) == [level |-> level, title |-> title, size |-> 3, blanks |-> {1}]
MCTexts == {<<Para(2, {}), Heading(1, "a"), Para(2, {}), Para(12, {4, 5, 9}), Heading(2, "b"),
              Para(3, {}), Heading(2, "c"), Para(3, {1}), Heading(1, "d")>>}
MCRecords == {[id |-> "r", body |-> "x", stamp |-> 5], [id |-> "r", body |-> "x", stamp |-> 0]}

=============================================================================
