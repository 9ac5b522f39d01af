------------------------------ MODULE MCRecall ------------------------------
(***************************************************************************)
(* Recall with two queries.  "rule" is critical and later withdrawn;       *)
(* "other" is critical in another scope and listed before the rule; "note" *)
(* shares a node with the rule, and is superseded and moved to the other   *)
(* scope later.  For one recall of critical memories there are also        *)
(* "third", like the other, and "fourth", which the rule goes before.      *)
(***************************************************************************)
EXTENDS Recall, TLC

Life(state, base, from) ==
    [state |-> state, from |-> from, to |-> 9, bonus |-> 0, delta |-> 0, base |-> base]

Envelope1(scope, life, iu, subject, age) ==
    [scope |-> scope, tags |-> {"t"}, conf |-> 90, created |-> age, life |-> life,
     cell |-> [iu |-> iu, iv |-> 0, iw |-> 0], subject |-> subject, object |-> "db"]

MCVersions ==
    "rule" :> <<Envelope1("s", Life("active", 96, 0), 0, "rule", 1),
                Envelope1("s", Life("deleted", 96, 0), 0, "rule", 1)>> @@
    "note" :> <<Envelope1("s", Life("active", 80, 5), 1, "note", 3),
                Envelope1("z", Life("superseded", 98, 5), 1, "note", 3)>> @@
    "other" :> <<Envelope1("z", Life("active", 97, 0), 1, "other", 2)>> @@
    "third" :> <<Envelope1("z", Life("active", 97, 0), 1, "third", 6)>> @@
    "fourth" :> <<Envelope1("s", Life("active", 95, 0), 1, "fourth", 7)>>

MCMemories == DOMAIN MCVersions

Ask0(top, at, terms, text) ==
    [name |-> "q", scope |-> "s", tags |-> {"t"}, top |-> top,
     asks |-> [hist |-> FALSE, cur |-> at = NoTime], at |-> at, hops |-> 2, terms |-> terms,
     root |-> [m \in MCMemories |-> IF m \in text THEN 71 ELSE 0], text |-> text]

MCQueries == {Ask0(1, NoTime, {"note"}, {"note"}), Ask0(2, 3, {"db"}, {"other", "note"})}

\* One recall among all five memories, or several among three and a rebuild; the
\* graph has the relations of two.
OneRecallOrThree ==
    /\ related \subseteq {"rule", "note"}
    /\ \/ recalls <= 1 /\ clears = 0
       \/ Stored \cup {x[3] : x \in answers} \subseteq {"rule", "note", "other"}

=============================================================================
