------------------------------ MODULE MCTasks -------------------------------
(***************************************************************************)
(* Tasks with two processes: a patch of one field with the next sequence   *)
(* and one that asks for a sequence, a capture with related memories whose *)
(* last one carries another relation, one that proposes and relates a note *)
(* of the first call, which may or may not be, and one whose relation is   *)
(* malformed.                                                              *)
(***************************************************************************)
EXTENDS Tasks, TLC

MCPatches == {[sets |-> {"objective"}, seq |-> None],
              [sets |-> {"completed"}, seq |-> 1]}

Items(items, mode, on) == [items |-> items, mode |-> mode, relation |-> "none",
                           memory_id |-> None, memory_ref |-> 0, task |-> on]

MCCaptures ==
    {[Items(<<"plan", "progress", "ephemeral">>, "remember", TRUE)
         EXCEPT !.relation = "good", !.memory_ref = -1],
     [Items(<<"note">>, "remember", FALSE) EXCEPT !.relation = "malformed"],
     [Items(<<"plan">>, "propose", TRUE)
         EXCEPT !.relation = "good", !.memory_id = Memory(1, 1, "note")],
     Items(<<"note">>, "remember", FALSE)}

Symmetry == Permutations(Agents)

=============================================================================
