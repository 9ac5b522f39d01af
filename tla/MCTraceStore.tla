---------------------------- MODULE MCTraceStore ----------------------------
(* Finite instances of TraceStore for TLC. *)
EXTENDS TraceStore, FiniteSets, TLC

CONSTANT MaxLength

\* Every ranking of at most MaxLength memories.
AllRankings ==
    {ids \in UNION {[1..n -> Memories] : n \in 1..MaxLength} : IsInjective(ids)}

Symmetric == Permutations(Traces) \cup Permutations(Memories)
=============================================================================
