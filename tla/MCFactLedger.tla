---------------------------- MODULE MCFactLedger ----------------------------
EXTENDS FactLedger, TLC

Symmetry == Permutations(Facts) \cup Permutations(Agents)

=============================================================================
