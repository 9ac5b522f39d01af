------------------------------ MODULE MCVault -------------------------------
EXTENDS Vault, TLC

\* The processes do the same; the memories differ by Large and Bad.
Symmetry == Permutations(Agents)

=============================================================================
