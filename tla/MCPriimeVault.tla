--------------------------- MODULE MCPriimeVault ---------------------------
(* Model checking PriimeVault on small instances.                          *)
EXTENDS PriimeVault, TLC

\* Event ids are interchangeable.
EventSymmetry == Permutations(EventIds)

\* So are accounts, when none of them is singled out as an operator.
Symmetry == Permutations(Accounts) \cup EventSymmetry

=============================================================================
