----------------------------- MODULE MCSubgraph -----------------------------
(* Model checking Subgraph on a small instance.                            *)
EXTENDS Subgraph, TLC

\* Event ids are interchangeable.
EventSymmetry == Permutations(EventIds)

=============================================================================
