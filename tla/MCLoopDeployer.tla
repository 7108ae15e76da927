--------------------------- MODULE MCLoopDeployer ---------------------------
(* Model checking LoopDeployer: requests and loops are interchangeable.    *)
EXTENDS LoopDeployer, TLC

Symmetry == Permutations(Requests) \cup Permutations(Loops)

=============================================================================
