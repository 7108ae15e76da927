----------------------------- MODULE MCNavCycle -----------------------------
(* Model checking NavCycle on small instances.                             *)
EXTENDS NavCycle, TLC

\* The two accounts are interchangeable.
AccountSymmetry == Permutations(Accounts)

=============================================================================
