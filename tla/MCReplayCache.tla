--------------------------- MODULE MCReplayCache ---------------------------
(* Model checking ReplayCache: a publication with two texts, and a pause.   *)
EXTENDS ReplayCache, TLC

CONSTANTS publish, pause, p1, p2, q

TextsOf == [i \in Intents |-> IF i = publish THEN {p1, p2} ELSE {q}]

Symmetry == Permutations(Requests) \cup Permutations({p1, p2})

=============================================================================
