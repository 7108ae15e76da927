------------------------- MODULE MCServiceMutation -------------------------
(* Model checking ServiceMutation: one or two loop servers.                *)
EXTENDS ServiceMutation

CONSTANTS s1, s2, w1, w2, w3

HomeAlone == [w \in Workflows |-> s1]

HomeOfTwo == [w \in Workflows |-> IF w = w2 THEN s2 ELSE s1]

OneInstalled == {w1}

=============================================================================
