------------------------------ MODULE MCCanvas ------------------------------
(* Model checking Canvas on a small catalog.                               *)
EXTENDS Canvas

\* The two live markets: the leveraged one on Morpho Blue, the reserve on Aave.
CatalogOf(m) ==
    [family |-> IF m = "reserve" THEN "treasury" ELSE "loop", funding |-> FALSE,
     cls |-> "N1", levers |-> m = "usde-usdc", launchable |-> m = "usde-usdc"]

Catalog == [m \in Rows |-> CatalogOf(m)]

=============================================================================
