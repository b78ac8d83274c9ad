------------------------------ MODULE MCFlatten ------------------------------
(* Small instances of Flatten: a bundle, a harvest of the same comment, and   *)
(* an artifact whose payload is broken; or a snapshot and a harvest.          *)
EXTENDS Flatten, TLC

BundleAndHarvest == (1 :> {"c"}) @@ (2 :> {"c"}) @@ (3 :> {})
OneHarvest == (1 :> {}) @@ (2 :> {"c"})
OneLimited == ("p1" :> 1) @@ ("p2" :> NoLimit)
Unlimited == ("p1" :> NoLimit)
=============================================================================
