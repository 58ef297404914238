--------------------------- MODULE MCRunBlocking ----------------------------
(* The instances of RunBlocking that TLC checks: three segments, either on   *)
(* three executors or with the third back on the first one's.                *)
EXTENDS RunBlocking

CONSTANTS x, y, z

MCLayouts == {<<x, y, z>>, <<x, y, x>>}
=============================================================================
