--------------------------- MODULE MCGraphRebuild ---------------------------
(* Two keys, the blue and the green database, a worker, two rebuild processes. *)
EXTENDS GraphRebuild
CONSTANTS k1, k2, blue, green, w1, r1, r2
=============================================================================
