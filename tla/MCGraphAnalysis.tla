-------------------------- MODULE MCGraphAnalysis --------------------------
(* Two workers.  No symmetry: Fresh chooses a request. *)
EXTENDS GraphAnalysis
CONSTANTS w1, w2, r1, r2, r3, r4, r5, r6
TwoWorkers == {w1, w2}
SixRequests == {r1, r2, r3, r4, r5, r6}
=============================================================================
