------------------------- MODULE MCGraphProjection -------------------------
(* Two sources with a key each, two workers. *)
EXTENDS GraphProjection, TLC
CONSTANTS k1, k2, s1, s2, w1, w2
TwoKeys == {k1, k2}
TwoSources == {s1, s2}
OwnKey == (k1 :> s1) @@ (k2 :> s2)
OneKey == {k1}
OneSource == {s1}
OnlyKey == k1 :> s1
=============================================================================
