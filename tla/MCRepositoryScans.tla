-------------------------- MODULE MCRepositoryScans --------------------------
(* Two control loop processes; the second revision is too large to be scanned as a whole. *)
EXTENDS RepositoryScans
CONSTANTS s1, s2
FairScans == ScanSpec /\ ScanFairness
=============================================================================
