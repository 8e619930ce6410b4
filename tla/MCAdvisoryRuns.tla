--------------------------- MODULE MCAdvisoryRuns ---------------------------
(* One worker; OSV answers again what it answered before. *)
EXTENDS AdvisoryRuns
CONSTANT a1
=============================================================================
