-------------------------- MODULE MCIncidentAnalysis --------------------------
(* Instances of IncidentAnalysis for TLC: one server that scans, one event   *)
(* worker, a file with three contents. *)
EXTENDS IncidentAnalysisProps

CONSTANTS server, worker, original, patched, patchedTwice

MCScanner == {server}
MCWorker  == {worker}
MCBlob    == {original, patched, patchedTwice}
=============================================================================
