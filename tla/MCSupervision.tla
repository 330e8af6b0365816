---------------------------- MODULE MCSupervision ---------------------------
(***************************************************************************)
(* Job mixes and verdicts for model-checking module Supervision.           *)
(***************************************************************************)
EXTENDS Supervision

NoJobs == {}
FirstJob == {1}
LastJob == {NJobs}

AllVerdicts == {"complete", "incomplete", "skipped"}
OnlyComplete == {"complete"}

=============================================================================
