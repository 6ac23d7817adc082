---------------------------- MODULE MCLabReport ----------------------------
(* Two extraction jobs and two workers; nothing to define. *)
EXTENDS LabReport
=============================================================================
