--------------------------- MODULE TemplateJobsMC ---------------------------
(* TemplateJobs on a small instance, for TLC. *)
EXTENDS TemplateJobs
=============================================================================
