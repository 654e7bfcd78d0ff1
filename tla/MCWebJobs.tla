------------------------------ MODULE MCWebJobs ------------------------------
(* Small instances of WebJobs for TLC. *)
EXTENDS WebJobs
=============================================================================
