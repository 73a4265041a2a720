---------------------------- MODULE MCPublishing ----------------------------
(* Runs of every mode, that find one or two fragments. *)
EXTENDS Publishing

MCJobs == [mode : Modes, fragments : 1..MaxFragment]
=============================================================================
