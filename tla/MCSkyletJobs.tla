---------------------------- MODULE MCSkyletJobs ----------------------------
(* An instance of SkyletJobs for TLC: its constants are numbers. *)
EXTENDS SkyletJobs
=============================================================================
