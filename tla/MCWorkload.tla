----------------------------- MODULE MCWorkload -----------------------------
(* Instances of Workload for TLC; the constants are all in the .cfg. *)
EXTENDS Workload
=============================================================================
