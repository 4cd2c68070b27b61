-------------------------- MODULE MCMonitorSocket --------------------------
(* Instances of MonitorSocket for TLC; the constants are all in the .cfg. *)
EXTENDS MonitorSocket
=============================================================================
