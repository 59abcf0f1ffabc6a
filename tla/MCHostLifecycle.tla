---------------------------- MODULE MCHostLifecycle ----------------------------
(* Small instances of HostLifecycle; the numbers are in the .cfg files. *)
EXTENDS HostLifecycle
=============================================================================
