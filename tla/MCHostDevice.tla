----------------------------- MODULE MCHostDevice -----------------------------
(* Small instances of HostDevice; the numbers are in the .cfg file.        *)
EXTENDS HostDevice
=============================================================================
