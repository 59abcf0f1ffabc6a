------------------------------ MODULE MCSendPath ------------------------------
(* Small instances of SendPath; the numbers are in the .cfg files.         *)
EXTENDS SendPath
=============================================================================
