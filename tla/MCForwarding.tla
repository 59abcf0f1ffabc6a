----------------------------- MODULE MCForwarding -----------------------------
(* Small instances of Forwarding; the values are in the .cfg files.        *)
EXTENDS Forwarding
=============================================================================
