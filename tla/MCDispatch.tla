------------------------------ MODULE MCDispatch ------------------------------
(* Small instances of Dispatch; which thread runs which handler is chosen  *)
(* here, the numbers are in the .cfg files.                                *)
EXTENDS Dispatch

OneOfEach == {0}      \* thread 0 runs flexio_pp_dev_1, thread 1 flexio_pp_dev_2
NoTnt1    == {}
=============================================================================
