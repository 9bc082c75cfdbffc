-------------------------------- MODULE Common --------------------------------
(* The value that stands for Python's None, "" and 0.0: nothing is stored.   *)
CONSTANT None
=============================================================================
