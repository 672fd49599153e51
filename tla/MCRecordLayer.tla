--------------------------- MODULE MCRecordLayer ---------------------------
(* Every order of seven records on two lanes with a window of two: long     *)
(* enough for a record to fall out of the window, for a sweep, and for the  *)
(* sequence space to run out.                                               *)
EXTENDS RecordLayer
=============================================================================
