--------------------------- MODULE MCReassembler ---------------------------
(* Frames of one or two chunks, every order of arrival, every loss. *)
EXTENDS Reassembler
=============================================================================
