------------------------- MODULE MCKeyframeRecovery -------------------------
(* Full queues, coalesced requests and up to MaxLosses lost frames. *)
EXTENDS KeyframeRecovery
=============================================================================
