-------------------------- MODULE MCSessionController --------------------------
(* Model checking instances of SessionController. *)
EXTENDS SessionController, TLC

Symmetry == Permutations(Inst) \cup Permutations(Devices) \cup Permutations(RemoteIds)

================================================================================
