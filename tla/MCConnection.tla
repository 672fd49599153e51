---------------------------- MODULE MCConnection ----------------------------
(* Connection for TLC: one host and one viewer with two signals each; two    *)
(* host attempts and one viewer; one host and two viewers.  What the listener  *)
(* remembers of an attempt matters only to a second one: only the scene with  *)
(* two forgets, and tells closed channels from channels nobody hears.         *)
EXTENDS Connection

CONSTANTS h1, h2, v1, v2

VARIABLE scene  \* the attempts that are made in this behaviour

Scenes == {{h1, v1}, {h1, h2, v1}, {h1, v1, v2}}

MCInit == Init /\ scene \in Scenes

MCNext ==
    /\ Next
    /\ \A x \in Session : /\ x \notin scene => s'[x].phase = "unused"
                          /\ Len(s'[x].log) <= IF Cardinality(scene) = 2 THEN MaxLog ELSE 1
    /\ h2 \in scene \/ (~Forget /\ \A x \in scene : ~ChannelsClosed(x))
    /\ UNCHANGED scene

MCSpec == MCInit /\ [][MCNext]_<<vars, scene>> /\ Fairness
=============================================================================
