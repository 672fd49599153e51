----------------------------- MODULE Admission -----------------------------
(***************************************************************************)
(* What an invitation promises: attempts come and go, one host attempt at  *)
(* a time; a host attempt under way may admit one viewer, and goes live    *)
(* with that; a viewer goes live only where it was admitted; and nobody    *)
(* whose attempt is over comes back.                                       *)
(***************************************************************************)
CONSTANTS Hosts, Viewers

VARIABLES
    stage,      \* of each attempt
    admitted    \* the pairs <<host, viewer>> the owner has allowed

Session == Hosts \cup Viewers
Stages == {"idle", "trying", "live", "over"}

Init ==
    /\ stage = [x \in Session |-> "idle"]
    /\ admitted = {}

Begin(x) ==
    /\ stage[x] = "idle"
    /\ x \in Hosts => \A h \in Hosts : stage[h] \in {"idle", "over"}
    /\ stage' = [stage EXCEPT ![x] = "trying"]
    /\ UNCHANGED admitted

Admit(h, v) ==
    /\ stage[h] = "trying"
    /\ stage' = [stage EXCEPT ![h] = "live"]
    /\ admitted' = admitted \cup {<<h, v>>}

Enter(v) ==
    /\ stage[v] = "trying"
    /\ \E h \in Hosts : <<h, v>> \in admitted
    /\ stage' = [stage EXCEPT ![v] = "live"]
    /\ UNCHANGED admitted

End(x) ==
    /\ stage[x] \in {"trying", "live"}
    /\ stage' = [stage EXCEPT ![x] = "over"]
    /\ UNCHANGED admitted

Next ==
    \/ \E x \in Session : Begin(x) \/ End(x)
    \/ \E h \in Hosts, v \in Viewers : Admit(h, v)
    \/ \E v \in Viewers : Enter(v)

Spec == Init /\ [][Next]_<<stage, admitted>>
=============================================================================
