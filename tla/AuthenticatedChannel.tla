------------------------ MODULE AuthenticatedChannel ------------------------
(* What one direction of an encrypted session promises to the code above it  *)
(* (node/src/transport/peer.mjs, header of node/src/crypto/session.mjs):      *)
(* control records arrive completely and in the order they were sent, media   *)
(* records arrive in any order, some never, none twice, and a session that is *)
(* down stays down and hands over nothing.                                    *)
EXTENDS Naturals, Sequences

CONSTANT Records     \* what can be sent, each at most once

VARIABLES ctlSent,    \* control records sent, in order
          mediaSent,  \* media records sent
          ctlGot,     \* control records handed to the receiver, in order
          mediaGot,   \* how often each media record was handed over
          up          \* the session stands

vars == <<ctlSent, mediaSent, ctlGot, mediaGot, up>>

Init == /\ ctlSent = <<>> /\ mediaSent = {}
        /\ ctlGot = <<>> /\ mediaGot = [s \in Records |-> 0]
        /\ up = TRUE

\* A record is new: no record sent before carries its number.
New(s) == s \notin mediaSent /\ \A i \in 1..Len(ctlSent) : ctlSent[i] # s

SendCtl == \E s \in Records : /\ up /\ New(s)
                          /\ ctlSent' = Append(ctlSent, s)
                          /\ UNCHANGED <<mediaSent, ctlGot, mediaGot, up>>

SendMedia == \E s \in Records : /\ up /\ New(s)
                            /\ mediaSent' = mediaSent \cup {s}
                            /\ UNCHANGED <<ctlSent, ctlGot, mediaGot, up>>

GetCtl == /\ up /\ Len(ctlGot) < Len(ctlSent)
          /\ ctlGot' = Append(ctlGot, ctlSent[Len(ctlGot) + 1])
          /\ UNCHANGED <<ctlSent, mediaSent, mediaGot, up>>

GetMedia == \E s \in mediaSent :
               /\ up /\ mediaGot[s] = 0
               /\ mediaGot' = [mediaGot EXCEPT ![s] = 1]
               /\ UNCHANGED <<ctlSent, mediaSent, ctlGot, up>>

Break == up' = FALSE /\ UNCHANGED <<ctlSent, mediaSent, ctlGot, mediaGot>>

Next == SendCtl \/ SendMedia \/ GetCtl \/ GetMedia \/ Break

Spec == Init /\ [][Next]_vars
=============================================================================
