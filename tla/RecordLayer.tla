---------------------------- MODULE RecordLayer ----------------------------
(***************************************************************************)
(* The record layer of an established session, one direction: the sender's *)
(* SecureSession.seal, the two data channels and the receiver's            *)
(* SecureSession.open with its ReplayWindow (node/src/crypto/session.mjs), *)
(* and what Peer does with a refused record (node/src/transport/peer.mjs). *)
(*                                                                         *)
(* Both lanes draw from one sequence space.  The control lane (SCTP        *)
(* reliable, ordered) must grow strictly; the media lane (unreliable,      *)
(* unordered) goes through a sliding window.  A record is its sequence     *)
(* number and its kind, bound together by the tag; a record whose tag      *)
(* fails is the step Garbled.                                              *)
(***************************************************************************)
EXTENDS Integers, Sequences, FiniteSets

CONSTANTS
    MaxSeq,   \* no record is sealed from this number on (2^64 - 1 in the code)
    Bits,     \* width of the replay window (MEDIA_WINDOW_BITS)
    Slack     \* entries kept beyond it before a sweep (Math.max(16, bits >> 3))

ASSUME RecordAssumption == /\ MaxSeq \in Nat
                           /\ Bits \in Nat \ {0}
                           /\ Slack \in Nat

VARIABLES
    txSeq,        \* SecureSession.txSeq of the sender
    ctlSent,      \* numbers of the control records sent, in order
    mediaSent,    \* numbers of the media records sent; each may arrive, at any time
    ctlTaken,     \* how many control records the control lane has delivered
    highest,      \* ReplayWindow.highest of the receiver
    seen,         \* ReplayWindow.seen
    ctlHighest,   \* SecureSession.ctlHighest
    up,           \* the receiver's peer has not failed
    ctlGot,       \* history: control records open() returned, in order
    mediaGot,     \* history: how often open() returned each media record
    disturbed     \* history: a control record was repeated, misdirected or garbled

sender   == <<txSeq, ctlSent, mediaSent>>
window   == <<highest, seen>>
receiver == <<highest, seen, ctlHighest, up, ctlGot, mediaGot>>
vars     == <<txSeq, ctlSent, mediaSent, ctlTaken, highest, seen, ctlHighest, up,
              ctlGot, mediaGot, disturbed>>

Seqs == 0..(MaxSeq - 1)

Init == /\ txSeq = 0 /\ ctlSent = <<>> /\ mediaSent = {}
        /\ ctlTaken = 0
        /\ highest = -1 /\ seen = {} /\ ctlHighest = -1
        /\ up = TRUE /\ ctlGot = <<>> /\ mediaGot = [s \in Seqs |-> 0]
        /\ disturbed = FALSE

-----------------------------------------------------------------------------
(* The sender. *)

\* Mutant: nobody checks for the end of the sequence space.
NextSeqUnchecked == up /\ txSeq' = txSeq + 1

\* seal() throws once the sequence space is exhausted, so nothing is sent.
NextSeq == /\ up
           /\ txSeq < MaxSeq
           /\ txSeq' = txSeq + 1

SealCtl == /\ NextSeq
           /\ ctlSent' = Append(ctlSent, txSeq)
           /\ UNCHANGED <<mediaSent, ctlTaken, receiver, disturbed>>

SealMedia == /\ NextSeq
             /\ mediaSent' = mediaSent \cup {txSeq}
             /\ UNCHANGED <<ctlSent, ctlTaken, receiver, disturbed>>

-----------------------------------------------------------------------------
(* ReplayWindow.accept: whether `s' is fresh, and the window afterwards. *)

TooOld(s) == s <= highest - Bits

\* Mutant: the left edge is off by one.
FreshTooNarrow(s) == s > highest \/ (s > highest - Bits + 1 /\ s \notin seen)

Fresh(s) == s > highest \/ (~TooOld(s) /\ s \notin seen)

\* Mutant: a sweep forgets the records still inside the window.
SweepAll(S, top) == IF Cardinality(S) > Bits + Slack THEN {top} ELSE S

\* What slid out of the window goes in batches.
Sweep(S, top) == IF Cardinality(S) > Bits + Slack
                   THEN {v \in S : v > top - Bits}
                   ELSE S

\* Mutant: a record that fills a gap is not remembered.
RecordNewestOnly(s) == IF s > highest
                         THEN highest' = s /\ seen' = Sweep(seen \cup {s}, s)
                         ELSE UNCHANGED window

Record(s) == IF s > highest
               THEN highest' = s /\ seen' = Sweep(seen \cup {s}, s)
               ELSE highest' = highest /\ seen' = seen \cup {s}

-----------------------------------------------------------------------------
(* SecureSession.open per lane, and the peer's reaction. *)

\* Peer._fail: an error on the control lane takes the connection down.
Fail == up' = FALSE /\ UNCHANGED <<highest, seen, ctlHighest, ctlGot, mediaGot>>

\* Mutant: until 1.4.0 one window judged both lanes.
OpenCtlThroughWindow(s) ==
    IF Fresh(s)
      THEN Record(s) /\ ctlGot' = Append(ctlGot, s) /\ UNCHANGED <<ctlHighest, up, mediaGot>>
      ELSE Fail

OpenCtl(s) ==
    IF s > ctlHighest
      THEN /\ ctlHighest' = s
           /\ ctlGot' = Append(ctlGot, s)
           /\ UNCHANGED <<highest, seen, up, mediaGot>>
      ELSE Fail

\* A refused media record is counted and forgotten.
OpenMedia(s) ==
    /\ Fresh(s)
    /\ Record(s)
    /\ mediaGot' = [mediaGot EXCEPT ![s] = @ + 1]
    /\ UNCHANGED <<ctlHighest, up, ctlGot>>

\* The control lane delivers its records once each, in order, however late.
DeliverCtl ==
    /\ up
    /\ ctlTaken < Len(ctlSent)
    /\ ctlTaken' = ctlTaken + 1
    /\ OpenCtl(ctlSent[ctlTaken + 1])
    /\ UNCHANGED <<sender, disturbed>>

\* The media lane delivers any record sent on it, again if the network repeats it.
DeliverMedia(s) ==
    /\ up
    /\ OpenMedia(s)
    /\ UNCHANGED <<sender, ctlTaken, disturbed>>

\* A control record the receiver has opened comes a second time.
RepeatCtl ==
    /\ up
    /\ \E i \in 1..ctlTaken : OpenCtl(ctlSent[i])
    /\ disturbed' = TRUE
    /\ UNCHANGED <<sender, ctlTaken>>

\* A media record on the control lane, or one whose tag fails, ends the session.
\* (On the media lane both are dropped, without a change of state.)
RefuseCtl ==
    /\ up
    /\ Fail
    /\ disturbed' = TRUE
    /\ UNCHANGED <<sender, ctlTaken>>

Next == \/ SealCtl
        \/ SealMedia
        \/ DeliverCtl
        \/ \E s \in mediaSent : DeliverMedia(s)
        \/ RepeatCtl
        \/ RefuseCtl

Spec == Init /\ [][Next]_vars

-----------------------------------------------------------------------------
(* Properties. *)

\* Every variable keeps its kind; in particular no record number reaches MaxSeq,
\* where seal() refuses to continue (the nonce would repeat).
TypeOK ==
    /\ txSeq \in 0..MaxSeq
    /\ ctlSent \in Seq(Seqs) /\ mediaSent \in SUBSET Seqs
    /\ ctlTaken \in 0..Len(ctlSent)
    /\ highest \in Seqs \cup {-1} /\ ctlHighest \in Seqs \cup {-1}
    /\ seen \in SUBSET Seqs
    /\ up \in BOOLEAN /\ disturbed \in BOOLEAN
    /\ ctlGot \in Seq(Seqs) /\ mediaGot \in [Seqs -> Nat]

\* The receiver hands control records over completely and in order, media
\* records at most once: what Peer's users rely on (open() and its two lanes).
Channel == INSTANCE AuthenticatedChannel WITH Records <- Seqs
Promise == Channel!Spec

\* The sweep in batches never forgets a record that is still inside the window,
\* or the network's second copy of it would be shown again (ReplayWindow.accept).
WindowRemembers == {s \in mediaSent : mediaGot[s] > 0 /\ ~TooOld(s)} \subseteq seen

\* A session goes down only when the control lane was tampered with: records
\* that are merely late, lost or reordered never end it (the 1.4.0 regression
\* the comment above LANE describes).
GenuineTrafficSurvives == ~up => disturbed

\* Reordering never looks like a replay: a media record inside the window that
\* arrives for the first time is accepted, whatever arrived before it.
FirstArrivalIsTaken ==
    \A s \in mediaSent : up /\ ~TooOld(s) /\ mediaGot[s] = 0 => Fresh(s)
=============================================================================
