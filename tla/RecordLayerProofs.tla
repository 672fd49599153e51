------------------------- MODULE RecordLayerProofs -------------------------
(* What the record layer promises, for every length of the sequence space and *)
(* every width and slack of the window.                                       *)
EXTENDS RecordLayer, TLAPS

-----------------------------------------------------------------------------
(* The inductive invariant. *)

\* Numbers are used once: both lanes only hold numbers already passed, the
\* control lane in growing order, and no number is on both.
Numbering ==
    /\ \A i \in 1..Len(ctlSent) : ctlSent[i] < txSeq /\ ctlSent[i] \notin mediaSent
    /\ \A s \in mediaSent : s < txSeq
    /\ \A i, j \in 1..Len(ctlSent) : i < j => ctlSent[i] < ctlSent[j]

\* While the session stands, everything the control lane delivered was opened.
CtlInStep ==
    up => /\ ctlTaken = Len(ctlGot)
          /\ ctlTaken = 0 => ctlHighest = -1
          /\ ctlTaken > 0 => ctlHighest = ctlSent[ctlTaken]

\* The window only knows records that were opened, once each, and it knows all
\* of them that are not too old.
WindowInStep ==
    /\ \A s \in seen : s \in mediaSent /\ mediaGot[s] > 0
    /\ \A s \in Seqs : mediaGot[s] > 0 => mediaGot[s] = 1 /\ s \in mediaSent /\ s <= highest
    /\ WindowRemembers

IInv == /\ TypeOK
        /\ Numbering
        /\ CtlInStep
        /\ WindowInStep
        /\ GenuineTrafficSurvives

-----------------------------------------------------------------------------
(* Lemmas about the receiver. *)

\* A sweep keeps every record inside the window and invents none.
LEMMA SweepKeepsTheWindow ==
    ASSUME NEW S, NEW top
    PROVE  /\ Sweep(S, top) \subseteq S
           /\ \A v \in S : v > top - Bits => v \in Sweep(S, top)
  BY DEF Sweep

\* A control record that repeats one already taken is refused.
LEMMA RepeatsAreNotNewer ==
    ASSUME IInv, up, NEW i \in 1..ctlTaken
    PROVE  ~(ctlSent[i] > ctlHighest)
  <1>1. /\ ctlTaken \in 1..Len(ctlSent) /\ i \in 1..Len(ctlSent)
        /\ ctlHighest = ctlSent[ctlTaken]
    BY DEF IInv, CtlInStep, TypeOK
  <1>2. ctlSent[i] \in Seqs /\ ctlSent[ctlTaken] \in Seqs
    BY <1>1 DEF IInv, TypeOK
  <1>3. CASE i = ctlTaken
    BY <1>1, <1>2, <1>3, RecordAssumption DEF Seqs
  <1>4. CASE i # ctlTaken
    <2>1. ctlSent[i] < ctlSent[ctlTaken]
      BY <1>1, <1>4 DEF IInv, Numbering
    <2> QED BY <2>1, <1>1, <1>2, RecordAssumption DEF Seqs
  <1> QED BY <1>3, <1>4

\* The next record of the control lane is always newer than the last one opened.
LEMMA TheNextOneIsNewer ==
    ASSUME IInv, up, ctlTaken < Len(ctlSent)
    PROVE  ctlSent[ctlTaken + 1] > ctlHighest /\ ctlSent[ctlTaken + 1] \in Seqs
  <1>1. ctlTaken \in Nat /\ ctlTaken + 1 \in 1..Len(ctlSent)
    BY DEF IInv, TypeOK
  <1>2. ctlSent[ctlTaken + 1] \in Seqs
    BY <1>1 DEF IInv, TypeOK
  <1>3. CASE ctlTaken = 0
    BY <1>2, <1>3, RecordAssumption DEF IInv, CtlInStep, Seqs
  <1>4. CASE ctlTaken > 0
    <2>1. ctlTaken \in 1..Len(ctlSent)
      BY <1>1, <1>4
    <2>2. ctlSent[ctlTaken] < ctlSent[ctlTaken + 1]
      BY <1>1, <2>1 DEF IInv, Numbering
    <2>3. ctlSent[ctlTaken] \in Seqs
      BY <2>1 DEF IInv, TypeOK
    <2> QED BY <2>2, <2>3, <1>2, <1>4, RecordAssumption DEF IInv, CtlInStep, Seqs
  <1> QED BY <1>1, <1>3, <1>4

\* A media record the window calls fresh was never opened before.
LEMMA FreshIsNew ==
    ASSUME IInv, NEW s \in mediaSent, Fresh(s)
    PROVE  s \in Seqs /\ mediaGot[s] = 0
  <1>1. s \in Seqs /\ mediaGot[s] \in Nat
    BY DEF IInv, TypeOK
  <1>2. SUFFICES ASSUME mediaGot[s] > 0 PROVE FALSE
    BY <1>1
  <1>3. s <= highest
    BY <1>1, <1>2 DEF IInv, WindowInStep
  <1>4. ~TooOld(s) /\ s \notin seen
    BY <1>1, <1>3, RecordAssumption DEF Fresh, IInv, TypeOK, Seqs
  <1> QED BY <1>2, <1>4 DEF IInv, WindowInStep, WindowRemembers

-----------------------------------------------------------------------------
(* The invariant is inductive. *)

LEMMA InitIsGood == Init => IInv
  <1> SUFFICES ASSUME Init PROVE IInv
    OBVIOUS
  <1>1. 1..Len(ctlSent) = {} /\ 0 \in 0..MaxSeq /\ 0 \in 0..Len(ctlSent)
    BY RecordAssumption DEF Init
  <1>2. TypeOK
    <2>1. /\ txSeq \in 0..MaxSeq /\ ctlTaken \in 0..Len(ctlSent)
          /\ ctlSent \in Seq(Seqs) /\ ctlGot \in Seq(Seqs)
      BY <1>1 DEF Init
    <2>2. mediaGot \in [Seqs -> Nat]
      BY DEF Init
    <2>3. /\ highest \in Seqs \cup {-1} /\ ctlHighest \in Seqs \cup {-1}
          /\ seen \in SUBSET Seqs /\ mediaSent \in SUBSET Seqs
          /\ up \in BOOLEAN /\ disturbed \in BOOLEAN
      BY DEF Init
    <2> QED BY <2>1, <2>2, <2>3 DEF TypeOK
  <1>3. Numbering
    BY <1>1 DEF Init, Numbering
  <1>4. CtlInStep /\ GenuineTrafficSurvives
    BY DEF Init, CtlInStep, GenuineTrafficSurvives
  <1>5. WindowInStep
    BY DEF Init, WindowInStep, WindowRemembers
  <1> QED BY <1>2, <1>3, <1>4, <1>5 DEF IInv

\* Sealing: the number is new and larger than every number in use.
LEMMA SealingIsGood ==
    ASSUME IInv, SealCtl \/ SealMedia
    PROVE  IInv'
  <1>1. /\ txSeq \in Seqs /\ txSeq' \in 0..MaxSeq /\ txSeq' = txSeq + 1 /\ up
        /\ UNCHANGED <<ctlTaken, highest, seen, ctlHighest, up, ctlGot, mediaGot, disturbed>>
    BY RecordAssumption DEF SealCtl, SealMedia, NextSeq, receiver, Seqs, IInv, TypeOK
  <1>2. CASE SealCtl
    <2>1. ctlSent' = Append(ctlSent, txSeq) /\ mediaSent' = mediaSent
      BY <1>2 DEF SealCtl
    <2>2. /\ ctlSent' \in Seq(Seqs) /\ Len(ctlSent') = Len(ctlSent) + 1
          /\ \A i \in 1..Len(ctlSent) : ctlSent'[i] = ctlSent[i]
          /\ ctlSent'[Len(ctlSent) + 1] = txSeq
          /\ Len(ctlSent) \in Nat
      BY <1>1, <2>1 DEF IInv, TypeOK
    <2>3. TypeOK'
      BY <1>1, <2>1, <2>2 DEF IInv, TypeOK
    <2>4. txSeq \notin mediaSent
      BY <1>1, RecordAssumption DEF IInv, TypeOK, Numbering, Seqs
    <2>5. Numbering'
      <3>1. \A i \in 1..Len(ctlSent) : ctlSent[i] \in Seqs
        BY DEF IInv, TypeOK
      <3>2. \A i \in 1..Len(ctlSent') : ctlSent'[i] < txSeq' /\ ctlSent'[i] \notin mediaSent'
        BY <1>1, <2>1, <2>2, <2>4, <3>1, RecordAssumption DEF IInv, Numbering, Seqs
      <3>3. \A s \in mediaSent' : s < txSeq'
        BY <1>1, <2>1, RecordAssumption DEF IInv, TypeOK, Numbering, Seqs
      <3>4. ASSUME NEW i \in 1..Len(ctlSent'), NEW j \in 1..Len(ctlSent'), i < j
            PROVE  ctlSent'[i] < ctlSent'[j]
        <4>1. i \in 1..Len(ctlSent) /\ j \in 1..(Len(ctlSent) + 1)
          BY <2>2, <3>4
        <4>2. CASE j = Len(ctlSent) + 1
          BY <2>2, <4>1, <4>2 DEF IInv, Numbering
        <4>3. CASE j \in 1..Len(ctlSent)
          BY <2>2, <3>4, <4>1, <4>3 DEF IInv, Numbering
        <4> QED BY <2>2, <4>1, <4>2, <4>3
      <3> QED BY <3>2, <3>3, <3>4 DEF Numbering
    <2>6. CtlInStep'
      BY <1>1, <2>2 DEF IInv, CtlInStep, TypeOK
    <2> QED BY <1>1, <2>1, <2>3, <2>5, <2>6
         DEF IInv, WindowInStep, WindowRemembers, TooOld, GenuineTrafficSurvives
  <1>3. CASE SealMedia
    <2>1. mediaSent' = mediaSent \cup {txSeq} /\ ctlSent' = ctlSent
      BY <1>3 DEF SealMedia
    <2>2. TypeOK'
      BY <1>1, <2>1 DEF IInv, TypeOK
    <2>3. \A i \in 1..Len(ctlSent) : ctlSent[i] \in Seqs
      BY DEF IInv, TypeOK
    <2>4. Numbering'
      BY <1>1, <2>1, <2>3, RecordAssumption DEF IInv, TypeOK, Numbering, Seqs
    <2>5. mediaGot[txSeq] = 0
      BY <1>1, RecordAssumption DEF IInv, TypeOK, Numbering, WindowInStep, Seqs
    <2>6. WindowInStep'
      BY <1>1, <2>1, <2>5 DEF IInv, WindowInStep, WindowRemembers, TooOld
    <2> QED BY <1>1, <2>1, <2>2, <2>4, <2>6
         DEF IInv, CtlInStep, GenuineTrafficSurvives
  <1> QED BY <1>2, <1>3

\* Delivery on the control lane: the record is newer, whatever the media lane did.
LEMMA DeliverCtlIsGood ==
    ASSUME IInv, DeliverCtl
    PROVE  IInv'
  <1>1. /\ ctlSent[ctlTaken + 1] > ctlHighest /\ ctlSent[ctlTaken + 1] \in Seqs
        /\ up /\ ctlTaken < Len(ctlSent)
    BY TheNextOneIsNewer DEF DeliverCtl
  <1>2. /\ ctlTaken' = ctlTaken + 1 /\ ctlHighest' = ctlSent[ctlTaken + 1]
        /\ ctlGot' = Append(ctlGot, ctlSent[ctlTaken + 1])
        /\ UNCHANGED <<txSeq, ctlSent, mediaSent, highest, seen, up, mediaGot, disturbed>>
    BY <1>1 DEF DeliverCtl, OpenCtl, sender
  <1>3. TypeOK'
    BY <1>1, <1>2 DEF IInv, TypeOK
  <1>4. CtlInStep'
    BY <1>1, <1>2 DEF IInv, TypeOK, CtlInStep
  <1> QED BY <1>2, <1>3, <1>4
       DEF IInv, Numbering, WindowInStep, WindowRemembers, TooOld, GenuineTrafficSurvives

\* Delivery on the media lane: the window keeps everything that is not too old.
LEMMA DeliverMediaIsGood ==
    ASSUME IInv, NEW s \in mediaSent, DeliverMedia(s)
    PROVE  IInv'
  <1>0. highest \in Int /\ Bits \in Int /\ \A v \in Seqs : v \in Int
    BY RecordAssumption DEF IInv, TypeOK, Seqs
  <1>1. /\ s \in Seqs /\ mediaGot[s] = 0 /\ Fresh(s)
        /\ UNCHANGED <<txSeq, ctlSent, mediaSent, ctlTaken, ctlHighest, up, ctlGot, disturbed>>
        /\ mediaGot' = [mediaGot EXCEPT ![s] = @ + 1]
        /\ Record(s)
    BY FreshIsNew DEF DeliverMedia, OpenMedia, sender
  <1>2. mediaGot' = [mediaGot EXCEPT ![s] = 1] /\ mediaGot' \in [Seqs -> Nat]
    BY <1>1 DEF IInv, TypeOK
  <1>3. /\ highest' \in Seqs /\ highest' >= highest /\ highest' >= s
        /\ seen' \subseteq seen \cup {s}
        /\ \A v \in seen \cup {s} : v > highest' - Bits => v \in seen'
    <2>1. CASE s > highest
      <3>1. highest' = s /\ seen' = Sweep(seen \cup {s}, s)
        BY <1>1, <2>1 DEF Record
      <3>2. /\ seen' \subseteq seen \cup {s}
            /\ \A v \in seen \cup {s} : v > s - Bits => v \in seen'
        BY <3>1, SweepKeepsTheWindow
      <3>3. s \in Int /\ s \in Seqs
        BY <1>0, <1>1
      <3>4. highest' \in Seqs /\ highest' >= highest /\ highest' >= s
        BY <1>0, <2>1, <3>1, <3>3
      <3> QED BY <3>1, <3>2, <3>4
    <2>2. CASE ~(s > highest)
      <3>1. highest' = highest /\ seen' = seen \cup {s}
        BY <1>1, <2>2 DEF Record
      <3> QED BY <1>1, <2>2, <3>1, RecordAssumption DEF Seqs, IInv, TypeOK
    <2> QED BY <2>1, <2>2
  <1>4. TypeOK'
    BY <1>1, <1>2, <1>3 DEF IInv, TypeOK
  <1>5. WindowInStep'
    <2>1. \A v \in seen' : v \in mediaSent' /\ mediaGot'[v] > 0
      BY <1>1, <1>2, <1>3 DEF IInv, WindowInStep, TypeOK
    <2>2. ASSUME NEW v \in Seqs, mediaGot'[v] > 0
          PROVE  mediaGot'[v] = 1 /\ v \in mediaSent' /\ v <= highest'
      <3>1. CASE v = s
        BY <1>1, <1>2, <1>3, <3>1, RecordAssumption DEF IInv, TypeOK, Seqs
      <3>2. CASE v # s
        <4>1. mediaGot'[v] = mediaGot[v]
          BY <1>2, <3>2 DEF IInv, TypeOK
        <4>2. mediaGot[v] = 1 /\ v \in mediaSent /\ v <= highest
          BY <2>2, <4>1 DEF IInv, WindowInStep
        <4> QED BY <1>1, <1>3, <4>1, <4>2, RecordAssumption DEF IInv, TypeOK, Seqs
      <3> QED BY <3>1, <3>2
    <2>3. ASSUME NEW v \in mediaSent', mediaGot'[v] > 0, ~(v <= highest' - Bits)
          PROVE  v \in seen'
      <3>1. v \in Seqs /\ v \in mediaSent
        BY <1>1, <2>3 DEF IInv, TypeOK
      <3>2. v > highest' - Bits
        BY <1>0, <1>3, <2>3, <3>1
      <3>3. CASE v = s
        BY <1>3, <3>2, <3>3
      <3>4. CASE v # s
        <4>1. mediaGot[v] > 0
          BY <1>2, <2>3, <3>1, <3>4 DEF IInv, TypeOK
        <4>2. ~TooOld(v)
          BY <1>0, <1>3, <3>1, <3>2 DEF TooOld
        <4> QED BY <1>3, <3>1, <3>2, <4>1, <4>2 DEF IInv, WindowInStep, WindowRemembers
      <3> QED BY <3>3, <3>4
    <2> QED BY <2>1, <2>2, <2>3 DEF WindowInStep, WindowRemembers, TooOld
  <1> QED BY <1>1, <1>4, <1>5 DEF IInv, Numbering, CtlInStep, GenuineTrafficSurvives

\* A repeated or refused control record ends the session and opens nothing.
LEMMA BreakingIsGood ==
    ASSUME IInv, RepeatCtl \/ RefuseCtl
    PROVE  /\ IInv'
           /\ up' = FALSE
           /\ UNCHANGED <<ctlSent, mediaSent, ctlGot, mediaGot>>
  <1>1. CASE RepeatCtl
    <2>1. PICK i \in 1..ctlTaken : OpenCtl(ctlSent[i])
      BY <1>1 DEF RepeatCtl
    <2>2. Fail /\ disturbed' = TRUE /\ UNCHANGED <<sender, ctlTaken>>
      BY <1>1, <2>1, RepeatsAreNotNewer DEF RepeatCtl, OpenCtl
    <2> QED BY <2>2 DEF Fail, sender, IInv, TypeOK, Numbering, CtlInStep, WindowInStep,
         WindowRemembers, TooOld, GenuineTrafficSurvives
  <1>2. CASE RefuseCtl
    BY <1>2 DEF RefuseCtl, Fail, sender, IInv, TypeOK, Numbering, CtlInStep, WindowInStep,
       WindowRemembers, TooOld, GenuineTrafficSurvives
  <1> QED BY <1>1, <1>2

LEMMA StandingStillIsGood == IInv /\ UNCHANGED vars => IInv'
  BY DEF vars, IInv, TypeOK, Numbering, CtlInStep, WindowInStep, WindowRemembers,
     TooOld, GenuineTrafficSurvives

LEMMA NextIsGood == IInv /\ [Next]_vars => IInv'
  BY SealingIsGood, DeliverCtlIsGood, DeliverMediaIsGood, BreakingIsGood,
     StandingStillIsGood DEF Next

\* The invariant holds in every reachable state.
THEOREM AlwaysInStep == Spec => []IInv
  BY InitIsGood, NextIsGood, PTL DEF Spec

-----------------------------------------------------------------------------
(* What follows. *)

\* Every variable keeps its kind; in particular no number of MaxSeq or more is
\* ever sealed (SecureSession.#nextSeq).
THEOREM TypeCorrect == Spec => []TypeOK
  BY AlwaysInStep, PTL DEF IInv

\* Records that are late, lost or reordered never end a session, however long
\* the media lane ran meanwhile (SecureSession.open on the control lane).
THEOREM LateRecordsAreHarmless == Spec => []GenuineTrafficSurvives
  BY AlwaysInStep, PTL DEF IInv

\* Sweeping the window in batches forgets no record inside it, for every width
\* and every slack (ReplayWindow.accept).
THEOREM SweepingIsSafe == Spec => []WindowRemembers
  <1>1. IInv => WindowRemembers
    BY DEF IInv, WindowInStep
  <1> QED BY <1>1, AlwaysInStep, PTL

\* A record inside the window that arrives for the first time is never refused.
THEOREM ReorderingIsNotReplay == Spec => []FirstArrivalIsTaken
  <1>1. IInv => FirstArrivalIsTaken
    <2> SUFFICES ASSUME IInv, NEW s \in mediaSent, ~TooOld(s), mediaGot[s] = 0
                 PROVE  Fresh(s)
      BY DEF FirstArrivalIsTaken
    <2>1. s \notin seen
      BY DEF IInv, WindowInStep
    <2> QED BY <2>1 DEF Fresh
  <1> QED BY <1>1, AlwaysInStep, PTL

-----------------------------------------------------------------------------
(* The record layer keeps the promise of AuthenticatedChannel. *)

LEMMA InitKeepsPromise == Init => Channel!Init
  BY DEF Init, Channel!Init

\* Sealing is sending a new record.
LEMMA SealingKeepsPromise ==
    ASSUME IInv, SealCtl \/ SealMedia
    PROVE  Channel!Next
  <1>1. txSeq \in Seqs /\ up
    BY RecordAssumption DEF SealCtl, SealMedia, NextSeq, Seqs, IInv, TypeOK
  <1>2. \A s \in Seqs : ~(s < s)
    BY RecordAssumption DEF Seqs
  <1>3. Channel!New(txSeq)
    BY <1>1, <1>2 DEF Channel!New, IInv, Numbering
  <1>4. CASE SealCtl
    <2>1. Channel!SendCtl
      BY <1>1, <1>3, <1>4 DEF SealCtl, receiver, Channel!SendCtl
    <2> QED BY <2>1 DEF Channel!Next
  <1>5. CASE SealMedia
    <2>1. Channel!SendMedia
      BY <1>1, <1>3, <1>5 DEF SealMedia, receiver, Channel!SendMedia
    <2> QED BY <2>1 DEF Channel!Next
  <1> QED BY <1>4, <1>5

\* Delivering on the control lane is handing over the next control record.
LEMMA DeliverCtlKeepsPromise ==
    ASSUME IInv, DeliverCtl
    PROVE  Channel!Next
  <1>1. ctlSent[ctlTaken + 1] > ctlHighest /\ up /\ ctlTaken < Len(ctlSent)
    BY TheNextOneIsNewer DEF DeliverCtl
  <1>2. ctlTaken = Len(ctlGot)
    BY <1>1 DEF IInv, CtlInStep
  <1>3. Channel!GetCtl
    BY <1>1, <1>2 DEF DeliverCtl, OpenCtl, sender, Channel!GetCtl
  <1> QED BY <1>3 DEF Channel!Next

\* Delivering on the media lane is handing over a record for the first time.
LEMMA DeliverMediaKeepsPromise ==
    ASSUME IInv, NEW s \in mediaSent, DeliverMedia(s)
    PROVE  Channel!Next
  <1>1. s \in Seqs /\ mediaGot[s] = 0
    BY FreshIsNew DEF DeliverMedia, OpenMedia
  <1>2. mediaGot' = [mediaGot EXCEPT ![s] = 1]
    BY <1>1 DEF DeliverMedia, OpenMedia, IInv, TypeOK
  <1>3. Channel!GetMedia
    BY <1>1, <1>2 DEF DeliverMedia, OpenMedia, sender, Channel!GetMedia
  <1> QED BY <1>3 DEF Channel!Next

LEMMA BreakingKeepsPromise ==
    ASSUME IInv, RepeatCtl \/ RefuseCtl
    PROVE  Channel!Next
  BY BreakingIsGood DEF Channel!Next, Channel!Break

LEMMA NextKeepsPromise == IInv /\ [Next]_vars => [Channel!Next]_(Channel!vars)
  <1> SUFFICES ASSUME IInv, [Next]_vars PROVE [Channel!Next]_(Channel!vars)
    OBVIOUS
  <1>1. CASE UNCHANGED vars
    BY <1>1 DEF vars, Channel!vars
  <1>2. CASE Next
    BY <1>2, SealingKeepsPromise, DeliverCtlKeepsPromise, DeliverMediaKeepsPromise,
       BreakingKeepsPromise DEF Next
  <1> QED BY <1>1, <1>2

\* The detailed record layer implements the abstract channel: control records
\* complete and in order, media records at most once, nothing after a failure.
THEOREM KeepsPromise == Spec => Promise
  BY InitKeepsPromise, NextKeepsPromise, AlwaysInStep, PTL
     DEF Spec, Promise, Channel!Spec
=============================================================================
