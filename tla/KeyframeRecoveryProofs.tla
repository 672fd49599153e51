------------------------ MODULE KeyframeRecoveryProofs ------------------------
(***************************************************************************)
(* Without network loss the picture is never corrupted, for queues, channels *)
(* and reorder depths of every size.  The invariant behind it: the host       *)
(* skips exactly while a frame is missing since the last keyframe it sent,    *)
(* nothing sent refers to a missing frame, and a decoder that misses a frame  *)
(* sits behind a window that skips too.                                       *)
(***************************************************************************)
EXTENDS KeyframeRecovery, TLAPS

Frames == {"key", "delta", "torn"}

-----------------------------------------------------------------------------
(* Frames enter and leave the wire. *)

\* Putting a frame on the wire adds that frame and one to its length.
LEMMA WirePut ==
    ASSUME NEW w \in Seq(Frames), NEW f \in Frames
    PROVE  /\ Append(w, f) \in Seq(Frames)
           /\ Len(Append(w, f)) = Len(w) + 1
           /\ Range(Append(w, f)) \subseteq Range(w) \cup {f}
<1>1. Append(w, f) \in Seq(Frames) /\ Len(Append(w, f)) = Len(w) + 1
      OBVIOUS
<1>2. \A i \in DOMAIN Append(w, f) : Append(w, f)[i] \in Range(w) \cup {f}
  <2>1. TAKE i \in DOMAIN Append(w, f)
  <2>2. i \in 1..(Len(w) + 1)
        BY <1>1
  <2>3. CASE i = Len(w) + 1
        BY <2>3
  <2>4. CASE i # Len(w) + 1
    <3>1. i \in DOMAIN w /\ Append(w, f)[i] = w[i]
          BY <2>2, <2>4
    <3>2. QED BY <3>1 DEF Range
  <2>5. QED BY <2>3, <2>4
<1>3. QED BY <1>1, <1>2 DEF Range

\* Taking the first frame off the wire leaves frames that were on it.
LEMMA WireTake ==
    ASSUME NEW w \in Seq(Frames), w # <<>>
    PROVE  /\ Tail(w) \in Seq(Frames)
           /\ Len(Tail(w)) <= Len(w)
           /\ Range(Tail(w)) \subseteq Range(w)
           /\ Head(w) \in Frames /\ Head(w) \in Range(w)
<1>1. /\ Tail(w) \in Seq(Frames) /\ Len(Tail(w)) = Len(w) - 1
      /\ Len(w) \in Nat \ {0} /\ Head(w) \in Frames
      OBVIOUS
<1>2. \A i \in DOMAIN Tail(w) : Tail(w)[i] \in Range(w)
  <2>1. TAKE i \in DOMAIN Tail(w)
  <2>2. i + 1 \in DOMAIN w /\ Tail(w)[i] = w[i + 1]
        BY <1>1
  <2>3. QED BY <2>2 DEF Range
<1>3. 1 \in DOMAIN w /\ Head(w) = w[1]
      BY <1>1
<1>4. Head(w) \in Range(w)
      BY <1>3 DEF Range
<1>5. QED BY <1>1, <1>2, <1>4 DEF Range

-----------------------------------------------------------------------------
(* The inductive invariant. *)

\* A decoder that misses a frame nobody lost is shielded by the window.
Shielded == losses = 0 => decoder # "broken" /\ (decoder = "gap" => winSkip)

Whole == TypeOK /\ NothingTornIsSent /\ Shielded

LEMMA InitWhole == Init => Whole
<1> SUFFICES ASSUME Init PROVE Whole
    OBVIOUS
<1>1. wire \in Seq(Frames) /\ Len(wire) = 0 /\ Range(wire) = {}
      BY DEF Init, Range
<1>2. TypeOK
  <2>1. {force, skipping, askDue, idrDue, torn, awaiting, winSkip, complaint, owed} \subseteq BOOLEAN
        BY DEF Init
  <2>2. Len(wire) <= WireLength /\ requests \in 0..MaxRequests /\ losses \in 0..MaxLosses
        BY <1>1, KeyframeAssumption DEF Init
  <2>3. /\ queue \in Levels /\ winQueue \in Levels /\ sinceAsk \in Ages
        /\ missing \subseteq 0..ReorderDepth /\ decoder \in {"ready", "gap", "broken"}
        BY DEF Init, Levels, Ages
  <2>4. QED BY <1>1, <2>1, <2>2, <2>3 DEF TypeOK, Frames
<1>3. NothingTornIsSent
      BY <1>1 DEF Init, NothingTornIsSent
<1>4. QED BY <1>2, <1>3 DEF Whole, Shielded, Init

\* Only the host's handler and the network touch the host's queue and the wire.
LEMMA EncodeKeepsWhole ==
    ASSUME Whole, NEW key \in BOOLEAN, Encode(key)
    PROVE  Whole'
<1>1. UNCHANGED <<idrDue, viewerVars, windowVars, requests, losses>> /\ Len(wire) < WireLength
      BY DEF Encode
<1>2. TypeOK /\ NothingTornIsSent /\ Shielded
      BY DEF Whole
<1>3. Shielded'
      BY <1>1, <1>2 DEF Shielded, viewerVars, windowVars
<1>4. CASE HoldBack(key)
  <2>1. TypeOK'
        BY <1>1, <1>2, <1>4 DEF TypeOK, HoldBack, Asks, viewerVars, windowVars
  <2>2. NothingTornIsSent'
        BY <1>2, <1>4 DEF NothingTornIsSent, HoldBack
  <2>3. QED BY <1>3, <2>1, <2>2 DEF Whole
<1>5. CASE SendOn(key)
  <2> DEFINE f == IF key THEN "key" ELSE IF torn THEN "torn" ELSE "delta"
  <2>1. f \in Frames /\ wire \in Seq(Frames) /\ wire' = Append(wire, f)
        BY <1>2, <1>5 DEF TypeOK, SendOn, Frames
  <2>2. f # "torn"
        BY <1>2, <1>5 DEF NothingTornIsSent, SendOn, Holds, TypeOK
  <2> HIDE DEF f
  <2>3. wire' \in Seq(Frames) /\ Len(wire') = Len(wire) + 1 /\ Range(wire') \subseteq Range(wire) \cup {f}
        BY <2>1, WirePut
  <2>4. Len(wire') <= WireLength
        BY <1>1, <2>1, <2>3, KeyframeAssumption
  <2>5. queue' \in Levels
        BY <1>2, <1>5 DEF TypeOK, SendOn, Fuller, Levels
  <2>6. TypeOK'
        BY <1>1, <1>2, <1>5, <2>3, <2>4, <2>5 DEF TypeOK, SendOn, viewerVars, windowVars, Frames
  <2>7. NothingTornIsSent'
        BY <1>2, <1>5, <2>2, <2>3 DEF NothingTornIsSent, SendOn, Holds, TypeOK
  <2>8. QED BY <1>3, <2>6, <2>7 DEF Whole
<1>6. QED BY <1>4, <1>5 DEF Encode

LEMMA LoseKeepsWhole ==
    ASSUME Whole, Lose
    PROVE  Whole'
<1>1. TypeOK /\ NothingTornIsSent /\ wire \in Seq(Frames)
      BY DEF Whole, TypeOK, Frames
<1>2. wire' \in Seq(Frames) /\ Len(wire') <= Len(wire) /\ Range(wire') \subseteq Range(wire)
      BY <1>1, WireTake DEF Lose
<1>3. Len(wire') <= WireLength
      BY <1>1, <1>2, KeyframeAssumption DEF TypeOK
<1>4. losses' \in 0..MaxLosses /\ losses' # 0
      BY <1>1, KeyframeAssumption DEF TypeOK, Lose
<1>5. missing' \subseteq 0..ReorderDepth
      BY <1>1, KeyframeAssumption DEF TypeOK, Lose, Older
<1>6. TypeOK'
      BY <1>1, <1>2, <1>3, <1>4, <1>5 DEF TypeOK, Lose, hostVars, Frames
<1>7. NothingTornIsSent'
      BY <1>1, <1>2 DEF NothingTornIsSent, Lose, hostVars
<1>8. QED BY <1>4, <1>6, <1>7 DEF Whole, Shielded

\* A request keeps the types of what it changes.
LEMMA RequestKeepsTypes ==
    ASSUME TypeOK, NEW wanted \in BOOLEAN, NEW key \in BOOLEAN, Request(wanted, key)
    PROVE  requests' \in 0..MaxRequests /\ sinceAsk' \in Ages /\ awaiting' \in BOOLEAN
<1>1. requests \in 0..MaxRequests /\ sinceAsk \in Ages /\ awaiting \in BOOLEAN
      BY DEF TypeOK
<1>2. CASE /\ requests < MaxRequests /\ requests' = requests + 1
           /\ sinceAsk' = "just" /\ awaiting' = ~key
  <2>1. requests' \in 0..MaxRequests
        BY <1>1, <1>2, KeyframeAssumption
  <2>2. QED BY <1>2, <2>1 DEF Ages
<1>3. CASE awaiting' = (awaiting /\ ~key) /\ UNCHANGED <<requests, sinceAsk>>
      BY <1>1, <1>3
<1>4. QED BY <1>2, <1>3 DEF Request

LEMMA DeliverKeepsWhole ==
    ASSUME Whole, Deliver
    PROVE  Whole'
<1> DEFINE f == Head(wire)
<1>1. TypeOK /\ NothingTornIsSent /\ Shielded /\ wire \in Seq(Frames)
      BY DEF Whole, TypeOK, Frames
<1>2. /\ wire' \in Seq(Frames) /\ Len(wire') <= Len(wire) /\ Range(wire') \subseteq Range(wire)
      /\ f \in Frames /\ f \in Range(wire)
      BY <1>1, WireTake DEF Deliver
<1>3. f # "torn"
      BY <1>1, <1>2 DEF NothingTornIsSent
<1>4. Len(wire') <= WireLength
      BY <1>1, <1>2, KeyframeAssumption DEF TypeOK
<1>5. missing' \subseteq 0..ReorderDepth
      BY <1>1, KeyframeAssumption DEF TypeOK, Deliver, Older
<1>6. requests' \in 0..MaxRequests /\ sinceAsk' \in Ages /\ awaiting' \in BOOLEAN
  <2>1. (Noticed \/ WindowAsks(f)) \in BOOLEAN /\ (f = "key") \in BOOLEAN
        BY DEF Noticed, WindowAsks, Skips
  <2>2. Request(Noticed \/ WindowAsks(f), f = "key")
        BY DEF Deliver
  <2>3. QED BY <1>1, <2>1, <2>2, RequestKeepsTypes
<1>7. owed' \in BOOLEAN /\ UNCHANGED <<hostVars, losses>>
      BY <1>1 DEF Deliver, TypeOK
<1>8. SkipFrame(f) \/ DecodeFrame(f)
      BY DEF Deliver
<1> HIDE DEF f
<1>9. /\ winSkip' \in BOOLEAN /\ complaint' \in BOOLEAN /\ winQueue' \in Levels
      /\ decoder' \in {"ready", "gap", "broken"}
  <2>1. CASE SkipFrame(f)
        BY <1>1, <2>1 DEF SkipFrame, TypeOK
  <2>2. CASE DecodeFrame(f)
    <3>1. winSkip' \in BOOLEAN /\ complaint' \in BOOLEAN /\ decoder' \in {"ready", "gap", "broken"}
          BY <1>1, <2>2 DEF DecodeFrame, Decoded, Reports, TypeOK
    <3>2. winQueue' \in Levels
          BY <1>1, <2>2 DEF DecodeFrame, TypeOK, Fuller, Levels
    <3>3. QED BY <3>1, <3>2
  <2>3. QED BY <1>8, <2>1, <2>2
<1>10. TypeOK'
      BY <1>1, <1>2, <1>4, <1>5, <1>6, <1>7, <1>9 DEF TypeOK, hostVars, Frames
<1>11. NothingTornIsSent'
      BY <1>1, <1>2, <1>7 DEF NothingTornIsSent, hostVars
<1>12. Shielded'
  <2>1. CASE SkipFrame(f)
        BY <1>1, <1>7, <2>1 DEF SkipFrame, Shielded
  <2>2. CASE DecodeFrame(f)
        BY <1>1, <1>3, <1>7, <2>2 DEF DecodeFrame, Decoded, Skips, Shielded, TypeOK
  <2>3. QED BY <1>8, <2>1, <2>2
<1>13. QED BY <1>10, <1>11, <1>12 DEF Whole

LEMMA ComplainKeepsWhole ==
    ASSUME Whole, Complain
    PROVE  Whole'
<1>1. TypeOK /\ NothingTornIsSent /\ Shielded
      BY DEF Whole
<1>2. requests' \in 0..MaxRequests /\ sinceAsk' \in Ages /\ awaiting' \in BOOLEAN
      BY <1>1, RequestKeepsTypes DEF Complain
<1>3. /\ UNCHANGED <<hostVars, winSkip, winQueue, decoder, missing, owed, wire, losses>>
      /\ complaint' = FALSE
      BY DEF Complain
<1>4. TypeOK'
      BY <1>1, <1>2, <1>3 DEF TypeOK, hostVars
<1>5. QED BY <1>1, <1>3, <1>4 DEF Whole, NothingTornIsSent, Shielded, hostVars

\* The host's side of a request and the passing of time on both sides.
LEMMA QuietStepsKeepWhole ==
    ASSUME Whole,
           \/ AnswerRequest \/ CoalesceRequest \/ QueueDrains \/ AskFallsDue \/ IdrFallsDue
           \/ WindowDrains \/ AskAges
    PROVE  Whole'
<1>1. TypeOK /\ NothingTornIsSent /\ Shielded
      BY DEF Whole
<1>2. UNCHANGED <<wire, torn, skipping, losses, decoder, winSkip>>
      BY DEF AnswerRequest, CoalesceRequest, QueueDrains, AskFallsDue, IdrFallsDue,
             WindowDrains, AskAges, hostVars, windowVars
<1>3. TypeOK'
  <2>1. CASE AnswerRequest
    <3>1. requests' \in 0..MaxRequests
          BY <1>1, <2>1, KeyframeAssumption DEF TypeOK, AnswerRequest
    <3>2. force' \in BOOLEAN /\ idrDue' \in BOOLEAN
          BY <2>1 DEF AnswerRequest
    <3>3. UNCHANGED <<skipping, askDue, queue, torn, viewerVars, windowVars, wire, losses>>
          BY <2>1 DEF AnswerRequest
    <3>4. QED BY <1>1, <3>1, <3>2, <3>3 DEF TypeOK, viewerVars, windowVars
  <2>2. CASE CoalesceRequest
        BY <1>1, <2>2, KeyframeAssumption DEF TypeOK, CoalesceRequest, hostVars, viewerVars, windowVars
  <2>3. CASE QueueDrains
        BY <1>1, <2>3 DEF TypeOK, QueueDrains, Emptier, Levels, viewerVars, windowVars
  <2>4. CASE AskFallsDue
        BY <1>1, <2>4 DEF TypeOK, AskFallsDue, viewerVars, windowVars
  <2>5. CASE IdrFallsDue
        BY <1>1, <2>5 DEF TypeOK, IdrFallsDue, viewerVars, windowVars
  <2>6. CASE WindowDrains
        BY <1>1, <2>6 DEF TypeOK, WindowDrains, Emptier, Levels, hostVars, viewerVars
  <2>7. CASE AskAges
        BY <1>1, <2>7 DEF TypeOK, AskAges, Ages, hostVars, windowVars
  <2>8. QED BY <2>1, <2>2, <2>3, <2>4, <2>5, <2>6, <2>7
<1>4. QED BY <1>1, <1>2, <1>3 DEF Whole, NothingTornIsSent, Shielded

LEMMA StepKeepsWhole == Whole /\ [Next]_vars => Whole'
<1> SUFFICES ASSUME Whole, [Next]_vars PROVE Whole'
    OBVIOUS
<1>1. ASSUME NEW key \in BOOLEAN, Encode(key) PROVE Whole'
      BY <1>1, EncodeKeepsWhole
<1>2. CASE Lose
      BY <1>2, LoseKeepsWhole
<1>3. CASE Deliver
      BY <1>3, DeliverKeepsWhole
<1>4. CASE Complain
      BY <1>4, ComplainKeepsWhole
<1>5. CASE \/ AnswerRequest \/ CoalesceRequest \/ QueueDrains \/ AskFallsDue \/ IdrFallsDue
           \/ WindowDrains \/ AskAges
      BY <1>5, QuietStepsKeepWhole
<1>6. CASE UNCHANGED vars
      BY <1>6 DEF Whole, TypeOK, NothingTornIsSent, Shielded, vars, hostVars, viewerVars, windowVars
<1>7. QED BY <1>1, <1>2, <1>3, <1>4, <1>5, <1>6 DEF Next

-----------------------------------------------------------------------------
(* Theorems. *)

\* The three parts of the invariant hold in every behaviour.
THEOREM AlwaysWhole == Spec => []Whole
<1>1. QED BY InitWhole, StepKeepsWhole, PTL DEF Spec

\* Every variable keeps its type and the channels their bounds.
THEOREM TypeCorrect == Spec => []TypeOK
<1>1. Whole => TypeOK
      BY DEF Whole
<1>2. QED BY <1>1, AlwaysWhole, PTL

\* The host skips exactly while a frame is missing, and sends nothing that
\* refers to a frame it held back.
THEOREM HostSendsWholeChains == Spec => []NothingTornIsSent
<1>1. Whole => NothingTornIsSent
      BY DEF Whole
<1>2. QED BY <1>1, AlwaysWhole, PTL

\* Full queues alone never corrupt the picture.
THEOREM FullQueuesAreHarmless == Spec => []NoCorruptionWithoutLoss
<1>1. Whole => NoCorruptionWithoutLoss
      BY DEF Whole, Shielded, NoCorruptionWithoutLoss
<1>2. QED BY <1>1, AlwaysWhole, PTL
=============================================================================
