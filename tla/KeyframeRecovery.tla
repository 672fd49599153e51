--------------------------- MODULE KeyframeRecovery ---------------------------
(***************************************************************************)
(* How the picture survives full queues and lost frames: the host's video   *)
(* handler (app/session.mjs), the viewer's keyframe requests, the stream    *)
(* window's queue (media/engine.mjs) and the native encoder and decoder.    *)
(*                                                                         *)
(* A frame is a keyframe or a delta, which decodes only if the frame before *)
(* it was decoded.  Clocks are abstracted to the thresholds the code        *)
(* compares them with, queues to "low", "mid" and "over" likewise; frames    *)
(* arrive in order or not at all (Reassembler has the rest).  The encoder    *)
(* is taken without intra refresh, whose healing wave only makes it better.  *)
(* Once secure, the viewer clears needsKeyframe in the handler that set it,  *)
(* so the poll of once a second never finds it set and has no action here.  *)
(***************************************************************************)
EXTENDS Integers, Sequences, SequencesExt

CONSTANTS
    ReorderDepth,   \* frames until a missing one is noticed (chunker.mjs: 3)
    WireLength,     \* bound: frames under way to the viewer
    MaxRequests,    \* bound: keyframe requests under way to the host
    MaxLosses       \* bound: frames the network loses

ASSUME KeyframeAssumption ==
    /\ ReorderDepth \in Nat \ {0}
    /\ WireLength \in Nat \ {0}
    /\ MaxRequests \in Nat \ {0}
    /\ MaxLosses \in Nat

VARIABLES
    force,          \* Encoder.forceKeyframe_, or the request on its way there
    skipping,       \* Host._awaitingKeyframe
    askDue,         \* 250 ms have passed since Host._keyframeAskedAt
    idrDue,         \* 200 ms have passed since Host._lastIdrAt
    queue,          \* the media channel's bufferedAmount against the budget
    wire,           \* frames under way: "key", "delta", "torn" (see torn)
    requests,       \* keyframe-request messages in the control channel
    missing,        \* ages of the lost frames the Reassembler has not noticed
    awaiting,       \* awaitingKeyframe of the viewer
    sinceAsk,       \* lastKeyframeReq: up to 100 ms ago, up to 250, longer
    winSkip,        \* ViewEngine.dropUntilKeyframe
    winQueue,       \* writableLength of its pipe against VIEW_QUEUE_LIMIT
    decoder,        \* "ready" for a delta, a "gap" before it, or "broken"
    complaint,      \* need-keyframe of the stream window, in its pipe
    torn,           \* history: a frame was held back since the last keyframe
    owed,           \* history: a loss was noticed and no keyframe came since
    losses          \* history: frames lost

hostVars   == <<force, skipping, askDue, idrDue, queue, torn>>
viewerVars == <<awaiting, sinceAsk, missing, owed>>
windowVars == <<winSkip, winQueue, decoder, complaint>>
vars == <<hostVars, viewerVars, windowVars, wire, requests, losses>>

Levels == {"low", "mid", "over"}
Ages   == {"just", "recent", "long"}

\* The stream runs and the first keyframe is on screen.
Init ==
    /\ force = FALSE /\ skipping = FALSE /\ askDue = TRUE /\ idrDue = TRUE
    /\ queue = "low" /\ torn = FALSE
    /\ wire = <<>> /\ requests = 0 /\ losses = 0
    /\ missing = {} /\ awaiting = FALSE /\ sinceAsk = "long" /\ owed = FALSE
    /\ winSkip = FALSE /\ winQueue = "low" /\ decoder = "ready" /\ complaint = FALSE

\* Where a queue may be once a frame was put into it; one keyframe can fill it.
Fuller(level) == CASE level = "low" -> Levels
                   [] level = "mid" -> {"mid", "over"}
                   [] level = "over" -> {"over"}

Emptier(level) == IF level = "over" THEN "mid" ELSE "low"

-----------------------------------------------------------------------------
(* Host. *)

\* Mutant: only the frame that finds the queue full is held back.
HoldsOne(key) == ~key /\ queue = "over"

\* A delta that finds the queue full, and every delta after it.
Holds(key) == ~key /\ (queue = "over" \/ skipping)

\* Mutant: the host asks only when it begins to skip.
AsksOnce == queue = "low" /\ ~skipping

\* Skipping begins with _keyframeAskedAt = 0, so that the first question is due.
Asks == queue = "low" /\ (askDue \/ ~skipping)

\* The engine's frame is held back.
HoldBack(key) ==
    /\ Holds(key)
    /\ skipping' = TRUE /\ torn' = TRUE
    /\ force' = Asks
    /\ askDue' = ((askDue \/ ~skipping) /\ ~Asks)
    /\ UNCHANGED <<queue, wire>>

\* The engine's frame goes out.
SendOn(key) ==
    /\ ~Holds(key)
    /\ skipping' = (skipping /\ ~key) /\ torn' = (torn /\ ~key)
    /\ force' = FALSE
    /\ wire' = Append(wire, IF key THEN "key" ELSE IF torn THEN "torn" ELSE "delta")
    /\ queue' \in Fuller(queue)
    /\ UNCHANGED askDue

\* What the encoder may produce: a keyframe at any time, a delta unless forced.
Encodable(key) == force => key

\* A forced keyframe, a delta, or a keyframe of the encoder's own accord.
Encode(key) ==
    /\ Len(wire) < WireLength
    /\ Encodable(key)
    /\ HoldBack(key) \/ SendOn(key)
    /\ UNCHANGED <<idrDue, viewerVars, windowVars, requests, losses>>

\* One IDR answers every request of 200 ms.
AnswerRequest ==
    /\ requests > 0 /\ idrDue
    /\ requests' = requests - 1
    /\ idrDue' = FALSE /\ force' = TRUE
    /\ UNCHANGED <<skipping, askDue, queue, torn, viewerVars, windowVars, wire, losses>>

CoalesceRequest ==
    /\ requests > 0 /\ ~idrDue
    /\ requests' = requests - 1
    /\ UNCHANGED <<hostVars, viewerVars, windowVars, wire, losses>>

QueueDrains ==
    /\ queue # "low"
    /\ queue' = Emptier(queue)
    /\ UNCHANGED <<force, skipping, askDue, idrDue, torn, viewerVars, windowVars,
                   wire, requests, losses>>

AskFallsDue ==
    /\ ~askDue
    /\ askDue' = TRUE
    /\ UNCHANGED <<force, skipping, idrDue, queue, torn, viewerVars, windowVars,
                   wire, requests, losses>>

IdrFallsDue ==
    /\ ~idrDue
    /\ idrDue' = TRUE
    /\ UNCHANGED <<force, skipping, askDue, queue, torn, viewerVars, windowVars,
                   wire, requests, losses>>

-----------------------------------------------------------------------------
(* Network. *)

\* Numbers pass: the unnoticed losses are one frame older.
Older == {IF a < ReorderDepth THEN a + 1 ELSE a : a \in missing}

Lose ==
    /\ wire # <<>> /\ losses < MaxLosses
    /\ losses' = losses + 1
    /\ wire' = Tail(wire)
    /\ missing' = Older \cup {0}
    /\ decoder' = IF decoder = "ready" THEN "gap" ELSE decoder
    /\ UNCHANGED <<hostVars, awaiting, sinceAsk, owed, winSkip, winQueue, complaint, requests>>

-----------------------------------------------------------------------------
(* Viewer. *)

\* Mutant: having asked, the viewer waits for the keyframe however long it takes.
MayAskOnce == ~awaiting /\ sinceAsk # "just"

\* 100 ms after a request, 250 while its keyframe has not come.
MayAsk == sinceAsk = "long" \/ (sinceAsk = "recent" /\ ~awaiting)

\* requestKeyframe, if something wants it; key: a keyframe came along with it.
Request(wanted, key) ==
    \/ /\ wanted /\ MayAsk
       /\ requests < MaxRequests
       /\ requests' = requests + 1
       /\ sinceAsk' = "just"
       /\ awaiting' = ~key
    \/ /\ ~(wanted /\ MayAsk)
       /\ awaiting' = (awaiting /\ ~key)
       /\ UNCHANGED <<requests, sinceAsk>>

\* The arriving frame makes the Reassembler give up an older one.
Noticed == ReorderDepth \in Older

\* Mutant: the window takes deltas again as soon as there is room.
SkipsWhileFull(f) == f # "key" /\ winQueue = "over"

\* The stream window is behind: no delta until a keyframe.
Skips(f) == f # "key" /\ (winQueue = "over" \/ winSkip)

\* Mutant: the window reports only the start of a skip.
WindowAsksOnce(f) == Skips(f) /\ winQueue = "low" /\ ~winSkip

\* Its pipe has drained: need-keyframe.
WindowAsks(f) == Skips(f) /\ winQueue = "low"

SkipFrame(f) ==
    /\ Skips(f)
    /\ winSkip' = TRUE
    /\ decoder' = IF decoder = "ready" THEN "gap" ELSE decoder
    /\ UNCHANGED <<winQueue, complaint>>

\* A delta without the frame it refers to shows garbage, and so does the next.
Decoded(f) ==
    IF f = "key" THEN "ready"
    ELSE IF f = "torn" \/ decoder # "ready" THEN "broken" ELSE "ready"

\* The decoder notices a missing reference and reports it, or conceals it.
Reports == {complaint, complaint \/ decoder' = "broken"}

DecodeFrame(f) ==
    /\ ~Skips(f)
    /\ winSkip' = (winSkip /\ f # "key")
    /\ winQueue' \in Fuller(winQueue)
    /\ decoder' = Decoded(f)
    /\ complaint' \in Reports

Deliver ==
    /\ wire # <<>>
    /\ wire' = Tail(wire)
    /\ missing' = Older \ {ReorderDepth}
    /\ Request(Noticed \/ WindowAsks(Head(wire)), Head(wire) = "key")
    /\ SkipFrame(Head(wire)) \/ DecodeFrame(Head(wire))
    /\ owed' = (Head(wire) # "key" /\ (owed \/ (Noticed /\ decoder # "ready")))
    /\ UNCHANGED <<hostVars, losses>>

\* need-keyframe of the decoder reaches the viewer.
Complain ==
    /\ complaint
    /\ complaint' = FALSE
    /\ Request(TRUE, FALSE)
    /\ UNCHANGED <<hostVars, winSkip, winQueue, decoder, missing, owed, wire, losses>>

WindowDrains ==
    /\ winQueue # "low"
    /\ winQueue' = Emptier(winQueue)
    /\ UNCHANGED <<hostVars, viewerVars, winSkip, decoder, complaint, wire, requests, losses>>

AskAges ==
    /\ sinceAsk # "long"
    /\ sinceAsk' = IF sinceAsk = "just" THEN "recent" ELSE "long"
    /\ UNCHANGED <<hostVars, awaiting, missing, owed, windowVars, wire, requests, losses>>

-----------------------------------------------------------------------------
Next ==
    \/ \E key \in BOOLEAN : Encode(key)
    \/ AnswerRequest \/ CoalesceRequest
    \/ QueueDrains \/ AskFallsDue \/ IdrFallsDue
    \/ Lose
    \/ Deliver \/ Complain
    \/ WindowDrains \/ AskAges

Spec == Init /\ [][Next]_vars

\* The capture repeats the last image of a still screen, so frames keep coming
\* (portal_pipewire.cpp, windows_dxgi.cpp); queues drain, time passes, and what
\* the network does not lose arrives.  Keyframes of the encoder's own accord and
\* the decoder's complaints are not counted on.
FairSpec ==
    /\ Spec
    /\ WF_vars(Encode(force))
    /\ WF_vars(AnswerRequest \/ CoalesceRequest)
    /\ WF_vars(QueueDrains) /\ WF_vars(AskFallsDue) /\ WF_vars(IdrFallsDue)
    /\ WF_vars(Deliver) /\ WF_vars(Complain)
    /\ WF_vars(WindowDrains) /\ WF_vars(AskAges)

-----------------------------------------------------------------------------
(* Properties. *)

\* Every variable keeps its type and no channel holds more than its bound.
TypeOK ==
    /\ {force, skipping, askDue, idrDue, torn, awaiting, winSkip, complaint, owed} \subseteq BOOLEAN
    /\ queue \in Levels /\ winQueue \in Levels /\ sinceAsk \in Ages
    /\ wire \in Seq({"key", "delta", "torn"}) /\ Len(wire) <= WireLength
    /\ requests \in 0..MaxRequests
    /\ missing \subseteq 0..ReorderDepth
    /\ decoder \in {"ready", "gap", "broken"}
    /\ losses \in 0..MaxLosses

\* Without network loss the picture is never corrupted, however often the host
\* and the stream window drop frames because their queues are full ("Every later
\* frame references the skipped one ... hold them back too", session.mjs).
NoCorruptionWithoutLoss == losses = 0 => decoder # "broken"

\* The host never goes on sending deltas past a frame it held back, and once it
\* holds back, it does so until a keyframe has gone out.
NothingTornIsSent == "torn" \notin Range(wire) /\ (torn <=> skipping)

\* A host that skips frames sends again at some time: it asks its encoder for the
\* keyframe that ends the skipping, also if no request of the viewer comes.
HostResumes == skipping ~> ~skipping

\* A stream window that fell behind shows frames again, even if requests are
\* coalesced and the keyframe that answers one is lost.
WindowResumes == winSkip ~> ~winSkip

\* A corrupted picture heals as long as the decoder keeps reporting it.
HealsIfReported ==
    []<>(complaint \/ decoder # "broken") => (decoder = "broken" ~> decoder # "broken")

\* "already asked; this loss is covered" (session.mjs, requestKeyframeImmediate):
\* while a noticed loss has not been repaired, a request for a keyframe or the
\* keyframe is under way, or there is still a loss or a complaint to react to.
LossIsCovered ==
    owed /\ missing = {} /\ ~complaint => requests > 0 \/ force \/ "key" \in Range(wire)
=============================================================================
