---------------------------- MODULE Reassembler ----------------------------
(***************************************************************************)
(* Video frames on the unreliable channel (node/src/media/chunker.mjs): the *)
(* host's Chunker numbers a frame and splits it, the media lane loses and   *)
(* reorders chunks but hands over none twice (AuthenticatedChannel), the    *)
(* viewer's Reassembler puts frames together and counts what never came.    *)
(*                                                                         *)
(* A chunk is its frame's number and its index; payload, capture time and   *)
(* the key flag are left out.  Chunks come from a Chunker, so the checks    *)
(* for malformed and contradictory headers have nothing to catch here.      *)
(* Frame numbers are 32 bits wide: at 60 frames a second they last for two   *)
(* years, and the model stays below the point where they wrap.              *)
(***************************************************************************)
EXTENDS Integers, Sequences, FiniteSets

CONSTANTS
    ReorderDepth,   \* REORDER_DEPTH: frames this much older are given up
    ResyncGap,      \* 4096: a larger jump is a restarted stream
    MaxFrames,      \* bound: frames the host sends
    MaxChunks       \* bound: chunks per frame

ASSUME ReassemblerAssumption ==
    /\ ReorderDepth \in Nat \ {0}
    /\ ResyncGap \in Nat
    /\ MaxFrames \in Nat \ {0}
    /\ MaxChunks \in Nat \ {0}

VARIABLES
    frameId,            \* Chunker.frameId
    count,              \* chunks of each frame sent, 0 before it is sent
    net,                \* chunks sent that have not arrived; they may never
    pending,            \* received chunks of each partial frame, {} without entry
    highestCompleted,
    seen, swept, highestSeen,
    lost,               \* stats.lost, told apart by the frame it was counted for
    dropped,            \* stats.dropped > 0, that is needsKeyframe
    emitted,            \* history: the frames push() returned
    arrived,            \* history: the chunks that arrived
    overtaken,          \* history: frames with a chunk refused as outdated
    skipped,            \* history: frames a resync passed over
    start               \* history: the first frame of which a chunk came

vars == <<frameId, count, net, pending, highestCompleted, seen, swept, highestSeen,
          lost, dropped, emitted, arrived, overtaken, skipped, start>>

Frames  == 0..(MaxFrames - 1)
Chunks  == Frames \X (0..(MaxChunks - 1))
Unswept == -2           \* swept = null

Init ==
    /\ frameId = 0 /\ count = [f \in Frames |-> 0] /\ net = {}
    /\ pending = [f \in Frames |-> {}]
    /\ highestCompleted = -1
    /\ seen = {} /\ swept = Unswept /\ highestSeen = -1
    /\ lost = [f \in Frames |-> 0] /\ dropped = FALSE
    /\ emitted = <<>> /\ arrived = {} /\ overtaken = {} /\ skipped = {}
    /\ start = Unswept

-----------------------------------------------------------------------------
(* Host: Chunker.split and the sending of its chunks. *)

Send(n) ==
    /\ frameId < MaxFrames
    /\ frameId' = frameId + 1
    /\ count' = [count EXCEPT ![frameId] = n]
    /\ net' = net \cup {<<frameId, i>> : i \in 0..(n - 1)}
    /\ UNCHANGED <<pending, highestCompleted, seen, swept, highestSeen, lost, dropped,
                   emitted, arrived, overtaken, skipped, start>>

-----------------------------------------------------------------------------
(* Viewer: Reassembler.push. *)

\* #noteSeen starts at the first frame it sees.
Swept(id) == IF swept = Unswept THEN id - 1 ELSE swept

Newest(id) == IF id > highestSeen THEN id ELSE highestSeen

\* Mutant: the reorder depth is one frame short.
LimitEarly(id) == Newest(id) - ReorderDepth + 1

\* Everything up to here is now too old to be waited for.
Limit(id) == Newest(id) - ReorderDepth

Sweeps(id)  == id > Swept(id) /\ Limit(id) > Swept(id)
Resyncs(id) == Sweeps(id) /\ Limit(id) - Swept(id) > ResyncGap

\* Mutant: only frames of which some chunk came can be lost (before 1.4.0).
MissingNone(id) == {}

\* Frames of which no chunk came in time.
Missing(id) ==
    IF Sweeps(id) /\ ~Resyncs(id)
      THEN ((Swept(id) + 1)..Limit(id)) \ (seen \cup {id})
      ELSE {}

\* Mutant: what was swept stays in the set.
NoteSeenKeeps(id) ==
    /\ swept' = IF Sweeps(id) THEN Limit(id) ELSE Swept(id)
    /\ highestSeen' = IF id > Swept(id) THEN Newest(id) ELSE highestSeen
    /\ seen' = IF id <= Swept(id) THEN seen ELSE seen \cup {id}
    /\ skipped' = IF Resyncs(id) THEN skipped \cup ((Swept(id) + 1)..Limit(id)) ELSE skipped
    /\ start' = IF start = Unswept THEN id ELSE start

NoteSeen(id) ==
    /\ swept' = IF Sweeps(id) THEN Limit(id) ELSE Swept(id)
    /\ highestSeen' = IF id > Swept(id) THEN Newest(id) ELSE highestSeen
    /\ seen' = IF id <= Swept(id) THEN seen
               ELSE IF Resyncs(id) THEN {}
               ELSE {x \in seen \cup {id} : x > Limit(id) \/ ~Sweeps(id)}
    /\ skipped' = IF Resyncs(id) THEN skipped \cup ((Swept(id) + 1)..Limit(id)) ELSE skipped
    /\ start' = IF start = Unswept THEN id ELSE start

\* Mutant: partial frames are never given up.
ExpiredNever(P, id) == {}

\* #expireOlderThan: the partial frames that are too far behind.
Expired(P, id) == {x \in Frames : P[x] # {} /\ id - x > ReorderDepth}

\* Counts the frames M once more each.
CountLost(M) == /\ lost' = [x \in Frames |-> IF x \in M THEN lost[x] + 1 ELSE lost[x]]
                /\ dropped' = (dropped \/ M # {})

\* The partial frames with P, less those given up at frame id.
Settle(P, id) ==
    /\ pending' = [x \in Frames |-> IF x \in Expired(P, id) THEN {} ELSE P[x]]
    /\ lost' = [x \in Frames |-> lost[x] + (IF x \in Missing(id) THEN 1 ELSE 0)
                                         + (IF x \in Expired(P, id) THEN 1 ELSE 0)]
    /\ dropped' = (dropped \/ Missing(id) # {} \/ Expired(P, id) # {})

\* Mutant: late chunks are accepted after a newer frame was shown.
OutdatedNever(id) == FALSE

\* The frame was emitted, or a newer one was.
Outdated(id) == id <= highestCompleted

RefuseChunk(id) ==
    /\ Outdated(id)
    /\ CountLost(Missing(id))
    /\ overtaken' = overtaken \cup {id}
    /\ UNCHANGED <<pending, highestCompleted, emitted>>

HasAll(id, S) == Cardinality(S) = count[id]

StoreChunk(id, i) ==
    /\ ~Outdated(id)
    /\ ~HasAll(id, pending[id] \cup {i})
    /\ Settle([pending EXCEPT ![id] = @ \cup {i}], id)
    /\ UNCHANGED <<highestCompleted, emitted, overtaken>>

CompleteFrame(id, i) ==
    /\ ~Outdated(id)
    /\ HasAll(id, pending[id] \cup {i})
    /\ Settle([pending EXCEPT ![id] = {}], id)
    /\ highestCompleted' = id
    /\ emitted' = Append(emitted, id)
    /\ UNCHANGED overtaken

Push(c) ==
    /\ net' = net \ {c}
    /\ arrived' = arrived \cup {c}
    /\ NoteSeen(c[1])
    /\ RefuseChunk(c[1]) \/ StoreChunk(c[1], c[2]) \/ CompleteFrame(c[1], c[2])
    /\ UNCHANGED <<frameId, count>>

\* The viewer has dealt with the loss (requestKeyframe in app/session.mjs).
AcknowledgeKeyframe ==
    /\ dropped
    /\ dropped' = FALSE
    /\ UNCHANGED <<frameId, count, net, pending, highestCompleted, seen, swept, highestSeen,
                   lost, emitted, arrived, overtaken, skipped, start>>

Next == \/ \E n \in 1..MaxChunks : Send(n)
        \/ \E c \in net : Push(c)
        \/ AcknowledgeKeyframe

Spec == Init /\ [][Next]_vars

-----------------------------------------------------------------------------
(* Properties. *)

\* Every variable keeps its kind, and the set of seen frames is swept clean.
TypeOK ==
    /\ frameId \in 0..MaxFrames
    /\ count \in [Frames -> 0..MaxChunks]
    /\ net \in SUBSET Chunks /\ arrived \in SUBSET Chunks
    /\ pending \in [Frames -> SUBSET (0..(MaxChunks - 1))]
    /\ highestCompleted \in Frames \cup {-1}
    /\ highestSeen \in Frames \cup {-1}
    /\ seen \in SUBSET {x \in Frames : x > swept}
    /\ swept \in Frames \cup {-1, Unswept}
    /\ lost \in [Frames -> Nat] /\ dropped \in BOOLEAN
    /\ emitted \in Seq(Frames)
    /\ overtaken \in SUBSET Frames
    /\ skipped \in SUBSET Frames
    /\ start \in Frames \cup {Unswept}

\* Frames reach the decoder in the order they were captured, each once, whatever
\* the channel does: push() never goes back behind highestCompleted.
EmitsForward == \A i, j \in 1..Len(emitted) : i < j => emitted[i] < emitted[j]

\* A frame that lost a chunk does not occupy memory: no partial frame is further
\* than the reorder depth behind the newest complete one (#expireOlderThan).
PartialFramesAreRecent ==
    \A x \in Frames : pending[x] # {} => highestCompleted - x <= ReorderDepth

\* The frames push() returned.
Emitted == {emitted[k] : k \in 1..Len(emitted)}

\* No frame gets lost without a trace: from the first frame that came, one that is
\* due and was never emitted is counted, still partial, was overtaken by a newer
\* one, or fell into a resync (#noteSeen and #expireOlderThan together).
Accounted ==
    \A x \in Frames : start <= x /\ x <= swept =>
        \/ x \in Emitted
        \/ lost[x] > 0
        \/ pending[x] # {}
        \/ x \in overtaken \cup skipped

\* Reordering alone raises no alarm: a frame is only counted lost when a frame
\* the reorder depth newer was seen (the reason REORDER_DEPTH exists).
NoFalseAlarm ==
    \A x \in Frames : lost[x] > 0 => highestSeen - x >= ReorderDepth

\* What the comment on Reassembler's statistics says: a frame is lost if it never
\* completed by the time frames the reorder depth newer have been seen.  (A frame
\* that is still partial may yet be counted.)
LostIfNeverCompleted ==
    \A x \in Frames : start <= x /\ x <= swept /\ x \notin skipped =>
        \/ x \in Emitted
        \/ lost[x] > 0
        \/ pending[x] # {}
=============================================================================
