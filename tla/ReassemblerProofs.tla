------------------------- MODULE ReassemblerProofs -------------------------
(* What the reassembler guarantees for any reorder depth, any number of frames *)
(* and chunks, and any order of arrival.                                       *)
EXTENDS Reassembler, TLAPS

-----------------------------------------------------------------------------
(* The inductive invariant. *)

\* Nothing emitted is newer than the newest completed frame.
EmittedIsBehind == \A k \in 1..Len(emitted) : emitted[k] <= highestCompleted

\* The sweep runs behind the newest frame seen.
SweepIsBehind == /\ swept = Unswept => highestSeen = -1 /\ seen = {}
                 /\ swept # Unswept => swept < highestSeen

IInv == /\ TypeOK
        /\ EmittedIsBehind /\ EmitsForward
        /\ SweepIsBehind
        /\ PartialFramesAreRecent
        /\ NoFalseAlarm

-----------------------------------------------------------------------------
(* Lemmas about one chunk. *)

\* The numbers the proofs compute with.
LEMMA Numbers ==
    ASSUME TypeOK
    PROVE  /\ MaxFrames \in Nat /\ ReorderDepth \in Nat /\ ReorderDepth >= 1
           /\ \A x \in Frames : x \in Nat /\ x < MaxFrames
           /\ highestSeen \in Int /\ highestSeen >= -1
           /\ highestCompleted \in Int
           /\ swept \in Int /\ swept >= -2 /\ swept < MaxFrames
           /\ Unswept \in Int
  BY ReassemblerAssumption DEF TypeOK, Frames, Unswept

\* A chunk's frame number is a frame, and was sent.
LEMMA ChunksAreOfFrames == ASSUME TypeOK, NEW c \in net PROVE c[1] \in Frames /\ c[2] \in 0..(MaxChunks - 1)
  BY DEF TypeOK, Chunks

\* Where #noteSeen leaves the sweep and the newest frame.
LEMMA NoteSeenMoves ==
    ASSUME TypeOK, SweepIsBehind, NEW id \in Frames, NoteSeen(id)
    PROVE  /\ swept' \in Frames \cup {-1} /\ swept' < highestSeen'
           /\ highestSeen' \in Frames /\ highestSeen' >= highestSeen /\ highestSeen' >= id
           /\ start' \in Frames \cup {Unswept}
           /\ seen' \in SUBSET {x \in Frames : x > swept'}
           /\ skipped' \in SUBSET Frames
  <1> USE Numbers
  <1>1. Swept(id) \in Int /\ Swept(id) >= -1 /\ Swept(id) < MaxFrames
    BY DEF Swept, TypeOK, Frames, Unswept
  <1>2. Newest(id) \in Frames /\ Newest(id) >= id /\ Newest(id) >= highestSeen
    BY DEF Newest, TypeOK, Frames
  <1>3. Limit(id) \in Int /\ Limit(id) < Newest(id)
    BY <1>2 DEF Limit, Frames
  <1>4. id > Swept(id) => Swept(id) < Newest(id)
    BY <1>1, <1>2
  <1>5. id <= Swept(id) => /\ Swept(id) = swept /\ swept < highestSeen
                           /\ id <= highestSeen /\ highestSeen \in Frames
    BY DEF Swept, SweepIsBehind, TypeOK, Frames, Unswept
  <1>6. highestSeen' \in Frames /\ highestSeen' >= highestSeen /\ highestSeen' >= id
    BY <1>1, <1>2, <1>5 DEF NoteSeen
  <1>7. swept' \in Int /\ swept' >= -1 /\ swept' < highestSeen'
    BY <1>1, <1>2, <1>3, <1>4, <1>5 DEF NoteSeen, Sweeps
  <1>8. swept' \in Frames \cup {-1}
    BY <1>6, <1>7 DEF Frames
  <1>9. start' \in Frames \cup {Unswept}
    BY DEF NoteSeen, TypeOK
  <1>10. skipped' \in SUBSET Frames
    <2>1. \A x \in (Swept(id) + 1)..Limit(id) : x \in Frames
      BY <1>1, <1>2, <1>3 DEF Frames
    <2> QED BY <2>1 DEF NoteSeen, TypeOK
  <1>11. seen' \in SUBSET {x \in Frames : x > swept'}
    <2>1. CASE id <= Swept(id)
      <3>1. seen' = seen /\ swept' = Swept(id)
        BY <2>1, <1>1 DEF NoteSeen, Sweeps
      <3> QED BY <3>1, <2>1, <1>5 DEF TypeOK
    <2>2. CASE id > Swept(id) /\ Resyncs(id)
      BY <2>2, <1>1 DEF NoteSeen
    <2>3. CASE id > Swept(id) /\ ~Resyncs(id)
      <3>1. seen' = {x \in seen \cup {id} : x > Limit(id) \/ ~Sweeps(id)}
        BY <2>3, <1>1 DEF NoteSeen
      <3>2. \A x \in seen : x \in Frames /\ x > Swept(id)
        BY DEF TypeOK, Swept, SweepIsBehind
      <3>3. CASE Sweeps(id)
        BY <3>1, <3>2, <3>3, <2>3, <1>3 DEF NoteSeen
      <3>4. CASE ~Sweeps(id)
        BY <3>1, <3>2, <3>4, <2>3 DEF NoteSeen
      <3> QED BY <3>3, <3>4
    <2> QED BY <2>1, <2>2, <2>3, <1>1
  <1> QED BY <1>6, <1>7, <1>8, <1>9, <1>10, <1>11

\* A frame counted as missing is a reorder depth behind the newest one seen.
LEMMA MissingIsOld ==
    ASSUME TypeOK, SweepIsBehind, NEW id \in Frames, NoteSeen(id), NEW x \in Missing(id)
    PROVE  highestSeen' - x >= ReorderDepth
  <1> USE Numbers
  <1>1. Sweeps(id) /\ x \in (Swept(id) + 1)..Limit(id)
    BY DEF Missing
  <1>2. highestSeen' = Newest(id) /\ Newest(id) \in Int
    BY <1>1 DEF NoteSeen, Sweeps, Newest
  <1> QED BY <1>1, <1>2 DEF Limit, Swept

\* A frame given up by age is a reorder depth behind the newest one seen.
LEMMA ExpiredIsOld ==
    ASSUME TypeOK, SweepIsBehind, NEW id \in Frames, NoteSeen(id),
           NEW P, NEW x \in Expired(P, id)
    PROVE  highestSeen' - x >= ReorderDepth
  <1>1. highestSeen' \in Int /\ highestSeen' >= id
    BY NoteSeenMoves, Numbers
  <1> QED BY <1>1, Numbers DEF Expired

-----------------------------------------------------------------------------
(* The three things push() may do with the chunk keep the invariant. *)

\* What the rest of a step has to establish once the sweep is done.
Stored == /\ pending' \in [Frames -> SUBSET (0..(MaxChunks - 1))]
          /\ highestCompleted' \in Frames \cup {-1}
          /\ lost' \in [Frames -> Nat] /\ dropped' \in BOOLEAN
          /\ emitted' \in Seq(Frames)
          /\ overtaken' \in SUBSET Frames
          /\ EmittedIsBehind' /\ EmitsForward'
          /\ PartialFramesAreRecent'
          /\ NoFalseAlarm'

\* What Settle does to the partial frames and to the counts.
LEMMA SettleKeepsCounts ==
    ASSUME IInv, NEW id \in Frames, NoteSeen(id),
           NEW P \in [Frames -> SUBSET (0..(MaxChunks - 1))], Settle(P, id)
    PROVE  /\ pending' \in [Frames -> SUBSET (0..(MaxChunks - 1))]
           /\ \A x \in Frames : pending'[x] # {} => P[x] # {} /\ id - x <= ReorderDepth
           /\ lost' \in [Frames -> Nat] /\ dropped' \in BOOLEAN
           /\ NoFalseAlarm'
  <1>1. TypeOK /\ SweepIsBehind /\ NoFalseAlarm
    BY DEF IInv
  <1> USE Numbers
  <1>2. /\ pending' = [x \in Frames |-> IF x \in Expired(P, id) THEN {} ELSE P[x]]
        /\ lost' = [x \in Frames |-> lost[x] + (IF x \in Missing(id) THEN 1 ELSE 0)
                                             + (IF x \in Expired(P, id) THEN 1 ELSE 0)]
        /\ dropped' = (dropped \/ Missing(id) # {} \/ Expired(P, id) # {})
    BY DEF Settle
  <1>3. pending' \in [Frames -> SUBSET (0..(MaxChunks - 1))]
    BY <1>2
  <1>4. \A x \in Frames : pending'[x] # {} => P[x] # {} /\ id - x <= ReorderDepth
    BY <1>1, <1>2 DEF Expired
  <1>5. dropped' \in BOOLEAN
    BY <1>1, <1>2 DEF TypeOK
  <1>6. \A x \in Frames : lost[x] \in Nat
    BY <1>1 DEF TypeOK
  <1>7. lost' \in [Frames -> Nat]
    BY <1>2, <1>6
  <1>8. ASSUME NEW x \in Frames, lost'[x] > 0
        PROVE  highestSeen' - x >= ReorderDepth
    <2>1. CASE lost[x] > 0
      <3>1. highestSeen - x >= ReorderDepth
        BY <1>1, <2>1 DEF NoFalseAlarm
      <3>2. highestSeen' \in Int /\ highestSeen' >= highestSeen
        BY <1>1, NoteSeenMoves
      <3> QED BY <3>1, <3>2, <1>1
    <2>2. CASE x \in Missing(id)
      BY <1>1, <2>2, MissingIsOld
    <2>3. CASE x \in Expired(P, id)
      BY <1>1, <2>3, ExpiredIsOld
    <2>4. lost[x] > 0 \/ x \in Missing(id) \/ x \in Expired(P, id)
      BY <1>2, <1>6, <1>8
    <2> QED BY <2>1, <2>2, <2>3, <2>4
  <1> QED BY <1>3, <1>4, <1>5, <1>7, <1>8 DEF NoFalseAlarm

\* A refused chunk changes only the counts of frames that never came.
LEMMA RefusingIsGood ==
    ASSUME IInv, NEW id \in Frames, NoteSeen(id), RefuseChunk(id)
    PROVE  Stored
  <1>1. TypeOK /\ SweepIsBehind /\ NoFalseAlarm
    BY DEF IInv
  <1> USE Numbers
  <1>2. /\ lost' = [x \in Frames |-> IF x \in Missing(id) THEN lost[x] + 1 ELSE lost[x]]
        /\ dropped' = (dropped \/ Missing(id) # {})
        /\ overtaken' = overtaken \cup {id}
        /\ UNCHANGED <<pending, highestCompleted, emitted>>
    BY DEF RefuseChunk, CountLost
  <1>3. lost' \in [Frames -> Nat] /\ dropped' \in BOOLEAN /\ overtaken' \in SUBSET Frames
    <2>1. \A x \in Frames : lost[x] \in Nat
      BY <1>1 DEF TypeOK
    <2>2. lost' \in [Frames -> Nat]
      BY <1>2, <2>1
    <2>3. dropped' \in BOOLEAN
      BY <1>1, <1>2 DEF TypeOK
    <2>4. overtaken' \in SUBSET Frames
      BY <1>1, <1>2 DEF TypeOK
    <2> QED BY <2>2, <2>3, <2>4
  <1>4. ASSUME NEW x \in Frames, lost'[x] > 0
        PROVE  highestSeen' - x >= ReorderDepth
    <2>1. CASE x \in Missing(id)
      BY <1>1, <2>1, MissingIsOld
    <2>2. CASE x \notin Missing(id)
      <3>1. lost[x] > 0
        BY <1>2, <1>4, <2>2
      <3>2. highestSeen - x >= ReorderDepth
        BY <1>1, <3>1 DEF NoFalseAlarm
      <3>3. highestSeen' \in Int /\ highestSeen' >= highestSeen
        BY <1>1, NoteSeenMoves
      <3> QED BY <3>2, <3>3, <1>1
    <2> QED BY <2>1, <2>2
  <1> QED BY <1>2, <1>3, <1>4 DEF Stored, IInv, TypeOK, EmittedIsBehind, EmitsForward,
       PartialFramesAreRecent, NoFalseAlarm

\* A stored chunk: its frame is newer than the newest complete one.
LEMMA StoringIsGood ==
    ASSUME IInv, NEW id \in Frames, NEW i \in 0..(MaxChunks - 1), NoteSeen(id), StoreChunk(id, i)
    PROVE  Stored
  <1> DEFINE P == [pending EXCEPT ![id] = @ \cup {i}]
  <1>1. TypeOK /\ PartialFramesAreRecent
    BY DEF IInv
  <1>2. P \in [Frames -> SUBSET (0..(MaxChunks - 1))]
    BY <1>1 DEF TypeOK
  <1>3. Settle(P, id) /\ ~Outdated(id) /\ UNCHANGED <<highestCompleted, emitted, overtaken>>
    BY DEF StoreChunk
  <1>4. \A x \in Frames : P[x] # {} => x = id \/ pending[x] # {}
    <2>1. \A x \in Frames : x # id => P[x] = pending[x]
      BY <1>1 DEF TypeOK
    <2> QED BY <2>1, Zenon
  <1> HIDE DEF P
  <1>5. /\ pending' \in [Frames -> SUBSET (0..(MaxChunks - 1))]
        /\ \A x \in Frames : pending'[x] # {} => P[x] # {}
        /\ lost' \in [Frames -> Nat] /\ dropped' \in BOOLEAN
        /\ NoFalseAlarm'
    BY <1>2, <1>3, SettleKeepsCounts
  <1>6. PartialFramesAreRecent'
    <2> SUFFICES ASSUME NEW x \in Frames, pending'[x] # {}
                 PROVE  highestCompleted - x <= ReorderDepth
      BY <1>3 DEF PartialFramesAreRecent
    <2>1. CASE x = id
      BY <2>1, <1>1, <1>3, Numbers DEF Outdated
    <2>2. CASE pending[x] # {}
      BY <2>2, <1>1 DEF PartialFramesAreRecent
    <2> QED BY <2>1, <2>2, <1>4, <1>5
  <1> QED BY <1>1, <1>3, <1>5, <1>6 DEF Stored, IInv, TypeOK, EmittedIsBehind, EmitsForward

\* A completed frame is newer than everything emitted before.
LEMMA CompletingIsGood ==
    ASSUME IInv, NEW id \in Frames, NEW i \in 0..(MaxChunks - 1), NoteSeen(id), CompleteFrame(id, i)
    PROVE  Stored
  <1> DEFINE P == [pending EXCEPT ![id] = {}]
  <1>1. TypeOK /\ EmittedIsBehind /\ EmitsForward
    BY DEF IInv
  <1>2. P \in [Frames -> SUBSET (0..(MaxChunks - 1))]
    BY <1>1 DEF TypeOK
  <1>3. /\ Settle(P, id) /\ ~Outdated(id) /\ UNCHANGED overtaken
        /\ highestCompleted' = id /\ emitted' = Append(emitted, id)
    BY DEF CompleteFrame
  <1> HIDE DEF P
  <1>4. /\ pending' \in [Frames -> SUBSET (0..(MaxChunks - 1))]
        /\ \A x \in Frames : pending'[x] # {} => id - x <= ReorderDepth
        /\ lost' \in [Frames -> Nat] /\ dropped' \in BOOLEAN
        /\ NoFalseAlarm'
    BY <1>2, <1>3, SettleKeepsCounts
  <1>5. PartialFramesAreRecent'
    BY <1>3, <1>4 DEF PartialFramesAreRecent
  <1>6. id > highestCompleted
    BY <1>1, <1>3, Numbers DEF Outdated
  <1>7. /\ emitted' \in Seq(Frames) /\ Len(emitted') = Len(emitted) + 1 /\ Len(emitted) \in Nat
        /\ emitted'[Len(emitted) + 1] = id
        /\ \A k \in 1..Len(emitted) : emitted'[k] = emitted[k] /\ emitted[k] \in Frames
    BY <1>1, <1>3 DEF TypeOK
  <1>8. \A k \in 1..Len(emitted) : emitted'[k] < id
    <2> SUFFICES ASSUME NEW k \in 1..Len(emitted) PROVE emitted'[k] < id
      OBVIOUS
    <2>1. emitted'[k] = emitted[k] /\ emitted[k] \in Frames /\ emitted[k] <= highestCompleted
      BY <1>1, <1>7 DEF EmittedIsBehind
    <2> QED BY <2>1, <1>1, <1>6, Numbers
  <1>9. EmittedIsBehind'
    <2> SUFFICES ASSUME NEW k \in 1..Len(emitted') PROVE emitted'[k] <= id
      BY <1>3 DEF EmittedIsBehind
    <2>1. CASE k = Len(emitted) + 1
      BY <2>1, <1>1, <1>7, Numbers
    <2>2. CASE k \in 1..Len(emitted)
      <3>1. emitted'[k] < id
        BY <2>2, <1>8
      <3>2. emitted'[k] \in Frames
        BY <2>2, <1>7
      <3>3. emitted'[k] \in Int /\ id \in Int
        BY <1>1, <3>2, Numbers
      <3> QED BY <3>1, <3>3
    <2> QED BY <2>1, <2>2, <1>7
  <1>10. EmitsForward'
    <2> SUFFICES ASSUME NEW k \in 1..Len(emitted'), NEW m \in 1..Len(emitted'), k < m
                 PROVE  emitted'[k] < emitted'[m]
      BY DEF EmitsForward
    <2>1. k \in 1..Len(emitted)
      BY <1>7
    <2>2. CASE m = Len(emitted) + 1
      BY <2>1, <2>2, <1>7, <1>8
    <2>3. CASE m \in 1..Len(emitted)
      BY <2>1, <2>3, <1>1, <1>7 DEF EmitsForward
    <2> QED BY <2>2, <2>3, <1>7
  <1> QED BY <1>1, <1>3, <1>4, <1>5, <1>7, <1>9, <1>10 DEF Stored, TypeOK

-----------------------------------------------------------------------------
(* The invariant is inductive. *)

LEMMA InitIsGood == Init => IInv
  <1> SUFFICES ASSUME Init PROVE IInv
    OBVIOUS
  <1>1. 1..Len(emitted) = {} /\ 0 \in 0..MaxFrames /\ 0 \in 0..MaxChunks
    BY ReassemblerAssumption DEF Init
  <1>2. TypeOK
    <2>1. frameId \in 0..MaxFrames /\ count \in [Frames -> 0..MaxChunks]
      BY <1>1 DEF Init
    <2>2. /\ pending \in [Frames -> SUBSET (0..(MaxChunks - 1))]
          /\ lost \in [Frames -> Nat] /\ emitted \in Seq(Frames)
      BY DEF Init
    <2>3. /\ net \in SUBSET Chunks /\ arrived \in SUBSET Chunks
          /\ highestCompleted \in Frames \cup {-1} /\ highestSeen \in Frames \cup {-1}
          /\ seen \in SUBSET {x \in Frames : x > swept} /\ swept \in Frames \cup {-1, Unswept}
          /\ dropped \in BOOLEAN
          /\ overtaken \in SUBSET Frames /\ skipped \in SUBSET Frames
          /\ start \in Frames \cup {Unswept}
      BY DEF Init
    <2> QED BY <2>1, <2>2, <2>3 DEF TypeOK
  <1>3. EmittedIsBehind /\ EmitsForward /\ SweepIsBehind
    BY <1>1 DEF Init, EmittedIsBehind, EmitsForward, SweepIsBehind
  <1>4. PartialFramesAreRecent /\ NoFalseAlarm
    BY DEF Init, PartialFramesAreRecent, NoFalseAlarm
  <1> QED BY <1>2, <1>3, <1>4 DEF IInv

LEMMA SendingIsGood == ASSUME IInv, NEW n \in 1..MaxChunks, Send(n) PROVE IInv'
  <1>1. /\ frameId' = frameId + 1 /\ count' = [count EXCEPT ![frameId] = n]
        /\ net' = net \cup {<<frameId, j>> : j \in 0..(n - 1)}
        /\ UNCHANGED <<pending, highestCompleted, seen, swept, highestSeen, lost, dropped,
                       emitted, arrived, overtaken, skipped, start>>
    BY DEF Send
  <1>2. frameId' \in 0..MaxFrames /\ frameId \in Frames
    BY ReassemblerAssumption DEF Send, IInv, TypeOK, Frames
  <1>3. count' \in [Frames -> 0..MaxChunks]
    BY <1>1, <1>2, ReassemblerAssumption DEF IInv, TypeOK
  <1>4. \A j \in 0..(n - 1) : <<frameId, j>> \in Chunks
    BY <1>2, ReassemblerAssumption DEF Chunks
  <1>5. net' \in SUBSET Chunks
    BY <1>1, <1>4 DEF IInv, TypeOK
  <1> QED BY <1>1, <1>2, <1>3, <1>5 DEF IInv, TypeOK, EmittedIsBehind, EmitsForward,
       SweepIsBehind, PartialFramesAreRecent, NoFalseAlarm

LEMMA PushingIsGood == ASSUME IInv, NEW c \in net, Push(c) PROVE IInv'
  <1>1. TypeOK /\ SweepIsBehind
    BY DEF IInv
  <1>2. c[1] \in Frames /\ c[2] \in 0..(MaxChunks - 1)
    BY <1>1, ChunksAreOfFrames
  <1>3. NoteSeen(c[1])
    BY DEF Push
  <1>4. Stored
    BY <1>2, <1>3, RefusingIsGood, StoringIsGood, CompletingIsGood DEF Push
  <1>5. /\ swept' \in Frames \cup {-1} /\ swept' < highestSeen'
        /\ highestSeen' \in Frames
        /\ start' \in Frames \cup {Unswept}
        /\ seen' \in SUBSET {x \in Frames : x > swept'}
        /\ skipped' \in SUBSET Frames
    BY <1>1, <1>2, <1>3, NoteSeenMoves
  <1>6. /\ net' \in SUBSET Chunks /\ arrived' \in SUBSET Chunks
        /\ frameId' \in 0..MaxFrames /\ count' \in [Frames -> 0..MaxChunks]
    BY <1>1 DEF Push, TypeOK
  <1>7. swept' # Unswept
    BY <1>5, <1>1, Numbers DEF Unswept
  <1>8. TypeOK'
    BY <1>4, <1>5, <1>6 DEF TypeOK, Stored
  <1> QED BY <1>4, <1>5, <1>7, <1>8 DEF IInv, SweepIsBehind, Stored

LEMMA NextIsGood == IInv /\ [Next]_vars => IInv'
  <1>1. ASSUME IInv, AcknowledgeKeyframe PROVE IInv'
    BY <1>1 DEF AcknowledgeKeyframe, IInv, TypeOK, EmittedIsBehind, EmitsForward,
       SweepIsBehind, PartialFramesAreRecent, NoFalseAlarm
  <1>2. ASSUME IInv, UNCHANGED vars PROVE IInv'
    BY <1>2 DEF vars, IInv, TypeOK, EmittedIsBehind, EmitsForward,
       SweepIsBehind, PartialFramesAreRecent, NoFalseAlarm
  <1> QED BY <1>1, <1>2, SendingIsGood, PushingIsGood DEF Next

\* The invariant holds in every reachable state, whatever the bounds.
THEOREM AlwaysGood == Spec => []IInv
  BY InitIsGood, NextIsGood, PTL DEF Spec

-----------------------------------------------------------------------------
(* What follows. *)

\* Frames are emitted in the order of their numbers, each at most once, whatever
\* the channel loses or reorders (Reassembler.push).
THEOREM NeverBackwards == Spec => []EmitsForward
  BY AlwaysGood, PTL DEF IInv

\* Partial frames older than the reorder depth are gone as soon as a newer frame
\* completes (Reassembler.#expireOlderThan).
THEOREM PartialFramesGoAway == Spec => []PartialFramesAreRecent
  BY AlwaysGood, PTL DEF IInv

\* A frame is only counted lost once a frame the reorder depth newer was seen:
\* milder reordering never asks for a keyframe (Reassembler.#noteSeen).
THEOREM MildReorderingIsNoLoss == Spec => []NoFalseAlarm
  BY AlwaysGood, PTL DEF IInv

-----------------------------------------------------------------------------
(* Nothing gets lost without a trace. *)

\* What became of frame x is known.
Traced(x) ==
    x \in Emitted \/ lost[x] > 0 \/ pending[x] # {} \/ x \in overtaken \cup skipped

\* The sweep starts just before the first frame that came; what was seen has a
\* trace, and so has everything the sweep has passed.
Trail == /\ start = Unswept <=> swept = Unswept
         /\ start # Unswept => start <= swept + 1
         /\ \A x \in seen : Traced(x)
         /\ Accounted

\* Frames once emitted stay emitted.
LEMMA EmittedGrows ==
    ASSUME emitted \in Seq(Frames), NEW id \in Frames, emitted' = Append(emitted, id)
    PROVE  Emitted' = Emitted \cup {id}
  <1>1. /\ Len(emitted) \in Nat /\ Len(emitted') = Len(emitted) + 1
        /\ emitted'[Len(emitted) + 1] = id
        /\ \A k \in 1..Len(emitted) : emitted'[k] = emitted[k]
    OBVIOUS
  <1>2. 1..Len(emitted') = 1..Len(emitted) \cup {Len(emitted) + 1}
    BY <1>1
  <1>3. Emitted \cup {id} \subseteq Emitted'
    BY <1>1, <1>2 DEF Emitted
  <1>4. Emitted' \subseteq Emitted \cup {id}
    <2> SUFFICES ASSUME NEW k \in 1..Len(emitted') PROVE emitted'[k] \in Emitted \cup {id}
      BY DEF Emitted
    <2> QED BY <1>1, <1>2 DEF Emitted
  <1> QED BY <1>3, <1>4

\* A partial frame that Settle drops is counted, and so is a missing one.
LEMMA SettleLeavesATrace ==
    ASSUME TypeOK, NEW id \in Frames, NEW P \in [Frames -> SUBSET (0..(MaxChunks - 1))],
           Settle(P, id), NEW x \in Frames
    PROVE  /\ lost[x] > 0 \/ x \in Missing(id) => lost'[x] > 0
           /\ P[x] # {} => pending'[x] # {} \/ lost'[x] > 0
  <1>1. lost[x] \in Nat
    BY DEF TypeOK
  <1>2. /\ pending'[x] = IF x \in Expired(P, id) THEN {} ELSE P[x]
        /\ lost'[x] = lost[x] + (IF x \in Missing(id) THEN 1 ELSE 0)
                              + (IF x \in Expired(P, id) THEN 1 ELSE 0)
    BY DEF Settle
  <1> QED BY <1>1, <1>2

\* What has a trace keeps one, a missing frame and the frame that came get one.
LEMMA PushLeavesATrace ==
    ASSUME IInv, NEW id \in Frames, NEW i \in 0..(MaxChunks - 1), NoteSeen(id),
           RefuseChunk(id) \/ StoreChunk(id, i) \/ CompleteFrame(id, i),
           NEW x \in Frames, Traced(x) \/ x \in Missing(id) \/ x = id
    PROVE  Traced(x)'
  <1>1. TypeOK /\ pending \in [Frames -> SUBSET (0..(MaxChunks - 1))] /\ lost[x] \in Nat
    BY DEF IInv, TypeOK
  <1>2. skipped \subseteq skipped'
    BY DEF NoteSeen
  <1>3. CASE RefuseChunk(id)
    <2>1. /\ lost'[x] = IF x \in Missing(id) THEN lost[x] + 1 ELSE lost[x]
          /\ overtaken' = overtaken \cup {id} /\ pending' = pending /\ emitted' = emitted
      BY <1>3 DEF RefuseChunk, CountLost
    <2>2. Emitted' = Emitted
      BY <2>1 DEF Emitted
    <2> QED BY <1>1, <1>2, <2>1, <2>2 DEF Traced
  <1>4. CASE StoreChunk(id, i)
    <2> DEFINE P == [pending EXCEPT ![id] = @ \cup {i}]
    <2>1. /\ P \in [Frames -> SUBSET (0..(MaxChunks - 1))] /\ i \in P[id]
          /\ pending[x] # {} => P[x] # {}
      BY <1>1
    <2>2. Settle(P, id) /\ overtaken' = overtaken /\ emitted' = emitted
      BY <1>4 DEF StoreChunk
    <2> HIDE DEF P
    <2>3. /\ lost[x] > 0 \/ x \in Missing(id) => lost'[x] > 0
          /\ P[x] # {} => pending'[x] # {} \/ lost'[x] > 0
      BY <1>1, <2>1, <2>2, SettleLeavesATrace
    <2>4. Emitted' = Emitted
      BY <2>2 DEF Emitted
    <2>5. x = id => P[x] # {}
      BY <2>1
    <2> QED BY <1>2, <2>1, <2>2, <2>3, <2>4, <2>5 DEF Traced
  <1>5. CASE CompleteFrame(id, i)
    <2> DEFINE P == [pending EXCEPT ![id] = {}]
    <2>1. /\ P \in [Frames -> SUBSET (0..(MaxChunks - 1))]
          /\ x # id => P[x] = pending[x]
      BY <1>1
    <2>2. Settle(P, id) /\ overtaken' = overtaken /\ emitted' = Append(emitted, id)
      BY <1>5 DEF CompleteFrame
    <2> HIDE DEF P
    <2>3. /\ lost[x] > 0 \/ x \in Missing(id) => lost'[x] > 0
          /\ P[x] # {} => pending'[x] # {} \/ lost'[x] > 0
      BY <1>1, <2>1, <2>2, SettleLeavesATrace
    <2>4. Emitted' = Emitted \cup {id}
      BY <1>1, <2>2, EmittedGrows DEF TypeOK
    <2> QED BY <1>2, <2>1, <2>2, <2>3, <2>4 DEF Traced
  <1> QED BY <1>3, <1>4, <1>5

\* The same numbers for one frame.
LEMMA FrameNumbers ==
    ASSUME TypeOK, NEW id \in Frames
    PROVE  /\ id \in Int /\ id >= 0 /\ start \in Int /\ highestSeen \in Int /\ swept \in Int
           /\ ReorderDepth \in Int /\ ReorderDepth >= 1
           /\ Newest(id) \in Int /\ Limit(id) \in Int
           /\ Limit(id) = Newest(id) - ReorderDepth
  <1>1. /\ id \in Int /\ id >= 0 /\ highestSeen \in Int /\ swept \in Int
        /\ ReorderDepth \in Int /\ ReorderDepth >= 1
    BY Numbers
  <1>2. start \in Int
    BY DEF TypeOK, Frames, Unswept
  <1> QED BY <1>1, <1>2 DEF Newest, Limit

\* What the sweep newly passes is missing, seen, or skipped by a resync.
LEMMA SweepPassesOnlyTheTraced ==
    ASSUME TypeOK, SweepIsBehind, Trail, NEW id \in Frames, NoteSeen(id),
           NEW x \in Frames, start' <= x, x <= swept'
    PROVE  \/ start <= x /\ x <= swept
           \/ x \in Missing(id) \/ x \in seen \cup {id} \/ x \in skipped'
  <1> USE FrameNumbers
  <1>1. CASE start = Unswept
    <2>1. swept = Unswept /\ highestSeen = -1
      BY <1>1 DEF Trail, SweepIsBehind
    <2>2. Swept(id) = id - 1 /\ Newest(id) = id /\ start' = id
      BY <1>1, <2>1 DEF Swept, Newest, NoteSeen
    <2>3. swept' = id - 1
      BY <2>2 DEF NoteSeen, Sweeps, Limit
    <2> QED BY <2>2, <2>3
  <1>2. CASE start # Unswept
    <2>1. swept # Unswept /\ Swept(id) = swept /\ start' = start
      BY <1>2 DEF Trail, Swept, NoteSeen
    <2>2. start \in Int /\ Newest(id) \in Int /\ Limit(id) \in Int
      OBVIOUS
    <2>3. CASE Sweeps(id)
      <3>1. swept' = Limit(id)
        BY <2>3 DEF NoteSeen
      <3>2. CASE x > swept
        <4>1. x \in (Swept(id) + 1)..Limit(id)
          BY <2>1, <2>2, <3>1, <3>2
        <4>2. Resyncs(id) => x \in skipped'
          BY <4>1 DEF NoteSeen
        <4>3. ~Resyncs(id) => x \in Missing(id) \/ x \in seen \cup {id}
          BY <2>3, <4>1 DEF Missing
        <4> QED BY <4>2, <4>3
      <3>3. CASE x <= swept
        BY <2>1, <3>3
      <3> QED BY <3>2, <3>3
    <2>4. CASE ~Sweeps(id)
      BY <2>1, <2>4 DEF NoteSeen
    <2> QED BY <2>3, <2>4
  <1> QED BY <1>1, <1>2

LEMMA PushKeepsTrail == ASSUME IInv, Trail, NEW c \in net, Push(c) PROVE Trail'
  <1> DEFINE id == c[1]
  <1>1. /\ TypeOK /\ SweepIsBehind /\ id \in Frames /\ c[2] \in 0..(MaxChunks - 1)
        /\ NoteSeen(id)
        /\ RefuseChunk(id) \/ StoreChunk(id, c[2]) \/ CompleteFrame(id, c[2])
    BY ChunksAreOfFrames DEF IInv, Push
  <1> HIDE DEF id
  <1> USE Numbers
  <1>2. \A x \in Frames : Traced(x) \/ x \in Missing(id) \/ x = id => Traced(x)'
    BY <1>1, PushLeavesATrace
  <1>3. swept' \in Frames \cup {-1} /\ start' \in Frames \cup {Unswept}
    BY <1>1, NoteSeenMoves
  <1>4. start' # Unswept /\ swept' # Unswept
    BY <1>1, <1>3 DEF NoteSeen, Unswept, Frames
  <1>5. start' <= swept' + 1
    <2>1. CASE start = Unswept
      <3>1. swept = Unswept /\ start' = id /\ Swept(id) = id - 1
        BY <1>1, <2>1 DEF Trail, NoteSeen, Swept
      <3>2. swept' = IF Sweeps(id) THEN Limit(id) ELSE Swept(id)
        BY <1>1 DEF NoteSeen
      <3> QED BY <1>1, <3>1, <3>2, FrameNumbers DEF Sweeps
    <2>2. CASE start # Unswept
      <3>1. Swept(id) = swept /\ start' = start /\ start <= swept + 1
        BY <1>1, <2>2 DEF Trail, NoteSeen, Swept
      <3>2. swept' = IF Sweeps(id) THEN Limit(id) ELSE Swept(id)
        BY <1>1 DEF NoteSeen
      <3> QED BY <1>1, <3>1, <3>2, FrameNumbers DEF Sweeps
    <2> QED BY <2>1, <2>2
  <1>6. ASSUME NEW x \in seen' PROVE Traced(x)'
    <2>1. x \in seen \cup {id} /\ x \in Frames
      BY <1>1, <1>6 DEF NoteSeen, TypeOK
    <2>2. x \in seen => Traced(x)
      BY DEF Trail
    <2> QED BY <1>2, <2>1, <2>2
  <1>7. ASSUME NEW x \in Frames, start' <= x, x <= swept' PROVE Traced(x)'
    <2>1. start <= x /\ x <= swept => Traced(x)
      BY DEF Trail, Accounted, Traced
    <2>2. x \in seen => Traced(x)
      BY DEF Trail
    <2>3. x \in skipped' => Traced(x)'
      BY DEF Traced
    <2>4. \/ start <= x /\ x <= swept
          \/ x \in Missing(id) \/ x \in seen \cup {id} \/ x \in skipped'
      BY <1>1, <1>7, SweepPassesOnlyTheTraced
    <2> QED BY <1>2, <2>1, <2>2, <2>3, <2>4
  <1>8. Accounted'
    BY <1>7 DEF Accounted, Traced
  <1> QED BY <1>4, <1>5, <1>6, <1>8 DEF Trail

LEMMA NextKeepsTrail == IInv /\ Trail /\ [Next]_vars => Trail'
  <1>1. ASSUME Trail, UNCHANGED <<start, swept, seen, emitted, lost, pending, overtaken, skipped>>
        PROVE  Trail'
    BY <1>1 DEF Trail, Accounted, Traced, Emitted
  <1>2. ASSUME Trail, AcknowledgeKeyframe PROVE Trail'
    BY <1>1, <1>2 DEF AcknowledgeKeyframe
  <1>3. ASSUME Trail, NEW n \in 1..MaxChunks, Send(n) PROVE Trail'
    BY <1>1, <1>3 DEF Send
  <1>4. ASSUME Trail, UNCHANGED vars PROVE Trail'
    BY <1>1, <1>4 DEF vars
  <1> QED BY <1>2, <1>3, <1>4, PushKeepsTrail DEF Next

\* Every frame the viewer waited for is shown, counted as lost, still partial,
\* overtaken by a newer one or skipped by a resync: none disappears between the
\* sweep of the frames that never came and the expiry of the partial ones
\* (Reassembler.#noteSeen, #expireOlderThan, push).
THEOREM NoFrameVanishes == Spec => []Accounted
  <1>1. Init => Trail
    BY DEF Init, Trail, Accounted, Frames, Unswept
  <1>2. Spec => []Trail
    BY <1>1, NextKeepsTrail, AlwaysGood, PTL DEF Spec
  <1>3. Trail => Accounted
    BY DEF Trail
  <1> QED BY <1>2, <1>3, PTL
=============================================================================
