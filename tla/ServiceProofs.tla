---------------------------- MODULE ServiceProofs ----------------------------
(* What runs around a connection: an installation has one identity, a Nostr   *)
(* channel forgets no relay, the bitrate stays within its limits, and of a    *)
(* session, every end is begun, every key is let go and the viewer is told.   *)
EXTENDS Storage, NostrChannel, AdaptiveBitrate, MediaSession, SequenceTheorems, TLAPS

-----------------------------------------------------------------------------
(* The identity of an installation. *)

\* The file is never anything but absent, begun or written; only a process
\* that created it writes it, and it is alone with that: whoever goes by an
\* identity goes by the one in the file.
StInv ==
    /\ identity \in {Nothing, "empty"} \cup Processes
    /\ pc \in [Processes -> {"off", "creating", "writing", "up", "saving"}]
    /\ known \in [Processes -> Processes \cup {Nothing}]
    /\ \A p \in Processes : pc[p] = "writing" => identity = "empty"
    /\ \A p, q \in Processes : pc[p] = "writing" /\ pc[q] = "writing" => p = q
    /\ \A p \in Processes : known[p] # Nothing => known[p] = identity

LEMMA StartsWithoutOne == StorageInit => StInv
  BY StorageAssumption DEF StorageInit, StInv

LEMMA LoadingKeepsTo ==
    ASSUME StInv, NEW p \in Processes, Loaded(p, identity'), identity' \in Processes,
           identity' = identity \/ (identity = "empty" /\ pc[p] = "writing" /\ identity' = p)
    PROVE  StInv'
  <1> USE StorageAssumption
  <1>1. /\ pc' = [pc EXCEPT ![p] = "up"]
        /\ known' = [known EXCEPT ![p] = identity']
    BY DEF Loaded, Goes
  <1>2. /\ pc' \in [Processes -> {"off", "creating", "writing", "up", "saving"}]
        /\ known' \in [Processes -> Processes \cup {Nothing}]
    BY <1>1 DEF StInv
  <1>3. \A q \in Processes : pc'[q] = "writing" => q # p /\ pc[q] = "writing"
    BY <1>1 DEF StInv
  <1>4. \A q \in Processes : known'[q] # Nothing => known'[q] = identity'
    BY <1>1 DEF StInv
  <1> QED BY <1>2, <1>3, <1>4 DEF StInv

LEMMA BeginKeeps ==
    ASSUME StInv, NEW p \in Processes, Begin(p)
    PROVE  StInv'
  <1> USE StorageAssumption
  <1>1. CASE identity = Nothing
    BY <1>1 DEF StInv, Begin, Goes
  <1>2. CASE identity # Nothing
    BY <1>2, LoadingKeepsTo DEF StInv, Begin
  <1> QED BY <1>1, <1>2

LEMMA CreateKeeps ==
    ASSUME StInv, NEW p \in Processes, Create(p)
    PROVE  StInv'
  <1> USE StorageAssumption
  <1>1. CASE identity = Nothing
    <2>1. /\ identity' = "empty" /\ known' = known
          /\ pc' = [pc EXCEPT ![p] = "writing"]
      BY <1>1 DEF Create, Goes
    <2>2. \A q \in Processes : pc[q] # "writing"
      BY <1>1 DEF StInv
    <2>3. \A q \in Processes : known[q] = Nothing
      BY <1>1 DEF StInv
    <2> QED BY <2>1, <2>2, <2>3 DEF StInv
  <1>2. CASE identity # Nothing
    BY <1>2 DEF StInv, Create, Goes
  <1> QED BY <1>1, <1>2

LEMMA WriteKeeps ==
    ASSUME StInv, NEW p \in Processes, WriteIdentity(p)
    PROVE  StInv'
  BY LoadingKeepsTo DEF StInv, WriteIdentity

\* Pairings and ends leave the identity alone, and only make processes forget.
LEMMA RestKeeps ==
    ASSUME StInv, UNCHANGED identity, NEW p \in Processes,
           NEW where \in {"off", "up", "saving"},
           pc' = pc \/ pc' = [pc EXCEPT ![p] = where],
           known' = known \/ known' = [known EXCEPT ![p] = Nothing]
    PROVE  StInv'
  <1>1. /\ pc' \in [Processes -> {"off", "creating", "writing", "up", "saving"}]
        /\ \A q \in Processes : pc'[q] = "writing" => pc[q] = "writing"
    BY DEF StInv
  <1>2. /\ known' \in [Processes -> Processes \cup {Nothing}]
        /\ \A q \in Processes : known'[q] # Nothing => known'[q] = known[q]
    BY DEF StInv
  <1> QED BY <1>1, <1>2 DEF StInv

LEMMA StorageKeeps == StInv /\ [StorageNext]_storageVars => StInv'
  <1> SUFFICES ASSUME StInv, [StorageNext]_storageVars
               PROVE  StInv'
    OBVIOUS
  <1>1. CASE UNCHANGED storageVars
    BY <1>1 DEF StInv, storageVars, files, memory
  <1>2. ASSUME NEW p \in Processes, Begin(p) PROVE StInv'
    BY <1>2, BeginKeeps
  <1>3. ASSUME NEW p \in Processes, Create(p) PROVE StInv'
    BY <1>3, CreateKeeps
  <1>4. ASSUME NEW p \in Processes, WriteIdentity(p) PROVE StInv'
    BY <1>4, WriteKeeps
  <1>5. ASSUME NEW p \in Processes, Dies(p) PROVE StInv'
    BY <1>5, RestKeeps DEF Dies, Goes, files
  <1>6. ASSUME NEW p \in Processes, Share(p) \/ StopShare(p) PROVE StInv'
    BY <1>6, RestKeeps DEF Share, StopShare, files
  <1>7. ASSUME NEW p \in Processes, Rename(p) PROVE StInv'
    BY <1>7, RestKeeps DEF Rename, Goes
  <1>8. ASSUME NEW p \in Processes, NEW d \in Owners, Pair(p, d) \/ Unpair(p, d) PROVE StInv'
    BY <1>8, RestKeeps DEF Pair, Unpair, Saves, Goes
  <1> QED BY <1>1, <1>2, <1>3, <1>4, <1>5, <1>6, <1>7, <1>8 DEF StorageNext

\* What was written once is never written again.
LEMMA WrittenOnce ==
    StInv /\ [StorageNext]_storageVars
        => [identity # Nothing /\ identity # "empty" => UNCHANGED identity]_storageVars
  <1> SUFFICES ASSUME StInv, StorageNext, identity # Nothing, identity # "empty"
               PROVE  UNCHANGED identity
    OBVIOUS
  <1>1. PICK p \in Processes :
           \/ Begin(p) \/ Create(p) \/ WriteIdentity(p) \/ Dies(p)
           \/ Share(p) \/ StopShare(p) \/ Rename(p)
           \/ \E d \in Owners : Pair(p, d) \/ Unpair(p, d)
    BY DEF StorageNext
  <1>2. ~WriteIdentity(p)
    BY DEF StInv, WriteIdentity
  <1> QED BY <1>1, <1>2 DEF Begin, Create, Dies, Share, StopShare, Rename, Pair, Unpair,
                           Saves, files

\* However many processes run for the first time at once, and whenever one of
\* them dies, all go by the identity in the file, and it never changes
\* (loadOrCreateIdentity).
THEOREM OneForAll == StorageSpec => OneIdentity
  <1>1. StInv => \A p \in Processes : known[p] # Nothing => known[p] = identity
    BY DEF StInv
  <1> QED BY <1>1, StartsWithoutOne, StorageKeeps, WrittenOnce, PTL DEF StorageSpec, OneIdentity

-----------------------------------------------------------------------------
(* The connections of a Nostr channel. *)

\* What a socket can be, and that there is one or a timer.
NcInv ==
    /\ conn \in [Relays -> {"none", "connecting", "open", "dead", "closing"}]
    /\ \A r \in Relays \ Malformed : SocketOrTimer(r)

\* A step changes one relay at most: whatever is told of it alone is enough.
LEMMA OneRelayAtATime ==
    ASSUME NcInv, NEW r \in Relays, UNCHANGED shut,
           NEW to \in {"none", "connecting", "open", "dead", "closing"},
           conn' = [conn EXCEPT ![r] = to],
           \A s \in Relays \ {r} : s \in retry' <=> s \in retry,
           r \in Malformed \/ (IF shut THEN r \notin retry' /\ to \notin {"open", "dead"}
                                       ELSE r \in retry' <=> to = "none")
    PROVE  NcInv'
  <1>1. conn' \in [Relays -> {"none", "connecting", "open", "dead", "closing"}]
    BY DEF NcInv
  <1>2. ASSUME NEW s \in Relays \ Malformed
        PROVE  IF shut THEN s \notin retry' /\ conn'[s] \notin {"open", "dead"}
                       ELSE s \in retry' <=> conn'[s] = "none"
    <2>1. CASE s = r
      BY <2>1 DEF NcInv
    <2>2. CASE s # r
      BY <2>2 DEF NcInv, SocketOrTimer
    <2> QED BY <2>1, <2>2
  <1> QED BY <1>1, <1>2 DEF NcInv, SocketOrTimer

LEMMA NcKeeps == NcInv /\ [NcNext]_ncVars => NcInv'
  <1> SUFFICES ASSUME NcInv, [NcNext]_ncVars
               PROVE  NcInv'
    OBVIOUS
  <1>1. CASE UNCHANGED ncVars
    BY <1>1 DEF NcInv, SocketOrTimer, ncVars
  <1>2. ASSUME NEW r \in Relays, Opens(r) \/ ConnectFails(r) PROVE NcInv'
    BY <1>2, OneRelayAtATime DEF Opens, ConnectFails, NcInv, SocketOrTimer
  <1>3. ASSUME NEW r \in Relays, Ping(r) PROVE NcInv'
    <2>1. CASE alive[r]
      BY <1>3, <2>1 DEF Ping, NcInv, SocketOrTimer
    <2>2. CASE ~alive[r]
      BY <1>3, <2>2, OneRelayAtATime DEF Ping, NcInv, SocketOrTimer
    <2> QED BY <2>1, <2>2
  <1>4. ASSUME NEW r \in Relays, Heard(r) \/ RelayUnsubscribes(r) PROVE NcInv'
    BY <1>4 DEF Heard, RelayUnsubscribes, NcInv, SocketOrTimer
  <1>5. ASSUME NEW r \in Relays, Closed(r) PROVE NcInv'
    BY <1>5, OneRelayAtATime DEF Closed, NcInv, SocketOrTimer
  <1>6. ASSUME NEW r \in Relays, Reconnect(r) PROVE NcInv'
    BY <1>6, OneRelayAtATime DEF Reconnect, NcInv, SocketOrTimer
  <1>7. ASSUME NEW r \in Relays, RelayCloses(r) \/ RelayDies(r) PROVE NcInv'
    BY <1>7, OneRelayAtATime DEF RelayCloses, RelayDies, NcInv, SocketOrTimer
  <1>8. CASE CloseChannel
    BY <1>8 DEF CloseChannel, NcInv, SocketOrTimer
  <1> QED BY <1>1, <1>2, <1>3, <1>4, <1>5, <1>6, <1>7, <1>8 DEF NcNext

\* However timers, close events and close() fall together, no relay is
\* forgotten before the channel is closed, none has a socket and a timer for
\* the next one, and afterwards none is tried again (connect, the close event
\* and its retry timer, close).
THEOREM NoRelayIsForgotten == NcSpec => [](\A r \in Relays \ Malformed : SocketOrTimer(r))
  <1>1. NcInit => NcInv
    BY DEF NcInit, NcInv, SocketOrTimer
  <1>2. NcInv => \A r \in Relays \ Malformed : SocketOrTimer(r)
    BY DEF NcInv
  <1> QED BY <1>1, <1>2, NcKeeps, PTL DEF NcSpec

-----------------------------------------------------------------------------
(* The adaptive bitrate. *)

\* What rates are, and how far the steps of a probe go.
AbrTypes ==
    /\ maxKbps \in Nat /\ minKbps \in Nat /\ current \in Nat /\ capacity \in Nat
    /\ probeStep \in 0 .. 3

AbrInv == AbrTypes /\ WithinLimits

LEMMA PercentIsARate == \A x, p \in Nat : Percent(x, p) \in Nat
  <1>1. \A x, p \in Nat : x * p \in Nat
    OBVIOUS
  <1>2. \A n \in Nat : (n + 50) \div 100 \in Nat
    OBVIOUS
  <1> QED BY <1>1, <1>2 DEF Percent

LEMMA PartsAreRates ==
    ASSUME NEW x \in Nat
    PROVE  Percent(x, 50) \in Nat /\ Percent(x, 60) \in Nat /\ Percent(x, 95) \in Nat
  <1>1. 50 \in Nat /\ 60 \in Nat /\ 95 \in Nat
    OBVIOUS
  <1> QED BY ONLY <1>1, x \in Nat, PercentIsARate, Zenon

\* Rounding takes nothing below what is a part of a rate, nor above a multiple.
LEMMA PartIsLess ==
    ASSUME NEW x \in Nat, NEW p \in {65, 85}
    PROVE  Percent(x, p) <= x
  <1>1. CASE p = 65
    BY <1>1 DEF Percent
  <1>2. CASE p = 85
    BY <1>2 DEF Percent
  <1> QED BY <1>1, <1>2

LEMMA MultipleIsMore ==
    ASSUME NEW x \in Nat, NEW p \in {110, 115, 120, 125, 140, 160}
    PROVE  Percent(x, p) >= x
  <1>1. p = 110 \/ p = 115 => Percent(x, p) >= x
    BY DEF Percent
  <1>2. p = 120 \/ p = 125 => Percent(x, p) >= x
    BY DEF Percent
  <1>3. p = 140 \/ p = 160 => Percent(x, p) >= x
    BY DEF Percent
  <1> QED BY <1>1, <1>2, <1>3

\* #set() makes the step it is asked for, or none.
LEMMA SetKeeps ==
    ASSUME AbrInv, NEW to \in Nat, NEW percent, Set(to, percent), minKbps <= to, to <= maxKbps,
           UNCHANGED <<maxKbps, minKbps>>
    PROVE  current' \in Nat /\ WithinLimits'
  BY DEF AbrInv, AbrTypes, Set, WithinLimits

LEMMA StayKeeps ==
    ASSUME AbrInv, Stay, UNCHANGED <<maxKbps, minKbps>>
    PROVE  current' \in Nat /\ WithinLimits'
  BY DEF AbrInv, AbrTypes, Stay, WithinLimits

\* A congested link lowers the bitrate, to the floor at most.
LEMMA CongestedKeeps ==
    ASSUME AbrInv, NEW severe \in BOOLEAN, NEW rx \in Reports,
           NEW sent \in {current, Percent(current, 60)}, NEW drain \in {60, 85},
           TickCongested(severe, rx, sent, drain), UNCHANGED <<maxKbps, minKbps>>
    PROVE  AbrInv'
  <1> DEFINE base == Lower(current, Higher(sent, Percent(current, 50)))
             plain == Percent(base, IF severe THEN 65 ELSE 85)
             next == IF rx = 0 THEN plain ELSE Lower(plain, Percent(rx, drain))
  <1>1. rx \in Nat /\ sent \in Nat
    <2>1. current \in Nat
      BY DEF AbrInv, AbrTypes
    <2>2. Percent(current, 60) \in Nat
      BY ONLY <2>1, PartsAreRates, Zenon
    <2>3. rx \in Nat
      BY AbrAssumption DEF Reports
    <2> QED BY <2>1, <2>2, <2>3
  <1>2. base \in Nat /\ base <= current
    <2>1. current \in Nat
      BY DEF AbrInv, AbrTypes
    <2>2. Percent(current, 50) \in Nat
      BY ONLY <2>1, PartsAreRates, Zenon
    <2> QED BY <1>1, <2>1, <2>2 DEF Lower, Higher
  <1>3. plain \in Nat /\ plain <= base
    <2> HIDE DEF base
    <2>1. CASE severe
      <3>1. Percent(base, 65) \in Nat /\ Percent(base, 65) <= base
        BY <1>2, PercentIsARate, PartIsLess
      <3> QED BY <2>1, <3>1
    <2>2. CASE ~severe
      <3>1. Percent(base, 85) \in Nat /\ Percent(base, 85) <= base
        BY <1>2, PercentIsARate, PartIsLess
      <3> QED BY <2>2, <3>1
    <2> QED BY <2>1, <2>2
  <1>4. Percent(rx, drain) \in Nat
    <2>1. drain \in Nat
      OBVIOUS
    <2> QED BY <1>1, <2>1, PercentIsARate
  <1>5. next \in Nat /\ next <= current
    <2> HIDE DEF base, plain
    <2> QED BY <1>2, <1>3, <1>4 DEF Lower, AbrInv, AbrTypes
  <1>6. Higher(minKbps, next) \in Nat /\ minKbps <= Higher(minKbps, next) /\ Higher(minKbps, next) <= maxKbps
    <2> HIDE DEF next
    <2> QED BY <1>5 DEF Higher, AbrInv, AbrTypes, WithinLimits
  <1>7. Stay \/ Set(Higher(minKbps, next), 3)
    BY DEF TickCongested
  <1>8. current' \in Nat /\ WithinLimits'
    <2> HIDE DEF next
    <2> QED BY <1>6, <1>7, SetKeeps, StayKeeps
  <1>9. capacity' \in Nat
    <2>1. Percent(sent, 95) \in Nat
      BY ONLY <1>1, PartsAreRates, Zenon
    <2>2. capacity' \in {Higher(minKbps, IF rx = 0 THEN Percent(sent, 95) ELSE rx),
                         Higher(minKbps, Lower(capacity, rx)), capacity}
      BY DEF TickCongested
    <2> QED BY <1>1, <2>1, <2>2 DEF Higher, Lower, AbrInv, AbrTypes
  <1>10. probeStep' = 0
    BY DEF TickCongested
  <1> QED BY <1>8, <1>9, <1>10 DEF AbrInv, AbrTypes

\* A step up is from the bitrate there is, and to the ceiling at most.
LEMMA UpKeeps ==
    ASSUME AbrInv, NEW to \in Nat, to >= current,
           Set(Lower(maxKbps, to), 6) \/ Stay, UNCHANGED <<maxKbps, minKbps>>
    PROVE  current' \in Nat /\ WithinLimits'
  <1>1. Lower(maxKbps, to) \in Nat /\ minKbps <= Lower(maxKbps, to) /\ Lower(maxKbps, to) <= maxKbps
    BY DEF Lower, AbrInv, AbrTypes, WithinLimits
  <1> QED BY <1>1, SetKeeps, StayKeeps

LEMMA CleanKeeps ==
    ASSUME AbrInv, TickClean, UNCHANGED <<maxKbps, minKbps>>
    PROVE  AbrInv'
  <1>1. PICK recent : TickFull \/ TickRecover(recent) \/ TickProbe(recent) \/ TickGrow(recent)
    BY DEF TickClean
  <1>2. UNCHANGED capacity
    BY DEF TickClean
  <1>3. current \in Nat /\ capacity \in Nat /\ probeStep \in 0 .. 3
    BY DEF AbrInv, AbrTypes
  <1>4. (current' \in Nat /\ WithinLimits') /\ probeStep' \in 0 .. 3
    <2>1. CASE TickFull
      BY <2>1, <1>3, StayKeeps DEF TickFull
    <2>2. CASE TickRecover(recent)
      <3> DEFINE to == Higher(Percent(current, 120), Percent(capacity, 85))
      <3>1. to \in Nat /\ to >= current
        <4>1. Percent(current, 120) \in Nat /\ Percent(capacity, 85) \in Nat
          BY <1>3, PercentIsARate
        <4>2. Percent(current, 120) >= current
          BY <1>3, MultipleIsMore
        <4> QED BY <1>3, <4>1, <4>2 DEF Higher
      <3>2. Set(Lower(maxKbps, to), 6) \/ Stay
        BY <2>2 DEF TickRecover
      <3>3. probeStep' \in 0 .. 3
        BY <2>2, <1>3 DEF TickRecover
      <3> HIDE DEF to
      <3> QED BY <3>1, <3>2, <3>3, UpKeeps
    <2>3. CASE TickProbe(recent)
      <3> DEFINE to == Percent(current, 110) + 1
      <3>1. to \in Nat /\ to >= current
        <4>1. Percent(current, 110) \in Nat /\ Percent(current, 110) >= current
          BY <1>3, PercentIsARate, MultipleIsMore
        <4> QED BY <1>3, <4>1
      <3>2. Set(Lower(maxKbps, to), 6) \/ Stay
        BY <2>3 DEF TickProbe
      <3>3. probeStep' \in 0 .. 3
        BY <2>3, <1>3 DEF TickProbe
      <3> HIDE DEF to
      <3> QED BY <3>1, <3>2, <3>3, UpKeeps
    <2>4. CASE TickGrow(recent)
      <3> DEFINE p == <<115, 125, 140, 160>>[Lower(3, probeStep) + 1]
                 to == Percent(current, p) + 1
      <3>1. p \in {115, 125, 140, 160}
        <4>1. Lower(3, probeStep) + 1 \in 1 .. 4
          BY <1>3 DEF Lower
        <4> QED BY <4>1
      <3>2. to \in Nat /\ to >= current
        <4> HIDE DEF p
        <4>1. Percent(current, p) \in Nat
          BY <1>3, <3>1, PercentIsARate
        <4>2. Percent(current, p) >= current
          BY <1>3, <3>1, MultipleIsMore
        <4> QED BY <1>3, <4>1, <4>2
      <3>3. Set(Lower(maxKbps, to), 6) \/ Stay
        BY <2>4 DEF TickGrow
      <3>4. probeStep' \in 0 .. 3
        BY <2>4, <1>3 DEF TickGrow, Lower
      <3> HIDE DEF to
      <3> QED BY <3>2, <3>3, <3>4, UpKeeps
    <2> QED BY <1>1, <2>1, <2>2, <2>3, <2>4
  <1> QED BY <1>2, <1>3, <1>4 DEF AbrInv, AbrTypes

LEMMA TickKeeps ==
    ASSUME AbrInv, Tick
    PROVE  AbrInv'
  <1>1. UNCHANGED <<maxKbps, minKbps>>
    BY DEF Tick
  <1>2. CASE TickOff \/ TickMurky
    <2>1. Stay /\ UNCHANGED <<capacity, probeStep>>
      BY <1>2 DEF TickOff, TickMurky
    <2> QED BY <1>1, <2>1, StayKeeps DEF AbrInv, AbrTypes
  <1>3. CASE TickClean
    BY <1>1, <1>3, CleanKeeps
  <1>4. ASSUME NEW severe \in BOOLEAN, NEW rx \in Reports,
               NEW sent \in {current, Percent(current, 60)}, NEW drain \in {60, 85},
               TickCongested(severe, rx, sent, drain)
        PROVE  AbrInv'
    BY <1>1, <1>4, CongestedKeeps
  <1> QED BY <1>2, <1>3, <1>4 DEF Tick

LEMMA AbrKeeps == AbrInv /\ [AbrNext]_abrVars => AbrInv'
  <1> SUFFICES ASSUME AbrInv, [AbrNext]_abrVars
               PROVE  AbrInv'
    OBVIOUS
  <1>1. CASE UNCHANGED abrVars
    BY <1>1 DEF AbrInv, AbrTypes, WithinLimits, abrVars
  <1>2. CASE Tick
    BY <1>2, TickKeeps
  <1>3. ASSUME NEW rate \in Rates, SetMax(rate) PROVE AbrInv'
    BY <1>3, AbrAssumption DEF SetMax, Lower, AbrInv, AbrTypes, WithinLimits
  <1>4. ASSUME NEW on \in BOOLEAN, SetAdaptive(on) PROVE AbrInv'
    BY <1>4 DEF SetAdaptive, AbrInv, AbrTypes, WithinLimits
  <1> QED BY <1>1, <1>2, <1>3, <1>4 DEF AbrNext

\* Whatever the link does, and whoever changes the ceiling or switches the
\* adaptation on or off meanwhile, the bitrate stays within its limits; rounding
\* and the remembered capacity do not push it out (tick, #set, setMax,
\* setAdaptive).
THEOREM RateStaysWithinLimits == AbrSpec => []WithinLimits
  <1>1. AbrInit => AbrInv
    BY AbrAssumption DEF AbrInit, Lower, AbrInv, AbrTypes, WithinLimits
  <1>2. AbrInv => WithinLimits
    BY DEF AbrInv
  <1> QED BY <1>1, <1>2, AbrKeeps, PTL DEF AbrSpec

-----------------------------------------------------------------------------
(* The end of a session. *)

Process == [os : {"up", "failed", "ended", "died"}, heeds : Nat, told : 0 .. 3]

\* The capture engine is told to stop by nobody but a host that closes.
EndInv ==
    /\ child \in [Children -> Process]
    /\ EndIsBegun
    /\ Up("capture") /\ child["capture"].told > 0 => "host" \in closed

\* stop() reaches every process it is meant for that still runs, once.
LEMMA StopIsHeard ==
    ASSUME child \in [Children -> Process], NEW cs, ToldToStop(cs)
    PROVE  /\ child' \in [Children -> Process]
           /\ \A c \in Children :
                 /\ Up(c)' = Up(c)
                 /\ c \in cs /\ Up(c) => child'[c].told > 0
                 /\ c \in cs \/ child'[c] = child[c]
                 /\ child[c].told > 0 => child'[c] = child[c]
  <1>1. ASSUME NEW c \in Children, c \in cs, Up(c), child[c].told = 0
        PROVE  /\ child'[c] = [child[c] EXCEPT !.told = FirstWord(c)]
               /\ child'[c] \in Process /\ child'[c].told > 0 /\ child'[c].os = child[c].os
    BY <1>1 DEF ToldToStop, FirstWord, Process
  <1>2. ASSUME NEW c \in Children, ~(c \in cs /\ Up(c) /\ child[c].told = 0)
        PROVE  child'[c] = child[c] /\ child'[c] \in Process
    BY <1>2 DEF ToldToStop
  <1>3. child' \in [Children -> Process]
    BY <1>1, <1>2 DEF ToldToStop
  <1>4. ASSUME NEW c \in Children
        PROVE  /\ Up(c)' = Up(c)
               /\ c \in cs /\ Up(c) => child'[c].told > 0
               /\ c \in cs \/ child'[c] = child[c]
               /\ child[c].told > 0 => child'[c] = child[c]
    <2>1. CASE c \in cs /\ Up(c) /\ child[c].told = 0
      <3>1. child'[c].os = child[c].os /\ child'[c].told > 0
        BY <2>1, <1>1
      <3>2. Up(c)' = Up(c)
        BY <3>1 DEF Up
      <3> QED BY <2>1, <3>1, <3>2
    <2>2. CASE ~(c \in cs /\ Up(c) /\ child[c].told = 0)
      BY <2>2, <1>2 DEF Up, Process
    <2> QED BY <2>1, <2>2
  <1> QED BY <1>3, <1>4

LEMMA HostCloses ==
    ASSUME EndInv, CloseHost, heard' = heard \/ heard' = heard \cup {"capture"}
    PROVE  EndInv' /\ "host" \in closed'
  <1>1. CASE "host" \in closed
    BY <1>1 DEF CloseHost, EndInv, EndIsBegun, Up
  <1>2. CASE "host" \notin closed
    <2>1. closed' = closed \cup {"host"} /\ ToldToStop({"capture", "sound"})
      BY <1>2 DEF CloseHost
    <2>2. /\ child' \in [Children -> Process]
          /\ \A c \in Children :
                /\ Up(c)' = Up(c)
                /\ c \in {"capture", "sound"} /\ Up(c) => child'[c].told > 0
                /\ c \in {"capture", "sound"} \/ child'[c] = child[c]
      BY <2>1, StopIsHeard DEF EndInv
    <2>3. ASSUME NEW c \in Children, Up(c)', Owner(c) \in closed'
          PROVE  child'[c].told > 0
      <3>1. CASE c = "window"
        BY <3>1, <2>1, <2>2, <2>3 DEF EndInv, EndIsBegun, Owner
      <3>2. CASE c # "window"
        BY <3>2, <2>2, <2>3 DEF Children
      <3> QED BY <3>1, <3>2
    <2>4. "window" \in heard' => "viewer" \in closed'
      BY <2>1 DEF EndInv, EndIsBegun
    <2> QED BY <2>1, <2>2, <2>3, <2>4 DEF EndInv, EndIsBegun
  <1> QED BY <1>1, <1>2

LEMMA ViewerCloses ==
    ASSUME EndInv, ViewerEnds, heard' = heard \/ heard' = heard \cup {"window"}
    PROVE  EndInv'
  <1>1. closed' = closed \cup {"viewer"} /\ ToldToStop({"window"}) /\ UNCHANGED <<closing, closeTimer>>
    BY DEF ViewerEnds, host
  <1>2. /\ child' \in [Children -> Process]
        /\ \A c \in Children :
              /\ Up(c)' = Up(c)
              /\ c \in {"window"} /\ Up(c) => child'[c].told > 0
              /\ c \in {"window"} \/ child'[c] = child[c]
    BY <1>1, StopIsHeard DEF EndInv
  <1>3. ASSUME NEW c \in Children, Up(c)', Owner(c) \in closed'
        PROVE  child'[c].told > 0
    <2>1. CASE c = "window"
      BY <2>1, <1>2, <1>3
    <2>2. CASE c # "window"
      BY <2>2, <1>1, <1>2, <1>3 DEF EndInv, EndIsBegun, Owner
    <2> QED BY <2>1, <2>2
  <1>4. closing' \/ "capture" \in heard' => closeTimer' \/ "host" \in closed'
    BY <1>1 DEF EndInv, EndIsBegun
  <1>5. child'["capture"] = child["capture"]
    BY <1>2 DEF Children
  <1> QED BY <1>1, <1>2, <1>3, <1>4, <1>5 DEF EndInv, EndIsBegun, Up

\* A process ends, or is told once more.
LEMMA ProcessChanges ==
    ASSUME EndInv, NEW c \in Children, child' \in [Children -> Process],
           \A d \in Children \ {c} : child'[d] = child[d],
           child'[c].os = "up" => Up(c) /\ child[c].told > 0 /\ child'[c].told > 0,
           UNCHANGED <<heard, closed, closing, closeTimer>>
    PROVE  EndInv'
  <1>1. \A d \in Children : Up(d)' =>
           Up(d) /\ (child[d].told > 0 => child'[d].told > 0)
                 /\ (child'[d].told > 0 => child[d].told > 0)
    BY DEF Up
  <1>2. "capture" \in Children
    BY DEF Children
  <1> QED BY <1>1, <1>2 DEF EndInv, EndIsBegun

LEMMA EndsKeep ==
    ASSUME EndInv, NEW c \in Children, Escalate(c) \/ Obeys(c) \/ Ends(c)
    PROVE  EndInv'
  <1>1. child[c] \in Process
    BY DEF EndInv
  <1>2. CASE Escalate(c)
    <2>1. child' = [child EXCEPT ![c] = [child[c] EXCEPT !.told = child[c].told + 1]]
      BY <1>2 DEF Escalate
    <2>2. [child[c] EXCEPT !.told = child[c].told + 1] \in Process
      BY <1>1, <1>2 DEF Escalate, Process
    <2>3. child' \in [Children -> Process] /\ child'[c] = [child[c] EXCEPT !.told = child[c].told + 1]
          /\ \A d \in Children \ {c} : child'[d] = child[d]
      BY <2>1, <2>2 DEF EndInv
    <2>4. Up(c) /\ child[c].told > 0 /\ child'[c].told > 0
      BY <1>1, <1>2, <2>3 DEF Escalate, Process
    <2> QED BY <1>2, <2>3, <2>4, ProcessChanges DEF Escalate, host
  <1>3. ASSUME NEW how \in {"ended", "died"}, child' = [child EXCEPT ![c].os = how],
               UNCHANGED <<heard, closed, closing, closeTimer>>
        PROVE  EndInv'
    <2>1. [child[c] EXCEPT !.os = how] \in Process /\ [child[c] EXCEPT !.os = how].os = how
      BY <1>1 DEF Process
    <2>2. child' \in [Children -> Process] /\ child'[c].os = how
          /\ \A d \in Children \ {c} : child'[d] = child[d]
      BY <1>3, <2>1 DEF EndInv
    <2> QED BY <1>3, <2>2, ProcessChanges
  <1>4. CASE Obeys(c)
    BY <1>3, <1>4 DEF Obeys, host
  <1>5. CASE Ends(c)
    BY <1>3, <1>5 DEF Ends, host
  <1> QED BY <1>2, <1>4, <1>5

\* A host is about to close, or nothing of this changes.
LEMMA TimerIsSet ==
    ASSUME EndInv, child' = child, closed' = closed, closeTimer' = TRUE,
           heard' = heard \/ heard' = heard \cup {"capture"}
    PROVE  EndInv'
  BY DEF EndInv, EndIsBegun, Up

LEMMA RestEnds ==
    ASSUME EndInv, child' = child, closed' = closed, closeTimer' = closeTimer,
           closing' = closing, heard' = heard
    PROVE  EndInv'
  BY DEF EndInv, EndIsBegun, Up

LEMMA ShutdownKeeps ==
    ASSUME EndInv, CaptureReads
    PROVE  EndInv'
  <1>1. UNCHANGED <<heard, closed, closing, closeTimer>>
    BY DEF CaptureReads
  <1>2. CASE Shutdown
    <2>1. child' = [child EXCEPT !["capture"].os = "ended"] /\ "capture" \in Children
      BY <1>2 DEF Shutdown, Children
    <2>2. child["capture"] \in Process
      BY <2>1 DEF EndInv
    <2>3. [child["capture"] EXCEPT !.os = "ended"] \in Process
          /\ [child["capture"] EXCEPT !.os = "ended"].os = "ended"
      BY <2>2 DEF Process
    <2>4. child' \in [Children -> Process] /\ child'["capture"].os = "ended"
          /\ \A d \in Children \ {"capture"} : child'[d] = child[d]
      BY <2>1, <2>3 DEF EndInv
    <2> QED BY <1>1, <2>1, <2>4, ProcessChanges
  <1>3. CASE NewPermission \/ Inject \/ Release
    <2>1. UNCHANGED child
      BY <1>3 DEF NewPermission, Inject, Release
    <2> QED BY <1>1, <2>1, RestEnds
  <1> QED BY <1>2, <1>3 DEF CaptureReads

LEMMA EndKeeps == EndInv /\ [MediaNext]_mediaVars => EndInv'
  <1> SUFFICES ASSUME EndInv, [MediaNext]_mediaVars
               PROVE  EndInv'
    OBVIOUS
  <1>1. CASE UNCHANGED mediaVars
    BY <1>1 DEF EndInv, EndIsBegun, Up, mediaVars, processes, host
  <1>2. ASSUME NEW c \in Children, Escalate(c) \/ Obeys(c) \/ Ends(c) PROVE EndInv'
    BY <1>2, EndsKeep
  <1>3. ASSUME NEW notice \in BOOLEAN, StopSharing(notice) PROVE EndInv'
    <2>1. CASE notice /\ ~closing
      BY <1>3, <2>1, TimerIsSet DEF StopSharing
    <2>2. CASE ~(notice /\ ~closing)
      BY <1>3, <2>2, HostCloses DEF StopSharing, HostEnds
    <2> QED BY <2>1, <2>2
  <1>4. CASE CloseLater \/ HostHearsEnd
    BY <1>4, HostCloses DEF CloseLater, HostHearsEnd, HostEnds
  <1>5. CASE StartTimeout
    BY <1>5, TimerIsSet DEF StartTimeout, processes
  <1>6. CASE CaptureExit
    <2>1. heard' = heard \cup {"capture"}
      BY <1>6 DEF CaptureExit
    <2>2. CASE HostEnds
      BY <2>1, <2>2, HostCloses DEF HostEnds
    <2>3. CASE ~HostEnds
      BY <1>6, <2>1, <2>3, TimerIsSet DEF CaptureExit
    <2> QED BY <2>2, <2>3
  <1>7. CASE LeaveSession \/ WindowExit \/ ViewerHearsEnd
    BY <1>7, ViewerCloses DEF LeaveSession, WindowExit, ViewerHearsEnd
  <1>8. CASE CaptureStarts \/ HearPermission
    BY <1>8, RestEnds DEF CaptureStarts, HearPermission, processes, host
  <1>9. CASE CaptureReads
    BY <1>9, ShutdownKeeps
  <1>10. ASSUME NEW to \in BOOLEAN, SetPermission(to) PROVE EndInv'
    BY <1>10, RestEnds DEF SetPermission, processes
  <1>11. ASSUME NEW event \in {"down", "up"}, HandInput(event) PROVE EndInv'
    BY <1>11, RestEnds DEF HandInput, processes, host
  <1>12. ASSUME NEW side, ProgramExits(side) PROVE EndInv'
    BY <1>12, RestEnds DEF ProgramExits, host
  <1> QED BY <1>1, <1>2, <1>3, <1>4, <1>5, <1>6, <1>7, <1>8, <1>9, <1>10, <1>11, <1>12 DEF MediaNext

LEMMA EndStarts == MediaInit => EndInv
  <1> SUFFICES ASSUME MediaInit PROVE EndInv
    OBVIOUS
  <1>1. \A c \in Children : child[c] \in [os : {"up", "failed"}, heeds : Said \ {0}, told : {0}]
    BY DEF MediaInit
  <1>2. Said \subseteq Nat
    BY DEF Said, Words
  <1>3. ASSUME NEW c \in Children
        PROVE  child[c] \in Process /\ child[c].told = 0
    <2>1. child[c] \in [os : {"up", "failed"}, heeds : Said \ {0}, told : {0}]
      BY <1>1
    <2>2. child[c].told = 0 /\ child[c].heeds \in Nat
      BY ONLY <2>1, <1>2
    <2>3. child[c] = [os |-> child[c].os, heeds |-> child[c].heeds, told |-> child[c].told]
          /\ child[c].os \in {"up", "failed"}
      BY ONLY <2>1
    <2> QED BY ONLY <2>2, <2>3 DEF Process
  <1>4. child \in [Children -> Process] /\ "capture" \in Children
    BY <1>3 DEF MediaInit, Children
  <1> QED BY <1>3, <1>4 DEF MediaInit, EndInv, EndIsBegun

\* Whoever closes first, and whatever ends by itself meanwhile, a side that has
\* closed has told each of its processes to stop, and an end that was noticed is
\* never dropped on the way to closing (Host.close, Viewer.close, the exit
\* handlers).
THEOREM EveryEndIsBegun == MediaSpec => []EndIsBegun
  <1>1. EndInv => EndIsBegun
    BY DEF EndInv
  <1> QED BY <1>1, EndStarts, EndKeeps, PTL DEF MediaSpec
-----------------------------------------------------------------------------
(* What the viewer is told of control. *)

ToldInv ==
    /\ toViewer \in Seq({"yes", "no"})
    /\ perm \in BOOLEAN
    /\ status /\ "host" \notin closed => LastWordIsTrue

\* What is announced is the truth, and the last thing said.
LEMMA AnnouncedIsTrue ==
    ASSUME ToldInv, Announce, perm' \in BOOLEAN, closed' = closed,
           shown' = shown
    PROVE  ToldInv'
  <1>1. CASE "host" \notin closed /\ status'
    <2>1. toViewer' = Append(toViewer, Told(perm)')
      BY <1>1 DEF Announce, Told
    <2>2. Told(perm)' \in {"yes", "no"}
      BY DEF Told
    <2>3. /\ toViewer' \in Seq({"yes", "no"}) /\ toViewer' # <<>>
          /\ toViewer'[Len(toViewer')] = Told(perm)'
      BY <2>1, <2>2 DEF ToldInv
    <2> QED BY <2>3 DEF ToldInv, LastWordIsTrue
  <1>2. CASE ~("host" \notin closed /\ status')
    <2>1. toViewer' = toViewer
      BY <1>2 DEF Announce
    <2> QED BY <1>2, <2>1 DEF ToldInv, LastWordIsTrue
  <1> QED BY <1>1, <1>2

\* Nothing is said; at most the host is gone.
LEMMA NothingIsSaid ==
    ASSUME ToldInv, toViewer' = toViewer, perm' = perm, status' = status, shown' = shown,
           closed \subseteq closed'
    PROVE  ToldInv'
  BY DEF ToldInv, LastWordIsTrue, Told

LEMMA HearingKeeps ==
    ASSUME ToldInv, HearPermission
    PROVE  ToldInv'
  <1>1. /\ toViewer # <<>> /\ shown' = Head(toViewer) /\ toViewer' = Tail(toViewer)
        /\ UNCHANGED <<perm, status, closed>>
    BY DEF HearPermission, host
  <1>2. toViewer' \in Seq({"yes", "no"})
    BY <1>1 DEF ToldInv
  <1>3. (IF toViewer' = <<>> THEN shown' ELSE toViewer'[Len(toViewer')]) = toViewer[Len(toViewer)]
    <2> DEFINE W == {"yes", "no"}
    <2>1. toViewer \in Seq(W) /\ toViewer # <<>> /\ toViewer' \in Seq(W)
      BY <1>1, <1>2 DEF ToldInv
    <2>2. /\ Len(toViewer) \in Nat \ {0} /\ Len(toViewer') = Len(toViewer) - 1
          /\ \A i \in 1 .. Len(toViewer') : toViewer'[i] = toViewer[i + 1]
      BY <1>1, <2>1, HeadTailProperties, EmptySeq
    <2>3. CASE Len(toViewer) = 1
      <3>1. toViewer' = <<>>
        BY <2>1, <2>2, <2>3, EmptySeq
      <3>2. shown' = toViewer[1]
        BY <1>1
      <3> QED BY <2>3, <3>1, <3>2
    <2>4. CASE Len(toViewer) # 1
      <3>1. Len(toViewer') \in 1 .. Len(toViewer') /\ Len(toViewer') + 1 = Len(toViewer)
        BY <2>2, <2>4
      <3>2. toViewer'[Len(toViewer')] = toViewer[Len(toViewer)]
        BY <2>2, <3>1
      <3>3. toViewer' # <<>>
        BY <3>1, EmptySeq
      <3> QED BY <3>2, <3>3
    <2> QED BY <2>3, <2>4
  <1> QED BY <1>1, <1>2, <1>3 DEF ToldInv, LastWordIsTrue, Told

LEMMA ToldKeeps == ToldInv /\ [MediaNext]_mediaVars => ToldInv'
  <1> SUFFICES ASSUME ToldInv, [MediaNext]_mediaVars
               PROVE  ToldInv'
    OBVIOUS
  <1>1. CASE UNCHANGED mediaVars
    BY <1>1, NothingIsSaid DEF mediaVars, host, wires
  <1>2. ASSUME NEW c \in Children, Escalate(c) \/ Obeys(c) \/ Ends(c) PROVE ToldInv'
    BY <1>2, NothingIsSaid DEF Escalate, Obeys, Ends, host, wires
  <1>3. CASE CloseHost /\ UNCHANGED <<perm, status, wires>>
    BY <1>3, NothingIsSaid DEF CloseHost, wires
  <1>4. ASSUME NEW notice \in BOOLEAN, StopSharing(notice) PROVE ToldInv'
    BY <1>3, <1>4, NothingIsSaid DEF StopSharing, HostEnds, wires
  <1>5. CASE CloseLater \/ HostHearsEnd \/ StartTimeout \/ CaptureExit
    BY <1>3, <1>5, NothingIsSaid DEF CloseLater, HostHearsEnd, StartTimeout, CaptureExit, HostEnds, wires
  <1>6. CASE LeaveSession \/ WindowExit \/ ViewerHearsEnd
    BY <1>6, NothingIsSaid DEF LeaveSession, WindowExit, ViewerHearsEnd, ViewerEnds, host, wires
  <1>7. CASE CaptureStarts
    BY <1>7, AnnouncedIsTrue DEF CaptureStarts, ToldInv
  <1>8. CASE HearPermission
    BY <1>8, HearingKeeps
  <1>9. CASE CaptureReads
    <2>1. UNCHANGED <<closed, shown>>
      BY <1>9 DEF CaptureReads
    <2>2. CASE NewPermission
      <3>1. Announce /\ UNCHANGED <<perm, status>>
        BY <2>2 DEF NewPermission
      <3>2. perm' \in BOOLEAN
        BY <3>1 DEF ToldInv
      <3> QED BY <2>1, <3>1, <3>2, AnnouncedIsTrue
    <2>3. CASE Inject \/ Release \/ Shutdown
      BY <2>1, <2>3, NothingIsSaid DEF Inject, Release, Shutdown
    <2> QED BY <1>9, <2>2, <2>3 DEF CaptureReads
  <1>10. ASSUME NEW to \in BOOLEAN, SetPermission(to) PROVE ToldInv'
    <2>1. Announce /\ perm' \in BOOLEAN /\ UNCHANGED <<closed, shown>>
      BY <1>10 DEF SetPermission
    <2> QED BY <2>1, AnnouncedIsTrue
  <1>11. ASSUME NEW event \in {"down", "up"}, HandInput(event) PROVE ToldInv'
    BY <1>11, NothingIsSaid DEF HandInput, host, wires
  <1>12. ASSUME NEW side, ProgramExits(side) PROVE ToldInv'
    BY <1>12, NothingIsSaid DEF ProgramExits, host, wires
  <1> QED BY <1>1, <1>2, <1>4, <1>5, <1>6, <1>7, <1>8, <1>9, <1>10, <1>11, <1>12 DEF MediaNext

\* However grants, the engine's start and its reports interleave, and whatever
\* ends meanwhile, the last word to the viewer about control is what the host
\* permits (setPermissions, #announcePermissions).
THEOREM LastWordToTheViewer == MediaSpec => [](status /\ "host" \notin closed => LastWordIsTrue)
  <1>1. MediaInit => ToldInv
    BY DEF MediaInit, ToldInv, LastWordIsTrue
  <1>2. ToldInv => (status /\ "host" \notin closed => LastWordIsTrue)
    BY DEF ToldInv
  <1> QED BY <1>1, <1>2, ToldKeeps, PTL DEF MediaSpec
-----------------------------------------------------------------------------
(* What is held down on the host. *)

Orders == {"grant", "revoke"}
Order(to) == IF to THEN "grant" ELSE "revoke"
Messages == Orders \cup {"down", "up", "release", "shutdown"}

\* Once the engine has read what is in q, it goes by "to": nothing in there
\* concerns control, or the last order that does says so.
Ordered(q, now, to) ==
    \/ now = to /\ \A i \in 1 .. Len(q) : q[i] \notin Orders
    \/ \E i \in 1 .. Len(q) : /\ q[i] = Order(to)
                              /\ \A j \in i + 1 .. Len(q) : q[j] \notin Orders

\* Nothing is held down without permission in the engine, whose stdin catches
\* up with the permission of the host, and ends with the end of the host.
HoldInv ==
    /\ toCapture \in Seq(Messages)
    /\ held \in BOOLEAN /\ permits \in BOOLEAN /\ perm \in BOOLEAN
    /\ held => permits
    /\ Up("capture") /\ "host" \notin closed => Ordered(toCapture, permits, perm)
    /\ Up("capture") /\ "host" \in closed =>
          \E i \in 1 .. Len(toCapture) : toCapture[i] = "shutdown"

LEMMA OneMore ==
    ASSUME NEW q \in Seq(Messages), NEW m \in Messages
    PROVE  /\ q \o <<m>> \in Seq(Messages)
           /\ Len(q) \in Nat
           /\ Len(q \o <<m>>) = Len(q) + 1
           /\ \A i \in 1 .. Len(q) : (q \o <<m>>)[i] = q[i]
           /\ (q \o <<m>>)[Len(q) + 1] = m
  <1>1. <<m>> \in Seq(Messages) /\ Len(<<m>>) = 1 /\ <<m>>[1] = m
    OBVIOUS
  <1>2. Len(q) \in Nat
    OBVIOUS
  <1>3. /\ q \o <<m>> \in Seq(Messages) /\ Len(q \o <<m>>) = Len(q) + 1
        /\ \A i \in 1 .. Len(q) + 1 : (q \o <<m>>)[i] = IF i <= Len(q) THEN q[i] ELSE <<m>>[i - Len(q)]
    BY <1>1, ConcatProperties
  <1> QED BY <1>1, <1>2, <1>3

\* An order is the last word; anything else leaves the last word as it is.
LEMMA OrderCounts ==
    ASSUME NEW q \in Seq(Messages), NEW now, NEW to \in BOOLEAN
    PROVE  Ordered(q \o <<Order(to)>>, now, to)
  <1> DEFINE r == q \o <<Order(to)>>
  <1>1. Order(to) \in Messages
    BY DEF Order, Messages, Orders
  <1>2. Len(q) \in Nat /\ Len(r) = Len(q) + 1 /\ r[Len(q) + 1] = Order(to)
    BY <1>1, OneMore
  <1> HIDE DEF r
  <1>3. Len(r) \in 1 .. Len(r) /\ r[Len(r)] = Order(to) /\ \A j \in Len(r) + 1 .. Len(r) : r[j] \notin Orders
    BY <1>2
  <1>4. Ordered(r, now, to)
    BY <1>3 DEF Ordered
  <1> QED BY <1>4 DEF r

LEMMA OthersDoNot ==
    ASSUME NEW q \in Seq(Messages), NEW now, NEW to, NEW m \in Messages \ Orders, Ordered(q, now, to)
    PROVE  Ordered(q \o <<m>>, now, to)
  <1> DEFINE r == q \o <<m>>
  <1>1. /\ Len(q) \in Nat /\ Len(r) = Len(q) + 1 /\ r[Len(q) + 1] \notin Orders
        /\ \A i \in 1 .. Len(q) : r[i] = q[i]
    BY OneMore
  <1> HIDE DEF r
  <1>2. Ordered(r, now, to)
    <2>1. CASE now = to /\ \A i \in 1 .. Len(q) : q[i] \notin Orders
      <3>1. \A i \in 1 .. Len(r) : r[i] \notin Orders
        BY <1>1, <2>1
      <3> QED BY <2>1, <3>1 DEF Ordered
    <2>2. ASSUME NEW i \in 1 .. Len(q), q[i] = Order(to),
                 \A j \in i + 1 .. Len(q) : q[j] \notin Orders
          PROVE  Ordered(r, now, to)
      <3>1. i \in 1 .. Len(r) /\ r[i] = Order(to) /\ \A j \in i + 1 .. Len(r) : r[j] \notin Orders
        BY <1>1, <2>2
      <3> QED BY <3>1 DEF Ordered
    <2> QED BY <2>1, <2>2 DEF Ordered
  <1> QED BY <1>2 DEF r

\* The engine reads one message.
LEMMA TailOfMessages ==
    ASSUME NEW q \in Seq(Messages), q # <<>>
    PROVE  /\ Tail(q) \in Seq(Messages) /\ Head(q) = q[1]
           /\ Len(q) \in Nat \ {0} /\ Len(Tail(q)) = Len(q) - 1
           /\ \A i \in 1 .. Len(Tail(q)) : Tail(q)[i] = q[i + 1]
  BY HeadTailProperties, EmptySeq

LEMMA ReadingOrders ==
    ASSUME NEW q \in Seq(Messages), q # <<>>, NEW now, NEW to \in BOOLEAN, Ordered(q, now, to)
    PROVE  Ordered(Tail(q), IF Head(q) \in Orders THEN Head(q) = "grant" ELSE now, to)
  <1> DEFINE r == Tail(q)
             then == IF Head(q) \in Orders THEN Head(q) = "grant" ELSE now
  <1>1. /\ Head(q) = q[1] /\ Len(q) \in Nat \ {0} /\ Len(r) = Len(q) - 1
        /\ \A i \in 1 .. Len(r) : r[i] = q[i + 1]
    BY TailOfMessages
  <1>2. 1 \in 1 .. Len(q)
    BY <1>1
  <1>3. CASE now = to /\ \A i \in 1 .. Len(q) : q[i] \notin Orders
    <2>1. then = to
      BY <1>1, <1>2, <1>3
    <2>2. \A i \in 1 .. Len(r) : r[i] \notin Orders
      <3> HIDE DEF r
      <3> QED BY <1>1, <1>3
    <2> HIDE DEF r, then
    <2>3. Ordered(r, then, to)
      BY <2>1, <2>2 DEF Ordered
    <2> QED BY <2>3 DEF r, then
  <1>4. ASSUME NEW i \in 1 .. Len(q), q[i] = Order(to),
               \A j \in i + 1 .. Len(q) : q[j] \notin Orders
        PROVE  Ordered(Tail(q), then, to)
    <2>1. CASE i = 1
      <3>1. Head(q) = Order(to)
        BY <1>1, <1>4, <2>1
      <3>2. then = to
        BY <3>1 DEF Order, Orders
      <3>3. \A j \in 1 .. Len(r) : r[j] \notin Orders
        <4> HIDE DEF r
        <4> QED BY <1>1, <1>4, <2>1
      <3> HIDE DEF r, then
      <3>4. Ordered(r, then, to)
        BY <3>2, <3>3 DEF Ordered
      <3> QED BY <3>4 DEF r
    <2>2. CASE i # 1
      <3> HIDE DEF r, then
      <3>1. i - 1 \in 1 .. Len(r) /\ r[i - 1] = Order(to)
            /\ \A j \in (i - 1) + 1 .. Len(r) : r[j] \notin Orders
        BY <1>1, <1>4, <2>2
      <3>2. Ordered(r, then, to)
        BY <3>1 DEF Ordered
      <3> QED BY <3>2 DEF r
    <2> QED BY <2>1, <2>2
  <1> QED BY <1>3, <1>4 DEF Ordered

\* A capture that is gone, or a key that is up, needs nothing.
LEMMA GoneHolds ==
    ASSUME HoldInv, toCapture' \in Seq(Messages), held' \in BOOLEAN, held' => held,
           permits' = permits, perm' = perm, ~Up("capture")'
    PROVE  HoldInv'
  BY DEF HoldInv

\* Nothing that concerns it changes.
LEMMA NothingIsHeldAnew ==
    ASSUME HoldInv, toCapture' = toCapture, held' = held,
           permits' = permits, perm' = perm, Up("capture")' => Up("capture"),
           "host" \in closed' <=> "host" \in closed
    PROVE  HoldInv'
  BY DEF HoldInv, Ordered

\* One message that is no order is written, if anything is.
LEMMA PipedHolds ==
    ASSUME EndInv, HoldInv, NEW m \in Messages \ Orders, Piped(<<m>>), "host" \notin closed,
           held' = held, permits' = permits, perm' = perm, child' = child, closed' = closed
    PROVE  HoldInv'
  <1>1. Up("capture")' = Up("capture")
    BY DEF Up
  <1>2. CASE Up("capture")
    <2>1. child["capture"].told = 0
      BY <1>2 DEF EndInv, Process, Children
    <2>2. toCapture' = toCapture \o <<m>>
      BY <1>2, <2>1 DEF Piped
    <2>3. toCapture' \in Seq(Messages) /\ Ordered(toCapture', permits, perm)
      BY <1>2, <2>2, OneMore, OthersDoNot DEF HoldInv
    <2> QED BY <2>3 DEF HoldInv, Ordered
  <1>3. CASE ~Up("capture")
    <2>1. toCapture' = toCapture
      BY <1>3 DEF Piped
    <2> QED BY <1>1, <1>3, <2>1 DEF HoldInv
  <1> QED BY <1>2, <1>3

\* The host closes: "shutdown" is the last it writes.
LEMMA ClosingHolds ==
    ASSUME EndInv, HoldInv, CloseHost, UNCHANGED <<permits, held, perm>>
    PROVE  HoldInv'
  <1>1. CASE "host" \in closed
    BY <1>1, NothingIsHeldAnew DEF CloseHost, Up
  <1>2. CASE "host" \notin closed
    <2>1. /\ closed' = closed \cup {"host"} /\ ToldToStop({"capture", "sound"})
          /\ Piped(<<"release", "shutdown">>)
      BY <1>2 DEF CloseHost
    <2>2. Up("capture")' = Up("capture")
      BY <2>1, StopIsHeard DEF EndInv, Children
    <2>3. CASE Up("capture")
      <3>1. child["capture"].told = 0
        BY <1>2, <2>3 DEF EndInv, Process, Children
      <3>2. toCapture' = toCapture \o <<"release", "shutdown">>
        BY <2>1, <2>3, <3>1 DEF Piped
      <3>3. <<"release", "shutdown">> \in Seq(Messages) /\ Len(<<"release", "shutdown">>) = 2
            /\ <<"release", "shutdown">>[2] = "shutdown"
        BY DEF Messages
      <3>4. /\ toCapture' \in Seq(Messages) /\ Len(toCapture) \in Nat
            /\ Len(toCapture') = Len(toCapture) + 2
            /\ toCapture'[Len(toCapture) + 2] = "shutdown"
        <4>1. toCapture \in Seq(Messages) /\ Len(toCapture) \in Nat
          BY DEF HoldInv
        <4>2. /\ toCapture' \in Seq(Messages) /\ Len(toCapture') = Len(toCapture) + 2
              /\ \A i \in 1 .. Len(toCapture) + 2 :
                    toCapture'[i] = IF i <= Len(toCapture) THEN toCapture[i]
                                    ELSE <<"release", "shutdown">>[i - Len(toCapture)]
          BY <3>2, <3>3, <4>1, ConcatProperties
        <4> QED BY <3>3, <4>1, <4>2
      <3>5. Len(toCapture) + 2 \in 1 .. Len(toCapture')
        BY <3>4
      <3> QED BY <2>1, <3>4, <3>5 DEF HoldInv
    <2>4. CASE ~Up("capture")
      <3>1. toCapture' = toCapture
        BY <2>1, <2>4 DEF Piped
      <3> QED BY <2>2, <2>4, <3>1 DEF HoldInv
    <2> QED BY <2>3, <2>4
  <1> QED BY <1>1, <1>2

LEMMA PermissionHolds ==
    ASSUME EndInv, HoldInv, NEW to \in BOOLEAN, SetPermission(to)
    PROVE  HoldInv'
  <1>1. /\ perm' = to /\ Piped(<<Order(to)>>) /\ "host" \notin closed
        /\ UNCHANGED <<child, held, permits, closed>>
    BY DEF SetPermission, Order, processes
  <1>2. Up("capture")' = Up("capture")
    BY <1>1 DEF Up
  <1>3. CASE Up("capture")
    <2>1. child["capture"].told = 0
      BY <1>1, <1>3 DEF EndInv, Process, Children
    <2>2. toCapture' = toCapture \o <<Order(to)>>
      BY <1>1, <1>3, <2>1 DEF Piped
    <2>3. Order(to) \in Messages
      BY DEF Order, Messages, Orders
    <2>4. toCapture' \in Seq(Messages) /\ Ordered(toCapture', permits, to)
      BY <2>2, <2>3, OneMore, OrderCounts DEF HoldInv
    <2>5. Ordered(toCapture', permits', perm')
      BY <1>1, <2>4 DEF Ordered
    <2> QED BY <1>1, <2>4, <2>5 DEF HoldInv, Ordered
  <1>4. CASE ~Up("capture")
    <2>1. toCapture' = toCapture
      BY <1>1, <1>4 DEF Piped
    <2> QED BY <1>1, <1>2, <1>4, <2>1 DEF HoldInv
  <1> QED BY <1>3, <1>4

LEMMA ReadingHolds ==
    ASSUME EndInv, HoldInv, CaptureReads
    PROVE  HoldInv'
  <1>1. /\ Up("capture") /\ toCapture # <<>> /\ toCapture' = Tail(toCapture)
        /\ UNCHANGED closed
        /\ toCapture \in Seq(Messages)
    BY DEF CaptureReads, HoldInv
  <1>2. /\ toCapture' \in Seq(Messages) /\ Head(toCapture) = toCapture[1]
        /\ Len(toCapture) \in Nat \ {0} /\ Len(toCapture') = Len(toCapture) - 1
        /\ \A i \in 1 .. Len(toCapture') : toCapture'[i] = toCapture[i + 1]
    BY <1>1, TailOfMessages
  <1>3. perm' = perm
    BY DEF CaptureReads, NewPermission, Inject, Release, Shutdown
  <1>4. held' \in BOOLEAN /\ permits' \in BOOLEAN /\ (held' => permits')
    <2>1. held \in BOOLEAN /\ permits \in BOOLEAN /\ (held => permits)
      BY DEF HoldInv
    <2>2. CASE NewPermission
      <3>1. permits' = (Next1 = "grant") /\ Next1 \in {"grant", "revoke"}
            /\ held' = (held /\ ~(permits /\ Next1 = "revoke"))
        BY <2>2 DEF NewPermission
      <3> HIDE DEF Next1
      <3> QED BY ONLY <2>1, <3>1
    <2>3. CASE Inject
      <3>1. permits' = permits /\ held' = IF permits THEN Next1 = "down" ELSE held
        BY <2>3 DEF Inject
      <3> QED BY ONLY <2>1, <3>1
    <2>4. CASE Release \/ Shutdown
      BY <2>1, <2>4 DEF Release, Shutdown
    <2> QED BY <2>2, <2>3, <2>4 DEF CaptureReads
  <1>5. CASE Shutdown
    <2>1. child' = [child EXCEPT !["capture"].os = "ended"]
      BY <1>5 DEF Shutdown
    <2>2. child["capture"] \in Process /\ child' = [child EXCEPT !["capture"] = [child["capture"] EXCEPT !.os = "ended"]]
      BY <2>1 DEF EndInv, Children
    <2>3. child'["capture"].os = "ended"
      BY <2>2 DEF EndInv, Process, Children
    <2>4. ~Up("capture")'
      BY <2>3 DEF Up
    <2> QED BY <1>2, <1>3, <1>4, <2>4 DEF HoldInv
  <1>6. CASE ~Shutdown
    <2>1. CASE "host" \in closed
      <3>1. PICK i \in 1 .. Len(toCapture) : toCapture[i] = "shutdown"
        BY <1>1, <2>1 DEF HoldInv
      <3>2. Head(toCapture) # "shutdown"
        BY <1>6 DEF CaptureReads, NewPermission, Inject, Release, Next1
      <3>3. i - 1 \in 1 .. Len(toCapture') /\ toCapture'[i - 1] = "shutdown"
        BY <1>2, <3>1, <3>2
      <3> QED BY <1>1, <1>2, <1>3, <1>4, <2>1, <3>3 DEF HoldInv
    <2>2. CASE "host" \notin closed
      <3>1. permits' = IF Head(toCapture) \in Orders THEN Head(toCapture) = "grant" ELSE permits
        BY <1>6 DEF CaptureReads, NewPermission, Inject, Release, Next1, Orders
      <3>2. Ordered(toCapture, permits, perm)
        BY <1>1, <2>2 DEF HoldInv
      <3>3. Ordered(Tail(toCapture), IF Head(toCapture) \in Orders THEN Head(toCapture) = "grant" ELSE permits, perm)
        BY <1>1, <3>2, ReadingOrders DEF HoldInv
      <3>4. Ordered(toCapture', permits', perm')
        BY <1>1, <1>3, <3>1, <3>3 DEF Ordered
      <3> QED BY <1>1, <1>2, <1>3, <1>4, <2>2, <3>4 DEF HoldInv, Ordered
    <2> QED BY <2>1, <2>2
  <1> QED BY <1>5, <1>6

LEMMA HoldKeeps == EndInv /\ HoldInv /\ [MediaNext]_mediaVars => HoldInv'
  <1> SUFFICES ASSUME EndInv, HoldInv, [MediaNext]_mediaVars
               PROVE  HoldInv'
    OBVIOUS
  <1>1. CASE UNCHANGED mediaVars
    BY <1>1, NothingIsHeldAnew DEF mediaVars, processes, engine, host, Up
  <1>2. ASSUME NEW c \in Children, Escalate(c) PROVE HoldInv'
    <2>1. Up("capture")' => Up("capture")
      BY <1>2 DEF Escalate, EndInv, Up, Process, Children
    <2> QED BY <1>2, <2>1, NothingIsHeldAnew DEF Escalate, engine, host
  <1>3. ASSUME NEW c \in Children, Obeys(c) PROVE HoldInv'
    <2>1. Up("capture")' => Up("capture")
      BY <1>3 DEF Obeys, EndInv, Up, Process, Children
    <2> QED BY <1>3, <2>1, NothingIsHeldAnew DEF Obeys, engine, host
  <1>4. ASSUME NEW c \in Children, Ends(c) PROVE HoldInv'
    <2>1. PICK how \in {"ended", "died"} :
             child' = [child EXCEPT ![c].os = how] /\ held' = (held /\ ~(c = "capture" /\ how = "ended"))
      BY <1>4 DEF Ends
    <2>2. UNCHANGED <<toCapture, permits, perm, closed>> /\ toCapture \in Seq(Messages)
      BY <1>4 DEF Ends, host, HoldInv
    <2>3. CASE c = "capture"
      <3>1. ~Up("capture")'
        BY <2>1, <2>3 DEF EndInv, Up, Process, Children
      <3>2. held' \in BOOLEAN /\ (held' => held)
        BY <2>1
      <3> QED BY <2>2, <3>1, <3>2, GoneHolds
    <2>4. CASE c # "capture"
      <3>1. Up("capture")' => Up("capture")
        BY <2>1, <2>4 DEF EndInv, Up, Process, Children
      <3>2. held' = held
        BY <2>1, <2>4 DEF HoldInv
      <3> QED BY <2>2, <3>1, <3>2, NothingIsHeldAnew
    <2> QED BY <2>3, <2>4
  <1>5. ASSUME NEW notice \in BOOLEAN, StopSharing(notice) PROVE HoldInv'
    <2>1. CASE notice /\ ~closing
      <3>1. "release" \in Messages \ Orders
        BY DEF Messages, Orders
      <3> QED BY <1>5, <2>1, <3>1, PipedHolds DEF StopSharing
    <2>2. CASE ~(notice /\ ~closing)
      BY <1>5, <2>2, ClosingHolds DEF StopSharing, HostEnds
    <2> QED BY <2>1, <2>2
  <1>6. CASE CloseLater \/ HostHearsEnd
    BY <1>6, ClosingHolds DEF CloseLater, HostHearsEnd, HostEnds
  <1>7. CASE StartTimeout
    BY <1>7, NothingIsHeldAnew DEF StartTimeout, processes, engine, Up
  <1>8. CASE CaptureExit
    <2>1. CASE HostEnds
      BY <2>1, ClosingHolds DEF HostEnds
    <2>2. CASE ~HostEnds
      BY <1>8, <2>2, NothingIsHeldAnew DEF CaptureExit, engine, Up
    <2> QED BY <2>1, <2>2
  <1>9. CASE ViewerEnds
    <2>1. Up("capture")' = Up("capture")
      BY <1>9, StopIsHeard DEF ViewerEnds, EndInv, Children
    <2>2. "host" \in closed' <=> "host" \in closed
      BY <1>9 DEF ViewerEnds
    <2> QED BY <1>9, <2>1, <2>2, NothingIsHeldAnew DEF ViewerEnds, engine, host
  <1>10. CASE LeaveSession \/ WindowExit \/ ViewerHearsEnd
    BY <1>9, <1>10 DEF LeaveSession, WindowExit, ViewerHearsEnd
  <1>11. CASE CaptureStarts \/ HearPermission
    BY <1>11, NothingIsHeldAnew DEF CaptureStarts, HearPermission, processes, engine, host, Up
  <1>12. CASE CaptureReads
    BY <1>12, ReadingHolds
  <1>13. ASSUME NEW to \in BOOLEAN, SetPermission(to) PROVE HoldInv'
    BY <1>13, PermissionHolds
  <1>14. ASSUME NEW event \in {"down", "up"}, HandInput(event) PROVE HoldInv'
    <2>1. event \in Messages \ Orders
      BY DEF Messages, Orders
    <2> QED BY <1>14, <2>1, PipedHolds DEF HandInput, processes, host
  <1>15. ASSUME NEW side, ProgramExits(side) PROVE HoldInv'
    BY <1>15, NothingIsHeldAnew DEF ProgramExits, engine, host, Up
  <1> QED BY <1>1, <1>2, <1>3, <1>4, <1>5, <1>6, <1>7, <1>8, <1>10, <1>11, <1>12, <1>13, <1>14, <1>15
          DEF MediaNext

LEMMA HoldLetsGo == HoldInv => (held /\ Up("capture") => LetGoIsOnItsWay)
  <1> SUFFICES ASSUME HoldInv, held, Up("capture"), ~(perm /\ "host" \notin closed)
               PROVE  \E i \in DOMAIN toCapture : toCapture[i] \in {"revoke", "release", "shutdown"}
    BY DEF LetGoIsOnItsWay
  <1>1. DOMAIN toCapture = 1 .. Len(toCapture)
    BY DEF HoldInv
  <1>2. CASE "host" \in closed
    BY <1>1, <1>2 DEF HoldInv
  <1>3. CASE "host" \notin closed
    <2>1. Ordered(toCapture, permits, perm) /\ perm = FALSE /\ permits = TRUE
      BY <1>3 DEF HoldInv
    <2>2. \E i \in 1 .. Len(toCapture) : toCapture[i] = "revoke"
      BY <2>1 DEF Ordered, Order
    <2> QED BY <1>1, <2>2
  <1> QED BY <1>2, <1>3

\* A key that is held down without permission of a host that is still there is
\* about to be let go: the order to do so is on the engine's stdin, whatever was
\* granted, revoked, typed and closed in whatever order before (setPermissions,
\* release_all, Shutdown).
THEOREM HeldKeysAreLetGo == MediaSpec => [](held /\ Up("capture") => LetGoIsOnItsWay)
  <1>1. MediaInit => HoldInv
    <2> SUFFICES ASSUME MediaInit PROVE HoldInv
      OBVIOUS
    <2>1. toCapture = <<>> /\ held = FALSE /\ permits = perm /\ perm \in BOOLEAN /\ closed = {}
      BY DEF MediaInit
    <2>2. toCapture \in Seq(Messages) /\ Len(toCapture) = 0
      BY <2>1
    <2>3. Ordered(toCapture, permits, perm)
      BY <2>1, <2>2 DEF Ordered
    <2> QED BY <2>1, <2>2, <2>3 DEF HoldInv
  <1>2. EndInv /\ HoldInv /\ [MediaNext]_mediaVars => (EndInv /\ HoldInv)'
    BY EndKeeps, HoldKeeps
  <1> QED BY <1>1, <1>2, EndStarts, HoldLetsGo, PTL DEF MediaSpec
=============================================================================
