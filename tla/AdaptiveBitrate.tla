--------------------------- MODULE AdaptiveBitrate ---------------------------
(***************************************************************************)
(* The host's adaptive bitrate (app/latency.mjs): down at once when the     *)
(* link queues or loses, back up when it is clear.                          *)
(*                                                                         *)
(* Rates are in hundreds of kbit/s, rounded where the code rounds; time is  *)
(* in ticks of 250 ms.  What the queue, the viewer's delay and its losses   *)
(* amount to at a tick is one verdict; 20 s without congestion, after which *)
(* the known capacity is ignored, may be over at any clear tick.            *)
(***************************************************************************)
EXTENDS Integers

CONSTANTS
    Rates,      \* the ceilings a user can set
    Received,   \* rates a viewer may report to receive
    Floor,      \* minKbps at the start
    Hold        \* ticks until a decrease has had its effect

ASSUME AbrAssumption == Rates \subseteq Nat /\ Received \subseteq Nat /\ Floor \in Nat

VARIABLES
    maxKbps, minKbps, current, enabled,
    load,           \* the verdict of the last tick
    clear,          \* ticks since cleanSince, plus one; 0 if it is unset
    sinceChange,    \* ticks since lastChange, capped
    sinceDecrease,  \* ticks since lastDecrease, capped
    inEpisode,      \* inside one congestion episode
    capacity,       \* what the link carried when it last congested
    fresh,          \* whether that was less than 20 s ago
    probeStep

abrVars == <<maxKbps, minKbps, current, enabled, load, clear, sinceChange,
             sinceDecrease, inEpisode, capacity, fresh, probeStep>>

Lower(a, b) == IF a < b THEN a ELSE b
Higher(a, b) == IF a > b THEN a ELSE b
Percent(x, p) == (x * p + 50) \div 100
Patience == 8   \* ticks; no threshold is above it

AbrInit ==
    /\ maxKbps \in Rates
    /\ minKbps = Lower(Floor, maxKbps)
    /\ current = maxKbps
    /\ enabled = TRUE
    /\ load = "clean" /\ clear = 0
    /\ sinceChange = Patience /\ sinceDecrease = Hold
    /\ inEpisode = FALSE /\ capacity = 0 /\ fresh = FALSE
    /\ probeStep = 0

\* Mutant: a step below the least is not made, not even to the ceiling.
SmallStepNever(to, percent) ==
    LET step == IF to > current THEN to - current ELSE current - to
    IN step * 100 < current * percent

\* A step that is not worth a keyframe; to the ceiling or the floor any is.
SmallStep(to, percent) ==
    LET step == IF to > current THEN to - current ELSE current - to
    IN step * 100 < current * percent /\ to \notin {maxKbps, minKbps}

\* #set()
Set(to, percent) ==
    IF to = current \/ SmallStep(to, percent)
    THEN UNCHANGED current /\ sinceChange' = Lower(sinceChange + 1, Patience)
    ELSE current' = to /\ sinceChange' = 0

Stay == UNCHANGED current /\ sinceChange' = Lower(sinceChange + 1, Patience)

Ages == sinceDecrease' = Lower(sinceDecrease + 1, Hold)
ClearFor == Lower(IF clear = 0 THEN 1 ELSE clear + 1, Patience + 1)

\* What the viewer says it receives, nothing if it does not say.
Reports == Received \cup {0}

\* The link queues or loses; rx is what the viewer receives while it queues.
TickCongested(severe, rx, sent, drain) ==
    LET base == Lower(current, Higher(sent, Percent(current, 50)))
        plain == Percent(base, IF severe THEN 65 ELSE 85)
        next == IF rx = 0 THEN plain ELSE Lower(plain, Percent(rx, drain))
    IN /\ load' = "congested"
       /\ clear' = 0 /\ probeStep' = 0 /\ inEpisode' = TRUE /\ fresh' = TRUE
       /\ capacity' = IF ~inEpisode THEN Higher(minKbps, IF rx = 0 THEN Percent(sent, 95) ELSE rx)
                      ELSE IF rx # 0 THEN Higher(minKbps, Lower(capacity, rx)) ELSE capacity
       /\ IF sinceDecrease < Hold THEN Stay /\ Ages
          ELSE /\ Set(Higher(minKbps, next), 3)
               /\ sinceDecrease' = IF current' # current THEN 0 ELSE Hold

\* Neither congested nor clean.
TickMurky ==
    /\ load' = "murky" /\ clear' = 0
    /\ Stay /\ Ages
    /\ UNCHANGED <<inEpisode, capacity, fresh, probeStep>>

TickFull ==
    /\ current >= maxKbps
    /\ clear' = IF clear = 0 THEN 0 ELSE ClearFor
    /\ Stay /\ UNCHANGED probeStep

Below(known, percent) == known /\ current * 100 < capacity * percent

\* Well below what the link carried a moment ago.
TickRecover(known) ==
    /\ current < maxKbps /\ Below(known, 85)
    /\ clear' = ClearFor
    /\ UNCHANGED probeStep
    /\ IF ClearFor > 3 /\ sinceChange >= 3
       THEN Set(Lower(maxKbps, Higher(Percent(current, 120), Percent(capacity, 85))), 6)
       ELSE Stay

\* Around it.
TickProbe(known) ==
    /\ current < maxKbps /\ ~Below(known, 85) /\ Below(known, 115)
    /\ clear' = ClearFor
    /\ UNCHANGED probeStep
    /\ IF ClearFor > 8 /\ sinceChange >= 7
       THEN Set(Lower(maxKbps, Percent(current, 110) + 1), 6)
       ELSE Stay

\* Above it, or nothing is known: growing steps.
TickGrow(known) ==
    /\ current < maxKbps /\ ~Below(known, 115)
    /\ clear' = ClearFor
    /\ IF ClearFor > 6 /\ sinceChange >= 5
       THEN /\ Set(Lower(maxKbps, Percent(current, <<115, 125, 140, 160>>[Lower(3, probeStep) + 1]) + 1), 6)
            /\ probeStep' = Lower(3, probeStep + 1)
       ELSE Stay /\ UNCHANGED probeStep

TickClean ==
    /\ load' = "clean" /\ inEpisode' = FALSE
    /\ Ages
    /\ UNCHANGED capacity
    /\ \E known \in {fresh, FALSE} :
          /\ fresh' = known
          /\ TickFull \/ TickRecover(known) \/ TickProbe(known) \/ TickGrow(known)

\* Switched off, nothing but time goes on.
TickOff ==
    /\ clear' = IF clear = 0 THEN 0 ELSE ClearFor
    /\ Stay /\ Ages
    /\ UNCHANGED <<load, inEpisode, capacity, fresh, probeStep>>

Tick ==
    /\ UNCHANGED <<maxKbps, minKbps, enabled>>
    /\ IF ~enabled THEN TickOff
       ELSE \/ TickClean \/ TickMurky
            \/ \E severe \in BOOLEAN, rx \in Reports, sent \in {current, Percent(current, 60)},
                  drain \in {60, 85} : TickCongested(severe, rx, sent, drain)

\* setMax(): Host.setBitrate, by the user or the viewer.
SetMax(rate) ==
    /\ maxKbps' = rate
    /\ minKbps' = Lower(minKbps, rate)
    /\ current' = IF current > rate \/ ~enabled THEN rate ELSE current
    /\ UNCHANGED <<enabled, load, clear, sinceChange, sinceDecrease, inEpisode, capacity, fresh, probeStep>>

\* Host.setAdaptive()
SetAdaptive(on) ==
    /\ enabled' = on
    /\ current' = IF on THEN current ELSE maxKbps
    /\ UNCHANGED <<maxKbps, minKbps, load, clear, sinceChange, sinceDecrease, inEpisode, capacity, fresh, probeStep>>

AbrNext == Tick \/ (\E rate \in Rates : SetMax(rate)) \/ (\E on \in BOOLEAN : SetAdaptive(on))

AbrSpec == AbrInit /\ [][AbrNext]_abrVars

\* The 250 ms timer; that a link which is clear stays so is not assumed.
ClearTick ==
    /\ load = "clean" /\ enabled
    /\ TickClean
    /\ UNCHANGED <<maxKbps, minKbps, enabled>>
AbrFairness == WF_abrVars(ClearTick)

\* Neither a congested link nor a new ceiling, at any moment of an episode,
\* takes the bitrate out of its limits (#set, setMax, setAdaptive).
WithinLimits == minKbps <= current /\ current <= maxKbps

\* The bitrate stays between floor and ceiling, and once the link is clear for
\* good and nobody changes the ceiling, it comes back all the way: neither the
\* least step, the remembered capacity nor a setting made in between leaves it
\* below (AdaptiveBitrate.tick, setMax, setAdaptive).
BitrateRecovers ==
    /\ []WithinLimits
    /\ \A rate \in Rates : <>[](load = "clean" /\ enabled /\ maxKbps = rate) => <>[](current = rate)
=============================================================================
