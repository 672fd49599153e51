---------------------------- MODULE Connection ----------------------------
(***************************************************************************)
(* From an invitation to a live session: run() of signal/client.mjs, Peer  *)
(* of transport/peer.mjs and the start and end of Host and Viewer of       *)
(* app/session.mjs, for one invitation or one remote access code.          *)
(*                                                                         *)
(* A session is one attempt: one Host or Viewer object with its run() and  *)
(* its peer.  Attempts exchange signals (SDP, candidates) over broadcast   *)
(* channels that lose, delay, repeat and reorder; once both ends have what *)
(* they need, ICE connects and a reliable control channel carries the      *)
(* Noise handshake and the owner's verdict.                                *)
(***************************************************************************)
EXTENDS Naturals, FiniteSets, SequencesExt, NoiseXX

CONSTANTS
    Hosts,      \* attempts of the sharing side, one at a time
    Viewers,    \* attempts of people who connect
    None,
    MaxLog,     \* MAX_LOG: signals one attempt may produce
    Sole        \* TRUE when only one signal channel is configured

Session == Hosts \cup Viewers

ASSUME ConnectionAssumption ==
    /\ Hosts \cap Viewers = {}
    /\ None \notin Session
    /\ MaxLog \in Nat \ {0}
    /\ Sole \in BOOLEAN

VARIABLES
    access, \* the code is a remote access code, not an invitation
    s,      \* what each attempt's closures and objects hold
    hs,     \* handshake of each attempt's peer
    inbox,  \* control messages on their way to each attempt
    spent   \* spentPartners: the sessions in this Set, the attempts that hold it

vars == <<access, s, hs, inbox, spent>>

Phases == {"unused", "relays", "opening", "running", "live", "over", "gone"}
PeerStates == {"none", "new", "handshaking", "awaiting", "secure", "closed"}
Kinds == {"sdp", "candidate"}
Seqs == 0 .. MaxLog - 1
Verdicts == {"none", "asked", "yes", "no", "late"}
Entry == [from : Session, n : Seqs, kind : Kinds]

Fresh == [phase |-> "unused", stop |-> FALSE, partner |-> None, log |-> <<>>,
          toAll |-> 0, toPartner |-> 0, nextRemote |-> 0, pending |-> {},
          ice |-> FALSE, peer |-> "none", shut |-> FALSE, described |-> FALSE,
          queued |-> <<>>, applied |-> <<>>, ctl |-> "none", verdict |-> "none"]

\* spentPartners is a Set in the memory of the program that listens, handed
\* to every attempt it makes; no file keeps it.
NoMemory == [partners |-> {}, holders |-> {}]

Init ==
    /\ access \in BOOLEAN
    /\ s = [x \in Session |-> Fresh]
    /\ hs = [x \in Session |-> HandshakeState(FALSE, NoKey, NoPayload)]
    /\ inbox = [x \in Session |-> <<>>]
    /\ spent = NoMemory

IsHost(x) == x \in Hosts

-----------------------------------------------------------------------------
(* Signals on the air.  A channel may lose a message, delay it for as long  *)
(* as it likes, deliver it again through another relay, and in any order;   *)
(* so it is enough to know how far the log has been sent, to everybody      *)
(* (toAll) and to the partner alone (toPartner): 0 is nothing at all, k + 1 *)
(* is the first k entries.                                                  *)

\* Mutant: the end of an attempt does not end its signalling.
SignalingDoneByIce(r) == r.ice \/ r.phase = "live"

\* signalingDone: ICE has connected, or the attempt has ended.
SignalingDone(r) == r.ice \/ r.phase \in {"live", "over", "gone"}

\* The host speaks only once it has a partner; the viewer announces itself.
CanSpeak(x, r) == ~IsHost(x) \/ r.partner # None

\* Mutant: one entry more than the log has.
ResendOneMore(x, r) == [r EXCEPT !.toAll = Len(r.log) + 2]

\* resendAll(): the whole log, addressed to the partner if there is one.
ResendAll(x, r) ==
    IF SignalingDone(r) \/ ~CanSpeak(x, r) THEN r
    ELSE IF r.partner = None THEN [r EXCEPT !.toAll = Len(r.log) + 1]
                             ELSE [r EXCEPT !.toPartner = Len(r.log) + 1]

\* How much of y's log a message that reaches x may carry.
Audible(x, y) ==
    IF IsHost(x) = IsHost(y) THEN {}
    ELSE {hi \in 0 .. MaxLog : \/ hi < s[y].toAll
                               \/ s[y].partner = x /\ hi < s[y].toPartner}

-----------------------------------------------------------------------------
(* The peer object.  CLOSED and FAILED are one state here: they differ only *)
(* in what the user is told.                                                *)

Static(x) == {<<"static", IF IsHost(x) THEN "owner" ELSE x>>}
Ephemeral(x) == {<<"ephemeral", x>>}
Prologue == {<<"prologue", access>>}

CreatePeer(r) == [r EXCEPT !.peer = "new"]

\* What a closed peer was given cannot be told apart any more: forgotten.
ClosePeer(r) ==
    IF r.peer = "none" \/ r.shut THEN r
    ELSE [r EXCEPT !.shut = TRUE, !.peer = "closed", !.ctl = "closed", !.ice = FALSE,
                   !.described = FALSE, !.applied = <<>>, !.queued = <<>>,
                   !.nextRemote = 0, !.pending = {}]

SetPeerState(r, st) == IF r.shut THEN r ELSE [r EXCEPT !.peer = st]

\* Mutant: the candidates that came first are not kept.
ApplyUnqueued(r, sigs) ==
    LET sdp == \E i \in DOMAIN sigs : sigs[i].kind = "sdp"
    IN IF r.described \/ sdp THEN [r EXCEPT !.described = TRUE, !.applied = @ \o sigs] ELSE r

\* applySignal() for the entries now in sequence.  Candidates wait for the
\* description and go to the ICE agent right after it.
ApplySignals(r, sigs) ==
    LET sdps  == {i \in DOMAIN sigs : sigs[i].kind = "sdp"}
        first == Min(sdps)
    IN IF r.described     THEN [r EXCEPT !.applied = @ \o sigs]
       ELSE IF sdps = {}  THEN [r EXCEPT !.queued = @ \o sigs]
       ELSE [r EXCEPT !.described = TRUE, !.queued = <<>>,
                      !.applied = <<sigs[first]>> \o r.queued \o RemoveAt(sigs, first)]

-----------------------------------------------------------------------------
(* The end of an attempt: finish() with an error and what follows in the    *)
(* same turn, cleanup() of run() and the rejection of start(); or, for a    *)
(* live session, close() of Host or Viewer.                                 *)

Over(x, r) == [ClosePeer(ResendAll(x, r)) EXCEPT !.phase = "over"]

\* finish() settles once: a run that is over stays as it is.
Finish(x, r) == IF r.phase \in {"running", "live"} THEN Over(x, r) ELSE ClosePeer(r)

\* The peer is secure: run() resolves, signalling ends, the media start.  A
\* run that was over already stays over.
Secure(x, r) ==
    LET p == SetPeerState(r, "secure")
    IN IF p.phase = "running" THEN [ResendAll(x, p) EXCEPT !.phase = "live"] ELSE p

Ends(x) ==
    /\ s' = [s EXCEPT ![x] = Finish(x, @)]
    /\ UNCHANGED <<access, hs, inbox, spent>>

-----------------------------------------------------------------------------
(* Starting.                                                                *)

\* Host.start() or Viewer.start(), which first look up relays.  The caller
\* runs one host attempt per code at a time, and hands a listener the Set of
\* its spent partners.
Start(x) ==
    /\ s[x].phase = "unused"
    /\ IsHost(x) => \A h \in Hosts : s[h].phase \in {"unused", "over", "gone"}
    /\ s' = [s EXCEPT ![x].phase = "relays"]
    /\ spent' = IF access /\ IsHost(x) THEN [spent EXCEPT !.holders = @ \cup {x}] ELSE spent
    /\ UNCHANGED <<access, hs, inbox>>

\* The relays are known: an attempt stopped meanwhile ends here.
RelaysReady(x) ==
    /\ s[x].phase = "relays"
    /\ s' = [s EXCEPT ![x].phase = IF s[x].stop THEN "gone" ELSE "opening"]
    /\ UNCHANGED <<access, hs, inbox, spent>>

\* The channels are open: an attempt stopped meanwhile ends here, any other
\* listens, and the viewer makes its peer and announces itself.
Opened(x) ==
    /\ s[x].phase = "opening"
    /\ IF s[x].stop
       THEN s' = [s EXCEPT ![x].phase = "gone"] /\ UNCHANGED hs
       ELSE LET r == [s[x] EXCEPT !.phase = "running"]
            IN /\ s' = [s EXCEPT ![x] = IF IsHost(x) THEN r ELSE ResendAll(x, CreatePeer(r))]
               /\ hs' = [hs EXCEPT ![x] = HandshakeState(~IsHost(x), Static(x), Prologue)]
    /\ UNCHANGED <<access, inbox, spent>>

\* openSocket() fails, and there is no other channel.
OpenFailed(x) ==
    /\ s[x].phase = "opening" /\ Sole
    /\ s' = [s EXCEPT ![x].phase = "gone"]
    /\ UNCHANGED <<access, hs, inbox, spent>>

\* Stop or Cancel at any time: close() of Host or Viewer.
Stop(x) ==
    \/ /\ s[x].phase \in {"relays", "opening"}
       /\ ~s[x].stop
       /\ s' = [s EXCEPT ![x].stop = TRUE]
       /\ UNCHANGED <<access, hs, inbox, spent>>
    \/ /\ s[x].phase \in {"running", "live"}
       /\ Ends(x)

\* closeChannels(), some time after cleanup(): nothing arrives any more.  An
\* attempt whose peer was closed took nothing from them before either.
ChannelsClosed(x) ==
    /\ s[x].phase = "over" /\ ~s[x].shut
    /\ s' = [s EXCEPT ![x].phase = "gone"]
    /\ UNCHANGED <<access, hs, inbox, spent>>

\* Nothing can arrive at an attempt whose peer or whose channels are closed.
Deaf(x) == s[x].phase \in {"unused", "gone"} \/ s[x].shut

\* A process dies without a word, and what it remembered dies with it.  The
\* older attempts of a host have closed their channels by then: one that has
\* not can close them first, its death shows nobody anything else.
Crash(x) ==
    /\ ~Deaf(x)
    /\ IsHost(x) => \A h \in Hosts \ {x} : Deaf(h)
    /\ s' = [s EXCEPT ![x] = [ClosePeer(@) EXCEPT !.phase = "gone"]]
    /\ spent' = IF IsHost(x) THEN NoMemory ELSE spent
    /\ UNCHANGED <<access, hs, inbox>>

\* Remote access is switched off and on again, or its program ends and is
\* started again, with the same code: the attempt was stopped, and the new
\* controller begins with an empty Set.  An attempt from before keeps its own.
Forget ==
    /\ access
    /\ \A h \in Hosts : \/ s[h].phase \in {"unused", "over", "gone"}
                        \/ s[h].phase \in {"relays", "opening"} /\ s[h].stop
    /\ spent' = NoMemory
    /\ UNCHANGED <<access, s, hs, inbox>>

-----------------------------------------------------------------------------
(* Signalling.                                                              *)

\* The ICE agent has a description or a candidate to send: the viewer makes
\* the offer, the host answers one.  More than MaxLog signals are dropped.
Signal(x, kind) ==
    LET r == s[x] IN
    /\ r.peer # "none" /\ ~r.shut
    /\ IsHost(x) => r.described
    /\ Len(r.log) < MaxLog
    /\ kind = "sdp" => \A i \in DOMAIN r.log : r.log[i] # "sdp"
    /\ s' = [s EXCEPT ![x].log = Append(@, kind)]
    /\ UNCHANGED <<access, hs, inbox, spent>>

\* flushNew(), 40 ms after a new signal, or resendAll() every two seconds; the
\* first may still fall due when the attempt is over.
Speak(x) ==
    /\ s[x].phase \in {"running", "live", "over"}
    /\ s' = [s EXCEPT ![x] = ResendAll(x, @)]
    /\ UNCHANGED <<access, hs, inbox, spent>>

\* The part of y's log that a message brings is pending; what is now in
\* sequence goes to the peer.
TakeEntries(r, y, part) ==
    LET seen == r.pending \cup {n \in part : n >= r.nextRemote}
        upTo == CHOOSE k \in r.nextRemote .. MaxLog :
                   r.nextRemote .. k - 1 \subseteq seen /\ k \notin seen
        sigs == [i \in 1 .. upTo - r.nextRemote |->
                    [from |-> y, n |-> r.nextRemote + i - 1,
                     kind |-> s[y].log[r.nextRemote + i]]]
    IN [ApplySignals(r, sigs) EXCEPT !.nextRemote = upTo,
                                     !.pending = {n \in seen : n >= upTo}]

\* The listener has dealt with this session before, as far as it remembers.
IsSpent(x, y) == x \in spent.holders /\ y \in spent.partners

\* Mutant: a session is not remembered as spent.
LockPartnerUnspent(x, y, part) ==
    LET r == [s[x] EXCEPT !.partner = y]
        p == IF r.peer = "none" THEN CreatePeer(r) ELSE r
    IN /\ s[x].partner = None /\ ~IsSpent(x, y)
       /\ s' = [s EXCEPT ![x] = TakeEntries(ResendAll(x, p), y, part)]
       /\ UNCHANGED spent

\* onData() with nobody locked yet: this sender becomes the partner.  A Set
\* that no later attempt is handed need not be followed any further.
LockPartner(x, y, part) ==
    LET r == [s[x] EXCEPT !.partner = y]
        p == IF r.peer = "none" THEN CreatePeer(r) ELSE r
    IN /\ s[x].partner = None /\ ~IsSpent(x, y)
       /\ spent' = IF x \in spent.holders THEN [spent EXCEPT !.partners = @ \cup {y}] ELSE spent
       /\ s' = [s EXCEPT ![x] = TakeEntries(ResendAll(x, p), y, part)]

\* onData() from the partner.
HearPartner(x, y, part) ==
    /\ s[x].partner = y
    /\ s' = [s EXCEPT ![x] = TakeEntries(@, y, part)]
    /\ UNCHANGED spent

\* A stranger, and the partner was quiet for PARTNER_STALE_MS before ICE
\* connected: this attempt ends, the caller starts one for the newcomer.
\* Any other stranger, and a session that is spent, is ignored.
GiveWay(x, y) ==
    /\ IsHost(x) /\ s[x].partner \notin {None, y}
    /\ ~s[x].ice /\ s[x].peer # "secure"
    /\ s[x].phase = "running"
    /\ s' = [s EXCEPT ![x] = Finish(x, @)]
    /\ UNCHANGED spent

\* A message reaches x, running or closing its channels: any part of what y
\* has sent, as often as the channels please.
Receive(x) ==
    /\ s[x].phase \in {"running", "live", "over"} /\ ~s[x].shut
    /\ \E y \in Session : \E hi \in Audible(x, y) : \E lo \in 0 .. hi :
          LET part == lo .. hi - 1
          IN LockPartner(x, y, part) \/ HearPartner(x, y, part) \/ GiveWay(x, y)
    /\ UNCHANGED <<access, hs, inbox>>

\* sessionTimeoutMs: only the viewer limits how long it waits.
WaitTimeout(v) ==
    /\ s[v].phase = "running"
    /\ Ends(v)

\* The only channel fails before the session is secure.
ChannelFailed(x) ==
    /\ Sole /\ s[x].phase = "running" /\ s[x].peer # "secure"
    /\ Ends(x)

-----------------------------------------------------------------------------
(* ICE and the control channel.                                             *)

Connected(x, y) == s[x].partner = y /\ s[y].partner = x

\* ICE connects: signalling stops after one last full copy.
IceConnected(x) ==
    LET r == s[x] IN
    /\ ~r.ice /\ ~r.shut /\ r.described
    /\ Connected(x, r.partner) /\ s[r.partner].described /\ ~s[r.partner].shut
    /\ s' = [s EXCEPT ![x] = [ResendAll(x, r) EXCEPT !.ice = TRUE]]
    /\ UNCHANGED <<access, hs, inbox, spent>>

\* ICE gives up, at any time.
IceFailed(x) ==
    /\ s[x].described /\ ~s[x].shut
    /\ Ends(x)

Noise(msg) == [t |-> "noise", msg |-> msg]
Consent(ok) == [t |-> "consent", ok |-> ok]

Deliver(x, m) == [inbox EXCEPT ![x] = Append(@, m)]
Reply(x, y, m) == LET rest == [inbox EXCEPT ![x] = Tail(@)] IN [rest EXCEPT ![y] = Append(@, m)]

\* The control channel opens; the initiator speaks first.
CtlOpen(x) ==
    LET r == s[x] IN
    /\ r.ctl = "none" /\ ~r.shut /\ r.ice
    /\ Connected(x, r.partner) /\ s[r.partner].ice
    /\ s' = [s EXCEPT ![x] = [SetPeerState(r, "handshaking") EXCEPT !.ctl = "open"]]
    /\ IF IsHost(x) THEN UNCHANGED <<hs, inbox>>
       ELSE LET w == WriteFirst(hs[x], Ephemeral(x))
            IN hs' = [hs EXCEPT ![x] = w.hs] /\ inbox' = Deliver(r.partner, Noise(w.msg))
    /\ UNCHANGED <<access, spent>>

PartnerLeft(x) == s[x].ctl = "open" /\ ~s[x].shut /\ s[s[x].partner].shut

\* Mutant: the close is ignored when ICE has reported it first.
CtlClosedUnlessKnown(x) == PartnerLeft(x) /\ s[x].peer # "closed" /\ Ends(x)

\* The channel closes under the peer, because the other end closed its own.
CtlClosed(x) == PartnerLeft(x) /\ Ends(x)

\* The ICE agent reports 'closed' before the channel does: only the state
\* changes, nobody is told.
IceClosed(x) ==
    /\ PartnerLeft(x)
    /\ s' = [s EXCEPT ![x] = SetPeerState(@, "closed")]
    /\ UNCHANGED <<access, hs, inbox, spent>>

\* Mutant: the timer starts with the control channel.
HandshakeTimeoutOnceOpen(x) ==
    /\ s[x].ctl = "open" /\ ~s[x].shut /\ ~hs[x].done
    /\ Ends(x)

\* The handshake takes longer than HANDSHAKE_TIMEOUT_MS.  Completing it
\* switches the timer off.
HandshakeTimeout(x) ==
    /\ s[x].peer # "none" /\ ~s[x].shut /\ ~hs[x].done
    /\ Ends(x)

-----------------------------------------------------------------------------
(* Handshake, consent, and the verdict.                                     *)

HeadFor(x, t) == /\ s[x].ctl = "open" /\ ~s[x].shut
                 /\ inbox[x] # <<>> /\ Head(inbox[x]).t = t

\* A message that cannot be read fails the peer.
Unreadable(x) ==
    /\ s' = [s EXCEPT ![x] = Finish(x, @)]
    /\ inbox' = [inbox EXCEPT ![x] = Tail(@)]
    /\ UNCHANGED hs

\* The responder reads message 1 and writes message 2.
AnswerFirst(h) ==
    /\ HeadFor(h, "noise") /\ hs[h].step = 0
    /\ LET r == ReadFirst(hs[h], Head(inbox[h]).msg)
           w == WriteSecond(r.hs, Ephemeral(h))
       IN IF ~r.ok THEN Unreadable(h)
          ELSE /\ hs' = [hs EXCEPT ![h] = w.hs]
               /\ inbox' = Reply(h, s[h].partner, Noise(w.msg))
               /\ UNCHANGED s
    /\ UNCHANGED <<access, spent>>

\* The initiator reads message 2, writes message 3 and awaits the verdict.
AnswerSecond(v) ==
    /\ HeadFor(v, "noise") /\ hs[v].step = 1
    /\ LET r == ReadSecond(hs[v], Head(inbox[v]).msg)
           w == WriteThird(r.hs)
       IN IF ~r.ok THEN Unreadable(v)
          ELSE /\ hs' = [hs EXCEPT ![v] = w.hs]
               /\ inbox' = Reply(v, s[v].partner, Noise(w.msg))
               /\ s' = [s EXCEPT ![v] = SetPeerState(@, "awaiting")]
    /\ UNCHANGED <<access, spent>>

\* The responder reads message 3 and asks its owner.
AskOwner(h) ==
    /\ HeadFor(h, "noise") /\ hs[h].step = 2
    /\ LET r == ReadThird(hs[h], Head(inbox[h]).msg)
       IN IF ~r.ok THEN Unreadable(h)
          ELSE /\ hs' = [hs EXCEPT ![h] = r.hs]
               /\ inbox' = [inbox EXCEPT ![h] = Tail(@)]
               /\ s' = [s EXCEPT ![h] = [SetPeerState(@, "awaiting") EXCEPT !.verdict = "asked"]]
    /\ UNCHANGED <<access, spent>>

\* The owner allows it: the verdict goes out and the session is live.  When
\* the peer was closed meanwhile, sending throws and nothing else happens.
Allow(h) ==
    /\ s[h].verdict = "asked"
    /\ IF s[h].shut
       THEN s' = [s EXCEPT ![h].verdict = "late"] /\ UNCHANGED inbox
       ELSE /\ s' = [s EXCEPT ![h] = [Secure(h, @) EXCEPT !.verdict = "yes"]]
            /\ inbox' = Deliver(s[h].partner, Consent(TRUE))
    /\ UNCHANGED <<access, hs, spent>>

\* The owner refuses, or does not answer in time: the viewer is told, and the
\* attempt ends with the same turn.
Refuse(h) ==
    /\ s[h].verdict = "asked"
    /\ s' = [s EXCEPT ![h] = [Finish(h, @) EXCEPT !.verdict = "no"]]
    /\ inbox' = IF s[h].shut THEN inbox ELSE Deliver(s[h].partner, Consent(FALSE))
    /\ UNCHANGED <<access, hs, spent>>

\* The verdict arrives.
HearVerdict(v) ==
    /\ HeadFor(v, "consent")
    /\ s' = [s EXCEPT ![v] = IF Head(inbox[v]).ok THEN Secure(v, @) ELSE Finish(v, @)]
    /\ inbox' = [inbox EXCEPT ![v] = Tail(@)]
    /\ UNCHANGED <<access, hs, spent>>

-----------------------------------------------------------------------------
Callbacks(x) == \/ \E kind \in Kinds : Signal(x, kind)
                \/ Speak(x) \/ Receive(x) \/ ChannelFailed(x)
                \/ IceConnected(x) \/ IceFailed(x) \/ IceClosed(x)
                \/ CtlOpen(x) \/ CtlClosed(x) \/ HandshakeTimeout(x)

Next ==
    \/ Forget
    \/ \E x \in Session : \/ Start(x) \/ RelaysReady(x) \/ Opened(x) \/ OpenFailed(x)
                          \/ Stop(x) \/ ChannelsClosed(x) \/ Crash(x) \/ Callbacks(x)
    \/ \E v \in Viewers : WaitTimeout(v) \/ AnswerSecond(v) \/ HearVerdict(v)
    \/ \E h \in Hosts : AnswerFirst(h) \/ AskOwner(h) \/ Allow(h) \/ Refuse(h)

Spec == Init /\ [][Next]_vars

-----------------------------------------------------------------------------
(* Properties.                                                              *)

\* Every variable keeps its type.
TypeOK ==
    /\ access \in BOOLEAN
    /\ s \in [Session -> [phase : Phases, stop : BOOLEAN, partner : Session \cup {None},
                           log : Seq(Kinds), toAll : 0 .. MaxLog + 1, toPartner : 0 .. MaxLog + 1,
                           nextRemote : 0 .. MaxLog, pending : SUBSET Seqs,
                           ice : BOOLEAN, peer : PeerStates, shut : BOOLEAN,
                           described : BOOLEAN, queued : Seq(Entry), applied : Seq(Entry),
                           ctl : {"none", "open", "closed"}, verdict : Verdicts]]
    /\ spent \in [partners : SUBSET Viewers, holders : SUBSET Hosts]

\* A session the viewer holds live was allowed by the owner of the host
\* session it talks to; the four words agree, what one end sends with the
\* other receives with, and each end knows who the other is.
SecureMeansAgreed ==
    \A v \in Viewers : s[v].phase = "live" =>
        LET h == s[v].partner
        IN /\ s[h].partner = v /\ s[h].verdict = "yes"
           /\ DeriveSAS(hs[v]) = DeriveSAS(hs[h])
           /\ Split(hs[v]).send = Split(hs[h]).recv
           /\ Split(hs[v]).recv = Split(hs[h]).send
           /\ hs[v].rs = Static(h) /\ hs[h].rs = Static(v)

\* With an access code, one viewer session occupies at most one of the
\* attempts that share a memory, those over but still listening included.
\* Across a loss of the memory nothing keeps it from occupying another.
SpentOnce ==
    \A h1, h2 \in spent.holders : s[h1].partner = s[h2].partner /\ s[h1].partner # None => h1 = h2

\* What the ICE agent was given is the partner's log, as far as it came in
\* sequence: the description before every candidate, the candidates in their
\* order, each once, from nobody else.
AppliedInOrder ==
    \A x \in Session :
        LET r == s[x]
            all == r.applied \o r.queued
        IN /\ r.applied # <<>> => r.applied[1].kind = "sdp"
           /\ r.described => r.queued = <<>>
           /\ \A i \in DOMAIN all : all[i].from = r.partner
           /\ \A i, j \in DOMAIN all :
                 i < j => all[i].n # all[j].n /\ (all[i].kind = "candidate" => all[i].n < all[j].n)
           /\ ~r.shut => {all[i].n : i \in DOMAIN all} = 0 .. r.nextRemote - 1

-----------------------------------------------------------------------------
(* The promise this implements.                                             *)

stage == [x \in Session |->
             IF s[x].phase = "unused" THEN "idle"
             ELSE IF s[x].phase \in {"relays", "opening", "running"} THEN "trying"
             ELSE IF s[x].phase = "live" THEN "live" ELSE "over"]

admitted == {p \in Hosts \X Viewers : s[p[1]].verdict = "yes" /\ s[p[1]].partner = p[2]}

Admission == INSTANCE Admission

\* Every step is a step the invitation promises, or is not visible there: in
\* particular no owner is asked for an attempt that is over and admits to it,
\* whatever still arrives on channels that have not closed yet, and nobody
\* goes live unasked.
Promise == Admission!Spec

-----------------------------------------------------------------------------
(* Liveness.  Timers fire, calls that were started return, and the control  *)
(* channel delivers what it carries, its close included.  Nobody has to     *)
(* answer the owner's prompt, press anything, or connect: neither ICE nor   *)
(* signalling is fair.                                                      *)

Fairness ==
    /\ \A x \in Session : /\ WF_vars(RelaysReady(x)) /\ WF_vars(Opened(x))
                          /\ WF_vars(HandshakeTimeout(x)) /\ WF_vars(CtlClosed(x))
    /\ \A v \in Viewers : WF_vars(WaitTimeout(v)) /\ WF_vars(HearVerdict(v))

FairSpec == Spec /\ Fairness

\* An attempt that was stopped, or has somebody to talk to, settles: it ends
\* or goes live, even when the other end has vanished without a word or the
\* owner never answers.
Settles ==
    \A x \in Session : s[x].stop \/ s[x].peer # "none"
                         ~> s[x].phase \in {"live", "gone"} \/ s[x].shut

\* No half-open session: when one end is live, the other becomes live too or
\* the one ends.
NoHalfOpen ==
    \A x \in Session : s[x].phase = "live"
                         ~> \/ s[x].phase # "live"
                            \/ s[s[x].partner].phase = "live"
=============================================================================
