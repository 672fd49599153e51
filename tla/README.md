# penguin-stream: verification project

TLA+ models of penguin-stream (peer-to-peer remote desktop: Node for sessions and
transport, a C++ engine for capture and display, an Electron shell), the TLC
configurations that check them, and TLAPS proofs of what matters most. Paths
below are relative to the repository; `PROJECT.json` maps every definition to
the lines it stands for.

## 1. Inventory

| Component | Source | State | Operations | Talks to |
|---|---|---|---|---|
| Session controller | `node/src/ui/server.mjs` | mode, the one `active` slot, share, viewer retry, `remote` with its listener, timers, pending consent | HTTP requests of the control page, events of Host/Viewer, timers | page (server-sent events), session roles, settings, desktop shell (keep-awake) |
| Session roles | `node/src/app/session.mjs` | engine, chunker or reassembler, adaptive bitrate, clock sync, rate limits for keyframes | events of engine and peer, timers | peer, engine, controller |
| Peer connection | `node/src/transport/peer.mjs` | handshake step, state (new … secure, closed), pending ICE candidates | channel callbacks, consent gate, timeouts | signalling, record layer, roles |
| Record layer | `node/src/crypto/session.mjs` | send counter, control counter, replay window | `seal`, `open` | peer |
| Frame chunking | `node/src/media/chunker.mjs` | frame number; partial frames, sweep, statistics | `split`, `push`, `acknowledgeKeyframe` | roles, record layer |
| Signalling | `node/src/signal/*.mjs` | rooms and queues; retries; relays of Nostr | connect, send, receive, expire | peer, controller |
| Handshake cryptography | `node/src/crypto/noise.mjs`, `sas.mjs` | handshake step and keys | read/write message, split | peer |
| Identity, trust, settings | `crypto/identity.mjs`, `app/settings.mjs` | JSON files | load, merge, save | controller |
| Media engine supervision | `node/src/media/engine.mjs` | child process, queue of its pipe, parser buffer | start, stop, `sendVideo`, messages | roles, native engine |
| Native engine | `media/src` | capture buffers, encoder, decoder, window, held keys | capture loop, decode loop, input injection | engine supervision |
| Audio, input, latency | `media/audio.mjs`, `media/input.mjs`, `app/latency.mjs` | jitter buffer, pressed keys, clock offset, queue delay | samples and events | roles |
| TURN relay | `turn/src` | allocations, permissions, channels, nonces | STUN/TURN requests, expiry | peers' ICE agents |
| Desktop shell, page, CLI | `desktop/main.mjs`, `ui/public/app.js`, `cli.mjs` | windows | user actions | controller |

**What is hard.** The controller is single threaded, but most of its handlers
`await` (options, consent, closing instances), and three features with their own
timers compete for one slot: what was read before an `await` is stale after it,
and an event of an instance may arrive after that instance was replaced. The two
data channels of a connection share one sequence of record numbers, yet one is
reliable and the other loses and reorders. Video recovers from loss by a
conversation of four parties (reassembler, viewer, host, encoder) in which each
one rate-limits, coalesces or acknowledges on behalf of the others. Before all
that, two ends must find each other over public relays that lose, delay, repeat and
reorder, while people start, stop and start again, and both must end up with the
same idea of whether they are connected. Around it run services with timers of
their own: relays that bind sockets asynchronously, rooms whose sockets close late,
child processes that do not end when asked, files that several processes write.

**What makes each component correct.** Controller: whatever runs is owned, and
what was switched on keeps going. Connection: nobody goes live unasked, both ends of
a live session agree on who the other is, and every attempt that has somebody to
talk to ends or goes live. Record layer: control complete and in order, media at
most once. Reassembly and keyframes: frames forwards only, every loss accounted for,
skipping ends. TURN: sockets and channels are never lost or shared. Rendezvous: a room
and its sockets agree. Nostr channel: no relay is given up. Media session: all of it ends
when one part does, as long as its programs run; nothing stays held down, the viewer is
told what it may do.
Bitrate: it recovers. Identity: one for all processes. `PROJECT.json` lists the hazards
with the lines where they bite.

## 2. Plan

1. `SessionController`: done, every safety property proved.
2. `AuthenticatedChannel` (what the roles may assume of a connection) and
   `RecordLayer`, shown to implement it: done, refinement proved.
3. `Reassembler` on top of what the media lane promises: done, every safety property
   proved.
4. `KeyframeRecovery` (host, viewer, stream window, encoder): done.
5. `Admission` (what an invitation promises) and `Connection` with `NoiseXX`, shown to
   implement it: done, refinement and every safety property proved.
6. `TurnServer`, `Rendezvous`, `NostrChannel`: done, safety proved.
7. `MediaSession` and `AdaptiveBitrate`: done, safety proved.
8. `Storage`: identity proved; its pairings are finding 5.
9. Left: the message parser of the engine's pipe, clock and queue delay estimates,
   the merge of settings, `prepareRemote` of the controller.

`MCServices` runs the services of 6 to 8 next to each other; each has its own
specification, and the modules share no variable. Modules that are proved about use no
recursive operators, one action per operation, and invariants that are conjunctions of
named parts.

## 3. Modules

### SessionController

One variable `st` holds the closure variables of `startUi`; a handler is an
operator from states to states, composed as the code composes its calls
(`EndSession`, `LaunchHost`, `ArmRemote`, `FinishRemoteLive` and so on), and an
action is one turn of the event loop. A handler that awaits is split where
another turn can come in between: `StartHostBegin`/`StartHostLoaded` around the
listing of monitors, `EnableRemoteBegin`/`EnableRemoteReady` around the set-up of
remote access, `ArmRemote`/`ArmLoaded` around the loading of options.
`Host`, `Viewer` and access listeners are identities from a finite pool `Inst`
with a phase; a closed one may still call back until it is forgotten, which is
what the code's epoch and identity checks are for.

Abstractions: a delay is a timer that fires at some later step. Approval and
"secure", and refusal and the rejection of `start()`, are microtasks of one turn
and are merged. Closing with a notice takes up to 150 ms
(`session.mjs`, `Host.close`) and counts as closed. The generation counter is
subsumed by instance identity. `prepareRemote` and custom codes are left out.

### AuthenticatedChannel and RecordLayer

`AuthenticatedChannel` promises: control records arrive complete and in order,
media records at most once and in any order, nothing after a failure.
`RecordLayer` is `SecureSession` in one direction: `SealRecord` takes numbers from
the one counter both lanes share, `open` on the control lane requires rising
numbers, on the media lane consults the replay window (`Fresh`), which is swept
in batches (`Slack`). A record is its number and kind; a damaged record is one
whose tag check fails. `MaxSeq` stands for 2^64-1. Only control records already
delivered are repeated, since SCTP neither forges nor reorders. `mediaGot` counts what
`open` returned; the peer may still drop media while the consent is on its way.

### Reassembler

`Chunker.split` and `Reassembler.push` with everything it calls: `NoteSeen`
(sweep over numbers, resync), `Expired`/`Settle`, refusal of outdated chunks,
completion. The media lane hands over no chunk twice (previous module), and chunks
come from a `Chunker`, so the branches for duplicate, malformed and contradictory
chunks cannot be reached. Payload, capture time and key flag are left out.

### KeyframeRecovery

Frames are keyframes or deltas; clocks and queues are reduced to the thresholds
the code compares them with (100, 200, 250 ms; half the budget, the budget;
a quarter of `VIEW_QUEUE_LIMIT`, the limit). `Encode` is the engine's frame and
the host's video handler, `Deliver` the whole viewer handler (reassembler verdict,
request, window), `AnswerRequest`/`CoalesceRequest` the host's control handler,
`Complain` the decoder's report. `force` stands for `forceKeyframe_` and a request on
its way through the engine's pipe. Frames arrive in order or not at all, since
reordering is `Reassembler`'s subject. Intra refresh is off: it only heals earlier.
`needsKeyframe` is no variable: the handler that finds it set clears it on both
branches, so the poll of once a second never finds it set on a secure connection.

### Connection, NoiseXX and Admission

`Connection` is one invitation or access code from the first signal to the end:
`run()` of `signal/client.mjs`, `Peer`, and `start()`/`close()` of `Host` and `Viewer`. A
session is one attempt with its run and its peer; `s[x]` holds what their closures and
fields hold. `Signal` appends to the log, `Speak` resends it, `Receive` is `onMessage`
with the partner lock, spent partners, giving way and `nextRemote`; `ApplySignals` is
`applySignal` with its queue of candidates. Once both ends have a description ICE may
connect, and `inbox` is the reliable control channel, which carries the handshake
(`CtlOpen`, `AnswerFirst`, `AnswerSecond`, `AskOwner`) and the verdict (`Allow`,
`Refuse`, `HearVerdict`). `Stop`, `Crash`, `IceFailed`, `CtlClosed` and the time-outs end
an attempt in the places the code checks, including while the channel is opening;
`ChannelsClosed` is when its channels deliver no more.

`spent` is the `Set` of spent partners a listener hands to each of its attempts: the
sessions in it, and the attempts that hold it. It exists only in memory
(`ui/server.mjs:469`). `Forget` (remote access switched off and on with the same code, or
a restart) and a host's `Crash` therefore put an empty one in its place, which the
attempts from before do not hold. `SpentOnce` speaks of attempts that hold the same one;
what a loss allows is finding 6.
`NoiseXX` computes the handshake symbolically: two hashes or keys are equal exactly when
the same things were mixed in the same order. `Admission` knows only attempts and whom
the owner admitted.

Abstractions: what is on the air is how far each log has been sent, to everybody and to
the partner, since channels may deliver any part at any time and again. Whether a partner
is stale (`PARTNER_STALE_MS`) is left open. A closed peer forgets what it was given. The
512 spent partners never overflow, and an attempt that has outlived its memory adds to a
`Set` nobody is handed again, which is not followed. The signals' clock is left out: it
limits repetition to ten minutes either way, and the model repeats for as long as it likes.
The media lane is the record layer's subject.

The model keeps behaviour that may surprise. The timer from first contact to secure is
documented as covering the consent prompt (`client.mjs:46`), but the handshake's
completion clears it (`peer.mjs:282`): it is the viewer's session time-out that bounds
the prompt. And a host whose attempt ended may still answer what arrives on a
channel that has not closed; `Promise` says that this admits nobody.

### TurnServer, Rendezvous, NostrChannel

`TurnServer` has one action per request (`Allocate`, `Refresh`, `CreatePermission`,
`ChannelBind`, `Send`, channel data; `TooLate` for any of them that finds its allocation
expired), the callbacks of `bind()` (`Bound`, `BindFails`), packets from peers, the sweep
and `close()`.
Time is counted in periods of five minutes, and what has none left has expired whether it
was swept or not. A retransmitted Allocate is answered 437, although the comment at
`turn/src/server.mjs:309` reserves that for a different transaction.

`Rendezvous` has the rooms, the roles, `ROOM_TTL_MS`, the limit on failed joins and the
server's closing of sockets, which go on delivering until their close event. A late close
event closes whatever room has the id that socket once took, a newer room of others
included (`server.mjs:157`); the property says that even so nobody is left open outside a
room or in a room that is gone. A host that waits longer than the
lifetime of a room loses it.

`NostrChannel` is each relay's socket, ping, retry timer and subscription. A relay that
answers `CLOSED`, or whose address the `WebSocket` constructor refuses, is not
tried again on that channel, and a notice of the last `bye` may not leave in time when the
channels close (`closeChannels`). Back-off only changes delays and is left out.

### MediaSession, AdaptiveBitrate

`MediaSession` is a session from secure to its end: the capture engine, the sound and the
stream window as processes that heed their stdin, TERM or only KILL, the start timer, the
150 ms for the notice, both sides' `close`, and control (one permission, one key) from the
host's `setPermissions` over the engine's stdin to the viewer's title bar. The engine's
answers are heard at once; stdin and exits take their time.

The timers that say TERM (after 1 or 1.5 s) and KILL (3.5 s) are `unref`'d
(`engine.mjs:327-330`, `478-481`) and die with their program. `ProgramExits` lets the program
of a side that has closed exit at any time: the command line exits within about a second of
`closed` (`cli.mjs:150`, `253`, `peer.mjs:537`), the local UI and the desktop shell within 1.5 s
of being told to quit (`ui/server.mjs:1190-1192`, `desktop/main.mjs:276-277`). From then on
nothing of that side happens any more, `Escalate` included, and `EndsTogether` excepts the
processes that had not been told what they heed (`LeftBehind`, finding 7). A capture that
has not come up reads neither stdin nor TERM, so it is left behind too; if it comes up after
all it ends, since nobody reads its config (`main.cpp:764`). A program that dies before it has
closed is not modelled here.

The 150 ms from the start timer to the close are not cancelled by a config that arrives within
them (`session.mjs:259-270`): the session then ends although its capture has started, which the
model shows and no property forbids. A process that cannot be
spawned (`failed`) reports `error` without `exit` (`engine.mjs:236`), which ends nothing.

`AdaptiveBitrate` is `tick` with its verdicts, episodes, remembered capacity and growing
steps, `setMax` and `setAdaptive`, in units of 100 kbit/s and ticks of 250 ms. `setMax`
lowers the floor for good when the ceiling goes below it. What is left out: a single loss
in a tick counts as none, and losses between the last report and the viewer's reset of
its counters once a second (`session.mjs:756`) are never reported.

### Storage

Processes of one installation, each of which may die between any two steps. `Begin`,
`Create`, `WriteIdentity` are `loadOrCreateIdentity` (look, open with `wx`, write); a crash
in between leaves an empty file, on which every later start throws. `Share` loads the
pairings for a Host, `Begin` those of the page or command; `Pair`, `Unpair` and `Rename`
are `save()`. The temporary file is written in one step; disk failures, labels and
dates are left out. `PairingSurvives` is stated here and does not hold (finding 5).

## 4. Runs

| Run | Shows | Bounds |
|---|---|---|
| `controller_safety` | ownership, consent, codes, settings, pause and lending over all features together | 3 instances, 2 remote objects, 1 device |
| `controller_no_remote` | without remote access and unparsable requests, a share and a reconnect keep going; mode and keep-awake tell the truth | 3 instances, 2 devices |
| `controller_remote_liveness` | remote access listens again once settings are left alone | 3 instances |
| `controller_share_stalls` | *violation*: a share loses its timer to a remote session (finding 1) | 3 instances |
| `controller_reconnect_stalls` | *violation*: so does a reconnecting viewer (finding 2) | 3 instances |
| `record_layer` | window, lanes, and refinement of `AuthenticatedChannel` | 7 numbers, window 2, slack 1 |
| `reassembler` | forward only, bounded waiting, no false alarm, every lost frame leaves a trace | 5 frames of 1 or 2 chunks, depth 2 |
| `reassembler_overtaken` | *violation*: a frame overtaken by a newer one vanishes uncounted (finding 3) | 6 frames of 1 chunk, depth 3 |
| `keyframe_recovery` | skipping ends, full queues never corrupt, reported corruption heals | 2 frames and 1 request under way, 2 losses, depth 1 |
| `keyframe_uncovered` | *violation*: a lost answer is acknowledged as covered (finding 4) | the same |
| `connection` | agreement of both ends, spent partners and the loss of their memory, signals in order, refinement of `Admission`, attempts settle, no half-open session | one host and viewer with 2 signals each; 2 host attempts and 1 viewer, 1 host and 2 viewers with 1 signal each |
| `services` | TURN channels and sockets, rooms, retries of relays, ends (with programs that exit) and held keys of a media session, bitrate recovery, one identity | see below |

**Why the bounds suffice.** Controller: at most two instances are open at once
(active and listener) and a third is the old one that still calls back; two
remote objects allow "switched off and on while options load"; a second device
matters only for who was allowed, which `controller_no_remote` covers.
Record layer: seven numbers pass a window of two and slack of one several times,
with sweeps before, at and after the edge. Reassembler: five frames at depth two
reach expiry, a sweep of unseen numbers and a resync; six frames were checked once
and took long without showing more. Keyframes: two losses are a frame and the
keyframe that answers it. Connection: one signal more than a description lets a candidate
overtake it; a second host attempt meets signals of the first one's viewer, a second
viewer meets a host that is locked to the first; only the instance with two host attempts
loses the memory of spent partners, since only a second attempt could notice. Two hosts and two viewers together only
combine these and do not finish. Services, one per behaviour: three clients compete for two
of three relay sockets, or one relays under two channels to two peers with two users;
three WebSockets take two rooms as host, client and latecomer, with the limit of
failures at two; three relays, one of them refused; at most one child process that does
not heed its stdin, programs that exit while such a process runs (another one heeds the word
it was told before), and at most two messages waiting; ceilings of 1.5 and 3 Mbit/s
with the floor at 1.5; two processes and one device.

**Fairness.** Safety needs none. The controller's `FairSpec`: awaited options
arrive, timers fire, closed instances call back for the last time; users and
remote viewers may do nothing. Strong fairness of `ArmLoaded` is only due to the
finite pool of identities. Keyframes: the capture repeats the last image of a still
screen, so frames keep coming (`portal_pipewire.cpp:206`, `windows_dxgi.cpp:372`);
queues drain, time passes, frames that are not lost arrive. Neither spontaneous
keyframes nor decoder reports are assumed: the fair part of `Encode` is
`Encode(force)`, and `HealsIfReported` has the reports as its premise. Connection: timers
fire, calls that were started return, the control channel delivers what it carries and
its close; neither signalling nor ICE is fair, and nobody has to answer a prompt.
Services (`NcFairness`, `MediaFairness`, `AbrFairness`): timers fire as long as their program
runs, close events and exits arrive, a process obeys the word it heeds once it is said and
reads its stdin, each end hears that the other has gone. No program has to keep running: its
exit disables its timers. That a link stays clear or that a relay
answers is a premise, not fairness.
Deadlock is not checked: a controller that was shut down, a sequence that is used
up, a stream of bounded length or a service that was closed may stop.

## 5. Findings

1. `controller_share_stalls`: the share's re-arm timer fires during a remote
   session, `launchHost` returns at its guard, and the end of the session only
   resumes a *paused* share. The share stays on with nothing running; the mode keeps
   saying `hosting-live`.
2. `controller_reconnect_stalls`: the same for the viewer's retry timer. A third way
   there needs no remote access: a request to view with an invitation that cannot
   be parsed drops the pending retry before it throws (`server.mjs:780`); the mode
   stays `reconnecting`. That request (`badcode`) is part of `controller_safety` and
   left out of `controller_no_remote`: with `Features` set to `{"view", "badcode"}` TLC
   refutes both `ReconnectKeepsTrying` and `ModeTellsTheTruth`, so neither covers it.
3. `reassembler_overtaken`: a frame whose first chunk arrives after a newer frame
   completed is noted as seen, then refused. It is never emitted, never counted lost
   and asks for no keyframe.
4. `keyframe_uncovered`: the keyframe that answers a request is lost. Its loss is
   noticed within the waiting time, nothing is sent, `needsKeyframe` is cleared, and no
   later frame or poll asks again. The same happens to a loss within 100 ms of a
   request whose keyframe has already come, and to a request the host drops because its
   last answer is less than 200 ms old.

5. Without a run of its own: `peers.json` is saved whole from the list each holder loaded.
   The control page loads its list at its start (`ui/server.mjs:65`), each Host its own
   (`session.mjs:132`). Pair d2, restart, share and pair d1, then revoke d2 on
   the page (`ui/server.mjs:1085`): the page's list, which never held d1, is saved over
   the file, and d1 must enter a code again, while `identity.mjs:6` promises that a paired
   peer never has to and `crypto.test.mjs:258` that trust survives a restart. TLC refutes
   `PairingSurvives` on `Storage` with one process and two devices; two processes that
   share the temporary file's name lose pairings in a second way. For the same
   reason the page does not list a new pairing until it is restarted.

6. Without a run of its own: the memory of spent partners does not outlive its program, nor
   remote access being switched off and on (`ui/server.mjs:466-470`, `482-485`, `1168-1170`). The
   access code does. Signals of a session that is over, repeated within the ten minutes their
   clock allows, then occupy the next listener once more, until its handshake timer or a
   newcomer ends that attempt; nobody is let in (`Promise`, `SecureMeansAgreed`).
   `remote-access-signaling.test.mjs:162` shows the effect without the memory. `CHANGELOG.md:22-23`
   and `SECURITY.md:61-63` say without that exception that a captured signal cannot be
   replayed.

7. Without a run of its own: a stream window or capture that heeds only a signal is left running
   when its program exits before the timer of that signal fires (section 3). The comments
   at `engine.mjs:318` ("we never leak a capture process") and `475-476`, and `CHANGELOG.md:88-89`
   ("it now gets SIGKILL after 3.5 s"), say it is not; `lifecycle.test.mjs:21` keeps its program
   running. TLC refutes `EndsTogether` without the exception of `LeftBehind`.

## 6. Proofs

All theorems hold for every value of the constants under the named assumptions
(`ControllerAssumption`, `RecordAssumption`, `ReassemblerAssumption`,
`KeyframeAssumption`, `ConnectionAssumption`, `TurnAssumption`, `RendezvousAssumption`,
`StorageAssumption`, `AbrAssumption`), which TLC evaluates in the runs.

* `SessionControllerProofs`: every safety property of the controller. Each handler
  operator has lemmas, which the lemmas of the actions compose as the code does. There
  are three invariants, each inductive relative to the ones before it.
  * `Good` (`TypeCorrect`, `NothingRunsUnowned`, `PausedShareHasABorrower`): `State`
    membership, `Owned` (every open instance is the active one or the listener), `Lent`
    (a paused share lends to a remote session, and sharing excludes viewing) and `Asked`
    (the prompt concerns the active host). `Owned` alone is not inductive: whether
    `launchHost` may overwrite the slot depends on who else may hold it, hence on `Lent`.
  * `Calm` (`ConsentConcernsWhatIsShown`, `RemoteIsAlwaysHeard`, `ListenerPausesForOthers`,
    `ReplacedCodesLetNobodyIn`, `ListenerIsNeverStale`, `EveryGuestWasAllowed`, and the
    action property `RemoteTakesOnlyAWaitingShare`): what a session looks like from
    outside. Handlers break parts of it on their way (the mode is set before
    or after the slot, the listener is armed last), so it is layered: `Kept`, which every
    operator keeps (`Alone`, `Listed`, `Resting`); `Steady`, which adds `Shown`, `Keyed`
    and `Aside` and waits for the mode; and `Heard`, which waits for `armRemote`. `Resting`
    carries the least obvious fact: a load of the settings that has become stale is
    always marked to be repeated (`loadStale => dirty`).
  * `Local` (`SharesGoOn`, `ReconnectingMeansTrying`, `ModeIsTrue`): sharing and viewing
    go on. These theorems assume `"remote" \notin Features`, the last two also
    `"badcode" \notin Features`: the instance of the run `controller_no_remote`. This is
    no convenience: findings 1 and 2 are behaviours with remote access that
    violate the first two, and a code that cannot be parsed leaves the mode on
    "reconnecting" with nobody trying.
* `RecordLayerProofs`: `LateRecordsAreHarmless`, `SweepingIsSafe`,
  `ReorderingIsNotReplay`, and `KeepsPromise`, the refinement. The invariant ties
  the window to what was delivered (`WindowInStep`) and the control counter to
  the order of sending.
* `ReassemblerProofs`: `NeverBackwards`, `PartialFramesGoAway`, `MildReorderingIsNoLoss`
  from an invariant that relates the sweep, the newest number seen and what was emitted;
  `NoFrameVanishes` from a second one, `Trail`: every frame *seen* has a trace (`Traced`), not
  only those the sweep has passed, and the sweep starts no later than the first frame.
* `KeyframeRecoveryProofs`: `HostSendsWholeChains`, `FullQueuesAreHarmless`. The
  invariant: the host skips exactly while a frame is missing since its last
  keyframe, nothing torn is on the wire, and a decoder with a gap that no loss
  explains sits behind a window that skips (`Shielded`).

* `ConnectionProofs`: `OccupiedOnce`, and `KeepsPromise`, the refinement of `Admission`.
  The invariant `AdmissionInv` follows an attempt's signals and messages to what the owner
  decided: a host without a partner, or over before it had one, has said nothing and
  nobody is locked to it (`Mute`); prompt, verdict and phase of a host go together
  (`HostInv`); a "yes" on its way comes from a host that allowed that viewer (`Told`); a
  partner of an attempt that holds the listener's memory is in it (`Spending`, which a loss of
  the memory keeps, since no attempt from before holds the new one). `OccupiedOnce` is about
  attempts that share a memory, and no more is true (finding 6). The refinement alone is not
  inductive: that a viewer enters only where it was admitted rests on `inbox`, and that
  a late answer admits nobody on what a host that is over can still hear.
  `LiveMeansAgreed` adds `AgreementInv`: each handshake of two attempts that are each
  other's partner is at a step of one exchange between them (`First`, `Second`, `Third`,
  `Heard`), and each message in an inbox is the one its receiver is meant to read
  (`Meant`); so equal words and keys are computed from equal transcripts (`PairAgrees`).
  `SignalsInOrder` adds `OrderInv`: an agent has the first `nextRemote` entries of its
  partner's log, all applied with the description first, or all queued (`Given`), and
  nothing was ever sent beyond the end of a log (`Logged`). That the loop of `onData`
  stops is the well-ordering of the numbers not yet seen (`Least`).
* `TurnServerProofs`: `ChannelsStayPaired`, `NoSocketIsLost` from `RelayInv`. Open
  sockets are exactly those held by an allocation or reserved by a pending bind, each by
  one (`HeldExactly`, `OneOwner`), so counting both in the guard bounds them.
* `RendezvousProofs`: `RoomsAreSound`. The invariant is the
  property without the last signal (a fact about one step), and that a socket with a room
  has a role.
* `ServiceProofs`, for the services whose other half is liveness:
  * `OneForAll` (`Storage`): at most one process is about to write the file, which is then
    empty, and whoever goes by an identity goes by the one in the file.
  * `NoRelayIsForgotten` (`NostrChannel`): `SocketOrTimer` is inductive with the types.
  * `RateStaysWithinLimits` (`AdaptiveBitrate`), for every set of rates: it rests on what
    rounding does (`PartIsLess`, `MultipleIsMore`): a part of a rate is never rounded above
    it, a multiple never below.
  * `EveryEndIsBegun`, `LastWordToTheViewer` and `HeldKeysAreLetGo` (`MediaSession`). The
    last needs what is still on the engine's stdin: once it is read, the engine goes by the
    permission of the host (`Ordered`), nothing is held without the engine's permission, and
    a host that closed has left a "shutdown" for a capture that still runs; that nothing
    is written after it rests on `EndInv` (only a host that closes stops its capture).

  `MediaSession`'s bound `MaxWaiting` only limits how much waits; the proofs do not use it.

**Only model-checked**: liveness (`RemoteListensAgain`, `HostResumes`, `WindowResumes`,
`HealsIfReported`, `Settles`, `NoHalfOpen`, `KeepsTrying`, `EndsTogether`,
`NothingStaysHeld`, `GrantsAreTold`, `BitrateRecovers`), which is beyond the prover; the
last five each have a safety half, a conjunct of the form `[]P` (`SocketOrTimer`, `EndIsBegun`,
`LetGoIsOnItsWay`, `LastWordIsTrue`, `WithinLimits`), which is proved. Every
invariant, action property and refinement that a passing run checks is also proved.

## 7. Not modelled

The message parser of the engine's pipe, clock and delay estimates and the jitter
buffer (numbers of samples, no protocol), the merge of settings (one turn of the event
loop), and `prepareRemote` are left for later. Media that arrive before the verdict are
dropped by the peer and belong to no model. Ciphers, hashes and STUN encoding
are taken by what they promise. The page, the CLI, the network probes, device access in the
native engine, packaging and vendored code are I/O or user interface without
protocol state of their own.
