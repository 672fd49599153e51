---------------------------- MODULE SessionController ----------------------------
(***************************************************************************)
(* The session controller of the app (node/src/ui/server.mjs): who may use *)
(* this computer's screen right now.                                       *)
(*                                                                         *)
(* Three features compete for the one slot `active': a share (a host       *)
(* instance re-created after every session), a viewer (with its reconnect  *)
(* loop) and remote access (a listener that is promoted to a session).     *)
(* The controller is single threaded: a step is one turn of the event loop,*)
(* that is one HTTP request, one timer, one event of an instance, or the   *)
(* continuation of a handler that was awaiting.  A handler is an operator  *)
(* from controller states to controller states, composed as the code       *)
(* composes the calls.                                                     *)
(*                                                                         *)
(* Abstraction: a delay is a timer that fires at some later step; texts,   *)
(* logging and pushing the state to the page are left out.                 *)
(***************************************************************************)
EXTENDS Naturals, FiniteSets

CONSTANTS
    Inst,          \* identities of Host/Viewer objects, reused once forgotten
    Devices,       \* viewer devices, told apart by their fingerprint
    RemoteIds,     \* identities of the `remote' object, one per switching-on
    None,          \* JavaScript null
    MaxRequests,   \* bound: requests of one kind awaiting hostOptions at once
    Features       \* what the user does: share, view, remote (access), and badcode
                   \* (asks to view with an invitation that cannot be parsed)

ASSUME ControllerAssumption ==
    /\ IsFiniteSet(Inst)
    /\ None \notin Inst \cup Devices \cup RemoteIds
    /\ MaxRequests \in Nat \ {0}
    /\ Features \subseteq {"share", "view", "remote", "badcode"}

VARIABLE
    st             \* the closure variables of startUi and the instances it made

Modes == {"idle", "hosting-waiting", "hosting-consent", "hosting-live",
          "connecting", "reconnecting", "viewing"}

\* "closed": close() was called, but a promise or an event may still call back.
Phases == {"free", "waiting", "consent", "live", "closed"}
Open   == {"waiting", "consent", "live"}

State ==
    [mode: Modes,
     active: Inst \cup {None},                  \* active.instance
     kind: [Inst -> {"share", "access", "viewer"}],
     phase: [Inst -> Phases],
     code: [Inst -> {"current", "old"}],        \* built with the code in force?
     consent: Inst \cup {None},                 \* the instance of pendingConsent
     guest: Devices \cup {None},                \* device asking or being served
     share: BOOLEAN, sharePaused: BOOLEAN, shareTimer: BOOLEAN,
     approved: SUBSET Devices,
     granted: SUBSET Devices,                   \* history: the user's own "Allow"s
     retry: BOOLEAN,                            \* viewerRetry # null
     again: BOOLEAN,                            \* the viewer is attempt > 0
     reconnect: BOOLEAN,                        \* state.reconnect # null
     remote: RemoteIds \cup {None},
     listener: Inst \cup {None},
     remoteTimer: BOOLEAN, remotePaused: BOOLEAN, remoteLive: BOOLEAN,
     arms: SUBSET RemoteIds,                    \* r.arming, one per remote object
     dirty: BOOLEAN,                            \* r.dirty
     loadStale: BOOLEAN,                        \* history: settings changed while loading
     listenerStale: BOOLEAN,                    \* history: settings changed since
     starting: 0..MaxRequests,                  \* startHost calls in hostOptions
     enabling: 0..MaxRequests,                  \* enableRemote calls in refreshRemoteSetup
     awake: BOOLEAN,                            \* last onSessionChange value
     down: BOOLEAN]                             \* close() ran

Init ==
    st = [mode |-> "idle", active |-> None,
          kind |-> [i \in Inst |-> "share"], phase |-> [i \in Inst |-> "free"],
          code |-> [i \in Inst |-> "old"],
          consent |-> None, guest |-> None,
          share |-> FALSE, sharePaused |-> FALSE, shareTimer |-> FALSE,
          approved |-> {}, granted |-> {},
          retry |-> FALSE, again |-> FALSE, reconnect |-> FALSE,
          remote |-> None, listener |-> None,
          remoteTimer |-> FALSE, remotePaused |-> FALSE, remoteLive |-> FALSE,
          arms |-> {}, dirty |-> FALSE, loadStale |-> FALSE, listenerStale |-> FALSE,
          starting |-> 0, enabling |-> 0, awake |-> FALSE, down |-> FALSE]

----------------------------------------------------------------------------
(* Reading the state.                                                      *)

ActiveKind(s)   == IF s.active = None THEN "none" ELSE s.kind[s.active]
RemoteActive(s) == ActiveKind(s) = "access"
Current(s, i)   == s.active = i

\* A fresh object for `new HostClass' or `new ViewerClass'.
Free(s) == {i \in Inst : s.phase[i] = "free"}

----------------------------------------------------------------------------
(* Instances.                                                              *)

Create(s, i, k) == [s EXCEPT !.kind[i] = k, !.phase[i] = "waiting", !.code[i] = "current"]
CloseInst(s, i) == IF i = None THEN s ELSE [s EXCEPT !.phase[i] = "closed"]
Forget(s, i)    == [s EXCEPT !.phase[i] = "free", !.code[i] = "old"]

----------------------------------------------------------------------------
(* The remote access listener.                                             *)

CanArm(s) ==
    /\ s.remote # None
    /\ s.listener = None
    /\ ~s.remoteLive
    /\ ~s.remoteTimer
    /\ s.remote \notin s.arms
    /\ ~s.remotePaused

\* armRemote up to its first await: the options start to load.
ArmRemote(s) ==
    IF CanArm(s)
    THEN [s EXCEPT !.arms = @ \cup {s.remote}, !.dirty = FALSE, !.loadStale = FALSE]
    ELSE s

ArmRemoteLater(s) == IF CanArm(s) THEN [s EXCEPT !.remoteTimer = TRUE] ELSE s

DropListener(s) == [CloseInst(s, s.listener) EXCEPT !.listener = None]

PauseRemoteListener(s) ==
    IF s.remote = None \/ s.remotePaused \/ RemoteActive(s)
    THEN s
    ELSE [DropListener(s) EXCEPT !.remotePaused = TRUE, !.remoteTimer = FALSE]

\* Mutant: the resumed listener is not armed.
ResumeWithoutArming(s) == [s EXCEPT !.remotePaused = FALSE]

ResumeRemoteListener(s) ==
    IF s.remote # None /\ s.remotePaused
    THEN ArmRemote([s EXCEPT !.remotePaused = FALSE])
    ELSE s

----------------------------------------------------------------------------
(* Ending sessions.                                                        *)

\* Mutant: the pending consent survives the session.
EndSessionKeepsConsent(s) ==
    ResumeRemoteListener(
        [CloseInst(s, s.active) EXCEPT
            !.active = None, !.guest = None, !.awake = FALSE,
            !.remoteLive = @ /\ ~RemoteActive(s)])

EndSession(s) ==
    ResumeRemoteListener(
        [CloseInst(s, s.active) EXCEPT
            !.active = None, !.consent = None, !.guest = None, !.awake = FALSE,
            !.remoteLive = @ /\ ~RemoteActive(s)])

ShareOff(s) ==
    [s EXCEPT !.share = FALSE, !.sharePaused = FALSE, !.shareTimer = FALSE,
              !.approved = {}, !.granted = {}]

\* Mutants: Stop forgets to listen again, to clear the reconnect notice.
StopWithoutArming(s) ==
    [EndSession([ShareOff(s) EXCEPT !.retry = FALSE]) EXCEPT !.mode = "idle", !.reconnect = FALSE]

StopKeepsReconnect(s) ==
    LET t == [EndSession([ShareOff(s) EXCEPT !.retry = FALSE]) EXCEPT !.mode = "idle"]
    IN IF RemoteActive(s) THEN ArmRemote(t) ELSE t

StopActive(s) ==
    LET t == [EndSession([ShareOff(s) EXCEPT !.retry = FALSE])
                 EXCEPT !.mode = "idle", !.reconnect = FALSE]
    IN IF RemoteActive(s) THEN ArmRemote(t) ELSE t

----------------------------------------------------------------------------
(* Hosting.                                                                *)

\* Mutant: the slot is not looked at again when the timer fires.
LaunchHostOverActive(s, i) ==
    IF s.share /\ ~s.sharePaused
    THEN [Create(s, i, "share") EXCEPT !.active = i, !.mode = "hosting-waiting"]
    ELSE s

LaunchHost(s, i) ==
    IF s.share /\ s.active = None /\ ~s.sharePaused
    THEN [Create(s, i, "share") EXCEPT !.active = i, !.mode = "hosting-waiting"]
    ELSE s

\* Mutant: the next attempt is not scheduled.
RearmWithoutTimer(s) ==
    IF s.share /\ ~s.sharePaused
    THEN [EndSession(s) EXCEPT !.mode = "hosting-waiting"]
    ELSE s

RearmHost(s) ==
    IF s.share /\ ~s.sharePaused
    THEN [EndSession(s) EXCEPT !.mode = "hosting-waiting", !.shareTimer = TRUE]
    ELSE s

\* Every instance of this kind was built with a code that is no longer valid.
Outdate(s, k) ==
    [s EXCEPT !.code = [i \in Inst |-> IF s.kind[i] = k THEN "old" ELSE @[i]]]

\* Mutants: only a waiting host is replaced, none is relaunched, the approved
\* devices stay approved.
NewShareCodeWhileWaiting(s, i) ==
    LET t == [Outdate(s, "share") EXCEPT !.approved = {}, !.granted = {}]
    IN IF ~s.share
       THEN s
       ELSE IF s.mode = "hosting-waiting" THEN LaunchHost(EndSession(t), i) ELSE t

NewShareCodeWithoutHost(s, i) ==
    LET t == [Outdate(s, "share") EXCEPT !.approved = {}, !.granted = {}]
    IN IF ~s.share
       THEN s
       ELSE IF s.mode \in {"hosting-waiting", "hosting-consent"} THEN EndSession(t) ELSE t

NewShareCodeKeepsApproved(s, i) ==
    LET t == [Outdate(s, "share") EXCEPT !.granted = {}]
    IN IF ~s.share
       THEN s
       ELSE IF s.mode \in {"hosting-waiting", "hosting-consent"}
            THEN LaunchHost(EndSession(t), i)
            ELSE t

NewShareCode(s, i) ==
    LET t == [Outdate(s, "share") EXCEPT !.approved = {}, !.granted = {}]
    IN IF ~s.share
       THEN s
       ELSE IF s.mode \in {"hosting-waiting", "hosting-consent"}
            THEN LaunchHost(EndSession(t), i)
            ELSE t

\* 'secure' of a share host: the device is let in.
GoLive(s, i, d) ==
    PauseRemoteListener(
        [s EXCEPT !.phase[i] = "live", !.guest = d, !.consent = None,
                  !.mode = "hosting-live", !.awake = TRUE])

----------------------------------------------------------------------------
(* Remote access sessions.                                                 *)

\* Mutant: any share lends its screen, whatever it is doing.
AnyShare(s) == ActiveKind(s) = "share" /\ s.share

WaitingShare(s) == ActiveKind(s) = "share" /\ s.share /\ s.mode = "hosting-waiting"

\* Mutant: the timer of the paused share keeps running.
BorrowKeepsTimer(s) ==
    IF WaitingShare(s) THEN EndSession([s EXCEPT !.sharePaused = TRUE]) ELSE s

\* The waiting share lends its screen.
BorrowScreen(s) ==
    IF WaitingShare(s)
    THEN EndSession([s EXCEPT !.shareTimer = FALSE, !.sharePaused = TRUE])
    ELSE s

\* approveRemote's success path with promoteRemote and its 'secure'.
PromoteRemote(s, i) ==
    [BorrowScreen(s) EXCEPT
        !.listener = None, !.remoteLive = TRUE, !.active = i, !.phase[i] = "live",
        !.mode = "hosting-live", !.awake = TRUE]

\* The listener's start() rejected while it was still listening.
ListenerFailed(s, later) ==
    IF later THEN ArmRemoteLater(DropListener(s)) ELSE ArmRemote(DropListener(s))

\* j is a fresh instance for the share that gets its screen back.
FinishRemoteLive(s, j) ==
    LET ended == [(IF RemoteActive(s) THEN EndSession(s) ELSE s) EXCEPT !.remoteLive = FALSE]
        given == IF ended.sharePaused
                 THEN LaunchHost([ended EXCEPT !.sharePaused = FALSE], j)
                 ELSE IF ended.active = None /\ ~ended.share /\ ~ended.retry
                      THEN [ended EXCEPT !.mode = "idle"]
                      ELSE ended
    IN ArmRemote(given)

\* The `remote' object is dropped with everything it owns.
RemoteOff(s) ==
    [DropListener(s) EXCEPT !.remote = None, !.remoteTimer = FALSE,
                            !.remotePaused = FALSE, !.remoteLive = FALSE]

DisableRemote(s, j) ==
    IF RemoteActive(s) THEN FinishRemoteLive(RemoteOff(s), j) ELSE RemoteOff(s)

NewAccessCode(s, j) ==
    LET t == [DropListener(Outdate(s, "access")) EXCEPT !.remoteTimer = FALSE]
    IN IF s.remote = None
       THEN s
       ELSE IF RemoteActive(s) THEN FinishRemoteLive(t, j) ELSE ArmRemote(t)

\* Mutant: a change of the settings while they load goes unnoticed.
RefreshOnlyTheListener(s) ==
    IF s.remote = None \/ s.listener = None THEN s ELSE ArmRemote(DropListener(s))

RefreshRemoteListener(s) ==
    IF s.remote \in s.arms
    THEN [s EXCEPT !.dirty = TRUE]
    ELSE IF s.remote = None \/ s.listener = None
         THEN s
         ELSE ArmRemote(DropListener(s))

----------------------------------------------------------------------------
(* Viewing.                                                                *)

LaunchViewer(s, i, again) ==
    [Create(s, i, "viewer") EXCEPT
        !.active = i, !.again = again,
        !.mode = IF again THEN "reconnecting" ELSE "connecting"]

\* final: autoReconnect is off, or the reason is one of FINAL_REASON.
RetryViewer(s, wasLive, final) ==
    IF final \/ ~(wasLive \/ s.again)
    THEN StopActive(s)
    ELSE [EndSession(s) EXCEPT !.mode = "reconnecting", !.reconnect = TRUE, !.retry = TRUE]

----------------------------------------------------------------------------
(* Requests of the user (page, tray).                                      *)

StartHostBegin ==
    /\ "share" \in Features /\ ~st.down
    /\ st.active = None /\ ~st.share /\ ~st.retry
    /\ st.starting < MaxRequests
    /\ st' = [st EXCEPT !.starting = @ + 1]

\* The continuation after `await hostOptions': the slot is looked at again.
StartHostLoaded ==
    /\ st.starting > 0
    /\ \E i \in Free(st) :
         LET t == [st EXCEPT !.starting = @ - 1]
         IN st' = IF st.active = None /\ ~st.share /\ ~st.retry
                  THEN LaunchHost([ShareOff(t) EXCEPT !.share = TRUE], i)
                  ELSE t

Stop == ~st.down /\ st' = StopActive(st)

UserNewShareCode == ~st.down /\ \E i \in Free(st) : st' = NewShareCode(st, i)

StartViewer ==
    /\ "view" \in Features /\ ~st.down
    /\ st.active = None /\ ~st.share
    /\ \E i \in Free(st) :
         st' = LaunchViewer([st EXCEPT !.retry = FALSE, !.reconnect = FALSE], i, FALSE)

\* Mutant: switched on during a live session, the listener does not wait.
EnableRemoteAnytime ==
    /\ "remote" \in Features /\ ~st.down
    /\ st.enabling < MaxRequests
    /\ \E r \in RemoteIds \ st.arms :
         st' = [st EXCEPT !.enabling = @ + 1, !.remote = IF @ = None THEN r ELSE @]

\* startViewer throws at the invitation, after it dropped the pending retry.
StartViewerRefused ==
    /\ "badcode" \in Features /\ ~st.down
    /\ st.active = None /\ ~st.share
    /\ st' = [st EXCEPT !.retry = FALSE]

\* enableRemote up to `await refreshRemoteSetup'.
EnableRemoteBegin ==
    /\ "remote" \in Features /\ ~st.down
    /\ st.enabling < MaxRequests
    /\ \E r \in RemoteIds \ st.arms :
         LET live == ActiveKind(st) \in {"share", "viewer"}
                       /\ st.mode \in {"hosting-live", "viewing"}
         IN st' = [st EXCEPT !.enabling = @ + 1,
                             !.remote = IF @ = None THEN r ELSE @,
                             !.remotePaused = IF st.remote = None THEN live ELSE @]

EnableRemoteReady ==
    /\ st.enabling > 0
    /\ st' = ArmRemote([st EXCEPT !.enabling = @ - 1])

UserDisableRemote ==
    ~st.down /\ st.remote # None /\ \E j \in Free(st) : st' = DisableRemote(st, j)

UserNewAccessCode ==
    ~st.down /\ \E j \in Free(st) : st' = NewAccessCode(st, j)

UserEndRemoteSession ==
    ~st.down /\ RemoteActive(st) /\ \E j \in Free(st) : st' = FinishRemoteLive(st, j)

\* A setting a remote session is built from was saved, or a profile applied.
SettingsChanged ==
    /\ ~st.down
    /\ st' = RefreshRemoteListener(
                [st EXCEPT !.loadStale = st.remote \in st.arms,
                           !.listenerStale = st.listener # None])

\* Mutant: the device is remembered only after the prompt was cleared.
ConsentAnsweredLate(yes) ==
    /\ st.consent # None
    /\ st' = IF yes
             THEN LET t == GoLive(EndSession(st), st.consent, st.guest)
                  IN [t EXCEPT !.approved = @ \cup {EndSession(st).guest}]
             ELSE RearmHost([st EXCEPT !.consent = None])

\* The user answered the consent prompt, or it timed out (yes = FALSE).  A
\* refusal makes the peer close, start() reject and the share re-arm.
ConsentAnswered(yes) ==
    /\ st.consent # None
    /\ Current(st, st.consent)
    /\ st' = IF yes
             THEN GoLive([st EXCEPT !.approved = @ \cup {st.guest},
                                    !.granted = @ \cup {st.guest}], st.consent, st.guest)
             ELSE RearmHost([st EXCEPT !.consent = None])

\* The app quits: remote access is not switched off, but nothing listens on.
Shutdown == ~st.down /\ st' = [StopActive(RemoteOff(st)) EXCEPT !.down = TRUE]

----------------------------------------------------------------------------
(* Events of the instances.  They reach a handler only while the instance  *)
(* is the current one; the last event of a closed one lets it be reused.   *)

\* A viewer finished the handshake with a share host; auto is the setting
\* autoReconnect.
HostConsentRequest(i, d, auto) ==
    /\ st.kind[i] = "share"
    /\ st.phase[i] \in {"waiting", "closed"}
    /\ Current(st, i) /\ st.consent = None
    /\ st' = IF d \in st.approved /\ auto
             THEN GoLive(st, i, d)
             ELSE [st EXCEPT !.phase[i] = "consent", !.consent = i, !.guest = d,
                             !.mode = "hosting-consent"]

\* start() rejected, or a running session closed.
HostEnds(i) ==
    /\ st.kind[i] = "share"
    /\ st.phase[i] # "free"
    /\ st' = IF Current(st, i) THEN RearmHost(st) ELSE Forget(st, i)

ViewerSecure(i) ==
    /\ st.kind[i] = "viewer"
    /\ st.phase[i] = "waiting"
    /\ Current(st, i)
    /\ st' = PauseRemoteListener(
                [st EXCEPT !.phase[i] = "live", !.mode = "viewing",
                           !.reconnect = FALSE, !.awake = TRUE])

ViewerEnds(i, final) ==
    /\ st.kind[i] = "viewer"
    /\ st.phase[i] # "free"
    /\ st' = IF Current(st, i)
             THEN RetryViewer(st, st.phase[i] = "live", final)
             ELSE Forget(st, i)

\* A viewer proved that it holds the access code (approveRemote).
RemoteConnects(i) ==
    /\ st.kind[i] = "access"
    /\ st.phase[i] \in {"waiting", "closed"}
    /\ st.remote # None /\ st.listener = i
    /\ st.active = None \/ WaitingShare(st)
    /\ st' = PromoteRemote(st, i)

\* Refused as busy, a handshake that went nowhere, a signaling problem; or
\* the promoted session is over.
AccessEnds(i, later) ==
    /\ st.kind[i] = "access"
    /\ st.phase[i] # "free"
    /\ \/ st.remote # None /\ st.listener = i /\ st' = ListenerFailed(st, later)
       \/ /\ Current(st, i)
          /\ \E j \in Free(st) : st' = FinishRemoteLive(st, j)
       \/ ~Current(st, i) /\ st.listener # i /\ st' = Forget(st, i)

----------------------------------------------------------------------------
(* Timers and the remaining continuations.                                 *)

ShareTimerFires ==
    /\ st.shareTimer
    /\ \E i \in Free(st) : st' = LaunchHost([st EXCEPT !.shareTimer = FALSE], i)

RetryTimerFires ==
    /\ st.retry
    /\ \E i \in Free(st) :
         LET t == [st EXCEPT !.retry = FALSE]
         IN st' = IF st.active = None THEN LaunchViewer(t, i, TRUE) ELSE t

RemoteTimerFires ==
    /\ st.remoteTimer
    /\ st' = ArmRemote([st EXCEPT !.remoteTimer = FALSE])

\* armRemote after its await: load again if settings changed, give up if the
\* object was replaced or must not listen now, else listen.
ArmLoaded(r) ==
    LET t == [st EXCEPT !.arms = @ \ {r}]
    IN /\ r \in st.arms
       /\ IF st.remote = r /\ st.dirty
          THEN st' = [st EXCEPT !.dirty = FALSE, !.loadStale = FALSE]
          ELSE IF st.remote = r /\ CanArm(t)
               THEN \E i \in Free(st) :
                      st' = [Create(t, i, "access") EXCEPT
                                !.listener = i, !.listenerStale = st.loadStale]
               ELSE st' = t

----------------------------------------------------------------------------

Request ==
    \/ StartHostBegin \/ StartViewer \/ StartViewerRefused \/ Stop \/ UserNewShareCode
    \/ EnableRemoteBegin \/ UserDisableRemote \/ UserNewAccessCode
    \/ UserEndRemoteSession \/ SettingsChanged \/ Shutdown
    \/ \E yes \in BOOLEAN : ConsentAnswered(yes)

Event ==
    \E i \in Inst :
        \/ \E d \in Devices, auto \in BOOLEAN : HostConsentRequest(i, d, auto)
        \/ HostEnds(i)
        \/ ViewerSecure(i)
        \/ \E final \in BOOLEAN : ViewerEnds(i, final)
        \/ RemoteConnects(i)
        \/ \E later \in BOOLEAN : AccessEnds(i, later)

Continuation ==
    \/ StartHostLoaded \/ EnableRemoteReady
    \/ ShareTimerFires \/ RetryTimerFires \/ RemoteTimerFires
    \/ \E r \in RemoteIds : ArmLoaded(r)

Next == Request \/ Event \/ Continuation

Spec == Init /\ [][Next]_st

(* Timers fire, awaited options arrive and closed instances call back for the
   last time.  Users and viewers may do nothing.  ArmLoaded is strong only
   because it needs an identity, and the pool of those is a bound of the model. *)
Fairness ==
    /\ WF_st(EnableRemoteReady) /\ WF_st(RemoteTimerFires)
    /\ \A r \in RemoteIds : SF_st(ArmLoaded(r))
    /\ \A i \in Inst : WF_st(st.phase[i] = "closed" /\ ~Current(st, i) /\ st' = Forget(st, i))

FairSpec == Spec /\ Fairness

----------------------------------------------------------------------------
(* What must always hold.                                                  *)

(* Every variable of the controller holds a value of its kind. *)
TypeOK == st \in State

(* Nothing runs unowned: an instance that is still open (it answers viewers
   or captures the screen) is the active one or the listener, never both, and
   those two are open.  A host nobody refers to would keep answering viewers
   after Stop. *)
NoOrphanInstance ==
    /\ \A i \in Inst : st.phase[i] \in Open => i \in {st.active, st.listener}
    /\ \A i \in {st.active, st.listener} \ {None} : st.phase[i] \in Open
    /\ st.active # None => st.active # st.listener

(* The consent prompt on screen, the mode, and the host that waits for the
   answer always agree: an answer can only ever concern the attempt shown. *)
ConsentIsForTheCurrentAttempt ==
    /\ st.consent # None <=> st.mode = "hosting-consent"
    /\ st.consent # None =>
         /\ st.consent = st.active
         /\ st.phase[st.consent] = "consent"
         /\ ActiveKind(st) = "share"
         /\ st.guest # None
    /\ \A i \in Inst : st.phase[i] = "consent" => st.consent = i

(* Remote access that is on, not paused and not in use has a listener or is on
   its way to one: no order of requests, drops and restarts makes it deaf. *)
RemoteNeverDeaf ==
    st.remote # None /\ ~st.remotePaused /\ ~st.remoteLive =>
        \/ st.listener # None
        \/ st.remoteTimer
        \/ st.remote \in st.arms
        \/ st.enabling > 0

(* The listener steps aside exactly while another session is live, and a
   promoted session is the active one. *)
ListenerStepsAside ==
    /\ st.remotePaused <=>
          /\ st.remote # None
          /\ ActiveKind(st) \in {"share", "viewer"}
          /\ st.phase[st.active] = "live"
    /\ st.remotePaused => st.listener = None /\ ~st.remoteTimer
    /\ st.remoteLive <=> RemoteActive(st)

(* Nobody gets in with a code that was replaced: a waiting share, a listener and
   a remote session were all built with the code in force. *)
OldCodesAreDead ==
    /\ ActiveKind(st) = "share" /\ st.phase[st.active] \in {"waiting", "consent"}
          => st.code[st.active] = "current"
    /\ st.listener # None => st.code[st.listener] = "current"
    /\ RemoteActive(st) => st.code[st.active] = "current"

(* The listener was built with the settings now saved, even when they change
   while they are being loaded. *)
ListenerHasFreshSettings == st.listener # None => ~st.listenerStale

(* A device watches a share only if the user clicked Allow for it during this
   share and under this code (or was in before the code was changed). *)
GuestWasAllowed ==
    ActiveKind(st) = "share" /\ st.phase[st.active] = "live" /\ st.code[st.active] = "current"
        => st.guest \in st.granted

(* A paused share has a borrower, whose end gives the screen back; a share and
   the viewer's side never run together. *)
PausedShareIsLent ==
    /\ st.sharePaused => st.share /\ RemoteActive(st) /\ ~st.shareTimer
    /\ st.share => ~st.retry /\ ActiveKind(st) # "viewer"

(* A remote viewer never takes the screen from a session that is live, being
   asked for consent, or connecting: only an idle slot or a waiting share. *)
LiveSessionIsNotTaken ==
    [][ActiveKind(st') = "access" /\ st'.active # st.active
         => st.active = None \/ (ActiveKind(st) = "share" /\ st.phase[st.active] = "waiting")]_st

(* "Only Stop ends the share": while a share runs and is not lent, it has a host
   or the timer that makes the next one. *)
ShareKeepsRunning == st.share /\ ~st.sharePaused => ActiveKind(st) = "share" \/ st.shareTimer

(* A viewer shown as reconnecting has a connection attempt or a timer for it. *)
ReconnectKeepsTrying == st.reconnect => st.retry \/ ActiveKind(st) = "viewer"

(* The mode on screen says what runs, only with nothing running is it idle, and
   the desktop shell keeps the computer awake exactly during live sessions. *)
ModeTellsTheTruth ==
    /\ st.awake <=> st.active # None /\ st.phase[st.active] = "live"
    /\ st.mode = "idle" => st.active = None /\ ~st.share /\ ~st.retry
    /\ st.mode = "hosting-waiting" =>
          st.shareTimer \/ (ActiveKind(st) = "share" /\ st.phase[st.active] = "waiting")
    /\ st.mode = "hosting-live" <=>
          ActiveKind(st) \in {"share", "access"} /\ st.phase[st.active] = "live"
    /\ st.mode = "viewing" <=> ActiveKind(st) = "viewer" /\ st.phase[st.active] = "live"
    /\ st.mode = "connecting" => ActiveKind(st) = "viewer"
    /\ st.mode = "reconnecting" => st.retry \/ ActiveKind(st) = "viewer"

(* Once the user leaves the settings alone, remote access that is on listens,
   or a session it serves or waits for is live, or it is switched off: it never
   stays "connecting" forever. *)
RemoteListensAgain ==
    <>[][~SettingsChanged]_st =>
        (st.remote # None ~> \/ st.listener # None
                             \/ st.remotePaused
                             \/ st.remoteLive
                             \/ st.remote = None)

================================================================================
