---------------------------- MODULE MediaSession ----------------------------
(***************************************************************************)
(* A session once it is secure (app/session.mjs) and the processes it runs  *)
(* (media/engine.mjs, media/audio.mjs): the host's capture engine and sound, *)
(* the viewer's stream window; how they start and end, who may control the  *)
(* host, and what the viewer holds down there.                              *)
(*                                                                         *)
(* Control is one permission, keyboard and mouse; one key stands for all.   *)
(* What a process writes is heard at once, its exit and its stdin later; of  *)
(* the viewer's input only its arrival is modelled.                         *)
(* Video, statistics and notices have no part in this.                      *)
(***************************************************************************)
EXTENDS Naturals, Sequences

CONSTANT MaxWaiting     \* bound: messages waiting in one direction

VARIABLES
    child,      \* the processes: os, the word from us it heeds, what it was told
    heard,      \* processes whose exit was heard
    exited,     \* sides, "host" or "viewer", whose program has exited
    toCapture,  \* the capture engine's stdin
    ready,      \* it has sent its config
    permits,    \* kbmAllowed_ in the engine
    held,       \* the key is held down on the host
    perm,       \* permissions.kbm of the Host
    status,     \* whether the Host has an inputStatus
    startTimer, \* _mediaStartTimer: nobody is there to answer prompts
    closeTimer, \* close() is to come in 150 ms
    closing,    \* _closing
    closed,     \* which of "host", "viewer" has closed
    toViewer,   \* host-permissions on their way
    shown       \* what the viewer's title bar says about control

processes == <<child, heard, exited>>
engine == <<toCapture, ready, permits, held>>
host == <<perm, status, startTimer, closeTimer, closing>>
wires == <<toViewer, shown>>
mediaVars == <<processes, engine, host, closed, wires>>

Children == {"capture", "sound", "window"}
Owner(c) == IF c = "window" THEN "viewer" ELSE "host"   \* who started it
Words == <<"stdin", "TERM", "KILL">>   \* in the order they are said
Said == 0 .. Len(Words)

\* hostSession() and joinSession() have returned, the processes are spawned
\* with the permission of the moment, or cannot be.
MediaInit ==
    /\ child \in [Children -> [os: {"up", "failed"}, heeds: Said \ {0}, told: {0}]]
    /\ heard = {} /\ exited = {}
    /\ perm \in BOOLEAN
    /\ toCapture = <<>> /\ ready = FALSE /\ permits = perm /\ held = FALSE
    /\ status = FALSE /\ startTimer \in BOOLEAN /\ closeTimer = FALSE /\ closing = FALSE
    /\ closed = {}
    /\ toViewer = <<>> /\ shown = "unknown"

Up(c) == child[c].os = "up"
Room(wire) == Len(wire) < MaxWaiting
CanAnnounce == "host" \notin closed => Room(toViewer)

-----------------------------------------------------------------------------
(* Processes. *)

\* stop(): the first word.  Sound is told TERM at once.
FirstWord(c) == IF c = "sound" THEN 2 ELSE 1

ToldToStop(cs) ==
    child' = [c \in Children |->
                IF c \in cs /\ Up(c) /\ child[c].told = 0
                THEN [child[c] EXCEPT !.told = FirstWord(c)]
                ELSE child[c]]

\* Mutant: a process that was asked to end is not asked again.
AskOnce(c) ==
    /\ Up(c) /\ child[c].told = 2 /\ Owner(c) \notin exited
    /\ child' = [child EXCEPT ![c].told = 3]
    /\ UNCHANGED <<heard, exited, engine, host, closed, wires>>

\* The timers of stop(): each says the next word, if its program still runs.
Escalate(c) ==
    /\ Up(c) /\ child[c].told \in {1, 2} /\ Owner(c) \notin exited
    /\ child' = [child EXCEPT ![c].told = @ + 1]
    /\ UNCHANGED <<heard, exited, engine, host, closed, wires>>

\* A process heeds a signal, or KILL.  The capture engine looks for one in its
\* loop, once it has started.
Obeys(c) ==
    /\ Up(c)
    /\ child[c].told >= child[c].heeds
    /\ child[c].told = 1 => c = "window"    \* the capture engine: see Shutdown
    /\ c = "capture" => ready \/ child[c].told = 3
    /\ child' = [child EXCEPT ![c].os = "died"]
    /\ UNCHANGED <<heard, exited, engine, host, closed, wires>>

\* It ends by itself: with an error it noticed, or not.
Ends(c) ==
    /\ Up(c)
    /\ \E how \in {"ended", "died"} :
          /\ child' = [child EXCEPT ![c].os = how]
          /\ held' = (held /\ ~(c = "capture" /\ how = "ended"))
    /\ UNCHANGED <<heard, exited, toCapture, ready, permits, host, closed, wires>>

\* Messages for the capture engine; lost if it was stopped or is gone.
Piped(msgs) == toCapture' = IF Up("capture") /\ child["capture"].told = 0
                            THEN toCapture \o msgs ELSE toCapture

-----------------------------------------------------------------------------
(* The ends of a session. *)

\* Host.close() without a notice, or once it has had time to arrive.
CloseHost ==
    IF "host" \in closed
    THEN UNCHANGED <<closed, startTimer, child, toCapture, closing>> /\ closeTimer' = FALSE
    ELSE /\ closed' = closed \cup {"host"}
         /\ startTimer' = FALSE /\ closeTimer' = FALSE
         /\ ToldToStop({"capture", "sound"})
         /\ Piped(<<"release", "shutdown">>)
         /\ UNCHANGED closing

HostEnds == CloseHost /\ UNCHANGED <<ready, permits, held, perm, status, wires>>

\* The owner stops sharing, with a notice for the viewer or without.
StopSharing(notice) ==
    /\ "host" \notin closed
    /\ UNCHANGED <<heard, exited>>
    /\ IF notice /\ ~closing
       THEN /\ closing' = TRUE /\ closeTimer' = TRUE
            /\ Piped(<<"release">>)
            /\ UNCHANGED <<child, ready, permits, held, perm, status, startTimer, closed, wires>>
       ELSE HostEnds

CloseLater == closeTimer /\ "host" \notin exited /\ HostEnds /\ UNCHANGED <<heard, exited>>

\* Capture did not start in time.
StartTimeout ==
    /\ startTimer /\ ~ready
    /\ startTimer' = FALSE /\ closeTimer' = TRUE
    /\ UNCHANGED <<processes, engine, perm, status, closing, closed, wires>>

\* The capture engine's exit is heard; why it could not start is told first.
CaptureExit ==
    /\ child["capture"].os \in {"ended", "died"} /\ "capture" \notin heard /\ "host" \notin exited
    /\ heard' = heard \cup {"capture"} /\ UNCHANGED exited
    /\ \/ ~ready /\ "host" \notin closed /\ closeTimer' = TRUE
          /\ UNCHANGED <<child, engine, perm, status, startTimer, closing, closed, wires>>
       \/ HostEnds

\* Viewer.close(): the window is told to stop.
ViewerEnds ==
    /\ closed' = closed \cup {"viewer"}
    /\ ToldToStop({"window"})
    /\ UNCHANGED <<engine, host, wires>>

LeaveSession == "viewer" \notin closed /\ ViewerEnds /\ UNCHANGED <<heard, exited>>

WindowExit ==
    /\ child["window"].os \in {"ended", "died"} /\ "window" \notin heard /\ "viewer" \notin exited
    /\ heard' = heard \cup {"window"} /\ UNCHANGED exited
    /\ ViewerEnds

\* Each end hears that the other is gone.
HostHearsEnd ==
    /\ "viewer" \in closed /\ "host" \notin closed
    /\ HostEnds /\ UNCHANGED <<heard, exited>>
ViewerHearsEnd ==
    /\ "host" \in closed /\ "viewer" \notin closed
    /\ ViewerEnds /\ UNCHANGED <<heard, exited>>

\* The program of a side that has closed may exit: the command line does so
\* within a second, the local UI and the desktop app once they are told to quit.
\* Its timers go with it, whatever they had left to say.
ProgramExits(side) ==
    /\ side \in closed \ exited
    /\ exited' = exited \cup {side}
    /\ UNCHANGED <<child, heard, engine, host, closed, wires>>

-----------------------------------------------------------------------------
(* Control. *)

\* Mutant: the viewer is told only of changes it has to know to send input.
AnnounceGrant ==
    toViewer' = IF "host" \notin closed /\ status' /\ perm' THEN Append(toViewer, "yes") ELSE toViewer

\* #announcePermissions(): not before the engine's first report.
Announce ==
    toViewer' = IF "host" \notin closed /\ status'
                THEN Append(toViewer, IF perm' THEN "yes" ELSE "no") ELSE toViewer

\* The engine has started: config, then its first report.  With nobody there to
\* read its config it ends instead.
CaptureStarts ==
    /\ Up("capture") /\ ~ready /\ "host" \notin exited /\ CanAnnounce
    /\ ready' = TRUE
    /\ startTimer' = FALSE
    /\ status' = TRUE
    /\ UNCHANGED perm /\ Announce
    /\ UNCHANGED <<processes, toCapture, permits, held, closeTimer, closing, closed, shown>>

\* Host.setPermissions().
SetPermission(to) ==
    /\ "host" \notin closed /\ to # perm
    /\ Room(toCapture) /\ Room(toViewer)
    /\ perm' = to
    /\ Piped(<<IF to THEN "grant" ELSE "revoke">>)
    /\ UNCHANGED status /\ Announce
    /\ UNCHANGED <<processes, ready, permits, held, startTimer, closeTimer, closing, closed, shown>>

HearPermission ==
    /\ toViewer # <<>> /\ "viewer" \notin closed
    /\ shown' = Head(toViewer)
    /\ toViewer' = Tail(toViewer)
    /\ UNCHANGED <<processes, engine, host, closed>>

\* A key event of the viewer reaches the host, which passes on what it permits.
HandInput(event) ==
    /\ "host" \notin closed /\ Room(toCapture)
    /\ perm
    /\ Piped(<<event>>)
    /\ UNCHANGED <<processes, ready, permits, held, host, closed, wires>>

-----------------------------------------------------------------------------
(* The capture engine reads its stdin, once it has started. *)

Next1 == Head(toCapture)

\* Mutant: control is taken away, what is held down stays down.
RevokeOnly ==
    /\ Next1 \in {"grant", "revoke"} /\ CanAnnounce
    /\ permits' = (Next1 = "grant")
    /\ UNCHANGED <<child, held, perm, status>> /\ Announce

\* A permission message; taking control away lets go.  Either is reported, and
\* the host announces it again.
NewPermission ==
    /\ Next1 \in {"grant", "revoke"} /\ CanAnnounce
    /\ permits' = (Next1 = "grant")
    /\ held' = (held /\ ~(permits /\ Next1 = "revoke"))
    /\ UNCHANGED <<child, perm, status>> /\ Announce

Inject ==
    /\ Next1 \in {"down", "up"}
    /\ held' = IF permits THEN Next1 = "down" ELSE held
    /\ UNCHANGED <<child, permits, perm, status, toViewer>>

Release ==
    /\ Next1 = "release"
    /\ held' = FALSE
    /\ UNCHANGED <<child, permits, perm, status, toViewer>>

Shutdown ==
    /\ Next1 = "shutdown"
    /\ held' = FALSE
    /\ child' = [child EXCEPT !["capture"].os = "ended"]
    /\ UNCHANGED <<permits, perm, status, toViewer>>

CaptureReads ==
    /\ Up("capture") /\ ready /\ toCapture # <<>> /\ child["capture"].heeds = 1
    /\ NewPermission \/ Inject \/ Release \/ Shutdown
    /\ toCapture' = Tail(toCapture)
    /\ UNCHANGED <<heard, exited, ready, startTimer, closeTimer, closing, closed, shown>>
-----------------------------------------------------------------------------

MediaNext ==
    \/ \E c \in Children : Escalate(c) \/ Obeys(c) \/ Ends(c)
    \/ \E notice \in BOOLEAN : StopSharing(notice)
    \/ CloseLater \/ StartTimeout \/ CaptureExit
    \/ \E side \in {"host", "viewer"} : ProgramExits(side)
    \/ LeaveSession \/ WindowExit \/ HostHearsEnd \/ ViewerHearsEnd
    \/ CaptureStarts \/ HearPermission \/ CaptureReads
    \/ \E to \in BOOLEAN : SetPermission(to)
    \/ \E event \in {"down", "up"} : HandInput(event)

MediaSpec == MediaInit /\ [][MediaNext]_mediaVars

\* Timers fire as long as their program runs, signals and exits arrive, a
\* process reads and heeds what it heeds, and each end hears of the other.
MediaFairness ==
    /\ \A c \in Children : WF_mediaVars(Escalate(c)) /\ WF_mediaVars(Obeys(c))
    /\ WF_mediaVars(CloseLater) /\ WF_mediaVars(StartTimeout)
    /\ WF_mediaVars(CaptureExit) /\ WF_mediaVars(WindowExit)
    /\ WF_mediaVars(HostHearsEnd) /\ WF_mediaVars(ViewerHearsEnd)
    /\ WF_mediaVars(HearPermission) /\ WF_mediaVars(CaptureReads)

-----------------------------------------------------------------------------
(* Properties. *)

Gone(c) == child[c].os \in {"ended", "died"}

\* An end that was noticed is under way: a side that has closed has told its
\* processes, and one that knows it must close has, or has a timer to
\* (Host.close, Viewer.close, the exit handlers).
EndIsBegun ==
    /\ \A c \in Children :
          Up(c) /\ Owner(c) \in closed => child[c].told > 0
    /\ closing \/ "capture" \in heard => closeTimer \/ "host" \in closed
    /\ "window" \in heard => "viewer" \in closed

\* Its program exited before it had said anything that this process heeds.
LeftBehind(c) ==
    /\ Owner(c) \in exited
    /\ \/ child[c].told < child[c].heeds
       \/ c = "capture" /\ ~ready /\ child[c].told < 3

\* Whatever ends first, an end of the session, its capture or its window, all
\* of it ends: both sides close, and no process is left running, not even one
\* that heeds neither its stdin nor TERM, unless its program has exited before
\* the word it heeds was due.  Unattended, a capture that does not come up in
\* time is such an end (Host.close, Viewer.close, stop(), the start timer and
\* the exit handlers).
EndsTogether ==
    /\ []EndIsBegun
    /\ (closed # {} \/ Gone("capture") \/ Gone("window"))
          ~> (closed = {"host", "viewer"} /\ \A c \in Children : Up(c) => LeftBehind(c))
    /\ startTimer ~> (ready \/ closed # {})

\* The host permits that a key is held down, or what makes the engine let go is
\* on its stdin (setPermissions, release_all, Shutdown).
LetGoIsOnItsWay ==
    \/ perm /\ "host" \notin closed
    \/ \E i \in DOMAIN toCapture : toCapture[i] \in {"revoke", "release", "shutdown"}

\* A key the viewer holds down on the host does not stay down once control is
\* revoked, either side closes or the viewer is gone, as long as the engine
\* reads its stdin (setPermissions, release_all, Shutdown).
NothingStaysHeld ==
    /\ [](held /\ Up("capture") => LetGoIsOnItsWay)
    /\ (held /\ child["capture"].heeds = 1 /\ (~perm \/ closed # {}))
          ~> (~held \/ child["capture"].os = "died" \/ (perm /\ closed = {}))

Told(to) == IF to THEN "yes" ELSE "no"

\* The last word on its way to the viewer, or the one it was told, is the truth,
\* as long as the host is there (#announcePermissions).
LastWordIsTrue ==
    Told(perm) = IF toViewer = <<>> THEN shown ELSE toViewer[Len(toViewer)]

\* What the viewer is shown about control settles on what the host settled on,
\* however permissions, the engine's start and its reports interleave.
GrantsAreTold ==
    /\ [](status /\ "host" \notin closed => LastWordIsTrue)
    /\ \A to \in BOOLEAN :
          <>[](perm = to /\ status /\ closed = {}) => <>[](shown = Told(to))
=============================================================================
