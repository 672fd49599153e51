------------------------ MODULE SessionControllerProofs ------------------------
(***************************************************************************)
(* Theorems about the session controller, for every number of instances,   *)
(* devices and remote objects.                                             *)
(*                                                                         *)
(* A handler is a composition of operators on states.  Each operator has a *)
(* lemma that says what it returns in terms of the fields below; the       *)
(* invariants are then proved action by action from those lemmas alone.    *)
(* There are three, each inductive relative to the ones before it:         *)
(*   Good   what runs is owned, what is paused is lent (all users);        *)
(*   Calm   what a session looks like from outside: the page, the codes,   *)
(*          the listener (all users);                                      *)
(*   Local  sharing and viewing go on (users who leave remote access off). *)
(***************************************************************************)
EXTENDS SessionController, TLAPS

SameSlot(s, t) ==
    /\ t.active = s.active /\ t.listener = s.listener
    /\ t.kind = s.kind /\ t.phase = s.phase /\ t.mode = s.mode

SameFlags(s, t) ==
    /\ t.share = s.share /\ t.sharePaused = s.sharePaused
    /\ t.shareTimer = s.shareTimer /\ t.retry = s.retry

SameShare(s, t) == SameFlags(s, t) /\ t.consent = s.consent /\ t.guest = s.guest

\* The phases after close() of i.
Closed(s, i) == IF i = None THEN s.phase ELSE [s.phase EXCEPT ![i] = "closed"]

----------------------------------------------------------------------------
(* The updates of the operators keep every field in its set.               *)

LEMMA InstanceFields ==
    ASSUME NEW v \in State, NEW i \in Inst, NEW k \in {"share", "access", "viewer"}
    PROVE  /\ [v EXCEPT !.phase[i] = "closed"] \in State
           /\ [v EXCEPT !.phase[i] = "free", !.code[i] = "old"] \in State
           /\ [v EXCEPT !.kind[i] = k, !.phase[i] = "waiting", !.code[i] = "current"] \in State
  <1>1. [v EXCEPT !.phase[i] = "closed"] \in State
    BY ZenonT(60) DEF State, Phases
  <1>2. [v EXCEPT !.phase[i] = "free", !.code[i] = "old"] \in State
    BY ZenonT(60) DEF State, Phases
  <1>3. [v EXCEPT !.kind[i] = k, !.phase[i] = "waiting", !.code[i] = "current"] \in State
    BY ZenonT(60) DEF State, Phases
  <1>4. QED
    BY <1>1, <1>2, <1>3

LEMMA ListenerFields ==
    ASSUME NEW v \in State, NEW a \in SUBSET RemoteIds
    PROVE  /\ [v EXCEPT !.arms = a, !.dirty = FALSE, !.loadStale = FALSE] \in State
           /\ [v EXCEPT !.remoteTimer = TRUE] \in State
           /\ [v EXCEPT !.listener = None] \in State
           /\ [v EXCEPT !.remotePaused = FALSE] \in State
           /\ [v EXCEPT !.remotePaused = TRUE, !.remoteTimer = FALSE] \in State
  <1>1. [v EXCEPT !.arms = a, !.dirty = FALSE, !.loadStale = FALSE] \in State
    BY ZenonT(60) DEF State
  <1>2. [v EXCEPT !.remoteTimer = TRUE] \in State
    BY ZenonT(60) DEF State
  <1>3. [v EXCEPT !.listener = None] \in State
    BY ZenonT(60) DEF State
  <1>4. [v EXCEPT !.remotePaused = FALSE] \in State
    BY ZenonT(60) DEF State
  <1>5. [v EXCEPT !.remotePaused = TRUE, !.remoteTimer = FALSE] \in State
    BY ZenonT(60) DEF State
  <1>6. QED
    BY <1>1, <1>2, <1>3, <1>4, <1>5

LEMMA EndedFields ==
    ASSUME NEW v \in State, NEW b \in BOOLEAN
    PROVE  [v EXCEPT !.active = None, !.consent = None, !.guest = None,
                     !.awake = FALSE, !.remoteLive = b] \in State
  BY ZenonT(60) DEF State

LEMMA ViewerFields ==
    ASSUME NEW v \in State, NEW i \in Inst, NEW again \in BOOLEAN, NEW m \in Modes
    PROVE  [v EXCEPT !.active = i, !.again = again, !.mode = m] \in State
  BY ZenonT(60) DEF State

LEMMA GuestFields ==
    ASSUME NEW v \in State, NEW i \in Inst, NEW d \in Devices
    PROVE  [v EXCEPT !.phase[i] = "live", !.guest = d, !.consent = None,
                     !.mode = "hosting-live", !.awake = TRUE] \in State
  BY ZenonT(60) DEF State, Modes, Phases

LEMMA LendFields ==
    ASSUME NEW v \in State
    PROVE  [v EXCEPT !.shareTimer = FALSE, !.sharePaused = TRUE] \in State
  BY ZenonT(60) DEF State

LEMMA PromotedFields ==
    ASSUME NEW v \in State, NEW i \in Inst
    PROVE  [v EXCEPT !.listener = None, !.remoteLive = TRUE, !.active = i,
                     !.phase[i] = "live", !.mode = "hosting-live", !.awake = TRUE] \in State
  BY ZenonT(60) DEF State, Modes, Phases

LEMMA RemoteOffFields ==
    ASSUME NEW v \in State
    PROVE  [v EXCEPT !.remote = None, !.remoteTimer = FALSE,
                     !.remotePaused = FALSE, !.remoteLive = FALSE] \in State
  BY ZenonT(60) DEF State

LEMMA FinishFields ==
    ASSUME NEW v \in State
    PROVE  /\ [v EXCEPT !.remoteLive = FALSE] \in State
           /\ [v EXCEPT !.remoteTimer = FALSE] \in State
           /\ [v EXCEPT !.sharePaused = FALSE] \in State
           /\ [v EXCEPT !.dirty = TRUE] \in State
           /\ [v EXCEPT !.mode = "idle"] \in State
  BY ZenonT(60) DEF State, Modes

LEMMA RetryFields ==
    ASSUME NEW v \in State
    PROVE  [v EXCEPT !.mode = "reconnecting", !.reconnect = TRUE, !.retry = TRUE] \in State
  BY ZenonT(60) DEF State, Modes

LEMMA CounterFields ==
    ASSUME NEW v \in State, NEW n \in 0..MaxRequests, NEW b \in BOOLEAN, NEW c \in BOOLEAN,
           NEW r \in RemoteIds \cup {None}, NEW a \in SUBSET RemoteIds
    PROVE  /\ [v EXCEPT !.starting = n] \in State
           /\ [v EXCEPT !.enabling = n] \in State
           /\ [v EXCEPT !.enabling = n, !.remote = r, !.remotePaused = b] \in State
           /\ [v EXCEPT !.loadStale = b, !.listenerStale = c] \in State
           /\ [v EXCEPT !.remoteTimer = FALSE] \in State
           /\ [v EXCEPT !.arms = a] \in State
           /\ [v EXCEPT !.dirty = FALSE, !.loadStale = FALSE] \in State
           /\ [v EXCEPT !.down = TRUE] \in State
           /\ [v EXCEPT !.consent = None] \in State
  <1>1. [v EXCEPT !.starting = n] \in State
    BY ZenonT(60) DEF State
  <1>2. [v EXCEPT !.enabling = n] \in State
    BY ZenonT(60) DEF State
  <1>3. [v EXCEPT !.enabling = n, !.remote = r, !.remotePaused = b] \in State
    BY ZenonT(60) DEF State
  <1>4. [v EXCEPT !.loadStale = b, !.listenerStale = c] \in State
    BY ZenonT(60) DEF State
  <1>5. [v EXCEPT !.remoteTimer = FALSE] \in State
    BY ZenonT(60) DEF State
  <1>6. [v EXCEPT !.arms = a] \in State
    BY ZenonT(60) DEF State
  <1>7. [v EXCEPT !.dirty = FALSE, !.loadStale = FALSE] \in State
    BY ZenonT(60) DEF State
  <1>8. [v EXCEPT !.down = TRUE] \in State
    BY ZenonT(60) DEF State
  <1>9. [v EXCEPT !.consent = None] \in State
    BY ZenonT(60) DEF State
  <1>10. QED
    BY <1>1, <1>2, <1>3, <1>4, <1>5, <1>6, <1>7, <1>8, <1>9

LEMMA StartFields ==
    ASSUME NEW v \in State
    PROVE  /\ [v EXCEPT !.share = TRUE] \in State
           /\ [v EXCEPT !.retry = FALSE] \in State
           /\ [v EXCEPT !.retry = FALSE, !.reconnect = FALSE] \in State
           /\ [v EXCEPT !.shareTimer = FALSE] \in State
  BY ZenonT(60) DEF State

LEMMA AnswerFields ==
    ASSUME NEW v \in State, NEW a \in SUBSET Devices, NEW g \in SUBSET Devices
    PROVE  [v EXCEPT !.approved = a, !.granted = g] \in State
  BY ZenonT(60) DEF State

LEMMA AskFields ==
    ASSUME NEW v \in State, NEW i \in Inst, NEW d \in Devices
    PROVE  [v EXCEPT !.phase[i] = "consent", !.consent = i, !.guest = d,
                     !.mode = "hosting-consent"] \in State
  BY ZenonT(60) DEF State, Modes, Phases

LEMMA RefusedFields ==
    ASSUME NEW v \in State
    PROVE  [v EXCEPT !.consent = None] \in State
  BY ZenonT(60) DEF State

LEMMA ViewingFields ==
    ASSUME NEW v \in State, NEW i \in Inst
    PROVE  [v EXCEPT !.phase[i] = "live", !.mode = "viewing",
                     !.reconnect = FALSE, !.awake = TRUE] \in State
  BY ZenonT(60) DEF State, Modes, Phases

LEMMA ListeningFields ==
    ASSUME NEW v \in State, NEW i \in Inst, NEW b \in BOOLEAN
    PROVE  [v EXCEPT !.listener = i, !.listenerStale = b] \in State
  BY ZenonT(60) DEF State

----------------------------------------------------------------------------
(* What the operators return.                                              *)

LEMMA CloseInstReturns ==
    ASSUME NEW s \in State, NEW i \in Inst \cup {None}
    PROVE  /\ CloseInst(s, i) \in State
           /\ CloseInst(s, i) = [s EXCEPT !.phase = Closed(s, i)]
  <1>1. CloseInst(s, i) \in State
    BY InstanceFields DEF CloseInst
  <1>2. CASE i = None
    <2>1. s = [s EXCEPT !.phase = s.phase]
      BY DEF State
    <2>2. QED
      BY <1>1, <1>2, <2>1 DEF CloseInst, Closed
  <1>3. CASE i # None
    BY <1>1, <1>3 DEF CloseInst, Closed
  <1>4. QED
    BY <1>2, <1>3

LEMMA CreateReturns ==
    ASSUME NEW s \in State, NEW i \in Inst, NEW k \in {"share", "access", "viewer"}
    PROVE  /\ Create(s, i, k) \in State
           /\ SameShare(s, Create(s, i, k))
           /\ Create(s, i, k).active = s.active
           /\ Create(s, i, k).listener = s.listener
           /\ Create(s, i, k).mode = s.mode
           /\ Create(s, i, k).kind = [s.kind EXCEPT ![i] = k]
           /\ Create(s, i, k).phase = [s.phase EXCEPT ![i] = "waiting"]
  <1>1. Create(s, i, k) \in State
    BY InstanceFields DEF Create
  <1>2. QED
    BY <1>1 DEF Create, State, SameShare, SameFlags

LEMMA ForgetReturns ==
    ASSUME NEW s \in State, NEW i \in Inst
    PROVE  /\ Forget(s, i) \in State
           /\ SameShare(s, Forget(s, i))
           /\ Forget(s, i).active = s.active
           /\ Forget(s, i).listener = s.listener
           /\ Forget(s, i).mode = s.mode
           /\ Forget(s, i).kind = s.kind
           /\ Forget(s, i).phase = [s.phase EXCEPT ![i] = "free"]
  <1>1. Forget(s, i) \in State
    BY InstanceFields DEF Forget
  <1>2. QED
    BY <1>1 DEF Forget, State, SameShare, SameFlags

LEMMA ArmRemoteReturns ==
    ASSUME NEW s \in State
    PROVE  /\ ArmRemote(s) \in State
           /\ SameSlot(s, ArmRemote(s))
           /\ SameShare(s, ArmRemote(s))
  <1>1. CASE CanArm(s)
    <2>1. s.arms \cup {s.remote} \in SUBSET RemoteIds
      BY <1>1 DEF CanArm, State
    <2>2. [s EXCEPT !.arms = @ \cup {s.remote}, !.dirty = FALSE, !.loadStale = FALSE] \in State
      BY <2>1, ListenerFields
    <2>3. QED
      BY <1>1, <2>2 DEF ArmRemote, State, SameSlot, SameShare, SameFlags
  <1>2. CASE ~CanArm(s)
    BY <1>2 DEF ArmRemote, SameSlot, SameShare, SameFlags
  <1>3. QED
    BY <1>1, <1>2

LEMMA ArmRemoteLaterReturns ==
    ASSUME NEW s \in State
    PROVE  /\ ArmRemoteLater(s) \in State
           /\ SameSlot(s, ArmRemoteLater(s))
           /\ SameShare(s, ArmRemoteLater(s))
  <1>1. [s EXCEPT !.remoteTimer = TRUE] \in State
    BY ListenerFields
  <1>2. QED
    BY <1>1 DEF ArmRemoteLater, State, SameSlot, SameShare, SameFlags

LEMMA DropListenerReturns ==
    ASSUME NEW s \in State
    PROVE  /\ DropListener(s) \in State
           /\ SameShare(s, DropListener(s))
           /\ DropListener(s).active = s.active
           /\ DropListener(s).listener = None
           /\ DropListener(s).kind = s.kind
           /\ DropListener(s).phase = Closed(s, s.listener)
           /\ DropListener(s).mode = s.mode
  <1> DEFINE u == CloseInst(s, s.listener)
  <1>1. u \in State /\ u = [s EXCEPT !.phase = Closed(s, s.listener)]
    BY CloseInstReturns DEF State
  <1>2. SameShare(s, u) /\ u.active = s.active /\ u.kind = s.kind /\ u.mode = s.mode
        /\ u.phase = Closed(s, s.listener)
    BY <1>1 DEF State, SameShare, SameFlags
  <1> HIDE DEF u
  <1>3. u \in State
    BY <1>1
  <1>4. [u EXCEPT !.listener = None] \in State
    BY <1>3, ListenerFields
  <1>5. QED
    BY <1>1, <1>2, <1>4 DEF DropListener, State, SameShare, SameFlags, u

LEMMA ResumeRemoteListenerReturns ==
    ASSUME NEW s \in State
    PROVE  /\ ResumeRemoteListener(s) \in State
           /\ SameSlot(s, ResumeRemoteListener(s))
           /\ SameShare(s, ResumeRemoteListener(s))
  <1> DEFINE u == [s EXCEPT !.remotePaused = FALSE]
  <1>1. u \in State
    BY ListenerFields
  <1>2. SameSlot(s, u) /\ SameShare(s, u)
    BY DEF State, SameSlot, SameShare, SameFlags
  <1>3. ArmRemote(u) \in State /\ SameSlot(u, ArmRemote(u)) /\ SameShare(u, ArmRemote(u))
    BY <1>1, ArmRemoteReturns
  <1> HIDE DEF u
  <1>4. QED
    BY <1>2, <1>3 DEF ResumeRemoteListener, u, SameSlot, SameShare, SameFlags

LEMMA PauseRemoteListenerReturns ==
    ASSUME NEW s \in State
    PROVE  /\ PauseRemoteListener(s) \in State
           /\ SameShare(s, PauseRemoteListener(s))
           /\ PauseRemoteListener(s).active = s.active
           /\ PauseRemoteListener(s).kind = s.kind
           /\ PauseRemoteListener(s).mode = s.mode
           /\ \/ /\ PauseRemoteListener(s).listener = s.listener
                 /\ PauseRemoteListener(s).phase = s.phase
              \/ /\ PauseRemoteListener(s).listener = None
                 /\ PauseRemoteListener(s).phase = Closed(s, s.listener)
  <1> DEFINE u == DropListener(s)
  <1>1. u \in State /\ SameShare(s, u) /\ u.active = s.active /\ u.kind = s.kind
        /\ u.mode = s.mode /\ u.listener = None /\ u.phase = Closed(s, s.listener)
    BY DropListenerReturns
  <1> HIDE DEF u
  <1>2. [u EXCEPT !.remotePaused = TRUE, !.remoteTimer = FALSE] \in State
    BY <1>1, ListenerFields
  <1>3. QED
    BY <1>1, <1>2 DEF PauseRemoteListener, State, SameShare, SameFlags, u

LEMMA EndSessionReturns ==
    ASSUME NEW s \in State
    PROVE  /\ EndSession(s) \in State
           /\ SameFlags(s, EndSession(s))
           /\ EndSession(s).active = None
           /\ EndSession(s).consent = None
           /\ EndSession(s).listener = s.listener
           /\ EndSession(s).kind = s.kind
           /\ EndSession(s).phase = Closed(s, s.active)
           /\ EndSession(s).mode = s.mode
  <1> DEFINE u    == CloseInst(s, s.active)
             t(b) == [u EXCEPT !.active = None, !.consent = None, !.guest = None,
                               !.awake = FALSE, !.remoteLive = b]
             live == u.remoteLive /\ ~RemoteActive(s)
  <1>1. u \in State /\ u = [s EXCEPT !.phase = Closed(s, s.active)]
    BY CloseInstReturns DEF State
  <1>2. SameShare(s, u) /\ u.listener = s.listener /\ u.kind = s.kind /\ u.mode = s.mode
        /\ u.phase = Closed(s, s.active)
    BY <1>1 DEF State, SameShare, SameFlags
  <1>3. EndSession(s) = ResumeRemoteListener(t(live))
    BY DEF EndSession
  <1>4. live \in BOOLEAN
    OBVIOUS
  <1> HIDE DEF u, live
  <1>5. \A b \in BOOLEAN : t(b) \in State
    BY <1>1, EndedFields
  <1>6. \A b \in BOOLEAN :
          /\ SameFlags(u, t(b)) /\ t(b).active = None /\ t(b).listener = u.listener
          /\ t(b).consent = None
          /\ t(b).kind = u.kind /\ t(b).phase = u.phase /\ t(b).mode = u.mode
    BY <1>1 DEF State, SameShare, SameFlags
  <1> HIDE DEF t
  <1>7. QED
    BY <1>2, <1>3, <1>4, <1>5, <1>6, ResumeRemoteListenerReturns DEF SameSlot, SameShare, SameFlags

LEMMA ShareOffReturns ==
    ASSUME NEW s \in State
    PROVE  /\ ShareOff(s) \in State
           /\ SameSlot(s, ShareOff(s))
           /\ ShareOff(s).share = FALSE
           /\ ShareOff(s).sharePaused = FALSE
           /\ ShareOff(s).shareTimer = FALSE
           /\ ShareOff(s).retry = s.retry
           /\ ShareOff(s).consent = s.consent /\ ShareOff(s).guest = s.guest
  <1>1. ShareOff(s) \in State
    BY ZenonT(60) DEF ShareOff, State
  <1>2. QED
    BY <1>1 DEF ShareOff, State, SameSlot

----------------------------------------------------------------------------
(* The inductive invariant.                                                *)

(* What runs is owned: the active instance and the listener are open and
   different, nothing else is, and a listener serves the access code. *)
Owned(s) ==
    /\ \A i \in Inst : s.phase[i] \in Open => i \in {s.active, s.listener}
    /\ s.active # None => s.phase[s.active] \in Open /\ s.active # s.listener
    /\ s.listener # None => s.phase[s.listener] \in Open /\ s.kind[s.listener] = "access"

(* A paused share has a borrower and no timer, sharing excludes viewing, and a
   remote session is always shown as live. *)
Lent(s) ==
    /\ s.sharePaused => s.share /\ RemoteActive(s) /\ ~s.shareTimer
    /\ s.share => ~s.retry /\ ActiveKind(s) # "viewer"
    /\ RemoteActive(s) => s.mode = "hosting-live"

(* Somebody is only ever asked about a device that waits at the active share. *)
Asked(s) ==
    s.consent # None =>
        s.consent = s.active /\ ActiveKind(s) = "share" /\ s.guest \in Devices

Good(s) == s \in State /\ Owned(s) /\ Lent(s) /\ Asked(s)

\* Lent of a state whose slot is empty.
LentWhenEmpty(s) == ~s.sharePaused /\ (s.share => ~s.retry)

LEMMA SameKeepsGood ==
    ASSUME NEW s, Good(s), NEW t \in State, SameSlot(s, t), SameShare(s, t)
    PROVE  Good(t)
  BY DEF Good, Owned, Lent, Asked, RemoteActive, ActiveKind, SameSlot, SameShare, SameFlags

LEMMA EmptyIsLent ==
    ASSUME NEW s, s.active = None, LentWhenEmpty(s)
    PROVE  Lent(s)
  BY DEF Lent, LentWhenEmpty, RemoteActive, ActiveKind

(* Closing the active instance leaves the listener alone. *)
LEMMA EndKeepsOwned ==
    ASSUME ControllerAssumption, NEW s \in State, Owned(s),
           NEW t, t.active = None, t.listener = s.listener, t.kind = s.kind,
           t.phase = Closed(s, s.active)
    PROVE  Owned(t)
  <1>1. s.phase \in [Inst -> Phases] /\ s.active \in Inst \cup {None}
        /\ s.listener \in Inst \cup {None} /\ None \notin Inst
    BY DEF State, ControllerAssumption
  <1>2. "closed" \notin Open
    BY DEF Open
  <1>3. QED
    BY <1>1, <1>2 DEF Owned, Closed

(* Closing the listener leaves the active instance alone. *)
LEMMA DropKeepsOwned ==
    ASSUME ControllerAssumption, NEW s \in State, Owned(s),
           NEW t, t.active = s.active, t.listener = None, t.kind = s.kind,
           t.phase = Closed(s, s.listener)
    PROVE  Owned(t)
  <1>1. s.phase \in [Inst -> Phases] /\ s.active \in Inst \cup {None}
        /\ s.listener \in Inst \cup {None} /\ None \notin Inst
    BY DEF State, ControllerAssumption
  <1>2. "closed" \notin Open
    BY DEF Open
  <1>3. QED
    BY <1>1, <1>2 DEF Owned, Closed

(* A fresh instance takes the empty slot. *)
LEMMA LaunchKeepsOwned ==
    ASSUME ControllerAssumption, NEW s \in State, Owned(s), s.active = None,
           NEW i \in Free(s), NEW k \in {"share", "access", "viewer"},
           NEW t, t.active = i, t.listener = s.listener,
           t.kind = [s.kind EXCEPT ![i] = k], t.phase = [s.phase EXCEPT ![i] = "waiting"]
    PROVE  Owned(t)
  <1>1. s.phase \in [Inst -> Phases] /\ s.kind \in [Inst -> {"share", "access", "viewer"}]
        /\ s.listener \in Inst \cup {None} /\ None \notin Inst
    BY DEF State, ControllerAssumption
  <1>2. i \in Inst /\ s.phase[i] = "free"
    BY DEF Free
  <1>3. "free" \notin Open /\ "waiting" \in Open
    BY DEF Open
  <1>4. QED
    BY <1>1, <1>2, <1>3 DEF Owned

(* Closing what is owned frees nothing and takes nothing that is free. *)
LEMMA FreeStaysFree ==
    ASSUME ControllerAssumption, NEW s \in State, Owned(s), NEW j \in Free(s),
           NEW x \in {s.active, s.listener}, NEW t, t.phase = Closed(s, x)
    PROVE  j \in Free(t)
  <1>1. s.phase \in [Inst -> Phases] /\ j \in Inst /\ s.phase[j] = "free" /\ "free" \notin Open
    BY DEF State, Free, Open
  <1>2. x # None => s.phase[x] \in Open
    BY DEF Owned
  <1>3. QED
    BY <1>1, <1>2 DEF Closed, Free

LEMMA EndSessionKeepsGood ==
    ASSUME ControllerAssumption, NEW s, Good(s), ~s.sharePaused
    PROVE  Good(EndSession(s)) /\ EndSession(s).active = None /\ EndSession(s).consent = None
  <1> DEFINE t == EndSession(s)
  <1>1. s \in State /\ Owned(s) /\ Lent(s)
    BY DEF Good
  <1>2. /\ t \in State /\ SameFlags(s, t) /\ t.active = None /\ t.listener = s.listener
        /\ t.kind = s.kind /\ t.phase = Closed(s, s.active) /\ t.consent = None
    BY <1>1, EndSessionReturns
  <1> HIDE DEF t
  <1>3. Owned(t)
    BY <1>1, <1>2, EndKeepsOwned
  <1>4. LentWhenEmpty(t)
    BY <1>1, <1>2 DEF Lent, LentWhenEmpty, SameShare, SameFlags
  <1>5. QED
    BY <1>2, <1>3, <1>4, EmptyIsLent DEF Good, Asked, t

(* An empty slot may be shown in any mode. *)
LEMMA ModeKeepsGood ==
    ASSUME NEW s, Good(s), s.active = None,
           NEW t \in State, SameShare(s, t), t.active = s.active, t.listener = s.listener,
           t.kind = s.kind, t.phase = s.phase
    PROVE  Good(t)
  BY DEF Good, Owned, Lent, Asked, RemoteActive, ActiveKind, SameShare, SameFlags

LEMMA StopActiveKeepsGood ==
    ASSUME ControllerAssumption, NEW s, Good(s)
    PROVE  Good(StopActive(s))
  <1> DEFINE a == [ShareOff(s) EXCEPT !.retry = FALSE]
             b == EndSession(a)
             c == [b EXCEPT !.mode = "idle", !.reconnect = FALSE]
  <1>1. s \in State
    BY DEF Good
  <1>2. /\ ShareOff(s) \in State /\ SameSlot(s, ShareOff(s)) /\ ShareOff(s).share = FALSE
        /\ ShareOff(s).sharePaused = FALSE
        /\ ShareOff(s).consent = s.consent /\ ShareOff(s).guest = s.guest
    BY <1>1, ShareOffReturns
  <1>3. ASSUME NEW v \in State
        PROVE  /\ [v EXCEPT !.retry = FALSE] \in State
               /\ [v EXCEPT !.mode = "idle", !.reconnect = FALSE] \in State
    BY ZenonT(60) DEF State, Modes
  <1>4. a \in State
    BY <1>2, <1>3
  <1>5. /\ SameSlot(s, a) /\ a.share = FALSE /\ a.sharePaused = FALSE
        /\ a.consent = s.consent /\ a.guest = s.guest
    <2> DEFINE o == ShareOff(s)
    <2>1. o \in State
      BY <1>2
    <2> HIDE DEF o
    <2>2. /\ SameSlot(o, [o EXCEPT !.retry = FALSE])
          /\ [o EXCEPT !.retry = FALSE].share = o.share
          /\ [o EXCEPT !.retry = FALSE].sharePaused = o.sharePaused
          /\ [o EXCEPT !.retry = FALSE].consent = o.consent
          /\ [o EXCEPT !.retry = FALSE].guest = o.guest
      BY <2>1 DEF State, SameSlot
    <2>3. QED
      BY <1>2, <2>2 DEF SameSlot, o
  <1> HIDE DEF a
  <1>6. Good(a)
    BY <1>4, <1>5 DEF Good, Owned, Lent, Asked, RemoteActive, ActiveKind, SameSlot
  <1>7. Good(b) /\ b.active = None /\ b \in State
    BY <1>5, <1>6, EndSessionKeepsGood DEF Good
  <1> HIDE DEF b
  <1>8. c \in State
    BY <1>3, <1>7
  <1>9. /\ SameShare(b, c) /\ c.active = b.active /\ c.listener = b.listener
        /\ c.kind = b.kind /\ c.phase = b.phase
    BY <1>7 DEF State, SameShare, SameFlags
  <1> HIDE DEF c
  <1>10. Good(c)
    BY <1>7, <1>8, <1>9, ModeKeepsGood
  <1>11. Good(ArmRemote(c))
    BY <1>8, <1>10, ArmRemoteReturns, SameKeepsGood
  <1>12. QED
    BY <1>10, <1>11 DEF StopActive, a, b, c

LEMMA LaunchHostKeepsGood ==
    ASSUME ControllerAssumption, NEW s, Good(s), NEW i \in Free(s)
    PROVE  Good(LaunchHost(s, i))
  <1> DEFINE u == Create(s, i, "share")
             t == [u EXCEPT !.active = i, !.mode = "hosting-waiting"]
  <1>1. s \in State /\ Owned(s) /\ Lent(s) /\ Asked(s) /\ i \in Inst
    BY DEF Good, Free
  <1>2. /\ u \in State /\ SameShare(s, u) /\ u.listener = s.listener
        /\ u.kind = [s.kind EXCEPT ![i] = "share"]
        /\ u.phase = [s.phase EXCEPT ![i] = "waiting"]
    BY <1>1, CreateReturns
  <1> HIDE DEF u
  <1>3. ASSUME NEW v \in State
        PROVE  [v EXCEPT !.active = i, !.mode = "hosting-waiting"] \in State
    BY <1>1, ZenonT(60) DEF State, Modes
  <1>4. t \in State
    BY <1>2, <1>3
  <1>5. /\ SameShare(u, t) /\ t.listener = u.listener /\ t.kind = u.kind /\ t.phase = u.phase
        /\ t.active = i /\ t.mode = "hosting-waiting"
    BY <1>2 DEF State, SameShare, SameFlags
  <1> HIDE DEF t
  <1>6. CASE s.share /\ s.active = None /\ ~s.sharePaused
    <2>1. Owned(t)
      <3>1. /\ t.listener = s.listener /\ t.kind = [s.kind EXCEPT ![i] = "share"]
            /\ t.phase = [s.phase EXCEPT ![i] = "waiting"]
        BY <1>2, <1>5
      <3>2. s \in State /\ Owned(s) /\ s.active = None /\ t.active = i
        BY <1>1, <1>5, <1>6
      <3>3. QED
        BY <3>1, <3>2, LaunchKeepsOwned, Zenon
    <2>2. ActiveKind(t) = "share"
      BY <1>1, <1>2, <1>5 DEF ActiveKind, State, ControllerAssumption
    <2>3. Lent(t)
      BY <1>1, <1>2, <1>5, <1>6, <2>2 DEF Lent, RemoteActive, SameShare, SameFlags
    <2>4. Asked(t)
      BY <1>1, <1>2, <1>5, <1>6 DEF Asked, ActiveKind, SameShare, SameFlags
    <2>5. QED
      BY <1>4, <1>6, <2>1, <2>3, <2>4 DEF LaunchHost, Good, t, u
  <1>7. CASE ~(s.share /\ s.active = None /\ ~s.sharePaused)
    BY <1>7 DEF LaunchHost
  <1>8. QED
    BY <1>6, <1>7

LEMMA LaunchViewerKeepsGood ==
    ASSUME ControllerAssumption, NEW s, Good(s), s.active = None, ~s.share,
           NEW i \in Free(s), NEW again \in BOOLEAN
    PROVE  Good(LaunchViewer(s, i, again))
  <1> DEFINE u    == Create(s, i, "viewer")
             m    == IF again THEN "reconnecting" ELSE "connecting"
             t    == [u EXCEPT !.active = i, !.again = again, !.mode = m]
  <1>1. s \in State /\ Owned(s) /\ Lent(s) /\ Asked(s) /\ i \in Inst
    BY DEF Good, Free
  <1>2. /\ u \in State /\ SameShare(s, u) /\ u.listener = s.listener
        /\ u.kind = [s.kind EXCEPT ![i] = "viewer"]
        /\ u.phase = [s.phase EXCEPT ![i] = "waiting"]
    BY <1>1, CreateReturns
  <1> HIDE DEF u
  <1>3. m \in Modes
    BY DEF Modes
  <1>4. LaunchViewer(s, i, again) = t
    BY DEF LaunchViewer, u
  <1> HIDE DEF m
  <1>5. \A v \in State, n \in Modes :
          [v EXCEPT !.active = i, !.again = again, !.mode = n] \in State
    BY <1>1, ViewerFields
  <1>6. t \in State
    BY <1>2, <1>3, <1>5
  <1>7. /\ SameShare(u, t) /\ t.listener = u.listener /\ t.kind = u.kind /\ t.phase = u.phase
        /\ t.active = i
    BY <1>2 DEF State, SameShare, SameFlags
  <1> HIDE DEF t
  <1>8. Owned(t)
    <2>1. /\ t.listener = s.listener /\ t.kind = [s.kind EXCEPT ![i] = "viewer"]
          /\ t.phase = [s.phase EXCEPT ![i] = "waiting"]
      BY <1>2, <1>7
    <2>2. s \in State /\ Owned(s) /\ t.active = i
      BY <1>1, <1>7
    <2>3. QED
      BY <2>1, <2>2, LaunchKeepsOwned, Zenon
  <1>9. ActiveKind(t) = "viewer"
    BY <1>1, <1>2, <1>7 DEF ActiveKind, State, ControllerAssumption
  <1>10. Lent(t)
    BY <1>1, <1>2, <1>7, <1>9 DEF Lent, RemoteActive, SameShare, SameFlags
  <1>11. Asked(t)
    BY <1>1, <1>2, <1>7 DEF Asked, ActiveKind, SameShare, SameFlags
  <1>12. QED
    BY <1>4, <1>6, <1>8, <1>10, <1>11 DEF Good

LEMMA RearmHostKeepsGood ==
    ASSUME ControllerAssumption, NEW s, Good(s)
    PROVE  Good(RearmHost(s))
  <1> DEFINE b == EndSession(s)
             t == [b EXCEPT !.mode = "hosting-waiting", !.shareTimer = TRUE]
  <1>1. CASE s.share /\ ~s.sharePaused
    <2>1. s \in State
      BY DEF Good
    <2>2. Good(b) /\ b.active = None /\ b.consent = None /\ b \in State /\ SameFlags(s, b)
      BY <1>1, <2>1, EndSessionKeepsGood, EndSessionReturns DEF Good
    <2> HIDE DEF b
    <2>3. ASSUME NEW v \in State
          PROVE  [v EXCEPT !.mode = "hosting-waiting", !.shareTimer = TRUE] \in State
      BY ZenonT(60) DEF State, Modes
    <2>4. t \in State
      BY <2>2, <2>3
    <2>5. /\ t.active = None /\ t.listener = b.listener /\ t.kind = b.kind /\ t.phase = b.phase
          /\ t.share = b.share /\ t.sharePaused = b.sharePaused /\ t.retry = b.retry
          /\ t.consent = None
      BY <2>2 DEF State
    <2> HIDE DEF t
    <2>6. Owned(t)
      BY <2>2, <2>5 DEF Good, Owned
    <2>7. LentWhenEmpty(t)
      BY <1>1, <2>2, <2>5 DEF Good, Lent, LentWhenEmpty, SameShare, SameFlags
    <2>8. Good(t)
      BY <2>4, <2>5, <2>6, <2>7, EmptyIsLent DEF Good, Asked
    <2>9. QED
      BY <1>1, <2>8 DEF RearmHost, t, b
  <1>2. CASE ~(s.share /\ ~s.sharePaused)
    BY <1>2 DEF RearmHost
  <1>3. QED
    BY <1>1, <1>2

LEMMA OutdateReturns ==
    ASSUME NEW s \in State, NEW k
    PROVE  /\ Outdate(s, k) \in State
           /\ SameSlot(s, Outdate(s, k))
           /\ SameShare(s, Outdate(s, k))
  <1> DEFINE c == [i \in Inst |-> IF s.kind[i] = k THEN "old" ELSE s.code[i]]
  <1>1. c \in [Inst -> {"current", "old"}]
    BY DEF State
  <1>2. Outdate(s, k) = [s EXCEPT !.code = c]
    BY DEF Outdate
  <1> HIDE DEF c
  <1>3. [s EXCEPT !.code = c] \in State
    BY <1>1, ZenonT(60) DEF State
  <1>4. QED
    BY <1>2, <1>3 DEF State, SameSlot, SameShare, SameFlags

LEMMA NewShareCodeKeepsGood ==
    ASSUME ControllerAssumption, NEW s, Good(s), NEW i \in Free(s)
    PROVE  Good(NewShareCode(s, i))
  <1> DEFINE u == Outdate(s, "share")
             t == [u EXCEPT !.approved = {}, !.granted = {}]
  <1>1. s \in State
    BY DEF Good
  <1>2. u \in State /\ SameSlot(s, u) /\ SameShare(s, u)
    BY <1>1, OutdateReturns
  <1> HIDE DEF u
  <1>3. ASSUME NEW v \in State
        PROVE  [v EXCEPT !.approved = {}, !.granted = {}] \in State
    BY ZenonT(60) DEF State
  <1>4. t \in State
    BY <1>2, <1>3
  <1>5. SameSlot(s, t) /\ SameShare(s, t)
    BY <1>2 DEF State, SameSlot, SameShare, SameFlags
  <1>6. NewShareCode(s, i) =
          IF ~s.share THEN s
          ELSE IF s.mode \in {"hosting-waiting", "hosting-consent"}
               THEN LaunchHost(EndSession(t), i) ELSE t
    BY DEF NewShareCode, u
  <1> HIDE DEF t
  <1>7. Good(t)
    BY <1>4, <1>5, SameKeepsGood
  <1>8. CASE s.mode \in {"hosting-waiting", "hosting-consent"}
    <2>1. ~t.sharePaused
      BY <1>5, <1>7, <1>8 DEF Good, Lent, SameSlot
    <2>2. Good(EndSession(t))
      BY <1>7, <2>1, EndSessionKeepsGood
    <2>3. i \in Free(EndSession(t))
      <3>1. i \in Free(t)
        BY <1>5 DEF Free, SameSlot
      <3>2. t \in State /\ Owned(t) /\ EndSession(t).phase = Closed(t, t.active)
        BY <1>7, EndSessionReturns DEF Good
      <3>3. QED
        BY <3>1, <3>2, FreeStaysFree
    <2>4. Good(LaunchHost(EndSession(t), i))
      BY <2>2, <2>3, LaunchHostKeepsGood
    <2>5. QED
      BY <1>6, <1>8, <2>4
  <1>9. CASE s.mode \notin {"hosting-waiting", "hosting-consent"}
    BY <1>6, <1>7, <1>9
  <1>10. QED
    BY <1>8, <1>9

LEMMA PauseKeepsGood ==
    ASSUME ControllerAssumption, NEW s, Good(s)
    PROVE  Good(PauseRemoteListener(s))
  <1> DEFINE t == PauseRemoteListener(s)
  <1>1. s \in State /\ Owned(s) /\ Lent(s) /\ Asked(s)
    BY DEF Good
  <1>2. /\ t \in State /\ SameShare(s, t) /\ t.active = s.active /\ t.kind = s.kind
        /\ t.mode = s.mode
        /\ \/ t.listener = s.listener /\ t.phase = s.phase
           \/ t.listener = None /\ t.phase = Closed(s, s.listener)
    BY <1>1, PauseRemoteListenerReturns
  <1> HIDE DEF t
  <1>3. Owned(t)
    <2>1. CASE t.listener = s.listener /\ t.phase = s.phase
      BY <1>1, <1>2, <2>1 DEF Owned
    <2>2. CASE t.listener = None /\ t.phase = Closed(s, s.listener)
      BY <1>1, <1>2, <2>2, DropKeepsOwned
    <2>3. QED
      BY <1>2, <2>1, <2>2
  <1>4. Lent(t)
    BY <1>1, <1>2 DEF Lent, RemoteActive, ActiveKind, SameShare, SameFlags
  <1>5. Asked(t)
    BY <1>1, <1>2 DEF Asked, ActiveKind, SameShare, SameFlags
  <1>6. QED
    BY <1>2, <1>3, <1>4, <1>5 DEF Good, t

LEMMA GoLiveKeepsGood ==
    ASSUME ControllerAssumption, NEW s, Good(s),
           NEW i \in Inst, NEW d \in Devices, s.active = i, s.kind[i] = "share"
    PROVE  Good(GoLive(s, i, d))
  <1> DEFINE t == [s EXCEPT !.phase[i] = "live", !.guest = d, !.consent = None,
                            !.mode = "hosting-live", !.awake = TRUE]
  <1>1. s \in State /\ Owned(s) /\ Lent(s)
    BY DEF Good
  <1>2. t \in State
    BY <1>1, GuestFields
  <1>3. /\ SameFlags(s, t) /\ t.active = s.active /\ t.listener = s.listener /\ t.kind = s.kind
        /\ t.phase = [s.phase EXCEPT ![i] = "live"] /\ t.consent = None
    BY <1>1 DEF State, SameShare, SameFlags
  <1>4. GoLive(s, i, d) = PauseRemoteListener(t)
    BY DEF GoLive
  <1> HIDE DEF t
  <1>5. Owned(t)
    <2>1. s.phase \in [Inst -> Phases] /\ "live" \in Open
      BY <1>1 DEF State, Open
    <2>2. QED
      BY <1>1, <1>3, <2>1 DEF Owned
  <1>6. ActiveKind(t) = "share" /\ ActiveKind(s) = "share"
    BY <1>1, <1>3 DEF ActiveKind, ControllerAssumption
  <1>7. Lent(t)
    BY <1>1, <1>3, <1>6 DEF Lent, RemoteActive, SameShare, SameFlags
  <1>8. Good(t)
    BY <1>2, <1>3, <1>5, <1>7 DEF Good, Asked
  <1>9. QED
    BY <1>4, <1>8, PauseKeepsGood

LEMMA BorrowScreenReturns ==
    ASSUME ControllerAssumption, NEW s, Good(s), s.active = None \/ WaitingShare(s)
    PROVE  LET t == BorrowScreen(s)
           IN /\ t \in State /\ Owned(t)
              /\ t.active = None /\ t.listener = s.listener /\ t.kind = s.kind
              /\ t.phase = Closed(s, s.active)
              /\ t.share = s.share /\ t.retry = s.retry
              /\ t.sharePaused => t.share /\ ~t.shareTimer
              /\ t.consent = None
  <1> DEFINE u == [s EXCEPT !.shareTimer = FALSE, !.sharePaused = TRUE]
             t == EndSession(u)
  <1>1. s \in State /\ Owned(s) /\ Lent(s) /\ Asked(s)
    BY DEF Good
  <1>2. CASE WaitingShare(s)
    <2>1. u \in State
      BY <1>1, LendFields
    <2>2. /\ SameSlot(s, u) /\ u.share = s.share /\ u.retry = s.retry
          /\ u.sharePaused = TRUE /\ u.shareTimer = FALSE /\ s.share
      BY <1>1, <1>2 DEF State, SameSlot, WaitingShare
    <2> HIDE DEF u
    <2>3. Owned(u)
      BY <1>1, <2>2 DEF Owned, SameSlot
    <2>4. /\ t \in State /\ SameFlags(u, t) /\ t.active = None /\ t.consent = None /\ t.listener = u.listener
          /\ t.kind = u.kind /\ t.phase = Closed(u, u.active)
      BY <2>1, EndSessionReturns
    <2> HIDE DEF t
    <2>5. Owned(t)
      BY <2>1, <2>3, <2>4, EndKeepsOwned
    <2>6. Closed(u, u.active) = Closed(s, s.active)
      BY <2>2 DEF Closed, SameSlot
    <2>7. BorrowScreen(s) = t
      BY <1>2 DEF BorrowScreen, t, u
    <2>8. QED
      BY <2>2, <2>4, <2>5, <2>6, <2>7 DEF SameSlot, SameShare, SameFlags
  <1>3. CASE ~WaitingShare(s)
    <2>1. BorrowScreen(s) = s /\ s.active = None
      BY <1>3 DEF BorrowScreen
    <2>2. ~s.sharePaused
      BY <1>1, <2>1 DEF Lent, RemoteActive, ActiveKind
    <2>3. QED
      BY <1>1, <2>1, <2>2 DEF Closed, Asked
  <1>4. QED
    BY <1>2, <1>3

LEMMA PromoteRemoteKeepsGood ==
    ASSUME ControllerAssumption, NEW s, Good(s), s.active = None \/ WaitingShare(s),
           NEW i \in Inst, s.listener = i
    PROVE  Good(PromoteRemote(s, i))
  <1> DEFINE b == BorrowScreen(s)
             t == [b EXCEPT !.listener = None, !.remoteLive = TRUE, !.active = i,
                            !.phase[i] = "live", !.mode = "hosting-live", !.awake = TRUE]
  <1>1. s \in State /\ Owned(s) /\ i # None
    BY DEF Good, ControllerAssumption
  <1>2. /\ b \in State /\ Owned(b) /\ b.active = None /\ b.listener = s.listener
        /\ b.share = s.share /\ b.retry = s.retry
        /\ (b.sharePaused => b.share /\ ~b.shareTimer) /\ b.consent = None
    BY BorrowScreenReturns
  <1> HIDE DEF b
  <1>3. t \in State
    BY <1>2, PromotedFields
  <1>4. /\ SameShare(b, t) /\ t.active = i /\ t.listener = None /\ t.kind = b.kind
        /\ t.phase = [b.phase EXCEPT ![i] = "live"] /\ t.mode = "hosting-live"
    BY <1>2 DEF State, SameShare, SameFlags
  <1>5. PromoteRemote(s, i) = t
    BY DEF PromoteRemote, b
  <1> HIDE DEF t
  <1>6. Owned(t)
    <2>1. b.phase \in [Inst -> Phases] /\ "live" \in Open
      BY <1>2 DEF State, Open
    <2>2. QED
      BY <1>1, <1>2, <1>4, <2>1 DEF Owned
  <1>7. ActiveKind(t) = "access"
    BY <1>1, <1>2, <1>4 DEF ActiveKind, Owned
  <1>8. s.share => ~s.retry
    BY DEF Good, Lent
  <1>9. Lent(t)
    BY <1>2, <1>4, <1>7, <1>8 DEF Lent, RemoteActive, SameShare, SameFlags
  <1>10. QED
    BY <1>2, <1>3, <1>4, <1>5, <1>6, <1>9 DEF Good, Asked, SameShare, SameFlags

LEMMA DropListenerKeepsGood ==
    ASSUME ControllerAssumption, NEW s, Good(s)
    PROVE  Good(DropListener(s))
  <1> DEFINE t == DropListener(s)
  <1>1. s \in State /\ Owned(s) /\ Lent(s) /\ Asked(s)
    BY DEF Good
  <1>2. /\ t \in State /\ SameShare(s, t) /\ t.active = s.active /\ t.listener = None
        /\ t.kind = s.kind /\ t.phase = Closed(s, s.listener) /\ t.mode = s.mode
    BY <1>1, DropListenerReturns
  <1> HIDE DEF t
  <1>3. Owned(t)
    BY <1>1, <1>2, DropKeepsOwned
  <1>4. Lent(t)
    BY <1>1, <1>2 DEF Lent, RemoteActive, ActiveKind, SameShare, SameFlags
  <1>5. Asked(t)
    BY <1>1, <1>2 DEF Asked, ActiveKind, SameShare, SameFlags
  <1>6. QED
    BY <1>2, <1>3, <1>4, <1>5 DEF Good, t

LEMMA ArmRemoteKeepsGood ==
    ASSUME NEW s, Good(s)
    PROVE  Good(ArmRemote(s)) /\ Good(ArmRemoteLater(s))
  BY ArmRemoteReturns, ArmRemoteLaterReturns, SameKeepsGood DEF Good

LEMMA ListenerFailedKeepsGood ==
    ASSUME ControllerAssumption, NEW s, Good(s), NEW later \in BOOLEAN
    PROVE  Good(ListenerFailed(s, later))
  BY DropListenerKeepsGood, ArmRemoteKeepsGood DEF ListenerFailed

LEMMA RemoteOffReturns ==
    ASSUME ControllerAssumption, NEW s, Good(s)
    PROVE  /\ Good(RemoteOff(s))
           /\ RemoteOff(s).active = s.active /\ RemoteOff(s).kind = s.kind
           /\ RemoteOff(s).phase = Closed(s, s.listener)
  <1> DEFINE u == DropListener(s)
             t == [u EXCEPT !.remote = None, !.remoteTimer = FALSE,
                            !.remotePaused = FALSE, !.remoteLive = FALSE]
  <1>1. s \in State
    BY DEF Good
  <1>2. Good(u) /\ u \in State /\ u.active = s.active /\ u.kind = s.kind
        /\ u.phase = Closed(s, s.listener)
    BY <1>1, DropListenerReturns, DropListenerKeepsGood
  <1> HIDE DEF u
  <1>3. t \in State
    BY <1>2, RemoteOffFields
  <1>4. SameSlot(u, t) /\ SameShare(u, t)
    BY <1>2 DEF State, SameSlot, SameShare, SameFlags
  <1>5. RemoteOff(s) = t
    BY DEF RemoteOff, u
  <1> HIDE DEF t
  <1>6. QED
    BY <1>2, <1>3, <1>4, <1>5, SameKeepsGood DEF SameSlot

(* The share that gets its screen back is a fresh host in the empty slot. *)
LEMMA FinishRemoteLiveKeepsGood ==
    ASSUME ControllerAssumption, NEW s, Good(s), RemoteActive(s), NEW j \in Free(s)
    PROVE  Good(FinishRemoteLive(s, j))
  <1> DEFINE e == EndSession(s)
             d == [e EXCEPT !.remoteLive = FALSE]
             p == [d EXCEPT !.sharePaused = FALSE]
             m == [d EXCEPT !.mode = "idle"]
             given == IF d.sharePaused
                      THEN LaunchHost(p, j)
                      ELSE IF d.active = None /\ ~d.share /\ ~d.retry THEN m ELSE d
  <1>1. s \in State /\ Owned(s) /\ Lent(s)
    BY DEF Good
  <1>2. /\ e \in State /\ SameFlags(s, e) /\ e.active = None /\ e.listener = s.listener
        /\ e.kind = s.kind /\ e.phase = Closed(s, s.active) /\ e.consent = None
    BY <1>1, EndSessionReturns
  <1>3. FinishRemoteLive(s, j) = ArmRemote(given)
    BY DEF FinishRemoteLive
  <1> HIDE DEF e
  <1>4. Owned(e)
    BY <1>1, <1>2, EndKeepsOwned
  <1>5. d \in State
    BY <1>2, FinishFields
  <1>6. /\ SameShare(e, d) /\ d.active = None /\ d.listener = e.listener
        /\ d.kind = e.kind /\ d.phase = e.phase
    BY <1>2 DEF State, SameShare, SameFlags
  <1> HIDE DEF d
  <1>7. p \in State /\ m \in State
    BY <1>5, FinishFields
  <1>8. /\ p.active = None /\ p.listener = d.listener /\ p.kind = d.kind /\ p.phase = d.phase
        /\ p.sharePaused = FALSE /\ p.share = d.share /\ p.retry = d.retry
        /\ p.consent = d.consent
        /\ SameShare(d, m) /\ m.active = None /\ m.listener = d.listener
        /\ m.kind = d.kind /\ m.phase = d.phase
    BY <1>5, <1>6 DEF State, SameShare, SameFlags
  <1> HIDE DEF p, m
  <1>9. s.share => ~s.retry
    BY <1>1 DEF Lent
  <1>10. Good(p)
    <2>1. Owned(p)
      BY <1>4, <1>6, <1>8, <1>2 DEF Owned
    <2>2. Lent(p)
      BY <1>2, <1>6, <1>8, <1>9, EmptyIsLent DEF LentWhenEmpty, SameShare, SameFlags
    <2>3. Asked(p)
      BY <1>2, <1>6, <1>8 DEF Asked, SameShare, SameFlags
    <2>4. QED
      BY <1>7, <2>1, <2>2, <2>3 DEF Good
  <1>11. CASE d.sharePaused
    <2>1. j \in Free(p)
      <3>1. p.phase = Closed(s, s.active)
        BY <1>2, <1>6, <1>8
      <3>2. QED
        BY <1>1, <3>1, FreeStaysFree
    <2>2. Good(LaunchHost(p, j))
      BY <1>10, <2>1, LaunchHostKeepsGood
    <2>3. QED
      BY <1>3, <1>11, <2>2, ArmRemoteKeepsGood
  <1>12. CASE ~d.sharePaused
    <2>1. Good(d)
      <3>1. Owned(d)
        BY <1>4, <1>6, <1>2 DEF Owned
      <3>2. Lent(d)
        BY <1>2, <1>6, <1>9, <1>12, EmptyIsLent DEF LentWhenEmpty, SameShare, SameFlags
      <3>3. Asked(d)
        BY <1>2, <1>6 DEF Asked, SameShare, SameFlags
      <3>4. QED
        BY <1>5, <3>1, <3>2, <3>3 DEF Good
    <2>2. Good(m)
      BY <1>6, <1>7, <1>8, <2>1, ModeKeepsGood
    <2>3. Good(given)
      BY <1>12, <2>1, <2>2
    <2>4. QED
      BY <1>3, <2>3, ArmRemoteKeepsGood
  <1>13. QED
    BY <1>11, <1>12

LEMMA DisableRemoteKeepsGood ==
    ASSUME ControllerAssumption, NEW s, Good(s), NEW j \in Free(s)
    PROVE  Good(DisableRemote(s, j))
  <1> DEFINE t == RemoteOff(s)
  <1>1. /\ Good(t) /\ t.active = s.active /\ t.kind = s.kind /\ t.phase = Closed(s, s.listener)
    BY RemoteOffReturns
  <1> HIDE DEF t
  <1>2. RemoteActive(s) => RemoteActive(t)
    BY <1>1 DEF RemoteActive, ActiveKind
  <1>3. j \in Free(t)
    BY <1>1, FreeStaysFree DEF Good
  <1>4. RemoteActive(s) => Good(FinishRemoteLive(t, j))
    BY <1>1, <1>2, <1>3, FinishRemoteLiveKeepsGood
  <1>5. QED
    BY <1>1, <1>4 DEF DisableRemote, t

LEMMA NewAccessCodeKeepsGood ==
    ASSUME ControllerAssumption, NEW s, Good(s), NEW j \in Free(s)
    PROVE  Good(NewAccessCode(s, j))
  <1> DEFINE u == Outdate(s, "access")
             d == DropListener(u)
             t == [d EXCEPT !.remoteTimer = FALSE]
  <1>1. u \in State /\ SameSlot(s, u) /\ SameShare(s, u)
    BY OutdateReturns DEF Good
  <1>2. NewAccessCode(s, j) =
          IF s.remote = None THEN s
          ELSE IF RemoteActive(s) THEN FinishRemoteLive(t, j) ELSE ArmRemote(t)
    BY DEF NewAccessCode
  <1> HIDE DEF u
  <1>3. Good(u)
    BY <1>1, SameKeepsGood
  <1>4. Good(d) /\ d \in State /\ d.active = u.active /\ d.kind = u.kind
        /\ d.phase = Closed(u, u.listener)
    BY <1>1, <1>3, DropListenerReturns, DropListenerKeepsGood
  <1> HIDE DEF d
  <1>5. t \in State
    BY <1>4, FinishFields
  <1>6. SameSlot(d, t) /\ SameShare(d, t)
    BY <1>4 DEF State, SameSlot, SameShare, SameFlags
  <1> HIDE DEF t
  <1>7. Good(t)
    BY <1>4, <1>5, <1>6, SameKeepsGood
  <1>8. RemoteActive(s) => RemoteActive(t)
    BY <1>1, <1>4, <1>6 DEF RemoteActive, ActiveKind, SameSlot
  <1>9. j \in Free(t)
    <2>1. j \in Free(u)
      BY <1>1 DEF Free, SameSlot
    <2>2. t.phase = Closed(u, u.listener)
      BY <1>4, <1>6 DEF SameSlot
    <2>3. QED
      BY <1>1, <1>3, <2>1, <2>2, FreeStaysFree DEF Good
  <1>10. RemoteActive(s) => Good(FinishRemoteLive(t, j))
    BY <1>7, <1>8, <1>9, FinishRemoteLiveKeepsGood
  <1>11. QED
    BY <1>2, <1>7, <1>10, ArmRemoteKeepsGood

LEMMA RefreshRemoteListenerKeepsGood ==
    ASSUME ControllerAssumption, NEW s, Good(s)
    PROVE  Good(RefreshRemoteListener(s))
  <1> DEFINE t == [s EXCEPT !.dirty = TRUE]
  <1>1. s \in State
    BY DEF Good
  <1>2. t \in State
    BY <1>1, FinishFields
  <1>3. SameSlot(s, t) /\ SameShare(s, t)
    BY <1>1 DEF State, SameSlot, SameShare, SameFlags
  <1> HIDE DEF t
  <1>4. Good(t)
    BY <1>2, <1>3, SameKeepsGood
  <1>5. Good(ArmRemote(DropListener(s)))
    BY DropListenerKeepsGood, ArmRemoteKeepsGood
  <1>6. QED
    BY <1>4, <1>5 DEF RefreshRemoteListener, t

LEMMA RetryViewerKeepsGood ==
    ASSUME ControllerAssumption, NEW s, Good(s), ActiveKind(s) = "viewer",
           NEW wasLive, NEW final
    PROVE  Good(RetryViewer(s, wasLive, final))
  <1> DEFINE e == EndSession(s)
             t == [e EXCEPT !.mode = "reconnecting", !.reconnect = TRUE, !.retry = TRUE]
  <1>1. s \in State /\ Owned(s) /\ ~s.share /\ ~s.sharePaused
    BY DEF Good, Lent
  <1>2. Good(e) /\ e.active = None /\ e.consent = None /\ e \in State /\ SameFlags(s, e)
    BY <1>1, EndSessionKeepsGood, EndSessionReturns
  <1>3. RetryViewer(s, wasLive, final) = IF final \/ ~(wasLive \/ s.again) THEN StopActive(s) ELSE t
    BY DEF RetryViewer
  <1> HIDE DEF e
  <1>4. t \in State
    BY <1>2, RetryFields
  <1>5. /\ t.active = None /\ t.listener = e.listener /\ t.kind = e.kind /\ t.phase = e.phase
        /\ t.share = e.share /\ t.sharePaused = e.sharePaused /\ t.consent = None
    BY <1>2 DEF State
  <1> HIDE DEF t
  <1>6. Owned(t)
    BY <1>2, <1>5 DEF Good, Owned
  <1>7. Lent(t)
    BY <1>1, <1>2, <1>5, EmptyIsLent DEF LentWhenEmpty, SameShare, SameFlags
  <1>8. Good(StopActive(s))
    BY StopActiveKeepsGood
  <1>9. QED
    BY <1>3, <1>4, <1>5, <1>6, <1>7, <1>8 DEF Good, Asked

----------------------------------------------------------------------------
(* The actions.                                                            *)

LEMMA InitIsGood ==
    ASSUME Init
    PROVE  Good(st)
  <1>1. st \in State
    <2>1. MaxRequests \in Nat
      BY ControllerAssumption
    <2>2. 0 \in 0..MaxRequests
      BY <2>1
    <2>3. /\ [i \in Inst |-> "share"] \in [Inst -> {"share", "access", "viewer"}]
          /\ [i \in Inst |-> "free"] \in [Inst -> Phases]
          /\ [i \in Inst |-> "old"] \in [Inst -> {"current", "old"}]
      BY DEF Phases
    <2>4. QED
      BY <2>2, <2>3, ZenonT(60) DEF Init, State, Modes
  <1>2. /\ st.active = None /\ st.listener = None /\ st.phase = [i \in Inst |-> "free"]
        /\ ~st.share /\ ~st.sharePaused /\ st.consent = None
    BY DEF Init
  <1>3. Owned(st)
    BY <1>2 DEF Owned, Open
  <1>4. Lent(st)
    BY <1>2, EmptyIsLent DEF LentWhenEmpty
  <1>5. QED
    BY <1>1, <1>2, <1>3, <1>4 DEF Good, Asked

(* Requests that only count or mark something. *)
LEMMA CountersKeepGood ==
    ASSUME ControllerAssumption, NEW s, Good(s), NEW n \in 0..MaxRequests, NEW b \in BOOLEAN,
           NEW c \in BOOLEAN, NEW r \in RemoteIds \cup {None}, NEW a \in SUBSET RemoteIds
    PROVE  /\ Good([s EXCEPT !.starting = n])
           /\ Good([s EXCEPT !.enabling = n])
           /\ Good([s EXCEPT !.enabling = n, !.remote = r, !.remotePaused = b])
           /\ Good([s EXCEPT !.loadStale = b, !.listenerStale = c])
           /\ Good([s EXCEPT !.remoteTimer = FALSE])
           /\ Good([s EXCEPT !.arms = a])
           /\ Good([s EXCEPT !.dirty = FALSE, !.loadStale = FALSE])
           /\ Good([s EXCEPT !.down = TRUE])
  <1>1. s \in State
    BY DEF Good
  <1>2. /\ [s EXCEPT !.starting = n] \in State
        /\ [s EXCEPT !.enabling = n] \in State
        /\ [s EXCEPT !.enabling = n, !.remote = r, !.remotePaused = b] \in State
        /\ [s EXCEPT !.loadStale = b, !.listenerStale = c] \in State
        /\ [s EXCEPT !.remoteTimer = FALSE] \in State
        /\ [s EXCEPT !.arms = a] \in State
        /\ [s EXCEPT !.dirty = FALSE, !.loadStale = FALSE] \in State
        /\ [s EXCEPT !.down = TRUE] \in State
    BY <1>1, CounterFields
  <1> DEFINE Same(t) == SameSlot(s, t) /\ SameShare(s, t)
  <1>3. /\ Same([s EXCEPT !.starting = n])
        /\ Same([s EXCEPT !.enabling = n])
        /\ Same([s EXCEPT !.enabling = n, !.remote = r, !.remotePaused = b])
        /\ Same([s EXCEPT !.loadStale = b, !.listenerStale = c])
        /\ Same([s EXCEPT !.remoteTimer = FALSE])
        /\ Same([s EXCEPT !.arms = a])
        /\ Same([s EXCEPT !.dirty = FALSE, !.loadStale = FALSE])
        /\ Same([s EXCEPT !.down = TRUE])
    BY <1>1 DEF State, SameSlot, SameShare, SameFlags
  <1>4. QED
    BY <1>2, <1>3, SameKeepsGood

LEMMA StartHostKeepsGood ==
    ASSUME ControllerAssumption, Good(st), StartHostBegin \/ StartHostLoaded
    PROVE  Good(st')
  <1>1. st \in State /\ MaxRequests \in Nat
    BY DEF Good, ControllerAssumption
  <1>2. CASE StartHostBegin
    <2>1. st.starting + 1 \in 0..MaxRequests
      BY <1>1, <1>2 DEF StartHostBegin, State
    <2>2. st' = [st EXCEPT !.starting = st.starting + 1]
      BY <1>2 DEF StartHostBegin
    <2>3. QED
      BY <2>1, <2>2, CountersKeepGood
  <1>3. CASE StartHostLoaded
    <2> DEFINE t == [st EXCEPT !.starting = st.starting - 1]
               o == ShareOff(t)
               u == [o EXCEPT !.share = TRUE]
    <2>1. PICK i \in Free(st) :
            st' = IF st.active = None /\ ~st.share /\ ~st.retry THEN LaunchHost(u, i) ELSE t
      BY <1>3 DEF StartHostLoaded
    <2>2. st.starting - 1 \in 0..MaxRequests
      BY <1>1, <1>3 DEF StartHostLoaded, State
    <2>3. Good(t)
      BY <2>2, CountersKeepGood
    <2>4. t \in State
      BY <2>3 DEF Good
    <2>5. SameSlot(st, t) /\ SameShare(st, t)
      BY <1>1 DEF State, SameSlot, SameShare, SameFlags
    <2> HIDE DEF t
    <2>6. /\ o \in State /\ SameSlot(t, o) /\ o.sharePaused = FALSE /\ o.retry = t.retry
          /\ o.consent = t.consent /\ o.guest = t.guest
      BY <2>4, ShareOffReturns
    <2> HIDE DEF o
    <2>7. u \in State
      BY <2>6, StartFields
    <2>8. /\ SameSlot(o, u) /\ u.sharePaused = FALSE /\ u.retry = o.retry
          /\ u.consent = o.consent /\ u.guest = o.guest
      BY <2>6 DEF State, SameSlot
    <2> HIDE DEF u
    <2>9. CASE st.active = None /\ ~st.share /\ ~st.retry
      <3>1. Owned(u)
        BY <2>5, <2>6, <2>8 DEF Good, Owned, SameSlot
      <3>2. u.active = None /\ LentWhenEmpty(u)
        BY <2>5, <2>6, <2>8, <2>9 DEF SameSlot, SameShare, SameFlags, LentWhenEmpty
      <3>3. Asked(u)
        <4>1. u.consent = st.consent /\ u.guest = st.guest /\ u.active = st.active
              /\ u.kind = st.kind
          BY <2>5, <2>6, <2>8 DEF SameSlot, SameShare
        <4>2. QED
          BY <4>1 DEF Good, Asked, ActiveKind
      <3>4. i \in Free(u)
        BY <2>5, <2>6, <2>8 DEF Free, SameSlot
      <3>5. QED
        BY <2>1, <2>7, <2>9, <3>1, <3>2, <3>3, <3>4, EmptyIsLent, LaunchHostKeepsGood DEF Good
    <2>10. CASE ~(st.active = None /\ ~st.share /\ ~st.retry)
      BY <2>1, <2>3, <2>10
    <2>11. QED
      BY <2>9, <2>10
  <1>4. QED
    BY <1>2, <1>3

LEMMA StartViewerRefusedKeepsGood ==
    ASSUME Good(st), StartViewerRefused
    PROVE  Good(st')
  <1> DEFINE t == [st EXCEPT !.retry = FALSE]
  <1>1. st' = t /\ st \in State
    BY DEF Good, StartViewerRefused
  <1>2. t \in State
    BY <1>1, StartFields
  <1>3. /\ SameSlot(st, t) /\ t.share = st.share /\ t.sharePaused = st.sharePaused
        /\ t.shareTimer = st.shareTimer /\ t.retry = FALSE
        /\ t.consent = st.consent /\ t.guest = st.guest
    BY <1>1 DEF State, SameSlot
  <1> HIDE DEF t
  <1>4. QED
    BY <1>1, <1>2, <1>3 DEF Good, Owned, Lent, Asked, SameSlot, RemoteActive, ActiveKind

LEMMA StartViewerKeepsGood ==
    ASSUME ControllerAssumption, Good(st), StartViewer
    PROVE  Good(st')
  <1> DEFINE t == [st EXCEPT !.retry = FALSE, !.reconnect = FALSE]
  <1>1. PICK i \in Free(st) : st' = LaunchViewer(t, i, FALSE)
    BY DEF StartViewer
  <1>2. st \in State /\ st.active = None /\ ~st.share
    BY DEF Good, StartViewer
  <1>3. t \in State
    BY <1>2, StartFields
  <1>4. /\ SameSlot(st, t) /\ t.share = st.share /\ t.sharePaused = st.sharePaused
        /\ t.consent = st.consent /\ t.guest = st.guest
    BY <1>2 DEF State, SameSlot
  <1> HIDE DEF t
  <1>5. Good(t)
    BY <1>2, <1>3, <1>4 DEF Good, Owned, Lent, Asked, SameSlot, RemoteActive, ActiveKind
  <1>6. i \in Free(t) /\ t.active = None /\ ~t.share
    BY <1>2, <1>4 DEF Free, SameSlot
  <1>7. QED
    BY <1>1, <1>5, <1>6, LaunchViewerKeepsGood

LEMMA EnableRemoteKeepsGood ==
    ASSUME ControllerAssumption, Good(st), EnableRemoteBegin \/ EnableRemoteReady
    PROVE  Good(st')
  <1>1. st \in State /\ MaxRequests \in Nat
    BY DEF Good, ControllerAssumption
  <1>2. CASE EnableRemoteBegin
    <2>1. PICK r \in RemoteIds \ st.arms :
            LET live == ActiveKind(st) \in {"share", "viewer"}
                          /\ st.mode \in {"hosting-live", "viewing"}
            IN st' = [st EXCEPT !.enabling = st.enabling + 1,
                                !.remote = IF st.remote = None THEN r ELSE st.remote,
                                !.remotePaused = IF st.remote = None THEN live ELSE st.remotePaused]
      BY <1>2 DEF EnableRemoteBegin
    <2> DEFINE n == st.enabling + 1
               q == IF st.remote = None THEN r ELSE st.remote
               b == IF st.remote = None
                    THEN ActiveKind(st) \in {"share", "viewer"}
                           /\ st.mode \in {"hosting-live", "viewing"}
                    ELSE st.remotePaused
    <2>2. n \in 0..MaxRequests
      <3>1. st.enabling \in 0..MaxRequests /\ st.enabling < MaxRequests
        BY <1>1, <1>2 DEF EnableRemoteBegin, State
      <3>2. QED
        BY <1>1, <3>1
    <2>3. q \in RemoteIds \cup {None}
      BY <1>1 DEF State
    <2>4. b \in BOOLEAN
      BY <1>1 DEF State
    <2>5. st' = [st EXCEPT !.enabling = n, !.remote = q, !.remotePaused = b]
      BY <2>1
    <2> HIDE DEF n, q, b
    <2>6. QED
      BY <2>2, <2>3, <2>4, <2>5, CountersKeepGood
  <1>3. CASE EnableRemoteReady
    <2>1. st.enabling - 1 \in 0..MaxRequests
      BY <1>1, <1>3 DEF EnableRemoteReady, State
    <2>2. st' = ArmRemote([st EXCEPT !.enabling = st.enabling - 1])
      BY <1>3 DEF EnableRemoteReady
    <2>3. QED
      BY <2>1, <2>2, CountersKeepGood, ArmRemoteKeepsGood
  <1>4. QED
    BY <1>2, <1>3

LEMMA ConsentAnsweredKeepsGood ==
    ASSUME ControllerAssumption, Good(st), NEW yes \in BOOLEAN, ConsentAnswered(yes)
    PROVE  Good(st')
  <1>1. /\ st \in State /\ Asked(st) /\ Owned(st) /\ Lent(st)
        /\ st.consent # None /\ st.active = st.consent
    BY DEF Good, ConsentAnswered, Current
  <1>2. st.consent \in Inst /\ st.guest \in Devices /\ st.kind[st.consent] = "share"
    BY <1>1 DEF Asked, ActiveKind, State
  <1>3. CASE yes
    <2> DEFINE t == [st EXCEPT !.approved = st.approved \cup {st.guest},
                               !.granted = st.granted \cup {st.guest}]
    <2>1. st' = GoLive(t, st.consent, st.guest)
      BY <1>3 DEF ConsentAnswered
    <2>2. /\ st.approved \cup {st.guest} \in SUBSET Devices
          /\ st.granted \cup {st.guest} \in SUBSET Devices
      BY <1>1, <1>2 DEF State
    <2>3. t \in State
      BY <1>1, <2>2, AnswerFields
    <2>4. SameSlot(st, t) /\ SameShare(st, t)
      BY <1>1 DEF State, SameSlot, SameShare, SameFlags
    <2> HIDE DEF t
    <2>5. Good(t) /\ t.active = st.consent /\ t.kind[st.consent] = "share"
      BY <1>1, <1>2, <2>3, <2>4, SameKeepsGood DEF SameSlot
    <2>6. QED
      BY <1>2, <2>1, <2>5, GoLiveKeepsGood
  <1>4. CASE ~yes
    <2> DEFINE t == [st EXCEPT !.consent = None]
    <2>1. st' = RearmHost(t)
      BY <1>4 DEF ConsentAnswered
    <2>2. t \in State
      BY <1>1, RefusedFields
    <2>3. SameSlot(st, t) /\ SameFlags(st, t) /\ t.consent = None
      BY <1>1 DEF State, SameSlot, SameFlags
    <2> HIDE DEF t
    <2>4. Good(t)
      BY <1>1, <2>2, <2>3
         DEF Good, Owned, Lent, Asked, RemoteActive, ActiveKind, SameSlot, SameFlags
    <2>5. QED
      BY <2>1, <2>4, RearmHostKeepsGood
  <1>5. QED
    BY <1>3, <1>4

LEMMA SettingsChangedKeepsGood ==
    ASSUME ControllerAssumption, Good(st), SettingsChanged
    PROVE  Good(st')
  <1> DEFINE b == st.remote \in st.arms
             c == st.listener # None
  <1>1. b \in BOOLEAN /\ c \in BOOLEAN
    OBVIOUS
  <1>2. st' = RefreshRemoteListener([st EXCEPT !.loadStale = b, !.listenerStale = c])
    BY DEF SettingsChanged
  <1> HIDE DEF b, c
  <1>3. Good([st EXCEPT !.loadStale = b, !.listenerStale = c])
    <2>1. 0 \in 0..MaxRequests
      BY DEF ControllerAssumption
    <2>2. None \in RemoteIds \cup {None} /\ {} \in SUBSET RemoteIds
      OBVIOUS
    <2>3. QED
      BY <1>1, <2>1, <2>2, CountersKeepGood
  <1>4. QED
    BY <1>2, <1>3, RefreshRemoteListenerKeepsGood

LEMMA ShutdownKeepsGood ==
    ASSUME ControllerAssumption, Good(st), Shutdown
    PROVE  Good(st')
  <1> DEFINE t == StopActive(RemoteOff(st))
  <1>1. st' = [t EXCEPT !.down = TRUE]
    BY DEF Shutdown
  <1>2. Good(t)
    BY RemoteOffReturns, StopActiveKeepsGood
  <1> HIDE DEF t
  <1>3. 0 \in 0..MaxRequests /\ TRUE \in BOOLEAN
    BY DEF ControllerAssumption
  <1>4. None \in RemoteIds \cup {None} /\ {} \in SUBSET RemoteIds
    OBVIOUS
  <1>5. QED
    BY <1>1, <1>2, <1>3, <1>4, CountersKeepGood

LEMMA ForgetKeepsGood ==
    ASSUME ControllerAssumption, NEW s, Good(s), NEW i \in Inst, s.active # i, s.listener # i
    PROVE  Good(Forget(s, i))
  <1> DEFINE t == Forget(s, i)
  <1>1. s \in State /\ Owned(s) /\ Lent(s) /\ Asked(s)
    BY DEF Good
  <1>2. /\ t \in State /\ SameShare(s, t) /\ t.active = s.active /\ t.listener = s.listener
        /\ t.kind = s.kind /\ t.phase = [s.phase EXCEPT ![i] = "free"] /\ t.mode = s.mode
    BY <1>1, ForgetReturns
  <1> HIDE DEF t
  <1>3. Owned(t)
    <2>1. /\ s.phase \in [Inst -> Phases] /\ "free" \notin Open /\ None \notin Inst
          /\ s.active \in Inst \cup {None} /\ s.listener \in Inst \cup {None}
      BY <1>1 DEF State, Open, ControllerAssumption
    <2>2. QED
      BY <1>1, <1>2, <2>1 DEF Owned
  <1>4. Lent(t) /\ Asked(t)
    BY <1>1, <1>2 DEF Lent, Asked, RemoteActive, ActiveKind, SameShare, SameFlags
  <1>5. QED
    BY <1>2, <1>3, <1>4 DEF Good, t

LEMMA HostKeepsGood ==
    ASSUME ControllerAssumption, Good(st), NEW i \in Inst,
           \/ \E d \in Devices, auto \in BOOLEAN : HostConsentRequest(i, d, auto)
           \/ HostEnds(i)
    PROVE  Good(st')
  <1>1. st \in State /\ Owned(st) /\ Lent(st) /\ Asked(st) /\ st.kind[i] = "share" /\ i # None
    BY DEF Good, HostConsentRequest, HostEnds, ControllerAssumption
  <1>2. ASSUME NEW d \in Devices, NEW auto \in BOOLEAN, HostConsentRequest(i, d, auto)
        PROVE  Good(st')
    <2> DEFINE t == [st EXCEPT !.phase[i] = "consent", !.consent = i, !.guest = d,
                               !.mode = "hosting-consent"]
    <2>1. st.active = i /\ (st' = GoLive(st, i, d) \/ st' = t)
      BY <1>2 DEF HostConsentRequest, Current
    <2>2. Good(GoLive(st, i, d))
      BY <1>1, <2>1, GoLiveKeepsGood
    <2>3. t \in State
      BY <1>1, AskFields
    <2>4. /\ t.active = i /\ t.listener = st.listener /\ t.kind = st.kind
          /\ t.phase = [st.phase EXCEPT ![i] = "consent"] /\ SameFlags(st, t)
          /\ t.consent = i /\ t.guest = d
      BY <1>1, <2>1 DEF State, SameFlags
    <2> HIDE DEF t
    <2>5. Owned(t)
      <3>1. st.phase \in [Inst -> Phases] /\ "consent" \in Open
        BY <1>1 DEF State, Open
      <3>2. QED
        BY <1>1, <2>1, <2>4, <3>1 DEF Owned
    <2>6. ActiveKind(t) = "share" /\ ActiveKind(st) = "share"
      BY <1>1, <2>1, <2>4 DEF ActiveKind
    <2>7. Lent(t) /\ Asked(t)
      BY <1>1, <2>4, <2>6 DEF Lent, Asked, RemoteActive, SameFlags
    <2>8. QED
      BY <2>1, <2>2, <2>3, <2>5, <2>7 DEF Good
  <1>3. CASE HostEnds(i)
    <2>1. st' = IF st.active = i THEN RearmHost(st) ELSE Forget(st, i)
      BY <1>3 DEF HostEnds, Current
    <2>2. st.listener # i
      BY <1>1 DEF Owned
    <2>3. QED
      BY <2>1, <2>2, RearmHostKeepsGood, ForgetKeepsGood
  <1>4. QED
    BY <1>2, <1>3

LEMMA ViewerKeepsGood ==
    ASSUME ControllerAssumption, Good(st), NEW i \in Inst,
           ViewerSecure(i) \/ \E final \in BOOLEAN : ViewerEnds(i, final)
    PROVE  Good(st')
  <1>1. st \in State /\ Owned(st) /\ Lent(st) /\ Asked(st) /\ st.kind[i] = "viewer" /\ i # None
    BY DEF Good, ViewerSecure, ViewerEnds, ControllerAssumption
  <1>2. CASE ViewerSecure(i)
    <2> DEFINE t == [st EXCEPT !.phase[i] = "live", !.mode = "viewing",
                               !.reconnect = FALSE, !.awake = TRUE]
    <2>1. st.active = i /\ st' = PauseRemoteListener(t)
      BY <1>2 DEF ViewerSecure, Current
    <2>2. t \in State
      BY <1>1, ViewingFields
    <2>3. /\ t.active = i /\ t.listener = st.listener /\ t.kind = st.kind
          /\ t.phase = [st.phase EXCEPT ![i] = "live"] /\ SameShare(st, t)
      BY <1>1, <2>1 DEF State, SameShare, SameFlags
    <2> HIDE DEF t
    <2>4. Owned(t)
      <3>1. st.phase \in [Inst -> Phases] /\ "live" \in Open
        BY <1>1 DEF State, Open
      <3>2. QED
        BY <1>1, <2>1, <2>3, <3>1 DEF Owned
    <2>5. ActiveKind(t) = "viewer" /\ ActiveKind(st) = "viewer"
      BY <1>1, <2>1, <2>3 DEF ActiveKind
    <2>6. Lent(t) /\ Asked(t)
      BY <1>1, <2>3, <2>5 DEF Lent, Asked, RemoteActive, SameShare, SameFlags
    <2>7. QED
      BY <2>1, <2>2, <2>4, <2>6, PauseKeepsGood DEF Good
  <1>3. ASSUME NEW final \in BOOLEAN, ViewerEnds(i, final)
        PROVE  Good(st')
    <2>1. st' = IF st.active = i THEN RetryViewer(st, st.phase[i] = "live", final)
                                 ELSE Forget(st, i)
      BY <1>3 DEF ViewerEnds, Current
    <2>2. st.listener # i
      BY <1>1 DEF Owned
    <2>3. CASE st.active = i
      <3>1. ActiveKind(st) = "viewer"
        BY <1>1, <2>3 DEF ActiveKind
      <3>2. QED
        BY <2>1, <2>3, <3>1, RetryViewerKeepsGood
    <2>4. CASE st.active # i
      BY <2>1, <2>2, <2>4, ForgetKeepsGood
    <2>5. QED
      BY <2>3, <2>4
  <1>4. QED
    BY <1>2, <1>3

LEMMA AccessKeepsGood ==
    ASSUME ControllerAssumption, Good(st), NEW i \in Inst,
           RemoteConnects(i) \/ \E later \in BOOLEAN : AccessEnds(i, later)
    PROVE  Good(st')
  <1>1. CASE RemoteConnects(i)
    BY <1>1, PromoteRemoteKeepsGood DEF RemoteConnects
  <1>2. ASSUME NEW later \in BOOLEAN, AccessEnds(i, later)
        PROVE  Good(st')
    <2>1. CASE st.listener = i /\ st' = ListenerFailed(st, later)
      BY <2>1, ListenerFailedKeepsGood
    <2>2. CASE st.active = i /\ \E j \in Free(st) : st' = FinishRemoteLive(st, j)
      <3>1. RemoteActive(st)
        BY <1>2, <2>2 DEF AccessEnds, RemoteActive, ActiveKind, ControllerAssumption
      <3>2. QED
        BY <2>2, <3>1, FinishRemoteLiveKeepsGood
    <2>3. CASE st.active # i /\ st.listener # i /\ st' = Forget(st, i)
      BY <2>3, ForgetKeepsGood
    <2>4. QED
      BY <1>2, <2>1, <2>2, <2>3 DEF AccessEnds, Current
  <1>3. QED
    BY <1>1, <1>2

LEMMA TimersKeepGood ==
    ASSUME ControllerAssumption, Good(st), ShareTimerFires \/ RetryTimerFires \/ RemoteTimerFires
    PROVE  Good(st')
  <1>1. st \in State /\ Owned(st) /\ Lent(st) /\ Asked(st)
    BY DEF Good
  <1>2. CASE ShareTimerFires
    <2> DEFINE t == [st EXCEPT !.shareTimer = FALSE]
    <2>1. PICK i \in Free(st) : st' = LaunchHost(t, i)
      BY <1>2 DEF ShareTimerFires
    <2>2. t \in State
      BY <1>1, StartFields
    <2>3. /\ SameSlot(st, t) /\ t.share = st.share /\ t.sharePaused = st.sharePaused
          /\ t.shareTimer = FALSE /\ t.retry = st.retry
          /\ t.consent = st.consent /\ t.guest = st.guest
      BY <1>1 DEF State, SameSlot
    <2> HIDE DEF t
    <2>4. Good(t)
      BY <1>1, <2>2, <2>3 DEF Good, Owned, Lent, Asked, SameSlot, RemoteActive, ActiveKind
    <2>5. i \in Free(t)
      BY <2>3 DEF Free, SameSlot
    <2>6. QED
      BY <2>1, <2>4, <2>5, LaunchHostKeepsGood
  <1>3. CASE RetryTimerFires
    <2> DEFINE t == [st EXCEPT !.retry = FALSE]
    <2>1. PICK i \in Free(st) : st' = IF st.active = None THEN LaunchViewer(t, i, TRUE) ELSE t
      BY <1>3 DEF RetryTimerFires
    <2>2. t \in State
      BY <1>1, StartFields
    <2>3. /\ SameSlot(st, t) /\ t.share = st.share /\ t.sharePaused = st.sharePaused
          /\ t.shareTimer = st.shareTimer /\ t.retry = FALSE
          /\ t.consent = st.consent /\ t.guest = st.guest
      BY <1>1 DEF State, SameSlot
    <2> HIDE DEF t
    <2>4. Good(t)
      BY <1>1, <2>2, <2>3 DEF Good, Owned, Lent, Asked, SameSlot, RemoteActive, ActiveKind
    <2>5. i \in Free(t) /\ ~t.share
      BY <1>1, <1>3, <2>3 DEF Free, SameSlot, RetryTimerFires, Lent
    <2>6. st.active = None => Good(LaunchViewer(t, i, TRUE))
      BY <2>3, <2>4, <2>5, LaunchViewerKeepsGood DEF SameSlot
    <2>7. QED
      BY <2>1, <2>4, <2>6
  <1>4. CASE RemoteTimerFires
    <2> DEFINE t == [st EXCEPT !.remoteTimer = FALSE]
    <2>1. st' = ArmRemote(t)
      BY <1>4 DEF RemoteTimerFires
    <2>2. t \in State
      BY <1>1, FinishFields
    <2>3. SameSlot(st, t) /\ SameShare(st, t)
      BY <1>1 DEF State, SameSlot, SameShare, SameFlags
    <2> HIDE DEF t
    <2>4. QED
      BY <2>1, <2>2, <2>3, SameKeepsGood, ArmRemoteKeepsGood
  <1>5. QED
    BY <1>2, <1>3, <1>4

(* A listener is only ever added where there was none. *)
LEMMA ArmLoadedKeepsGood ==
    ASSUME ControllerAssumption, Good(st), NEW r \in RemoteIds, ArmLoaded(r)
    PROVE  Good(st')
  <1> DEFINE a == st.arms \ {r}
             t == [st EXCEPT !.arms = a]
             w == [st EXCEPT !.dirty = FALSE, !.loadStale = FALSE]
  <1>1. st \in State
    BY DEF Good
  <1>2. a \in SUBSET RemoteIds
    BY <1>1 DEF State
  <1>3. \/ st' = w
        \/ /\ CanArm(t)
           /\ \E i \in Free(st) :
                st' = [Create(t, i, "access") EXCEPT !.listener = i, !.listenerStale = st.loadStale]
        \/ st' = t
    BY DEF ArmLoaded
  <1>4. Good(t) /\ Good(w)
    <2>1. 0 \in 0..MaxRequests /\ TRUE \in BOOLEAN
      BY DEF ControllerAssumption
    <2>2. None \in RemoteIds \cup {None}
      OBVIOUS
    <2> HIDE DEF a
    <2>3. QED
      BY <1>2, <2>1, <2>2, CountersKeepGood
  <1>5. t \in State
    BY <1>4 DEF Good
  <1>6. SameSlot(st, t)
    BY <1>1 DEF State, SameSlot
  <1> HIDE DEF t, w
  <1>7. ASSUME CanArm(t), NEW i \in Free(st)
        PROVE  Good([Create(t, i, "access") EXCEPT !.listener = i, !.listenerStale = st.loadStale])
    <2> DEFINE u == Create(t, i, "access")
               v == [u EXCEPT !.listener = i, !.listenerStale = st.loadStale]
    <2>1. i \in Inst /\ t.phase[i] = "free" /\ t.listener = None /\ st.loadStale \in BOOLEAN
      BY <1>1, <1>6, <1>7 DEF CanArm, Free, SameSlot, State
    <2>2. /\ u \in State /\ SameShare(t, u) /\ u.active = t.active /\ u.mode = t.mode
          /\ u.kind = [t.kind EXCEPT ![i] = "access"]
          /\ u.phase = [t.phase EXCEPT ![i] = "waiting"]
      BY <1>5, <2>1, CreateReturns
    <2> HIDE DEF u
    <2>3. v \in State
      BY <2>1, <2>2, ListeningFields
    <2>4. /\ v.listener = i /\ SameShare(u, v) /\ v.active = u.active /\ v.mode = u.mode
          /\ v.kind = u.kind /\ v.phase = u.phase
      BY <2>2 DEF State, SameShare, SameFlags
    <2> HIDE DEF v
    <2>5. /\ Owned(t) /\ Lent(t) /\ Asked(t) /\ t.phase \in [Inst -> Phases]
          /\ t.kind \in [Inst -> {"share", "access", "viewer"}]
          /\ t.active \in Inst \cup {None}
          /\ "free" \notin Open /\ "waiting" \in Open /\ None \notin Inst
      BY <1>4, <1>5 DEF Good, State, Open, ControllerAssumption
    <2>6. t.active # i
      BY <2>1, <2>5 DEF Owned
    <2>7. Owned(v)
      BY <2>1, <2>2, <2>4, <2>5, <2>6 DEF Owned
    <2>8. ActiveKind(v) = ActiveKind(t)
      BY <2>1, <2>2, <2>4, <2>5, <2>6 DEF ActiveKind
    <2>9. Lent(v) /\ Asked(v)
      BY <2>2, <2>4, <2>5, <2>8 DEF Lent, Asked, RemoteActive, SameShare, SameFlags
    <2>10. QED
      BY <2>3, <2>7, <2>9 DEF Good, v, u
  <1>8. QED
    BY <1>3, <1>4, <1>7

LEMMA UserKeepsGood ==
    ASSUME ControllerAssumption, Good(st),
           \/ Stop \/ UserNewShareCode \/ UserDisableRemote \/ UserNewAccessCode
           \/ UserEndRemoteSession
    PROVE  Good(st')
  <1>1. CASE Stop
    BY <1>1, StopActiveKeepsGood DEF Stop
  <1>2. CASE UserNewShareCode
    BY <1>2, NewShareCodeKeepsGood DEF UserNewShareCode
  <1>3. CASE UserDisableRemote
    BY <1>3, DisableRemoteKeepsGood DEF UserDisableRemote
  <1>4. CASE UserNewAccessCode
    BY <1>4, NewAccessCodeKeepsGood DEF UserNewAccessCode
  <1>5. CASE UserEndRemoteSession
    BY <1>5, FinishRemoteLiveKeepsGood DEF UserEndRemoteSession
  <1>6. QED
    BY <1>1, <1>2, <1>3, <1>4, <1>5

LEMMA NextKeepsGood ==
    ASSUME ControllerAssumption, Good(st), [Next]_st
    PROVE  Good(st')
  <1>1. CASE Request
    BY <1>1, StartHostKeepsGood, StartViewerKeepsGood, StartViewerRefusedKeepsGood,
       EnableRemoteKeepsGood, UserKeepsGood,
       SettingsChangedKeepsGood, ShutdownKeepsGood, ConsentAnsweredKeepsGood DEF Request
  <1>2. CASE Event
    BY <1>2, HostKeepsGood, ViewerKeepsGood, AccessKeepsGood DEF Event
  <1>3. CASE Continuation
    BY <1>3, StartHostKeepsGood, EnableRemoteKeepsGood, TimersKeepGood, ArmLoadedKeepsGood
       DEF Continuation
  <1>4. CASE UNCHANGED st
    BY <1>4
  <1>5. QED
    BY <1>1, <1>2, <1>3, <1>4 DEF Next

----------------------------------------------------------------------------
(* The theorems.                                                           *)

(* Good is an invariant of every behaviour of the controller. *)
THEOREM AlwaysGood == Spec => []Good(st)
  <1>1. Init => Good(st)
    BY InitIsGood
  <1>2. Good(st) /\ [Next]_st => Good(st')
    BY ControllerAssumption, NextKeepsGood
  <1> DEFINE G == Good(st)
  <1>3. Init => G
    BY <1>1
  <1>4. G /\ [Next]_st => G'
    BY <1>2
  <1> HIDE DEF G
  <1>5. Spec => []G
    BY <1>3, <1>4, PTL DEF Spec
  <1>6. QED
    BY <1>5 DEF G

(* Every variable of the controller keeps its kind, whatever the user, the
   viewers and the timers do (the closure variables of startUi). *)
THEOREM TypeCorrect == Spec => []TypeOK
  <1>1. Good(st) => TypeOK
    BY DEF Good, TypeOK
  <1>2. QED
    BY <1>1, AlwaysGood, PTL

(* However many sessions were started, dropped and replaced: nothing the
   controller made keeps running without being the active instance or the
   listener (endSession, launchHost, armRemote, promoteRemote). *)
THEOREM NothingRunsUnowned == Spec => []NoOrphanInstance
  <1>1. Good(st) => NoOrphanInstance
    <2> SUFFICES ASSUME Good(st)
                 PROVE  NoOrphanInstance
      OBVIOUS
    <2>1. Owned(st)
      BY DEF Good
    <2>2. QED
      BY <2>1 DEF Owned, NoOrphanInstance
  <1>2. QED
    BY <1>1, AlwaysGood, PTL

(* A paused share always has a borrower whose end gives the screen back, and
   sharing excludes viewing (approveRemote, finishRemoteLive, retryViewer). *)
THEOREM PausedShareHasABorrower == Spec => []PausedShareIsLent
  <1>1. Good(st) => PausedShareIsLent
    BY DEF Good, Lent, PausedShareIsLent
  <1>2. QED
    BY <1>1, AlwaysGood, PTL


----------------------------------------------------------------------------
(* What a session looks like: the second inductive invariant.              *)

(* The mode on the page for an active instance of kind k in phase p. *)
Looks(k, p, m) ==
    \/ k = "share" /\ p = "waiting" /\ m = "hosting-waiting"
    \/ k = "share" /\ p = "consent" /\ m = "hosting-consent"
    \/ k \in {"share", "access"} /\ p = "live" /\ m = "hosting-live"
    \/ k = "viewer" /\ p = "waiting" /\ m \in {"connecting", "reconnecting"}
    \/ k = "viewer" /\ p = "live" /\ m = "viewing"

(* The page shows what the active instance does, and asks for consent exactly
   when it waits for the answer. *)
Shown(s) ==
    /\ s.active # None =>
         /\ Looks(s.kind[s.active], s.phase[s.active], s.mode)
         /\ s.consent = IF s.phase[s.active] = "consent" THEN s.active ELSE None
    /\ s.active = None => s.mode # "hosting-consent" /\ s.consent = None
    /\ ActiveKind(s) = "share" => s.share

(* Only the active instance waits for an answer. *)
Alone(s) == \A i \in Inst : s.phase[i] = "consent" => i = s.active

(* Who is let in without asking was allowed, and the listener has the new code. *)
Listed(s) ==
    /\ s.approved \subseteq s.granted
    /\ s.listener # None => s.code[s.listener] = "current"

(* Nothing listens or is about to while paused or switched off; a load that is
   on its way will be repeated if the settings changed meanwhile. *)
Resting(s) ==
    /\ s.remotePaused \/ s.remote = None => s.listener = None /\ ~s.remoteTimer
    /\ s.remotePaused => s.remote # None
    /\ s.remoteLive => RemoteActive(s)
    /\ s.remote \in s.arms => s.listener = None /\ (s.loadStale => s.dirty)
    /\ s.listener # None => ~s.listenerStale

(* Who is in, or may still get in, has the code in force or was allowed in. *)
Keyed(s) ==
    /\ RemoteActive(s) => s.code[s.active] = "current"
    /\ ActiveKind(s) = "share" =>
         /\ s.phase[s.active] # "live" => s.code[s.active] = "current"
         /\ s.phase[s.active] = "live" /\ s.code[s.active] = "current" => s.guest \in s.granted

(* The listener steps aside for exactly the other live sessions. *)
Aside(s) ==
    /\ s.remotePaused <=> /\ s.remote # None
                          /\ ActiveKind(s) \in {"share", "viewer"}
                          /\ s.phase[s.active] = "live"
    /\ RemoteActive(s) => s.remoteLive

(* Remote access that is on and neither paused nor in use listens, or will. *)
Heard(s) ==
    s.remote # None /\ ~s.remotePaused /\ ~s.remoteLive =>
        s.listener # None \/ s.remoteTimer \/ s.remote \in s.arms \/ s.enabling > 0

\* Every operator keeps the first; the second waits for the mode to be set, the
\* third for the listener to be armed.
Kept(s)   == s \in State /\ Alone(s) /\ Listed(s) /\ Resting(s)
Steady(s) == Kept(s) /\ Shown(s) /\ Keyed(s) /\ Aside(s)
Calm(s)   == Steady(s) /\ Heard(s)

\* After the end of a session.
Vacant(s) == Kept(s) /\ s.active = None /\ s.consent = None /\ ~s.remotePaused /\ ~s.remoteLive

----------------------------------------------------------------------------
(* What the operators do to the remaining fields.                          *)

SamePapers(s, t) == t.code = s.code /\ t.approved = s.approved /\ t.granted = s.granted

SameRemote(s, t) ==
    /\ t.remote = s.remote /\ t.remoteTimer = s.remoteTimer
    /\ t.remotePaused = s.remotePaused /\ t.remoteLive = s.remoteLive
    /\ t.arms = s.arms /\ t.dirty = s.dirty /\ t.loadStale = s.loadStale
    /\ t.listenerStale = s.listenerStale /\ t.enabling = s.enabling

SameRest(s, t) == SamePapers(s, t) /\ SameRemote(s, t)

LEMMA CloseInstRest ==
    ASSUME NEW s \in State, NEW i \in Inst \cup {None}
    PROVE  SameRest(s, CloseInst(s, i))
  BY CloseInstReturns DEF State, SameRest, SamePapers, SameRemote

LEMMA DropListenerRest ==
    ASSUME NEW s \in State
    PROVE  SameRest(s, DropListener(s))
  <1> DEFINE u == CloseInst(s, s.listener)
  <1>1. u \in State /\ SameRest(s, u)
    BY CloseInstReturns, CloseInstRest DEF State
  <1> HIDE DEF u
  <1>2. QED
    BY <1>1 DEF DropListener, State, SameRest, SamePapers, SameRemote, u

LEMMA CreateRest ==
    ASSUME NEW s \in State, NEW i \in Inst, NEW k \in {"share", "access", "viewer"}
    PROVE  /\ SameRemote(s, Create(s, i, k))
           /\ Create(s, i, k).approved = s.approved /\ Create(s, i, k).granted = s.granted
           /\ Create(s, i, k).code = [s.code EXCEPT ![i] = "current"]
  BY DEF Create, State, SameRemote

LEMMA ForgetRest ==
    ASSUME NEW s \in State, NEW i \in Inst
    PROVE  /\ SameRemote(s, Forget(s, i))
           /\ Forget(s, i).approved = s.approved /\ Forget(s, i).granted = s.granted
           /\ Forget(s, i).code = [s.code EXCEPT ![i] = "old"]
  BY DEF Forget, State, SameRemote

LEMMA ShareOffRest ==
    ASSUME NEW s \in State
    PROVE  /\ SameRemote(s, ShareOff(s)) /\ ShareOff(s).code = s.code
           /\ ShareOff(s).approved = {} /\ ShareOff(s).granted = {}
  BY DEF ShareOff, State, SameRemote

LEMMA OutdateRest ==
    ASSUME NEW s \in State, NEW k
    PROVE  /\ SameRemote(s, Outdate(s, k))
           /\ Outdate(s, k).approved = s.approved /\ Outdate(s, k).granted = s.granted
           /\ \A i \in Inst : s.kind[i] # k => Outdate(s, k).code[i] = s.code[i]
           /\ \A i \in Inst : s.kind[i] = k => Outdate(s, k).code[i] = "old"
  <1> DEFINE c == [i \in Inst |-> IF s.kind[i] = k THEN "old" ELSE s.code[i]]
  <1>1. Outdate(s, k) = [s EXCEPT !.code = c]
    BY DEF Outdate
  <1>2. \A i \in Inst : c[i] = IF s.kind[i] = k THEN "old" ELSE s.code[i]
    OBVIOUS
  <1> HIDE DEF c
  <1>3. QED
    BY <1>1, <1>2 DEF State, SameRemote

\* armRemote and its delayed form: what may differ.
Rearmed(s, t) ==
    /\ SamePapers(s, t)
    /\ t.remote = s.remote /\ t.remotePaused = s.remotePaused /\ t.remoteLive = s.remoteLive
    /\ t.listenerStale = s.listenerStale /\ t.enabling = s.enabling
    /\ \/ ~CanArm(s) /\ SameRemote(s, t)
       \/ /\ CanArm(s) /\ t.remoteTimer = s.remoteTimer
          /\ t.arms = s.arms \cup {s.remote} /\ t.dirty = FALSE /\ t.loadStale = FALSE
       \/ /\ CanArm(s) /\ t.remoteTimer = TRUE
          /\ t.arms = s.arms /\ t.dirty = s.dirty /\ t.loadStale = s.loadStale

LEMMA ArmRemoteRest ==
    ASSUME NEW s \in State
    PROVE  Rearmed(s, ArmRemote(s)) /\ Rearmed(s, ArmRemoteLater(s))
  <1>1. CASE CanArm(s)
    <2>1. s.arms \cup {s.remote} \in SUBSET RemoteIds
      BY <1>1 DEF CanArm, State
    <2>2. Rearmed(s, ArmRemote(s))
      BY <1>1, <2>1 DEF ArmRemote, State, Rearmed, SamePapers
    <2>3. Rearmed(s, ArmRemoteLater(s))
      BY <1>1 DEF ArmRemoteLater, State, Rearmed, SamePapers
    <2>4. QED
      BY <2>2, <2>3
  <1>2. CASE ~CanArm(s)
    BY <1>2 DEF ArmRemote, ArmRemoteLater, Rearmed, SamePapers, SameRemote
  <1>3. QED
    BY <1>1, <1>2

----------------------------------------------------------------------------
(* Operators that change nothing the invariant speaks of.                  *)

LEMMA SameKeepsKept ==
    ASSUME NEW s, Kept(s), NEW t \in State, t.active = s.active, t.listener = s.listener,
           t.kind = s.kind, t.phase = s.phase, SameRest(s, t)
    PROVE  Kept(t) /\ (Heard(s) => Heard(t))
  BY DEF Kept, Alone, Listed, Resting, Heard, RemoteActive, ActiveKind,
         SameRest, SamePapers, SameRemote

LEMMA SameKeepsSteady ==
    ASSUME NEW s, Steady(s), NEW t \in State, SameSlot(s, t), SameRest(s, t),
           t.share = s.share, t.consent = s.consent, t.guest = s.guest
    PROVE  Steady(t) /\ (Heard(s) => Heard(t))
  <1>1. Kept(s) /\ Shown(s) /\ Keyed(s) /\ Aside(s)
    BY DEF Steady
  <1>2. Kept(t) /\ (Heard(s) => Heard(t))
    BY <1>1, SameKeepsKept DEF SameSlot
  <1>3. Shown(t)
    BY <1>1 DEF Shown, ActiveKind, SameSlot
  <1>4. Keyed(t)
    BY <1>1 DEF Keyed, RemoteActive, ActiveKind, SameSlot, SameRest, SamePapers
  <1>5. Aside(t)
    BY <1>1 DEF Aside, RemoteActive, ActiveKind, SameSlot, SameRest, SameRemote
  <1>6. QED
    BY <1>2, <1>3, <1>4, <1>5 DEF Steady

(* An empty slot is steady in every mode but the consent prompt. *)
LEMMA VacantIsSteady ==
    ASSUME NEW s, Vacant(s), s.mode # "hosting-consent"
    PROVE  Steady(s)
  BY DEF Vacant, Steady, Shown, Keyed, Aside, RemoteActive, ActiveKind

(* Arming keeps the invariant and makes remote access heard. *)
LEMMA RearmedKeeps ==
    ASSUME NEW s \in State, NEW t \in State, Rearmed(s, t), SameSlot(s, t), SameShare(s, t)
    PROVE  /\ Kept(s) => Kept(t)
           /\ Steady(s) => Steady(t)
           /\ Vacant(s) => Vacant(t)
           /\ Heard(t)
  <1>1. Kept(s) => Kept(t)
    <2>1. ASSUME Kept(s) PROVE Alone(t) /\ Listed(t)
      BY <2>1 DEF Kept, Alone, Listed, Rearmed, SamePapers, SameSlot
    <2>2. ASSUME Kept(s) PROVE Resting(t)
      BY <2>2 DEF Kept, Resting, RemoteActive, ActiveKind, Rearmed, CanArm, SameRemote, SameSlot
    <2>3. QED
      BY <2>1, <2>2 DEF Kept
  <1>2. ASSUME Steady(s) PROVE Steady(t)
    <2>1. Kept(t)
      BY <1>1, <1>2 DEF Steady
    <2>2. Shown(t)
      BY <1>2 DEF Steady, Shown, ActiveKind, SameSlot, SameShare, SameFlags
    <2>3. Keyed(t)
      BY <1>2 DEF Steady, Keyed, RemoteActive, ActiveKind, SameSlot, SameShare, Rearmed, SamePapers
    <2>4. Aside(t)
      BY <1>2 DEF Steady, Aside, RemoteActive, ActiveKind, SameSlot, Rearmed
    <2>5. QED
      BY <2>1, <2>2, <2>3, <2>4 DEF Steady
  <1>3. Vacant(s) => Vacant(t)
    BY <1>1 DEF Vacant, Rearmed, SameSlot, SameShare
  <1>4. Heard(t)
    BY DEF Heard, Rearmed, CanArm, SameRemote, SameSlot
  <1>5. QED
    BY <1>1, <1>2, <1>3, <1>4

LEMMA ArmRemoteKeeps ==
    ASSUME NEW s \in State
    PROVE  /\ Kept(s) => Kept(ArmRemote(s))
           /\ Steady(s) => Calm(ArmRemote(s)) /\ Calm(ArmRemoteLater(s))
           /\ Vacant(s) => Vacant(ArmRemote(s))
           /\ Heard(ArmRemote(s))
  <1>1. ArmRemote(s) \in State /\ SameSlot(s, ArmRemote(s)) /\ SameShare(s, ArmRemote(s))
    BY ArmRemoteReturns
  <1>2. /\ ArmRemoteLater(s) \in State /\ SameSlot(s, ArmRemoteLater(s))
        /\ SameShare(s, ArmRemoteLater(s))
    BY ArmRemoteLaterReturns
  <1>3. QED
    BY <1>1, <1>2, ArmRemoteRest, RearmedKeeps DEF Calm

----------------------------------------------------------------------------
(* Ending a session.                                                       *)

(* What endSession makes of a state before it resumes the listener. *)
LEMMA ResumeKeeps ==
    ASSUME NEW u \in State, Kept(u), u.active = None, u.consent = None
    PROVE  /\ Vacant(ResumeRemoteListener(u))
           /\ Heard(u) => Heard(ResumeRemoteListener(u))
  <1> DEFINE w == [u EXCEPT !.remotePaused = FALSE]
  <1>1. ~u.remoteLive /\ (u.remotePaused => u.remote # None)
    BY DEF Kept, Resting, RemoteActive, ActiveKind
  <1>2. w \in State
    BY ListenerFields
  <1>3. /\ SameSlot(u, w) /\ SamePapers(u, w) /\ w.consent = u.consent
        /\ w.remotePaused = FALSE /\ w.remote = u.remote /\ w.remoteTimer = u.remoteTimer
        /\ w.remoteLive = u.remoteLive /\ w.arms = u.arms /\ w.dirty = u.dirty
        /\ w.loadStale = u.loadStale /\ w.listenerStale = u.listenerStale
    BY DEF State, SameSlot, SamePapers
  <1> HIDE DEF w
  <1>4. CASE u.remotePaused
    <2>1. Kept(w)
      BY <1>2, <1>3 DEF Kept, Alone, Listed, Resting, RemoteActive, ActiveKind, SameSlot, SamePapers
    <2>2. Vacant(w)
      BY <1>1, <1>3, <2>1 DEF Vacant, SameSlot
    <2>3. Vacant(ArmRemote(w)) /\ Heard(ArmRemote(w))
      BY <1>2, <2>2, ArmRemoteKeeps
    <2>4. QED
      BY <1>1, <1>4, <2>3 DEF ResumeRemoteListener, w
  <1>5. CASE ~u.remotePaused
    BY <1>1, <1>5 DEF ResumeRemoteListener, Vacant
  <1>6. QED
    BY <1>4, <1>5

LEMMA EndSessionKeeps ==
    ASSUME ControllerAssumption, NEW s, Kept(s)
    PROVE  /\ Vacant(EndSession(s)) /\ EndSession(s).mode = s.mode
           /\ Heard(s) /\ ~RemoteActive(s) => Heard(EndSession(s))
  <1> DEFINE u    == CloseInst(s, s.active)
             t(b) == [u EXCEPT !.active = None, !.consent = None, !.guest = None,
                               !.awake = FALSE, !.remoteLive = b]
             live == u.remoteLive /\ ~RemoteActive(s)
  <1>1. s \in State /\ (s.remoteLive => RemoteActive(s))
    BY DEF Kept, Resting
  <1>2. u \in State /\ u = [s EXCEPT !.phase = Closed(s, s.active)] /\ SameRest(s, u)
    BY <1>1, CloseInstReturns, CloseInstRest DEF State
  <1>3. u.listener = s.listener /\ u.kind = s.kind /\ u.phase = Closed(s, s.active)
    BY <1>1, <1>2 DEF State
  <1>4. EndSession(s) = ResumeRemoteListener(t(live))
    BY DEF EndSession
  <1>5. live = FALSE
    BY <1>1, <1>2 DEF SameRest, SameRemote
  <1> HIDE DEF u, live
  <1>6. t(FALSE) \in State
    BY <1>2, EndedFields
  <1>7. /\ t(FALSE).active = None /\ t(FALSE).consent = None /\ t(FALSE).listener = u.listener
        /\ t(FALSE).kind = u.kind /\ t(FALSE).phase = u.phase /\ SamePapers(u, t(FALSE))
        /\ t(FALSE).remoteLive = FALSE
        /\ t(FALSE).remote = u.remote /\ t(FALSE).remoteTimer = u.remoteTimer
        /\ t(FALSE).remotePaused = u.remotePaused /\ t(FALSE).arms = u.arms
        /\ t(FALSE).dirty = u.dirty /\ t(FALSE).loadStale = u.loadStale
        /\ t(FALSE).listenerStale = u.listenerStale /\ t(FALSE).enabling = u.enabling
    BY <1>2 DEF State, SamePapers
  <1> HIDE DEF t
  <1>8. Alone(t(FALSE))
    <2>1. s.phase \in [Inst -> Phases] /\ s.active \in Inst \cup {None} /\ Alone(s)
      BY <1>1 DEF State, Kept
    <2>2. \A i \in Inst : Closed(s, s.active)[i] = "consent" => s.phase[i] = "consent" /\ i # s.active
      BY <2>1 DEF Closed
    <2>3. \A i \in Inst : Closed(s, s.active)[i] # "consent"
      BY <2>1, <2>2 DEF Alone
    <2>4. t(FALSE).phase = Closed(s, s.active)
      BY <1>3, <1>7
    <2>5. QED
      BY <2>3, <2>4 DEF Alone
  <1>9. Listed(t(FALSE))
    BY <1>2, <1>3, <1>7 DEF Kept, Listed, SameRest, SamePapers
  <1>10. Resting(t(FALSE))
    BY <1>2, <1>3, <1>7 DEF Kept, Resting, SameRest, SameRemote
  <1>11. Kept(t(FALSE))
    BY <1>6, <1>8, <1>9, <1>10 DEF Kept
  <1>12. Heard(s) /\ ~RemoteActive(s) => Heard(t(FALSE))
    BY <1>1, <1>2, <1>3, <1>7 DEF Heard, SameRest, SameRemote
  <1>13. EndSession(s).mode = s.mode
    BY <1>1, EndSessionReturns
  <1>14. QED
    BY <1>4, <1>5, <1>6, <1>7, <1>11, <1>12, <1>13, ResumeKeeps

LEMMA SameKeepsVacant ==
    ASSUME NEW s, Vacant(s), NEW t \in State, t.active = s.active, t.listener = s.listener,
           t.kind = s.kind, t.phase = s.phase, t.consent = s.consent, SameRest(s, t)
    PROVE  Vacant(t) /\ (Heard(s) => Heard(t))
  BY SameKeepsKept DEF Vacant, SameRest, SameRemote

LEMMA StopActiveKeeps ==
    ASSUME ControllerAssumption, NEW s, Kept(s), Heard(s)
    PROVE  Calm(StopActive(s))
  <1> DEFINE o == ShareOff(s)
             a == [o EXCEPT !.retry = FALSE]
             b == EndSession(a)
             c == [b EXCEPT !.mode = "idle", !.reconnect = FALSE]
  <1>1. s \in State
    BY DEF Kept
  <1>2. /\ o \in State /\ SameSlot(s, o) /\ SameRemote(s, o) /\ o.code = s.code
        /\ o.approved = {} /\ o.granted = {}
    BY <1>1, ShareOffReturns, ShareOffRest
  <1>3. StopActive(s) = IF RemoteActive(s) THEN ArmRemote(c) ELSE c
    BY DEF StopActive
  <1> HIDE DEF o
  <1>4. a \in State
    BY <1>2, StartFields
  <1>5. SameSlot(o, a) /\ SameRest(o, a)
    BY <1>2 DEF State, SameSlot, SameRest, SamePapers, SameRemote
  <1> HIDE DEF a
  <1>6. /\ SameSlot(s, a) /\ SameRemote(s, a) /\ a.code = s.code
        /\ a.approved = {} /\ a.granted = {}
    BY <1>2, <1>5 DEF SameSlot, SameRest, SamePapers, SameRemote
  <1>7. Kept(a) /\ Heard(a) /\ RemoteActive(a) = RemoteActive(s)
    <2>1. RemoteActive(a) = RemoteActive(s)
      BY <1>6 DEF RemoteActive, ActiveKind, SameSlot
    <2>2. Alone(a) /\ Listed(a)
      BY <1>6 DEF Kept, Alone, Listed, SameSlot
    <2>3. Resting(a)
      BY <1>6, <2>1 DEF Kept, Resting, SameSlot, SameRemote
    <2>4. Heard(a)
      BY <1>6 DEF Heard, SameSlot, SameRemote
    <2>5. QED
      BY <1>4, <2>1, <2>2, <2>3, <2>4 DEF Kept
  <1>8. Vacant(b) /\ (~RemoteActive(s) => Heard(b))
    BY <1>7, EndSessionKeeps
  <1>9. b \in State
    BY <1>8 DEF Vacant, Kept
  <1> HIDE DEF b
  <1>10. c \in State
    BY <1>9, ZenonT(60) DEF State, Modes
  <1>11. /\ c.active = b.active /\ c.listener = b.listener /\ c.kind = b.kind
         /\ c.phase = b.phase /\ c.consent = b.consent /\ SameRest(b, c) /\ c.mode = "idle"
    BY <1>9 DEF State, SameRest, SamePapers, SameRemote
  <1> HIDE DEF c
  <1>12. Vacant(c) /\ (Heard(b) => Heard(c))
    BY <1>8, <1>10, <1>11, SameKeepsVacant
  <1>13. Steady(c)
    BY <1>11, <1>12, VacantIsSteady
  <1>14. QED
    BY <1>3, <1>8, <1>10, <1>12, <1>13, ArmRemoteKeeps DEF Calm

----------------------------------------------------------------------------
(* Starting a session.                                                     *)

LEMMA SteadyIsVacant ==
    ASSUME NEW s, Steady(s), s.active = None
    PROVE  Vacant(s)
  BY DEF Steady, Vacant, Shown, Kept, Resting, Aside, RemoteActive, ActiveKind

(* A fresh instance in the empty slot, made with the code in force. *)
LEMMA LaunchKeeps ==
    ASSUME ControllerAssumption, NEW s, Vacant(s), NEW i \in Free(s), NEW k \in {"share", "viewer"},
           NEW t \in State, t.active = i, t.listener = s.listener, t.consent = None,
           t.kind = [s.kind EXCEPT ![i] = k], t.phase = [s.phase EXCEPT ![i] = "waiting"],
           t.code = [s.code EXCEPT ![i] = "current"], t.approved = s.approved,
           t.granted = s.granted, SameRemote(s, t), Looks(k, "waiting", t.mode),
           k = "share" => t.share
    PROVE  Steady(t) /\ (Heard(s) => Heard(t))
  <1>1. /\ s.kind \in [Inst -> {"share", "access", "viewer"}] /\ s.phase \in [Inst -> Phases]
        /\ s.code \in [Inst -> {"current", "old"}] /\ s.listener \in Inst \cup {None}
        /\ None \notin Inst /\ i \in Inst
    BY DEF Vacant, Kept, State, ControllerAssumption, Free
  <1>2. i # None /\ t.kind[i] = k /\ t.phase[i] = "waiting" /\ t.code[i] = "current"
    BY <1>1
  <1>3. ActiveKind(t) = k /\ ~RemoteActive(t)
    BY <1>2 DEF RemoteActive, ActiveKind
  <1>4. Alone(t)
    BY <1>1 DEF Vacant, Kept, Alone
  <1>5. Listed(t)
    BY <1>1 DEF Vacant, Kept, Listed
  <1>6. Resting(t)
    BY DEF Vacant, Kept, Resting, SameRemote
  <1>7. Shown(t)
    BY <1>2, <1>3 DEF Shown
  <1>8. Keyed(t)
    BY <1>2, <1>3 DEF Keyed
  <1>9. Aside(t)
    BY <1>2, <1>3 DEF Vacant, Aside, SameRemote
  <1>10. Heard(s) => Heard(t)
    BY DEF Heard, SameRemote
  <1>11. QED
    BY <1>4, <1>5, <1>6, <1>7, <1>8, <1>9, <1>10 DEF Steady, Kept

LEMMA LaunchHostKeeps ==
    ASSUME ControllerAssumption, NEW s, Vacant(s), s.share, ~s.sharePaused, NEW i \in Free(s)
    PROVE  Steady(LaunchHost(s, i)) /\ (Heard(s) => Heard(LaunchHost(s, i)))
  <1> DEFINE u == Create(s, i, "share")
             t == [u EXCEPT !.active = i, !.mode = "hosting-waiting"]
  <1>1. s \in State /\ s.active = None /\ s.consent = None /\ i \in Inst
    BY DEF Vacant, Kept, Free
  <1>2. LaunchHost(s, i) = t
    BY <1>1 DEF LaunchHost
  <1>3. /\ u \in State /\ SameShare(s, u) /\ u.listener = s.listener /\ SameRemote(s, u)
        /\ u.kind = [s.kind EXCEPT ![i] = "share"]
        /\ u.phase = [s.phase EXCEPT ![i] = "waiting"]
        /\ u.approved = s.approved /\ u.granted = s.granted
        /\ u.code = [s.code EXCEPT ![i] = "current"]
    BY <1>1, CreateReturns, CreateRest
  <1> HIDE DEF u
  <1>4. ASSUME NEW v \in State
        PROVE  [v EXCEPT !.active = i, !.mode = "hosting-waiting"] \in State
    BY <1>1, ZenonT(60) DEF State, Modes
  <1>5. t \in State
    BY <1>3, <1>4
  <1>6. /\ SameShare(u, t) /\ t.listener = u.listener /\ t.kind = u.kind /\ t.phase = u.phase
        /\ t.active = i /\ t.mode = "hosting-waiting" /\ SameRest(u, t)
    BY <1>3 DEF State, SameShare, SameFlags, SameRest, SamePapers, SameRemote
  <1> HIDE DEF t
  <1>7. /\ t.listener = s.listener /\ t.consent = None /\ t.share
        /\ t.kind = [s.kind EXCEPT ![i] = "share"] /\ t.phase = [s.phase EXCEPT ![i] = "waiting"]
        /\ t.code = [s.code EXCEPT ![i] = "current"]
        /\ t.approved = s.approved /\ t.granted = s.granted
    BY <1>1, <1>3, <1>6 DEF SameShare, SameFlags, SameRest, SamePapers
  <1>8. SameRemote(s, t)
    BY <1>3, <1>6 DEF SameRest, SameRemote
  <1>9. Looks("share", "waiting", t.mode)
    BY <1>6 DEF Looks
  <1>10. QED
    BY <1>2, <1>5, <1>6, <1>7, <1>8, <1>9, LaunchKeeps

LEMMA LaunchViewerKeeps ==
    ASSUME ControllerAssumption, NEW s, Vacant(s), NEW i \in Free(s), NEW again \in BOOLEAN
    PROVE  Steady(LaunchViewer(s, i, again)) /\ (Heard(s) => Heard(LaunchViewer(s, i, again)))
  <1> DEFINE u == Create(s, i, "viewer")
             m == IF again THEN "reconnecting" ELSE "connecting"
             t == [u EXCEPT !.active = i, !.again = again, !.mode = m]
  <1>1. s \in State /\ s.consent = None /\ i \in Inst
    BY DEF Vacant, Kept, Free
  <1>2. LaunchViewer(s, i, again) = t
    BY DEF LaunchViewer
  <1>3. /\ u \in State /\ SameShare(s, u) /\ u.listener = s.listener /\ SameRemote(s, u)
        /\ u.kind = [s.kind EXCEPT ![i] = "viewer"]
        /\ u.phase = [s.phase EXCEPT ![i] = "waiting"]
        /\ u.approved = s.approved /\ u.granted = s.granted
        /\ u.code = [s.code EXCEPT ![i] = "current"]
    BY <1>1, CreateReturns, CreateRest
  <1> HIDE DEF u
  <1>4. m \in Modes /\ Looks("viewer", "waiting", m)
    BY DEF Modes, Looks
  <1> HIDE DEF m
  <1>5. t \in State
    BY <1>1, <1>3, <1>4, ViewerFields
  <1>6. /\ SameShare(u, t) /\ t.listener = u.listener /\ t.kind = u.kind /\ t.phase = u.phase
        /\ t.active = i /\ t.mode = m /\ SameRest(u, t)
    BY <1>3 DEF State, SameShare, SameFlags, SameRest, SamePapers, SameRemote
  <1> HIDE DEF t
  <1>7. /\ t.listener = s.listener /\ t.consent = None
        /\ t.kind = [s.kind EXCEPT ![i] = "viewer"] /\ t.phase = [s.phase EXCEPT ![i] = "waiting"]
        /\ t.code = [s.code EXCEPT ![i] = "current"]
        /\ t.approved = s.approved /\ t.granted = s.granted
    BY <1>1, <1>3, <1>6 DEF SameShare, SameRest, SamePapers
  <1>8. SameRemote(s, t)
    BY <1>3, <1>6 DEF SameRest, SameRemote
  <1>9. QED
    BY <1>2, <1>4, <1>5, <1>6, <1>7, <1>8, LaunchKeeps

(* The next attempt of a share is scheduled. *)
LEMMA RearmHostKeeps ==
    ASSUME ControllerAssumption, NEW s, Kept(s), Heard(s), ~RemoteActive(s),
           s.share, ~s.sharePaused
    PROVE  Calm(RearmHost(s))
  <1> DEFINE b == EndSession(s)
             t == [b EXCEPT !.mode = "hosting-waiting", !.shareTimer = TRUE]
  <1>1. RearmHost(s) = t
    BY DEF RearmHost
  <1>2. Vacant(b) /\ Heard(b)
    BY EndSessionKeeps
  <1>3. b \in State
    BY <1>2 DEF Vacant, Kept
  <1> HIDE DEF b
  <1>4. t \in State
    BY <1>3, ZenonT(60) DEF State, Modes
  <1>5. /\ t.active = b.active /\ t.listener = b.listener /\ t.kind = b.kind
        /\ t.phase = b.phase /\ t.consent = b.consent /\ SameRest(b, t)
        /\ t.mode = "hosting-waiting"
    BY <1>3 DEF State, SameRest, SamePapers, SameRemote
  <1> HIDE DEF t
  <1>6. Vacant(t) /\ Heard(t)
    BY <1>2, <1>4, <1>5, SameKeepsVacant
  <1>7. QED
    BY <1>1, <1>5, <1>6, VacantIsSteady DEF Calm

LEMMA RetryViewerKeeps ==
    ASSUME ControllerAssumption, NEW s, Kept(s), Heard(s), ~RemoteActive(s),
           NEW wasLive, NEW final
    PROVE  Calm(RetryViewer(s, wasLive, final))
  <1> DEFINE b == EndSession(s)
             t == [b EXCEPT !.mode = "reconnecting", !.reconnect = TRUE, !.retry = TRUE]
  <1>1. RetryViewer(s, wasLive, final) = IF final \/ ~(wasLive \/ s.again) THEN StopActive(s) ELSE t
    BY DEF RetryViewer
  <1>2. Vacant(b) /\ Heard(b)
    BY EndSessionKeeps
  <1>3. b \in State
    BY <1>2 DEF Vacant, Kept
  <1> HIDE DEF b
  <1>4. t \in State
    BY <1>3, RetryFields
  <1>5. /\ t.active = b.active /\ t.listener = b.listener /\ t.kind = b.kind
        /\ t.phase = b.phase /\ t.consent = b.consent /\ SameRest(b, t)
        /\ t.mode = "reconnecting"
    BY <1>3 DEF State, SameRest, SamePapers, SameRemote
  <1> HIDE DEF t
  <1>6. Vacant(t) /\ Heard(t)
    BY <1>2, <1>4, <1>5, SameKeepsVacant
  <1>7. QED
    BY <1>1, <1>5, <1>6, VacantIsSteady, StopActiveKeeps DEF Calm

(* What runs under the old code is replaced, except for a guest who is in. *)
LEMMA NewShareCodeKeeps ==
    ASSUME ControllerAssumption, NEW s, Good(s), Calm(s), NEW i \in Free(s)
    PROVE  Calm(NewShareCode(s, i))
  <1> DEFINE u == Outdate(s, "share")
             t == [u EXCEPT !.approved = {}, !.granted = {}]
  <1>1. s \in State /\ Owned(s) /\ Lent(s) /\ Kept(s) /\ Shown(s) /\ Keyed(s) /\ Aside(s) /\ Heard(s)
    BY DEF Good, Calm, Steady
  <1>2. /\ u \in State /\ SameSlot(s, u) /\ SameShare(s, u) /\ SameRemote(s, u)
        /\ \A x \in Inst : s.kind[x] # "share" => u.code[x] = s.code[x]
        /\ \A x \in Inst : s.kind[x] = "share" => u.code[x] = "old"
    BY <1>1, OutdateReturns, OutdateRest
  <1>3. NewShareCode(s, i) =
          IF ~s.share THEN s
          ELSE IF s.mode \in {"hosting-waiting", "hosting-consent"}
               THEN LaunchHost(EndSession(t), i) ELSE t
    BY DEF NewShareCode
  <1> HIDE DEF u
  <1>4. t \in State
    BY <1>2, ZenonT(60) DEF State
  <1>5. /\ SameSlot(u, t) /\ SameShare(u, t) /\ SameRemote(u, t) /\ t.code = u.code
        /\ t.approved = {} /\ t.granted = {}
    BY <1>2 DEF State, SameSlot, SameShare, SameFlags, SameRemote
  <1> HIDE DEF t
  <1>6. /\ SameSlot(s, t) /\ SameShare(s, t) /\ SameRemote(s, t)
        /\ t.approved = {} /\ t.granted = {}
        /\ \A x \in Inst : s.kind[x] # "share" => t.code[x] = s.code[x]
        /\ \A x \in Inst : s.kind[x] = "share" => t.code[x] = "old"
    <2>1. SameSlot(s, t) /\ SameShare(s, t) /\ SameRemote(s, t)
      BY <1>2, <1>5 DEF SameSlot, SameShare, SameFlags, SameRemote
    <2>2. QED
      BY <1>2, <1>5, <2>1
  <1>7. Kept(t) /\ Heard(t)
    <2>1. Alone(t)
      BY <1>1, <1>6 DEF Kept, Alone, SameSlot
    <2>2. s.listener # None => s.listener \in Inst /\ s.kind[s.listener] # "share"
      BY <1>1 DEF State, Owned
    <2>3. Listed(t)
      BY <1>1, <1>6, <2>2 DEF Kept, Listed, SameSlot
    <2>4. Resting(t)
      BY <1>1, <1>6 DEF Kept, Resting, RemoteActive, ActiveKind, SameSlot, SameRemote
    <2>5. Heard(t)
      BY <1>1, <1>6 DEF Heard, SameSlot, SameRemote
    <2>6. QED
      BY <1>4, <2>1, <2>3, <2>4, <2>5 DEF Kept
  <1>8. CASE s.share /\ s.mode \in {"hosting-waiting", "hosting-consent"}
    <2>1. ~RemoteActive(s) /\ ~s.sharePaused
      BY <1>1, <1>8 DEF Lent
    <2>2. ~RemoteActive(t) /\ t.share /\ ~t.sharePaused
      BY <1>6, <1>8, <2>1 DEF RemoteActive, ActiveKind, SameSlot, SameShare, SameFlags
    <2>3. Vacant(EndSession(t)) /\ Heard(EndSession(t))
      BY <1>7, <2>2, EndSessionKeeps
    <2>4. /\ EndSession(t).share = t.share /\ EndSession(t).sharePaused = t.sharePaused
          /\ EndSession(t).phase = Closed(t, t.active)
      BY <1>4, EndSessionReturns DEF SameFlags
    <2>5. i \in Free(EndSession(t))
      <3>1. EndSession(t).phase = Closed(s, s.active)
        BY <1>6, <2>4 DEF Closed, SameSlot
      <3>2. QED
        BY <1>1, <3>1, FreeStaysFree
    <2>6. NewShareCode(s, i) = LaunchHost(EndSession(t), i)
      BY <1>3, <1>8
    <2>7. EndSession(t).share /\ ~EndSession(t).sharePaused
      BY <2>2, <2>4
    <2>8. Steady(LaunchHost(EndSession(t), i)) /\ Heard(LaunchHost(EndSession(t), i))
      BY <2>3, <2>5, <2>7, LaunchHostKeeps
    <2>9. QED
      BY <2>6, <2>8 DEF Calm
  <1>9. CASE s.share /\ s.mode \notin {"hosting-waiting", "hosting-consent"}
    <2>1. Shown(t)
      BY <1>1, <1>6 DEF Shown, ActiveKind, SameSlot, SameShare, SameFlags
    <2>2. Aside(t)
      BY <1>1, <1>6 DEF Aside, RemoteActive, ActiveKind, SameSlot, SameRemote
    <2>3. ActiveKind(s) = "share" => s.phase[s.active] = "live" /\ t.code[s.active] = "old"
      <3>1. ActiveKind(s) = "share" => s.active \in Inst /\ s.kind[s.active] = "share"
        BY <1>1 DEF State, ActiveKind
      <3>2. QED
        BY <1>1, <1>6, <1>9, <3>1 DEF Shown, Looks
    <2>4. RemoteActive(s) => t.code[s.active] = s.code[s.active]
      BY <1>1, <1>6 DEF State, RemoteActive, ActiveKind
    <2>5. Keyed(t)
      BY <1>1, <1>6, <2>3, <2>4 DEF Keyed, RemoteActive, ActiveKind, SameSlot
    <2>6. QED
      BY <1>3, <1>7, <1>9, <2>1, <2>2, <2>5 DEF Calm, Steady
  <1>10. CASE ~s.share
    BY <1>3, <1>10
  <1>11. QED
    BY <1>8, <1>9, <1>10

----------------------------------------------------------------------------
(* A session goes live.                                                    *)

LEMMA PauseKeeps ==
    ASSUME ControllerAssumption, NEW v, Kept(v), Owned(v), Shown(v), Keyed(v), ~v.remotePaused,
           ActiveKind(v) \in {"share", "viewer"}, v.phase[v.active] = "live"
    PROVE  Calm(PauseRemoteListener(v))
  <1> DEFINE u == DropListener(v)
             t == [u EXCEPT !.remotePaused = TRUE, !.remoteTimer = FALSE]
  <1>1. v \in State /\ Alone(v) /\ Listed(v) /\ Resting(v) /\ ~RemoteActive(v) /\ v.active # None
    BY DEF Kept, RemoteActive, ActiveKind
  <1>2. CASE v.remote = None
    <2>1. PauseRemoteListener(v) = v
      BY <1>2 DEF PauseRemoteListener
    <2>2. Aside(v) /\ Heard(v)
      BY <1>1, <1>2 DEF Aside, Heard
    <2>3. QED
      BY <2>1, <2>2 DEF Calm, Steady
  <1>3. CASE v.remote # None
    <2>1. PauseRemoteListener(v) = t
      BY <1>1, <1>3 DEF PauseRemoteListener
    <2>2. /\ u \in State /\ SameShare(v, u) /\ SameRest(v, u) /\ u.active = v.active
          /\ u.listener = None /\ u.kind = v.kind /\ u.phase = Closed(v, v.listener)
          /\ u.mode = v.mode
      BY <1>1, DropListenerReturns, DropListenerRest
    <2> HIDE DEF u
    <2>3. t \in State
      BY <2>2, ListenerFields
    <2>4. /\ SameShare(u, t) /\ SamePapers(u, t) /\ t.active = u.active /\ t.listener = u.listener
          /\ t.kind = u.kind /\ t.phase = u.phase /\ t.mode = u.mode
          /\ t.remotePaused = TRUE /\ t.remoteTimer = FALSE
          /\ t.remote = u.remote /\ t.remoteLive = u.remoteLive /\ t.arms = u.arms
          /\ t.dirty = u.dirty /\ t.loadStale = u.loadStale
      BY <2>2 DEF State, SameShare, SameFlags, SamePapers
    <2> HIDE DEF t
    <2>5. /\ t.active = v.active /\ t.listener = None /\ t.kind = v.kind /\ t.mode = v.mode
          /\ t.phase = Closed(v, v.listener) /\ SameShare(v, t) /\ SamePapers(v, t)
          /\ t.remote = v.remote /\ t.remoteLive = v.remoteLive /\ t.arms = v.arms
          /\ t.dirty = v.dirty /\ t.loadStale = v.loadStale
          /\ t.remotePaused = TRUE /\ t.remoteTimer = FALSE
      BY <2>2, <2>4 DEF SameShare, SameFlags, SameRest, SamePapers, SameRemote
    <2>6. t.phase[v.active] = v.phase[v.active]
      <3>1. v.phase \in [Inst -> Phases] /\ v.active \in Inst /\ v.active # v.listener
        BY <1>1 DEF State, Owned
      <3>2. QED
        BY <2>5, <3>1 DEF Closed
    <2>7. Alone(t)
      <3>1. v.phase \in [Inst -> Phases]
        BY <1>1 DEF State
      <3>2. \A i \in Inst : Closed(v, v.listener)[i] = "consent" => v.phase[i] = "consent"
        BY <3>1 DEF Closed
      <3>3. QED
        BY <1>1, <2>5, <3>2 DEF Alone
    <2>8. Listed(t)
      BY <1>1, <2>5 DEF Listed, SamePapers
    <2>9. Resting(t)
      BY <1>1, <1>3, <2>5 DEF Resting, RemoteActive, ActiveKind
    <2>10. Shown(t)
      BY <1>1, <2>5, <2>6 DEF Shown, ActiveKind, SameShare, SameFlags
    <2>11. Keyed(t)
      BY <1>1, <2>5, <2>6 DEF Keyed, RemoteActive, ActiveKind, SameShare, SamePapers
    <2>12. Aside(t) /\ Heard(t)
      BY <1>1, <1>3, <2>5, <2>6 DEF Aside, Heard, RemoteActive, ActiveKind
    <2>13. QED
      BY <2>1, <2>3, <2>7, <2>8, <2>9, <2>10, <2>11, <2>12 DEF Calm, Steady, Kept
  <1>4. QED
    BY <1>2, <1>3

LEMMA GoLiveKeeps ==
    ASSUME ControllerAssumption, NEW s, Good(s), Steady(s), NEW i \in Inst, NEW d \in s.granted,
           s.active = i, s.kind[i] = "share", s.phase[i] # "live"
    PROVE  Calm(GoLive(s, i, d))
  <1> DEFINE t == [s EXCEPT !.phase[i] = "live", !.guest = d, !.consent = None,
                            !.mode = "hosting-live", !.awake = TRUE]
  <1>1. /\ s \in State /\ Owned(s) /\ Alone(s) /\ Listed(s) /\ Resting(s) /\ Shown(s) /\ Aside(s)
        /\ i # None
    BY DEF Good, Steady, Kept, ControllerAssumption
  <1>2. d \in Devices
    BY <1>1 DEF State
  <1>3. t \in State
    BY <1>1, <1>2, GuestFields
  <1>4. /\ SameFlags(s, t) /\ SameRest(s, t) /\ t.active = s.active /\ t.listener = s.listener
        /\ t.kind = s.kind /\ t.phase = [s.phase EXCEPT ![i] = "live"] /\ t.consent = None
        /\ t.guest = d /\ t.mode = "hosting-live"
    BY <1>1 DEF State, SameFlags, SameRest, SamePapers, SameRemote
  <1>5. GoLive(s, i, d) = PauseRemoteListener(t)
    BY DEF GoLive
  <1> HIDE DEF t
  <1>6. s.phase \in [Inst -> Phases] /\ t.phase[i] = "live" /\ "live" \in Open
    BY <1>1, <1>4 DEF State, Open
  <1>7. ActiveKind(t) = "share" /\ ActiveKind(s) = "share"
    BY <1>1, <1>4 DEF ActiveKind
  <1>8. Owned(t)
    BY <1>1, <1>4, <1>6 DEF Owned
  <1>9. Alone(t)
    BY <1>1, <1>4, <1>6 DEF Alone
  <1>10. Listed(t)
    BY <1>1, <1>4 DEF Listed, SameRest, SamePapers
  <1>11. Resting(t)
    BY <1>1, <1>4, <1>7 DEF Resting, RemoteActive, SameRest, SameRemote
  <1>12. Shown(t)
    BY <1>1, <1>4, <1>6, <1>7 DEF Shown, Looks, ActiveKind, SameFlags
  <1>13. Keyed(t)
    BY <1>4, <1>6, <1>7 DEF Keyed, RemoteActive, SameRest, SamePapers
  <1>14. ~t.remotePaused
    BY <1>1, <1>4 DEF Aside, SameRest, SameRemote
  <1>15. QED
    BY <1>3, <1>4, <1>5, <1>6, <1>7, <1>8, <1>9, <1>10, <1>11, <1>12, <1>13, <1>14, PauseKeeps
       DEF Kept

(* The waiting share that lends its screen leaves the slot empty. *)
LEMMA BorrowScreenKeeps ==
    ASSUME ControllerAssumption, NEW s, Steady(s), s.active = None \/ WaitingShare(s)
    PROVE  /\ Vacant(BorrowScreen(s))
           /\ BorrowScreen(s).listener = s.listener /\ BorrowScreen(s).kind = s.kind
  <1> DEFINE u == [s EXCEPT !.shareTimer = FALSE, !.sharePaused = TRUE]
  <1>1. s \in State /\ Kept(s)
    BY DEF Steady, Kept
  <1>2. CASE WaitingShare(s)
    <2>1. u \in State
      BY <1>1, LendFields
    <2>2. SameSlot(s, u) /\ SameRest(s, u)
      BY <1>1 DEF State, SameSlot, SameRest, SamePapers, SameRemote
    <2>3. BorrowScreen(s) = EndSession(u)
      BY <1>2 DEF BorrowScreen
    <2> HIDE DEF u
    <2>4. Kept(u)
      BY <1>1, <2>1, <2>2, SameKeepsKept DEF SameSlot
    <2>5. QED
      BY <2>1, <2>2, <2>3, <2>4, EndSessionKeeps, EndSessionReturns DEF SameSlot
  <1>3. CASE ~WaitingShare(s)
    BY <1>3, SteadyIsVacant DEF BorrowScreen
  <1>4. QED
    BY <1>2, <1>3

LEMMA PromoteRemoteKeeps ==
    ASSUME ControllerAssumption, NEW s, Good(s), Steady(s), s.active = None \/ WaitingShare(s),
           NEW i \in Inst, s.listener = i
    PROVE  Calm(PromoteRemote(s, i))
  <1> DEFINE b == BorrowScreen(s)
             t == [b EXCEPT !.listener = None, !.remoteLive = TRUE, !.active = i,
                            !.phase[i] = "live", !.mode = "hosting-live", !.awake = TRUE]
  <1>1. Owned(s) /\ i # None
    BY DEF Good, ControllerAssumption
  <1>2. Vacant(b) /\ b.listener = i /\ b.kind[i] = "access"
    BY <1>1, BorrowScreenKeeps DEF Owned
  <1>3. PromoteRemote(s, i) = t
    BY DEF PromoteRemote
  <1> HIDE DEF b
  <1>4. /\ b \in State /\ Alone(b) /\ Listed(b) /\ Resting(b) /\ b.active = None
        /\ b.consent = None /\ ~b.remotePaused
    BY <1>2 DEF Vacant, Kept
  <1>5. t \in State
    BY <1>4, PromotedFields
  <1>6. /\ t.active = i /\ t.listener = None /\ t.kind = b.kind /\ t.consent = b.consent
        /\ t.phase = [b.phase EXCEPT ![i] = "live"] /\ t.mode = "hosting-live"
        /\ SamePapers(b, t) /\ t.remoteLive = TRUE /\ t.remote = b.remote
        /\ t.remoteTimer = b.remoteTimer /\ t.remotePaused = b.remotePaused
        /\ t.arms = b.arms /\ t.dirty = b.dirty /\ t.loadStale = b.loadStale
    BY <1>4 DEF State, SamePapers
  <1> HIDE DEF t
  <1>7. ActiveKind(t) = "access" /\ RemoteActive(t)
    BY <1>1, <1>2, <1>6 DEF ActiveKind, RemoteActive
  <1>8. b.phase \in [Inst -> Phases] /\ t.phase[i] = "live" /\ None \notin Inst
    BY <1>4, <1>6 DEF State, ControllerAssumption
  <1>9. Alone(t)
    BY <1>4, <1>6, <1>8 DEF Alone
  <1>10. Listed(t)
    BY <1>4, <1>6 DEF Listed, SamePapers
  <1>11. Resting(t)
    BY <1>4, <1>6, <1>7 DEF Resting
  <1>12. Shown(t)
    BY <1>1, <1>2, <1>4, <1>6, <1>7, <1>8 DEF Shown, Looks
  <1>13. t.code[i] = "current"
    BY <1>1, <1>2, <1>4, <1>6 DEF Listed, SamePapers
  <1>14. Keyed(t)
    BY <1>6, <1>7, <1>13 DEF Keyed
  <1>15. Aside(t) /\ Heard(t)
    BY <1>4, <1>6, <1>7 DEF Aside, Heard
  <1>16. QED
    BY <1>3, <1>5, <1>9, <1>10, <1>11, <1>12, <1>14, <1>15 DEF Calm, Steady, Kept

----------------------------------------------------------------------------
(* The listener is dropped.                                                *)

(* The steady states stay steady without their listener. *)
LEMMA DroppedKeeps ==
    ASSUME ControllerAssumption, NEW s, Owned(s), Steady(s),
           NEW t \in State, t.active = s.active, t.listener = None, t.kind = s.kind,
           t.phase = Closed(s, s.listener), t.mode = s.mode, SameShare(s, t),
           t.approved = s.approved, t.granted = s.granted,
           s.active # None => t.code[s.active] = s.code[s.active],
           t.remote = s.remote, t.remotePaused = s.remotePaused, t.remoteLive = s.remoteLive,
           t.remoteTimer = s.remoteTimer \/ ~t.remoteTimer, t.arms = s.arms,
           t.remote \in t.arms /\ t.loadStale => t.dirty
    PROVE  Steady(t)
  <1>1. s \in State /\ Alone(s) /\ Listed(s) /\ Resting(s) /\ Shown(s) /\ Keyed(s) /\ Aside(s)
    BY DEF Steady, Kept
  <1>2. s.phase \in [Inst -> Phases] /\ s.active \in Inst \cup {None}
        /\ (s.active # None => s.active # s.listener)
    BY <1>1 DEF State, Owned
  <1>3. s.active # None => t.phase[s.active] = s.phase[s.active]
    BY <1>2 DEF Closed
  <1>4. \A i \in Inst : Closed(s, s.listener)[i] = "consent" => s.phase[i] = "consent"
    BY <1>2 DEF Closed
  <1>5. Alone(t)
    BY <1>1, <1>4 DEF Alone
  <1>6. Listed(t)
    BY <1>1 DEF Listed
  <1>7. Resting(t)
    BY <1>1 DEF Resting, RemoteActive, ActiveKind
  <1>8. Shown(t)
    BY <1>1, <1>3 DEF Shown, ActiveKind, SameShare, SameFlags
  <1>9. Keyed(t)
    BY <1>1, <1>3 DEF Keyed, RemoteActive, ActiveKind, SameShare
  <1>10. Aside(t)
    BY <1>1, <1>3 DEF Aside, RemoteActive, ActiveKind
  <1>11. QED
    BY <1>5, <1>6, <1>7, <1>8, <1>9, <1>10 DEF Steady, Kept

LEMMA ListenerFailedKeeps ==
    ASSUME ControllerAssumption, NEW s, Owned(s), Steady(s), NEW later \in BOOLEAN
    PROVE  Calm(ListenerFailed(s, later))
  <1> DEFINE t == DropListener(s)
  <1>1. s \in State /\ Resting(s)
    BY DEF Steady, Kept
  <1>2. /\ t \in State /\ SameShare(s, t) /\ SameRest(s, t) /\ t.active = s.active
        /\ t.listener = None /\ t.kind = s.kind /\ t.phase = Closed(s, s.listener)
        /\ t.mode = s.mode
    BY <1>1, DropListenerReturns, DropListenerRest
  <1>3. ListenerFailed(s, later) = IF later THEN ArmRemoteLater(t) ELSE ArmRemote(t)
    BY DEF ListenerFailed
  <1> HIDE DEF t
  <1>4. Steady(t)
    BY <1>1, <1>2, DroppedKeeps DEF SameRest, SamePapers, SameRemote, Resting
  <1>5. QED
    BY <1>2, <1>3, <1>4, ArmRemoteKeeps

(* A remote session ends: a share that lent its screen gets it back, and the
   listener is armed again. *)
LEMMA FinishRemoteLiveKeeps ==
    ASSUME ControllerAssumption, NEW s, Good(s), Kept(s), RemoteActive(s), NEW j \in Free(s)
    PROVE  Calm(FinishRemoteLive(s, j))
  <1> DEFINE e == EndSession(s)
             d == [e EXCEPT !.remoteLive = FALSE]
             p == [d EXCEPT !.sharePaused = FALSE]
             m == [d EXCEPT !.mode = "idle"]
             given == IF d.sharePaused
                      THEN LaunchHost(p, j)
                      ELSE IF d.active = None /\ ~d.share /\ ~d.retry THEN m ELSE d
  <1>1. s \in State /\ Owned(s) /\ Lent(s)
    BY DEF Good
  <1>2. /\ Vacant(e) /\ e.mode = s.mode /\ SameFlags(s, e) /\ e.phase = Closed(s, s.active)
    BY <1>1, EndSessionKeeps, EndSessionReturns
  <1>3. FinishRemoteLive(s, j) = ArmRemote(given)
    BY DEF FinishRemoteLive
  <1> HIDE DEF e
  <1>4. e \in State /\ ~e.remoteLive
    BY <1>2 DEF Vacant, Kept
  <1>5. d \in State
    BY <1>4, FinishFields
  <1>6. /\ SameShare(e, d) /\ SameRest(e, d) /\ d.active = e.active /\ d.listener = e.listener
        /\ d.kind = e.kind /\ d.phase = e.phase /\ d.mode = e.mode
    BY <1>4 DEF State, SameShare, SameFlags, SameRest, SamePapers, SameRemote
  <1>7. Vacant(d)
    BY <1>2, <1>5, <1>6, SameKeepsVacant DEF SameShare
  <1> HIDE DEF d
  <1>8. p \in State /\ m \in State
    BY <1>5, FinishFields
  <1>9. /\ SameRest(d, p) /\ p.active = d.active /\ p.listener = d.listener /\ p.kind = d.kind
        /\ p.phase = d.phase /\ p.consent = d.consent /\ p.sharePaused = FALSE
        /\ p.share = d.share
    BY <1>5 DEF State, SameRest, SamePapers, SameRemote
  <1>10. /\ SameRest(d, m) /\ m.active = d.active /\ m.listener = d.listener /\ m.kind = d.kind
         /\ m.phase = d.phase /\ m.consent = d.consent /\ m.mode = "idle"
    BY <1>5 DEF State, SameRest, SamePapers, SameRemote
  <1> HIDE DEF p, m
  <1>11. Vacant(p) /\ Vacant(m)
    BY <1>7, <1>8, <1>9, <1>10, SameKeepsVacant
  <1>12. d.mode = "hosting-live" /\ (d.sharePaused => d.share)
    BY <1>1, <1>2, <1>6 DEF Lent, SameShare, SameFlags
  <1>13. d.sharePaused => Steady(LaunchHost(p, j))
    <2>1. p.phase = Closed(s, s.active)
      BY <1>2, <1>6, <1>9
    <2>2. j \in Free(p)
      BY <1>1, <2>1, FreeStaysFree
    <2>3. QED
      BY <1>9, <1>11, <1>12, <2>2, LaunchHostKeeps
  <1>14. Steady(d) /\ Steady(m)
    BY <1>7, <1>10, <1>11, <1>12, VacantIsSteady
  <1>15. Steady(given)
    BY <1>13, <1>14
  <1>16. given \in State
    BY <1>15 DEF Steady, Kept
  <1> HIDE DEF given
  <1>17. QED
    BY <1>3, <1>15, <1>16, ArmRemoteKeeps

LEMMA RemoteOffKeeps ==
    ASSUME ControllerAssumption, NEW s, Good(s), Steady(s)
    PROVE  /\ Kept(RemoteOff(s)) /\ Heard(RemoteOff(s))
           /\ ~RemoteActive(s) => Steady(RemoteOff(s))
  <1> DEFINE u == DropListener(s)
             t == [u EXCEPT !.remote = None, !.remoteTimer = FALSE,
                            !.remotePaused = FALSE, !.remoteLive = FALSE]
  <1>1. s \in State /\ Resting(s) /\ Owned(s)
    BY DEF Steady, Kept, Good
  <1>2. /\ u \in State /\ SameShare(s, u) /\ SameRest(s, u) /\ u.active = s.active
        /\ u.listener = None /\ u.kind = s.kind /\ u.phase = Closed(s, s.listener)
        /\ u.mode = s.mode
    BY <1>1, DropListenerReturns, DropListenerRest
  <1>3. RemoteOff(s) = t
    BY DEF RemoteOff
  <1> HIDE DEF u
  <1>4. Steady(u)
    BY <1>1, <1>2, DroppedKeeps DEF SameRest, SamePapers, SameRemote, Resting
  <1>5. t \in State
    BY <1>2, RemoteOffFields
  <1>6. /\ SameSlot(u, t) /\ SameShare(u, t) /\ SamePapers(u, t) /\ t.remote = None
        /\ t.remoteTimer = FALSE /\ t.remotePaused = FALSE /\ t.remoteLive = FALSE
        /\ t.arms = u.arms /\ t.dirty = u.dirty /\ t.loadStale = u.loadStale
    BY <1>2 DEF State, SameSlot, SameShare, SameFlags, SamePapers
  <1> HIDE DEF t
  <1>7. Alone(t) /\ Listed(t)
    BY <1>4, <1>6 DEF Steady, Kept, Alone, Listed, SameSlot, SamePapers
  <1>8. Resting(t)
    <2>1. t.listener = None /\ Resting(u)
      BY <1>2, <1>4, <1>6 DEF SameSlot, Steady, Kept
    <2>2. None \notin t.arms
      BY <1>5 DEF State, ControllerAssumption
    <2>3. QED
      BY <1>6, <2>1, <2>2 DEF Resting
  <1>9. Kept(t) /\ Heard(t)
    BY <1>5, <1>6, <1>7, <1>8 DEF Kept, Heard
  <1>10. ASSUME ~RemoteActive(s) PROVE Steady(t)
    <2>1. ~RemoteActive(t)
      BY <1>2, <1>6, <1>10 DEF RemoteActive, ActiveKind, SameSlot
    <2>2. Shown(t)
      BY <1>4, <1>6 DEF Steady, Shown, ActiveKind, SameSlot, SameShare, SameFlags
    <2>3. Keyed(t)
      BY <1>4, <1>6 DEF Steady, Keyed, RemoteActive, ActiveKind, SameSlot, SameShare, SamePapers
    <2>4. Aside(t)
      BY <1>6, <2>1 DEF Aside
    <2>5. QED
      BY <1>9, <2>2, <2>3, <2>4 DEF Steady
  <1>11. QED
    BY <1>3, <1>9, <1>10

LEMMA DisableRemoteKeeps ==
    ASSUME ControllerAssumption, NEW s, Good(s), Calm(s), NEW j \in Free(s)
    PROVE  Calm(DisableRemote(s, j))
  <1> DEFINE t == RemoteOff(s)
  <1>1. Steady(s) /\ s \in State /\ Owned(s)
    BY DEF Calm, Good
  <1>2. /\ Good(t) /\ t.active = s.active /\ t.kind = s.kind /\ t.phase = Closed(s, s.listener)
        /\ Kept(t) /\ Heard(t) /\ (~RemoteActive(s) => Steady(t))
    BY <1>1, RemoteOffReturns, RemoteOffKeeps
  <1>3. DisableRemote(s, j) = IF RemoteActive(s) THEN FinishRemoteLive(t, j) ELSE t
    BY DEF DisableRemote
  <1> HIDE DEF t
  <1>4. RemoteActive(t) = RemoteActive(s)
    BY <1>2 DEF RemoteActive, ActiveKind
  <1>5. j \in Free(t)
    BY <1>1, <1>2, FreeStaysFree
  <1>6. RemoteActive(t) => Calm(FinishRemoteLive(t, j))
    BY <1>2, <1>5, FinishRemoteLiveKeeps
  <1>7. QED
    BY <1>2, <1>3, <1>4, <1>6 DEF Calm

LEMMA NewAccessCodeKeeps ==
    ASSUME ControllerAssumption, NEW s, Good(s), Calm(s), NEW j \in Free(s)
    PROVE  Calm(NewAccessCode(s, j))
  <1> DEFINE u == Outdate(s, "access")
             d == DropListener(u)
             t == [d EXCEPT !.remoteTimer = FALSE]
  <1>1. s \in State /\ Owned(s) /\ Steady(s) /\ Kept(s) /\ Resting(s)
    BY DEF Good, Calm, Steady, Kept
  <1>2. /\ u \in State /\ SameSlot(s, u) /\ SameShare(s, u) /\ SameRemote(s, u)
        /\ u.approved = s.approved /\ u.granted = s.granted
        /\ \A x \in Inst : s.kind[x] # "access" => u.code[x] = s.code[x]
    BY <1>1, OutdateReturns, OutdateRest
  <1>3. NewAccessCode(s, j) =
          IF s.remote = None THEN s
          ELSE IF RemoteActive(s) THEN FinishRemoteLive(t, j) ELSE ArmRemote(t)
    BY DEF NewAccessCode
  <1> HIDE DEF u
  <1>4. Good(u)
    BY <1>2, SameKeepsGood DEF Good
  <1>5. /\ d \in State /\ Good(d) /\ SameShare(u, d) /\ SameRest(u, d) /\ d.active = u.active
        /\ d.listener = None /\ d.kind = u.kind /\ d.phase = Closed(u, u.listener)
        /\ d.mode = u.mode
    BY <1>2, <1>4, DropListenerReturns, DropListenerRest, DropListenerKeepsGood
  <1> HIDE DEF d
  <1>6. t \in State
    BY <1>5, FinishFields
  <1>7. /\ SameSlot(d, t) /\ SameShare(d, t) /\ SamePapers(d, t) /\ t.remoteTimer = FALSE
        /\ t.remote = d.remote /\ t.remotePaused = d.remotePaused /\ t.remoteLive = d.remoteLive
        /\ t.arms = d.arms /\ t.dirty = d.dirty /\ t.loadStale = d.loadStale
    BY <1>5 DEF State, SameSlot, SameShare, SameFlags, SamePapers
  <1> HIDE DEF t
  <1>8. Good(t)
    BY <1>5, <1>6, <1>7, SameKeepsGood
  <1>9. /\ t.active = s.active /\ t.listener = None /\ t.kind = s.kind /\ t.mode = s.mode
        /\ t.phase = Closed(s, s.listener)
    BY <1>2, <1>5, <1>7 DEF SameSlot, Closed
  <1>10. SameShare(s, t) /\ t.approved = s.approved /\ t.granted = s.granted /\ t.code = u.code
    BY <1>2, <1>5, <1>7 DEF SameShare, SameFlags, SameRest, SamePapers
  <1>11. /\ t.remote = s.remote /\ t.remotePaused = s.remotePaused /\ t.remoteLive = s.remoteLive
         /\ ~t.remoteTimer /\ t.arms = s.arms /\ t.dirty = s.dirty /\ t.loadStale = s.loadStale
    BY <1>2, <1>5, <1>7 DEF SameRest, SameRemote
  <1>12. CASE RemoteActive(s)
    <2>1. Alone(t)
      <3>1. s.phase \in [Inst -> Phases] /\ Alone(s)
        BY <1>1 DEF State, Kept
      <3>2. \A i \in Inst : Closed(s, s.listener)[i] = "consent" => s.phase[i] = "consent"
        BY <3>1 DEF Closed
      <3>3. QED
        BY <1>9, <3>1, <3>2 DEF Alone
    <2>2. Listed(t)
      BY <1>1, <1>9, <1>10 DEF Kept, Listed
    <2>3. RemoteActive(t)
      BY <1>9, <1>12 DEF RemoteActive, ActiveKind
    <2>4. Resting(t)
      BY <1>1, <1>9, <1>11, <2>3 DEF Resting
    <2>5. j \in Free(t)
      BY <1>1, <1>9, FreeStaysFree
    <2>6. Calm(FinishRemoteLive(t, j))
      BY <1>6, <1>8, <2>1, <2>2, <2>3, <2>4, <2>5, FinishRemoteLiveKeeps DEF Kept
    <2>7. QED
      BY <1>3, <1>12, <2>6
  <1>13. CASE ~RemoteActive(s)
    <2>1. s.active # None => t.code[s.active] = s.code[s.active]
      BY <1>1, <1>2, <1>10, <1>13 DEF State, RemoteActive, ActiveKind
    <2>2. t.remote \in t.arms /\ t.loadStale => t.dirty
      BY <1>1, <1>11 DEF Resting
    <2>3. Steady(t)
      BY <1>1, <1>6, <1>9, <1>10, <1>11, <2>1, <2>2, DroppedKeeps
    <2>4. QED
      BY <1>3, <1>6, <1>13, <2>3, ArmRemoteKeeps
  <1>14. QED
    BY <1>12, <1>13

LEMMA ForgetKeeps ==
    ASSUME ControllerAssumption, NEW s, Calm(s), NEW i \in Inst, s.active # i, s.listener # i
    PROVE  Calm(Forget(s, i))
  <1> DEFINE t == Forget(s, i)
  <1>1. /\ s \in State /\ Alone(s) /\ Listed(s) /\ Resting(s) /\ Shown(s) /\ Keyed(s) /\ Aside(s)
        /\ Heard(s)
    BY DEF Calm, Steady, Kept
  <1>2. /\ t \in State /\ SameShare(s, t) /\ t.active = s.active /\ t.listener = s.listener
        /\ t.kind = s.kind /\ t.phase = [s.phase EXCEPT ![i] = "free"] /\ t.mode = s.mode
        /\ SameRemote(s, t) /\ t.approved = s.approved /\ t.granted = s.granted
        /\ t.code = [s.code EXCEPT ![i] = "old"]
    BY <1>1, ForgetReturns, ForgetRest
  <1> HIDE DEF t
  <1>3. /\ s.phase \in [Inst -> Phases] /\ s.code \in [Inst -> {"current", "old"}]
        /\ s.active \in Inst \cup {None} /\ s.listener \in Inst \cup {None}
    BY <1>1 DEF State
  <1>4. /\ s.active # None => t.phase[s.active] = s.phase[s.active] /\ t.code[s.active] = s.code[s.active]
        /\ s.listener # None => t.code[s.listener] = s.code[s.listener]
        /\ \A x \in Inst : t.phase[x] = "consent" => s.phase[x] = "consent"
    BY <1>2, <1>3
  <1>5. Alone(t) /\ Listed(t)
    BY <1>1, <1>2, <1>4 DEF Alone, Listed
  <1>6. Resting(t) /\ Heard(t)
    BY <1>1, <1>2 DEF Resting, Heard, RemoteActive, ActiveKind, SameRemote
  <1>7. Shown(t)
    BY <1>1, <1>2, <1>4 DEF Shown, ActiveKind, SameShare, SameFlags
  <1>8. Keyed(t)
    BY <1>1, <1>2, <1>4 DEF Keyed, RemoteActive, ActiveKind, SameShare
  <1>9. Aside(t)
    BY <1>1, <1>2, <1>4 DEF Aside, RemoteActive, ActiveKind, SameRemote
  <1>10. QED
    BY <1>2, <1>5, <1>6, <1>7, <1>8, <1>9 DEF Calm, Steady, Kept, t

----------------------------------------------------------------------------
(* The actions keep the invariant.                                         *)

LEMMA InitIsCalm ==
    ASSUME Init
    PROVE  Calm(st)
  <1>1. st \in State
    BY InitIsGood DEF Good
  <1>2. /\ st.active = None /\ st.listener = None /\ st.phase = [i \in Inst |-> "free"]
        /\ st.consent = None /\ st.mode = "idle" /\ st.approved = {} /\ st.granted = {}
        /\ st.remote = None /\ ~st.remoteTimer /\ ~st.remotePaused /\ ~st.remoteLive
        /\ st.arms = {}
    BY DEF Init
  <1>3. Vacant(st) /\ Heard(st)
    BY <1>1, <1>2 DEF Vacant, Kept, Alone, Listed, Resting, Heard
  <1>4. QED
    BY <1>2, <1>3, VacantIsSteady DEF Calm

LEMMA StartHostKeepsCalm ==
    ASSUME ControllerAssumption, Good(st), Calm(st), StartHostBegin \/ StartHostLoaded
    PROVE  Calm(st')
  <1>1. st \in State /\ MaxRequests \in Nat /\ Steady(st) /\ Heard(st) /\ Kept(st)
    BY DEF Good, Calm, Steady, ControllerAssumption
  <1>2. CASE StartHostBegin
    <2> DEFINE t == [st EXCEPT !.starting = st.starting + 1]
    <2>1. st.starting + 1 \in 0..MaxRequests
      BY <1>1, <1>2 DEF StartHostBegin, State
    <2>2. st' = t
      BY <1>2 DEF StartHostBegin
    <2>3. t \in State
      BY <1>1, <2>1, CounterFields
    <2>4. SameSlot(st, t) /\ SameShare(st, t) /\ SameRest(st, t)
      BY <1>1 DEF State, SameSlot, SameShare, SameFlags, SameRest, SamePapers, SameRemote
    <2> HIDE DEF t
    <2>5. Calm(t)
      BY <1>1, <2>3, <2>4, SameKeepsSteady DEF Calm, SameShare, SameFlags
    <2>6. QED
      BY <2>2, <2>5
  <1>3. CASE StartHostLoaded
    <2> DEFINE t == [st EXCEPT !.starting = st.starting - 1]
               o == ShareOff(t)
               u == [o EXCEPT !.share = TRUE]
    <2>1. PICK i \in Free(st) :
            st' = IF st.active = None /\ ~st.share /\ ~st.retry THEN LaunchHost(u, i) ELSE t
      BY <1>3 DEF StartHostLoaded
    <2>2. st.starting - 1 \in 0..MaxRequests
      BY <1>1, <1>3 DEF StartHostLoaded, State
    <2>3. t \in State
      BY <1>1, <2>2, CounterFields
    <2>4. SameSlot(st, t) /\ SameShare(st, t) /\ SameRest(st, t)
      BY <1>1 DEF State, SameSlot, SameShare, SameFlags, SameRest, SamePapers, SameRemote
    <2> HIDE DEF t
    <2>5. Steady(t) /\ Heard(t)
      BY <1>1, <2>3, <2>4, SameKeepsSteady DEF SameShare, SameFlags
    <2>6. /\ o \in State /\ SameSlot(t, o) /\ o.sharePaused = FALSE /\ o.consent = t.consent
          /\ SameRemote(t, o) /\ o.code = t.code /\ o.approved = {} /\ o.granted = {}
      BY <2>3, ShareOffReturns, ShareOffRest
    <2> HIDE DEF o
    <2>7. u \in State
      BY <2>6, StartFields
    <2>8. /\ SameSlot(o, u) /\ SameRest(o, u) /\ u.consent = o.consent /\ u.share = TRUE
          /\ u.sharePaused = FALSE
      BY <2>6 DEF State, SameSlot, SameRest, SamePapers, SameRemote
    <2> HIDE DEF u
    <2>9. CASE st.active = None /\ ~st.share /\ ~st.retry
      <3>1. Vacant(t)
        BY <2>4, <2>5, <2>9, SteadyIsVacant DEF SameSlot
      <3>2. /\ SameSlot(t, u) /\ SameRemote(t, u) /\ u.code = t.code /\ u.approved = {}
            /\ u.granted = {} /\ u.consent = t.consent
        BY <2>6, <2>8 DEF SameSlot, SameRest, SamePapers, SameRemote
      <3>3. Alone(u) /\ Listed(u)
        BY <3>1, <3>2 DEF Vacant, Kept, Alone, Listed, SameSlot
      <3>4. Resting(u)
        BY <3>1, <3>2 DEF Vacant, Kept, Resting, RemoteActive, ActiveKind, SameSlot, SameRemote
      <3>5. Vacant(u)
        BY <2>7, <3>1, <3>2, <3>3, <3>4 DEF Vacant, Kept, SameSlot, SameRemote
      <3>6. Heard(u)
        BY <2>5, <3>2 DEF Heard, SameSlot, SameRemote
      <3>7. i \in Free(u)
        BY <2>4, <3>2 DEF Free, SameSlot
      <3>8. Steady(LaunchHost(u, i)) /\ Heard(LaunchHost(u, i))
        BY <2>8, <3>5, <3>6, <3>7, LaunchHostKeeps
      <3>9. QED
        BY <2>1, <2>9, <3>8 DEF Calm
    <2>10. CASE ~(st.active = None /\ ~st.share /\ ~st.retry)
      BY <2>1, <2>5, <2>10 DEF Calm
    <2>11. QED
      BY <2>9, <2>10
  <1>4. QED
    BY <1>2, <1>3

LEMMA StartViewerKeepsCalm ==
    ASSUME ControllerAssumption, Good(st), Calm(st), StartViewer \/ StartViewerRefused
    PROVE  Calm(st')
  <1>1. st \in State /\ Steady(st) /\ Heard(st) /\ st.active = None
    BY DEF Good, Calm, StartViewer, StartViewerRefused
  <1>2. CASE StartViewerRefused
    <2> DEFINE t == [st EXCEPT !.retry = FALSE]
    <2>1. st' = t
      BY <1>2 DEF StartViewerRefused
    <2>2. t \in State
      BY <1>1, StartFields
    <2>3. /\ SameSlot(st, t) /\ SameRest(st, t) /\ t.share = st.share /\ t.consent = st.consent
          /\ t.guest = st.guest
      BY <1>1 DEF State, SameSlot, SameRest, SamePapers, SameRemote
    <2> HIDE DEF t
    <2>4. QED
      BY <1>1, <2>1, <2>2, <2>3, SameKeepsSteady DEF Calm
  <1>3. CASE StartViewer
    <2> DEFINE t == [st EXCEPT !.retry = FALSE, !.reconnect = FALSE]
    <2>1. PICK i \in Free(st) : st' = LaunchViewer(t, i, FALSE)
      BY <1>3 DEF StartViewer
    <2>2. t \in State
      BY <1>1, StartFields
    <2>3. /\ SameSlot(st, t) /\ SameRest(st, t) /\ t.share = st.share /\ t.consent = st.consent
          /\ t.guest = st.guest
      BY <1>1 DEF State, SameSlot, SameRest, SamePapers, SameRemote
    <2> HIDE DEF t
    <2>4. Vacant(t) /\ Heard(t)
      BY <1>1, <2>2, <2>3, SameKeepsSteady, SteadyIsVacant DEF SameSlot
    <2>5. i \in Free(t)
      BY <2>3 DEF Free, SameSlot
    <2>6. QED
      BY <2>1, <2>4, <2>5, LaunchViewerKeeps DEF Calm
  <1>4. QED
    BY <1>2, <1>3

(* Switching remote access on: during a live session the listener waits. *)
LEMMA EnableRemoteKeepsCalm ==
    ASSUME ControllerAssumption, Good(st), Calm(st), EnableRemoteBegin \/ EnableRemoteReady
    PROVE  Calm(st')
  <1>1. /\ st \in State /\ MaxRequests \in Nat /\ Heard(st) /\ Alone(st) /\ Listed(st)
        /\ Resting(st) /\ Shown(st) /\ Keyed(st) /\ Aside(st)
    BY DEF Good, Calm, Steady, Kept, ControllerAssumption
  <1>2. CASE EnableRemoteBegin
    <2>1. PICK r \in RemoteIds \ st.arms :
            LET live == ActiveKind(st) \in {"share", "viewer"}
                          /\ st.mode \in {"hosting-live", "viewing"}
            IN st' = [st EXCEPT !.enabling = st.enabling + 1,
                                !.remote = IF st.remote = None THEN r ELSE st.remote,
                                !.remotePaused = IF st.remote = None THEN live ELSE st.remotePaused]
      BY <1>2 DEF EnableRemoteBegin
    <2> DEFINE n == st.enabling + 1
               q == IF st.remote = None THEN r ELSE st.remote
               b == IF st.remote = None
                    THEN ActiveKind(st) \in {"share", "viewer"}
                           /\ st.mode \in {"hosting-live", "viewing"}
                    ELSE st.remotePaused
               t == [st EXCEPT !.enabling = n, !.remote = q, !.remotePaused = b]
    <2>2. n \in 0..MaxRequests /\ n > 0
      <3>1. st.enabling \in 0..MaxRequests /\ st.enabling < MaxRequests
        BY <1>1, <1>2 DEF EnableRemoteBegin, State
      <3>2. QED
        BY <1>1, <3>1
    <2>3. q \in RemoteIds \cup {None} /\ b \in BOOLEAN
      BY <1>1 DEF State
    <2>4. st' = t
      BY <2>1
    <2>5. st.remote # None => q = st.remote /\ b = st.remotePaused
      OBVIOUS
    <2>6. st.remote = None =>
            /\ q \notin st.arms /\ q # None
            /\ b <=> ActiveKind(st) \in {"share", "viewer"} /\ st.mode \in {"hosting-live", "viewing"}
      BY DEF ControllerAssumption
    <2> HIDE DEF n, q, b
    <2>7. t \in State
      BY <1>1, <2>2, <2>3, CounterFields
    <2>8. /\ SameSlot(st, t) /\ SameShare(st, t) /\ SamePapers(st, t) /\ t.enabling = n
          /\ t.remote = q /\ t.remotePaused = b /\ t.remoteTimer = st.remoteTimer
          /\ t.remoteLive = st.remoteLive /\ t.arms = st.arms /\ t.dirty = st.dirty
          /\ t.loadStale = st.loadStale /\ t.listenerStale = st.listenerStale
      BY <1>1 DEF State, SameSlot, SameShare, SameFlags, SamePapers
    <2> HIDE DEF t
    <2>9. Alone(t) /\ Listed(t)
      BY <1>1, <2>8 DEF Alone, Listed, SameSlot, SamePapers
    <2>10. Resting(t)
      <3>1. CASE st.remote = None
        BY <1>1, <2>6, <2>8, <3>1 DEF Resting, RemoteActive, ActiveKind, SameSlot
      <3>2. CASE st.remote # None
        BY <1>1, <2>5, <2>8, <3>2 DEF Resting, RemoteActive, ActiveKind, SameSlot
      <3>3. QED
        BY <3>1, <3>2
    <2>11. Shown(t)
      BY <1>1, <2>8 DEF Shown, ActiveKind, SameSlot, SameShare, SameFlags
    <2>12. Keyed(t)
      BY <1>1, <2>8 DEF Keyed, RemoteActive, ActiveKind, SameSlot, SameShare, SamePapers
    <2>13. Aside(t)
      <3>1. ActiveKind(st) \in {"share", "viewer"} =>
              (st.mode \in {"hosting-live", "viewing"} <=> st.phase[st.active] = "live")
        BY <1>1 DEF Shown, Looks, ActiveKind
      <3>2. CASE st.remote = None
        BY <1>1, <2>6, <2>8, <3>1, <3>2 DEF Aside, RemoteActive, ActiveKind, SameSlot
      <3>3. CASE st.remote # None
        BY <1>1, <2>5, <2>8, <3>3 DEF Aside, RemoteActive, ActiveKind, SameSlot
      <3>4. QED
        BY <3>2, <3>3
    <2>14. Heard(t)
      BY <2>2, <2>8 DEF Heard
    <2>15. QED
      BY <2>4, <2>7, <2>9, <2>10, <2>11, <2>12, <2>13, <2>14 DEF Calm, Steady, Kept
  <1>3. CASE EnableRemoteReady
    <2> DEFINE t == [st EXCEPT !.enabling = st.enabling - 1]
    <2>1. st.enabling - 1 \in 0..MaxRequests
      BY <1>1, <1>3 DEF EnableRemoteReady, State
    <2>2. st' = ArmRemote(t)
      BY <1>3 DEF EnableRemoteReady
    <2>3. t \in State
      BY <1>1, <2>1, CounterFields
    <2>4. /\ SameSlot(st, t) /\ SameShare(st, t) /\ SamePapers(st, t)
          /\ t.remote = st.remote /\ t.remotePaused = st.remotePaused
          /\ t.remoteTimer = st.remoteTimer
          /\ t.remoteLive = st.remoteLive /\ t.arms = st.arms /\ t.dirty = st.dirty
          /\ t.loadStale = st.loadStale /\ t.listenerStale = st.listenerStale
      BY <1>1 DEF State, SameSlot, SameShare, SameFlags, SamePapers
    <2> HIDE DEF t
    <2>5. Alone(t) /\ Listed(t) /\ Resting(t)
      BY <1>1, <2>4 DEF Alone, Listed, Resting, RemoteActive, ActiveKind, SameSlot, SamePapers
    <2>6. Shown(t)
      BY <1>1, <2>4 DEF Shown, ActiveKind, SameSlot, SameShare, SameFlags
    <2>7. Keyed(t)
      BY <1>1, <2>4 DEF Keyed, RemoteActive, ActiveKind, SameSlot, SameShare, SamePapers
    <2>8. Aside(t)
      BY <1>1, <2>4 DEF Aside, RemoteActive, ActiveKind, SameSlot
    <2>9. Steady(t)
      BY <2>3, <2>5, <2>6, <2>7, <2>8 DEF Steady, Kept
    <2>10. QED
      BY <2>2, <2>3, <2>9, ArmRemoteKeeps
  <1>4. QED
    BY <1>2, <1>3

LEMMA ConsentAnsweredKeepsCalm ==
    ASSUME ControllerAssumption, Good(st), Calm(st), NEW yes \in BOOLEAN, ConsentAnswered(yes)
    PROVE  Calm(st')
  <1>1. /\ st \in State /\ Asked(st) /\ Owned(st) /\ Lent(st) /\ Heard(st)
        /\ Alone(st) /\ Listed(st) /\ Resting(st) /\ Shown(st) /\ Keyed(st) /\ Aside(st)
        /\ st.consent # None /\ st.active = st.consent
    BY DEF Good, Calm, Steady, Kept, ConsentAnswered, Current
  <1>2. /\ st.consent \in Inst /\ st.guest \in Devices /\ st.kind[st.consent] = "share"
        /\ st.phase[st.consent] = "consent" /\ ActiveKind(st) = "share" /\ st.share
    BY <1>1 DEF Asked, ActiveKind, Shown, State
  <1>3. CASE yes
    <2> DEFINE t == [st EXCEPT !.approved = st.approved \cup {st.guest},
                               !.granted = st.granted \cup {st.guest}]
    <2>1. st' = GoLive(t, st.consent, st.guest)
      BY <1>3 DEF ConsentAnswered
    <2>2. /\ st.approved \cup {st.guest} \in SUBSET Devices
          /\ st.granted \cup {st.guest} \in SUBSET Devices
      BY <1>1, <1>2 DEF State
    <2>3. t \in State
      BY <1>1, <2>2, AnswerFields
    <2>4. /\ SameSlot(st, t) /\ SameShare(st, t) /\ SameRemote(st, t) /\ t.code = st.code
          /\ t.approved = st.approved \cup {st.guest} /\ t.granted = st.granted \cup {st.guest}
      BY <1>1 DEF State, SameSlot, SameShare, SameFlags, SameRemote
    <2> HIDE DEF t
    <2>5. Good(t)
      BY <2>3, <2>4, SameKeepsGood
    <2>6. Alone(t) /\ Listed(t)
      BY <1>1, <2>4 DEF Alone, Listed, SameSlot
    <2>7. Resting(t)
      BY <1>1, <2>4 DEF Resting, RemoteActive, ActiveKind, SameSlot, SameRemote
    <2>8. Shown(t)
      BY <1>1, <2>4 DEF Shown, ActiveKind, SameSlot, SameShare, SameFlags
    <2>9. Keyed(t)
      BY <1>1, <2>4 DEF Keyed, RemoteActive, ActiveKind, SameSlot, SameShare
    <2>10. Aside(t)
      BY <1>1, <2>4 DEF Aside, RemoteActive, ActiveKind, SameSlot, SameRemote
    <2>11. Steady(t)
      BY <2>3, <2>6, <2>7, <2>8, <2>9, <2>10 DEF Steady, Kept
    <2>12. /\ st.guest \in t.granted /\ t.active = st.consent /\ t.kind[st.consent] = "share"
           /\ t.phase[st.consent] # "live"
      BY <1>1, <1>2, <2>4 DEF SameSlot
    <2>13. Calm(GoLive(t, st.consent, st.guest))
      BY <1>2, <2>5, <2>11, <2>12, GoLiveKeeps
    <2>14. QED
      BY <2>1, <2>13
  <1>4. CASE ~yes
    <2> DEFINE t == [st EXCEPT !.consent = None]
    <2>1. st' = RearmHost(t)
      BY <1>4 DEF ConsentAnswered
    <2>2. t \in State
      BY <1>1, RefusedFields
    <2>3. SameSlot(st, t) /\ SameFlags(st, t) /\ SameRest(st, t)
      BY <1>1 DEF State, SameSlot, SameFlags, SameRest, SamePapers, SameRemote
    <2> HIDE DEF t
    <2>4. Kept(t) /\ Heard(t)
      BY <1>1, <2>2, <2>3, SameKeepsKept DEF Kept, SameSlot
    <2>5. ~RemoteActive(t) /\ t.share /\ ~t.sharePaused
      BY <1>1, <1>2, <2>3 DEF Lent, RemoteActive, ActiveKind, SameSlot, SameFlags
    <2>6. QED
      BY <2>1, <2>4, <2>5, RearmHostKeeps
  <1>5. QED
    BY <1>3, <1>4

(* A listener that is up is made again; a load on its way is repeated. *)
LEMMA SettingsChangedKeepsCalm ==
    ASSUME ControllerAssumption, Good(st), Calm(st), SettingsChanged
    PROVE  Calm(st')
  <1> DEFINE b == st.remote \in st.arms
             c == st.listener # None
             s == [st EXCEPT !.loadStale = b, !.listenerStale = c]
             e == [s EXCEPT !.dirty = TRUE]
             d == DropListener(s)
  <1>1. /\ st \in State /\ Owned(st) /\ Heard(st) /\ Steady(st) /\ Alone(st) /\ Listed(st)
        /\ Resting(st) /\ Shown(st) /\ Keyed(st) /\ Aside(st)
    BY DEF Good, Calm, Steady, Kept
  <1>2. st' = RefreshRemoteListener(s)
    BY DEF SettingsChanged
  <1>3. b \in BOOLEAN /\ c \in BOOLEAN /\ (b <=> st.remote \in st.arms) /\ (c <=> st.listener # None)
    OBVIOUS
  <1> HIDE DEF b, c
  <1>4. s \in State
    <2>1. 0 \in 0..MaxRequests
      BY DEF ControllerAssumption
    <2>2. QED
      BY <1>1, <1>3, <2>1, CounterFields
  <1>5. /\ SameSlot(st, s) /\ SameShare(st, s) /\ SamePapers(st, s) /\ s.remote = st.remote
        /\ s.remotePaused = st.remotePaused /\ s.remoteTimer = st.remoteTimer
        /\ s.remoteLive = st.remoteLive /\ s.arms = st.arms /\ s.dirty = st.dirty
        /\ s.enabling = st.enabling /\ s.loadStale = b /\ s.listenerStale = c
    BY <1>1 DEF State, SameSlot, SameShare, SameFlags, SamePapers
  <1>6. st' = IF s.remote \in s.arms THEN e
              ELSE IF s.remote = None \/ s.listener = None THEN s ELSE ArmRemote(d)
    BY <1>2 DEF RefreshRemoteListener
  <1> HIDE DEF s
  <1>7. ASSUME NEW t \in State, SameSlot(st, t), SameShare(st, t), SamePapers(st, t),
               t.remote = st.remote, t.remotePaused = st.remotePaused,
               t.remoteTimer = st.remoteTimer, t.remoteLive = st.remoteLive, t.arms = st.arms,
               t.enabling = st.enabling,
               t.remote \in t.arms /\ t.loadStale => t.dirty, t.listener # None => ~t.listenerStale
        PROVE  Calm(t)
    <2>1. Alone(t) /\ Listed(t)
      BY <1>1, <1>7 DEF Alone, Listed, SameSlot, SamePapers
    <2>2. Resting(t) /\ Heard(t)
      BY <1>1, <1>7 DEF Resting, Heard, RemoteActive, ActiveKind, SameSlot
    <2>3. Shown(t)
      BY <1>1, <1>7 DEF Shown, ActiveKind, SameSlot, SameShare, SameFlags
    <2>4. Keyed(t)
      BY <1>1, <1>7 DEF Keyed, RemoteActive, ActiveKind, SameSlot, SameShare, SamePapers
    <2>5. Aside(t)
      BY <1>1, <1>7 DEF Aside, RemoteActive, ActiveKind, SameSlot
    <2>6. QED
      BY <1>7, <2>1, <2>2, <2>3, <2>4, <2>5 DEF Calm, Steady, Kept
  <1>8. CASE s.remote \in s.arms
    <2>1. e \in State
      BY <1>4, FinishFields
    <2>2. /\ SameSlot(s, e) /\ SameShare(s, e) /\ SamePapers(s, e) /\ e.remote = s.remote
          /\ e.remotePaused = s.remotePaused /\ e.remoteTimer = s.remoteTimer
          /\ e.remoteLive = s.remoteLive /\ e.arms = s.arms /\ e.dirty = TRUE
          /\ e.enabling = s.enabling
      BY <1>4 DEF State, SameSlot, SameShare, SameFlags, SamePapers
    <2>3. st' = e
      BY <1>6, <1>8
    <2> HIDE DEF e
    <2>4. /\ SameSlot(st, e) /\ SameShare(st, e) /\ SamePapers(st, e)
      BY <1>5, <2>2 DEF SameSlot, SameShare, SameFlags, SamePapers
    <2>5. e.listener = None
      BY <1>1, <1>5, <1>8, <2>4 DEF Resting, SameSlot
    <2>6. Calm(e)
      BY <1>5, <1>7, <2>1, <2>2, <2>4, <2>5
    <2>7. QED
      BY <2>3, <2>6
  <1>9. CASE s.remote \notin s.arms /\ (s.remote = None \/ s.listener = None)
    <2>1. s.listener = None
      BY <1>1, <1>5, <1>9 DEF Resting, SameSlot
    <2>2. Calm(s)
      BY <1>4, <1>5, <1>7, <1>9, <2>1
    <2>3. QED
      BY <1>6, <1>9, <2>2
  <1>10. CASE s.remote \notin s.arms /\ s.remote # None /\ s.listener # None
    <2>1. st' = ArmRemote(d)
      BY <1>6, <1>10
    <2>2. /\ d \in State /\ SameShare(s, d) /\ SameRest(s, d) /\ d.active = s.active
          /\ d.listener = None /\ d.kind = s.kind /\ d.phase = Closed(s, s.listener)
          /\ d.mode = s.mode
      BY <1>4, DropListenerReturns, DropListenerRest
    <2> HIDE DEF d
    <2>3. /\ d.active = st.active /\ d.kind = st.kind /\ d.mode = st.mode
          /\ d.phase = Closed(st, st.listener) /\ SameShare(st, d)
      BY <1>5, <2>2 DEF SameSlot, SameShare, SameFlags, Closed
    <2>4. /\ d.code = st.code /\ d.approved = st.approved /\ d.granted = st.granted
          /\ d.remote = st.remote /\ d.remotePaused = st.remotePaused
          /\ d.remoteLive = st.remoteLive /\ d.remoteTimer = st.remoteTimer /\ d.arms = st.arms
          /\ d.remote \notin d.arms
      BY <1>5, <1>10, <2>2 DEF SameRest, SamePapers, SameRemote
    <2>5. Steady(d)
      BY <1>1, <2>2, <2>3, <2>4, DroppedKeeps
    <2>6. QED
      BY <2>1, <2>2, <2>5, ArmRemoteKeeps
  <1>11. QED
    BY <1>8, <1>9, <1>10

LEMMA ShutdownKeepsCalm ==
    ASSUME ControllerAssumption, Good(st), Calm(st), Shutdown
    PROVE  Calm(st')
  <1> DEFINE t == StopActive(RemoteOff(st))
             u == [t EXCEPT !.down = TRUE]
  <1>1. st' = u
    BY DEF Shutdown
  <1>2. Kept(RemoteOff(st)) /\ Heard(RemoteOff(st))
    BY RemoteOffKeeps DEF Calm
  <1>3. Calm(t)
    BY <1>2, StopActiveKeeps
  <1> HIDE DEF t
  <1>4. t \in State /\ Steady(t) /\ Heard(t)
    BY <1>3 DEF Calm, Steady, Kept
  <1>5. u \in State
    BY <1>4, ZenonT(60) DEF State
  <1>6. SameSlot(t, u) /\ SameShare(t, u) /\ SameRest(t, u)
    BY <1>4 DEF State, SameSlot, SameShare, SameFlags, SameRest, SamePapers, SameRemote
  <1> HIDE DEF u
  <1>7. QED
    BY <1>1, <1>4, <1>5, <1>6, SameKeepsSteady DEF Calm, SameShare, SameFlags

LEMMA HostKeepsCalm ==
    ASSUME ControllerAssumption, Good(st), Calm(st), NEW i \in Inst,
           \/ \E d \in Devices, auto \in BOOLEAN : HostConsentRequest(i, d, auto)
           \/ HostEnds(i)
    PROVE  Calm(st')
  <1>1. /\ st \in State /\ Owned(st) /\ Lent(st) /\ Heard(st) /\ Steady(st) /\ Kept(st)
        /\ Alone(st) /\ Listed(st) /\ Resting(st) /\ Shown(st) /\ Keyed(st) /\ Aside(st)
        /\ st.kind[i] = "share" /\ i # None
    BY DEF Good, Calm, Steady, Kept, HostConsentRequest, HostEnds, ControllerAssumption
  <1>2. ASSUME NEW d \in Devices, NEW auto \in BOOLEAN, HostConsentRequest(i, d, auto)
        PROVE  Calm(st')
    <2> DEFINE t == [st EXCEPT !.phase[i] = "consent", !.consent = i, !.guest = d,
                               !.mode = "hosting-consent"]
    <2>1. /\ st.active = i /\ st.phase[i] \in {"waiting", "closed"}
          /\ st' = IF d \in st.approved /\ auto THEN GoLive(st, i, d) ELSE t
      BY <1>2 DEF HostConsentRequest, Current
    <2>2. st.phase[i] = "waiting" /\ ActiveKind(st) = "share" /\ ~RemoteActive(st)
      BY <1>1, <2>1 DEF Owned, Open, RemoteActive, ActiveKind
    <2>3. d \in st.approved => Calm(GoLive(st, i, d))
      <3>1. d \in st.approved => d \in st.granted
        BY <1>1 DEF Listed
      <3>2. QED
        BY <1>1, <2>1, <2>2, <3>1, GoLiveKeeps
    <2>4. t \in State
      BY <1>1, AskFields
    <2>5. /\ t.active = i /\ t.listener = st.listener /\ t.kind = st.kind
          /\ t.phase = [st.phase EXCEPT ![i] = "consent"] /\ SameFlags(st, t)
          /\ t.consent = i /\ t.mode = "hosting-consent" /\ SameRest(st, t)
      BY <1>1, <2>1 DEF State, SameFlags, SameRest, SamePapers, SameRemote
    <2> HIDE DEF t
    <2>6. st.phase \in [Inst -> Phases] /\ t.phase[i] = "consent"
      BY <1>1, <2>5 DEF State
    <2>7. ActiveKind(t) = "share"
      BY <1>1, <2>5 DEF ActiveKind
    <2>8. Alone(t)
      BY <1>1, <2>1, <2>5, <2>6 DEF Alone
    <2>9. Listed(t)
      BY <1>1, <2>5 DEF Listed, SameRest, SamePapers
    <2>10. Resting(t) /\ Heard(t)
      BY <1>1, <2>2, <2>5, <2>7 DEF Resting, Heard, RemoteActive, SameRest, SameRemote
    <2>11. Shown(t)
      BY <1>1, <2>2, <2>5, <2>6, <2>7 DEF Shown, Looks, SameFlags
    <2>12. Keyed(t)
      BY <1>1, <2>1, <2>2, <2>5, <2>6, <2>7 DEF Keyed, RemoteActive, SameRest, SamePapers
    <2>13. Aside(t)
      BY <1>1, <2>1, <2>2, <2>5, <2>6, <2>7 DEF Aside, RemoteActive, SameRest, SameRemote
    <2>14. Calm(t)
      BY <2>4, <2>8, <2>9, <2>10, <2>11, <2>12, <2>13 DEF Calm, Steady, Kept
    <2>15. QED
      BY <2>1, <2>3, <2>14
  <1>3. CASE HostEnds(i)
    <2>1. st' = IF st.active = i THEN RearmHost(st) ELSE Forget(st, i)
      BY <1>3 DEF HostEnds, Current
    <2>2. st.listener # i
      BY <1>1 DEF Owned
    <2>3. CASE st.active = i
      <3>1. ActiveKind(st) = "share" /\ ~RemoteActive(st)
        BY <1>1, <2>3 DEF RemoteActive, ActiveKind
      <3>2. st.share /\ ~st.sharePaused
        BY <1>1, <3>1 DEF Shown, Lent
      <3>3. QED
        BY <1>1, <2>1, <2>3, <3>1, <3>2, RearmHostKeeps
    <2>4. CASE st.active # i
      BY <2>1, <2>2, <2>4, ForgetKeeps
    <2>5. QED
      BY <2>3, <2>4
  <1>4. QED
    BY <1>2, <1>3

LEMMA ViewerKeepsCalm ==
    ASSUME ControllerAssumption, Good(st), Calm(st), NEW i \in Inst,
           ViewerSecure(i) \/ \E final \in BOOLEAN : ViewerEnds(i, final)
    PROVE  Calm(st')
  <1>1. /\ st \in State /\ Owned(st) /\ Lent(st) /\ Heard(st) /\ Kept(st)
        /\ Alone(st) /\ Listed(st) /\ Resting(st) /\ Shown(st) /\ Keyed(st) /\ Aside(st)
        /\ st.kind[i] = "viewer" /\ i # None
    BY DEF Good, Calm, Steady, Kept, ViewerSecure, ViewerEnds, ControllerAssumption
  <1>2. CASE ViewerSecure(i)
    <2> DEFINE t == [st EXCEPT !.phase[i] = "live", !.mode = "viewing",
                               !.reconnect = FALSE, !.awake = TRUE]
    <2>1. st.active = i /\ st.phase[i] = "waiting" /\ st' = PauseRemoteListener(t)
      BY <1>2 DEF ViewerSecure, Current
    <2>2. t \in State
      BY <1>1, ViewingFields
    <2>3. /\ t.active = i /\ t.listener = st.listener /\ t.kind = st.kind /\ t.mode = "viewing"
          /\ t.phase = [st.phase EXCEPT ![i] = "live"] /\ SameShare(st, t) /\ SameRest(st, t)
      BY <1>1, <2>1 DEF State, SameShare, SameFlags, SameRest, SamePapers, SameRemote
    <2> HIDE DEF t
    <2>4. st.phase \in [Inst -> Phases] /\ "live" \in Open /\ t.phase[i] = "live"
      BY <1>1, <2>3 DEF State, Open
    <2>5. Owned(t)
      BY <1>1, <2>1, <2>3, <2>4 DEF Owned
    <2>6. /\ ActiveKind(t) = "viewer" /\ ~RemoteActive(t)
          /\ ActiveKind(st) = "viewer" /\ ~RemoteActive(st)
      BY <1>1, <2>1, <2>3 DEF RemoteActive, ActiveKind
    <2>7. Alone(t)
      BY <1>1, <2>1, <2>3, <2>4 DEF Alone
    <2>8. Listed(t)
      BY <1>1, <2>3 DEF Listed, SameRest, SamePapers
    <2>9. Resting(t)
      BY <1>1, <2>3, <2>6 DEF Resting, SameRest, SameRemote
    <2>10. Shown(t)
      BY <1>1, <2>1, <2>3, <2>4, <2>6 DEF Shown, Looks, SameShare
    <2>11. Keyed(t)
      BY <2>6 DEF Keyed
    <2>12. ~t.remotePaused
      BY <1>1, <2>1, <2>3 DEF Aside, SameRest, SameRemote
    <2>13. Kept(t) /\ ActiveKind(t) \in {"share", "viewer"} /\ t.phase[t.active] = "live"
      BY <2>2, <2>3, <2>4, <2>6, <2>7, <2>8, <2>9 DEF Kept
    <2>14. QED
      BY <2>1, <2>5, <2>10, <2>11, <2>12, <2>13, PauseKeeps
  <1>3. ASSUME NEW final \in BOOLEAN, ViewerEnds(i, final)
        PROVE  Calm(st')
    <2>1. st' = IF st.active = i THEN RetryViewer(st, st.phase[i] = "live", final)
                                 ELSE Forget(st, i)
      BY <1>3 DEF ViewerEnds, Current
    <2>2. st.listener # i
      BY <1>1 DEF Owned
    <2>3. CASE st.active = i
      <3>1. ~RemoteActive(st)
        BY <1>1, <2>3 DEF RemoteActive, ActiveKind
      <3>2. QED
        BY <1>1, <2>1, <2>3, <3>1, RetryViewerKeeps
    <2>4. CASE st.active # i
      BY <2>1, <2>2, <2>4, ForgetKeeps
    <2>5. QED
      BY <2>3, <2>4
  <1>4. QED
    BY <1>2, <1>3

LEMMA AccessKeepsCalm ==
    ASSUME ControllerAssumption, Good(st), Calm(st), NEW i \in Inst,
           RemoteConnects(i) \/ \E later \in BOOLEAN : AccessEnds(i, later)
    PROVE  Calm(st')
  <1>1. Owned(st) /\ Steady(st) /\ Kept(st)
    BY DEF Good, Calm, Steady
  <1>2. CASE RemoteConnects(i)
    BY <1>1, <1>2, PromoteRemoteKeeps DEF RemoteConnects
  <1>3. ASSUME NEW later \in BOOLEAN, AccessEnds(i, later)
        PROVE  Calm(st')
    <2>1. CASE st.listener = i /\ st' = ListenerFailed(st, later)
      BY <1>1, <2>1, ListenerFailedKeeps
    <2>2. CASE st.active = i /\ \E j \in Free(st) : st' = FinishRemoteLive(st, j)
      <3>1. RemoteActive(st)
        BY <1>3, <2>2 DEF AccessEnds, RemoteActive, ActiveKind, ControllerAssumption
      <3>2. QED
        BY <1>1, <2>2, <3>1, FinishRemoteLiveKeeps
    <2>3. CASE st.active # i /\ st.listener # i /\ st' = Forget(st, i)
      BY <2>3, ForgetKeeps
    <2>4. QED
      BY <1>3, <2>1, <2>2, <2>3 DEF AccessEnds, Current
  <1>4. QED
    BY <1>2, <1>3

LEMMA TimersKeepCalm ==
    ASSUME ControllerAssumption, Good(st), Calm(st),
           ShareTimerFires \/ RetryTimerFires \/ RemoteTimerFires
    PROVE  Calm(st')
  <1>1. /\ st \in State /\ Heard(st) /\ Steady(st) /\ Alone(st) /\ Listed(st) /\ Resting(st)
        /\ Shown(st) /\ Keyed(st) /\ Aside(st)
    BY DEF Good, Calm, Steady, Kept
  <1>2. CASE ShareTimerFires
    <2> DEFINE t == [st EXCEPT !.shareTimer = FALSE]
    <2>1. PICK i \in Free(st) : st' = LaunchHost(t, i)
      BY <1>2 DEF ShareTimerFires
    <2>2. t \in State
      BY <1>1, StartFields
    <2>3. /\ SameSlot(st, t) /\ SameRest(st, t) /\ t.share = st.share /\ t.consent = st.consent
          /\ t.guest = st.guest
      BY <1>1 DEF State, SameSlot, SameRest, SamePapers, SameRemote
    <2> HIDE DEF t
    <2>4. Steady(t) /\ Heard(t)
      BY <1>1, <2>2, <2>3, SameKeepsSteady
    <2>5. CASE t.share /\ t.active = None /\ ~t.sharePaused
      <3>1. i \in Free(t)
        BY <2>3 DEF Free, SameSlot
      <3>2. Vacant(t)
        BY <2>4, <2>5, SteadyIsVacant
      <3>3. Steady(LaunchHost(t, i)) /\ Heard(LaunchHost(t, i))
        BY <2>4, <2>5, <3>1, <3>2, LaunchHostKeeps
      <3>4. QED
        BY <2>1, <3>3 DEF Calm
    <2>6. CASE ~(t.share /\ t.active = None /\ ~t.sharePaused)
      BY <2>1, <2>4, <2>6 DEF LaunchHost, Calm
    <2>7. QED
      BY <2>5, <2>6
  <1>3. CASE RetryTimerFires
    <2> DEFINE t == [st EXCEPT !.retry = FALSE]
    <2>1. PICK i \in Free(st) : st' = IF st.active = None THEN LaunchViewer(t, i, TRUE) ELSE t
      BY <1>3 DEF RetryTimerFires
    <2>2. t \in State
      BY <1>1, StartFields
    <2>3. /\ SameSlot(st, t) /\ SameRest(st, t) /\ t.share = st.share /\ t.consent = st.consent
          /\ t.guest = st.guest
      BY <1>1 DEF State, SameSlot, SameRest, SamePapers, SameRemote
    <2> HIDE DEF t
    <2>4. Steady(t) /\ Heard(t)
      BY <1>1, <2>2, <2>3, SameKeepsSteady
    <2>5. i \in Free(t)
      BY <2>3 DEF Free, SameSlot
    <2>6. st.active = None => Calm(LaunchViewer(t, i, TRUE))
      <3>1. st.active = None => Vacant(t)
        BY <2>3, <2>4, SteadyIsVacant DEF SameSlot
      <3>2. QED
        BY <2>4, <2>5, <3>1, LaunchViewerKeeps DEF Calm
    <2>7. QED
      BY <2>1, <2>4, <2>6 DEF Calm
  <1>4. CASE RemoteTimerFires
    <2> DEFINE t == [st EXCEPT !.remoteTimer = FALSE]
    <2>1. st' = ArmRemote(t)
      BY <1>4 DEF RemoteTimerFires
    <2>2. t \in State
      BY <1>1, FinishFields
    <2>3. /\ SameSlot(st, t) /\ SameShare(st, t) /\ SamePapers(st, t) /\ t.remote = st.remote
          /\ t.remotePaused = st.remotePaused /\ t.remoteTimer = FALSE
          /\ t.remoteLive = st.remoteLive /\ t.arms = st.arms /\ t.dirty = st.dirty
          /\ t.loadStale = st.loadStale /\ t.listenerStale = st.listenerStale
      BY <1>1 DEF State, SameSlot, SameShare, SameFlags, SamePapers
    <2> HIDE DEF t
    <2>4. Alone(t) /\ Listed(t)
      BY <1>1, <2>3 DEF Alone, Listed, SameSlot, SamePapers
    <2>5. Resting(t)
      BY <1>1, <2>3 DEF Resting, RemoteActive, ActiveKind, SameSlot
    <2>6. Shown(t)
      BY <1>1, <2>3 DEF Shown, ActiveKind, SameSlot, SameShare, SameFlags
    <2>7. Keyed(t)
      BY <1>1, <2>3 DEF Keyed, RemoteActive, ActiveKind, SameSlot, SameShare, SamePapers
    <2>8. Aside(t)
      BY <1>1, <2>3 DEF Aside, RemoteActive, ActiveKind, SameSlot
    <2>9. Steady(t)
      BY <2>2, <2>4, <2>5, <2>6, <2>7, <2>8 DEF Steady, Kept
    <2>10. QED
      BY <2>1, <2>2, <2>9, ArmRemoteKeeps
  <1>5. QED
    BY <1>2, <1>3, <1>4

(* The listener is made only when no change of the settings is pending. *)
LEMMA ArmLoadedKeepsCalm ==
    ASSUME ControllerAssumption, Good(st), Calm(st), NEW r \in RemoteIds, ArmLoaded(r)
    PROVE  Calm(st')
  <1> DEFINE a == st.arms \ {r}
             t == [st EXCEPT !.arms = a]
             w == [st EXCEPT !.dirty = FALSE, !.loadStale = FALSE]
  <1>1. /\ st \in State /\ Owned(st) /\ Heard(st) /\ Alone(st) /\ Listed(st) /\ Resting(st)
        /\ Shown(st) /\ Keyed(st) /\ Aside(st) /\ r \in st.arms
    BY DEF Good, Calm, Steady, Kept, ArmLoaded
  <1>2. a \in SUBSET RemoteIds /\ r \notin a /\ a \subseteq st.arms
        /\ \A x \in st.arms : x # r => x \in a
    BY <1>1 DEF State
  <1>3. \/ st.remote = r /\ st.dirty /\ st' = w
        \/ /\ st.remote = r /\ ~st.dirty /\ CanArm(t)
           /\ \E i \in Free(st) :
                st' = [Create(t, i, "access") EXCEPT !.listener = i, !.listenerStale = st.loadStale]
        \/ (st.remote = r => ~CanArm(t)) /\ st' = t
    BY DEF ArmLoaded
  <1> HIDE DEF a
  <1>4. t \in State /\ w \in State
    <2>1. 0 \in 0..MaxRequests
      BY DEF ControllerAssumption
    <2>2. QED
      BY <1>1, <1>2, <2>1, CounterFields
  <1>5. /\ SameSlot(st, w) /\ SameShare(st, w) /\ SamePapers(st, w) /\ w.remote = st.remote
        /\ w.remotePaused = st.remotePaused /\ w.remoteTimer = st.remoteTimer
        /\ w.remoteLive = st.remoteLive /\ w.arms = st.arms /\ w.enabling = st.enabling
        /\ w.listenerStale = st.listenerStale /\ w.loadStale = FALSE
    BY <1>1 DEF State, SameSlot, SameShare, SameFlags, SamePapers
  <1>6. /\ SameSlot(st, t) /\ SameShare(st, t) /\ SamePapers(st, t) /\ t.remote = st.remote
        /\ t.remotePaused = st.remotePaused /\ t.remoteTimer = st.remoteTimer
        /\ t.remoteLive = st.remoteLive /\ t.arms = a /\ t.enabling = st.enabling
        /\ t.listenerStale = st.listenerStale /\ t.loadStale = st.loadStale /\ t.dirty = st.dirty
    BY <1>1 DEF State, SameSlot, SameShare, SameFlags, SamePapers
  <1> HIDE DEF t, w
  <1>7. CASE st.remote = r /\ st.dirty /\ st' = w
    <2>1. Alone(w) /\ Listed(w)
      BY <1>1, <1>5 DEF Alone, Listed, SameSlot, SamePapers
    <2>2. Resting(w) /\ Heard(w)
      BY <1>1, <1>5 DEF Resting, Heard, RemoteActive, ActiveKind, SameSlot
    <2>3. Shown(w)
      BY <1>1, <1>5 DEF Shown, ActiveKind, SameSlot, SameShare, SameFlags
    <2>4. Keyed(w)
      BY <1>1, <1>5 DEF Keyed, RemoteActive, ActiveKind, SameSlot, SameShare, SamePapers
    <2>5. Aside(w)
      BY <1>1, <1>5 DEF Aside, RemoteActive, ActiveKind, SameSlot
    <2>6. QED
      BY <1>4, <1>7, <2>1, <2>2, <2>3, <2>4, <2>5 DEF Calm, Steady, Kept
  <1>8. Steady(t)
    <2>1. Alone(t) /\ Listed(t)
      BY <1>1, <1>6 DEF Alone, Listed, SameSlot, SamePapers
    <2>2. Resting(t)
      BY <1>1, <1>2, <1>6 DEF Resting, RemoteActive, ActiveKind, SameSlot
    <2>3. Shown(t)
      BY <1>1, <1>6 DEF Shown, ActiveKind, SameSlot, SameShare, SameFlags
    <2>4. Keyed(t)
      BY <1>1, <1>6 DEF Keyed, RemoteActive, ActiveKind, SameSlot, SameShare, SamePapers
    <2>5. Aside(t)
      BY <1>1, <1>6 DEF Aside, RemoteActive, ActiveKind, SameSlot
    <2>6. QED
      BY <1>4, <2>1, <2>2, <2>3, <2>4, <2>5 DEF Steady, Kept
  <1>9. CASE (st.remote = r => ~CanArm(t)) /\ st' = t
    <2>1. Heard(t)
      <3>1. CASE st.remote = r
        BY <1>2, <1>6, <1>9, <3>1 DEF Heard, CanArm
      <3>2. CASE st.remote # r
        BY <1>1, <1>2, <1>6, <3>2 DEF Heard, SameSlot
      <3>3. QED
        BY <3>1, <3>2
    <2>2. QED
      BY <1>8, <1>9, <2>1 DEF Calm
  <1>10. ASSUME st.remote = r, ~st.dirty, CanArm(t), NEW i \in Free(st)
         PROVE  Calm([Create(t, i, "access") EXCEPT !.listener = i, !.listenerStale = st.loadStale])
    <2> DEFINE u == Create(t, i, "access")
               v == [u EXCEPT !.listener = i, !.listenerStale = st.loadStale]
    <2>1. i \in Inst /\ t.phase[i] = "free" /\ i # None
      BY <1>6, <1>10 DEF Free, SameSlot, ControllerAssumption
    <2>2. st.loadStale = FALSE
      BY <1>1, <1>10 DEF Resting, State
    <2>3. /\ u \in State /\ SameShare(t, u) /\ SameRemote(t, u) /\ u.active = t.active
          /\ u.mode = t.mode /\ u.kind = [t.kind EXCEPT ![i] = "access"]
          /\ u.phase = [t.phase EXCEPT ![i] = "waiting"]
          /\ u.code = [t.code EXCEPT ![i] = "current"]
          /\ u.approved = t.approved /\ u.granted = t.granted
      BY <1>4, <2>1, CreateReturns, CreateRest
    <2> HIDE DEF u
    <2>4. v \in State
      BY <2>1, <2>2, <2>3, ListeningFields
    <2>5. /\ v.listener = i /\ v.listenerStale = FALSE /\ SameShare(u, v) /\ SamePapers(u, v)
          /\ v.active = u.active /\ v.mode = u.mode /\ v.kind = u.kind /\ v.phase = u.phase
          /\ v.remote = u.remote /\ v.remotePaused = u.remotePaused
          /\ v.remoteTimer = u.remoteTimer /\ v.remoteLive = u.remoteLive /\ v.arms = u.arms
      BY <2>2, <2>3 DEF State, SameShare, SameFlags, SamePapers
    <2> HIDE DEF v
    <2>6. /\ v.active = t.active /\ v.mode = t.mode /\ SameShare(t, v)
          /\ v.kind = [t.kind EXCEPT ![i] = "access"]
          /\ v.phase = [t.phase EXCEPT ![i] = "waiting"]
          /\ v.code = [t.code EXCEPT ![i] = "current"]
          /\ v.approved = t.approved /\ v.granted = t.granted
          /\ v.remote = t.remote /\ v.remotePaused = t.remotePaused
          /\ v.remoteTimer = t.remoteTimer /\ v.remoteLive = t.remoteLive /\ v.arms = t.arms
      BY <2>3, <2>5 DEF SameShare, SameFlags, SamePapers, SameRemote
    <2>7. /\ t.phase \in [Inst -> Phases] /\ t.kind \in [Inst -> {"share", "access", "viewer"}]
          /\ t.code \in [Inst -> {"current", "old"}] /\ t.active \in Inst \cup {None}
          /\ "free" \notin Open
      BY <1>4 DEF State, Open
    <2>8. t.active # i
      BY <1>1, <1>6, <2>1, <2>7 DEF Owned, SameSlot
    <2>9. /\ t.active # None =>
               /\ v.phase[t.active] = t.phase[t.active] /\ v.kind[t.active] = t.kind[t.active]
               /\ v.code[t.active] = t.code[t.active]
          /\ v.code[i] = "current"
          /\ \A x \in Inst : v.phase[x] = "consent" => t.phase[x] = "consent"
      BY <2>1, <2>6, <2>7, <2>8
    <2>10. ActiveKind(v) = ActiveKind(t) /\ RemoteActive(v) = RemoteActive(t)
      BY <2>6, <2>9 DEF RemoteActive, ActiveKind
    <2>11. /\ Alone(t) /\ Listed(t) /\ Resting(t) /\ Shown(t) /\ Keyed(t) /\ Aside(t)
           /\ t.remote # None /\ ~t.remoteTimer /\ ~t.remotePaused /\ t.remote \notin t.arms
      BY <1>8, <1>10 DEF Steady, Kept, CanArm
    <2>12. Alone(v)
      BY <2>6, <2>9, <2>11 DEF Alone
    <2>13. Listed(v)
      BY <2>5, <2>6, <2>9, <2>11 DEF Listed
    <2>14. Resting(v) /\ Heard(v)
      BY <2>1, <2>5, <2>6, <2>10, <2>11 DEF Resting, Heard
    <2>15. Shown(v)
      BY <2>6, <2>9, <2>10, <2>11 DEF Shown, SameShare, SameFlags
    <2>16. Keyed(v)
      <3>1. ActiveKind(v) # "none" => t.active # None
        BY <2>10 DEF ActiveKind
      <3>2. QED
        BY <2>6, <2>9, <2>10, <2>11, <3>1 DEF Keyed, RemoteActive, SameShare
    <2>17. Aside(v)
      <3>1. ActiveKind(v) # "none" => t.active # None
        BY <2>10 DEF ActiveKind
      <3>2. QED
        BY <2>6, <2>9, <2>10, <2>11, <3>1 DEF Aside
    <2>18. QED
      BY <2>4, <2>12, <2>13, <2>14, <2>15, <2>16, <2>17 DEF Calm, Steady, Kept, v, u
  <1>11. QED
    BY <1>3, <1>7, <1>9, <1>10

LEMMA UserKeepsCalm ==
    ASSUME ControllerAssumption, Good(st), Calm(st),
           \/ Stop \/ UserNewShareCode \/ UserDisableRemote \/ UserNewAccessCode
           \/ UserEndRemoteSession
    PROVE  Calm(st')
  <1>1. Kept(st) /\ Heard(st)
    BY DEF Calm, Steady
  <1>2. CASE Stop
    BY <1>1, <1>2, StopActiveKeeps DEF Stop
  <1>3. CASE UserNewShareCode
    BY <1>3, NewShareCodeKeeps DEF UserNewShareCode
  <1>4. CASE UserDisableRemote
    BY <1>4, DisableRemoteKeeps DEF UserDisableRemote
  <1>5. CASE UserNewAccessCode
    BY <1>5, NewAccessCodeKeeps DEF UserNewAccessCode
  <1>6. CASE UserEndRemoteSession
    BY <1>1, <1>6, FinishRemoteLiveKeeps DEF UserEndRemoteSession
  <1>7. QED
    BY <1>2, <1>3, <1>4, <1>5, <1>6

LEMMA NextKeepsCalm ==
    ASSUME ControllerAssumption, Good(st), Calm(st), [Next]_st
    PROVE  Calm(st')
  <1>1. CASE Request
    BY <1>1, StartHostKeepsCalm, StartViewerKeepsCalm, EnableRemoteKeepsCalm, UserKeepsCalm,
       SettingsChangedKeepsCalm, ShutdownKeepsCalm, ConsentAnsweredKeepsCalm DEF Request
  <1>2. CASE Event
    BY <1>2, HostKeepsCalm, ViewerKeepsCalm, AccessKeepsCalm DEF Event
  <1>3. CASE Continuation
    BY <1>3, StartHostKeepsCalm, EnableRemoteKeepsCalm, TimersKeepCalm, ArmLoadedKeepsCalm
       DEF Continuation
  <1>4. CASE UNCHANGED st
    BY <1>4
  <1>5. QED
    BY <1>1, <1>2, <1>3, <1>4 DEF Next

(* Calm is an invariant of every behaviour of the controller. *)
THEOREM AlwaysCalm == Spec => []Calm(st)
  <1>1. Init => Calm(st)
    BY InitIsCalm
  <1>2. Good(st) /\ Calm(st) /\ [Next]_st => Calm(st')
    BY ControllerAssumption, NextKeepsCalm
  <1> DEFINE C == Calm(st)
             G == Good(st)
  <1>3. Init => C
    BY <1>1
  <1>4. G /\ C /\ [Next]_st => C'
    BY <1>2
  <1>5. Spec => []G
    BY AlwaysGood
  <1> HIDE DEF C, G
  <1>6. Spec => []C
    BY <1>3, <1>4, <1>5, PTL DEF Spec
  <1>7. QED
    BY <1>6 DEF C

(* The consent prompt on the page, the mode and the host that waits for the
   answer always agree, so an answer only ever concerns the attempt that is
   shown (onConsentRequest, consent, endSession). *)
THEOREM ConsentConcernsWhatIsShown == Spec => []ConsentIsForTheCurrentAttempt
  <1>1. Good(st) /\ Calm(st) => ConsentIsForTheCurrentAttempt
    <2> SUFFICES ASSUME Good(st), Calm(st)
                 PROVE  ConsentIsForTheCurrentAttempt
      OBVIOUS
    <2>1. /\ Asked(st) /\ Shown(st) /\ Alone(st) /\ None \notin Inst /\ None \notin Devices
      BY ControllerAssumption DEF Good, Calm, Steady, Kept, ControllerAssumption
    <2>2. st.consent # None =>
            /\ st.consent = st.active /\ st.phase[st.active] = "consent"
            /\ ActiveKind(st) = "share" /\ st.guest # None /\ st.mode = "hosting-consent"
      BY <2>1 DEF Asked, Shown, Looks
    <2>3. st.mode = "hosting-consent" => st.consent # None
      BY <2>1 DEF Shown, Looks
    <2>4. \A i \in Inst : st.phase[i] = "consent" => st.consent = i
      BY <2>1 DEF Shown, Alone
    <2>5. QED
      BY <2>2, <2>3, <2>4 DEF ConsentIsForTheCurrentAttempt
  <1>2. QED
    BY <1>1, AlwaysGood, AlwaysCalm, PTL

(* No order of switching on and off, drops, failed loads, borrowed screens and
   restarts leaves remote access on and deaf (armRemote and all its callers). *)
THEOREM RemoteIsAlwaysHeard == Spec => []RemoteNeverDeaf
  <1>1. Calm(st) => RemoteNeverDeaf
    BY DEF Calm, Heard, RemoteNeverDeaf
  <1>2. QED
    BY <1>1, AlwaysCalm, PTL

(* The listener pauses for exactly the live sessions that are not its own, and
   has neither a socket nor a timer then (pauseRemoteListener,
   resumeRemoteListener, enableRemote). *)
THEOREM ListenerPausesForOthers == Spec => []ListenerStepsAside
  <1>1. Calm(st) => ListenerStepsAside
    BY DEF Calm, Steady, Kept, Resting, Aside, ListenerStepsAside
  <1>2. QED
    BY <1>1, AlwaysCalm, PTL

(* A replaced code is dead: whoever still waits for a guest, and every remote
   session, was made with the code in force (newShareCode, newAccessCode). *)
THEOREM ReplacedCodesLetNobodyIn == Spec => []OldCodesAreDead
  <1>1. Calm(st) => OldCodesAreDead
    BY DEF Calm, Steady, Kept, Listed, Keyed, OldCodesAreDead
  <1>2. QED
    BY <1>1, AlwaysCalm, PTL

(* The listener always runs with the settings that are saved, also when they
   change while they are loaded (armRemote, refreshRemoteListener). *)
THEOREM ListenerIsNeverStale == Spec => []ListenerHasFreshSettings
  <1>1. Calm(st) => ListenerHasFreshSettings
    BY DEF Calm, Steady, Kept, Resting, ListenerHasFreshSettings
  <1>2. QED
    BY <1>1, AlwaysCalm, PTL

(* Nobody watches a share whom the user did not let in during this share and
   under this code (onConsentRequest, newShareCode, launchHost). *)
THEOREM EveryGuestWasAllowed == Spec => []GuestWasAllowed
  <1>1. Calm(st) => GuestWasAllowed
    BY DEF Calm, Steady, Keyed, GuestWasAllowed
  <1>2. QED
    BY <1>1, AlwaysCalm, PTL

----------------------------------------------------------------------------
(* The slot is only taken by remoteConnects.                               *)

\* A step from s to t brings no new remote session into the slot.
Spares(s, t) == ActiveKind(t) = "access" => t.active = s.active

LEMMA EmptySpares ==
    ASSUME NEW s, NEW t, t.active = None
    PROVE  Spares(s, t)
  BY DEF Spares, ActiveKind

LEMMA StopActiveSpares ==
    ASSUME NEW s \in State
    PROVE  StopActive(s).active = None
  <1> DEFINE a == [ShareOff(s) EXCEPT !.retry = FALSE]
             b == EndSession(a)
             c == [b EXCEPT !.mode = "idle", !.reconnect = FALSE]
  <1>1. ShareOff(s) \in State
    BY ShareOffReturns
  <1>2. a \in State
    BY <1>1, StartFields
  <1>3. StopActive(s) = IF RemoteActive(s) THEN ArmRemote(c) ELSE c
    BY DEF StopActive
  <1> HIDE DEF a
  <1>4. b \in State
    BY <1>2, EndSessionReturns
  <1>5. b.active = None
    BY <1>2, EndSessionReturns
  <1> HIDE DEF b
  <1>6. c \in State
    BY <1>4, ZenonT(60) DEF State, Modes
  <1>7. c.active = None
    BY <1>4, <1>5 DEF State
  <1> HIDE DEF c
  <1>8. QED
    BY <1>3, <1>6, <1>7, ArmRemoteReturns DEF SameSlot

LEMMA LaunchSpares ==
    ASSUME ControllerAssumption, NEW s \in State, NEW i \in Inst, NEW again \in BOOLEAN
    PROVE  Spares(s, LaunchHost(s, i)) /\ Spares(s, LaunchViewer(s, i, again))
  <1> DEFINE h == Create(s, i, "share")
             v == Create(s, i, "viewer")
             m == IF again THEN "reconnecting" ELSE "connecting"
  <1>1. i # None
    BY DEF ControllerAssumption
  <1>2. h \in State /\ v \in State /\ h.kind[i] = "share" /\ v.kind[i] = "viewer"
    <2>1. h \in State /\ h.kind = [s.kind EXCEPT ![i] = "share"]
      BY CreateReturns
    <2>2. v \in State /\ v.kind = [s.kind EXCEPT ![i] = "viewer"]
      BY CreateReturns
    <2>3. s.kind \in [Inst -> {"share", "access", "viewer"}]
      BY DEF State
    <2>4. QED
      BY <2>1, <2>2, <2>3
  <1>3. LaunchHost(s, i) = IF s.share /\ s.active = None /\ ~s.sharePaused
                           THEN [h EXCEPT !.active = i, !.mode = "hosting-waiting"] ELSE s
    BY DEF LaunchHost
  <1>4. LaunchViewer(s, i, again) = [v EXCEPT !.active = i, !.again = again, !.mode = m]
    BY DEF LaunchViewer
  <1> HIDE DEF h, v, m
  <1>5. /\ ActiveKind([h EXCEPT !.active = i, !.mode = "hosting-waiting"]) = "share"
        /\ ActiveKind([v EXCEPT !.active = i, !.again = again, !.mode = m]) = "viewer"
    BY <1>1, <1>2 DEF ActiveKind, State
  <1>6. QED
    BY <1>3, <1>4, <1>5 DEF Spares

LEMMA RearmedSpares ==
    ASSUME NEW s \in State, NEW wasLive, NEW final
    PROVE  Spares(s, RearmHost(s)) /\ Spares(s, RetryViewer(s, wasLive, final))
  <1> DEFINE b == EndSession(s)
             h == [b EXCEPT !.mode = "hosting-waiting", !.shareTimer = TRUE]
             v == [b EXCEPT !.mode = "reconnecting", !.reconnect = TRUE, !.retry = TRUE]
  <1>1. b \in State /\ b.active = None
    BY EndSessionReturns
  <1>2. RearmHost(s) = IF s.share /\ ~s.sharePaused THEN h ELSE s
    BY DEF RearmHost
  <1>3. RetryViewer(s, wasLive, final) = IF final \/ ~(wasLive \/ s.again) THEN StopActive(s) ELSE v
    BY DEF RetryViewer
  <1> HIDE DEF b
  <1>4. h.active = None /\ v.active = None
    BY <1>1 DEF State
  <1> HIDE DEF h, v
  <1>5. Spares(s, s)
    BY DEF Spares
  <1>6. QED
    BY <1>2, <1>3, <1>4, <1>5, EmptySpares, StopActiveSpares

LEMMA NewShareCodeSpares ==
    ASSUME ControllerAssumption, NEW s \in State, NEW i \in Inst
    PROVE  Spares(s, NewShareCode(s, i))
  <1> DEFINE u == Outdate(s, "share")
             t == [u EXCEPT !.approved = {}, !.granted = {}]
  <1>1. u \in State /\ u.active = s.active
    BY OutdateReturns DEF SameSlot
  <1>2. NewShareCode(s, i) =
          IF ~s.share THEN s
          ELSE IF s.mode \in {"hosting-waiting", "hosting-consent"}
               THEN LaunchHost(EndSession(t), i) ELSE t
    BY DEF NewShareCode
  <1> HIDE DEF u
  <1>3. t \in State
    BY <1>1, ZenonT(60) DEF State
  <1>4. t.active = s.active
    BY <1>1 DEF State
  <1> HIDE DEF t
  <1>5. EndSession(t) \in State /\ EndSession(t).active = None
    BY <1>3, EndSessionReturns
  <1>6. Spares(EndSession(t), LaunchHost(EndSession(t), i))
    BY <1>5, LaunchSpares
  <1>7. Spares(s, LaunchHost(EndSession(t), i))
    BY <1>5, <1>6 DEF Spares, ActiveKind
  <1>8. QED
    BY <1>2, <1>4, <1>7 DEF Spares

LEMMA FinishRemoteLiveSpares ==
    ASSUME ControllerAssumption, NEW s \in State, RemoteActive(s), NEW j \in Inst
    PROVE  Spares(s, FinishRemoteLive(s, j))
  <1> DEFINE e == EndSession(s)
             d == [e EXCEPT !.remoteLive = FALSE]
             p == [d EXCEPT !.sharePaused = FALSE]
             m == [d EXCEPT !.mode = "idle"]
             given == IF d.sharePaused
                      THEN LaunchHost(p, j)
                      ELSE IF d.active = None /\ ~d.share /\ ~d.retry THEN m ELSE d
  <1>1. e \in State /\ e.active = None
    BY EndSessionReturns
  <1>2. FinishRemoteLive(s, j) = ArmRemote(given)
    BY DEF FinishRemoteLive
  <1> HIDE DEF e
  <1>3. d \in State
    BY <1>1, FinishFields
  <1>4. d.active = None
    BY <1>1 DEF State
  <1> HIDE DEF d
  <1>5. p \in State /\ m \in State
    BY <1>3, FinishFields
  <1>6. p.active = None /\ m.active = None
    BY <1>3, <1>4 DEF State
  <1> HIDE DEF p, m
  <1>7. LaunchHost(p, j) \in State /\ ActiveKind(LaunchHost(p, j)) # "access"
    <2> DEFINE h == Create(p, j, "share")
               l == [h EXCEPT !.active = j, !.mode = "hosting-waiting"]
    <2>1. h \in State
      BY <1>5, CreateReturns
    <2>2. LaunchHost(p, j) = l \/ LaunchHost(p, j) = p
      BY DEF LaunchHost
    <2> HIDE DEF h
    <2>3. l \in State
      <3>1. ASSUME NEW v \in State
            PROVE  [v EXCEPT !.active = j, !.mode = "hosting-waiting"] \in State
        BY ZenonT(60) DEF State, Modes
      <3>2. QED
        BY <2>1, <3>1
    <2> HIDE DEF l
    <2>4. Spares(p, LaunchHost(p, j))
      BY <1>5, LaunchSpares
    <2>5. QED
      BY <1>5, <1>6, <2>2, <2>3, <2>4 DEF Spares, ActiveKind
  <1>8. given \in State /\ ActiveKind(given) # "access"
    BY <1>3, <1>4, <1>5, <1>6, <1>7 DEF ActiveKind
  <1> HIDE DEF given
  <1>9. ActiveKind(ArmRemote(given)) # "access"
    BY <1>8, ArmRemoteReturns DEF ActiveKind, SameSlot
  <1>10. QED
    BY <1>2, <1>9 DEF Spares

LEMMA GoLiveSpares ==
    ASSUME NEW s \in State, NEW i \in Inst, NEW d \in Devices
    PROVE  GoLive(s, i, d).active = s.active
  <1> DEFINE t == [s EXCEPT !.phase[i] = "live", !.guest = d, !.consent = None,
                            !.mode = "hosting-live", !.awake = TRUE]
  <1>1. t \in State
    BY GuestFields
  <1>2. t.active = s.active
    BY DEF State
  <1>3. GoLive(s, i, d) = PauseRemoteListener(t)
    BY DEF GoLive
  <1> HIDE DEF t
  <1>4. QED
    BY <1>1, <1>2, <1>3, PauseRemoteListenerReturns

LEMMA DropSpares ==
    ASSUME NEW s \in State, NEW later \in BOOLEAN
    PROVE  /\ ListenerFailed(s, later).active = s.active
           /\ RemoteOff(s).active = s.active /\ RemoteOff(s) \in State
           /\ RefreshRemoteListener(s).active = s.active
  <1> DEFINE u == DropListener(s)
             t == [u EXCEPT !.remote = None, !.remoteTimer = FALSE,
                            !.remotePaused = FALSE, !.remoteLive = FALSE]
             w == [s EXCEPT !.dirty = TRUE]
  <1>1. u \in State /\ u.active = s.active
    BY DropListenerReturns
  <1>2. /\ ArmRemote(u).active = s.active /\ ArmRemoteLater(u).active = s.active
    BY <1>1, ArmRemoteReturns, ArmRemoteLaterReturns DEF SameSlot
  <1>3. w.active = s.active
    BY DEF State
  <1>4. RemoteOff(s) = t
    BY DEF RemoteOff
  <1>5. RefreshRemoteListener(s).active = s.active /\ ListenerFailed(s, later).active = s.active
    BY <1>2, <1>3 DEF RefreshRemoteListener, ListenerFailed
  <1> HIDE DEF u
  <1>6. t \in State /\ t.active = s.active
    <2>1. t \in State
      BY <1>1, RemoteOffFields
    <2>2. t.active = u.active
      BY <1>1 DEF State
    <2>3. QED
      BY <1>1, <2>1, <2>2
  <1>7. QED
    BY <1>4, <1>5, <1>6

LEMMA AccessCodeSpares ==
    ASSUME ControllerAssumption, NEW s \in State, NEW j \in Inst
    PROVE  Spares(s, DisableRemote(s, j)) /\ Spares(s, NewAccessCode(s, j))
  <1> DEFINE o == RemoteOff(s)
             u == Outdate(s, "access")
             d == DropListener(u)
             t == [d EXCEPT !.remoteTimer = FALSE]
  <1>1. o \in State /\ o.active = s.active /\ o.kind = s.kind
    <2> DEFINE v == DropListener(s)
               w == [v EXCEPT !.remote = None, !.remoteTimer = FALSE,
                              !.remotePaused = FALSE, !.remoteLive = FALSE]
    <2>1. v \in State /\ v.kind = s.kind
      BY DropListenerReturns
    <2>2. o = w
      BY DEF RemoteOff
    <2> HIDE DEF v
    <2>3. w.kind = v.kind
      BY <2>1 DEF State
    <2> HIDE DEF w
    <2>4. QED
      BY <2>1, <2>2, <2>3, DropSpares
  <1>2. DisableRemote(s, j) = IF RemoteActive(s) THEN FinishRemoteLive(o, j) ELSE o
    BY DEF DisableRemote
  <1>3. NewAccessCode(s, j) =
          IF s.remote = None THEN s
          ELSE IF RemoteActive(s) THEN FinishRemoteLive(t, j) ELSE ArmRemote(t)
    BY DEF NewAccessCode
  <1>4. u \in State /\ u.active = s.active /\ u.kind = s.kind
    BY OutdateReturns DEF SameSlot
  <1> HIDE DEF o, u
  <1>5. d \in State /\ d.active = s.active /\ d.kind = s.kind
    BY <1>4, DropListenerReturns
  <1> HIDE DEF d
  <1>6. t \in State
    BY <1>5, FinishFields
  <1>7. t.active = s.active /\ t.kind = s.kind
    BY <1>5 DEF State
  <1> HIDE DEF t
  <1>8. ArmRemote(t).active = s.active
    BY <1>6, <1>7, ArmRemoteReturns DEF SameSlot
  <1>9. RemoteActive(s) => RemoteActive(o) /\ RemoteActive(t)
    BY <1>1, <1>7 DEF RemoteActive, ActiveKind
  <1>10. RemoteActive(s) => Spares(o, FinishRemoteLive(o, j)) /\ Spares(t, FinishRemoteLive(t, j))
    BY <1>1, <1>6, <1>9, FinishRemoteLiveSpares
  <1>11. QED
    BY <1>1, <1>2, <1>3, <1>7, <1>8, <1>10 DEF Spares

LEMMA RequestSpares ==
    ASSUME ControllerAssumption, Good(st), Calm(st), Request
    PROVE  Spares(st, st')
  <1>1. st \in State /\ Free(st) \subseteq Inst
    BY DEF Good, Free
  <1>2. CASE StartHostBegin \/ EnableRemoteBegin \/ StartViewerRefused
    <2>1. CASE StartHostBegin
      BY <1>1, <2>1 DEF StartHostBegin, State, Spares
    <2>2. CASE StartViewerRefused
      BY <1>1, <2>2 DEF StartViewerRefused, State, Spares
    <2>3. CASE EnableRemoteBegin
      <3>1. PICK r \in RemoteIds, live \in BOOLEAN :
                st' = [st EXCEPT !.enabling = @ + 1,
                                 !.remote = IF @ = None THEN r ELSE @,
                                 !.remotePaused = IF st.remote = None THEN live ELSE @]
        <4> DEFINE live == /\ ActiveKind(st) \in {"share", "viewer"}
                           /\ st.mode \in {"hosting-live", "viewing"}
        <4>1. live \in BOOLEAN
          OBVIOUS
        <4> QED BY <2>3, <4>1 DEF EnableRemoteBegin
      <3>2. st'.active = st.active
        BY <1>1, <3>1 DEF State
      <3> QED BY <3>2 DEF Spares
    <2>4. QED
      BY <1>2, <2>1, <2>2, <2>3
  <1>3. CASE StartViewer
    <2> DEFINE t == [st EXCEPT !.retry = FALSE, !.reconnect = FALSE]
    <2>1. PICK i \in Inst : st' = LaunchViewer(t, i, FALSE)
      BY <1>1, <1>3 DEF StartViewer
    <2>2. t \in State
      BY <1>1, StartFields
    <2>3. t.active = st.active
      BY <1>1 DEF State
    <2> HIDE DEF t
    <2>4. QED
      BY <2>1, <2>2, <2>3, LaunchSpares DEF Spares
  <1>4. CASE Stop
    BY <1>1, <1>4, StopActiveSpares, EmptySpares DEF Stop
  <1>5. CASE UserNewShareCode
    BY <1>1, <1>5, NewShareCodeSpares DEF UserNewShareCode
  <1>6. CASE UserDisableRemote
    BY <1>1, <1>6, AccessCodeSpares DEF UserDisableRemote
  <1>7. CASE UserNewAccessCode
    BY <1>1, <1>7, AccessCodeSpares DEF UserNewAccessCode
  <1>8. CASE UserEndRemoteSession
    BY <1>1, <1>8, FinishRemoteLiveSpares DEF UserEndRemoteSession
  <1>9. CASE SettingsChanged
    <2> DEFINE b == st.remote \in st.arms
               c == st.listener # None
               s == [st EXCEPT !.loadStale = b, !.listenerStale = c]
    <2>1. st' = RefreshRemoteListener(s)
      BY <1>9 DEF SettingsChanged
    <2>2. b \in BOOLEAN /\ c \in BOOLEAN /\ 0 \in 0..MaxRequests
      BY DEF ControllerAssumption
    <2> HIDE DEF b, c
    <2>3. s \in State
      BY <1>1, <2>2, CounterFields
    <2>4. s.active = st.active
      BY <1>1 DEF State
    <2> HIDE DEF s
    <2>5. QED
      BY <2>1, <2>3, <2>4, DropSpares DEF Spares
  <1>10. CASE Shutdown
    <2> DEFINE t == StopActive(RemoteOff(st))
    <2>1. st' = [t EXCEPT !.down = TRUE]
      BY <1>10 DEF Shutdown
    <2>2. t.active = None /\ t \in State
      <3>1. Kept(RemoteOff(st)) /\ Heard(RemoteOff(st)) /\ RemoteOff(st) \in State
        BY RemoteOffKeeps DEF Calm, Kept
      <3>2. Calm(t) /\ t.active = None
        BY <3>1, StopActiveKeeps, StopActiveSpares
      <3>3. QED
        BY <3>2 DEF Calm, Steady, Kept
    <2> HIDE DEF t
    <2>3. st'.active = None
      BY <2>1, <2>2 DEF State
    <2>4. QED
      BY <2>3, EmptySpares
  <1>11. ASSUME NEW yes \in BOOLEAN, ConsentAnswered(yes)
         PROVE  Spares(st, st')
    <2>1. st.consent \in Inst /\ st.guest \in Devices
      BY <1>1, <1>11 DEF Good, Asked, ConsentAnswered, State
    <2> DEFINE g == [st EXCEPT !.approved = st.approved \cup {st.guest},
                               !.granted = st.granted \cup {st.guest}]
               n == [st EXCEPT !.consent = None]
    <2>2. st' = IF yes THEN GoLive(g, st.consent, st.guest) ELSE RearmHost(n)
      BY <1>11 DEF ConsentAnswered
    <2>3. /\ st.approved \cup {st.guest} \in SUBSET Devices
          /\ st.granted \cup {st.guest} \in SUBSET Devices
      BY <1>1, <2>1 DEF State
    <2>4. g \in State /\ n \in State
      BY <1>1, <2>3, AnswerFields, RefusedFields
    <2>5. g.active = st.active /\ n.active = st.active
      BY <1>1 DEF State
    <2> HIDE DEF g, n
    <2>6. GoLive(g, st.consent, st.guest).active = g.active /\ Spares(n, RearmHost(n))
      BY <2>1, <2>4, GoLiveSpares, RearmedSpares
    <2>7. QED
      BY <2>2, <2>5, <2>6 DEF Spares
  <1>12. QED
    BY <1>2, <1>3, <1>4, <1>5, <1>6, <1>7, <1>8, <1>9, <1>10, <1>11 DEF Request

\* Only remoteConnects takes the slot, and it asks first.
LEMMA EventSpares ==
    ASSUME ControllerAssumption, Good(st), Calm(st), NEW i \in Inst,
           \/ \E d \in Devices, auto \in BOOLEAN : HostConsentRequest(i, d, auto)
           \/ HostEnds(i) \/ ViewerSecure(i)
           \/ \E final \in BOOLEAN : ViewerEnds(i, final)
           \/ \E later \in BOOLEAN : AccessEnds(i, later)
    PROVE  Spares(st, st')
  <1>1. st \in State /\ Free(st) \subseteq Inst
    BY DEF Good, Free
  <1>2. ASSUME NEW d \in Devices, NEW auto \in BOOLEAN, HostConsentRequest(i, d, auto)
        PROVE  Spares(st, st')
    <2> DEFINE t == [st EXCEPT !.phase[i] = "consent", !.consent = i, !.guest = d,
                               !.mode = "hosting-consent"]
    <2>1. st' = GoLive(st, i, d) \/ st' = t
      BY <1>2 DEF HostConsentRequest
    <2>2. t.active = st.active
      BY <1>1 DEF State
    <2>3. GoLive(st, i, d).active = st.active
      BY <1>1, GoLiveSpares
    <2> HIDE DEF t
    <2>4. QED
      BY <2>1, <2>2, <2>3 DEF Spares
  <1>3. Forget(st, i).active = st.active
    BY <1>1, ForgetReturns
  <1>4. CASE HostEnds(i)
    <2>1. st' = RearmHost(st) \/ st' = Forget(st, i)
      BY <1>4 DEF HostEnds
    <2>2. QED
      BY <1>1, <1>3, <2>1, RearmedSpares DEF Spares
  <1>5. CASE ViewerSecure(i)
    <2> DEFINE t == [st EXCEPT !.phase[i] = "live", !.mode = "viewing",
                               !.reconnect = FALSE, !.awake = TRUE]
    <2>1. st' = PauseRemoteListener(t)
      BY <1>5 DEF ViewerSecure
    <2>2. t \in State
      BY <1>1, ViewingFields
    <2>3. t.active = st.active
      BY <1>1 DEF State
    <2> HIDE DEF t
    <2>4. QED
      BY <2>1, <2>2, <2>3, PauseRemoteListenerReturns DEF Spares
  <1>6. ASSUME NEW final \in BOOLEAN, ViewerEnds(i, final)
        PROVE  Spares(st, st')
    <2> DEFINE b == st.phase[i] = "live"
    <2>1. st' = RetryViewer(st, b, final) \/ st' = Forget(st, i)
      BY <1>6 DEF ViewerEnds
    <2> HIDE DEF b
    <2>2. QED
      BY <1>1, <1>3, <2>1, RearmedSpares DEF Spares
  <1>7. ASSUME NEW later \in BOOLEAN, AccessEnds(i, later)
        PROVE  Spares(st, st')
    <2>1. CASE st' = ListenerFailed(st, later)
      BY <1>1, <2>1, DropSpares DEF Spares
    <2>2. CASE Current(st, i) /\ \E j \in Free(st) : st' = FinishRemoteLive(st, j)
      <3>1. RemoteActive(st)
        BY <1>7, <2>2 DEF AccessEnds, Current, RemoteActive, ActiveKind, ControllerAssumption
      <3>2. QED
        BY <1>1, <2>2, <3>1, FinishRemoteLiveSpares
    <2>3. CASE st' = Forget(st, i)
      BY <1>3, <2>3 DEF Spares
    <2>4. QED
      BY <1>7, <2>1, <2>2, <2>3 DEF AccessEnds
  <1>8. QED
    BY <1>2, <1>4, <1>5, <1>6, <1>7

LEMMA ContinuationSpares ==
    ASSUME ControllerAssumption, Good(st), Calm(st), Continuation
    PROVE  Spares(st, st')
  <1>1. st \in State /\ Free(st) \subseteq Inst /\ MaxRequests \in Nat
    BY DEF Good, Free, ControllerAssumption
  <1>2. CASE StartHostLoaded
    <2> DEFINE t == [st EXCEPT !.starting = st.starting - 1]
               o == ShareOff(t)
               u == [o EXCEPT !.share = TRUE]
    <2>1. PICK i \in Inst : st' = LaunchHost(u, i) \/ st' = t
      BY <1>1, <1>2 DEF StartHostLoaded
    <2>2. st.starting - 1 \in 0..MaxRequests
      BY <1>1, <1>2 DEF StartHostLoaded, State
    <2>3. t \in State
      BY <1>1, <2>2, CounterFields
    <2>4. t.active = st.active
      BY <1>1 DEF State
    <2> HIDE DEF t
    <2>5. o \in State /\ o.active = t.active
      BY <2>3, ShareOffReturns DEF SameSlot
    <2> HIDE DEF o
    <2>6. u \in State
      BY <2>5, StartFields
    <2>7. u.active = o.active
      BY <2>5 DEF State
    <2> HIDE DEF u
    <2>8. Spares(u, LaunchHost(u, i)) /\ u.active = st.active
      BY <2>4, <2>5, <2>6, <2>7, LaunchSpares
    <2>9. QED
      BY <2>1, <2>4, <2>8 DEF Spares
  <1>3. CASE EnableRemoteReady
    <2> DEFINE t == [st EXCEPT !.enabling = st.enabling - 1]
    <2>1. st' = ArmRemote(t)
      BY <1>3 DEF EnableRemoteReady
    <2>2. st.enabling - 1 \in 0..MaxRequests
      BY <1>1, <1>3 DEF EnableRemoteReady, State
    <2>3. t \in State
      BY <1>1, <2>2, CounterFields
    <2>4. t.active = st.active
      BY <1>1 DEF State
    <2> HIDE DEF t
    <2>5. QED
      BY <2>1, <2>3, <2>4, ArmRemoteReturns DEF Spares, SameSlot
  <1>4. CASE ShareTimerFires
    <2> DEFINE t == [st EXCEPT !.shareTimer = FALSE]
    <2>1. PICK i \in Inst : st' = LaunchHost(t, i)
      BY <1>1, <1>4 DEF ShareTimerFires
    <2>2. t \in State
      BY <1>1, StartFields
    <2>3. t.active = st.active
      BY <1>1 DEF State
    <2> HIDE DEF t
    <2>4. QED
      BY <2>1, <2>2, <2>3, LaunchSpares DEF Spares
  <1>5. CASE RetryTimerFires
    <2> DEFINE t == [st EXCEPT !.retry = FALSE]
    <2>1. PICK i \in Inst : st' = LaunchViewer(t, i, TRUE) \/ st' = t
      BY <1>1, <1>5 DEF RetryTimerFires
    <2>2. t \in State
      BY <1>1, StartFields
    <2>3. t.active = st.active
      BY <1>1 DEF State
    <2> HIDE DEF t
    <2>4. QED
      BY <2>1, <2>2, <2>3, LaunchSpares DEF Spares
  <1>6. CASE RemoteTimerFires
    <2> DEFINE t == [st EXCEPT !.remoteTimer = FALSE]
    <2>1. st' = ArmRemote(t)
      BY <1>6 DEF RemoteTimerFires
    <2>2. t \in State
      BY <1>1, FinishFields
    <2>3. t.active = st.active
      BY <1>1 DEF State
    <2> HIDE DEF t
    <2>4. QED
      BY <2>1, <2>2, <2>3, ArmRemoteReturns DEF Spares, SameSlot
  <1>7. ASSUME NEW r \in RemoteIds, ArmLoaded(r)
        PROVE  Spares(st, st')
    <2> DEFINE a == st.arms \ {r}
               t == [st EXCEPT !.arms = a]
    <2>1. \/ st' = [st EXCEPT !.dirty = FALSE, !.loadStale = FALSE]
          \/ \E i \in Free(st) :
                st' = [Create(t, i, "access") EXCEPT !.listener = i, !.listenerStale = st.loadStale]
          \/ st' = t
      BY <1>7 DEF ArmLoaded
    <2>2. a \in SUBSET RemoteIds /\ 0 \in 0..MaxRequests
      BY <1>1 DEF State, ControllerAssumption
    <2> HIDE DEF a
    <2>3. t \in State
      BY <1>1, <2>2, CounterFields
    <2>4. t.active = st.active
      BY <1>1 DEF State
    <2> HIDE DEF t
    <2>5. ASSUME NEW i \in Inst
          PROVE  [Create(t, i, "access") EXCEPT
                     !.listener = i, !.listenerStale = st.loadStale].active = st.active
      <3> DEFINE u == Create(t, i, "access")
      <3>1. u \in State /\ u.active = st.active
        BY <2>3, <2>4, CreateReturns
      <3> HIDE DEF u
      <3>2. [u EXCEPT !.listener = i, !.listenerStale = st.loadStale].active = u.active
        BY <3>1 DEF State
      <3>3. QED
        BY <3>1, <3>2 DEF u
    <2>6. [st EXCEPT !.dirty = FALSE, !.loadStale = FALSE].active = st.active
      BY <1>1 DEF State
    <2>7. st'.active = st.active
      BY <1>1, <2>1, <2>4, <2>5, <2>6
    <2>8. QED
      BY <2>7 DEF Spares
  <1>8. QED
    BY <1>2, <1>3, <1>4, <1>5, <1>6, <1>7 DEF Continuation

(* A remote session never takes the slot from one that is live, being asked
   for consent or connecting: only an empty slot, or a share nobody answered
   yet (approveRemote, onRemoteRequest). *)
THEOREM RemoteTakesOnlyAWaitingShare == Spec => LiveSessionIsNotTaken
  <1> DEFINE Fair == ActiveKind(st') = "access" /\ st'.active # st.active
                       => \/ st.active = None
                          \/ ActiveKind(st) = "share" /\ st.phase[st.active] = "waiting"
  <1>1. ASSUME Good(st), Calm(st), [Next]_st
        PROVE  Fair \/ st' = st
    <2>1. CASE Request \/ Continuation
      BY <1>1, <2>1, ControllerAssumption, RequestSpares, ContinuationSpares DEF Spares
    <2>2. CASE Event
      <3>1. PICK i \in Inst :
              \/ \E d \in Devices, auto \in BOOLEAN : HostConsentRequest(i, d, auto)
              \/ HostEnds(i) \/ ViewerSecure(i)
              \/ \E final \in BOOLEAN : ViewerEnds(i, final)
              \/ RemoteConnects(i)
              \/ \E later \in BOOLEAN : AccessEnds(i, later)
        BY <2>2 DEF Event
      <3>2. CASE RemoteConnects(i)
        <4>1. Shown(st) /\ (st.active = None \/ WaitingShare(st))
          BY <1>1, <3>2 DEF RemoteConnects, Calm, Steady
        <4>2. QED
          BY <4>1 DEF WaitingShare, Shown, Looks, ActiveKind
      <3>3. CASE ~RemoteConnects(i)
        BY <1>1, <3>1, <3>3, ControllerAssumption, EventSpares DEF Spares
      <3>4. QED
        BY <3>2, <3>3
    <2>3. QED
      BY <1>1, <2>1, <2>2 DEF Next
  <1>2. Good(st) /\ Calm(st) /\ [Next]_st => [Fair]_st
    BY <1>1
  <1>3. Spec => []Good(st) /\ []Calm(st)
    BY AlwaysGood, AlwaysCalm
  <1>4. QED
    BY <1>2, <1>3, PTL DEF Spec, LiveSessionIsNotTaken

----------------------------------------------------------------------------
(* A user who leaves remote access off.                                    *)

\* Every invitation the user types in can be parsed.
Parsed == "badcode" \notin Features

(* Sharing goes on while it is on, the mode of an empty slot says what comes
   next, and the computer is kept awake exactly while somebody is in. *)
Local(s) ==
    /\ s.remote = None /\ ~RemoteActive(s)
    /\ s.shareTimer => s.share
    /\ s.share => ActiveKind(s) = "share" \/ s.shareTimer
    /\ s.awake <=> s.active # None /\ s.phase[s.active] = "live"
    /\ s.active = None =>
         \/ s.mode = "idle" /\ ~s.share /\ ~s.retry
         \/ s.mode = "hosting-waiting" /\ s.shareTimer
         \/ s.mode = "reconnecting" /\ (Parsed => s.retry)
    /\ Parsed /\ s.reconnect => s.retry \/ ActiveKind(s) = "viewer"

\* The fields of Local that stay when the slot is emptied.
SameOutlook(s, t) == t.awake = s.awake /\ t.reconnect = s.reconnect /\ t.remote = s.remote

LEMMA SameKeepsLocal ==
    ASSUME NEW s, Local(s), NEW t, t.active = s.active, t.kind = s.kind, t.phase = s.phase,
           t.mode = s.mode, t.share = s.share, t.shareTimer = s.shareTimer,
           t.retry = s.retry, SameOutlook(s, t)
    PROVE  Local(t)
  BY DEF Local, RemoteActive, ActiveKind, SameOutlook

(* Without a remote object nothing is armed, paused or resumed. *)
LEMMA RemoteIsIdle ==
    ASSUME NEW s, s.remote = None
    PROVE  /\ ArmRemote(s) = s
           /\ ResumeRemoteListener(s) = s
           /\ PauseRemoteListener(s) = s
  BY DEF ArmRemote, CanArm, ResumeRemoteListener, PauseRemoteListener

LEMMA EndSessionAlone ==
    ASSUME NEW s \in State, s.remote = None
    PROVE  /\ EndSession(s).remote = None /\ ~EndSession(s).awake
           /\ EndSession(s).reconnect = s.reconnect
  <1> DEFINE u == CloseInst(s, s.active)
             b == u.remoteLive /\ ~RemoteActive(s)
             t == [u EXCEPT !.active = None, !.consent = None, !.guest = None,
                            !.awake = FALSE, !.remoteLive = b]
  <1>1. u \in State /\ u = [s EXCEPT !.phase = Closed(s, s.active)]
    BY CloseInstReturns DEF State
  <1>2. u.remote = None /\ u.reconnect = s.reconnect
    BY <1>1 DEF State
  <1>3. EndSession(s) = ResumeRemoteListener(t)
    BY DEF EndSession
  <1> HIDE DEF u, b
  <1>4. t.remote = None /\ ~t.awake /\ t.reconnect = s.reconnect
    BY <1>1, <1>2 DEF State
  <1> HIDE DEF t
  <1>5. QED
    BY <1>3, <1>4, RemoteIsIdle

LEMMA StopActiveIsLocal ==
    ASSUME NEW s \in State, s.remote = None
    PROVE  Local(StopActive(s))
  <1> DEFINE o == ShareOff(s)
             a == [o EXCEPT !.retry = FALSE]
             b == EndSession(a)
             c == [b EXCEPT !.mode = "idle", !.reconnect = FALSE]
  <1>1. o \in State /\ o.share = FALSE /\ o.shareTimer = FALSE
    BY ShareOffReturns
  <1>2. o.remote = None
    BY ShareOffRest DEF SameRemote
  <1>3. StopActive(s) = IF RemoteActive(s) THEN ArmRemote(c) ELSE c
    BY DEF StopActive
  <1> HIDE DEF o
  <1>4. a \in State
    BY <1>1, StartFields
  <1>5. a.share = FALSE /\ a.shareTimer = FALSE /\ a.retry = FALSE /\ a.remote = None
    BY <1>1, <1>2 DEF State
  <1> HIDE DEF a
  <1>6. /\ b \in State /\ b.active = None /\ b.share = FALSE /\ b.shareTimer = FALSE
        /\ b.retry = FALSE
    BY <1>4, <1>5, EndSessionReturns DEF SameFlags
  <1>7. b.remote = None /\ ~b.awake
    BY <1>4, <1>5, EndSessionAlone
  <1> HIDE DEF b
  <1>8. /\ c.active = None /\ c.share = FALSE /\ c.shareTimer = FALSE /\ c.retry = FALSE
        /\ c.remote = None /\ ~c.awake /\ c.mode = "idle" /\ c.reconnect = FALSE
    BY <1>6, <1>7 DEF State
  <1> HIDE DEF c
  <1>9. StopActive(s) = c
    BY <1>3, <1>8, RemoteIsIdle
  <1>10. QED
    BY <1>8, <1>9 DEF Local, RemoteActive, ActiveKind

LEMMA RearmHostIsLocal ==
    ASSUME NEW s \in State, s.remote = None, s.share, ~s.sharePaused, Parsed => ~s.reconnect
    PROVE  Local(RearmHost(s))
  <1> DEFINE b == EndSession(s)
             t == [b EXCEPT !.mode = "hosting-waiting", !.shareTimer = TRUE]
  <1>1. RearmHost(s) = t
    BY DEF RearmHost
  <1>2. b \in State /\ b.active = None /\ b.share = s.share
    BY EndSessionReturns DEF SameFlags
  <1>3. b.remote = None /\ ~b.awake /\ b.reconnect = s.reconnect
    BY EndSessionAlone
  <1> HIDE DEF b
  <1>4. /\ t.active = None /\ t.share = s.share /\ t.shareTimer /\ t.mode = "hosting-waiting"
        /\ t.remote = None /\ ~t.awake /\ t.reconnect = s.reconnect
    BY <1>2, <1>3 DEF State
  <1> HIDE DEF t
  <1>5. QED
    BY <1>1, <1>4 DEF Local, RemoteActive, ActiveKind

LEMMA RetryViewerIsLocal ==
    ASSUME NEW s \in State, s.remote = None, ~s.share, ~s.shareTimer, NEW wasLive, NEW final
    PROVE  Local(RetryViewer(s, wasLive, final))
  <1> DEFINE b == EndSession(s)
             t == [b EXCEPT !.mode = "reconnecting", !.reconnect = TRUE, !.retry = TRUE]
  <1>1. RetryViewer(s, wasLive, final) = IF final \/ ~(wasLive \/ s.again) THEN StopActive(s) ELSE t
    BY DEF RetryViewer
  <1>2. b \in State /\ b.active = None /\ ~b.share /\ ~b.shareTimer
    BY EndSessionReturns DEF SameFlags
  <1>3. b.remote = None /\ ~b.awake
    BY EndSessionAlone
  <1> HIDE DEF b
  <1>4. /\ t.active = None /\ ~t.share /\ ~t.shareTimer /\ t.mode = "reconnecting" /\ t.retry
        /\ t.remote = None /\ ~t.awake
    BY <1>2, <1>3 DEF State
  <1> HIDE DEF t
  <1>5. Local(t)
    BY <1>4 DEF Local, RemoteActive, ActiveKind
  <1>6. QED
    BY <1>1, <1>5, StopActiveIsLocal

LEMMA LaunchHostIsLocal ==
    ASSUME ControllerAssumption, NEW s \in State, NEW i \in Inst, s.remote = None, s.share,
           s.active = None, ~s.sharePaused, ~s.awake, Parsed => ~s.reconnect
    PROVE  Local(LaunchHost(s, i))
  <1> DEFINE u == Create(s, i, "share")
             t == [u EXCEPT !.active = i, !.mode = "hosting-waiting"]
  <1>1. LaunchHost(s, i) = t
    BY DEF LaunchHost
  <1>2. /\ u \in State /\ SameShare(s, u) /\ u.kind = [s.kind EXCEPT ![i] = "share"]
        /\ u.phase = [s.phase EXCEPT ![i] = "waiting"]
    BY CreateReturns
  <1>3. u.remote = None /\ u.awake = s.awake /\ u.reconnect = s.reconnect
    BY DEF Create, State
  <1>4. s.kind \in [Inst -> {"share", "access", "viewer"}] /\ s.phase \in [Inst -> Phases]
    BY DEF State
  <1> HIDE DEF u
  <1>5. /\ SameShare(u, t) /\ t.kind = u.kind /\ t.phase = u.phase /\ t.active = i
        /\ SameOutlook(u, t)
    BY <1>2 DEF State, SameShare, SameFlags, SameOutlook
  <1> HIDE DEF t
  <1>6. i # None /\ t.kind[i] = "share" /\ t.phase[i] = "waiting"
    BY <1>2, <1>4, <1>5 DEF ControllerAssumption
  <1>7. t.share /\ t.remote = None /\ ~t.awake /\ t.reconnect = s.reconnect
    BY <1>2, <1>3, <1>5 DEF SameShare, SameFlags, SameOutlook
  <1>8. QED
    BY <1>1, <1>5, <1>6, <1>7 DEF Local, RemoteActive, ActiveKind

LEMMA LaunchViewerIsLocal ==
    ASSUME ControllerAssumption, NEW s \in State, NEW i \in Inst, NEW again \in BOOLEAN,
           s.remote = None, ~s.share, ~s.shareTimer, ~s.awake
    PROVE  Local(LaunchViewer(s, i, again))
  <1> DEFINE u == Create(s, i, "viewer")
             m == IF again THEN "reconnecting" ELSE "connecting"
             t == [u EXCEPT !.active = i, !.again = again, !.mode = m]
  <1>1. LaunchViewer(s, i, again) = t
    BY DEF LaunchViewer
  <1>2. /\ u \in State /\ SameShare(s, u) /\ u.kind = [s.kind EXCEPT ![i] = "viewer"]
        /\ u.phase = [s.phase EXCEPT ![i] = "waiting"]
    BY CreateReturns
  <1>3. u.remote = None /\ u.awake = s.awake
    BY DEF Create, State
  <1>4. s.kind \in [Inst -> {"share", "access", "viewer"}] /\ s.phase \in [Inst -> Phases]
    BY DEF State
  <1> HIDE DEF u, m
  <1>5. /\ SameShare(u, t) /\ t.kind = u.kind /\ t.phase = u.phase /\ t.active = i
        /\ SameOutlook(u, t)
    BY <1>2 DEF State, SameShare, SameFlags, SameOutlook
  <1> HIDE DEF t
  <1>6. i # None /\ t.kind[i] = "viewer" /\ t.phase[i] = "waiting"
    BY <1>2, <1>4, <1>5 DEF ControllerAssumption
  <1>7. ~t.share /\ ~t.shareTimer /\ t.remote = None /\ ~t.awake
    BY <1>2, <1>3, <1>5 DEF SameShare, SameFlags, SameOutlook
  <1>8. QED
    BY <1>1, <1>5, <1>6, <1>7 DEF Local, RemoteActive, ActiveKind

(* Somebody gets in. *)
LEMMA LiveIsLocal ==
    ASSUME NEW s \in State, Local(s), NEW t, t.active = s.active, t.kind = s.kind,
           s.active \in Inst, t.phase[s.active] = "live", t.awake, t.remote = None,
           t.share = s.share, t.shareTimer = s.shareTimer, t.retry = s.retry,
           s.active # None, t.reconnect => s.reconnect
    PROVE  Local(PauseRemoteListener(t))
  <1>1. PauseRemoteListener(t) = t
    BY RemoteIsIdle
  <1>2. QED
    BY <1>1 DEF Local, RemoteActive, ActiveKind

LEMMA GoLiveIsLocal ==
    ASSUME NEW s \in State, Local(s), NEW i \in Inst, i # None, s.active = i, NEW d \in Devices
    PROVE  Local(GoLive(s, i, d))
  <1> DEFINE t == [s EXCEPT !.phase[i] = "live", !.guest = d, !.consent = None,
                            !.mode = "hosting-live", !.awake = TRUE]
  <1>1. GoLive(s, i, d) = PauseRemoteListener(t)
    BY DEF GoLive
  <1>2. /\ t.active = s.active /\ t.kind = s.kind /\ t.phase[i] = "live" /\ t.awake
        /\ t.share = s.share /\ t.shareTimer = s.shareTimer /\ t.retry = s.retry
        /\ t.reconnect = s.reconnect /\ t.remote = s.remote
    BY DEF State
  <1> HIDE DEF t
  <1>3. s.remote = None
    BY DEF Local
  <1>4. QED
    BY <1>1, <1>2, <1>3, LiveIsLocal

----------------------------------------------------------------------------
(* Every step keeps it.                                                    *)

LEMMA ForgetKeepsLocal ==
    ASSUME NEW s \in State, Local(s), NEW i \in Inst, s.active # i
    PROVE  Local(Forget(s, i))
  <1> DEFINE t == Forget(s, i)
  <1>1. /\ t \in State /\ SameShare(s, t) /\ t.active = s.active /\ t.mode = s.mode
        /\ t.kind = s.kind /\ t.phase = [s.phase EXCEPT ![i] = "free"] /\ SameRemote(s, t)
    BY ForgetReturns, ForgetRest
  <1>2. t.awake = s.awake /\ t.reconnect = s.reconnect
    BY DEF Forget, State
  <1>3. s.phase \in [Inst -> Phases] /\ s.active \in Inst \cup {None}
    BY DEF State
  <1> HIDE DEF t
  <1>4. s.active # None => t.phase[s.active] = s.phase[s.active]
    BY <1>1, <1>3
  <1>5. Local(t)
    BY <1>1, <1>2, <1>4 DEF Local, RemoteActive, ActiveKind, SameShare, SameFlags, SameRemote
  <1>6. QED
    BY <1>5 DEF t

LEMMA InitIsLocal ==
    ASSUME Init
    PROVE  Local(st)
  BY DEF Init, Local, RemoteActive, ActiveKind

LEMMA StartHostKeepsLocal ==
    ASSUME ControllerAssumption, Good(st), Calm(st), Local(st), StartHostBegin \/ StartHostLoaded
    PROVE  Local(st')
  <1>1. st \in State
    BY DEF Good
  <1>2. CASE StartHostBegin
    <2> DEFINE t == [st EXCEPT !.starting = st.starting + 1]
    <2>1. st' = t
      BY <1>2 DEF StartHostBegin
    <2>2. SameSlot(st, t) /\ SameShare(st, t) /\ SameOutlook(st, t)
      BY <1>1 DEF State, SameSlot, SameShare, SameFlags, SameOutlook
    <2> HIDE DEF t
    <2>3. QED
      BY <2>1, <2>2, SameKeepsLocal DEF SameSlot, SameShare, SameFlags
  <1>3. CASE StartHostLoaded
    <2> DEFINE t == [st EXCEPT !.starting = st.starting - 1]
               o == ShareOff(t)
               u == [o EXCEPT !.share = TRUE]
    <2>1. PICK i \in Free(st) :
            st' = IF st.active = None /\ ~st.share /\ ~st.retry THEN LaunchHost(u, i) ELSE t
      BY <1>3 DEF StartHostLoaded
    <2>2. t \in State
      <3>1. st.starting - 1 \in 0..MaxRequests
        BY <1>1, <1>3 DEF StartHostLoaded, State, ControllerAssumption
      <3>2. QED
        BY <1>1, <3>1, CounterFields DEF ControllerAssumption
    <2>3. SameSlot(st, t) /\ SameShare(st, t) /\ SameOutlook(st, t)
      BY <1>1 DEF State, SameSlot, SameShare, SameFlags, SameOutlook
    <2> HIDE DEF t
    <2>4. Local(t)
      BY <2>3, SameKeepsLocal DEF SameSlot, SameShare, SameFlags
    <2>5. o \in State /\ SameSlot(t, o) /\ o.sharePaused = FALSE /\ SameOutlook(t, o)
      <3>1. SameOutlook(t, o)
        BY <2>2 DEF ShareOff, State, SameOutlook
      <3>2. QED
        BY <2>2, <3>1, ShareOffReturns
    <2> HIDE DEF o
    <2>6. u \in State
      BY <2>5, StartFields
    <2>7. SameSlot(o, u) /\ u.sharePaused = FALSE /\ u.share = TRUE /\ SameOutlook(o, u)
      BY <2>5 DEF State, SameSlot, SameOutlook
    <2> HIDE DEF u
    <2>8. CASE st.active = None /\ ~st.share /\ ~st.retry
      <3>1. ~st.awake /\ (Parsed => ~st.reconnect) /\ st.remote = None
        BY <2>8 DEF Local, ActiveKind
      <3>2. /\ u.active = None /\ u.share /\ ~u.sharePaused /\ ~u.awake
            /\ (Parsed => ~u.reconnect) /\ u.remote = None
        BY <2>3, <2>5, <2>7, <2>8, <3>1 DEF SameSlot, SameOutlook
      <3>3. i \in Inst
        BY DEF Free
      <3>4. Local(LaunchHost(u, i))
        BY <2>6, <3>2, <3>3, LaunchHostIsLocal
      <3>5. QED
        BY <2>1, <2>8, <3>4
    <2>9. CASE ~(st.active = None /\ ~st.share /\ ~st.retry)
      BY <2>1, <2>4, <2>9
    <2>10. QED
      BY <2>8, <2>9
  <1>4. QED
    BY <1>2, <1>3

LEMMA StartViewerKeepsLocal ==
    ASSUME ControllerAssumption, Good(st), Local(st), StartViewer \/ StartViewerRefused
    PROVE  Local(st')
  <1>1. st \in State /\ st.active = None /\ ~st.share
    BY DEF Good, StartViewer, StartViewerRefused
  <1>2. CASE StartViewerRefused
    <2> DEFINE t == [st EXCEPT !.retry = FALSE]
    <2>1. st' = t /\ ~Parsed
      BY <1>2 DEF StartViewerRefused, Parsed
    <2>2. /\ SameSlot(st, t) /\ t.share = st.share /\ t.shareTimer = st.shareTimer
          /\ t.retry = FALSE /\ SameOutlook(st, t)
      BY <1>1 DEF State, SameSlot, SameOutlook
    <2> HIDE DEF t
    <2>3. QED
      BY <1>1, <2>1, <2>2 DEF Local, RemoteActive, ActiveKind, SameSlot, SameOutlook
  <1>3. CASE StartViewer
    <2> DEFINE t == [st EXCEPT !.retry = FALSE, !.reconnect = FALSE]
    <2>1. PICK i \in Free(st) : st' = LaunchViewer(t, i, FALSE)
      BY <1>3 DEF StartViewer
    <2>2. t \in State
      BY <1>1, StartFields
    <2>3. /\ t.remote = st.remote /\ t.share = st.share /\ t.shareTimer = st.shareTimer
          /\ t.awake = st.awake
      BY <1>1 DEF State
    <2> HIDE DEF t
    <2>4. t.remote = None /\ ~t.share /\ ~t.shareTimer /\ ~t.awake
      BY <1>1, <2>3 DEF Local
    <2>5. i \in Inst
      BY DEF Free
    <2>6. QED
      BY <2>1, <2>2, <2>4, <2>5, LaunchViewerIsLocal
  <1>4. QED
    BY <1>2, <1>3

LEMMA UserKeepsLocal ==
    ASSUME ControllerAssumption, Good(st), Calm(st), Local(st),
           \/ Stop \/ UserNewShareCode \/ UserDisableRemote \/ UserNewAccessCode
           \/ UserEndRemoteSession
    PROVE  Local(st')
  <1>1. /\ st \in State /\ Lent(st) /\ Shown(st) /\ st.remote = None /\ ~RemoteActive(st)
    BY DEF Good, Calm, Steady, Local
  <1>2. CASE Stop
    BY <1>1, <1>2, StopActiveIsLocal DEF Stop
  <1>3. CASE UserNewShareCode
    <2> DEFINE o == Outdate(st, "share")
               t == [o EXCEPT !.approved = {}, !.granted = {}]
               e == EndSession(t)
    <2>1. PICK i \in Free(st) : st' = NewShareCode(st, i)
      BY <1>3 DEF UserNewShareCode
    <2>2. /\ o \in State /\ SameSlot(st, o) /\ SameShare(st, o) /\ SameOutlook(st, o)
      <3>1. SameOutlook(st, o)
        BY <1>1 DEF Outdate, State, SameOutlook
      <3>2. QED
        BY <1>1, <3>1, OutdateReturns
    <2> HIDE DEF o
    <2>3. t \in State
      BY <2>2, AnswerFields
    <2>4. SameSlot(o, t) /\ SameShare(o, t) /\ SameOutlook(o, t)
      BY <2>2 DEF State, SameSlot, SameShare, SameFlags, SameOutlook
    <2>5. st' = IF ~st.share THEN st
                ELSE IF st.mode \in {"hosting-waiting", "hosting-consent"}
                     THEN LaunchHost(e, i) ELSE t
      BY <2>1 DEF NewShareCode, o
    <2> HIDE DEF t
    <2>6. SameSlot(st, t) /\ SameShare(st, t) /\ SameOutlook(st, t)
      BY <2>2, <2>4 DEF SameSlot, SameShare, SameFlags, SameOutlook
    <2>7. Local(t)
      BY <2>6, SameKeepsLocal DEF SameSlot, SameShare, SameFlags
    <2>8. CASE st.share /\ st.mode \in {"hosting-waiting", "hosting-consent"}
      <3>1. ~st.sharePaused /\ (Parsed => ~st.reconnect)
        BY <1>1, <2>8 DEF Lent, Local
      <3>2. t.remote = None /\ t.share /\ ~t.sharePaused /\ (Parsed => ~t.reconnect)
        BY <1>1, <2>6, <2>8, <3>1 DEF SameShare, SameFlags, SameOutlook
      <3>3. /\ e \in State /\ SameFlags(t, e) /\ e.active = None /\ e.remote = None /\ ~e.awake
            /\ e.reconnect = t.reconnect
        BY <2>3, <3>2, EndSessionReturns, EndSessionAlone
      <3> HIDE DEF e
      <3>4. e.share /\ ~e.sharePaused /\ (Parsed => ~e.reconnect) /\ i \in Inst
        BY <3>2, <3>3 DEF SameFlags, Free
      <3>5. Local(LaunchHost(e, i))
        BY <3>3, <3>4, LaunchHostIsLocal
      <3>6. QED
        BY <2>5, <2>8, <3>5
    <2>9. CASE ~(st.share /\ st.mode \in {"hosting-waiting", "hosting-consent"})
      BY <2>5, <2>7, <2>9
    <2>10. QED
      BY <2>8, <2>9
  <1>4. CASE UserDisableRemote
    BY <1>1, <1>4 DEF UserDisableRemote
  <1>5. CASE UserNewAccessCode
    <2>1. st' = st
      BY <1>1, <1>5 DEF UserNewAccessCode, NewAccessCode
    <2>2. QED
      BY <2>1
  <1>6. CASE UserEndRemoteSession
    BY <1>1, <1>6 DEF UserEndRemoteSession
  <1>7. QED
    BY <1>2, <1>3, <1>4, <1>5, <1>6

LEMMA EnableRemoteKeepsLocal ==
    ASSUME "remote" \notin Features, Good(st), Local(st),
           EnableRemoteBegin \/ EnableRemoteReady \/ RemoteTimerFires
    PROVE  Local(st')
  <1>1. st \in State /\ st.remote = None
    BY DEF Good, Local
  <1>2. CASE EnableRemoteBegin
    BY <1>2 DEF EnableRemoteBegin
  <1>3. CASE EnableRemoteReady
    <2> DEFINE t == [st EXCEPT !.enabling = st.enabling - 1]
    <2>1. st' = ArmRemote(t)
      BY <1>3 DEF EnableRemoteReady
    <2>2. SameSlot(st, t) /\ SameShare(st, t) /\ SameOutlook(st, t)
      BY <1>1 DEF State, SameSlot, SameShare, SameFlags, SameOutlook
    <2> HIDE DEF t
    <2>3. ArmRemote(t) = t
      BY <1>1, <2>2, RemoteIsIdle DEF SameOutlook
    <2>4. QED
      BY <2>1, <2>2, <2>3, SameKeepsLocal DEF SameSlot, SameShare, SameFlags
  <1>4. CASE RemoteTimerFires
    <2> DEFINE t == [st EXCEPT !.remoteTimer = FALSE]
    <2>1. st' = ArmRemote(t)
      BY <1>4 DEF RemoteTimerFires
    <2>2. SameSlot(st, t) /\ SameShare(st, t) /\ SameOutlook(st, t)
      BY <1>1 DEF State, SameSlot, SameShare, SameFlags, SameOutlook
    <2> HIDE DEF t
    <2>3. ArmRemote(t) = t
      BY <1>1, <2>2, RemoteIsIdle DEF SameOutlook
    <2>4. QED
      BY <2>1, <2>2, <2>3, SameKeepsLocal DEF SameSlot, SameShare, SameFlags
  <1>5. QED
    BY <1>2, <1>3, <1>4

LEMMA SettingsKeepLocal ==
    ASSUME ControllerAssumption, Good(st), Local(st), SettingsChanged \/ Shutdown
    PROVE  Local(st')
  <1>1. st \in State /\ st.remote = None
    BY DEF Good, Local
  <1>2. CASE SettingsChanged
    <2> DEFINE t == [st EXCEPT !.loadStale = st.remote \in st.arms,
                               !.listenerStale = st.listener # None]
    <2>1. st' = RefreshRemoteListener(t)
      BY <1>2 DEF SettingsChanged
    <2>2. SameSlot(st, t) /\ SameShare(st, t) /\ SameOutlook(st, t) /\ t.arms = st.arms
      BY <1>1 DEF State, SameSlot, SameShare, SameFlags, SameOutlook
    <2> HIDE DEF t
    <2>3. t.remote = None /\ t.remote \notin t.arms
      BY <1>1, <2>2 DEF SameOutlook, State, ControllerAssumption
    <2>4. RefreshRemoteListener(t) = t
      BY <2>3 DEF RefreshRemoteListener
    <2>5. QED
      BY <2>1, <2>2, <2>4, SameKeepsLocal DEF SameSlot, SameShare, SameFlags
  <1>3. CASE Shutdown
    <2> DEFINE u == DropListener(st)
               r == RemoteOff(st)
               t == StopActive(r)
               v == [t EXCEPT !.down = TRUE]
    <2>1. st' = v
      BY <1>3 DEF Shutdown
    <2>2. r \in State
      BY RemoteOffReturns DEF Good
    <2>3. r.remote = None
      <3>1. u \in State
        BY <1>1, DropListenerReturns
      <3> HIDE DEF u
      <3>2. QED
        BY <3>1 DEF RemoteOff, State, u
    <2> HIDE DEF r
    <2>4. Local(t)
      BY <2>2, <2>3, StopActiveIsLocal
    <2>5. t \in State
      <3>1. Good(r)
        BY RemoteOffReturns DEF r
      <3>2. QED
        BY <3>1, StopActiveKeepsGood DEF Good
    <2> HIDE DEF t
    <2>6. SameSlot(t, v) /\ SameShare(t, v) /\ SameOutlook(t, v)
      BY <2>5 DEF State, SameSlot, SameShare, SameFlags, SameOutlook
    <2> HIDE DEF v
    <2>7. QED
      BY <2>1, <2>4, <2>6, SameKeepsLocal DEF SameSlot, SameShare, SameFlags
  <1>4. QED
    BY <1>2, <1>3

LEMMA ConsentAnsweredKeepsLocal ==
    ASSUME ControllerAssumption, Good(st), Calm(st), Local(st), NEW yes \in BOOLEAN,
           ConsentAnswered(yes)
    PROVE  Local(st')
  <1>1. /\ st \in State /\ Asked(st) /\ Lent(st) /\ Shown(st) /\ st.remote = None
        /\ st.consent # None /\ st.active = st.consent
    BY DEF Good, Calm, Steady, Local, ConsentAnswered, Current
  <1>2. st.consent \in Inst /\ st.guest \in Devices /\ ActiveKind(st) = "share" /\ st.share
    BY <1>1 DEF Asked, Shown, State
  <1>3. CASE yes
    <2> DEFINE t == [st EXCEPT !.approved = st.approved \cup {st.guest},
                               !.granted = st.granted \cup {st.guest}]
    <2>1. st' = GoLive(t, st.consent, st.guest)
      BY <1>3 DEF ConsentAnswered
    <2>2. /\ st.approved \cup {st.guest} \in SUBSET Devices
          /\ st.granted \cup {st.guest} \in SUBSET Devices
      BY <1>1, <1>2 DEF State
    <2>3. t \in State
      BY <1>1, <2>2, AnswerFields
    <2>4. SameSlot(st, t) /\ SameShare(st, t) /\ SameOutlook(st, t)
      BY <1>1 DEF State, SameSlot, SameShare, SameFlags, SameOutlook
    <2> HIDE DEF t
    <2>5. Local(t)
      BY <2>4, SameKeepsLocal DEF SameSlot, SameShare, SameFlags
    <2>6. t.active = st.consent
      BY <1>1, <2>4 DEF SameSlot
    <2>7. Local(GoLive(t, st.consent, st.guest))
      BY <1>1, <1>2, <2>3, <2>5, <2>6, GoLiveIsLocal
    <2>8. QED
      BY <2>1, <2>7
  <1>4. CASE ~yes
    <2> DEFINE t == [st EXCEPT !.consent = None]
    <2>1. st' = RearmHost(t)
      BY <1>4 DEF ConsentAnswered
    <2>2. t \in State
      BY <1>1, RefusedFields
    <2>3. SameFlags(st, t) /\ SameOutlook(st, t)
      BY <1>1 DEF State, SameFlags, SameOutlook
    <2> HIDE DEF t
    <2>4. ~st.sharePaused /\ (Parsed => ~st.reconnect)
      BY <1>1, <1>2 DEF Lent, Local
    <2>5. t.remote = None /\ t.share /\ ~t.sharePaused /\ (Parsed => ~t.reconnect)
      BY <1>1, <1>2, <2>3, <2>4 DEF SameFlags, SameOutlook
    <2>6. QED
      BY <2>1, <2>2, <2>5, RearmHostIsLocal
  <1>5. QED
    BY <1>3, <1>4

LEMMA HostKeepsLocal ==
    ASSUME ControllerAssumption, Good(st), Calm(st), Local(st), NEW i \in Inst,
           \/ \E d \in Devices, auto \in BOOLEAN : HostConsentRequest(i, d, auto)
           \/ HostEnds(i)
    PROVE  Local(st')
  <1>1. /\ st \in State /\ Owned(st) /\ Lent(st) /\ Shown(st) /\ st.remote = None
        /\ st.kind[i] = "share" /\ i # None
    BY DEF Good, Calm, Steady, Local, HostConsentRequest, HostEnds, ControllerAssumption
  <1>2. ASSUME NEW d \in Devices, NEW auto \in BOOLEAN, HostConsentRequest(i, d, auto)
        PROVE  Local(st')
    <2> DEFINE t == [st EXCEPT !.phase[i] = "consent", !.consent = i, !.guest = d,
                               !.mode = "hosting-consent"]
    <2>1. /\ st.active = i /\ st.phase[i] \in {"waiting", "closed"}
          /\ st' = IF d \in st.approved /\ auto THEN GoLive(st, i, d) ELSE t
      BY <1>2 DEF HostConsentRequest, Current
    <2>2. Local(GoLive(st, i, d))
      BY <1>1, <2>1, GoLiveIsLocal
    <2>3. /\ t.active = i /\ t.kind = st.kind /\ t.phase = [st.phase EXCEPT ![i] = "consent"]
          /\ SameFlags(st, t) /\ SameOutlook(st, t)
      BY <1>1, <2>1 DEF State, SameFlags, SameOutlook
    <2> HIDE DEF t
    <2>4. t.phase[i] = "consent"
      BY <1>1, <2>3 DEF State
    <2>5. ~st.awake
      BY <2>1 DEF Local
    <2>6. Local(t)
      BY <1>1, <2>1, <2>3, <2>4, <2>5
         DEF Local, RemoteActive, ActiveKind, SameFlags, SameOutlook
    <2>7. QED
      BY <2>1, <2>2, <2>6
  <1>3. CASE HostEnds(i)
    <2>1. st' = IF st.active = i THEN RearmHost(st) ELSE Forget(st, i)
      BY <1>3 DEF HostEnds, Current
    <2>2. CASE st.active = i
      <3>1. ActiveKind(st) = "share" /\ ~RemoteActive(st)
        BY <1>1, <2>2 DEF RemoteActive, ActiveKind
      <3>2. st.share /\ ~st.sharePaused
        BY <1>1, <3>1 DEF Shown, Lent
      <3>3. Parsed => ~st.reconnect
        BY <1>1, <3>1, <3>2 DEF Lent, Local
      <3>4. QED
        BY <1>1, <2>1, <2>2, <3>2, <3>3, RearmHostIsLocal
    <2>3. CASE st.active # i
      BY <1>1, <2>1, <2>3, ForgetKeepsLocal
    <2>4. QED
      BY <2>2, <2>3
  <1>4. QED
    BY <1>2, <1>3

LEMMA ViewerKeepsLocal ==
    ASSUME ControllerAssumption, Good(st), Local(st), NEW i \in Inst,
           ViewerSecure(i) \/ \E final \in BOOLEAN : ViewerEnds(i, final)
    PROVE  Local(st')
  <1>1. /\ st \in State /\ Lent(st) /\ st.remote = None /\ st.kind[i] = "viewer" /\ i # None
    BY DEF Good, Local, ViewerSecure, ViewerEnds, ControllerAssumption
  <1>2. CASE ViewerSecure(i)
    <2> DEFINE t == [st EXCEPT !.phase[i] = "live", !.mode = "viewing",
                               !.reconnect = FALSE, !.awake = TRUE]
    <2>1. st.active = i /\ st' = PauseRemoteListener(t)
      BY <1>2 DEF ViewerSecure, Current
    <2>2. /\ t.active = st.active /\ t.kind = st.kind /\ t.phase[i] = "live" /\ t.awake
          /\ SameFlags(st, t) /\ t.remote = st.remote /\ t.reconnect = FALSE
      BY <1>1 DEF State, SameFlags
    <2> HIDE DEF t
    <2>3. QED
      BY <1>1, <2>1, <2>2, LiveIsLocal DEF SameFlags
  <1>3. ASSUME NEW final \in BOOLEAN, ViewerEnds(i, final)
        PROVE  Local(st')
    <2>1. st' = IF st.active = i THEN RetryViewer(st, st.phase[i] = "live", final)
                                 ELSE Forget(st, i)
      BY <1>3 DEF ViewerEnds, Current
    <2>2. CASE st.active = i
      <3>1. ~st.share /\ ~st.shareTimer
        BY <1>1, <2>2 DEF Lent, Local, ActiveKind
      <3>2. QED
        BY <1>1, <2>1, <2>2, <3>1, RetryViewerIsLocal
    <2>3. CASE st.active # i
      BY <1>1, <2>1, <2>3, ForgetKeepsLocal
    <2>4. QED
      BY <2>2, <2>3
  <1>4. QED
    BY <1>2, <1>3

LEMMA AccessKeepsLocal ==
    ASSUME ControllerAssumption, Good(st), Local(st), NEW i \in Inst,
           RemoteConnects(i) \/ \E later \in BOOLEAN : AccessEnds(i, later)
    PROVE  Local(st')
  <1>1. st \in State /\ st.remote = None /\ ~RemoteActive(st) /\ i # None
    BY DEF Good, Local, ControllerAssumption
  <1>2. CASE RemoteConnects(i)
    BY <1>1, <1>2 DEF RemoteConnects
  <1>3. ASSUME NEW later \in BOOLEAN, AccessEnds(i, later)
        PROVE  Local(st')
    <2>1. st.kind[i] = "access"
      BY <1>3 DEF AccessEnds
    <2>2. st.active # i
      BY <1>1, <2>1 DEF RemoteActive, ActiveKind
    <2>3. st' = Forget(st, i)
      BY <1>1, <1>3, <2>2 DEF AccessEnds, Current
    <2>4. QED
      BY <1>1, <2>2, <2>3, ForgetKeepsLocal
  <1>4. QED
    BY <1>2, <1>3

LEMMA TimersKeepLocal ==
    ASSUME ControllerAssumption, Good(st), Calm(st), Local(st),
           ShareTimerFires \/ RetryTimerFires
    PROVE  Local(st')
  <1>1. /\ st \in State /\ Lent(st) /\ Shown(st) /\ st.remote = None /\ ~RemoteActive(st)
    BY DEF Good, Calm, Steady, Local
  <1>2. CASE ShareTimerFires
    <2> DEFINE t == [st EXCEPT !.shareTimer = FALSE]
    <2>1. PICK i \in Free(st) : st' = LaunchHost(t, i)
      BY <1>2 DEF ShareTimerFires
    <2>2. t \in State
      BY <1>1, StartFields
    <2>3. /\ SameSlot(st, t) /\ SameOutlook(st, t) /\ t.share = st.share /\ t.retry = st.retry
          /\ t.sharePaused = st.sharePaused /\ ~t.shareTimer
      BY <1>1 DEF State, SameSlot, SameOutlook
    <2> HIDE DEF t
    <2>4. st.share /\ ~st.sharePaused /\ (Parsed => ~st.reconnect)
      BY <1>1, <1>2 DEF ShareTimerFires, Lent, Local
    <2>5. CASE st.active = None
      <3>1. ~st.awake /\ i \in Inst
        BY <2>5 DEF Local, Free
      <3>2. /\ t.remote = None /\ t.share /\ t.active = None /\ ~t.sharePaused /\ ~t.awake
            /\ (Parsed => ~t.reconnect)
        BY <1>1, <2>3, <2>4, <2>5, <3>1 DEF SameSlot, SameOutlook
      <3>3. QED
        BY <2>1, <2>2, <3>1, <3>2, LaunchHostIsLocal
    <2>6. CASE st.active # None
      <3>1. st' = t
        BY <2>1, <2>3, <2>6 DEF LaunchHost, SameSlot
      <3>2. ActiveKind(st) = "share"
        <4>1. st.kind[st.active] \in {"share", "access", "viewer"}
          BY <1>1, <2>6 DEF State
        <4>2. QED
          BY <1>1, <2>4, <2>6, <4>1 DEF Lent, RemoteActive, ActiveKind
      <3>3. Local(t)
        BY <1>1, <2>3, <2>4, <2>6, <3>2 DEF Local, RemoteActive, ActiveKind, SameSlot, SameOutlook
      <3>4. QED
        BY <3>1, <3>3
    <2>7. QED
      BY <2>5, <2>6
  <1>3. CASE RetryTimerFires
    <2> DEFINE t == [st EXCEPT !.retry = FALSE]
    <2>1. PICK i \in Free(st) : st' = IF st.active = None THEN LaunchViewer(t, i, TRUE) ELSE t
      BY <1>3 DEF RetryTimerFires
    <2>2. t \in State
      BY <1>1, StartFields
    <2>3. /\ SameSlot(st, t) /\ SameOutlook(st, t) /\ t.share = st.share
          /\ t.shareTimer = st.shareTimer
      BY <1>1 DEF State, SameSlot, SameOutlook
    <2> HIDE DEF t
    <2>4. ~st.share /\ ~st.shareTimer
      BY <1>1, <1>3 DEF RetryTimerFires, Lent, Local
    <2>5. CASE st.active = None
      <3>1. ~st.awake /\ i \in Inst
        BY <2>5 DEF Local, Free
      <3>2. t.remote = None /\ ~t.share /\ ~t.shareTimer /\ ~t.awake
        BY <1>1, <2>3, <2>4, <3>1 DEF SameOutlook
      <3>3. Local(LaunchViewer(t, i, TRUE))
        BY <2>2, <3>1, <3>2, LaunchViewerIsLocal
      <3>4. QED
        BY <2>1, <2>5, <3>3
    <2>6. CASE st.active # None
      <3>1. st' = t
        BY <2>1, <2>6
      <3>2. ActiveKind(st) = "viewer"
        <4>1. st.kind[st.active] \in {"share", "access", "viewer"}
          BY <1>1, <2>6 DEF State
        <4>2. QED
          BY <1>1, <2>4, <2>6, <4>1 DEF Shown, RemoteActive, ActiveKind
      <3>3. Local(t)
        BY <1>1, <2>3, <2>4, <2>6, <3>2 DEF Local, RemoteActive, ActiveKind, SameSlot, SameOutlook
      <3>4. QED
        BY <3>1, <3>3
    <2>7. QED
      BY <2>5, <2>6
  <1>4. QED
    BY <1>2, <1>3

LEMMA ArmLoadedKeepsLocal ==
    ASSUME ControllerAssumption, Good(st), Local(st), NEW r \in RemoteIds, ArmLoaded(r)
    PROVE  Local(st')
  <1> DEFINE a == st.arms \ {r}
             t == [st EXCEPT !.arms = a]
  <1>1. st \in State /\ st.remote # r
    BY DEF Good, Local, ControllerAssumption
  <1>2. st' = t
    BY <1>1 DEF ArmLoaded
  <1> HIDE DEF a
  <1>3. SameSlot(st, t) /\ SameShare(st, t) /\ SameOutlook(st, t)
    BY <1>1 DEF State, SameSlot, SameShare, SameFlags, SameOutlook
  <1> HIDE DEF t
  <1>4. QED
    BY <1>2, <1>3, SameKeepsLocal DEF SameSlot, SameShare, SameFlags

LEMMA NextKeepsLocal ==
    ASSUME ControllerAssumption, "remote" \notin Features, Good(st), Calm(st), Local(st), [Next]_st
    PROVE  Local(st')
  <1>1. CASE Request
    BY <1>1, StartHostKeepsLocal, StartViewerKeepsLocal, EnableRemoteKeepsLocal, UserKeepsLocal,
       SettingsKeepLocal, ConsentAnsweredKeepsLocal DEF Request
  <1>2. CASE Event
    BY <1>2, HostKeepsLocal, ViewerKeepsLocal, AccessKeepsLocal DEF Event
  <1>3. CASE Continuation
    BY <1>3, StartHostKeepsLocal, EnableRemoteKeepsLocal, TimersKeepLocal, ArmLoadedKeepsLocal
       DEF Continuation
  <1>4. CASE UNCHANGED st
    BY <1>4
  <1>5. QED
    BY <1>1, <1>2, <1>3, <1>4 DEF Next

(* Local is an invariant as long as remote access is left off. *)
THEOREM AlwaysLocal == ASSUME "remote" \notin Features PROVE Spec => []Local(st)
  <1>1. Init => Local(st)
    BY InitIsLocal
  <1>2. Good(st) /\ Calm(st) /\ Local(st) /\ [Next]_st => Local(st')
    BY ControllerAssumption, NextKeepsLocal
  <1> DEFINE C == Calm(st)
             G == Good(st)
             L == Local(st)
  <1>3. Init => L
    BY <1>1
  <1>4. G /\ C /\ L /\ [Next]_st => L'
    BY <1>2
  <1>5. Spec => []G
    BY AlwaysGood
  <1>6. Spec => []C
    BY AlwaysCalm
  <1> HIDE DEF C, G, L
  <1>7. Spec => []L
    BY <1>3, <1>4, <1>5, <1>6, PTL DEF Spec
  <1>8. QED
    BY <1>7 DEF L

(* A share that runs has a host or the timer for the next one, until Stop: no
   session end, refusal, new code or failed launch lets it die silently
   (rearmHost, launchHost, newShareCode).  With remote access this is not so. *)
THEOREM SharesGoOn == ASSUME "remote" \notin Features PROVE Spec => []ShareKeepsRunning
  <1>1. Local(st) => ShareKeepsRunning
    BY DEF Local, ShareKeepsRunning
  <1>2. QED
    BY <1>1, AlwaysLocal, PTL

(* A viewer that is said to reconnect has an attempt or a timer for the next
   one (retryViewer, launchViewer, stopActive), unless the user tried to view
   with an invitation that cannot be parsed. *)
THEOREM ReconnectingMeansTrying ==
    ASSUME "remote" \notin Features, "badcode" \notin Features
    PROVE  Spec => []ReconnectKeepsTrying
  <1>1. Local(st) => ReconnectKeepsTrying
    BY DEF Local, Parsed, ReconnectKeepsTrying
  <1>2. QED
    BY <1>1, AlwaysLocal, PTL

(* The mode the page shows and the desktop shell's keep-awake switch always say
   what runs (every assignment to state.mode and call of onSessionChange). *)
THEOREM ModeIsTrue ==
    ASSUME "remote" \notin Features, "badcode" \notin Features
    PROVE  Spec => []ModeTellsTheTruth
  <1>1. Good(st) /\ Calm(st) /\ Local(st) => ModeTellsTheTruth
    <2> SUFFICES ASSUME Good(st), Calm(st), Local(st)
                 PROVE  ModeTellsTheTruth
      OBVIOUS
    <2>1. Shown(st) /\ st.active \in Inst \cup {None} /\ Lent(st)
      BY DEF Good, Calm, Steady, State
    <2>2. CASE st.active = None
      BY <2>1, <2>2 DEF Local, Parsed, ActiveKind, ModeTellsTheTruth
    <2>3. CASE st.active # None
      <3>1. /\ ActiveKind(st) = st.kind[st.active]
            /\ Looks(st.kind[st.active], st.phase[st.active], st.mode)
            /\ st.awake <=> st.phase[st.active] = "live"
        BY <2>1, <2>3 DEF Shown, Local, ActiveKind
      <3>2. QED
        BY <2>3, <3>1 DEF Looks, ModeTellsTheTruth
    <2>4. QED
      BY <2>2, <2>3
  <1>2. QED
    BY <1>1, AlwaysGood, AlwaysCalm, AlwaysLocal, PTL

================================================================================
