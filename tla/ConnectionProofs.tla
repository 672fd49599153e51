--------------------------- MODULE ConnectionProofs ---------------------------
(* What an invitation promises, kept by every step of its attempts, what the *)
(* two ends of a live session agree on, and in which order their agents get  *)
(* the signals, for any number of attempts.                                  *)
EXTENDS Connection, SequenceTheorems, WellFoundedInduction, TLAPS

-----------------------------------------------------------------------------
(* Records of one attempt: what the steps of run() and Peer leave alone.    *)

Fields == DOMAIN Fresh
IsState(r) == r = [f \in Fields |-> r[f]]

Early == {"unused", "relays", "opening"}

\* The attempt goes on as it was, comes one step nearer to its channels, ends,
\* or has ended and closes them; when it ends its peer is closed, if it has one.
Ending(r, q) ==
    \/ q.phase = r.phase
    \/ r.phase = "relays" /\ q.phase \in {"opening", "gone"}
    \/ r.phase = "opening" /\ q.phase \in {"running", "gone"}
    \/ r.phase = "over" /\ q.phase = "gone"
    \/ /\ \/ r.phase \in {"running", "live"} /\ q.phase = "over"
          \/ r.phase # "unused" /\ q.phase = "gone"
       /\ q.shut \/ r.peer = "none"

\* A step that changes nothing about the attempt x that its partner could see,
\* except that it may end; and one that leaves the verdict alone, too.
Plain(x, r, q) ==
    /\ IsState(q)
    /\ q.partner = r.partner
    /\ r.shut => q.shut
    /\ r.peer # "none" => q.peer # "none"
    /\ x \in Hosts /\ (r.partner = None \/ r.phase \in {"live", "over", "gone"})
         => q.toAll = r.toAll /\ q.toPartner = r.toPartner
    /\ Ending(r, q)

Quiet(x, r, q) == Plain(x, r, q) /\ q.verdict = r.verdict

\* A step that leaves the connection no more advanced than it was.
NoFurther(r, q) ==
    /\ q.described => r.described
    /\ q.ice => r.ice
    /\ q.ctl = "open" => r.ctl = "open"
    /\ q.ctl = "none" => r.ctl = "none"

\* The step of x is such a step, of an attempt that runs already or not yet.
QuietStep(x) ==
    \E q : /\ Quiet(x, s[x], q) /\ NoFurther(s[x], q) /\ s' = [s EXCEPT ![x] = q]
           /\ q.phase = "running" => s[x].phase = "running"

LEMMA FieldNames ==
    Fields = {"phase", "stop", "partner", "log", "toAll", "toPartner", "nextRemote", "pending",
              "ice", "peer", "shut", "described", "queued", "applied", "ctl", "verdict"}
  BY DEF Fields, Fresh

LEMMA ResendIsQuiet ==
    ASSUME NEW x, NEW r, IsState(r)
    PROVE  /\ Quiet(x, r, ResendAll(x, r)) /\ NoFurther(r, ResendAll(x, r))
           /\ ResendAll(x, r).peer = r.peer /\ ResendAll(x, r).shut = r.shut
           /\ ResendAll(x, r).phase = r.phase
  BY FieldNames DEF IsState, ResendAll, Quiet, Plain, NoFurther, Ending, SignalingDone, CanSpeak, IsHost

LEMMA CloseIsQuiet ==
    ASSUME NEW x, NEW r, IsState(r)
    PROVE  /\ Quiet(x, r, ClosePeer(r)) /\ NoFurther(r, ClosePeer(r))
           /\ ClosePeer(r).phase = r.phase
           /\ ClosePeer(r).shut \/ r.peer = "none"
  BY FieldNames DEF IsState, ClosePeer, Quiet, Plain, NoFurther, Ending

LEMMA FinishIsQuiet ==
    ASSUME NEW x, NEW r, IsState(r)
    PROVE  /\ Quiet(x, r, Finish(x, r)) /\ NoFurther(r, Finish(x, r))
           /\ Finish(x, r).shut \/ r.peer = "none"
           /\ Finish(x, r).phase = "running" => r.phase = "running"
  <1> DEFINE a == ResendAll(x, r)
             b == ClosePeer(a)
  <1>1. CASE r.phase \in {"running", "live"}
    <2>1. /\ Quiet(x, r, a) /\ NoFurther(r, a) /\ a.phase = r.phase /\ a.peer = r.peer
      BY ResendIsQuiet
    <2>2. IsState(a)
      BY <2>1 DEF Quiet, Plain
    <2>3. /\ Quiet(x, a, b) /\ NoFurther(a, b) /\ b.phase = r.phase
          /\ b.shut \/ r.peer = "none"
      BY <2>1, <2>2, CloseIsQuiet
    <2>4. Finish(x, r) = [b EXCEPT !.phase = "over"]
      BY <1>1 DEF Finish, Over
    <2> HIDE DEF a, b
    <2> QED BY <1>1, <2>1, <2>3, <2>4, FieldNames DEF Quiet, Plain, NoFurther, IsState, Ending
  <1>2. CASE r.phase \notin {"running", "live"}
    BY <1>2, CloseIsQuiet DEF Finish
  <1> QED BY <1>1, <1>2

LEMMA StateChangeIsQuiet ==
    ASSUME NEW x, NEW r, IsState(r), NEW st \in PeerStates \ {"none"}
    PROVE  /\ Quiet(x, r, SetPeerState(r, st)) /\ NoFurther(r, SetPeerState(r, st))
           /\ SetPeerState(r, st).phase = r.phase /\ SetPeerState(r, st).shut = r.shut
  BY FieldNames DEF IsState, SetPeerState, Quiet, Plain, NoFurther, Ending

\* Taking a partner's entries changes what the agent was given, no more.
LEMMA SignalsAreQuiet ==
    ASSUME NEW x, NEW r, IsState(r), NEW sigs
    PROVE  /\ Quiet(x, r, ApplySignals(r, sigs))
           /\ ApplySignals(r, sigs).phase = r.phase
           /\ ApplySignals(r, sigs).ice = r.ice /\ ApplySignals(r, sigs).ctl = r.ctl
           /\ ApplySignals(r, sigs).shut = r.shut
  BY FieldNames DEF ApplySignals, IsState, Quiet, Plain, Ending

LEMMA EntriesAreQuiet ==
    ASSUME NEW x, NEW r, IsState(r), NEW y, NEW part
    PROVE  /\ Quiet(x, r, TakeEntries(r, y, part))
           /\ TakeEntries(r, y, part).phase = r.phase
           /\ TakeEntries(r, y, part).ice = r.ice /\ TakeEntries(r, y, part).ctl = r.ctl
           /\ TakeEntries(r, y, part).shut = r.shut
  <1>1. PICK sigs, upTo, rest :
          TakeEntries(r, y, part) = [ApplySignals(r, sigs) EXCEPT !.nextRemote = upTo, !.pending = rest]
    BY DEF TakeEntries
  <1> DEFINE q == ApplySignals(r, sigs)
  <1>2. Quiet(x, r, q) /\ q.phase = r.phase /\ q.ice = r.ice /\ q.ctl = r.ctl /\ q.shut = r.shut
    BY SignalsAreQuiet
  <1>3. TakeEntries(r, y, part) = [q EXCEPT !.nextRemote = upTo, !.pending = rest]
    BY <1>1
  <1> HIDE DEF q
  <1> QED BY <1>2, <1>3, FieldNames DEF IsState, Quiet, Plain, Ending

-----------------------------------------------------------------------------
(* Control messages in flight. *)

Contents(q) == {q[i] : i \in DOMAIN q}
IsQueue(q) == q \in Seq(Contents(q))

LEMMA AppendedQueue ==
    ASSUME NEW q, IsQueue(q), NEW m
    PROVE  IsQueue(Append(q, m)) /\ Contents(Append(q, m)) \subseteq Contents(q) \cup {m}
  <1> DEFINE S == Contents(q) \cup {m}
  <1>1. q \in Seq(S) /\ m \in S
    BY DEF IsQueue
  <1> HIDE DEF S
  <1>2. /\ Append(q, m) \in Seq(S) /\ Len(Append(q, m)) = Len(q) + 1
        /\ \A i \in 1 .. Len(q) : Append(q, m)[i] = q[i]
        /\ Append(q, m)[Len(q) + 1] = m
    BY <1>1, AppendProperties
  <1>3. DOMAIN Append(q, m) = 1 .. Len(q) + 1 /\ DOMAIN q = 1 .. Len(q) /\ Len(q) \in Nat
    BY <1>1, <1>2
  <1>4. Contents(Append(q, m)) \subseteq S
    BY <1>2, <1>3 DEF S, Contents
  <1>5. Append(q, m) \in Seq(Contents(Append(q, m)))
    <2> DEFINE a == Append(q, m)
    <2>1. \A i \in 1 .. Len(a) : a[i] \in Contents(a)
      BY <1>2, <1>3 DEF Contents
    <2>2. a \in Seq(S)
      BY <1>2
    <2> HIDE DEF a
    <2>3. a = [i \in 1 .. Len(a) |-> a[i]] /\ Len(a) \in Nat
      BY <2>2
    <2>4. a \in Seq(Contents(a))
      BY <2>1, <2>3
    <2> QED BY <2>4 DEF a
  <1> QED BY <1>4, <1>5 DEF S, IsQueue

LEMMA ShortenedQueue ==
    ASSUME NEW q, IsQueue(q), q # <<>>
    PROVE  /\ IsQueue(Tail(q)) /\ Contents(Tail(q)) \subseteq Contents(q)
           /\ Head(q) \in Contents(q)
  <1>1. /\ Head(q) \in Contents(q) /\ Tail(q) \in Seq(Contents(q))
        /\ Len(Tail(q)) = Len(q) - 1
        /\ \A i \in 1 .. Len(Tail(q)) : Tail(q)[i] = q[i+1]
    BY HeadTailProperties DEF IsQueue
  <1>2. DOMAIN Tail(q) = 1 .. Len(Tail(q)) /\ Len(Tail(q)) \in Nat
    BY <1>1
  <1>3. Contents(Tail(q)) \subseteq Contents(q)
    <2> DEFINE a == Tail(q)
    <2>1. \A i \in 1 .. Len(a) : a[i] \in Contents(q)
      BY <1>1, ElementOfSeq
    <2> QED BY <1>2, <2>1 DEF Contents
  <1>4. Tail(q) \in Seq(Contents(Tail(q)))
    <2> DEFINE a == Tail(q)
    <2>1. \A i \in 1 .. Len(a) : a[i] \in Contents(a)
      BY <1>2 DEF Contents
    <2>2. a \in Seq(Contents(q))
      BY <1>1
    <2> HIDE DEF a
    <2>3. a = [i \in 1 .. Len(a) |-> a[i]] /\ Len(a) \in Nat
      BY <2>2
    <2>4. a \in Seq(Contents(a))
      BY <2>1, <2>3
    <2> QED BY <2>4 DEF a
  <1> QED BY <1>1, <1>3, <1>4 DEF IsQueue

-----------------------------------------------------------------------------
(* The inductive invariant. *)

HsFields == DOMAIN HandshakeState(FALSE, NoKey, NoPayload)
IsHs(k) == k = [f \in HsFields |-> k[f]]

Shapes ==
    /\ s = [x \in Session |-> s[x]] /\ \A x \in Session : IsState(s[x])
    /\ hs = [x \in Session |-> hs[x]] /\ \A x \in Session : IsHs(hs[x])
    /\ inbox = [x \in Session |-> inbox[x]] /\ \A x \in Session : IsQueue(inbox[x])

\* A host attempt nobody can have heard of, or be connected to.
Silent(r) == r.toAll = 0 /\ r.toPartner = 0 /\ ~r.ice /\ r.ctl # "open"
Mute(h) == Silent(s[h]) /\ \A v \in Viewers : s[v].partner # h

HostInv(h) ==
    LET r == s[h]
    IN /\ r.phase \in Phases /\ r.partner \in Viewers \cup {None}
       /\ r.partner = None => Mute(h) /\ ~r.described
       /\ r.partner # None => r.peer # "none" /\ r.phase \notin Early
       /\ r.phase \in {"over", "gone"} /\ ~r.shut => Mute(h)
       /\ r.verdict # "none" => hs[h].step = 3 /\ r.partner # None
       /\ r.verdict = "asked" /\ ~r.shut => r.phase = "running"
       /\ r.phase = "live" => r.verdict = "yes"

\* A viewer is told yes only by a host attempt that allowed it.
Yes(m) == m.t = "consent" /\ m.ok
Allowed(x) == \E h \in Hosts : s[h].verdict = "yes" /\ s[h].partner = x
Told == \A x \in Session : \A m \in Contents(inbox[x]) : Yes(m) => Allowed(x)

\* Every partner of an attempt that holds the present memory is in it.
Spending ==
    /\ spent \in [partners : SUBSET Viewers, holders : SUBSET Hosts]
    /\ \A h \in spent.holders : s[h].partner # None => s[h].partner \in spent.partners

AdmissionInv ==
    /\ Shapes
    /\ \A h \in Hosts : HostInv(h)
    /\ Told
    /\ Spending
    /\ SpentOnce

\* What steps do to the messages and to the handshakes.
NewsFor(told) ==
    /\ inbox' = [x \in Session |-> inbox'[x]] /\ \A x \in Session : IsQueue(inbox'[x])
    /\ \A x \in Session : \A m \in Contents(inbox'[x]) : Yes(m) => Allowed(x) \/ x \in told

NoNews == NewsFor({})

HandshakesKept ==
    /\ hs' = [x \in Session |-> hs'[x]] /\ \A x \in Session : IsHs(hs'[x])
    /\ \A h \in Hosts : s[h].verdict # "none" => hs'[h].step = hs[h].step

LEMMA SameInbox ==
    ASSUME AdmissionInv, UNCHANGED inbox
    PROVE  NoNews
  BY DEF AdmissionInv, Shapes, Told, NoNews, NewsFor

LEMMA SameHandshakes ==
    ASSUME AdmissionInv, UNCHANGED hs
    PROVE  HandshakesKept
  BY DEF AdmissionInv, Shapes, HandshakesKept

\* What is in the queues once m was sent to y, once x has taken its first
\* message, and once x has answered that with m.
LEMMA Sending ==
    ASSUME AdmissionInv, NEW y, NEW m, inbox' = Deliver(y, m)
    PROVE  /\ inbox' = [x \in Session |-> inbox'[x]]
           /\ \A x \in Session :
                 /\ IsQueue(inbox'[x])
                 /\ \A n \in Contents(inbox'[x]) : n \in Contents(inbox[x]) \/ (x = y /\ n = m)
  <1>1. \A x \in Session : inbox'[x] = IF x = y THEN Append(inbox[x], m) ELSE inbox[x]
    BY DEF AdmissionInv, Shapes, Deliver
  <1>2. inbox' = [x \in Session |-> inbox'[x]]
    BY DEF AdmissionInv, Shapes, Deliver
  <1>3. ASSUME NEW x \in Session
        PROVE  /\ IsQueue(inbox'[x])
               /\ \A n \in Contents(inbox'[x]) : n \in Contents(inbox[x]) \/ (x = y /\ n = m)
    <2>1. IsQueue(inbox[x])
      BY DEF AdmissionInv, Shapes
    <2>2. IsQueue(Append(inbox[x], m)) /\ Contents(Append(inbox[x], m)) \subseteq Contents(inbox[x]) \cup {m}
      BY <2>1, AppendedQueue
    <2> QED BY <1>1, <2>1, <2>2
  <1> QED BY <1>2, <1>3

LEMMA Taking ==
    ASSUME AdmissionInv, NEW x \in Session, inbox[x] # <<>>,
           inbox' = [inbox EXCEPT ![x] = Tail(@)]
    PROVE  /\ inbox' = [y \in Session |-> inbox'[y]]
           /\ \A y \in Session : IsQueue(inbox'[y]) /\ Contents(inbox'[y]) \subseteq Contents(inbox[y])
  <1>1. \A y \in Session : inbox'[y] = IF x = y THEN Tail(inbox[x]) ELSE inbox[y]
    BY DEF AdmissionInv, Shapes
  <1>2. inbox' = [y \in Session |-> inbox'[y]]
    BY DEF AdmissionInv, Shapes
  <1> QED BY <1>1, <1>2, ShortenedQueue DEF AdmissionInv, Shapes

LEMMA Replying ==
    ASSUME AdmissionInv, NEW x \in Session, inbox[x] # <<>>, NEW y, NEW m,
           inbox' = Reply(x, y, m)
    PROVE  /\ inbox' = [z \in Session |-> inbox'[z]]
           /\ \A z \in Session :
                 /\ IsQueue(inbox'[z])
                 /\ \A n \in Contents(inbox'[z]) : n \in Contents(inbox[z]) \/ (z = y /\ n = m)
  <1> DEFINE rest == [inbox EXCEPT ![x] = Tail(@)]
  <1>1. \A z \in Session : rest[z] = IF x = z THEN Tail(inbox[x]) ELSE inbox[z]
    BY DEF AdmissionInv, Shapes
  <1>2. \A z \in Session : IsQueue(rest[z]) /\ Contents(rest[z]) \subseteq Contents(inbox[z])
    BY <1>1, ShortenedQueue DEF AdmissionInv, Shapes
  <1>3. rest = [z \in Session |-> rest[z]]
    BY DEF AdmissionInv, Shapes
  <1>4. inbox' = [rest EXCEPT ![y] = Append(@, m)]
    BY DEF Reply
  <1> HIDE DEF rest
  <1>5. inbox' = [z \in Session |-> inbox'[z]]
    BY <1>3, <1>4
  <1>6. \A z \in Session : inbox'[z] = IF z = y THEN Append(rest[z], m) ELSE rest[z]
    BY <1>3, <1>4
  <1>7. ASSUME NEW z \in Session
        PROVE  /\ IsQueue(inbox'[z])
               /\ \A n \in Contents(inbox'[z]) : n \in Contents(inbox[z]) \/ (z = y /\ n = m)
    <2>1. IsQueue(rest[z]) /\ Contents(rest[z]) \subseteq Contents(inbox[z])
      BY <1>2
    <2>2. CASE z = y
      <3>1. IsQueue(Append(rest[z], m)) /\ Contents(Append(rest[z], m)) \subseteq Contents(rest[z]) \cup {m}
        BY <2>1, AppendedQueue
      <3> QED BY <1>6, <2>1, <2>2, <3>1
    <2>3. CASE z # y
      BY <1>6, <2>1, <2>3
    <2> QED BY <2>2, <2>3
  <1> QED BY <1>5, <1>7

LEMMA Delivered ==
    ASSUME AdmissionInv, NEW y, NEW m, NEW told, Yes(m) => Allowed(y) \/ y \in told,
           inbox' = Deliver(y, m)
    PROVE  NewsFor(told)
  BY Sending DEF AdmissionInv, Told, NewsFor

LEMMA Taken ==
    ASSUME AdmissionInv, NEW x \in Session, inbox[x] # <<>>,
           inbox' = [inbox EXCEPT ![x] = Tail(@)]
    PROVE  NoNews
  BY Taking DEF AdmissionInv, Told, NoNews, NewsFor

LEMMA Replied ==
    ASSUME AdmissionInv, NEW x \in Session, inbox[x] # <<>>, NEW y, NEW m, ~Yes(m),
           inbox' = Reply(x, y, m)
    PROVE  NoNews
  BY Replying DEF AdmissionInv, Told, NoNews, NewsFor

-----------------------------------------------------------------------------
(* The step of one attempt that allows nobody and meets nobody new. *)

\* The owner is asked, refuses, or answers too late.
Decides(x, q) ==
    /\ x \in Hosts /\ s[x].partner # None
    /\ \/ /\ s[x].verdict = "none" /\ q.verdict = "asked"
          /\ hs'[x].step = 3
          /\ q.shut \/ q.phase = "running"
       \/ s[x].verdict = "asked" /\ q.verdict \in {"no", "late"}

Promised == [Admission!Next]_<<stage, admitted>>

LEMMA OneStageMoves ==
    ASSUME NEW x \in Session, \A y \in Session : y # x => s'[y] = s[y]
    PROVE  stage' = [stage EXCEPT ![x] = stage'[x]]
  <1>1. \A y \in Session : y # x => stage'[y] = stage[y]
    BY DEF stage
  <1>2. stage' = [y \in Session |-> stage'[y]] /\ stage = [y \in Session |-> stage[y]]
    BY DEF stage
  <1> HIDE DEF stage
  <1> QED BY <1>1, <1>2

\* The memory is kept or lost, and nobody meets anyone.
LEMMA MemoryKeeps ==
    ASSUME AdmissionInv, \A h \in Hosts : s'[h].partner = s[h].partner,
           spent' \in {spent, NoMemory}
    PROVE  Spending' /\ SpentOnce'
  <1>1. CASE spent' = spent
    <2>1. \A h \in spent.holders : h \in Hosts
      BY DEF AdmissionInv, Spending
    <2> QED BY <1>1, <2>1 DEF AdmissionInv, Spending, SpentOnce
  <1>2. CASE spent' = NoMemory
    BY <1>2 DEF NoMemory, Spending, SpentOnce
  <1> QED BY <1>1, <1>2

LEMMA StepForgets ==
    ASSUME AdmissionInv, NEW x \in Session, NEW q, Plain(x, s[x], q),
           s' = [s EXCEPT ![x] = q],
           x \in Hosts /\ Mute(x) => ~q.ice /\ q.ctl # "open",
           x \in Hosts /\ s[x].partner = None => ~q.described,
           q.verdict = s[x].verdict \/ Decides(x, q),
           HandshakesKept, NoNews, spent' \in {spent, NoMemory}
    PROVE  AdmissionInv' /\ Promised
  <1> DEFINE r == s[x]
  <1>1. \A y \in Session : s'[y] = IF y = x THEN q ELSE s[y]
    BY DEF AdmissionInv, Shapes
  <1>2. Shapes'
    <2>1. s' = [y \in Session |-> s'[y]] /\ \A y \in Session : IsState(s'[y])
      BY <1>1 DEF AdmissionInv, Shapes, Plain
    <2> QED BY <2>1 DEF HandshakesKept, NoNews, NewsFor, Shapes
  <1>3. \A y \in Session : s'[y].partner = s[y].partner
    BY <1>1 DEF Plain
  <1>4. ASSUME NEW h \in Hosts, Mute(h), s[h].partner = None \/ s[h].phase \in {"live", "over", "gone"}
        PROVE  Mute(h)'
    <2>1. h \in Session /\ \A v \in Viewers : v \in Session
      BY DEF Session
    <2>2. Silent(s'[h])
      BY <1>1, <1>4, <2>1 DEF Mute, Silent, Plain
    <2> QED BY <1>3, <1>4, <2>1, <2>2 DEF Mute
  <1>5. ASSUME NEW h \in Hosts
        PROVE  HostInv(h)'
    <2>1. h \in Session /\ HostInv(h)
      BY DEF AdmissionInv, Session
    <2>2. CASE h # x
      <3>1. s'[h] = s[h] /\ (s[h].verdict # "none" => hs'[h].step = hs[h].step)
        BY <1>1, <2>1, <2>2 DEF HandshakesKept
      <3> QED BY <1>4, <2>1, <3>1 DEF HostInv
    <2>3. CASE h = x
      <3>1. s'[h] = q
        BY <1>1, <2>1, <2>3
      <3>2. q.partner = r.partner /\ q.partner \in Viewers \cup {None} /\ q.phase \in Phases
        BY <2>1, <2>3 DEF Plain, HostInv, Ending, Phases
      <3>3. q.partner = None => Mute(h)' /\ ~q.described
        BY <1>4, <2>1, <2>3, <3>2 DEF HostInv
      <3>4. q.partner # None => q.peer # "none" /\ q.phase \notin Early
        BY <2>1, <2>3, <3>2 DEF HostInv, Plain, Ending, Early
      <3>5. q.phase \in {"over", "gone"} /\ ~q.shut => Mute(h)'
        <4> SUFFICES ASSUME q.phase \in {"over", "gone"}, ~q.shut
                     PROVE  Mute(h)'
          OBVIOUS
        <4>1. (r.phase \in {"over", "gone"} /\ ~r.shut) \/ r.partner = None
          BY <2>1, <2>3 DEF HostInv, Plain, Ending, Early
        <4> QED BY <1>4, <2>1, <2>3, <4>1 DEF HostInv
      <3>6. q.verdict # "none" => hs'[h].step = 3 /\ q.partner # None
        BY <2>1, <2>3, <3>2 DEF HostInv, Decides, HandshakesKept
      <3>7. q.verdict = "asked" /\ ~q.shut => q.phase = "running"
        BY <2>1, <2>3 DEF HostInv, Decides, Plain, Ending
      <3>8. q.phase = "live" => q.verdict = "yes"
        BY <2>1, <2>3 DEF HostInv, Decides, Plain, Ending
      <3> QED BY <3>1, <3>2, <3>3, <3>4, <3>5, <3>6, <3>7, <3>8 DEF HostInv
    <2> QED BY <2>2, <2>3
  <1>6. \A h \in Hosts : (s'[h].verdict = "yes") = (s[h].verdict = "yes")
    BY <1>1 DEF Decides, Session
  <1>7. \A y : Allowed(y) => Allowed(y)'
    BY <1>3, <1>6 DEF Allowed, Session
  <1>8. Told'
    BY <1>7 DEF NoNews, NewsFor, Told
  <1>9. Spending' /\ SpentOnce'
    BY <1>3, MemoryKeeps DEF Session
  <1>10. Promised
    <2>1. admitted' = admitted
      BY <1>3, <1>6 DEF admitted, Session
    <2>2. CASE stage'[x] = stage[x]
      <3>1. stage' = stage
        BY <1>1, <2>2 DEF stage
      <3> QED BY <2>1, <3>1 DEF Promised
    <2>3. CASE stage'[x] # stage[x]
      <3>1. stage[x] \in {"trying", "live"} /\ stage'[x] = "over"
        BY <1>1, <2>3 DEF stage, Plain, Ending
      <3>2. stage' = [stage EXCEPT ![x] = "over"]
        BY <1>1, <3>1, OneStageMoves
      <3>3. Admission!End(x)
        BY <2>1, <3>1, <3>2 DEF Admission!End
      <3> QED BY <3>3 DEF Promised, Admission!Next, Admission!Session, Session
    <2> QED BY <2>2, <2>3
  <1> QED BY <1>2, <1>5, <1>8, <1>9, <1>10 DEF AdmissionInv

LEMMA StepKeeps ==
    ASSUME AdmissionInv, NEW x \in Session, NEW q, Plain(x, s[x], q),
           s' = [s EXCEPT ![x] = q],
           x \in Hosts /\ Mute(x) => ~q.ice /\ q.ctl # "open",
           x \in Hosts /\ s[x].partner = None => ~q.described,
           q.verdict = s[x].verdict \/ Decides(x, q),
           HandshakesKept, NoNews, UNCHANGED <<access, spent>>
    PROVE  AdmissionInv' /\ Promised
  BY StepForgets

LEMMA QuietForgets ==
    ASSUME AdmissionInv, NEW x \in Session, NEW q, Quiet(x, s[x], q), NoFurther(s[x], q),
           s' = [s EXCEPT ![x] = q],
           HandshakesKept, NoNews, spent' \in {spent, NoMemory}
    PROVE  AdmissionInv' /\ Promised
  <1>1. x \in Hosts => HostInv(x)
    BY DEF AdmissionInv
  <1>2. x \in Hosts /\ Mute(x) => ~q.ice /\ q.ctl # "open"
    BY DEF Mute, Silent, NoFurther
  <1>3. x \in Hosts /\ s[x].partner = None => ~q.described
    BY <1>1 DEF HostInv, NoFurther
  <1>4. Plain(x, s[x], q) /\ q.verdict = s[x].verdict
    BY DEF Quiet
  <1> QED BY <1>2, <1>3, <1>4, StepForgets

LEMMA QuietKeeps ==
    ASSUME AdmissionInv, NEW x \in Session, NEW q, Quiet(x, s[x], q), NoFurther(s[x], q),
           s' = [s EXCEPT ![x] = q],
           HandshakesKept, NoNews, UNCHANGED <<access, spent>>
    PROVE  AdmissionInv' /\ Promised
  BY QuietForgets

LEMMA OneStateKeeps ==
    ASSUME AdmissionInv, NEW x \in Session, QuietStep(x), UNCHANGED <<access, hs, inbox, spent>>
    PROVE  AdmissionInv' /\ Promised
  <1>1. PICK q : Quiet(x, s[x], q) /\ NoFurther(s[x], q) /\ s' = [s EXCEPT ![x] = q]
    BY DEF QuietStep
  <1>2. HandshakesKept /\ NoNews
    BY SameInbox, SameHandshakes
  <1> QED BY <1>1, <1>2, QuietKeeps

LEMMA OneStateForgets ==
    ASSUME AdmissionInv, NEW x \in Session, QuietStep(x), UNCHANGED <<access, hs, inbox>>,
           spent' \in {spent, NoMemory}
    PROVE  AdmissionInv' /\ Promised
  <1>1. PICK q : Quiet(x, s[x], q) /\ NoFurther(s[x], q) /\ s' = [s EXCEPT ![x] = q]
    BY DEF QuietStep
  <1>2. HandshakesKept /\ NoNews
    BY SameInbox, SameHandshakes
  <1> QED BY <1>1, <1>2, QuietForgets

LEMMA EndsIsQuiet ==
    ASSUME AdmissionInv, NEW x \in Session, Ends(x)
    PROVE  QuietStep(x) /\ UNCHANGED <<access, hs, inbox, spent>>
  <1>1. IsState(s[x])
    BY DEF AdmissionInv, Shapes
  <1>2. s' = [s EXCEPT ![x] = Finish(x, s[x])]
    BY DEF Ends
  <1>3. /\ Quiet(x, s[x], Finish(x, s[x])) /\ NoFurther(s[x], Finish(x, s[x]))
        /\ Finish(x, s[x]).phase = "running" => s[x].phase = "running"
    BY <1>1, FinishIsQuiet
  <1> QED BY <1>2, <1>3 DEF Ends, QuietStep

-----------------------------------------------------------------------------
(* Going live: the host with its owner's word, the viewer with the host's. *)

LEMMA SecureIsLive ==
    ASSUME NEW x, NEW r, IsState(r)
    PROVE  /\ r.phase = "running" =>
                /\ IsState(Secure(x, r)) /\ Secure(x, r).phase = "live"
                /\ Secure(x, r).partner = r.partner /\ Secure(x, r).verdict = r.verdict
                /\ r.peer # "none" => Secure(x, r).peer # "none"
           /\ r.phase # "running" => Secure(x, r) = SetPeerState(r, "secure")
  <1> DEFINE p == SetPeerState(r, "secure")
             a == ResendAll(x, p)
  <1>1. Quiet(x, r, p) /\ p.phase = r.phase
    BY StateChangeIsQuiet DEF PeerStates
  <1>2. Quiet(x, p, a)
    BY <1>1, ResendIsQuiet DEF Quiet, Plain
  <1>3. Secure(x, r) = IF p.phase = "running" THEN [a EXCEPT !.phase = "live"] ELSE p
    BY DEF Secure
  <1> HIDE DEF p, a
  <1>4. /\ IsState(a) /\ a.partner = r.partner /\ a.verdict = r.verdict
        /\ r.peer # "none" => a.peer # "none"
    BY <1>1, <1>2 DEF Quiet, Plain
  <1>5. r.phase = "running" =>
                /\ IsState(Secure(x, r)) /\ Secure(x, r).phase = "live"
                /\ Secure(x, r).partner = r.partner /\ Secure(x, r).verdict = r.verdict
                /\ r.peer # "none" => Secure(x, r).peer # "none"
    BY <1>1, <1>3, <1>4, FieldNames DEF IsState
  <1> QED BY <1>1, <1>3, <1>5 DEF p

LEMMA LiveKeeps ==
    ASSUME AdmissionInv, NEW x \in Session, NEW q, IsState(q),
           s' = [s EXCEPT ![x] = q],
           s[x].phase = "running", q.phase = "live", q.partner = s[x].partner,
           s[x].peer # "none" => q.peer # "none",
           \/ x \in Viewers /\ q.verdict = s[x].verdict /\ Allowed(x) /\ NoNews
           \/ /\ x \in Hosts /\ s[x].verdict = "asked" /\ q.verdict = "yes"
              /\ NewsFor({s[x].partner}),
           HandshakesKept, UNCHANGED <<access, spent>>
    PROVE  AdmissionInv' /\ Promised
  <1> DEFINE r == s[x]
  <1>1. \A y \in Session : s'[y] = IF y = x THEN q ELSE s[y]
    BY DEF AdmissionInv, Shapes
  <1>2. Shapes'
    <2>1. s' = [y \in Session |-> s'[y]] /\ \A y \in Session : IsState(s'[y])
      BY <1>1 DEF AdmissionInv, Shapes
    <2> QED BY <2>1 DEF HandshakesKept, NoNews, NewsFor, Shapes
  <1>3. \A y \in Session : s'[y].partner = s[y].partner
    BY <1>1
  <1>4. \A h \in Hosts : /\ s[h].verdict = "yes" => s'[h].verdict = "yes"
                         /\ h = x => s'[h].verdict = "yes" /\ s[h].verdict = "asked"
                         /\ h # x => s'[h].verdict = s[h].verdict
    BY <1>1, ConnectionAssumption DEF Session
  <1>5. ASSUME NEW h \in Hosts
        PROVE  HostInv(h)'
    <2>1. h \in Session /\ HostInv(h)
      BY DEF AdmissionInv, Session
    <2>2. CASE h # x
      <3>1. s'[h] = s[h] /\ (s[h].verdict # "none" => hs'[h].step = hs[h].step)
        BY <1>1, <2>1, <2>2 DEF HandshakesKept
      <3>2. Mute(h) => Mute(h)'
        BY <1>3, <3>1 DEF Mute, Session
      <3> QED BY <2>1, <3>1, <3>2 DEF HostInv
    <2>3. CASE h = x
      <3>1. s'[h] = q /\ r.verdict = "asked" /\ q.verdict = "yes"
        BY <1>1, <1>4, <2>1, <2>3
      <3>2. r.partner # None /\ hs'[h].step = 3 /\ q.peer # "none"
        BY <2>1, <2>3, <3>1 DEF HostInv, HandshakesKept
      <3> QED BY <2>1, <2>3, <3>1, <3>2 DEF HostInv, Early, Phases
    <2> QED BY <2>2, <2>3
  <1>6. \A y : Allowed(y) => Allowed(y)'
    BY <1>3, <1>4 DEF Allowed, Session
  <1>7. Told'
    <2>1. CASE x \in Viewers /\ NoNews
      BY <1>6, <2>1 DEF NoNews, NewsFor, Told
    <2>2. CASE x \in Hosts /\ NewsFor({s[x].partner})
      <3>1. Allowed(s[x].partner)'
        BY <1>3, <1>4, <2>2 DEF Allowed
      <3> QED BY <1>6, <2>2, <3>1 DEF NewsFor, Told
    <2> QED BY <2>1, <2>2
  <1>8. Spending' /\ SpentOnce'
    BY <1>3, MemoryKeeps DEF Session
  <1>9. stage[x] = "trying" /\ stage' = [stage EXCEPT ![x] = "live"]
    <2>1. stage[x] = "trying" /\ stage'[x] = "live"
      BY <1>1 DEF stage
    <2> QED BY <1>1, <2>1, OneStageMoves
  <1>10. Promised
    <2>1. CASE x \in Viewers /\ Allowed(x)
      <3>1. PICK h \in Hosts : s[h].verdict = "yes" /\ s[h].partner = x
        BY <2>1 DEF Allowed
      <3>2. <<h, x>> \in admitted
        BY <2>1, <3>1 DEF admitted
      <3>3. admitted' = admitted
        BY <1>3, <1>4, <2>1, ConnectionAssumption DEF admitted, Session
      <3>4. Admission!Enter(x)
        BY <1>9, <3>2, <3>3 DEF Admission!Enter
      <3> QED BY <2>1, <3>4 DEF Promised, Admission!Next
    <2>2. CASE x \in Hosts
      <3>1. r.verdict = "asked" /\ r.partner \in Viewers
        BY <1>4, <2>2 DEF AdmissionInv, HostInv
      <3>2. admitted' = admitted \cup {<<x, r.partner>>}
        <4>1. \A p \in Hosts \X Viewers :
                 (s'[p[1]].verdict = "yes" /\ s'[p[1]].partner = p[2])
                   <=> (s[p[1]].verdict = "yes" /\ s[p[1]].partner = p[2]) \/ p = <<x, r.partner>>
          <5> SUFFICES ASSUME NEW h \in Hosts, NEW v \in Viewers
                       PROVE  (s'[h].verdict = "yes" /\ s'[h].partner = v)
                                <=> (s[h].verdict = "yes" /\ s[h].partner = v) \/ <<h, v>> = <<x, r.partner>>
            OBVIOUS
          <5> QED BY <1>3, <1>4 DEF Session
        <4> QED BY <2>2, <3>1, <4>1 DEF admitted
      <3>3. Admission!Admit(x, r.partner)
        BY <1>9, <3>2 DEF Admission!Admit
      <3> QED BY <2>2, <3>1, <3>3 DEF Promised, Admission!Next
    <2> QED BY <2>1, <2>2
  <1> QED BY <1>2, <1>5, <1>7, <1>8, <1>10 DEF AdmissionInv

-----------------------------------------------------------------------------
(* Starting, and meeting a partner. *)

LEMMA StartKeeps ==
    ASSUME AdmissionInv, NEW x \in Session, Start(x)
    PROVE  AdmissionInv' /\ Promised
  <1> DEFINE r == s[x]
             q == [r EXCEPT !.phase = "relays"]
  <1>1. IsState(r) /\ s' = [s EXCEPT ![x] = q] /\ UNCHANGED <<access, hs, inbox>>
        /\ r.phase = "unused"
    BY DEF Start, AdmissionInv, Shapes
  <1>2. /\ IsState(q) /\ q.phase = "relays" /\ q.partner = r.partner /\ q.verdict = r.verdict
        /\ q.ice = r.ice /\ q.ctl = r.ctl /\ q.toAll = r.toAll /\ q.toPartner = r.toPartner
        /\ q.described = r.described /\ q.peer = r.peer /\ q.shut = r.shut
    BY <1>1, FieldNames DEF IsState
  <1> HIDE DEF q
  <1>3. \A y \in Session : s'[y] = IF y = x THEN q ELSE s[y]
    BY <1>1 DEF AdmissionInv, Shapes
  <1>4. Shapes'
    <2>1. s' = [y \in Session |-> s'[y]] /\ \A y \in Session : IsState(s'[y])
      BY <1>1, <1>2, <1>3 DEF AdmissionInv, Shapes
    <2> QED BY <1>1, <2>1 DEF AdmissionInv, Shapes
  <1>5. \A y \in Session : s'[y].partner = s[y].partner /\ s'[y].verdict = s[y].verdict
    BY <1>2, <1>3
  <1>6. ASSUME NEW h \in Hosts
        PROVE  HostInv(h)'
    <2>1. h \in Session /\ HostInv(h)
      BY DEF AdmissionInv, Session
    <2>2. Mute(h) => Mute(h)'
      BY <1>2, <1>3, <1>5, <2>1 DEF Mute, Silent, Session
    <2>3. CASE h # x
      <3>1. s'[h] = s[h] /\ hs'[h] = hs[h]
        BY <1>1, <1>3, <2>1, <2>3
      <3> QED BY <2>1, <2>2, <3>1 DEF HostInv
    <2>4. CASE h = x
      <3>1. s'[h] = q /\ hs'[h] = hs[h]
        BY <1>1, <1>3, <2>1, <2>4
      <3>2. r.partner = None /\ r.verdict = "none"
        BY <1>1, <2>1, <2>4 DEF HostInv, Early
      <3> QED BY <1>2, <2>1, <2>2, <2>4, <3>1, <3>2 DEF HostInv, Phases
    <2> QED BY <2>3, <2>4
  <1>7. Told' /\ Spending' /\ SpentOnce'
    <2>1. Told'
      BY <1>1, <1>5 DEF AdmissionInv, Told, Allowed, Session
    <2>2. ASSUME spent' = spent PROVE Spending' /\ SpentOnce'
      BY <1>5, <2>2, MemoryKeeps DEF Session
    <2>3. ASSUME x \in Hosts, spent' = [spent EXCEPT !.holders = @ \cup {x}]
          PROVE  Spending' /\ SpentOnce'
      <3>1. /\ spent \in [partners : SUBSET Viewers, holders : SUBSET Hosts]
            /\ s[x].partner = None
        BY <1>1, <2>3 DEF AdmissionInv, Spending, HostInv, Early
      <3>2. /\ spent' \in [partners : SUBSET Viewers, holders : SUBSET Hosts]
            /\ spent'.partners = spent.partners /\ spent'.holders = spent.holders \cup {x}
        BY <2>3, <3>1
      <3>3. \A h \in spent'.holders : s'[h].partner = s[h].partner
        BY <1>5, <3>2 DEF Session
      <3>4. Spending'
        BY <3>1, <3>2, <3>3 DEF AdmissionInv, Spending
      <3>5. SpentOnce'
        BY <3>1, <3>2, <3>3 DEF AdmissionInv, SpentOnce
      <3> QED BY <3>4, <3>5
    <2> QED BY <2>1, <2>2, <2>3 DEF Start, IsHost
  <1>8. Admission!Begin(x)
    <2>1. stage[x] = "idle" /\ stage' = [stage EXCEPT ![x] = "trying"]
      <3>1. stage[x] = "idle"
        BY <1>1 DEF stage
      <3>2. stage'[x] = "trying"
        BY <1>2, <1>3 DEF stage
      <3> QED BY <1>3, <3>1, <3>2, OneStageMoves
    <2>2. x \in Hosts => \A h \in Hosts : stage[h] \in {"idle", "over"}
      BY DEF Start, IsHost, stage, Session
    <2>3. admitted' = admitted
      BY <1>5 DEF admitted, Session
    <2> QED BY <2>1, <2>2, <2>3 DEF Admission!Begin
  <1>9. Promised
    BY <1>8 DEF Promised, Admission!Next, Admission!Session, Session
  <1> QED BY <1>4, <1>6, <1>7, <1>9 DEF AdmissionInv

\* What x holds once it has locked y.
Meeting(x, y, r, q) ==
    /\ IsState(q)
    /\ q.partner = y /\ q.verdict = r.verdict /\ q.phase = r.phase /\ q.shut = r.shut
    /\ q.peer # "none"
    /\ (q.ice => r.ice) /\ (q.ctl = "open" => r.ctl = "open")
    /\ x \in Hosts /\ r.phase \in {"live", "over", "gone"}
         => q.toAll = r.toAll /\ q.toPartner = r.toPartner

LEMMA LockingMeets ==
    ASSUME AdmissionInv, NEW x \in Session, NEW y, NEW part, LockPartner(x, y, part)
    PROVE  \E q : Meeting(x, y, s[x], q) /\ s' = [s EXCEPT ![x] = q]
  <1> DEFINE r == s[x]
             b == [r EXCEPT !.partner = y]
             p == IF b.peer = "none" THEN CreatePeer(b) ELSE b
             a == ResendAll(x, p)
             q == TakeEntries(a, y, part)
  <1>1. IsState(r)
    BY DEF AdmissionInv, Shapes
  <1>2. /\ IsState(p) /\ p.partner = y /\ p.verdict = r.verdict /\ p.phase = r.phase
        /\ p.shut = r.shut /\ p.peer # "none" /\ p.ice = r.ice /\ p.ctl = r.ctl
        /\ p.toAll = r.toAll /\ p.toPartner = r.toPartner
    BY <1>1, FieldNames DEF IsState, CreatePeer
  <1>3. s' = [s EXCEPT ![x] = q]
    BY DEF LockPartner
  <1> HIDE DEF p
  <1>4. Quiet(x, p, a) /\ NoFurther(p, a) /\ a.shut = p.shut /\ a.phase = p.phase
    BY <1>2, ResendIsQuiet
  <1> HIDE DEF a
  <1>5. Quiet(x, a, q) /\ q.ice = a.ice /\ q.ctl = a.ctl /\ q.shut = a.shut /\ q.phase = a.phase
    BY <1>4, EntriesAreQuiet DEF Quiet, Plain
  <1> HIDE DEF q
  <1>6. Meeting(x, y, r, q)
    BY <1>2, <1>4, <1>5 DEF Quiet, Plain, NoFurther, Meeting
  <1> QED BY <1>3, <1>6

LEMMA MeetKeeps ==
    ASSUME AdmissionInv, NEW x \in Session, NEW y \in Session, NEW part,
           LockPartner(x, y, part),
           Audible(x, y) # {}, s[x].phase \in {"running", "live", "over"}, ~s[x].shut,
           UNCHANGED <<access, hs, inbox>>
    PROVE  AdmissionInv' /\ Promised
  <1> DEFINE r == s[x]
  <1>1. PICK q : Meeting(x, y, r, q) /\ s' = [s EXCEPT ![x] = q]
    BY LockingMeets
  <1>2. \A z \in Session : s'[z] = IF z = x THEN q ELSE s[z]
    BY <1>1 DEF AdmissionInv, Shapes
  <1>3. Shapes'
    <2>1. s' = [z \in Session |-> s'[z]] /\ \A z \in Session : IsState(s'[z])
      BY <1>1, <1>2 DEF AdmissionInv, Shapes, Meeting
    <2> QED BY <2>1 DEF AdmissionInv, Shapes
  <1>4. /\ x \in Hosts => y \in Viewers
        /\ x \in Viewers => y \in Hosts
        /\ y # None /\ r.partner = None
        /\ ~IsSpent(x, y)
        /\ spent' = IF x \in spent.holders THEN [spent EXCEPT !.partners = @ \cup {y}] ELSE spent
    BY ConnectionAssumption DEF Audible, IsHost, LockPartner, Session
  <1>5. x \in Hosts => r.verdict = "none" /\ Silent(r)
    BY <1>4 DEF AdmissionInv, HostInv, Mute
  <1>6. y \in Hosts => ~Silent(s[y])
    BY DEF Audible, Silent
  <1>7. ASSUME NEW h \in Hosts, Mute(h), h = x => r.phase \in {"live", "over", "gone"}
        PROVE  Mute(h)'
    <2>1. h \in Session /\ \A v \in Viewers : v \in Session
      BY DEF Session
    <2>2. Silent(s'[h])
      BY <1>1, <1>2, <1>7, <2>1 DEF Mute, Silent, Meeting
    <2>3. ASSUME NEW v \in Viewers
          PROVE  s'[v].partner # h
      <3>1. CASE v = x
        BY <1>1, <1>2, <1>4, <1>6, <1>7, <2>1, <3>1 DEF Mute, Meeting
      <3>2. CASE v # x
        BY <1>2, <1>7, <2>1, <3>2 DEF Mute
      <3> QED BY <3>1, <3>2
    <2> QED BY <2>2, <2>3 DEF Mute
  <1>8. ASSUME NEW h \in Hosts
        PROVE  HostInv(h)'
    <2>1. h \in Session /\ HostInv(h)
      BY DEF AdmissionInv, Session
    <2>2. CASE h # x
      <3>1. s'[h] = s[h] /\ hs'[h] = hs[h]
        BY <1>2, <2>1, <2>2
      <3> QED BY <1>7, <2>1, <2>2, <3>1 DEF HostInv
    <2>3. CASE h = x
      <3>1. s'[h] = q /\ hs'[h] = hs[h]
        BY <1>2, <2>1, <2>3
      <3>2. /\ q.partner = y /\ q.partner \in Viewers /\ q.verdict = "none" /\ q.peer # "none"
            /\ q.phase = r.phase /\ q.shut = r.shut
        BY <1>1, <1>4, <1>5, <2>3 DEF Meeting
      <3>3. Mute(h)
        BY <1>4, <2>1, <2>3 DEF HostInv
      <3>4. r.phase # "live"
        BY <1>5, <2>1, <2>3 DEF HostInv
      <3> QED BY <1>4, <1>7, <2>1, <2>3, <3>1, <3>2, <3>3, <3>4 DEF HostInv, Early
    <2> QED BY <2>2, <2>3
  <1>9. \A h \in Hosts : s[h].verdict = "yes" => h # x /\ s'[h] = s[h]
    BY <1>2, <1>5 DEF Session
  <1>10. \A h \in Hosts : s'[h].verdict = "yes" => s[h].verdict = "yes"
    BY <1>1, <1>2 DEF Session, Meeting
  <1>11. Told'
    BY <1>9 DEF AdmissionInv, Told, Allowed
  <1>12. Spending' /\ SpentOnce'
    <2>1. spent \in [partners : SUBSET Viewers, holders : SUBSET Hosts]
      BY DEF AdmissionInv, Spending
    <2>2. \A h \in Hosts : s'[h].partner = IF h = x THEN y ELSE s[h].partner
      BY <1>1, <1>2 DEF Session, Meeting
    <2>3. CASE x \in spent.holders
      <3>1. x \in Hosts /\ y \in Viewers /\ y \notin spent.partners
        BY <1>4, <2>1, <2>3 DEF IsSpent
      <3>2. /\ spent' \in [partners : SUBSET Viewers, holders : SUBSET Hosts]
            /\ spent'.partners = spent.partners \cup {y} /\ spent'.holders = spent.holders
        BY <1>4, <2>1, <2>3, <3>1
      <3>3. \A h \in spent.holders : s'[h].partner = IF h = x THEN y ELSE s[h].partner
        BY <2>1, <2>2
      <3>4. Spending'
        BY <3>2, <3>3 DEF AdmissionInv, Spending
      <3>5. SpentOnce'
        BY <3>1, <3>2, <3>3 DEF AdmissionInv, Spending, SpentOnce
      <3> QED BY <3>4, <3>5
    <2>4. CASE x \notin spent.holders
      <3>1. \A h \in spent.holders : s'[h].partner = s[h].partner
        BY <2>1, <2>2, <2>4
      <3>2. spent' = spent
        BY <1>4, <2>4
      <3> QED BY <3>1, <3>2 DEF AdmissionInv, Spending, SpentOnce
    <2> QED BY <2>3, <2>4
  <1>13. Promised
    <2>1. stage' = stage
      BY <1>1, <1>2 DEF stage, Meeting
    <2>2. \A p \in Hosts \X Viewers :
             (s'[p[1]].verdict = "yes" /\ s'[p[1]].partner = p[2])
               <=> (s[p[1]].verdict = "yes" /\ s[p[1]].partner = p[2])
      BY <1>9, <1>10
    <2>3. admitted' = admitted
      BY <2>2 DEF admitted
    <2> QED BY <2>1, <2>3 DEF Promised
  <1> QED BY <1>3, <1>8, <1>11, <1>12, <1>13 DEF AdmissionInv

LEMMA ReceiveKeeps ==
    ASSUME AdmissionInv, NEW x \in Session, Receive(x)
    PROVE  AdmissionInv' /\ Promised
  <1>1. PICK y \in Session : \E hi \in Audible(x, y) : \E lo \in 0 .. hi :
          LockPartner(x, y, lo .. hi - 1) \/ HearPartner(x, y, lo .. hi - 1) \/ GiveWay(x, y)
    BY DEF Receive
  <1>2. PICK part : LockPartner(x, y, part) \/ HearPartner(x, y, part) \/ GiveWay(x, y)
    BY <1>1
  <1>3. /\ s[x].phase \in {"running", "live", "over"} /\ ~s[x].shut
        /\ UNCHANGED <<access, hs, inbox>> /\ IsState(s[x])
    BY DEF Receive, AdmissionInv, Shapes
  <1>4. CASE LockPartner(x, y, part)
    <2>1. Audible(x, y) # {}
      BY <1>1
    <2> QED BY <1>3, <1>4, <2>1, MeetKeeps
  <1>5. CASE HearPartner(x, y, part)
    <2> DEFINE q == TakeEntries(s[x], y, part)
    <2>1. Quiet(x, s[x], q) /\ q.ice = s[x].ice /\ q.ctl = s[x].ctl
      BY <1>3, EntriesAreQuiet
    <2>2. s' = [s EXCEPT ![x] = q] /\ s[x].partner # None /\ UNCHANGED spent
      BY <1>5, ConnectionAssumption DEF HearPartner
    <2> HIDE DEF q
    <2>3. x \in Hosts /\ Mute(x) => ~q.ice /\ q.ctl # "open"
      BY <2>1 DEF Mute, Silent
    <2>4. HandshakesKept /\ NoNews
      BY <1>3, SameHandshakes, SameInbox
    <2>5. Plain(x, s[x], q) /\ q.verdict = s[x].verdict
      BY <2>1 DEF Quiet
    <2> QED BY <1>3, <2>2, <2>3, <2>4, <2>5, StepKeeps
  <1>6. CASE GiveWay(x, y)
    BY <1>3, <1>6, EndsIsQuiet, OneStateKeeps DEF GiveWay, Ends
  <1> QED BY <1>2, <1>4, <1>5, <1>6

-----------------------------------------------------------------------------
(* Handshake messages keep the shape of the handshake. *)

LEMMA HsNames ==
    HsFields = {"initiator", "s", "e", "re", "rs", "sym", "step", "done"}
  BY DEF HsFields, HandshakeState

LEMMA HandshakesHaveShape ==
    ASSUME NEW k, IsHs(k), NEW e, NEW msg
    PROVE  /\ IsHs(WriteFirst(k, e).hs) /\ IsHs(WriteSecond(k, e).hs) /\ IsHs(WriteThird(k).hs)
           /\ IsHs(ReadFirst(k, msg).hs) /\ IsHs(ReadSecond(k, msg).hs)
           /\ IsHs(ReadThird(k, msg).hs) /\ ReadThird(k, msg).hs.step = 3
  <1>1. IsHs(WriteFirst(k, e).hs)
    BY HsNames DEF IsHs, WriteFirst
  <1>2. IsHs(WriteSecond(k, e).hs)
    BY HsNames DEF IsHs, WriteSecond
  <1>3. IsHs(WriteThird(k).hs)
    BY HsNames DEF IsHs, WriteThird
  <1>4. IsHs(ReadFirst(k, msg).hs)
    BY HsNames DEF IsHs, ReadFirst
  <1>5. IsHs(ReadSecond(k, msg).hs)
    BY HsNames DEF IsHs, ReadSecond
  <1>6. IsHs(ReadThird(k, msg).hs) /\ ReadThird(k, msg).hs.step = 3
    BY HsNames DEF IsHs, ReadThird
  <1> QED BY <1>1, <1>2, <1>3, <1>4, <1>5, <1>6

LEMMA HandshakeStep ==
    ASSUME AdmissionInv, NEW x \in Session, NEW k, IsHs(k), hs' = [hs EXCEPT ![x] = k],
           x \in Hosts => s[x].verdict = "none"
    PROVE  HandshakesKept /\ hs'[x] = k
  BY DEF AdmissionInv, Shapes, HandshakesKept, Session

-----------------------------------------------------------------------------
(* Steps of every attempt. *)

LEMMA OpenedIsQuiet ==
    ASSUME AdmissionInv, NEW x \in Session, Opened(x)
    PROVE  /\ s[x].phase = "opening" /\ UNCHANGED <<access, inbox, spent>>
           /\ \/ QuietStep(x) /\ UNCHANGED hs
              \/ \E q : /\ Quiet(x, s[x], q) /\ NoFurther(s[x], q) /\ s' = [s EXCEPT ![x] = q]
                       /\ hs' = [hs EXCEPT ![x] = HandshakeState(~IsHost(x), Static(x), Prologue)]
  <1> DEFINE r == s[x]
  <1>1. IsState(r) /\ r.phase = "opening" /\ UNCHANGED <<access, inbox, spent>>
    BY DEF Opened, AdmissionInv, Shapes
  <1>2. CASE r.stop
    <2> DEFINE q == [r EXCEPT !.phase = "gone"]
    <2>1. s' = [s EXCEPT ![x] = q] /\ UNCHANGED hs
      BY <1>2 DEF Opened
    <2>2. Quiet(x, r, q) /\ NoFurther(r, q) /\ q.phase = "gone"
      BY <1>1, FieldNames DEF IsState, Quiet, Plain, Ending, NoFurther
    <2> HIDE DEF q
    <2> QED BY <1>1, <2>1, <2>2 DEF QuietStep
  <1>3. CASE ~r.stop
    <2> DEFINE b == [r EXCEPT !.phase = "running"]
               p == CreatePeer(b)
               q == IF IsHost(x) THEN b ELSE ResendAll(x, p)
    <2>1. s' = [s EXCEPT ![x] = q]
      BY <1>3 DEF Opened
    <2>2. hs' = [hs EXCEPT ![x] = HandshakeState(~IsHost(x), Static(x), Prologue)]
      BY <1>3 DEF Opened
    <2>3. Quiet(x, r, b) /\ NoFurther(r, b) /\ b.phase = "running"
      BY <1>1, FieldNames DEF IsState, Quiet, Plain, Ending, NoFurther
    <2>4. x \notin Hosts => Quiet(x, r, p) /\ NoFurther(r, p) /\ p.phase = "running"
      BY <1>1, FieldNames DEF IsState, Quiet, Plain, Ending, NoFurther, CreatePeer
    <2>5. Quiet(x, r, q) /\ NoFurther(r, q)
      <3>1. CASE IsHost(x)
        BY <2>3, <3>1
      <3>2. CASE ~IsHost(x)
        <4> DEFINE a == ResendAll(x, p)
        <4>1. Quiet(x, p, a) /\ NoFurther(p, a) /\ a.phase = p.phase /\ x \notin Hosts
          BY <2>4, <3>2, ResendIsQuiet DEF Quiet, Plain, IsHost
        <4>2. Quiet(x, r, a) /\ NoFurther(r, a)
          BY <1>1, <2>4, <4>1 DEF Quiet, Plain, NoFurther, Ending
        <4> QED BY <3>2, <4>2
      <3> QED BY <3>1, <3>2
    <2> HIDE DEF q
    <2> QED BY <1>1, <2>1, <2>2, <2>5
  <1> QED BY <1>2, <1>3

LEMMA OpenedKeeps ==
    ASSUME AdmissionInv, NEW x \in Session, Opened(x)
    PROVE  AdmissionInv' /\ Promised
  <1> DEFINE k == HandshakeState(~IsHost(x), Static(x), Prologue)
  <1>1. s[x].phase = "opening" /\ UNCHANGED <<access, inbox, spent>>
    BY OpenedIsQuiet
  <1>2. CASE QuietStep(x) /\ UNCHANGED hs
    BY <1>1, <1>2, OneStateKeeps
  <1>3. CASE \E q : /\ Quiet(x, s[x], q) /\ NoFurther(s[x], q) /\ s' = [s EXCEPT ![x] = q]
                    /\ hs' = [hs EXCEPT ![x] = k]
    <2>1. x \in Hosts => s[x].verdict = "none"
      BY <1>1 DEF AdmissionInv, HostInv, Early
    <2>2. IsHs(k)
      BY HsNames DEF IsHs, HandshakeState
    <2> HIDE DEF k
    <2>3. HandshakesKept /\ NoNews
      BY <1>1, <1>3, <2>1, <2>2, HandshakeStep, SameInbox
    <2> QED BY <1>1, <1>3, <2>3, QuietKeeps
  <1> QED BY <1>2, <1>3, OpenedIsQuiet

LEMMA LifeIsQuiet ==
    ASSUME AdmissionInv, NEW x \in Session,
           RelaysReady(x) \/ OpenFailed(x) \/ Stop(x) \/ ChannelsClosed(x)
    PROVE  QuietStep(x) /\ UNCHANGED <<access, hs, inbox, spent>>
  <1> DEFINE r == s[x]
  <1>1. IsState(r)
    BY DEF AdmissionInv, Shapes
  <1>2. CASE RelaysReady(x)
    <2> DEFINE q == [r EXCEPT !.phase = IF r.stop THEN "gone" ELSE "opening"]
    <2>1. s' = [s EXCEPT ![x] = q] /\ UNCHANGED <<access, hs, inbox, spent>>
      BY <1>2 DEF RelaysReady
    <2>2. Quiet(x, r, q) /\ NoFurther(r, q) /\ (q.phase = "running" => r.phase = "running")
      BY <1>1, <1>2, FieldNames DEF RelaysReady, IsState, Quiet, Plain, Ending, NoFurther
    <2> HIDE DEF q
    <2> QED BY <2>1, <2>2 DEF QuietStep
  <1>3. CASE OpenFailed(x)
    <2> DEFINE q == [r EXCEPT !.phase = "gone"]
    <2>1. s' = [s EXCEPT ![x] = q] /\ UNCHANGED <<access, hs, inbox, spent>>
      BY <1>3 DEF OpenFailed
    <2>2. Quiet(x, r, q) /\ NoFurther(r, q) /\ (q.phase = "running" => r.phase = "running")
      BY <1>1, <1>3, FieldNames DEF OpenFailed, IsState, Quiet, Plain, Ending, NoFurther
    <2> HIDE DEF q
    <2> QED BY <2>1, <2>2 DEF QuietStep
  <1>4. CASE Ends(x)
    BY <1>4, EndsIsQuiet
  <1>5. CASE s' = [s EXCEPT ![x].stop = TRUE] /\ UNCHANGED <<access, hs, inbox, spent>>
    <2> DEFINE q == [r EXCEPT !.stop = TRUE]
    <2>1. s' = [s EXCEPT ![x] = q] /\ UNCHANGED <<access, hs, inbox, spent>>
      BY <1>5
    <2>2. Quiet(x, r, q) /\ NoFurther(r, q) /\ (q.phase = "running" => r.phase = "running")
      BY <1>1, FieldNames DEF IsState, Quiet, Plain, Ending, NoFurther
    <2> HIDE DEF q
    <2> QED BY <2>1, <2>2 DEF QuietStep
  <1>6. CASE ChannelsClosed(x)
    <2> DEFINE q == [r EXCEPT !.phase = "gone"]
    <2>1. s' = [s EXCEPT ![x] = q] /\ UNCHANGED <<access, hs, inbox, spent>>
      BY <1>6 DEF ChannelsClosed
    <2>2. Quiet(x, r, q) /\ NoFurther(r, q) /\ (q.phase = "running" => r.phase = "running")
      BY <1>1, <1>6, FieldNames DEF ChannelsClosed, IsState, Quiet, Plain, Ending, NoFurther
    <2> HIDE DEF q
    <2> QED BY <2>1, <2>2 DEF QuietStep
  <1> QED BY <1>2, <1>3, <1>4, <1>5, <1>6 DEF Stop

LEMMA CrashIsQuiet ==
    ASSUME AdmissionInv, NEW x \in Session, Crash(x)
    PROVE  QuietStep(x) /\ UNCHANGED <<access, hs, inbox>> /\ spent' \in {spent, NoMemory}
  <1> DEFINE r == s[x]
             a == ClosePeer(r)
             q == [a EXCEPT !.phase = "gone"]
  <1>1. IsState(r)
    BY DEF AdmissionInv, Shapes
  <1>2. /\ s' = [s EXCEPT ![x] = q] /\ r.phase # "unused" /\ UNCHANGED <<access, hs, inbox>>
        /\ spent' \in {spent, NoMemory}
    BY DEF Crash, Deaf
  <1>3. Quiet(x, r, a) /\ NoFurther(r, a) /\ (a.shut \/ r.peer = "none") /\ a.phase = r.phase
    BY <1>1, CloseIsQuiet
  <1> HIDE DEF a
  <1>4. Quiet(x, r, q) /\ NoFurther(r, q) /\ q.phase = "gone"
    BY <1>2, <1>3, FieldNames DEF IsState, Quiet, Plain, Ending, NoFurther
  <1> HIDE DEF q
  <1> QED BY <1>2, <1>4 DEF QuietStep

LEMMA ForgetKeeps ==
    ASSUME AdmissionInv, Forget
    PROVE  AdmissionInv' /\ Promised
  <1>1. s' = s /\ hs' = hs /\ inbox' = inbox /\ spent' = NoMemory
    BY DEF Forget
  <1>2. Shapes' /\ Told'
    BY <1>1 DEF AdmissionInv, Shapes, Told, Allowed
  <1>3. \A h \in Hosts : HostInv(h)'
    BY <1>1 DEF AdmissionInv, HostInv, Mute
  <1>4. Spending' /\ SpentOnce'
    BY <1>1, MemoryKeeps
  <1>5. stage' = stage /\ admitted' = admitted
    BY <1>1 DEF stage, admitted
  <1> QED BY <1>2, <1>3, <1>4, <1>5 DEF AdmissionInv, Promised

LEMMA SignallingIsQuiet ==
    ASSUME AdmissionInv, NEW x \in Session,
           \/ \E kind \in Kinds : Signal(x, kind)
           \/ Speak(x) \/ ChannelFailed(x) \/ IceFailed(x) \/ IceClosed(x)
           \/ CtlClosed(x) \/ HandshakeTimeout(x)
    PROVE  QuietStep(x) /\ UNCHANGED <<access, hs, inbox, spent>>
  <1> DEFINE r == s[x]
  <1>1. IsState(r)
    BY DEF AdmissionInv, Shapes
  <1>2. ASSUME NEW kind \in Kinds, Signal(x, kind)
        PROVE  QuietStep(x) /\ UNCHANGED <<access, hs, inbox, spent>>
    <2> DEFINE q == [r EXCEPT !.log = Append(@, kind)]
    <2>1. s' = [s EXCEPT ![x] = q] /\ UNCHANGED <<access, hs, inbox, spent>>
      BY <1>2 DEF Signal
    <2>2. Quiet(x, r, q) /\ NoFurther(r, q) /\ (q.phase = "running" => r.phase = "running")
      BY <1>1, FieldNames DEF IsState, Quiet, Plain, Ending, NoFurther
    <2> HIDE DEF q
    <2> QED BY <2>1, <2>2 DEF QuietStep
  <1>3. CASE Speak(x)
    <2>1. s' = [s EXCEPT ![x] = ResendAll(x, r)] /\ UNCHANGED <<access, hs, inbox, spent>>
      BY <1>3 DEF Speak
    <2>2. Quiet(x, r, ResendAll(x, r)) /\ NoFurther(r, ResendAll(x, r)) /\ ResendAll(x, r).phase = r.phase
      BY <1>1, ResendIsQuiet
    <2> QED BY <2>1, <2>2 DEF QuietStep
  <1>4. CASE IceClosed(x)
    <2>1. s' = [s EXCEPT ![x] = SetPeerState(r, "closed")] /\ UNCHANGED <<access, hs, inbox, spent>>
      BY <1>4 DEF IceClosed
    <2>2. "closed" \in PeerStates \ {"none"}
      BY DEF PeerStates
    <2> QED BY <1>1, <2>1, <2>2, StateChangeIsQuiet DEF QuietStep
  <1>5. CASE Ends(x)
    BY <1>5, EndsIsQuiet
  <1> QED BY <1>2, <1>3, <1>4, <1>5 DEF ChannelFailed, IceFailed, CtlClosed, HandshakeTimeout

\* Whoever connects has a partner that has heard of it.
LEMMA ConnectedIsHeard ==
    ASSUME AdmissionInv, NEW h \in Hosts, s[h].described \/ s[h].ice, Connected(h, s[h].partner)
    PROVE  ~Mute(h)
  <1>1. HostInv(h)
    BY DEF AdmissionInv
  <1>2. CASE s[h].partner = None
    BY <1>1, <1>2 DEF HostInv, Mute, Silent
  <1>3. CASE s[h].partner \in Viewers
    BY <1>3 DEF Connected, Mute
  <1> QED BY <1>1, <1>2, <1>3 DEF HostInv

LEMMA IceConnectedKeeps ==
    ASSUME AdmissionInv, NEW x \in Session, IceConnected(x)
    PROVE  AdmissionInv' /\ Promised
  <1> DEFINE r == s[x]
             a == ResendAll(x, r)
             q == [a EXCEPT !.ice = TRUE]
  <1>1. IsState(r)
    BY DEF AdmissionInv, Shapes
  <1>2. Quiet(x, r, a) /\ NoFurther(r, a) /\ a.phase = r.phase
    BY <1>1, ResendIsQuiet
  <1>3. s' = [s EXCEPT ![x] = q] /\ UNCHANGED <<access, hs, inbox, spent>>
    BY DEF IceConnected
  <1> HIDE DEF a
  <1>4. Plain(x, r, q) /\ q.verdict = r.verdict /\ (q.described => r.described)
    BY <1>2, FieldNames DEF IsState, Quiet, Plain, Ending, NoFurther
  <1> HIDE DEF q
  <1>5. x \in Hosts => ~Mute(x)
    BY ConnectedIsHeard DEF IceConnected
  <1>6. x \in Hosts /\ r.partner = None => ~q.described
    BY <1>4 DEF AdmissionInv, HostInv
  <1> QED BY <1>3, <1>4, <1>5, <1>6, SameInbox, SameHandshakes, StepKeeps

LEMMA CtlOpenKeeps ==
    ASSUME AdmissionInv, NEW x \in Session, CtlOpen(x)
    PROVE  AdmissionInv' /\ Promised
  <1> DEFINE r == s[x]
             a == SetPeerState(r, "handshaking")
             q == [a EXCEPT !.ctl = "open"]
             w == WriteFirst(hs[x], Ephemeral(x))
  <1>1. IsState(r) /\ IsHs(hs[x])
    BY DEF AdmissionInv, Shapes
  <1>2. Quiet(x, r, a) /\ NoFurther(r, a) /\ a.phase = r.phase
    BY <1>1, StateChangeIsQuiet DEF PeerStates
  <1>3. s' = [s EXCEPT ![x] = q] /\ UNCHANGED <<access, spent>>
    BY DEF CtlOpen
  <1> HIDE DEF a
  <1>4. Plain(x, r, q) /\ q.verdict = r.verdict /\ (q.described => r.described)
    BY <1>2, FieldNames DEF IsState, Quiet, Plain, Ending, NoFurther
  <1> HIDE DEF q
  <1>5. x \in Hosts => ~Mute(x)
    BY ConnectedIsHeard DEF CtlOpen
  <1>6. x \in Hosts /\ r.partner = None => ~q.described
    BY <1>4 DEF AdmissionInv, HostInv
  <1>7. HandshakesKept /\ NoNews
    <2>1. CASE IsHost(x)
      BY <2>1, SameInbox, SameHandshakes DEF CtlOpen
    <2>2. CASE ~IsHost(x)
      <3>1. hs' = [hs EXCEPT ![x] = w.hs] /\ inbox' = Deliver(r.partner, Noise(w.msg))
        BY <2>2 DEF CtlOpen
      <3>2. IsHs(w.hs) /\ x \notin Hosts
        BY <1>1, <2>2, HandshakesHaveShape DEF IsHost
      <3>3. ~Yes(Noise(w.msg))
        BY DEF Yes, Noise
      <3> HIDE DEF w
      <3>4. HandshakesKept
        BY <3>1, <3>2, HandshakeStep
      <3>5. NewsFor({})
        BY <3>1, <3>3, Delivered
      <3> QED BY <3>4, <3>5 DEF NoNews
    <2> QED BY <2>1, <2>2
  <1> QED BY <1>3, <1>4, <1>5, <1>6, <1>7, StepKeeps

-----------------------------------------------------------------------------
(* Handshake, consent, and the verdict. *)

LEMMA UnreadableKeeps ==
    ASSUME AdmissionInv, NEW x \in Session, inbox[x] # <<>>, Unreadable(x),
           UNCHANGED <<access, spent>>
    PROVE  AdmissionInv' /\ Promised
  <1>1. IsState(s[x])
    BY DEF AdmissionInv, Shapes
  <1>2. s' = [s EXCEPT ![x] = Finish(x, s[x])] /\ NoNews /\ HandshakesKept
    BY Taken, SameHandshakes DEF Unreadable
  <1> QED BY <1>1, <1>2, FinishIsQuiet, QuietKeeps

\* An attempt whose control channel is open has a partner and is running.
LEMMA HostSpeaking ==
    ASSUME AdmissionInv, NEW h \in Hosts, s[h].ctl = "open", ~s[h].shut
    PROVE  s[h].partner \in Viewers /\ s[h].partner # None /\ s[h].phase \in {"running", "live"}
  <1>1. HostInv(h)
    BY DEF AdmissionInv
  <1>2. s[h].partner # None
    BY <1>1 DEF HostInv, Mute, Silent
  <1>3. s[h].phase \notin {"over", "gone"}
    BY <1>1 DEF HostInv, Mute, Silent
  <1> QED BY <1>1, <1>2, <1>3 DEF HostInv, Phases, Early

LEMMA AnswersKeep ==
    ASSUME AdmissionInv, NEW x \in Session,
           (x \in Hosts /\ AnswerFirst(x)) \/ (x \in Viewers /\ AnswerSecond(x))
    PROVE  AdmissionInv' /\ Promised
  <1>1. IsState(s[x]) /\ IsHs(hs[x]) /\ inbox[x] # <<>> /\ UNCHANGED <<access, spent>>
    BY DEF AdmissionInv, Shapes, AnswerFirst, AnswerSecond, HeadFor
  <1>2. CASE Unreadable(x)
    BY <1>1, <1>2, UnreadableKeeps
  <1>3. CASE x \in Hosts /\ AnswerFirst(x) /\ ~Unreadable(x)
    <2> DEFINE k == ReadFirst(hs[x], Head(inbox[x]).msg).hs
               w == WriteSecond(k, Ephemeral(x))
    <2>1. /\ hs' = [hs EXCEPT ![x] = w.hs]
          /\ inbox' = Reply(x, s[x].partner, Noise(w.msg))
          /\ UNCHANGED s
      BY <1>3 DEF AnswerFirst
    <2>2. IsHs(w.hs)
      BY <1>1, HandshakesHaveShape
    <2>3. ~Yes(Noise(w.msg))
      BY DEF Yes, Noise
    <2> HIDE DEF w
    <2>4. s[x].verdict = "none"
      BY <1>3 DEF AnswerFirst, AdmissionInv, HostInv
    <2>5. HandshakesKept /\ NoNews
      BY <1>1, <2>1, <2>2, <2>3, <2>4, HandshakeStep, Replied
    <2>6. s' = [s EXCEPT ![x] = s[x]]
      BY <2>1 DEF AdmissionInv, Shapes
    <2>7. Quiet(x, s[x], s[x]) /\ NoFurther(s[x], s[x])
      BY <1>1 DEF Quiet, Plain, Ending, NoFurther
    <2> QED BY <1>1, <2>5, <2>6, <2>7, QuietKeeps
  <1>4. CASE x \in Viewers /\ AnswerSecond(x) /\ ~Unreadable(x)
    <2> DEFINE k == ReadSecond(hs[x], Head(inbox[x]).msg).hs
               w == WriteThird(k)
               q == SetPeerState(s[x], "awaiting")
    <2>1. /\ hs' = [hs EXCEPT ![x] = w.hs]
          /\ inbox' = Reply(x, s[x].partner, Noise(w.msg))
          /\ s' = [s EXCEPT ![x] = q]
      BY <1>4 DEF AnswerSecond
    <2>2. IsHs(w.hs)
      BY <1>1, HandshakesHaveShape
    <2>3. ~Yes(Noise(w.msg))
      BY DEF Yes, Noise
    <2> HIDE DEF w
    <2>4. x \notin Hosts
      BY <1>4, ConnectionAssumption
    <2>5. HandshakesKept /\ NoNews
      BY <1>1, <2>1, <2>2, <2>3, <2>4, HandshakeStep, Replied
    <2>6. Quiet(x, s[x], q) /\ NoFurther(s[x], q)
      BY <1>1, StateChangeIsQuiet DEF PeerStates
    <2> QED BY <1>1, <2>1, <2>5, <2>6, QuietKeeps
  <1> QED BY <1>2, <1>3, <1>4

LEMMA AskOwnerKeeps ==
    ASSUME AdmissionInv, NEW h \in Hosts, AskOwner(h)
    PROVE  AdmissionInv' /\ Promised
  <1> DEFINE r == s[h]
             k == ReadThird(hs[h], Head(inbox[h]).msg).hs
             a == SetPeerState(r, "awaiting")
             q == [a EXCEPT !.verdict = "asked"]
  <1>1. /\ h \in Session /\ IsState(r) /\ IsHs(hs[h])
        /\ inbox[h] # <<>> /\ UNCHANGED <<access, spent>>
    BY DEF AdmissionInv, Shapes, AskOwner, HeadFor, Session
  <1>2. CASE Unreadable(h)
    BY <1>1, <1>2, UnreadableKeeps
  <1>3. CASE ~Unreadable(h)
    <2>1. hs' = [hs EXCEPT ![h] = k] /\ s' = [s EXCEPT ![h] = q] /\ inbox' = [inbox EXCEPT ![h] = Tail(@)]
      BY <1>3 DEF AskOwner
    <2>2. IsHs(k) /\ k.step = 3
      BY <1>1, HandshakesHaveShape
    <2>3. r.verdict = "none" /\ r.phase = "running" /\ r.partner # None
      BY HostSpeaking DEF AskOwner, HeadFor, AdmissionInv, HostInv
    <2> HIDE DEF k
    <2>4. HandshakesKept /\ hs'[h] = k /\ NoNews
      BY <1>1, <2>1, <2>2, <2>3, HandshakeStep, Taken
    <2>5. Quiet(h, r, a) /\ NoFurther(r, a) /\ a.phase = r.phase
      BY <1>1, StateChangeIsQuiet DEF PeerStates
    <2> HIDE DEF a
    <2>6. Plain(h, r, q) /\ NoFurther(r, q) /\ q.phase = r.phase /\ q.verdict = "asked"
      BY <2>5, FieldNames DEF IsState, Quiet, Plain, Ending, NoFurther
    <2> HIDE DEF q
    <2>7. Decides(h, q)
      BY <2>2, <2>3, <2>4, <2>6 DEF Decides
    <2>8. Mute(h) => ~q.ice /\ q.ctl # "open"
      BY <2>6 DEF Mute, Silent, NoFurther
    <2> QED BY <1>1, <2>1, <2>3, <2>4, <2>6, <2>7, <2>8, StepKeeps
  <1> QED BY <1>2, <1>3

LEMMA AllowKeeps ==
    ASSUME AdmissionInv, NEW h \in Hosts, Allow(h)
    PROVE  AdmissionInv' /\ Promised
  <1> DEFINE r == s[h]
  <1>1. /\ h \in Session /\ IsState(r) /\ UNCHANGED <<access, hs, spent>>
        /\ r.verdict = "asked" /\ HostInv(h)
    BY DEF AdmissionInv, Shapes, Allow, Session
  <1>2. HandshakesKept
    BY <1>1, SameHandshakes
  <1>3. CASE r.shut
    <2> DEFINE q == [r EXCEPT !.verdict = "late"]
    <2>1. s' = [s EXCEPT ![h] = q] /\ NoNews
      BY <1>3, SameInbox DEF Allow
    <2>2. Plain(h, r, q) /\ NoFurther(r, q) /\ q.verdict = "late"
      BY <1>1, FieldNames DEF IsState, Plain, Ending, NoFurther
    <2> HIDE DEF q
    <2>3. Decides(h, q) /\ r.partner # None
      BY <1>1, <2>2 DEF Decides, HostInv
    <2>4. Mute(h) => ~q.ice /\ q.ctl # "open"
      BY <2>2 DEF Mute, Silent, NoFurther
    <2> QED BY <1>1, <1>2, <2>1, <2>2, <2>3, <2>4, StepKeeps
  <1>4. CASE ~r.shut
    <2> DEFINE a == Secure(h, r)
               q == [a EXCEPT !.verdict = "yes"]
    <2>1. s' = [s EXCEPT ![h] = q] /\ inbox' = Deliver(r.partner, Consent(TRUE))
      BY <1>4 DEF Allow
    <2>2. r.phase = "running" /\ r.peer # "none"
      BY <1>1, <1>4 DEF HostInv
    <2>3. IsState(a) /\ a.phase = "live" /\ a.partner = r.partner /\ a.peer # "none"
      BY <1>1, <2>2, SecureIsLive
    <2> HIDE DEF a
    <2>4. IsState(q) /\ q.phase = "live" /\ q.partner = r.partner /\ q.peer # "none" /\ q.verdict = "yes"
      BY <2>3, FieldNames DEF IsState
    <2> HIDE DEF q
    <2>5. NewsFor({r.partner})
      BY <2>1, Delivered
    <2> QED BY <1>1, <1>2, <2>1, <2>2, <2>4, <2>5, LiveKeeps
  <1> QED BY <1>3, <1>4

LEMMA RefuseKeeps ==
    ASSUME AdmissionInv, NEW h \in Hosts, Refuse(h)
    PROVE  AdmissionInv' /\ Promised
  <1> DEFINE r == s[h]
             a == Finish(h, r)
             q == [a EXCEPT !.verdict = "no"]
  <1>1. /\ h \in Session /\ IsState(r) /\ UNCHANGED <<access, hs, spent>>
        /\ r.verdict = "asked" /\ HostInv(h)
    BY DEF AdmissionInv, Shapes, Refuse, Session
  <1>2. s' = [s EXCEPT ![h] = q]
    BY DEF Refuse
  <1>3. NoNews
    <2>1. ~Yes(Consent(FALSE))
      BY DEF Yes, Consent
    <2>2. CASE r.shut
      BY <2>2, SameInbox DEF Refuse
    <2>3. CASE ~r.shut
      <3>1. inbox' = Deliver(r.partner, Consent(FALSE))
        BY <2>3 DEF Refuse
      <3> QED BY <2>1, <3>1, Delivered DEF NoNews
    <2> QED BY <2>2, <2>3
  <1>4. Quiet(h, r, a) /\ NoFurther(r, a)
    BY <1>1, FinishIsQuiet
  <1> HIDE DEF a
  <1>5. Plain(h, r, q) /\ NoFurther(r, q) /\ q.verdict = "no"
    BY <1>4, FieldNames DEF IsState, Quiet, Plain, Ending, NoFurther
  <1> HIDE DEF q
  <1>6. Decides(h, q) /\ r.partner # None
    BY <1>1, <1>5 DEF Decides, HostInv
  <1>7. Mute(h) => ~q.ice /\ q.ctl # "open"
    BY <1>5 DEF Mute, Silent, NoFurther
  <1> QED BY <1>1, <1>2, <1>3, <1>5, <1>6, <1>7, SameHandshakes, StepKeeps

LEMMA HearVerdictKeeps ==
    ASSUME AdmissionInv, NEW v \in Viewers, HearVerdict(v)
    PROVE  AdmissionInv' /\ Promised
  <1> DEFINE r == s[v]
             m == Head(inbox[v])
  <1>1. /\ v \in Session /\ v \notin Hosts /\ IsState(r) /\ UNCHANGED <<access, hs, spent>>
        /\ inbox[v] # <<>> /\ IsQueue(inbox[v]) /\ m.t = "consent"
    BY ConnectionAssumption DEF AdmissionInv, Shapes, HearVerdict, HeadFor, Session
  <1>2. NoNews /\ HandshakesKept
    BY <1>1, Taken, SameHandshakes DEF HearVerdict
  <1>3. CASE m.ok /\ r.phase = "running"
    <2> DEFINE q == Secure(v, r)
    <2>1. s' = [s EXCEPT ![v] = q]
      BY <1>3 DEF HearVerdict
    <2>2. /\ IsState(q) /\ q.phase = "live" /\ q.partner = r.partner /\ q.verdict = r.verdict
          /\ r.peer # "none" => q.peer # "none"
      BY <1>1, <1>3, SecureIsLive
    <2>3. Allowed(v)
      <3>1. m \in Contents(inbox[v])
        BY <1>1, ShortenedQueue
      <3>2. Yes(m)
        BY <1>1, <1>3 DEF Yes
      <3> HIDE DEF m
      <3> QED BY <1>1, <3>1, <3>2 DEF AdmissionInv, Told
    <2> HIDE DEF q
    <2> QED BY <1>1, <1>2, <1>3, <2>1, <2>2, <2>3, LiveKeeps
  <1>4. CASE m.ok /\ r.phase # "running"
    <2>1. s' = [s EXCEPT ![v] = SetPeerState(r, "secure")]
      BY <1>1, <1>4, SecureIsLive DEF HearVerdict
    <2>2. "secure" \in PeerStates \ {"none"}
      BY DEF PeerStates
    <2> QED BY <1>1, <1>2, <2>1, <2>2, StateChangeIsQuiet, QuietKeeps
  <1>5. CASE ~m.ok
    <2>1. s' = [s EXCEPT ![v] = Finish(v, r)]
      BY <1>5 DEF HearVerdict
    <2> QED BY <1>1, <1>2, <2>1, FinishIsQuiet, QuietKeeps
  <1> QED BY <1>3, <1>4, <1>5

-----------------------------------------------------------------------------
(* The invariant holds, and what follows from it. *)

LEMMA AdmissionInvInit == Init => AdmissionInv /\ Admission!Init
  <1> SUFFICES ASSUME Init PROVE AdmissionInv /\ Admission!Init
    OBVIOUS
  <1>1. \A x \in Session : s[x] = Fresh /\ inbox[x] = <<>>
    BY DEF Init
  <1>2. IsState(Fresh) /\ IsHs(HandshakeState(FALSE, NoKey, NoPayload)) /\ IsQueue(<<>>) /\ Contents(<<>>) = {}
    <2>1. IsState(Fresh)
      BY DEF IsState, Fields, Fresh
    <2>2. IsHs(HandshakeState(FALSE, NoKey, NoPayload))
      BY DEF IsHs, HsFields, HandshakeState
    <2>3. IsQueue(<<>>) /\ Contents(<<>>) = {}
      BY DEF IsQueue, Contents
    <2> QED BY <2>1, <2>2, <2>3
  <1>3. Shapes
    BY <1>1, <1>2 DEF Init, Shapes
  <1>4. \A x \in Session : /\ s[x].partner = None /\ s[x].verdict = "none" /\ s[x].phase = "unused"
                           /\ Silent(s[x]) /\ ~s[x].described
    BY <1>1 DEF Fresh, Silent
  <1>5. \A h \in Hosts : HostInv(h)
    BY <1>4, ConnectionAssumption DEF HostInv, Mute, Phases, Session
  <1>6. Told /\ Spending /\ SpentOnce
    <2>1. spent = [partners |-> {}, holders |-> {}]
      BY DEF Init, NoMemory
    <2>2. Spending /\ SpentOnce
      BY <2>1 DEF Spending, SpentOnce
    <2> QED BY <1>1, <1>2, <2>2 DEF Told
  <1>7. Admission!Init
    BY <1>4 DEF Admission!Init, Admission!Session, stage, admitted, Session
  <1> QED BY <1>3, <1>5, <1>6, <1>7 DEF AdmissionInv

LEMMA AdmissionInvNext ==
    ASSUME AdmissionInv, [Next]_vars
    PROVE  AdmissionInv' /\ Promised
  <1>1. CASE UNCHANGED vars
    <2>1. stage' = stage /\ admitted' = admitted
      BY <1>1 DEF vars, stage, admitted
    <2>2. Shapes' /\ Told' /\ \A h \in Hosts : HostInv(h)'
      BY <1>1 DEF vars, AdmissionInv, Shapes, HostInv, Mute, Told, Allowed
    <2>3. Spending' /\ SpentOnce'
      BY <1>1, MemoryKeeps DEF vars
    <2> QED BY <2>1, <2>2, <2>3 DEF AdmissionInv, Promised
  <1>2. ASSUME NEW x \in Session,
               \/ Start(x) \/ RelaysReady(x) \/ Opened(x) \/ OpenFailed(x)
               \/ Stop(x) \/ ChannelsClosed(x) \/ Crash(x) \/ Callbacks(x)
        PROVE  AdmissionInv' /\ Promised
    BY <1>2, StartKeeps, OpenedKeeps, LifeIsQuiet, SignallingIsQuiet, OneStateKeeps,
       CrashIsQuiet, OneStateForgets, ReceiveKeeps, IceConnectedKeeps, CtlOpenKeeps DEF Callbacks
  <1>3. ASSUME NEW v \in Viewers, WaitTimeout(v) \/ AnswerSecond(v) \/ HearVerdict(v)
        PROVE  AdmissionInv' /\ Promised
    BY <1>3, EndsIsQuiet, OneStateKeeps, AnswersKeep, HearVerdictKeeps DEF WaitTimeout, Session
  <1>4. ASSUME NEW h \in Hosts, AnswerFirst(h) \/ AskOwner(h) \/ Allow(h) \/ Refuse(h)
        PROVE  AdmissionInv' /\ Promised
    BY <1>4, AnswersKeep, AskOwnerKeeps, AllowKeeps, RefuseKeeps DEF Session
  <1> QED BY <1>1, <1>2, <1>3, <1>4, ForgetKeeps DEF Next

LEMMA AdmissionInvHolds == Spec => []AdmissionInv
  <1>1. Init => AdmissionInv
    BY AdmissionInvInit
  <1>2. AdmissionInv /\ [Next]_vars => AdmissionInv'
    BY AdmissionInvNext
  <1> QED BY <1>1, <1>2, PTL DEF Spec

\* However signals are lost, repeated and reordered, and whichever attempts
\* end, die or are stopped: of the attempts that share a memory of spent
\* partners, one viewer session occupies one.  Nothing is promised across the
\* loss of that memory, a death of the listener or remote access switched off
\* and on.
THEOREM OccupiedOnce == Spec => []SpentOnce
  <1>1. AdmissionInv => SpentOnce
    BY DEF AdmissionInv
  <1> QED BY <1>1, AdmissionInvHolds, PTL

\* Every attempt keeps what the invitation promises: nobody goes live unasked,
\* no attempt that is over admits anyone or comes back.
THEOREM KeepsPromise == Spec => Promise
  <1>1. Init => Admission!Init
    BY AdmissionInvInit
  <1>2. AdmissionInv /\ [Next]_vars => [Admission!Next]_<<stage, admitted>>
    BY AdmissionInvNext DEF Promised
  <1> QED BY <1>1, <1>2, AdmissionInvHolds, PTL DEF Spec, Promise, Admission!Spec

-----------------------------------------------------------------------------
(* The two ends of one handshake mix the same things in the same order.     *)

\* The symmetric state after each message of a handshake with the prologue pro
\* between the keys sv, ev of the viewer and sh, eh of the host.
Mixed1(pro, ev) == AfterBox(MixHash(SymmetricState(pro), ev), NoPayload)
Agreed2(pro, ev, eh) == MixKey(MixHash(Mixed1(pro, ev), eh), Dh(ev, eh))
Named2(pro, ev, eh, sh) == MixKey(AfterBox(Agreed2(pro, ev, eh), sh), Dh(ev, sh))
Mixed2(pro, ev, eh, sh) == AfterBox(Named2(pro, ev, eh, sh), NoPayload)
Named3(pro, ev, eh, sh, sv) == MixKey(AfterBox(Mixed2(pro, ev, eh, sh), sv), Dh(sv, eh))
Mixed3(pro, ev, eh, sh, sv) == AfterBox(Named3(pro, ev, eh, sh, sv), NoPayload)

\* What an end of the handshake knows in that state.
Holds(k, initiator, static, e, re, rs, sym, step) ==
    /\ k.initiator = initiator /\ k.s = static /\ k.e = e /\ k.re = re /\ k.rs = rs
    /\ k.sym = sym /\ k.step = step

LEMMA FirstMessage ==
    ASSUME NEW pro, NEW sv, NEW sh, NEW ev, NEW eh
    PROVE  LET w == WriteFirst(HandshakeState(TRUE, sv, pro), ev)
               r == ReadFirst(HandshakeState(FALSE, sh, pro), w.msg)
           IN /\ Holds(w.hs, TRUE, sv, ev, NoKey, NoKey, Mixed1(pro, ev), 1) /\ IsHs(w.hs)
              /\ Holds(r.hs, FALSE, sh, NoKey, ev, NoKey, Mixed1(pro, ev), 1) /\ IsHs(r.hs)
              /\ w.msg.boxes[1].key = <<>>
  <1> DEFINE kv == HandshakeState(TRUE, sv, pro)
             kh == HandshakeState(FALSE, sh, pro)
             w == WriteFirst(kv, ev)
             r == ReadFirst(kh, w.msg)
             sent == MixHash(SymmetricState(pro), ev)
  <1>1. /\ IsHs(kv) /\ Holds(kv, TRUE, sv, NoKey, NoKey, NoKey, SymmetricState(pro), 0)
        /\ IsHs(kh) /\ Holds(kh, FALSE, sh, NoKey, NoKey, NoKey, SymmetricState(pro), 0)
    BY HsNames DEF IsHs, Holds, HandshakeState
  <1> HIDE DEF kv, kh
  <1>2. /\ w.hs = [kv EXCEPT !.e = ev, !.sym = AfterBox(sent, NoPayload), !.step = 1]
        /\ w.msg = [e |-> ev, boxes |-> <<Box(sent, NoPayload)>>]
    BY <1>1 DEF WriteFirst, Holds
  <1>3. w.msg.boxes[1].plain = NoPayload /\ w.msg.boxes[1].key = <<>> /\ w.msg.e = ev
    BY <1>2 DEF Box, MixHash, SymmetricState
  <1> HIDE DEF w
  <1>4. r.hs = [kh EXCEPT !.re = ev, !.sym = AfterBox(sent, NoPayload), !.step = 1]
    BY <1>1, <1>3 DEF ReadFirst, Holds
  <1> HIDE DEF r
  <1>5. AfterBox(sent, NoPayload) = Mixed1(pro, ev)
    BY DEF Mixed1
  <1> HIDE DEF sent
  <1>6. Holds(w.hs, TRUE, sv, ev, NoKey, NoKey, Mixed1(pro, ev), 1) /\ IsHs(w.hs)
    BY <1>1, <1>2, <1>5, HsNames DEF IsHs, Holds
  <1>7. Holds(r.hs, FALSE, sh, NoKey, ev, NoKey, Mixed1(pro, ev), 1) /\ IsHs(r.hs)
    BY <1>1, <1>4, <1>5, HsNames DEF IsHs, Holds
  <1> QED BY <1>3, <1>6, <1>7 DEF w, r, kv, kh

LEMMA SecondMessage ==
    ASSUME NEW pro, NEW sv, NEW sh, NEW ev, NEW eh, NEW kv, NEW kh, IsHs(kv), IsHs(kh),
           Holds(kv, TRUE, sv, ev, NoKey, NoKey, Mixed1(pro, ev), 1),
           Holds(kh, FALSE, sh, NoKey, ev, NoKey, Mixed1(pro, ev), 1)
    PROVE  LET w == WriteSecond(kh, eh)
               r == ReadSecond(kv, w.msg)
           IN /\ Holds(w.hs, FALSE, sh, eh, ev, NoKey, Mixed2(pro, ev, eh, sh), 2) /\ IsHs(w.hs)
              /\ Holds(r.hs, TRUE, sv, ev, eh, sh, Mixed2(pro, ev, eh, sh), 2) /\ IsHs(r.hs)
  <1> DEFINE w == WriteSecond(kh, eh)
             r == ReadSecond(kv, w.msg)
             agreed == Agreed2(pro, ev, eh)
             named == Named2(pro, ev, eh, sh)
  <1>1. Dh(eh, ev) = Dh(ev, eh) /\ Dh(sh, ev) = Dh(ev, sh)
    BY DEF Dh
  <1>2. /\ w.hs = [kh EXCEPT !.e = eh, !.sym = AfterBox(named, NoPayload), !.step = 2]
        /\ w.msg = [e |-> eh, boxes |-> <<Box(agreed, sh), Box(named, NoPayload)>>]
    <2> DEFINE mine == [kh EXCEPT !.e = eh]
    <2>1. mine.e = eh /\ mine.re = ev /\ kh.sym = Mixed1(pro, ev) /\ kh.s = sh /\ kh.re = ev
      BY HsNames DEF IsHs, Holds
    <2>2. MixEe(mine, MixHash(kh.sym, eh)) = agreed
      BY <1>1, <2>1 DEF MixEe, Agreed2
    <2> HIDE DEF agreed
    <2>3. MixKey(AfterBox(agreed, kh.s), Dh(kh.s, kh.re)) = named
      BY <1>1, <2>1 DEF Named2, agreed
    <2> HIDE DEF named
    <2>4. [mine EXCEPT !.sym = AfterBox(named, NoPayload), !.step = 2]
            = [kh EXCEPT !.e = eh, !.sym = AfterBox(named, NoPayload), !.step = 2]
      BY HsNames DEF IsHs
    <2> QED BY <2>1, <2>2, <2>3, <2>4 DEF WriteSecond
  <1>3. r.hs = [kv EXCEPT !.re = eh, !.rs = sh, !.sym = AfterBox(named, NoPayload), !.step = 2]
    <2> DEFINE known == [kv EXCEPT !.re = eh]
               msg == w.msg
    <2>1. known.e = ev /\ known.re = eh /\ kv.sym = Mixed1(pro, ev) /\ kv.e = ev
      BY HsNames DEF IsHs, Holds
    <2>2. MixEe(known, MixHash(kv.sym, eh)) = agreed
      BY <2>1 DEF MixEe, Agreed2
    <2>3. msg.e = eh /\ msg.boxes[1].plain = sh /\ msg.boxes[2].plain = NoPayload
      BY <1>2 DEF Box
    <2> HIDE DEF agreed, msg
    <2>4. MixKey(AfterBox(agreed, sh), Dh(kv.e, sh)) = named
      BY <2>1 DEF Named2, agreed
    <2> HIDE DEF named
    <2>5. r.hs = [known EXCEPT !.rs = sh, !.sym = AfterBox(named, NoPayload), !.step = 2]
      BY <2>2, <2>3, <2>4 DEF ReadSecond, msg
    <2> QED BY <2>5, HsNames DEF IsHs
  <1> HIDE DEF w, r
  <1>4. AfterBox(named, NoPayload) = Mixed2(pro, ev, eh, sh)
    BY DEF Mixed2
  <1> HIDE DEF named
  <1>5. Holds(w.hs, FALSE, sh, eh, ev, NoKey, Mixed2(pro, ev, eh, sh), 2) /\ IsHs(w.hs)
    BY <1>2, <1>4, HsNames DEF IsHs, Holds
  <1>6. Holds(r.hs, TRUE, sv, ev, eh, sh, Mixed2(pro, ev, eh, sh), 2) /\ IsHs(r.hs)
    BY <1>3, <1>4, HsNames DEF IsHs, Holds
  <1> QED BY <1>5, <1>6 DEF w, r

LEMMA ThirdMessage ==
    ASSUME NEW pro, NEW sv, NEW sh, NEW ev, NEW eh, NEW kv, NEW kh, IsHs(kv), IsHs(kh),
           Holds(kv, TRUE, sv, ev, eh, sh, Mixed2(pro, ev, eh, sh), 2),
           Holds(kh, FALSE, sh, eh, ev, NoKey, Mixed2(pro, ev, eh, sh), 2)
    PROVE  LET w == WriteThird(kv)
               r == ReadThird(kh, w.msg)
           IN /\ Holds(w.hs, TRUE, sv, ev, eh, sh, Mixed3(pro, ev, eh, sh, sv), 3)
              /\ Holds(r.hs, FALSE, sh, eh, ev, sv, Mixed3(pro, ev, eh, sh, sv), 3)
  <1> DEFINE w == WriteThird(kv)
             r == ReadThird(kh, w.msg)
             sym == Mixed2(pro, ev, eh, sh)
             named == Named3(pro, ev, eh, sh, sv)
  <1>1. Dh(eh, sv) = Dh(sv, eh)
    BY DEF Dh
  <1>2. /\ w.hs = [kv EXCEPT !.sym = AfterBox(named, NoPayload), !.step = 3, !.done = TRUE]
        /\ w.msg = [e |-> NoKey, boxes |-> <<Box(sym, sv), Box(named, NoPayload)>>]
    <2>1. kv.sym = sym /\ kv.s = sv /\ kv.re = eh
      BY DEF Holds
    <2>2. MixKey(AfterBox(kv.sym, kv.s), Dh(kv.s, kv.re)) = named
      BY <2>1 DEF Named3
    <2> HIDE DEF sym, named
    <2> QED BY <2>1, <2>2 DEF WriteThird
  <1>3. r.hs = [kh EXCEPT !.rs = sv, !.sym = AfterBox(named, NoPayload), !.step = 3, !.done = TRUE]
    <2> DEFINE msg == w.msg
    <2>1. kh.sym = sym /\ kh.e = eh
      BY DEF Holds
    <2>2. msg.boxes[1].plain = sv /\ msg.boxes[2].plain = NoPayload
      BY <1>2 DEF Box
    <2>3. MixKey(AfterBox(kh.sym, sv), Dh(kh.e, sv)) = named
      BY <1>1, <2>1 DEF Named3
    <2> HIDE DEF sym, named, msg
    <2> QED BY <2>1, <2>2, <2>3 DEF ReadThird, msg
  <1> HIDE DEF w, r
  <1>4. AfterBox(named, NoPayload) = Mixed3(pro, ev, eh, sh, sv)
    BY DEF Mixed3
  <1> HIDE DEF named
  <1>5. Holds(w.hs, TRUE, sv, ev, eh, sh, Mixed3(pro, ev, eh, sh, sv), 3)
    BY <1>2, <1>4, HsNames DEF IsHs, Holds
  <1>6. Holds(r.hs, FALSE, sh, eh, ev, sv, Mixed3(pro, ev, eh, sh, sv), 3)
    BY <1>3, <1>4, HsNames DEF IsHs, Holds
  <1> QED BY <1>5, <1>6 DEF w, r

\* The third message cannot be taken for the first: its key is a real one.
LEMMA KeyedByTheSecond ==
    ASSUME NEW pro, NEW ev, NEW eh, NEW sh
    PROVE  Mixed2(pro, ev, eh, sh).ck # <<>>
  <1> DEFINE d1 == Dh(ev, eh)
             d2 == Dh(ev, sh)
             a == Agreed2(pro, ev, eh)
             n == Named2(pro, ev, eh, sh)
             m == Mixed1(pro, ev)
  <1>1. m.ck = <<>> /\ DOMAIN m = {"h", "ck", "n"}
    BY DEF Mixed1, AfterBox, MixHash, SymmetricState
  <1> HIDE DEF m
  <1>2. a.ck = Append(<<>>, d1) /\ DOMAIN a = {"h", "ck", "n"}
    BY <1>1 DEF Agreed2, MixKey, MixHash, Hkdf2, m
  <1> HIDE DEF a
  <1>3. n.ck = Append(Append(<<>>, d1), d2) /\ DOMAIN n = {"h", "ck", "n"}
    BY <1>2 DEF Named2, MixKey, AfterBox, MixHash, Hkdf2, a
  <1> HIDE DEF n
  <1>4. Mixed2(pro, ev, eh, sh).ck = Append(Append(<<>>, d1), d2)
    BY <1>3 DEF Mixed2, AfterBox, MixHash, n
  <1>5. Append(Append(<<>>, d1), d2) # <<>>
    <2> DEFINE D == {d1, d2}
    <2>1. <<>> \in Seq(D) /\ d1 \in D /\ d2 \in D
      OBVIOUS
    <2> HIDE DEF D, d1, d2
    <2>2. Append(<<>>, d1) \in Seq(D)
      BY <2>1, AppendProperties
    <2> QED BY <2>1, <2>2, AppendProperties
  <1> QED BY <1>4, <1>5

-----------------------------------------------------------------------------
(* The handshake of one host attempt with one viewer attempt, as it goes    *)
(* when nothing interferes: what each end holds after each message.         *)

Unmixed(x) == HandshakeState(~IsHost(x), Static(x), Prologue)

First(v)     == WriteFirst(Unmixed(v), Ephemeral(v))
Second(h, v) == WriteSecond(ReadFirst(Unmixed(h), First(v).msg).hs, Ephemeral(h))
Third(h, v)  == WriteThird(ReadSecond(First(v).hs, Second(h, v).msg).hs)
Heard(h, v)  == ReadThird(Second(h, v).hs, Third(h, v).msg).hs

Begun(r) == r.phase \in {"running", "live", "over"} \/ r.partner # None

Mutual(h, v) == h \in Hosts /\ v \in Viewers /\ s[h].partner = v /\ s[v].partner = h

Answered(h) == hs[h].step \in {2, 3}

\* A viewer attempt: whom it knows, how far its handshake is, who let it in.
ViewerInv(v) ==
    LET r == s[v]
        h == r.partner
    IN /\ h \in Hosts \cup {None}
       /\ h = None => ~r.described /\ ~r.ice /\ r.ctl # "open"
       /\ h # None => r.phase \notin Early
       /\ Begun(r) => \/ hs[v] = Unmixed(v)
                      \/ hs[v] = First(v).hs /\ Mutual(h, v) /\ r.ctl # "none"
                      \/ hs[v] = Third(h, v).hs /\ Mutual(h, v) /\ r.ctl # "none" /\ Answered(h)
       /\ r.phase = "live" => Mutual(h, v) /\ s[h].verdict = "yes"

\* A host attempt: how far its handshake is, and its viewer's.
AnswerInv(h) ==
    LET v == s[h].partner
    IN Begun(s[h]) => \/ hs[h] = Unmixed(h)
                      \/ hs[h] = Second(h, v).hs /\ Mutual(h, v)
                      \/ hs[h] = Heard(h, v) /\ Mutual(h, v) /\ hs[v] = Third(h, v).hs

\* A message on its way: one the other end did send in this handshake.
ToHost(h, v, msg) ==
    /\ Mutual(h, v)
    /\ \/ msg = First(v).msg
       \/ msg = Third(h, v).msg /\ hs[v] = Third(h, v).hs /\ Answered(h)

ToViewer(h, v, msg) == Mutual(h, v) /\ msg = Second(h, v).msg /\ Answered(h)

Meant(x, m) ==
    /\ m.t = "noise" /\ x \in Hosts => ToHost(x, s[x].partner, m.msg)
    /\ m.t = "noise" /\ x \in Viewers => ToViewer(s[x].partner, x, m.msg)
    /\ Yes(m) /\ x \in Viewers =>
          Mutual(s[x].partner, x) /\ s[s[x].partner].verdict = "yes"

AgreementInv ==
    /\ \A v \in Viewers : ViewerInv(v)
    /\ \A h \in Hosts : AnswerInv(h)
    /\ \A x \in Session : \A m \in Contents(inbox[x]) : Meant(x, m)

LEMMA SessionsDiffer ==
    /\ None \notin Hosts /\ None \notin Viewers
    /\ \A h \in Hosts, v \in Viewers : h # v
    /\ Hosts \subseteq Session /\ Viewers \subseteq Session
  BY ConnectionAssumption DEF Session

\* What both ends of a pair hold after each message, and that they agree.
LEMMA PairAgrees ==
    ASSUME NEW h \in Hosts, NEW v \in Viewers
    PROVE  /\ Unmixed(h).step = 0 /\ Unmixed(v).step = 0
           /\ First(v).hs.step = 1 /\ Second(h, v).hs.step = 2
           /\ Third(h, v).hs.step = 3 /\ Heard(h, v).step = 3
           /\ ~ReadThird(Second(h, v).hs, First(v).msg).ok
           /\ DeriveSAS(Third(h, v).hs) = DeriveSAS(Heard(h, v))
           /\ Split(Third(h, v).hs).send = Split(Heard(h, v)).recv
           /\ Split(Third(h, v).hs).recv = Split(Heard(h, v)).send
           /\ Third(h, v).hs.rs = Static(h) /\ Heard(h, v).rs = Static(v)
  <1> DEFINE pro == Prologue
             sv == Static(v)
             sh == Static(h)
             ev == Ephemeral(v)
             eh == Ephemeral(h)
             r1 == ReadFirst(Unmixed(h), First(v).msg)
             r2 == ReadSecond(First(v).hs, Second(h, v).msg)
  <1>1. /\ Unmixed(v) = HandshakeState(TRUE, sv, pro)
        /\ Unmixed(h) = HandshakeState(FALSE, sh, pro)
    BY SessionsDiffer DEF Unmixed, IsHost
  <1> HIDE DEF pro, sv, sh, ev, eh
  <1>2. /\ Holds(First(v).hs, TRUE, sv, ev, NoKey, NoKey, Mixed1(pro, ev), 1) /\ IsHs(First(v).hs)
        /\ Holds(r1.hs, FALSE, sh, NoKey, ev, NoKey, Mixed1(pro, ev), 1) /\ IsHs(r1.hs)
        /\ First(v).msg.boxes[1].key = <<>>
    BY <1>1, FirstMessage DEF First, ev
  <1> HIDE DEF r1
  <1>3. /\ Holds(Second(h, v).hs, FALSE, sh, eh, ev, NoKey, Mixed2(pro, ev, eh, sh), 2)
        /\ IsHs(Second(h, v).hs)
        /\ Holds(r2.hs, TRUE, sv, ev, eh, sh, Mixed2(pro, ev, eh, sh), 2) /\ IsHs(r2.hs)
    BY <1>2, SecondMessage DEF Second, eh, r1
  <1> HIDE DEF r2
  <1>4. /\ Holds(Third(h, v).hs, TRUE, sv, ev, eh, sh, Mixed3(pro, ev, eh, sh, sv), 3)
        /\ Holds(Heard(h, v), FALSE, sh, eh, ev, sv, Mixed3(pro, ev, eh, sh, sv), 3)
    BY <1>3, ThirdMessage DEF Third, Heard, r2
  <1>5. Unmixed(h).step = 0 /\ Unmixed(v).step = 0
    BY <1>1 DEF HandshakeState
  <1>6. ~ReadThird(Second(h, v).hs, First(v).msg).ok
    <2> DEFINE sym == Second(h, v).hs.sym
               box == First(v).msg.boxes[1]
    <2>1. sym.ck # <<>>
      BY <1>3, KeyedByTheSecond DEF Holds
    <2>2. box.key # sym.ck
      BY <1>2, <2>1
    <2> HIDE DEF sym, box
    <2>3. ~Opens(sym, box)
      BY <2>1, <2>2 DEF Opens, Keyed, Authentic, Box
    <2> QED BY <2>3 DEF ReadThird, sym, box
  <1> QED BY <1>2, <1>3, <1>4, <1>5, <1>6 DEF Holds, DeriveSAS, Split, sv, sh

LEMMA ReferenceStays ==
    ASSUME access' = access, NEW h, NEW v
    PROVE  /\ Unmixed(h)' = Unmixed(h) /\ Unmixed(v)' = Unmixed(v)
           /\ First(v)' = First(v) /\ Second(h, v)' = Second(h, v)
           /\ Third(h, v)' = Third(h, v) /\ Heard(h, v)' = Heard(h, v)
  BY DEF Unmixed, First, Second, Third, Heard, Prologue, IsHost, Static, Ephemeral

\* A step of one attempt keeps the agreement when it keeps this attempt's own
\* part, takes nothing back that others rely on, and sends only what belongs.
LEMMA AgreementStep ==
    ASSUME AdmissionInv, AgreementInv, access' = access, NEW x \in Session, NEW q, NEW k,
           s' = [s EXCEPT ![x] = q], hs' = [hs EXCEPT ![x] = k],
           s[x].partner # None => q.partner = s[x].partner,
           s[x].verdict = "yes" => q.verdict = "yes",
           x \in Hosts /\ s[x].partner # None /\ Answered(x) => k.step \in {2, 3},
           x \in Viewers /\ s[x].partner # None /\ hs[x].step = 3 => k = hs[x],
           x \in Viewers => ViewerInv(x)',
           x \in Hosts => AnswerInv(x)',
           \A y \in Session : \A m \in Contents(inbox'[y]) : m \in Contents(inbox[y]) \/ Meant(y, m)'
    PROVE  AgreementInv'
  <1>1. \A y \in Session : /\ s'[y] = IF y = x THEN q ELSE s[y]
                           /\ hs'[y] = IF y = x THEN k ELSE hs[y]
    BY DEF AdmissionInv, Shapes
  <1>2. ASSUME NEW h, NEW v, Mutual(h, v)
        PROVE  Mutual(h, v)'
    BY <1>1, <1>2, SessionsDiffer DEF Mutual
  <1>3. ASSUME NEW h, NEW v, Mutual(h, v)
        PROVE  /\ Answered(h) => Answered(h)'
               /\ s[h].verdict = "yes" => s'[h].verdict = "yes"
               /\ hs[v] = Third(h, v).hs => hs'[v] = Third(h, v).hs
    <2>1. h \in Hosts /\ v \in Viewers /\ s[h].partner # None /\ s[v].partner # None
          /\ h \in Session /\ v \in Session
      BY <1>3, SessionsDiffer DEF Mutual
    <2>2. Third(h, v).hs.step = 3
      BY <2>1, PairAgrees
    <2> QED BY <1>1, <2>1, <2>2 DEF Answered
  <1>4. ASSUME NEW v \in Viewers
        PROVE  ViewerInv(v)'
    <2>1. CASE v # x
      <3>0. PICK h : h = s[v].partner
        OBVIOUS
      <3>1. s'[v] = s[v] /\ hs'[v] = hs[v]
        BY <1>1, <2>1, SessionsDiffer
      <3>2. ViewerInv(v)
        BY DEF AgreementInv
      <3>3. /\ Unmixed(v)' = Unmixed(v) /\ First(v)' = First(v) /\ Third(h, v)' = Third(h, v)
        BY ReferenceStays
      <3>4. Mutual(h, v) => /\ Mutual(h, v)'
                            /\ Answered(h) => Answered(h)'
                            /\ s[h].verdict = "yes" => s'[h].verdict = "yes"
        BY <1>2, <1>3
      <3> QED BY <3>0, <3>1, <3>2, <3>3, <3>4 DEF ViewerInv
    <2> QED BY <2>1
  <1>5. ASSUME NEW h \in Hosts
        PROVE  AnswerInv(h)'
    <2>1. CASE h # x
      <3>0. PICK v : v = s[h].partner
        OBVIOUS
      <3>1. s'[h] = s[h] /\ hs'[h] = hs[h]
        BY <1>1, <2>1, SessionsDiffer
      <3>2. AnswerInv(h)
        BY DEF AgreementInv
      <3>3. /\ Unmixed(h)' = Unmixed(h) /\ Second(h, v)' = Second(h, v)
            /\ Third(h, v)' = Third(h, v) /\ Heard(h, v)' = Heard(h, v)
        BY ReferenceStays
      <3>4. Mutual(h, v) => /\ Mutual(h, v)'
                            /\ hs[v] = Third(h, v).hs => hs'[v] = Third(h, v).hs
        BY <1>2, <1>3
      <3> QED BY <3>0, <3>1, <3>2, <3>3, <3>4 DEF AnswerInv
    <2> QED BY <2>1
  <1>6. ASSUME NEW y \in Session, NEW m, Meant(y, m)
        PROVE  Meant(y, m)'
    <2>0. PICK z : z = s[y].partner
      OBVIOUS
    <2>1. ASSUME y \in Hosts, m.t = "noise"
          PROVE  ToHost(y, z, m.msg)' /\ s'[y].partner = z
      <3>1. ToHost(y, z, m.msg) /\ Mutual(y, z)
        BY <1>6, <2>0, <2>1 DEF Meant, ToHost
      <3>2. First(z)' = First(z) /\ Third(y, z)' = Third(y, z)
        BY ReferenceStays
      <3>3. Mutual(y, z)'
        BY <1>2, <3>1
      <3> QED BY <1>3, <3>1, <3>2, <3>3 DEF ToHost, Mutual
    <2>2. ASSUME y \in Viewers, m.t = "noise"
          PROVE  ToViewer(z, y, m.msg)' /\ s'[y].partner = z
      <3>1. ToViewer(z, y, m.msg) /\ Mutual(z, y)
        BY <1>6, <2>0, <2>2 DEF Meant, ToViewer
      <3>2. Second(z, y)' = Second(z, y)
        BY ReferenceStays
      <3>3. Mutual(z, y)'
        BY <1>2, <3>1
      <3> QED BY <1>3, <3>1, <3>2, <3>3 DEF ToViewer, Mutual
    <2>3. ASSUME y \in Viewers, Yes(m)
          PROVE  Mutual(z, y)' /\ s'[y].partner = z /\ s'[z].verdict = "yes"
      <3>1. Mutual(z, y) /\ s[z].verdict = "yes"
        BY <1>6, <2>0, <2>3 DEF Meant
      <3> QED BY <1>2, <1>3, <3>1 DEF Mutual
    <2> QED BY <2>0, <2>1, <2>2, <2>3 DEF Meant
  <1>7. \A y \in Session : \A m \in Contents(inbox'[y]) : Meant(y, m)'
    BY <1>6 DEF AgreementInv
  <1> QED BY <1>4, <1>5, <1>7 DEF AgreementInv

\* A step that moves no handshake and sends nothing but what belongs.
LEMMA PlainAgrees ==
    ASSUME AdmissionInv, AgreementInv, NEW x \in Session, NEW q,
           s' = [s EXCEPT ![x] = q], UNCHANGED <<access, hs>>,
           q.partner = s[x].partner,
           Begun(q) => Begun(s[x]),
           q.phase \in Early => s[x].phase \in Early,
           q.ctl = "none" => s[x].ctl = "none",
           s[x].verdict = "yes" => q.verdict = "yes",
           x \in Viewers /\ s[x].partner = None => ~q.described /\ ~q.ice /\ q.ctl # "open",
           x \in Viewers /\ q.phase = "live" => \/ s[x].phase = "live"
                                                \/ /\ Mutual(s[x].partner, x)
                                                   /\ s[s[x].partner].verdict = "yes",
           \A y \in Session : \A m \in Contents(inbox'[y]) : m \in Contents(inbox[y]) \/ Meant(y, m)'
    PROVE  AgreementInv'
  <1>1. hs' = [hs EXCEPT ![x] = hs[x]]
    BY DEF AdmissionInv, Shapes
  <1>2. \A y \in Session : s'[y] = (IF y = x THEN q ELSE s[y]) /\ hs'[y] = hs[y]
    BY DEF AdmissionInv, Shapes
  <1>3. PICK z : z = s[x].partner
    OBVIOUS
  <1>4. /\ Unmixed(x)' = Unmixed(x) /\ First(x)' = First(x) /\ Second(x, z)' = Second(x, z)
        /\ Third(z, x)' = Third(z, x) /\ Third(x, z)' = Third(x, z) /\ Heard(x, z)' = Heard(x, z)
    BY ReferenceStays
  <1>5. ASSUME NEW h, NEW v, Mutual(h, v), x = h \/ x = v
        PROVE  /\ Mutual(h, v)' /\ (Answered(h) => Answered(h)')
               /\ hs'[h] = hs[h] /\ hs'[v] = hs[v]
               /\ s[h].verdict = "yes" => s'[h].verdict = "yes"
    BY <1>2, <1>5, SessionsDiffer DEF Mutual, Answered
  <1>6. x \in Viewers => ViewerInv(x)'
    <2> SUFFICES ASSUME x \in Viewers PROVE ViewerInv(x)'
      OBVIOUS
    <2>1. ViewerInv(x) /\ s'[x] = q /\ hs'[x] = hs[x]
      BY <1>2 DEF AgreementInv
    <2> QED BY <1>3, <1>4, <1>5, <2>1 DEF ViewerInv
  <1>7. x \in Hosts => AnswerInv(x)'
    <2> SUFFICES ASSUME x \in Hosts PROVE AnswerInv(x)'
      OBVIOUS
    <2>1. AnswerInv(x) /\ s'[x] = q /\ hs'[x] = hs[x]
      BY <1>2 DEF AgreementInv
    <2> QED BY <1>3, <1>4, <1>5, <2>1 DEF AnswerInv
  <1> QED BY <1>1, <1>6, <1>7, AgreementStep DEF Answered

LEMMA QuietStepAgrees ==
    ASSUME AdmissionInv, AgreementInv, NEW x \in Session, QuietStep(x), UNCHANGED <<access, hs>>,
           \A y \in Session : \A m \in Contents(inbox'[y]) : m \in Contents(inbox[y]) \/ Meant(y, m)'
    PROVE  AgreementInv'
  <1>1. PICK q : /\ Quiet(x, s[x], q) /\ NoFurther(s[x], q) /\ s' = [s EXCEPT ![x] = q]
                 /\ q.phase = "running" => s[x].phase = "running"
    BY DEF QuietStep
  <1>2. x \in Viewers => ViewerInv(x)
    BY DEF AgreementInv
  <1>3. /\ q.partner = s[x].partner /\ q.verdict = s[x].verdict
        /\ Begun(q) => Begun(s[x])
        /\ q.phase \in Early => s[x].phase \in Early
        /\ q.phase = "live" => s[x].phase = "live"
    BY <1>1 DEF Quiet, Plain, Ending, Begun, Early
  <1>4. x \in Viewers /\ s[x].partner = None => ~q.described /\ ~q.ice /\ q.ctl # "open"
    BY <1>1, <1>2 DEF ViewerInv, NoFurther
  <1>5. q.ctl = "none" => s[x].ctl = "none"
    BY <1>1 DEF NoFurther
  <1> QED BY <1>1, <1>3, <1>4, <1>5, PlainAgrees

LEMMA StartAgrees ==
    ASSUME AdmissionInv, AgreementInv, NEW x \in Session, Start(x)
    PROVE  AgreementInv'
  <1> DEFINE r == s[x]
             q == [r EXCEPT !.phase = "relays"]
  <1>1. IsState(r) /\ s' = [s EXCEPT ![x] = q] /\ UNCHANGED <<access, hs, inbox>>
        /\ r.phase = "unused"
    BY DEF Start, AdmissionInv, Shapes
  <1>2. /\ q.phase = "relays" /\ q.partner = r.partner /\ q.verdict = r.verdict
        /\ q.ice = r.ice /\ q.ctl = r.ctl /\ q.described = r.described
    BY <1>1, FieldNames DEF IsState
  <1> HIDE DEF q
  <1>3. Begun(q) => Begun(r)
    BY <1>2 DEF Begun
  <1>4. x \in Viewers /\ r.partner = None => ~q.described /\ ~q.ice /\ q.ctl # "open"
    BY <1>2 DEF AgreementInv, ViewerInv
  <1> QED BY <1>1, <1>2, <1>3, <1>4, PlainAgrees DEF Early

LEMMA OpenedAgrees ==
    ASSUME AdmissionInv, AgreementInv, NEW x \in Session, Opened(x)
    PROVE  AgreementInv'
  <1>1. s[x].phase = "opening" /\ UNCHANGED <<access, inbox, spent>>
    BY OpenedIsQuiet
  <1>2. CASE QuietStep(x) /\ UNCHANGED hs
    BY <1>1, <1>2, QuietStepAgrees
  <1>3. CASE \E q : /\ Quiet(x, s[x], q) /\ NoFurther(s[x], q) /\ s' = [s EXCEPT ![x] = q]
                    /\ hs' = [hs EXCEPT ![x] = Unmixed(x)]
    <2>1. PICK q : /\ Quiet(x, s[x], q) /\ NoFurther(s[x], q) /\ s' = [s EXCEPT ![x] = q]
                   /\ hs' = [hs EXCEPT ![x] = Unmixed(x)]
      BY <1>3
    <2>2. s'[x] = q /\ hs'[x] = Unmixed(x) /\ Unmixed(x)' = Unmixed(x)
      BY <1>1, <2>1, ReferenceStays DEF AdmissionInv, Shapes
    <2>3. s[x].partner = None
      BY <1>1, SessionsDiffer DEF AdmissionInv, HostInv, AgreementInv, ViewerInv, Early, Session
    <2>4. q.partner = None /\ q.verdict = s[x].verdict /\ q.phase # "live"
      BY <1>1, <2>1, <2>3 DEF Quiet, Plain, Ending
    <2>5. x \in Viewers => ViewerInv(x)'
      <3> SUFFICES ASSUME x \in Viewers PROVE ViewerInv(x)'
        OBVIOUS
      <3>1. ~q.described /\ ~q.ice /\ q.ctl # "open"
        BY <2>1, <2>3 DEF AgreementInv, ViewerInv, NoFurther
      <3> QED BY <2>2, <2>4, <3>1 DEF ViewerInv
    <2>6. x \in Hosts => AnswerInv(x)'
      BY <2>2 DEF AnswerInv
    <2> QED BY <1>1, <2>1, <2>3, <2>4, <2>5, <2>6, AgreementStep
  <1> QED BY <1>2, <1>3, OpenedIsQuiet DEF Unmixed

LEMMA MeetAgrees ==
    ASSUME AdmissionInv, AgreementInv, NEW x \in Session, NEW y \in Session, NEW part,
           LockPartner(x, y, part), Audible(x, y) # {},
           s[x].phase \in {"running", "live", "over"}, UNCHANGED <<access, hs, inbox>>
    PROVE  AgreementInv'
  <1> DEFINE r == s[x]
  <1>1. PICK q : Meeting(x, y, r, q) /\ s' = [s EXCEPT ![x] = q]
    BY LockingMeets
  <1>2. s'[x] = q /\ hs' = [hs EXCEPT ![x] = hs[x]] /\ hs'[x] = hs[x] /\ Unmixed(x)' = Unmixed(x)
    BY <1>1, ReferenceStays DEF AdmissionInv, Shapes
  <1>3. r.partner = None /\ (x \in Viewers => y \in Hosts) /\ y # None
    BY SessionsDiffer DEF Audible, IsHost, LockPartner, Session
  <1>4. Begun(r) /\ q.partner = y /\ q.phase = r.phase /\ q.verdict = r.verdict
    BY <1>1 DEF Begun, Meeting
  <1>5. \A z : ~Mutual(x, z) /\ ~Mutual(z, x)
    BY <1>3, SessionsDiffer DEF Mutual
  <1>6. x \in Viewers => ViewerInv(x)'
    <2> SUFFICES ASSUME x \in Viewers PROVE ViewerInv(x)'
      OBVIOUS
    <2>1. ViewerInv(x)
      BY DEF AgreementInv
    <2>2. hs[x] = Unmixed(x) /\ r.phase # "live"
      BY <1>4, <1>5, <2>1 DEF ViewerInv
    <2> QED BY <1>2, <1>3, <1>4, <2>2 DEF ViewerInv, Early
  <1>7. x \in Hosts => AnswerInv(x)'
    <2> SUFFICES ASSUME x \in Hosts PROVE AnswerInv(x)'
      OBVIOUS
    <2>1. hs[x] = Unmixed(x)
      BY <1>4, <1>5 DEF AgreementInv, AnswerInv
    <2> QED BY <1>2, <2>1 DEF AnswerInv
  <1>8. \A z \in Session : \A m \in Contents(inbox'[z]) : m \in Contents(inbox[z]) \/ Meant(z, m)'
    OBVIOUS
  <1>9. s' = [s EXCEPT ![x] = q] /\ access' = access
    BY <1>1
  <1>10. s[x].partner = None /\ q.verdict = s[x].verdict
    BY <1>3, <1>4
  <1> HIDE DEF r
  <1> QED BY <1>2, <1>6, <1>7, <1>8, <1>9, <1>10, AgreementStep

LEMMA ReceiveAgrees ==
    ASSUME AdmissionInv, AgreementInv, NEW x \in Session, Receive(x)
    PROVE  AgreementInv'
  <1>1. PICK y \in Session : \E hi \in Audible(x, y) : \E lo \in 0 .. hi :
          LockPartner(x, y, lo .. hi - 1) \/ HearPartner(x, y, lo .. hi - 1) \/ GiveWay(x, y)
    BY DEF Receive
  <1>2. PICK part : LockPartner(x, y, part) \/ HearPartner(x, y, part) \/ GiveWay(x, y)
    BY <1>1
  <1>3. /\ s[x].phase \in {"running", "live", "over"}
        /\ UNCHANGED <<access, hs, inbox>> /\ IsState(s[x])
    BY DEF Receive, AdmissionInv, Shapes
  <1>4. CASE LockPartner(x, y, part)
    <2>1. Audible(x, y) # {}
      BY <1>1
    <2> QED BY <1>3, <1>4, <2>1, MeetAgrees
  <1>5. CASE HearPartner(x, y, part)
    <2> DEFINE q == TakeEntries(s[x], y, part)
    <2>1. Quiet(x, s[x], q) /\ q.phase = s[x].phase /\ q.ctl = s[x].ctl
      BY <1>3, EntriesAreQuiet
    <2>2. s' = [s EXCEPT ![x] = q] /\ s[x].partner # None
      BY <1>5, ConnectionAssumption DEF HearPartner
    <2> HIDE DEF q
    <2>3. q.partner = s[x].partner /\ q.verdict = s[x].verdict /\ Begun(s[x])
      BY <2>1, <2>2 DEF Quiet, Plain, Begun
    <2> QED BY <1>3, <2>1, <2>2, <2>3, PlainAgrees
  <1>6. CASE GiveWay(x, y)
    BY <1>3, <1>6, EndsIsQuiet, QuietStepAgrees DEF GiveWay, Ends
  <1> QED BY <1>2, <1>4, <1>5, <1>6

LEMMA IceConnectedAgrees ==
    ASSUME AdmissionInv, AgreementInv, NEW x \in Session, IceConnected(x)
    PROVE  AgreementInv'
  <1> DEFINE r == s[x]
             a == ResendAll(x, r)
             q == [a EXCEPT !.ice = TRUE]
  <1>1. IsState(r)
    BY DEF AdmissionInv, Shapes
  <1>2. Quiet(x, r, a) /\ NoFurther(r, a) /\ a.phase = r.phase
    BY <1>1, ResendIsQuiet
  <1>3. s' = [s EXCEPT ![x] = q] /\ UNCHANGED <<access, hs, inbox, spent>> /\ r.described
    BY DEF IceConnected
  <1> HIDE DEF a
  <1>4. /\ q.partner = r.partner /\ q.verdict = r.verdict /\ q.phase = r.phase
        /\ q.ctl = "none" => r.ctl = "none"
    BY <1>2, FieldNames DEF IsState, Quiet, Plain, NoFurther
  <1> HIDE DEF q
  <1>5. x \in Viewers => r.partner # None
    BY <1>3 DEF AgreementInv, ViewerInv
  <1>6. Begun(q) => Begun(r)
    BY <1>4 DEF Begun
  <1> QED BY <1>3, <1>4, <1>5, <1>6, PlainAgrees

\* The message belongs to a viewer and its host that have found each other.
LEMMA Introduced ==
    ASSUME AgreementInv, NEW v \in Viewers, s[v].ice, Connected(v, s[v].partner)
    PROVE  Mutual(s[v].partner, v) /\ Begun(s[v])
  BY DEF AgreementInv, ViewerInv, Connected, Mutual, Begun

LEMMA CtlOpenAgrees ==
    ASSUME AdmissionInv, AgreementInv, NEW x \in Session, CtlOpen(x)
    PROVE  AgreementInv'
  <1> DEFINE r == s[x]
             a == SetPeerState(r, "handshaking")
             q == [a EXCEPT !.ctl = "open"]
  <1>1. IsState(r)
    BY DEF AdmissionInv, Shapes
  <1>2. Quiet(x, r, a) /\ NoFurther(r, a) /\ a.phase = r.phase
    BY <1>1, StateChangeIsQuiet DEF PeerStates
  <1>3. s' = [s EXCEPT ![x] = q] /\ UNCHANGED <<access, spent>> /\ r.ctl = "none"
        /\ r.ice /\ Connected(x, r.partner)
    BY DEF CtlOpen
  <1> HIDE DEF a
  <1>4. /\ q.partner = r.partner /\ q.verdict = r.verdict /\ q.phase = r.phase /\ q.ctl = "open"
    BY <1>2, FieldNames DEF IsState, Quiet, Plain, NoFurther
  <1> HIDE DEF q
  <1>5. CASE x \in Hosts
    <2>1. UNCHANGED <<hs, inbox>> /\ x \notin Viewers
      BY <1>5, SessionsDiffer DEF CtlOpen, IsHost
    <2>2. Begun(q) => Begun(r)
      BY <1>4 DEF Begun
    <2> QED BY <1>3, <1>4, <2>1, <2>2, PlainAgrees
  <1>6. CASE x \in Viewers
    <2>1. PICK h : h = r.partner
      OBVIOUS
    <2>2. Mutual(h, x) /\ Begun(r) /\ ViewerInv(x)
      BY <1>3, <1>6, <2>1, Introduced DEF AgreementInv
    <2>3. hs[x] = Unmixed(x)
      BY <1>3, <2>2 DEF ViewerInv
    <2>4. hs' = [hs EXCEPT ![x] = First(x).hs] /\ inbox' = Deliver(h, Noise(First(x).msg))
      BY <1>6, <2>1, <2>3, SessionsDiffer DEF CtlOpen, IsHost, First
    <2>5. /\ First(x)' = First(x) /\ s'[x] = q /\ hs'[x] = First(x).hs
      BY <1>3, <2>4, ReferenceStays DEF AdmissionInv, Shapes
    <2>6. Mutual(h, x)'
      <3>1. s'[h] = s[h]
        BY <1>3, <1>6, <2>2, SessionsDiffer DEF AdmissionInv, Shapes, Mutual
      <3> QED BY <1>4, <2>2, <2>5, <3>1 DEF Mutual
    <2>7. ViewerInv(x)'
      <3>1. q.phase \notin Early /\ h \in Hosts /\ h # None
            /\ (q.phase = "live" => s'[h].verdict = "yes")
        BY <1>3, <1>4, <1>6, <2>1, <2>2, SessionsDiffer DEF AdmissionInv, Shapes, ViewerInv, Mutual
      <3> QED BY <1>4, <2>1, <2>5, <2>6, <3>1 DEF ViewerInv
    <2>8. PICK m : m = Noise(First(x).msg)
      OBVIOUS
    <2>9. Meant(h, m)'
      BY <1>6, <2>2, <2>5, <2>6, <2>8, SessionsDiffer DEF Meant, Noise, Yes, ToHost, Mutual
    <2>10. \A y \in Session : \A n \in Contents(inbox'[y]) : n \in Contents(inbox[y]) \/ Meant(y, n)'
      <3>1. inbox' = Deliver(h, m)
        BY <2>4, <2>8
      <3>2. \A y \in Session : \A n \in Contents(inbox'[y]) : n \in Contents(inbox[y]) \/ (y = h /\ n = m)
        BY <3>1, Sending
      <3> QED BY <2>9, <3>2
    <2>11. hs[x].step # 3
      BY <1>6, <2>2, <2>3, PairAgrees DEF Mutual
    <2> QED BY <1>3, <1>4, <1>6, <2>4, <2>7, <2>10, <2>11, SessionsDiffer, AgreementStep
  <1> QED BY <1>5, <1>6 DEF Session

\* What an attempt is told, and by whom, when it may still read it.
LEMMA HeadIsMeant ==
    ASSUME AdmissionInv, AgreementInv, NEW x \in Session, NEW t, HeadFor(x, t)
    PROVE  /\ inbox[x] # <<>> /\ Head(inbox[x]).t = t /\ Meant(x, Head(inbox[x]))
           /\ s[x].ctl = "open"
  <1>1. inbox[x] # <<>> /\ Head(inbox[x]).t = t /\ IsQueue(inbox[x]) /\ s[x].ctl = "open"
    BY DEF HeadFor, AdmissionInv, Shapes
  <1>2. Head(inbox[x]) \in Contents(inbox[x])
    BY <1>1, ShortenedQueue
  <1> QED BY <1>1, <1>2 DEF AgreementInv

LEMMA UnreadableAgrees ==
    ASSUME AdmissionInv, AgreementInv, NEW x \in Session, inbox[x] # <<>>, Unreadable(x),
           UNCHANGED access
    PROVE  AgreementInv'
  <1>1. IsState(s[x])
    BY DEF AdmissionInv, Shapes
  <1>2. /\ Quiet(x, s[x], Finish(x, s[x])) /\ NoFurther(s[x], Finish(x, s[x]))
        /\ Finish(x, s[x]).phase = "running" => s[x].phase = "running"
    BY <1>1, FinishIsQuiet
  <1>3. s' = [s EXCEPT ![x] = Finish(x, s[x])] /\ UNCHANGED hs
        /\ inbox' = [inbox EXCEPT ![x] = Tail(@)]
    BY DEF Unreadable
  <1>4. QuietStep(x)
    BY <1>2, <1>3 DEF QuietStep
  <1>5. \A y \in Session : \A m \in Contents(inbox'[y]) : m \in Contents(inbox[y]) \/ Meant(y, m)'
    BY <1>3, Taking
  <1> QED BY <1>3, <1>4, <1>5, QuietStepAgrees

LEMMA AnswerFirstAgrees ==
    ASSUME AdmissionInv, AgreementInv, NEW h \in Hosts, AnswerFirst(h)
    PROVE  AgreementInv'
  <1> DEFINE r == ReadFirst(hs[h], Head(inbox[h]).msg)
             w == WriteSecond(r.hs, Ephemeral(h))
  <1>1. h \in Session /\ HeadFor(h, "noise") /\ hs[h].step = 0 /\ UNCHANGED <<access, spent>>
    BY SessionsDiffer DEF AnswerFirst
  <1>2. PICK v : v = s[h].partner
    OBVIOUS
  <1>3. inbox[h] # <<>> /\ ToHost(h, v, Head(inbox[h]).msg)
    BY <1>1, <1>2, HeadIsMeant DEF Meant
  <1>4. CASE Unreadable(h)
    BY <1>1, <1>3, <1>4, UnreadableAgrees
  <1>5. CASE ~Unreadable(h)
    <2>1. /\ hs' = [hs EXCEPT ![h] = w.hs]
          /\ inbox' = Reply(h, v, Noise(w.msg))
          /\ UNCHANGED s
      BY <1>2, <1>5 DEF AnswerFirst
    <2>2. Mutual(h, v) /\ v \in Viewers /\ v \in Session /\ h # v
      BY <1>3, SessionsDiffer DEF ToHost, Mutual
    <2>3. Head(inbox[h]).msg = First(v).msg
      BY <1>1, <1>3 DEF ToHost, Answered
    <2>4. hs[h] = Unmixed(h)
      <3>1. AnswerInv(h) /\ Begun(s[h])
        BY <1>2, <2>2, SessionsDiffer DEF AgreementInv, Begun
      <3> QED BY <1>1, <1>2, <2>2, <3>1, PairAgrees DEF AnswerInv
    <2>5. w = Second(h, v)
      BY <2>3, <2>4 DEF Second
    <2> HIDE DEF w
    <2>6. PICK k : k = Second(h, v).hs
      OBVIOUS
    <2>7. PICK m : m = Noise(Second(h, v).msg)
      OBVIOUS
    <2>8. k.step = 2
      BY <2>2, <2>6, PairAgrees
    <2>9. hs' = [hs EXCEPT ![h] = k] /\ inbox' = Reply(h, v, m)
      BY <2>1, <2>5, <2>6, <2>7
    <2>10. hs'[h] = k /\ Second(h, v)' = Second(h, v) /\ s' = [s EXCEPT ![h] = s[h]]
      BY <1>1, <2>1, <2>9, ReferenceStays DEF AdmissionInv, Shapes
    <2>11. Mutual(h, v)'
      BY <2>1, <2>2 DEF Mutual
    <2>12. AnswerInv(h)'
      BY <1>2, <2>1, <2>6, <2>10, <2>11 DEF AnswerInv
    <2>13. Meant(v, m)'
      <3>1. ToViewer(h, v, m.msg)'
        BY <2>7, <2>8, <2>10, <2>11 DEF ToViewer, Noise, Answered
      <3>2. s'[v].partner = h /\ v \notin Hosts /\ ~Yes(m)
        BY <2>1, <2>2, <2>7, SessionsDiffer DEF Mutual, Yes, Noise
      <3> QED BY <3>1, <3>2 DEF Meant
    <2>14. \A y \in Session : \A n \in Contents(inbox'[y]) : n \in Contents(inbox[y]) \/ Meant(y, n)'
      <3>1. \A y \in Session : \A n \in Contents(inbox'[y]) : n \in Contents(inbox[y]) \/ (y = v /\ n = m)
        BY <1>1, <1>3, <2>9, Replying
      <3> QED BY <2>13, <3>1
    <2>15. h \notin Viewers
      BY SessionsDiffer
    <2> QED BY <1>1, <2>8, <2>9, <2>10, <2>12, <2>14, <2>15, AgreementStep
  <1> QED BY <1>4, <1>5

LEMMA AnswerSecondAgrees ==
    ASSUME AdmissionInv, AgreementInv, NEW v \in Viewers, AnswerSecond(v)
    PROVE  AgreementInv'
  <1> DEFINE r == ReadSecond(hs[v], Head(inbox[v]).msg)
             w == WriteThird(r.hs)
             q == SetPeerState(s[v], "awaiting")
  <1>1. v \in Session /\ HeadFor(v, "noise") /\ hs[v].step = 1 /\ UNCHANGED <<access, spent>>
    BY SessionsDiffer DEF AnswerSecond
  <1>2. PICK h : h = s[v].partner
    OBVIOUS
  <1>3. inbox[v] # <<>> /\ ToViewer(h, v, Head(inbox[v]).msg) /\ s[v].ctl = "open"
    BY <1>1, <1>2, HeadIsMeant, SessionsDiffer DEF Meant
  <1>4. CASE Unreadable(v)
    BY <1>1, <1>3, <1>4, UnreadableAgrees
  <1>5. CASE ~Unreadable(v)
    <2>1. /\ hs' = [hs EXCEPT ![v] = w.hs]
          /\ inbox' = Reply(v, h, Noise(w.msg))
          /\ s' = [s EXCEPT ![v] = q]
      BY <1>2, <1>5 DEF AnswerSecond
    <2>2. /\ Mutual(h, v) /\ h \in Hosts /\ h \in Session /\ h # v /\ h # None
          /\ Head(inbox[v]).msg = Second(h, v).msg /\ Answered(h)
      BY <1>3, SessionsDiffer DEF ToViewer, Mutual
    <2>3. ViewerInv(v) /\ Begun(s[v])
      BY <1>2, <2>2 DEF AgreementInv, Begun
    <2>4. hs[v] = First(v).hs
      BY <1>1, <1>2, <2>2, <2>3, PairAgrees DEF ViewerInv
    <2>5. w = Third(h, v)
      BY <2>2, <2>4 DEF Third
    <2> HIDE DEF w
    <2>6. PICK k : k = Third(h, v).hs
      OBVIOUS
    <2>7. PICK m : m = Noise(Third(h, v).msg)
      OBVIOUS
    <2>8. /\ Quiet(v, s[v], q) /\ NoFurther(s[v], q) /\ q.phase = s[v].phase
      <3>1. IsState(s[v])
        BY <1>1 DEF AdmissionInv, Shapes
      <3> QED BY <3>1, StateChangeIsQuiet DEF PeerStates
    <2> HIDE DEF q
    <2>9. hs' = [hs EXCEPT ![v] = k] /\ inbox' = Reply(v, h, m)
      BY <2>1, <2>5, <2>6, <2>7
    <2>10. /\ hs'[v] = k /\ hs'[h] = hs[h] /\ s'[v] = q /\ s'[h] = s[h]
           /\ Third(h, v)' = Third(h, v)
      BY <1>1, <2>1, <2>2, <2>9, ReferenceStays DEF AdmissionInv, Shapes
    <2>11. q.partner = h /\ q.verdict = s[v].verdict /\ q.ctl # "none" /\ s[v].partner = h
      BY <1>2, <1>3, <2>8 DEF Quiet, Plain, NoFurther
    <2>12. Mutual(h, v)' /\ Answered(h)'
      BY <2>2, <2>10, <2>11 DEF Mutual, Answered
    <2>13. ViewerInv(v)'
      <3>1. q.phase \notin Early /\ (q.phase = "live" => s'[h].verdict = "yes")
        BY <1>2, <2>2, <2>3, <2>8, <2>10 DEF ViewerInv
      <3> QED BY <2>2, <2>6, <2>10, <2>11, <2>12, <3>1 DEF ViewerInv
    <2>14. Meant(h, m)'
      <3>1. ToHost(h, v, m.msg)'
        BY <2>6, <2>7, <2>10, <2>12 DEF ToHost, Noise
      <3>2. s'[h].partner = v /\ h \notin Viewers
        BY <2>2, <2>10, SessionsDiffer DEF Mutual
      <3> QED BY <3>1, <3>2 DEF Meant
    <2>15. \A y \in Session : \A n \in Contents(inbox'[y]) : n \in Contents(inbox[y]) \/ Meant(y, n)'
      <3>1. \A y \in Session : \A n \in Contents(inbox'[y]) : n \in Contents(inbox[y]) \/ (y = h /\ n = m)
        BY <1>1, <1>3, <2>9, Replying
      <3> QED BY <2>14, <3>1
    <2>16. v \notin Hosts /\ hs[v].step # 3 /\ access' = access
      BY <1>1, SessionsDiffer
    <2>17. q.partner = s[v].partner
      BY <2>11
    <2> QED BY <1>1, <2>1, <2>9, <2>11, <2>13, <2>15, <2>16, <2>17, AgreementStep
  <1> QED BY <1>4, <1>5

LEMMA AskOwnerAgrees ==
    ASSUME AdmissionInv, AgreementInv, NEW h \in Hosts, AskOwner(h)
    PROVE  AgreementInv'
  <1> DEFINE r == ReadThird(hs[h], Head(inbox[h]).msg)
             a == SetPeerState(s[h], "awaiting")
             q == [a EXCEPT !.verdict = "asked"]
  <1>1. h \in Session /\ HeadFor(h, "noise") /\ hs[h].step = 2 /\ UNCHANGED <<access, spent>>
    BY SessionsDiffer DEF AskOwner
  <1>2. PICK v : v = s[h].partner
    OBVIOUS
  <1>3. inbox[h] # <<>> /\ ToHost(h, v, Head(inbox[h]).msg)
    BY <1>1, <1>2, HeadIsMeant DEF Meant
  <1>4. CASE Unreadable(h)
    BY <1>1, <1>3, <1>4, UnreadableAgrees
  <1>5. CASE ~Unreadable(h)
    <2>1. /\ hs' = [hs EXCEPT ![h] = r.hs]
          /\ inbox' = [inbox EXCEPT ![h] = Tail(@)]
          /\ s' = [s EXCEPT ![h] = q]
          /\ r.ok
      BY <1>5 DEF AskOwner
    <2>2. Mutual(h, v) /\ v \in Viewers /\ v \in Session /\ h # v
      BY <1>3, SessionsDiffer DEF ToHost, Mutual
    <2>3. hs[h] = Second(h, v).hs
      <3>1. AnswerInv(h) /\ Begun(s[h])
        BY <1>2, <2>2, SessionsDiffer DEF AgreementInv, Begun
      <3> QED BY <1>1, <1>2, <2>2, <3>1, PairAgrees DEF AnswerInv
    <2>4. Head(inbox[h]).msg = Third(h, v).msg /\ hs[v] = Third(h, v).hs
      BY <1>3, <2>1, <2>2, <2>3, PairAgrees DEF ToHost
    <2>5. r.hs = Heard(h, v)
      BY <2>3, <2>4 DEF Heard
    <2> HIDE DEF r
    <2>6. PICK k : k = Heard(h, v)
      OBVIOUS
    <2>7. /\ Quiet(h, s[h], a) /\ NoFurther(s[h], a) /\ a.phase = s[h].phase
      <3>1. IsState(s[h])
        BY <1>1 DEF AdmissionInv, Shapes
      <3> QED BY <3>1, StateChangeIsQuiet DEF PeerStates
    <2> HIDE DEF a
    <2>8. q.partner = v
      BY <1>2, <2>7, FieldNames DEF Quiet, Plain, IsState
    <2>9. s[h].verdict # "yes"
      BY <1>1 DEF AdmissionInv, HostInv
    <2> HIDE DEF q
    <2>10. k.step = 3 /\ hs' = [hs EXCEPT ![h] = k]
      BY <2>1, <2>2, <2>5, <2>6, PairAgrees
    <2>11. /\ hs'[h] = k /\ hs'[v] = hs[v] /\ s'[h] = q /\ s'[v] = s[v]
           /\ Third(h, v)' = Third(h, v) /\ Heard(h, v)' = Heard(h, v)
      BY <1>1, <2>1, <2>2, <2>10, ReferenceStays DEF AdmissionInv, Shapes
    <2>12. Mutual(h, v)'
      BY <2>2, <2>8, <2>11 DEF Mutual
    <2>13. AnswerInv(h)'
      BY <2>4, <2>6, <2>8, <2>11, <2>12 DEF AnswerInv
    <2>14. \A y \in Session : \A n \in Contents(inbox'[y]) : n \in Contents(inbox[y]) \/ Meant(y, n)'
      BY <1>1, <1>3, <2>1, Taking
    <2>15. h \notin Viewers
      BY SessionsDiffer
    <2> QED BY <1>1, <1>2, <2>1, <2>8, <2>9, <2>10, <2>13, <2>14, <2>15, AgreementStep
  <1> QED BY <1>4, <1>5

\* The verdict leaves the rest of the host's attempt as a quiet step would.
LEMMA VerdictAgrees ==
    ASSUME AdmissionInv, AgreementInv, NEW h \in Hosts, NEW q, s' = [s EXCEPT ![h] = q],
           UNCHANGED <<access, hs>>, s[h].verdict = "asked", q.partner = s[h].partner,
           q.phase \notin Early, q.ctl = "none" => s[h].ctl = "none",
           \/ UNCHANGED inbox
           \/ \E ok \in BOOLEAN : /\ inbox' = Deliver(s[h].partner, Consent(ok))
                                  /\ ok => q.verdict = "yes"
    PROVE  AgreementInv'
  <1>1. h \in Session /\ h \notin Viewers /\ HostInv(h) /\ AnswerInv(h)
    BY SessionsDiffer DEF AdmissionInv, AgreementInv
  <1>2. PICK v : v = s[h].partner
    OBVIOUS
  <1>3. Begun(s[h])
    BY <1>1 DEF HostInv, Begun
  <1>4. v \in Viewers /\ Mutual(h, v)
    <2>1. v \in Viewers /\ hs[h].step = 3
      BY <1>1, <1>2 DEF HostInv
    <2>2. hs[h].step # 0 => Mutual(h, v)
      BY <1>1, <1>2, <1>3, <2>1, PairAgrees DEF AnswerInv
    <2> QED BY <2>1, <2>2
  <1>5. v \in Session /\ v # h /\ s'[h] = q /\ s'[v] = s[v]
    BY <1>1, <1>4, SessionsDiffer DEF AdmissionInv, Shapes
  <1>6. Mutual(h, v)'
    BY <1>2, <1>4, <1>5 DEF Mutual
  <1>7. \A y \in Session : \A n \in Contents(inbox'[y]) : n \in Contents(inbox[y]) \/ Meant(y, n)'
    <2>1. CASE UNCHANGED inbox
      BY <2>1
    <2>2. ASSUME NEW ok \in BOOLEAN, inbox' = Deliver(v, Consent(ok)), ok => q.verdict = "yes"
          PROVE  \A y \in Session : \A n \in Contents(inbox'[y]) : n \in Contents(inbox[y]) \/ Meant(y, n)'
      <3> DEFINE m == Consent(ok)
      <3>1. \A y \in Session : \A n \in Contents(inbox'[y]) : n \in Contents(inbox[y]) \/ (y = v /\ n = m)
        BY <2>2, Sending
      <3>2. m.t # "noise" /\ (Yes(m) => ok) /\ s'[v].partner = h
        BY <1>4, <1>5 DEF Consent, Yes, Mutual
      <3> HIDE DEF m
      <3>3. Meant(v, m)'
        BY <1>5, <1>6, <2>2, <3>2 DEF Meant
      <3> QED BY <3>1, <3>3
    <2> QED BY <1>2, <2>1, <2>2
  <1>8. Begun(q) => Begun(s[h])
    BY <1>3
  <1> QED BY <1>1, <1>7, <1>8, PlainAgrees

LEMMA AllowAgrees ==
    ASSUME AdmissionInv, AgreementInv, NEW h \in Hosts, Allow(h)
    PROVE  AgreementInv'
  <1> DEFINE r == s[h]
  <1>1. /\ IsState(r) /\ UNCHANGED <<access, hs, spent>> /\ r.verdict = "asked" /\ HostInv(h)
    BY SessionsDiffer DEF AdmissionInv, Shapes, Allow
  <1>2. CASE r.shut
    <2> DEFINE q == [r EXCEPT !.verdict = "late"]
    <2>1. s' = [s EXCEPT ![h] = q] /\ UNCHANGED inbox
      BY <1>2 DEF Allow
    <2>2. q.partner = r.partner /\ q.phase = r.phase /\ q.ctl = r.ctl
      BY <1>1, FieldNames DEF IsState
    <2> HIDE DEF q
    <2> QED BY <1>1, <2>1, <2>2, VerdictAgrees DEF HostInv
  <1>3. CASE ~r.shut
    <2> DEFINE p == SetPeerState(r, "secure")
               a == ResendAll(h, p)
               b == [a EXCEPT !.phase = "live"]
               q == [b EXCEPT !.verdict = "yes"]
    <2>1. Quiet(h, r, p) /\ NoFurther(r, p) /\ p.phase = r.phase
      BY <1>1, StateChangeIsQuiet DEF PeerStates
    <2>2. r.phase = "running"
      BY <1>1, <1>3 DEF HostInv
    <2>3. s' = [s EXCEPT ![h] = q] /\ inbox' = Deliver(r.partner, Consent(TRUE))
      BY <1>3, <2>1, <2>2 DEF Allow, Secure
    <2> HIDE DEF p
    <2>4. Quiet(h, p, a) /\ NoFurther(p, a)
      BY <2>1, ResendIsQuiet DEF Quiet, Plain
    <2> HIDE DEF a
    <2>5. IsState(a) /\ a.partner = r.partner /\ (a.ctl = "none" => r.ctl = "none")
      BY <2>1, <2>4 DEF Quiet, Plain, NoFurther
    <2>6. q.partner = r.partner /\ q.phase = "live" /\ (q.ctl = "none" => r.ctl = "none") /\ q.verdict = "yes"
      BY <2>5, FieldNames DEF IsState
    <2> HIDE DEF q
    <2> QED BY <1>1, <2>3, <2>6, VerdictAgrees DEF Early
  <1> QED BY <1>2, <1>3

LEMMA RefuseAgrees ==
    ASSUME AdmissionInv, AgreementInv, NEW h \in Hosts, Refuse(h)
    PROVE  AgreementInv'
  <1> DEFINE r == s[h]
             a == Finish(h, r)
             q == [a EXCEPT !.verdict = "no"]
  <1>1. /\ IsState(r) /\ UNCHANGED <<access, hs, spent>> /\ r.verdict = "asked" /\ HostInv(h)
    BY SessionsDiffer DEF AdmissionInv, Shapes, Refuse
  <1>2. s' = [s EXCEPT ![h] = q] /\ (UNCHANGED inbox \/ inbox' = Deliver(r.partner, Consent(FALSE)))
    BY DEF Refuse
  <1>3. Quiet(h, r, a) /\ NoFurther(r, a)
    BY <1>1, FinishIsQuiet
  <1> HIDE DEF a
  <1>4. q.partner = r.partner /\ q.phase = a.phase /\ (q.ctl = "none" => r.ctl = "none")
    BY <1>3, FieldNames DEF IsState, Quiet, Plain, NoFurther
  <1> HIDE DEF q
  <1>5. q.phase \notin Early
    BY <1>1, <1>3, <1>4 DEF Quiet, Plain, Ending, HostInv, Early
  <1> QED BY <1>1, <1>2, <1>4, <1>5, VerdictAgrees

LEMMA HearVerdictAgrees ==
    ASSUME AdmissionInv, AgreementInv, NEW v \in Viewers, HearVerdict(v)
    PROVE  AgreementInv'
  <1> DEFINE r == s[v]
             m == Head(inbox[v])
  <1>1. /\ v \in Session /\ IsState(r) /\ UNCHANGED <<access, hs, spent>>
        /\ inbox[v] # <<>> /\ m.t = "consent" /\ Meant(v, m)
        /\ inbox' = [inbox EXCEPT ![v] = Tail(@)]
    BY SessionsDiffer, HeadIsMeant DEF AdmissionInv, Shapes, HearVerdict
  <1>2. \A y \in Session : \A n \in Contents(inbox'[y]) : n \in Contents(inbox[y]) \/ Meant(y, n)'
    BY <1>1, Taking
  <1>3. CASE m.ok /\ r.phase = "running"
    <2> DEFINE p == SetPeerState(r, "secure")
               a == ResendAll(v, p)
               q == [a EXCEPT !.phase = "live"]
    <2>1. Quiet(v, r, p) /\ NoFurther(r, p) /\ p.phase = r.phase
      BY <1>1, StateChangeIsQuiet DEF PeerStates
    <2>2. s' = [s EXCEPT ![v] = q]
      BY <1>3, <2>1 DEF HearVerdict, Secure
    <2> HIDE DEF p
    <2>3. Quiet(v, p, a) /\ NoFurther(p, a)
      BY <2>1, ResendIsQuiet DEF Quiet, Plain
    <2> HIDE DEF a
    <2>4. /\ IsState(a) /\ a.partner = r.partner /\ (a.ctl = "none" => r.ctl = "none")
          /\ a.verdict = r.verdict
      BY <2>1, <2>3 DEF Quiet, Plain, NoFurther
    <2>5. /\ q.partner = r.partner /\ q.phase = "live" /\ (q.ctl = "none" => r.ctl = "none")
          /\ q.verdict = r.verdict
      BY <2>4, FieldNames DEF IsState
    <2>6. Yes(m)
      BY <1>1, <1>3 DEF Yes
    <2> HIDE DEF q, m
    <2>7. Mutual(r.partner, v) /\ s[r.partner].verdict = "yes" /\ r.partner # None
      BY <1>1, <2>6, SessionsDiffer DEF Meant, Mutual
    <2>8. Begun(r)
      BY <2>7 DEF Begun
    <2> QED BY <1>1, <1>2, <2>2, <2>5, <2>7, <2>8, PlainAgrees DEF Early
  <1>4. CASE m.ok /\ r.phase # "running"
    <2>1. s' = [s EXCEPT ![v] = SetPeerState(r, "secure")]
      <3>1. s' = [s EXCEPT ![v] = Secure(v, r)]
        BY <1>4 DEF HearVerdict
      <3> QED BY <1>1, <1>4, <3>1, SecureIsLive
    <2>2. /\ Quiet(v, r, SetPeerState(r, "secure")) /\ NoFurther(r, SetPeerState(r, "secure"))
          /\ SetPeerState(r, "secure").phase = r.phase
      BY <1>1, StateChangeIsQuiet DEF PeerStates
    <2>3. QuietStep(v)
      BY <2>1, <2>2 DEF QuietStep
    <2> QED BY <1>1, <1>2, <2>3, QuietStepAgrees
  <1>5. CASE ~m.ok
    <2>1. s' = [s EXCEPT ![v] = Finish(v, r)]
      BY <1>5 DEF HearVerdict
    <2>2. /\ Quiet(v, r, Finish(v, r)) /\ NoFurther(r, Finish(v, r))
          /\ Finish(v, r).phase = "running" => r.phase = "running"
      BY <1>1, FinishIsQuiet
    <2>3. QuietStep(v)
      BY <2>1, <2>2 DEF QuietStep
    <2> QED BY <1>1, <1>2, <2>3, QuietStepAgrees
  <1> QED BY <1>3, <1>4, <1>5

LEMMA AgreementInvInit == Init => AgreementInv
  <1> SUFFICES ASSUME Init PROVE AgreementInv
    OBVIOUS
  <1>1. \A x \in Session : s[x] = Fresh /\ inbox[x] = <<>>
    BY DEF Init
  <1>2. \A v \in Viewers : ViewerInv(v)
    BY <1>1, SessionsDiffer DEF ViewerInv, Begun, Fresh
  <1>3. \A h \in Hosts : AnswerInv(h)
    BY <1>1, SessionsDiffer DEF AnswerInv, Begun, Fresh
  <1>4. Contents(<<>>) = {}
    BY DEF Contents
  <1> QED BY <1>1, <1>2, <1>3, <1>4 DEF AgreementInv

LEMMA AgreementInvNext ==
    ASSUME AdmissionInv, AgreementInv, [Next]_vars
    PROVE  AgreementInv'
  <1>1. CASE UNCHANGED <<access, s, hs, inbox>>
    <2>1. ASSUME NEW h, NEW v
          PROVE  /\ Unmixed(h)' = Unmixed(h) /\ Unmixed(v)' = Unmixed(v)
                 /\ First(v)' = First(v) /\ Second(h, v)' = Second(h, v)
                 /\ Third(h, v)' = Third(h, v) /\ Heard(h, v)' = Heard(h, v)
                 /\ (Mutual(h, v) => Mutual(h, v)') /\ (Answered(h) => Answered(h)')
      BY <1>1, ReferenceStays DEF Mutual, Answered
    <2>2. ASSUME NEW v \in Viewers PROVE ViewerInv(v)'
      <3>1. PICK h : h = s[v].partner
        OBVIOUS
      <3> QED BY <1>1, <2>1, <3>1 DEF AgreementInv, ViewerInv
    <2>3. ASSUME NEW h \in Hosts PROVE AnswerInv(h)'
      <3>1. PICK v : v = s[h].partner
        OBVIOUS
      <3> QED BY <1>1, <2>1, <3>1 DEF AgreementInv, AnswerInv
    <2>4. ASSUME NEW x \in Session, NEW m \in Contents(inbox'[x]) PROVE Meant(x, m)'
      <3>1. PICK z : z = s[x].partner
        OBVIOUS
      <3>2. Meant(x, m) /\ s'[x].partner = z /\ s'[z] = s[z] /\ hs'[z] = hs[z]
        BY <1>1, <2>4, <3>1 DEF AgreementInv
      <3> QED BY <2>1, <3>1, <3>2 DEF Meant, ToHost, ToViewer
    <2> QED BY <2>2, <2>3, <2>4 DEF AgreementInv
  <1>2. ASSUME NEW x \in Session,
               \/ Start(x) \/ RelaysReady(x) \/ Opened(x) \/ OpenFailed(x)
               \/ Stop(x) \/ ChannelsClosed(x) \/ Crash(x) \/ Callbacks(x)
        PROVE  AgreementInv'
    <2>1. CASE QuietStep(x) /\ UNCHANGED <<access, hs, inbox, spent>>
      BY <2>1, QuietStepAgrees
    <2>2. CASE Crash(x)
      BY <2>2, CrashIsQuiet, QuietStepAgrees
    <2> QED BY <1>2, <2>1, <2>2, StartAgrees, OpenedAgrees, LifeIsQuiet, SignallingIsQuiet,
               ReceiveAgrees, IceConnectedAgrees, CtlOpenAgrees DEF Callbacks
  <1>3. ASSUME NEW v \in Viewers, WaitTimeout(v) \/ AnswerSecond(v) \/ HearVerdict(v)
        PROVE  AgreementInv'
    <2>1. CASE WaitTimeout(v)
      BY <2>1, EndsIsQuiet, QuietStepAgrees, SessionsDiffer DEF WaitTimeout
    <2> QED BY <1>3, <2>1, AnswerSecondAgrees, HearVerdictAgrees
  <1>4. ASSUME NEW h \in Hosts, AnswerFirst(h) \/ AskOwner(h) \/ Allow(h) \/ Refuse(h)
        PROVE  AgreementInv'
    BY <1>4, AnswerFirstAgrees, AskOwnerAgrees, AllowAgrees, RefuseAgrees
  <1> QED BY <1>1, <1>2, <1>3, <1>4 DEF Next, Forget, vars

\* A viewer that is live was let in by the owner at the other end, and both
\* ends hold the same four words, the same keys and each other's names,
\* whatever was lost, repeated or reordered and however many try at once.
THEOREM LiveMeansAgreed == Spec => []SecureMeansAgreed
  <1>1. Init => AdmissionInv /\ AgreementInv
    BY AdmissionInvInit, AgreementInvInit
  <1>2. AdmissionInv /\ AgreementInv /\ [Next]_vars => AdmissionInv' /\ AgreementInv'
    BY AdmissionInvNext, AgreementInvNext
  <1>3. ASSUME AdmissionInv, AgreementInv PROVE SecureMeansAgreed
    <2> SUFFICES ASSUME NEW v \in Viewers, s[v].phase = "live", NEW h, h = s[v].partner
                 PROVE  /\ s[h].partner = v /\ s[h].verdict = "yes"
                        /\ DeriveSAS(hs[v]) = DeriveSAS(hs[h])
                        /\ Split(hs[v]).send = Split(hs[h]).recv
                        /\ Split(hs[v]).recv = Split(hs[h]).send
                        /\ hs[v].rs = Static(h) /\ hs[h].rs = Static(v)
      BY DEF SecureMeansAgreed
    <2>1. Mutual(h, v) /\ s[h].verdict = "yes" /\ h \in Hosts
      BY <1>3 DEF AgreementInv, ViewerInv, Mutual
    <2>2. hs[h].step = 3 /\ Begun(s[h]) /\ s[h].partner = v
      BY <1>3, <2>1, SessionsDiffer DEF AdmissionInv, HostInv, Mutual, Begun
    <2>3. hs[h] = Heard(h, v) /\ hs[v] = Third(h, v).hs
      BY <1>3, <2>1, <2>2, PairAgrees DEF AgreementInv, AnswerInv
    <2> QED BY <2>1, <2>2, <2>3, PairAgrees
  <1> QED BY <1>1, <1>2, <1>3, PTL DEF Spec

-----------------------------------------------------------------------------
(* Sequences of entries.                                                    *)

\* A set of numbers has a least one.
LEMMA Least == ASSUME NEW T \in SUBSET Nat, T # {} PROVE \E k \in T : \A n \in T : k <= n
  <1> DEFINE R == {p \in Nat \X Nat : p[1] < p[2]}
  <1>1. IsWellFoundedOn(R, Nat)
    BY NatLessThanWellFounded DEF OpToRel
  <1>2. \E k \in T : \A n \in T : <<n, k>> \notin R
    <2> HIDE DEF R
    <2> QED BY <1>1, WFMin
  <1>3. PICK k \in T : \A n \in T : <<n, k>> \notin R
    BY <1>2
  <1>4. ASSUME NEW n \in T, n < k PROVE FALSE
    <2>1. <<n, k>> \in R
      BY <1>4
    <2> QED BY <1>3, <2>1
  <1> QED BY <1>4

LEMMA MinIsLeast == ASSUME NEW T \in SUBSET Nat, T # {} PROVE Min(T) \in T
  <1>1. \E k \in T : \A n \in T : k <= n
    BY Least
  <1> QED BY <1>1 DEF Min

\* One sequence after another.
LEMMA Joined ==
    ASSUME NEW S, NEW a \in Seq(S), NEW b \in Seq(S)
    PROVE  /\ a \o b \in Seq(S) /\ Len(a \o b) = Len(a) + Len(b)
           /\ \A i \in 1 .. Len(a) : (a \o b)[i] = a[i]
           /\ \A i \in 1 .. Len(b) : (a \o b)[Len(a) + i] = b[i]
  OBVIOUS

\* A sequence without its k-th element.
LEMMA Removed ==
    ASSUME NEW S, NEW q \in Seq(S), NEW k \in 1 .. Len(q)
    PROVE  /\ RemoveAt(q, k) \in Seq(S) /\ Len(RemoveAt(q, k)) = Len(q) - 1
           /\ \A i \in 1 .. Len(q) - 1 : RemoveAt(q, k)[i] = IF i < k THEN q[i] ELSE q[i + 1]
  <1>1. PICK a \in Seq(S) :
           a = SubSeq(q, 1, k - 1) /\ Len(a) = k - 1 /\ \A i \in 1 .. k - 1 : a[i] = q[i]
    <2> DEFINE d == SubSeq(q, 1, k - 1)
    <2>1. d \in Seq(S) /\ Len(d) = k - 1 /\ \A i \in 1 .. k - 1 : d[i] = q[i]
      OBVIOUS
    <2> QED BY <2>1
  <1>2. PICK b \in Seq(S) :
           /\ b = SubSeq(q, k + 1, Len(q)) /\ Len(b) = Len(q) - k
           /\ \A i \in 1 .. Len(q) - k : b[i] = q[i + k]
    <2> DEFINE d == SubSeq(q, k + 1, Len(q))
    <2>1. d \in Seq(S) /\ Len(d) = Len(q) - k /\ \A i \in 1 .. Len(q) - k : d[i] = q[i + k]
      OBVIOUS
    <2> QED BY <2>1
  <1>3. RemoveAt(q, k) = a \o b
    BY <1>1, <1>2 DEF RemoveAt
  <1>4. /\ a \o b \in Seq(S) /\ Len(a \o b) = Len(q) - 1
        /\ \A i \in 1 .. k - 1 : (a \o b)[i] = a[i]
        /\ \A i \in 1 .. Len(q) - k : (a \o b)[(k - 1) + i] = b[i]
    <2>1. k - 1 \in Nat /\ Len(q) - k \in Nat /\ k - 1 + (Len(q) - k) = Len(q) - 1
      OBVIOUS
    <2>2. /\ a \o b \in Seq(S) /\ Len(a \o b) = Len(a) + Len(b)
          /\ \A i \in 1 .. Len(a) : (a \o b)[i] = a[i]
          /\ \A i \in 1 .. Len(b) : (a \o b)[Len(a) + i] = b[i]
      BY Joined
    <2>3. Len(a) = k - 1 /\ Len(b) = Len(q) - k
      BY <1>1, <1>2
    <2> QED BY <2>1, <2>2, <2>3
  <1>5. ASSUME NEW i \in 1 .. Len(q) - 1
        PROVE  (a \o b)[i] = IF i < k THEN q[i] ELSE q[i + 1]
    <2>1. CASE i < k
      BY <1>1, <1>4, <2>1
    <2>2. CASE i >= k
      <3>1. PICK p \in 1 .. Len(q) - k : (k - 1) + p = i /\ p + k = i + 1
        <4>1. i - (k - 1) \in 1 .. Len(q) - k
          BY <2>2
        <4> QED BY <4>1
      <3>2. b[p] = q[i + 1]
        BY <1>2, <3>1
      <3>3. (a \o b)[i] = b[p]
        BY <1>4, <3>1
      <3>4. ~(i < k)
        BY <2>2
      <3>5. (a \o b)[i] = q[i + 1]
        BY <3>2, <3>3, Zenon
      <3> QED BY <3>4, <3>5, Zenon
    <2>3. i < k \/ i >= k
      OBVIOUS
    <2> QED BY <2>1, <2>2, <2>3, Zenon
  <1> QED BY <1>3, <1>4, <1>5

\* The first m entries of the log L of y, each once, the candidates in order.
Lists(all, m, y, L) ==
    /\ all \in Seq(Entry)
    /\ \A i \in 1 .. Len(all) :
          all[i].from = y /\ all[i].n \in 0 .. m - 1 /\ all[i].kind = L[all[i].n + 1]
    /\ \A n \in 0 .. m - 1 : \E i \in 1 .. Len(all) : all[i].n = n
    /\ \A i, j \in 1 .. Len(all) :
          i < j => all[i].n # all[j].n /\ (all[i].kind = "candidate" => all[i].n < all[j].n)

\* The entries of that log from m to k, as they follow each other.
Follows(sigs, m, k, y, L) ==
    /\ sigs \in Seq(Entry) /\ Len(sigs) = k - m
    /\ \A i \in 1 .. k - m :
          sigs[i].from = y /\ sigs[i].n = m + i - 1 /\ sigs[i].kind = L[sigs[i].n + 1]

LEMMA ListGoesOn ==
    ASSUME NEW m \in Nat, NEW k \in Nat, m <= k, NEW y, NEW L,
           NEW all, Lists(all, m, y, L), NEW sigs, Follows(sigs, m, k, y, L)
    PROVE  Lists(all \o sigs, k, y, L)
  <1> DEFINE t == all \o sigs
             a == Len(all)
  <1>1. all \in Seq(Entry) /\ sigs \in Seq(Entry) /\ Len(sigs) = k - m /\ a \in Nat
    BY DEF Lists, Follows
  <1>2. /\ t \in Seq(Entry) /\ Len(t) = a + (k - m)
        /\ \A i \in 1 .. a : t[i] = all[i]
        /\ \A i \in 1 .. k - m : t[a + i] = sigs[i]
    BY <1>1
  <1> HIDE DEF t, a
  <1>3. \A i \in 1 .. Len(t) : i \in 1 .. a \/ \E j \in 1 .. k - m : i = a + j
    <2> SUFFICES ASSUME NEW i \in 1 .. Len(t), i \notin 1 .. a
                 PROVE  \E j \in 1 .. k - m : i = a + j
      OBVIOUS
    <2>1. i - a \in 1 .. k - m /\ i = a + (i - a)
      BY <1>1, <1>2
    <2> QED BY <2>1
  <1>4. /\ \A i \in 1 .. a : /\ t[i].from = y /\ t[i].n \in 0 .. m - 1
                           /\ t[i].kind = L[t[i].n + 1]
        /\ \A i \in 1 .. k - m : /\ t[a + i].from = y /\ t[a + i].n = m + i - 1
                               /\ t[a + i].kind = L[t[a + i].n + 1]
    <2>1. \A i \in 1 .. a : /\ all[i].from = y /\ all[i].n \in 0 .. m - 1
                            /\ all[i].kind = L[all[i].n + 1]
      BY DEF Lists, a
    <2>2. \A i \in 1 .. k - m : /\ sigs[i].from = y /\ sigs[i].n = m + i - 1
                                /\ sigs[i].kind = L[sigs[i].n + 1]
      BY DEF Follows
    <2>3. ASSUME NEW i \in 1 .. a
          PROVE  t[i].from = y /\ t[i].n \in 0 .. m - 1 /\ t[i].kind = L[t[i].n + 1]
      <3>1. t[i] = all[i]
        BY <1>2
      <3> QED BY <2>1, <3>1
    <2>4. ASSUME NEW i \in 1 .. k - m
          PROVE  /\ t[a + i].from = y /\ t[a + i].n = m + i - 1
                 /\ t[a + i].kind = L[t[a + i].n + 1]
      <3>1. t[a + i] = sigs[i]
        BY <1>2
      <3> QED BY <2>2, <3>1
    <2> QED BY <2>3, <2>4
  <1>5. \A i \in 1 .. Len(t) : /\ t[i].from = y /\ t[i].n \in 0 .. k - 1
                             /\ t[i].kind = L[t[i].n + 1]
    <2> SUFFICES ASSUME NEW i \in 1 .. Len(t)
                 PROVE  t[i].from = y /\ t[i].n \in 0 .. k - 1 /\ t[i].kind = L[t[i].n + 1]
      OBVIOUS
    <2>1. CASE i \in 1 .. a
      BY <1>4, <2>1
    <2>2. ASSUME NEW j \in 1 .. k - m, i = a + j
          PROVE  t[i].from = y /\ t[i].n \in 0 .. k - 1 /\ t[i].kind = L[t[i].n + 1]
      BY <1>4, <2>2
    <2> QED BY <1>3, <2>1, <2>2
  <1>6. ASSUME NEW n \in 0 .. k - 1
        PROVE  \E i \in 1 .. Len(t) : t[i].n = n
    <2>1. CASE n < m
      <3>0. n \in 0 .. m - 1 /\ \A p \in 0 .. m - 1 : \E i \in 1 .. a : all[i].n = p
        BY <2>1 DEF Lists, a
      <3>1. PICK i \in 1 .. a : all[i].n = n
        BY <3>0
      <3>2. i \in 1 .. Len(t) /\ t[i].n = n
        BY <1>1, <1>2, <3>1
      <3> QED BY <3>2
    <2>2. CASE n >= m
      <3>1. n - m + 1 \in 1 .. k - m /\ m + (n - m + 1) - 1 = n
        BY <2>2
      <3>2. t[a + (n - m + 1)].n = n
        BY <1>4, <3>1
      <3>3. a + (n - m + 1) \in 1 .. Len(t)
        BY <1>1, <1>2, <3>1
      <3> QED BY <3>2, <3>3
    <2> QED BY <2>1, <2>2
  <1>7. ASSUME NEW i \in 1 .. Len(t), NEW j \in 1 .. Len(t), i < j
        PROVE  t[i].n # t[j].n /\ (t[i].kind = "candidate" => t[i].n < t[j].n)
    <2>1. CASE i \in 1 .. a /\ j \in 1 .. a
      BY <1>2, <1>7, <2>1 DEF Lists, a
    <2>2. ASSUME i \in 1 .. a, NEW h \in 1 .. k - m, j = a + h
          PROVE  t[i].n < t[j].n
      <3>1. t[i].n \in 0 .. m - 1 /\ t[j].n = m + h - 1
        BY <1>4, <2>2
      <3> QED BY <3>1
    <2>3. ASSUME NEW g \in 1 .. k - m, i = a + g, NEW h \in 1 .. k - m, j = a + h
          PROVE  t[i].n < t[j].n
      <3>1. t[i].n = m + g - 1 /\ t[j].n = m + h - 1
        BY <1>4, <2>3
      <3>2. g < h
        BY <1>1, <1>7, <2>3
      <3> QED BY <3>1, <3>2
    <2>4. ASSUME NEW g \in 1 .. k - m, i = a + g PROVE j \notin 1 .. a
      BY <1>1, <1>7, <2>4
    <2>5. t[i].n \in Int /\ t[j].n \in Int
      BY <1>5
    <2> QED BY <1>3, <2>1, <2>2, <2>3, <2>4, <2>5
  <1>8. Lists(t, k, y, L)
    BY <1>2, <1>5, <1>6, <1>7 DEF Lists
  <1> QED BY <1>8 DEF t

\* One element taken to the front of what two sequences make together.
LEMMA Fronted ==
    ASSUME NEW all \in Seq(Entry), NEW sigs \in Seq(Entry), NEW k \in 1 .. Len(sigs)
    PROVE  \E c, t \in Seq(Entry), f \in 1 .. Len(all \o sigs) :
              /\ c = all \o sigs /\ t = <<sigs[k]>> \o all \o RemoveAt(sigs, k)
              /\ Len(t) = Len(c) /\ c[f] = sigs[k] /\ t[1] = c[f]
              /\ \A i \in 2 .. f : t[i] = c[i - 1]
              /\ \A i \in f + 1 .. Len(c) : t[i] = c[i]
  <1> DEFINE a == Len(all)
  <1>0. a \in Nat /\ Len(sigs) \in Nat /\ sigs[k] \in Entry
    OBVIOUS
  <1>1. PICK c \in Seq(Entry) :
           /\ c = all \o sigs /\ Len(c) = Len(all) + Len(sigs)
           /\ \A i \in 1 .. Len(all) : c[i] = all[i]
           /\ \A i \in 1 .. Len(sigs) : c[Len(all) + i] = sigs[i]
    <2> DEFINE d == all \o sigs
    <2>1. /\ d \in Seq(Entry) /\ Len(d) = Len(all) + Len(sigs)
          /\ \A i \in 1 .. Len(all) : d[i] = all[i]
          /\ \A i \in 1 .. Len(sigs) : d[Len(all) + i] = sigs[i]
      OBVIOUS
    <2> QED BY <2>1
  <1>2. PICK r \in Seq(Entry) :
           /\ r = RemoveAt(sigs, k) /\ Len(r) = Len(sigs) - 1
           /\ \A i \in 1 .. Len(sigs) - 1 : r[i] = IF i < k THEN sigs[i] ELSE sigs[i + 1]
    BY Removed
  <1>3. PICK o \in Seq(Entry) : o = <<sigs[k]>> /\ Len(o) = 1 /\ o[1] = sigs[k]
    <2> DEFINE d == <<sigs[k]>>
    <2>1. d \in Seq(Entry) /\ Len(d) = 1 /\ d[1] = sigs[k]
      BY <1>0
    <2> QED BY <2>1
  <1>4. PICK h \in Seq(Entry) :
           /\ h = o \o all /\ Len(h) = Len(o) + Len(all)
           /\ \A i \in 1 .. Len(o) : h[i] = o[i]
           /\ \A i \in 1 .. Len(all) : h[Len(o) + i] = all[i]
    <2> DEFINE d == o \o all
    <2>1. /\ d \in Seq(Entry) /\ Len(d) = Len(o) + Len(all)
          /\ \A i \in 1 .. Len(o) : d[i] = o[i]
          /\ \A i \in 1 .. Len(all) : d[Len(o) + i] = all[i]
      OBVIOUS
    <2> QED BY <2>1
  <1>5. PICK t \in Seq(Entry) :
           /\ t = h \o r /\ Len(t) = Len(h) + Len(r)
           /\ \A i \in 1 .. Len(h) : t[i] = h[i]
           /\ \A i \in 1 .. Len(r) : t[Len(h) + i] = r[i]
    <2> DEFINE d == h \o r
    <2>1. /\ d \in Seq(Entry) /\ Len(d) = Len(h) + Len(r)
          /\ \A i \in 1 .. Len(h) : d[i] = h[i]
          /\ \A i \in 1 .. Len(r) : d[Len(h) + i] = r[i]
      OBVIOUS
    <2> QED BY <2>1
  <1>6. Len(h) = 1 + a /\ Len(t) = Len(c) /\ a + k \in 1 .. Len(c)
    <2>1. Len(h) = 1 + a
      BY <1>3, <1>4
    <2>2. Len(t) = Len(h) + Len(sigs) - 1
      BY <1>0, <1>2, <1>5
    <2> QED BY <1>0, <1>1, <2>1, <2>2
  <1>7. c[a + k] = sigs[k] /\ t[1] = c[a + k]
    <2>1. t[1] = h[1] /\ h[1] = o[1]
      BY <1>0, <1>3, <1>4, <1>5, <1>6
    <2> QED BY <1>1, <1>3, <2>1
  <1>8. ASSUME NEW i \in 2 .. a + k PROVE t[i] = c[i - 1]
    <2>1. CASE i <= 1 + a
      <3>1. PICK p \in 1 .. a : i = 1 + p /\ p = i - 1
        <4>1. i - 1 \in 1 .. a /\ i = 1 + (i - 1)
          BY <1>0, <2>1
        <4> QED BY <4>1
      <3>2. t[i] = h[i] /\ h[1 + p] = all[p] /\ c[p] = all[p]
        BY <1>0, <1>1, <1>3, <1>4, <1>5, <1>6, <2>1, <3>1
      <3> QED BY <3>1, <3>2, Zenon
    <2>2. CASE i > 1 + a
      <3>1. PICK p \in 1 .. k - 1 : i = (1 + a) + p /\ a + p = i - 1
        <4>1. /\ i - (1 + a) \in 1 .. k - 1 /\ i = (1 + a) + (i - (1 + a))
              /\ a + (i - (1 + a)) = i - 1
          BY <1>0, <2>2
        <4> QED BY <4>1
      <3>2. p \in 1 .. Len(sigs) - 1 /\ p \in 1 .. Len(sigs) /\ p < k
        BY <1>0, <3>1
      <3>3. t[(1 + a) + p] = r[p] /\ r[p] = sigs[p] /\ c[a + p] = sigs[p]
        BY <1>1, <1>2, <1>5, <1>6, <3>2
      <3> QED BY <3>1, <3>3, Zenon
    <2>3. i <= 1 + a \/ i > 1 + a
      BY <1>0
    <2> QED BY <2>1, <2>2, <2>3, Zenon
  <1>9. ASSUME NEW i \in (a + k) + 1 .. Len(c) PROVE t[i] = c[i]
    <2>1. PICK p \in k .. Len(sigs) - 1 : i = (1 + a) + p /\ i = a + (p + 1)
      <3>1. /\ i - (1 + a) \in k .. Len(sigs) - 1 /\ i = (1 + a) + (i - (1 + a))
            /\ i = a + ((i - (1 + a)) + 1)
        BY <1>0, <1>1
      <3> QED BY <3>1
    <2>2. /\ p \in 1 .. Len(sigs) - 1 /\ p \in 1 .. Len(r) /\ p + 1 \in 1 .. Len(sigs)
          /\ ~(p < k)
      BY <1>0, <1>2, <2>1
    <2>3. t[(1 + a) + p] = r[p] /\ r[p] = sigs[p + 1] /\ c[a + (p + 1)] = sigs[p + 1]
      BY <1>1, <1>2, <1>5, <1>6, <2>2
    <2> QED BY <2>1, <2>3, Zenon
  <1>10. t = <<sigs[k]>> \o all \o RemoveAt(sigs, k)
    BY <1>2, <1>3, <1>4, <1>5, Zenon
  <1>11. PICK f \in 1 .. Len(c) : f = a + k
    BY <1>6
  <1> HIDE DEF a
  <1> QED BY <1>1, <1>6, <1>7, <1>8, <1>9, <1>10, <1>11, Zenon

LEMMA SdpFirst ==
    ASSUME NEW m, NEW y, NEW L, NEW c, Lists(c, m, y, L),
           NEW f \in 1 .. Len(c), c[f].kind = "sdp",
           NEW t \in Seq(Entry), Len(t) = Len(c), t[1] = c[f],
           \A i \in 2 .. f : t[i] = c[i - 1], \A i \in f + 1 .. Len(c) : t[i] = c[i]
    PROVE  Lists(t, m, y, L)
  <1>1. c \in Seq(Entry) /\ Len(c) \in Nat
    BY DEF Lists
  <1>2. \A i \in 1 .. Len(t) :
           \/ i = 1 /\ t[i] = c[f]
           \/ i \in 2 .. f /\ \E p \in 1 .. f - 1 : p = i - 1 /\ t[i] = c[p]
           \/ i \in f + 1 .. Len(c) /\ t[i] = c[i]
    <2> SUFFICES ASSUME NEW i \in 1 .. Len(t), i # 1, i \notin f + 1 .. Len(c)
                 PROVE  i \in 2 .. f /\ \E p \in 1 .. f - 1 : p = i - 1 /\ t[i] = c[p]
      OBVIOUS
    <2>1. i \in 2 .. f /\ i - 1 \in 1 .. f - 1
      BY <1>1
    <2>2. t[i] = c[i - 1]
      BY <2>1
    <2> QED BY <2>1, <2>2
  <1>3. ASSUME NEW i \in 1 .. Len(t)
        PROVE  \E p \in 1 .. Len(c) : t[i] = c[p]
    <2>1. \A p \in 1 .. f - 1 : p \in 1 .. Len(c)
      BY <1>1
    <2>2. \A p \in f + 1 .. Len(c) : p \in 1 .. Len(c)
      BY <1>1
    <2> QED BY <1>2, <2>1, <2>2
  <1>4. \A i \in 1 .. Len(t) :
           t[i].from = y /\ t[i].n \in 0 .. m - 1 /\ t[i].kind = L[t[i].n + 1]
    <2> SUFFICES ASSUME NEW i \in 1 .. Len(t)
                 PROVE  t[i].from = y /\ t[i].n \in 0 .. m - 1 /\ t[i].kind = L[t[i].n + 1]
      OBVIOUS
    <2>1. PICK p \in 1 .. Len(c) : t[i] = c[p]
      BY <1>3
    <2>2. c[p].from = y /\ c[p].n \in 0 .. m - 1 /\ c[p].kind = L[c[p].n + 1]
      BY DEF Lists
    <2> QED BY <2>1, <2>2
  <1>5. ASSUME NEW n \in 0 .. m - 1
        PROVE  \E i \in 1 .. Len(t) : t[i].n = n
    <2>1. PICK p \in 1 .. Len(c) : c[p].n = n
      BY DEF Lists
    <2>2. CASE p = f
      <3>1. 1 \in 1 .. Len(t) /\ t[1].n = n
        BY <1>1, <2>1, <2>2
      <3> QED BY <3>1
    <2>3. CASE p < f
      <3>1. PICK i \in 2 .. f : p = i - 1
        <4>1. p + 1 \in 2 .. f /\ p = (p + 1) - 1
          BY <1>1, <2>3
        <4> QED BY <4>1
      <3>2. i \in 1 .. Len(t) /\ t[i] = c[p]
        BY <1>1, <3>1
      <3> QED BY <2>1, <3>2
    <2>4. CASE p > f
      <3>1. p \in f + 1 .. Len(c) /\ p \in 1 .. Len(t)
        BY <1>1, <2>4
      <3>2. t[p] = c[p]
        BY <3>1
      <3> QED BY <2>1, <3>1, <3>2
    <2>5. p = f \/ p < f \/ p > f
      BY <1>1
    <2> QED BY <2>2, <2>3, <2>4, <2>5
  <1>6. \A i, j \in 1 .. Len(c) :
           i < j => c[i].n # c[j].n /\ (c[i].kind = "candidate" => c[i].n < c[j].n)
    BY DEF Lists
  <1>7. ASSUME NEW i \in 1 .. Len(t), NEW j \in 1 .. Len(t), i < j
        PROVE  t[i].n # t[j].n /\ (t[i].kind = "candidate" => t[i].n < t[j].n)
    <2>1. CASE i = 1
      <3>1. t[i] = c[f] /\ j # 1
        BY <1>7, <2>1
      <3>2. PICK p \in 1 .. Len(c) : t[j] = c[p] /\ p # f
        <4>1. CASE j \in 2 .. f
          <5>1. PICK p \in 1 .. f - 1 : t[j] = c[p]
            BY <1>1, <1>2, <4>1
          <5>2. p \in 1 .. Len(c) /\ p # f
            BY <1>1
          <5> QED BY <5>1, <5>2
        <4>2. CASE j \in f + 1 .. Len(c)
          <5>1. j \in 1 .. Len(c) /\ j # f
            BY <1>1, <4>2
          <5>2. t[j] = c[j]
            BY <4>2
          <5> QED BY <5>1, <5>2
        <4> QED BY <1>2, <3>1, <4>1, <4>2
      <3>3. c[f].n # c[p].n
        <4>1. CASE p < f
          BY <1>6, <4>1
        <4>2. CASE f < p
          BY <1>6, <4>2
        <4>3. p < f \/ f < p
          BY <1>1, <3>2
        <4> QED BY <4>1, <4>2, <4>3
      <3> QED BY <3>1, <3>2, <3>3
    <2>2. CASE i # 1
      <3>1. \E p, q \in 1 .. Len(c) : p < q /\ t[i] = c[p] /\ t[j] = c[q]
        <4>1. CASE i \in 2 .. f /\ j \in 2 .. f
          <5>1. i - 1 \in 1 .. Len(c) /\ j - 1 \in 1 .. Len(c) /\ i - 1 < j - 1
            BY <1>1, <1>7, <4>1
          <5>2. t[i] = c[i - 1] /\ t[j] = c[j - 1]
            BY <4>1
          <5> QED BY <5>1, <5>2
        <4>2. CASE i \in 2 .. f /\ j \in f + 1 .. Len(c)
          <5>1. i - 1 \in 1 .. Len(c) /\ j \in 1 .. Len(c) /\ i - 1 < j
            BY <1>1, <1>7, <4>2
          <5>2. t[i] = c[i - 1] /\ t[j] = c[j]
            BY <4>2
          <5> QED BY <5>1, <5>2
        <4>3. CASE i \in f + 1 .. Len(c) /\ j \in f + 1 .. Len(c)
          <5>1. i \in 1 .. Len(c) /\ j \in 1 .. Len(c)
            BY <1>1, <4>3
          <5>2. t[i] = c[i] /\ t[j] = c[j]
            BY <4>3
          <5> QED BY <1>7, <5>1, <5>2
        <4>4. /\ i \in 2 .. f \/ i \in f + 1 .. Len(c)
              /\ j \in 2 .. f \/ j \in f + 1 .. Len(c)
              /\ ~(i \in f + 1 .. Len(c) /\ j \in 2 .. f)
          BY <1>1, <1>7, <2>2
        <4> QED BY <4>1, <4>2, <4>3, <4>4
      <3> QED BY <1>6, <3>1
    <2> QED BY <2>1, <2>2
  <1> QED BY <1>4, <1>5, <1>7 DEF Lists

-----------------------------------------------------------------------------
(* What the agent of one attempt has been given. *)

\* The agent of r has the first entries of its partner's log L: it has been
\* given them, the description first, or they wait for the description.
Given(r, L) ==
    /\ r.nextRemote \in 0 .. Len(L)
    /\ r.pending \subseteq 0 .. Len(L) - 1
    /\ IF r.described
       THEN /\ r.queued = <<>> /\ r.applied # <<>> /\ r.applied[1].kind = "sdp"
            /\ Lists(r.applied, r.nextRemote, r.partner, L)
       ELSE r.applied = <<>> /\ Lists(r.queued, r.nextRemote, r.partner, L)

Blank(r) ==
    /\ ~r.described /\ r.applied = <<>> /\ r.queued = <<>>
    /\ r.nextRemote = 0 /\ r.pending = {}

\* What an attempt has sent is in its log.
Logged(r) ==
    /\ r.log \in Seq(Kinds) /\ Len(r.log) <= MaxLog
    /\ r.toAll \in 0 .. Len(r.log) + 1 /\ r.toPartner \in 0 .. Len(r.log) + 1

Ordered(x) ==
    /\ Logged(s[x])
    /\ IF s[x].partner \in Session THEN Given(s[x], s[s[x].partner].log) ELSE Blank(s[x])

OrderInv == \A x \in Session : Ordered(x)

\* The agent is given nothing new: what it had stays, or is forgotten.
SameGiven(r, q) ==
    /\ q.described = r.described /\ q.applied = r.applied /\ q.queued = r.queued
    /\ q.nextRemote = r.nextRemote /\ q.pending = r.pending

Orderly(r, q) ==
    /\ IsState(q) /\ q.partner = r.partner /\ q.log = r.log
    /\ q.toAll \in {r.toAll, Len(r.log) + 1} /\ q.toPartner \in {r.toPartner, Len(r.log) + 1}
    /\ Blank(q) \/ SameGiven(r, q)

LEMMA BlankIsGiven ==
    ASSUME NEW r, Blank(r), NEW L, NEW T, L \in Seq(T)
    PROVE  Given(r, L)
  <1>1. Len(L) \in Nat /\ <<>> \in Seq(Entry) /\ Len(<<>>) = 0
    OBVIOUS
  <1>2. Lists(<<>>, 0, r.partner, L)
    BY <1>1 DEF Lists
  <1> QED BY <1>1, <1>2 DEF Blank, Given

\* The entries sigs go to the agent of r, which turns it into q.
Takes(r, L, k, sigs, p, q) ==
    /\ IsState(r) /\ L \in Seq(Kinds) /\ Given(r, L)
    /\ k \in Nat /\ r.nextRemote <= k /\ k <= Len(L)
    /\ Follows(sigs, r.nextRemote, k, r.partner, L)
    /\ p \subseteq 0 .. Len(L) - 1
    /\ q = [ApplySignals(r, sigs) EXCEPT !.nextRemote = k, !.pending = p]

LEMMA SignalsGiven ==
    ASSUME NEW r, NEW L, NEW k, NEW sigs, NEW p, NEW q, Takes(r, L, k, sigs, p, q)
    PROVE  /\ Given(q, L) /\ q.partner = r.partner /\ q.log = r.log
           /\ q.toAll = r.toAll /\ q.toPartner = r.toPartner
  <1> DEFINE a == ApplySignals(r, sigs)
             m == r.nextRemote
             y == r.partner
  <1>0. /\ IsState(r) /\ L \in Seq(Kinds) /\ Given(r, L)
        /\ k \in Nat /\ r.nextRemote <= k /\ k <= Len(L)
        /\ Follows(sigs, r.nextRemote, k, r.partner, L)
        /\ p \subseteq 0 .. Len(L) - 1
        /\ q = [a EXCEPT !.nextRemote = k, !.pending = p]
    BY DEF Takes
  <1>1. /\ IsState(a) /\ a.partner = y /\ a.log = r.log
        /\ a.toAll = r.toAll /\ a.toPartner = r.toPartner
    BY <1>0, FieldNames DEF ApplySignals, IsState
  <1>2. /\ q.described = a.described /\ q.applied = a.applied /\ q.queued = a.queued
        /\ q.partner = y /\ q.log = r.log /\ q.toAll = r.toAll /\ q.toPartner = r.toPartner
        /\ q.nextRemote = k /\ q.pending = p
    <2> HIDE DEF a
    <2> QED BY <1>0, <1>1, FieldNames DEF IsState
  <1>3. sigs \in Seq(Entry) /\ m \in Nat /\ m <= k /\ k \in 0 .. Len(L)
    BY <1>0 DEF Follows, Given
  <1>4. ASSUME r.described PROVE Given(q, L)
    <2>1. a.described = r.described /\ a.applied = r.applied \o sigs /\ a.queued = r.queued
      BY <1>4, <1>0, FieldNames DEF ApplySignals, IsState
    <2>2. /\ r.queued = <<>> /\ r.applied # <<>> /\ r.applied[1].kind = "sdp"
          /\ Lists(r.applied, m, y, L)
      BY <1>0, <1>4 DEF Given
    <2>3. Lists(r.applied \o sigs, k, y, L)
      BY <1>0, <1>3, <2>2, ListGoesOn
    <2>4. PICK o \in Seq(Entry) : o = r.applied
      BY <2>2 DEF Lists
    <2>5. o \o sigs # <<>> /\ (o \o sigs)[1] = o[1]
      BY <1>3, <2>2, <2>4
    <2>6. q.applied # <<>> /\ q.applied[1].kind = "sdp"
      BY <1>2, <2>1, <2>2, <2>4, <2>5
    <2> HIDE DEF a
    <2> QED BY <1>0, <1>2, <1>3, <1>4, <2>1, <2>2, <2>3, <2>6 DEF Given
  <1>5. ASSUME ~r.described PROVE r.applied = <<>> /\ Lists(r.queued, m, y, L)
    BY <1>0, <1>5 DEF Given
  <1> DEFINE sdps == {i \in DOMAIN sigs : sigs[i].kind = "sdp"}
             f == Min(sdps)
  <1>6. ASSUME ~r.described, sdps = {} PROVE Given(q, L)
    <2>1. a.described = r.described /\ a.applied = r.applied /\ a.queued = r.queued \o sigs
      BY <1>6, <1>0, FieldNames DEF ApplySignals, IsState
    <2>2. Lists(r.queued \o sigs, k, y, L)
      BY <1>0, <1>3, <1>5, <1>6, ListGoesOn
    <2> HIDE DEF a, sdps
    <2> QED BY <1>0, <1>2, <1>3, <1>5, <1>6, <2>1, <2>2 DEF Given
  <1>7. ASSUME ~r.described, sdps # {} PROVE Given(q, L)
    <2>1. /\ a.described /\ a.queued = <<>>
          /\ a.applied = <<sigs[f]>> \o r.queued \o RemoveAt(sigs, f)
      BY <1>7, <1>0, FieldNames DEF ApplySignals, IsState
    <2>2. f \in 1 .. Len(sigs) /\ sigs[f].kind = "sdp"
      <3>1. sdps \in SUBSET Nat /\ \A i \in sdps : i \in 1 .. Len(sigs) /\ sigs[i].kind = "sdp"
        BY <1>3
      <3> HIDE DEF sdps
      <3> QED BY <1>7, <3>1, MinIsLeast
    <2> HIDE DEF f, sdps
    <2>3. PICK o \in Seq(Entry) : o = r.queued
      BY <1>5, <1>7 DEF Lists
    <2>4. PICK c \in Seq(Entry), t \in Seq(Entry), g \in 1 .. Len(o \o sigs) :
            /\ c = o \o sigs /\ t = <<sigs[f]>> \o o \o RemoveAt(sigs, f)
            /\ Len(t) = Len(c) /\ c[g] = sigs[f] /\ t[1] = c[g]
            /\ \A i \in 2 .. g : t[i] = c[i - 1]
            /\ \A i \in g + 1 .. Len(c) : t[i] = c[i]
      BY <1>3, <2>2, Fronted
    <2>10. c = o \o sigs /\ t = <<sigs[f]>> \o o \o RemoveAt(sigs, f) /\ g \in 1 .. Len(c)
      BY <2>4
    <2>5. Lists(c, k, y, L)
      BY <1>3, <1>5, <1>7, <2>3, <2>10, <1>0, ListGoesOn
    <2>6. c[g].kind = "sdp"
      BY <2>2, <2>4
    <2>7. Lists(t, k, y, L)
      BY <2>4, <2>5, <2>6, <2>10, SdpFirst
    <2>8. t # <<>>
      <3>1. Len(t) # 0
        BY <2>4, <2>10
      <3> QED BY <3>1
    <2>9. q.described /\ q.queued = <<>> /\ q.applied = t
      BY <1>2, <2>1, <2>3, <2>10
    <2>11. q.applied # <<>> /\ q.applied[1].kind = "sdp" /\ Lists(q.applied, q.nextRemote, q.partner, L)
      BY <1>2, <2>4, <2>6, <2>7, <2>8, <2>9
    <2> HIDE DEF a
    <2> QED BY <1>0, <1>2, <1>3, <2>9, <2>11 DEF Given
  <1>8. Given(q, L)
    BY <1>4, <1>6, <1>7
  <1> QED BY <1>2, <1>8, Zenon

\* Some of what y has sent reaches an attempt r that y is the partner of.
Hears(r, y, part, q) ==
    /\ y \in Session /\ Logged(s[y]) /\ IsState(r) /\ r.partner = y
    /\ Given(r, s[y].log)
    /\ part \subseteq 0 .. Len(s[y].log) - 1
    /\ q = TakeEntries(r, y, part)

LEMMA EntriesGiven ==
    ASSUME NEW r, NEW y, NEW part, NEW q, Hears(r, y, part, q)
    PROVE  /\ Given(q, s[y].log) /\ q.partner = r.partner /\ q.log = r.log
           /\ q.toAll = r.toAll /\ q.toPartner = r.toPartner
  <1> DEFINE L == s[y].log
             m == r.nextRemote
             seen == r.pending \cup {n \in part : n >= m}
             upTo == CHOOSE k \in m .. MaxLog : m .. k - 1 \subseteq seen /\ k \notin seen
             sigs == [i \in 1 .. upTo - m |->
                        [from |-> y, n |-> m + i - 1, kind |-> L[m + i]]]
             rest == {n \in seen : n >= upTo}
  <1>0. /\ y \in Session /\ Logged(s[y]) /\ IsState(r) /\ r.partner = y
        /\ Given(r, L)
        /\ part \subseteq 0 .. Len(L) - 1
        /\ q = TakeEntries(r, y, part)
    BY DEF Hears
  <1>1. /\ L \in Seq(Kinds) /\ Len(L) \in Nat /\ Len(L) <= MaxLog /\ MaxLog \in Nat
        /\ m \in Nat /\ m <= Len(L) /\ seen \subseteq 0 .. Len(L) - 1
    <2>1. L \in Seq(Kinds) /\ Len(L) \in Nat /\ Len(L) <= MaxLog /\ MaxLog \in Nat
      BY <1>0, ConnectionAssumption DEF Logged
    <2>2. m \in 0 .. Len(L) /\ r.pending \subseteq 0 .. Len(L) - 1
      BY <1>0 DEF Given
    <2>3. m \in Nat /\ m <= Len(L)
      BY <2>1, <2>2
    <2>4. seen \subseteq 0 .. Len(L) - 1
      BY <1>0, <2>2, Zenon
    <2> QED BY <2>1, <2>3, <2>4
  <1> HIDE DEF seen
  <1>2. \E k \in m .. MaxLog : m .. k - 1 \subseteq seen /\ k \notin seen
    <2> DEFINE T == {k \in Nat : k >= m /\ k \notin seen}
    <2>1. Len(L) \in T
      BY <1>1
    <2>2. PICK k \in T : \A n \in T : k <= n
      <3> HIDE DEF T
      <3>1. T \in SUBSET Nat
        BY DEF T
      <3> QED BY <2>1, <3>1, Least
    <2>3. k \in m .. MaxLog
      BY <1>1, <2>1, <2>2
    <2>4. ASSUME NEW n \in m .. k - 1 PROVE n \in seen
      BY <1>1, <2>2
    <2> QED BY <2>2, <2>3, <2>4
  <1>3. upTo \in m .. MaxLog /\ m .. upTo - 1 \subseteq seen /\ upTo \notin seen
    BY <1>2
  <1> HIDE DEF upTo
  <1>4. upTo \in Nat /\ m <= upTo /\ upTo <= Len(L)
    <2>1. upTo > m => upTo - 1 \in seen
      BY <1>1, <1>3
    <2> QED BY <1>1, <1>3, <2>1
  <1>5. Follows(sigs, m, upTo, y, L)
    <2>1. ASSUME NEW i \in 1 .. upTo - m
          PROVE  /\ [from |-> y, n |-> m + i - 1, kind |-> L[m + i]] \in Entry
                 /\ (m + i - 1) + 1 = m + i
      <3>1. m + i \in 1 .. Len(L) /\ m + i - 1 \in Seqs
        BY <1>1, <1>4 DEF Seqs
      <3>2. L[m + i] \in Kinds
        BY <1>1, <3>1
      <3> QED BY <1>0, <1>1, <3>1, <3>2 DEF Entry
    <2>2. upTo - m \in Nat
      BY <1>1, <1>4
    <2>3. sigs \in Seq(Entry) /\ Len(sigs) = upTo - m
      BY <2>1, <2>2
    <2>4. ASSUME NEW i \in 1 .. upTo - m
          PROVE  sigs[i].from = y /\ sigs[i].n = m + i - 1 /\ sigs[i].kind = L[sigs[i].n + 1]
      <3>1. sigs[i] = [from |-> y, n |-> m + i - 1, kind |-> L[m + i]]
        OBVIOUS
      <3> HIDE DEF sigs
      <3> QED BY <2>1, <3>1
    <2> HIDE DEF sigs
    <2> QED BY <2>3, <2>4 DEF Follows
  <1>6. rest \subseteq 0 .. Len(L) - 1
    BY <1>1
  <1>7. TakeEntries(r, y, part) = [ApplySignals(r, sigs) EXCEPT !.nextRemote = upTo, !.pending = rest]
    BY DEF TakeEntries, upTo, seen
  <1> HIDE DEF sigs, rest
  <1>8. /\ L \in Seq(Kinds) /\ Given(r, L) /\ upTo \in Nat /\ r.nextRemote <= upTo
        /\ Follows(sigs, r.nextRemote, upTo, r.partner, L)
    BY <1>0, <1>1, <1>4, <1>5
  <1>9. Takes(r, L, upTo, sigs, rest, q)
    BY <1>0, <1>4, <1>6, <1>7, <1>8 DEF Takes
  <1> HIDE DEF L
  <1>10. /\ Given(q, L) /\ q.partner = r.partner /\ q.log = r.log
         /\ q.toAll = r.toAll /\ q.toPartner = r.toPartner
    BY ONLY <1>9, SignalsGiven
  <1> QED BY <1>10 DEF L

-----------------------------------------------------------------------------
(* Steps that give the agent nothing new. *)

LEMMA OrderlyTrans ==
    ASSUME NEW a, NEW b, NEW c, Orderly(a, b), Orderly(b, c)
    PROVE  Orderly(a, c)
  BY DEF Orderly, SameGiven, Blank

LEMMA OrderlyFields ==
    ASSUME NEW r, IsState(r), NEW v
    PROVE  /\ Orderly(r, r) /\ Orderly(r, [r EXCEPT !.phase = v]) /\ Orderly(r, [r EXCEPT !.stop = v])
           /\ Orderly(r, [r EXCEPT !.peer = v]) /\ Orderly(r, [r EXCEPT !.ctl = v])
           /\ Orderly(r, [r EXCEPT !.ice = v]) /\ Orderly(r, [r EXCEPT !.verdict = v])
  BY FieldNames DEF Orderly, SameGiven, IsState

LEMMA ResendOrderly ==
    ASSUME NEW x, NEW r, IsState(r)
    PROVE  Orderly(r, ResendAll(x, r))
  BY FieldNames DEF Orderly, SameGiven, IsState, ResendAll

LEMMA CloseOrderly ==
    ASSUME NEW r, IsState(r)
    PROVE  Orderly(r, ClosePeer(r))
  BY FieldNames DEF Orderly, SameGiven, Blank, IsState, ClosePeer

LEMMA StateChangeOrderly ==
    ASSUME NEW r, IsState(r), NEW v
    PROVE  Orderly(r, SetPeerState(r, v))
  BY OrderlyFields DEF SetPeerState

LEMMA FinishOrderly ==
    ASSUME NEW x, NEW r, IsState(r)
    PROVE  Orderly(r, Finish(x, r))
  <1> DEFINE a == ResendAll(x, r)
             b == ClosePeer(a)
  <1>1. Orderly(r, a) /\ IsState(a)
    BY ResendOrderly DEF Orderly
  <1>2. Orderly(a, b) /\ IsState(b)
    BY <1>1, CloseOrderly DEF Orderly
  <1>3. Orderly(b, [b EXCEPT !.phase = "over"])
    BY <1>2, OrderlyFields
  <1>4. Finish(x, r) = IF r.phase \in {"running", "live"} THEN [b EXCEPT !.phase = "over"]
                                                         ELSE ClosePeer(r)
    BY DEF Finish, Over
  <1>5. Orderly(r, ClosePeer(r))
    BY CloseOrderly
  <1> HIDE DEF a, b
  <1>6. Orderly(r, [b EXCEPT !.phase = "over"])
    BY <1>1, <1>2, <1>3, OrderlyTrans
  <1> QED BY <1>4, <1>5, <1>6

LEMMA SecureOrderly ==
    ASSUME NEW x, NEW r, IsState(r)
    PROVE  Orderly(r, Secure(x, r))
  <1> DEFINE p == SetPeerState(r, "secure")
             a == ResendAll(x, p)
  <1>1. Orderly(r, p) /\ IsState(p)
    BY StateChangeOrderly DEF Orderly
  <1>2. Orderly(p, a) /\ IsState(a)
    BY <1>1, ResendOrderly DEF Orderly
  <1>3. Orderly(a, [a EXCEPT !.phase = "live"])
    BY <1>2, OrderlyFields
  <1>4. Secure(x, r) = IF p.phase = "running" THEN [a EXCEPT !.phase = "live"] ELSE p
    BY DEF Secure
  <1> HIDE DEF p, a
  <1>5. Orderly(r, [a EXCEPT !.phase = "live"])
    BY <1>1, <1>2, <1>3, OrderlyTrans
  <1> QED BY <1>1, <1>4, <1>5

\* One attempt moves on, with a log as long as before.
LEMMA OneMoves ==
    ASSUME AdmissionInv, OrderInv, NEW x \in Session, NEW q, s' = [s EXCEPT ![x] = q],
           q.log = s[x].log, Logged(q),
           IF q.partner \in Session THEN Given(q, s[q.partner].log) ELSE Blank(q)
    PROVE  OrderInv'
  <1>1. s = [z \in Session |-> s[z]]
    BY DEF AdmissionInv, Shapes
  <1>2. s'[x] = q /\ \A z \in Session \ {x} : s'[z] = s[z]
    BY <1>1
  <1>3. \A z \in Session : s'[z].log = s[z].log
    BY <1>2
  <1>4. ASSUME NEW z \in Session
        PROVE  /\ Logged(s'[z])
               /\ IF s'[z].partner \in Session THEN Given(s'[z], s[s'[z].partner].log)
                                              ELSE Blank(s'[z])
    <2>1. CASE z = x
      BY <1>2, <2>1
    <2>2. CASE z # x
      BY <1>2, <2>2 DEF OrderInv, Ordered
    <2> QED BY <2>1, <2>2
  <1> QED BY <1>3, <1>4 DEF OrderInv, Ordered

OrderlyStep(x) == \E q : Orderly(s[x], q) /\ s' = [s EXCEPT ![x] = q]

LEMMA OrderlyKeeps ==
    ASSUME AdmissionInv, OrderInv, NEW x \in Session, OrderlyStep(x)
    PROVE  OrderInv'
  <1>1. PICK q : Orderly(s[x], q) /\ s' = [s EXCEPT ![x] = q]
    BY DEF OrderlyStep
  <1>2. q.log = s[x].log /\ Logged(q)
    BY <1>1, ConnectionAssumption DEF Orderly, OrderInv, Ordered, Logged
  <1>3. IF q.partner \in Session THEN Given(q, s[q.partner].log) ELSE Blank(q)
    <2> DEFINE y == s[x].partner
    <2>1. q.partner = y
      BY <1>1 DEF Orderly
    <2>2. ASSUME y \in Session PROVE Given(q, s[y].log)
      <3>1. Given(s[x], s[y].log) /\ s[y].log \in Seq(Kinds)
        BY <2>2 DEF OrderInv, Ordered, Logged
      <3>2. CASE Blank(q)
        BY <3>1, <3>2, BlankIsGiven
      <3>3. CASE SameGiven(s[x], q)
        BY <2>1, <3>1, <3>3 DEF Given, SameGiven
      <3> QED BY <1>1, <3>2, <3>3 DEF Orderly
    <2>3. ASSUME y \notin Session PROVE Blank(q)
      BY <1>1, <2>3 DEF OrderInv, Ordered, Orderly, SameGiven, Blank
    <2> QED BY <2>1, <2>2, <2>3
  <1> QED BY <1>1, <1>2, <1>3, OneMoves

LEMMA EndsOrderly ==
    ASSUME AdmissionInv, NEW x \in Session, s' = [s EXCEPT ![x] = Finish(x, s[x])]
    PROVE  OrderlyStep(x)
  <1>1. IsState(s[x])
    BY DEF AdmissionInv, Shapes
  <1> QED BY <1>1, FinishOrderly DEF OrderlyStep

LEMMA LifeOrderly ==
    ASSUME AdmissionInv, NEW x \in Session,
           \/ Start(x) \/ RelaysReady(x) \/ Opened(x) \/ OpenFailed(x)
           \/ Stop(x) \/ ChannelsClosed(x) \/ Crash(x)
    PROVE  OrderlyStep(x)
  <1> DEFINE r == s[x]
  <1>1. IsState(r)
    BY DEF AdmissionInv, Shapes
  <1>2. ASSUME NEW v, s' = [s EXCEPT ![x].phase = v] PROVE OrderlyStep(x)
    BY <1>1, <1>2, OrderlyFields DEF OrderlyStep
  <1>3. CASE Start(x) \/ RelaysReady(x) \/ OpenFailed(x) \/ ChannelsClosed(x)
    BY <1>2, <1>3 DEF Start, RelaysReady, OpenFailed, ChannelsClosed
  <1>4. CASE Stop(x)
    <2>1. CASE s' = [s EXCEPT ![x].stop = TRUE]
      BY <1>1, <2>1, OrderlyFields DEF OrderlyStep
    <2>2. CASE Ends(x)
      BY <2>2, EndsOrderly DEF Ends
    <2> QED BY <1>4, <2>1, <2>2 DEF Stop
  <1>5. CASE Crash(x)
    <2> DEFINE b == ClosePeer(r)
    <2>1. Orderly(r, b) /\ IsState(b)
      BY <1>1, CloseOrderly DEF Orderly
    <2>2. Orderly(b, [b EXCEPT !.phase = "gone"])
      BY <2>1, OrderlyFields
    <2>3. s' = [s EXCEPT ![x] = [b EXCEPT !.phase = "gone"]]
      BY <1>5 DEF Crash
    <2> HIDE DEF b
    <2>4. Orderly(r, [b EXCEPT !.phase = "gone"])
      BY <2>1, <2>2, OrderlyTrans
    <2> QED BY <2>3, <2>4 DEF OrderlyStep
  <1>6. CASE Opened(x)
    <2> DEFINE b == [r EXCEPT !.phase = "running"]
               p == CreatePeer(b)
    <2>1. Orderly(r, b) /\ IsState(b)
      BY <1>1, OrderlyFields DEF Orderly
    <2>2. \/ s' = [s EXCEPT ![x].phase = "gone"] \/ s' = [s EXCEPT ![x] = b]
          \/ s' = [s EXCEPT ![x] = ResendAll(x, p)]
      BY <1>6 DEF Opened
    <2>3. p = [b EXCEPT !.peer = "new"]
      BY DEF CreatePeer
    <2> HIDE DEF b, p
    <2>4. Orderly(b, p) /\ IsState(p)
      BY <2>1, <2>3, OrderlyFields DEF Orderly
    <2>5. Orderly(p, ResendAll(x, p))
      BY <2>4, ResendOrderly
    <2>6. Orderly(r, ResendAll(x, p))
      BY <2>1, <2>4, <2>5, OrderlyTrans
    <2> QED BY <1>2, <2>1, <2>2, <2>6 DEF OrderlyStep
  <1> QED BY <1>3, <1>4, <1>5, <1>6

LEMMA ChannelOrderly ==
    ASSUME AdmissionInv, NEW x \in Session,
           \/ Speak(x) \/ ChannelFailed(x) \/ IceConnected(x) \/ IceFailed(x) \/ IceClosed(x)
           \/ CtlOpen(x) \/ CtlClosed(x) \/ HandshakeTimeout(x) \/ WaitTimeout(x)
    PROVE  OrderlyStep(x)
  <1> DEFINE r == s[x]
  <1>1. IsState(r)
    BY DEF AdmissionInv, Shapes
  <1>2. CASE Ends(x)
    BY <1>2, EndsOrderly DEF Ends
  <1>3. CASE Speak(x)
    BY <1>1, <1>3, ResendOrderly DEF Speak, OrderlyStep
  <1>4. CASE IceClosed(x)
    BY <1>1, <1>4, StateChangeOrderly DEF IceClosed, OrderlyStep
  <1>5. CASE IceConnected(x)
    <2> DEFINE a == ResendAll(x, r)
    <2>1. Orderly(r, a) /\ IsState(a)
      BY <1>1, ResendOrderly DEF Orderly
    <2>2. s' = [s EXCEPT ![x] = [a EXCEPT !.ice = TRUE]]
      BY <1>5 DEF IceConnected
    <2> HIDE DEF a
    <2>3. Orderly(a, [a EXCEPT !.ice = TRUE])
      BY <2>1, OrderlyFields
    <2>4. Orderly(r, [a EXCEPT !.ice = TRUE])
      BY <2>1, <2>3, OrderlyTrans
    <2> QED BY <2>2, <2>4 DEF OrderlyStep
  <1>6. CASE CtlOpen(x)
    <2> DEFINE a == SetPeerState(r, "handshaking")
    <2>1. Orderly(r, a) /\ IsState(a)
      BY <1>1, StateChangeOrderly DEF Orderly
    <2>2. s' = [s EXCEPT ![x] = [a EXCEPT !.ctl = "open"]]
      BY <1>6 DEF CtlOpen
    <2> HIDE DEF a
    <2>3. Orderly(a, [a EXCEPT !.ctl = "open"])
      BY <2>1, OrderlyFields
    <2>4. Orderly(r, [a EXCEPT !.ctl = "open"])
      BY <2>1, <2>3, OrderlyTrans
    <2> QED BY <2>2, <2>4 DEF OrderlyStep
  <1> QED BY <1>2, <1>3, <1>4, <1>5, <1>6
          DEF ChannelFailed, IceFailed, CtlClosed, HandshakeTimeout, WaitTimeout

LEMMA MessagesOrderly ==
    ASSUME AdmissionInv, NEW x \in Session,
           \/ AnswerFirst(x) \/ AnswerSecond(x) \/ AskOwner(x)
           \/ Allow(x) \/ Refuse(x) \/ HearVerdict(x)
    PROVE  OrderlyStep(x) \/ UNCHANGED s
  <1> DEFINE r == s[x]
  <1>1. IsState(r)
    BY DEF AdmissionInv, Shapes
  <1>2. CASE s' = [s EXCEPT ![x] = Finish(x, r)]
    BY <1>2, EndsOrderly
  <1>3. CASE AnswerFirst(x)
    BY <1>2, <1>3 DEF AnswerFirst, Unreadable
  <1>4. CASE AnswerSecond(x)
    <2>1. Orderly(r, SetPeerState(r, "awaiting"))
      BY <1>1, StateChangeOrderly
    <2>2. s' = [s EXCEPT ![x] = SetPeerState(r, "awaiting")] \/ s' = [s EXCEPT ![x] = Finish(x, r)]
      BY <1>4 DEF AnswerSecond, Unreadable
    <2> QED BY <1>2, <2>1, <2>2 DEF OrderlyStep
  <1>5. ASSUME NEW a, Orderly(r, a), NEW v, s' = [s EXCEPT ![x] = [a EXCEPT !.verdict = v]]
        PROVE  OrderlyStep(x)
    <2>1. Orderly(a, [a EXCEPT !.verdict = v])
      BY <1>5, OrderlyFields DEF Orderly
    <2>2. Orderly(r, [a EXCEPT !.verdict = v])
      BY <1>5, <2>1, OrderlyTrans
    <2> QED BY <1>5, <2>2 DEF OrderlyStep
  <1>6. CASE AskOwner(x)
    <2> DEFINE a == SetPeerState(r, "awaiting")
    <2>1. Orderly(r, a)
      BY <1>1, StateChangeOrderly
    <2>2. s' = [s EXCEPT ![x] = [a EXCEPT !.verdict = "asked"]] \/ s' = [s EXCEPT ![x] = Finish(x, r)]
      BY <1>6 DEF AskOwner, Unreadable
    <2> HIDE DEF a
    <2> QED BY <1>2, <1>5, <2>1, <2>2
  <1>7. CASE Allow(x)
    <2>1. Orderly(r, r) /\ Orderly(r, Secure(x, r))
      BY <1>1, OrderlyFields, SecureOrderly
    <2>2. \/ s' = [s EXCEPT ![x] = [r EXCEPT !.verdict = "late"]]
          \/ s' = [s EXCEPT ![x] = [Secure(x, r) EXCEPT !.verdict = "yes"]]
      BY <1>7 DEF Allow
    <2> QED BY <1>5, <2>1, <2>2
  <1>8. CASE Refuse(x)
    <2>1. Orderly(r, Finish(x, r))
      BY <1>1, FinishOrderly
    <2>2. s' = [s EXCEPT ![x] = [Finish(x, r) EXCEPT !.verdict = "no"]]
      BY <1>8 DEF Refuse
    <2> QED BY <1>5, <2>1, <2>2
  <1>9. CASE HearVerdict(x)
    <2>1. Orderly(r, Secure(x, r))
      BY <1>1, SecureOrderly
    <2>2. s' = [s EXCEPT ![x] = Secure(x, r)] \/ s' = [s EXCEPT ![x] = Finish(x, r)]
      BY <1>9 DEF HearVerdict
    <2> QED BY <1>2, <2>1, <2>2 DEF OrderlyStep
  <1> QED BY <1>3, <1>4, <1>6, <1>7, <1>8, <1>9

-----------------------------------------------------------------------------
(* Steps that produce or take signals. *)

LEMMA LongerLog ==
    ASSUME NEW L \in Seq(Kinds), NEW kind \in Kinds, NEW r, Given(r, L)
    PROVE  Given(r, Append(L, kind))
  <1>1. PICK K \in Seq(Kinds) :
          K = Append(L, kind) /\ Len(K) = Len(L) + 1 /\ \A i \in 1 .. Len(L) : K[i] = L[i]
    <2> DEFINE K == Append(L, kind)
    <2>1. K \in Seq(Kinds) /\ Len(K) = Len(L) + 1 /\ \A i \in 1 .. Len(L) : K[i] = L[i]
      OBVIOUS
    <2> QED BY <2>1
  <1>2. r.nextRemote \in 0 .. Len(L) /\ Len(L) \in Nat
    BY DEF Given
  <1>3. ASSUME NEW all, Lists(all, r.nextRemote, r.partner, L)
        PROVE  Lists(all, r.nextRemote, r.partner, K)
    <2>1. ASSUME NEW i \in 1 .. Len(all)
          PROVE  /\ all[i].from = r.partner /\ all[i].n \in 0 .. r.nextRemote - 1
                 /\ all[i].kind = K[all[i].n + 1]
      <3>1. /\ all[i].from = r.partner /\ all[i].n \in 0 .. r.nextRemote - 1
            /\ all[i].kind = L[all[i].n + 1]
        BY <1>3 DEF Lists
      <3>2. all[i].n + 1 \in 1 .. Len(L)
        BY <1>2, <3>1
      <3> QED BY <1>1, <3>1, <3>2
    <2> QED BY <1>3, <2>1 DEF Lists
  <1>4. 0 .. Len(L) \subseteq 0 .. Len(K) /\ 0 .. Len(L) - 1 \subseteq 0 .. Len(K) - 1
    BY <1>1, <1>2
  <1>5. Given(r, K)
    <2>1. r.nextRemote \in 0 .. Len(K) /\ r.pending \subseteq 0 .. Len(K) - 1
      BY <1>4 DEF Given
    <2> QED BY <1>3, <2>1 DEF Given
  <1> QED BY <1>1, <1>5

LEMMA SignalInOrder ==
    ASSUME AdmissionInv, OrderInv, NEW x \in Session, NEW kind \in Kinds, Signal(x, kind)
    PROVE  OrderInv'
  <1> DEFINE r == s[x]
             q == [r EXCEPT !.log = Append(r.log, kind)]
  <1>1. /\ s = [z \in Session |-> s[z]] /\ IsState(r)
        /\ r.log \in Seq(Kinds) /\ Len(r.log) < MaxLog /\ Len(r.log) \in Nat /\ MaxLog \in Nat
        /\ r.toAll \in 0 .. Len(r.log) + 1 /\ r.toPartner \in 0 .. Len(r.log) + 1
    <2>1. s = [z \in Session |-> s[z]] /\ IsState(r)
      BY DEF AdmissionInv, Shapes
    <2>2. Logged(r)
      BY DEF OrderInv, Ordered
    <2>3. Len(r.log) < MaxLog
      BY DEF Signal
    <2>4. MaxLog \in Nat
      BY ConnectionAssumption
    <2>5. r.log \in Seq(Kinds) /\ Len(r.log) \in Nat
      BY <2>2 DEF Logged
    <2>6. r.toAll \in 0 .. Len(r.log) + 1 /\ r.toPartner \in 0 .. Len(r.log) + 1
      BY <2>2 DEF Logged
    <2> QED BY <2>1, <2>3, <2>4, <2>5, <2>6
  <1>2. s' = [s EXCEPT ![x] = q]
    BY DEF Signal
  <1>3. /\ q.log = Append(r.log, kind) /\ q.toAll = r.toAll /\ q.toPartner = r.toPartner
        /\ q.partner = r.partner /\ SameGiven(r, q)
    BY <1>1, FieldNames DEF IsState, SameGiven
  <1> HIDE DEF q
  <1>4. s'[x] = q /\ \A z \in Session \ {x} : s'[z] = s[z]
    BY <1>1, <1>2
  <1>5. Logged(q)
    <2>1. Append(r.log, kind) \in Seq(Kinds) /\ Len(Append(r.log, kind)) = Len(r.log) + 1
      BY <1>1
    <2> QED BY <1>1, <1>3, <2>1 DEF Logged
  <1>6. \A z \in Session : /\ s'[z].partner = s[z].partner /\ SameGiven(s[z], s'[z])
                           /\ Logged(s'[z])
                           /\ s'[z].log \in {s[z].log, Append(s[z].log, kind)}
    <2> SUFFICES ASSUME NEW z \in Session
                 PROVE  /\ s'[z].partner = s[z].partner /\ SameGiven(s[z], s'[z])
                        /\ Logged(s'[z])
                        /\ s'[z].log \in {s[z].log, Append(s[z].log, kind)}
      OBVIOUS
    <2>1. CASE z = x
      BY <1>3, <1>4, <1>5, <2>1
    <2>2. CASE z # x
      BY <1>4, <2>2 DEF OrderInv, Ordered, SameGiven
    <2> QED BY <2>1, <2>2
  <1>7. ASSUME NEW z \in Session PROVE Ordered(z)'
    <2> DEFINE y == s[z].partner
    <2>1. /\ s'[z].partner = y /\ SameGiven(s[z], s'[z]) /\ Logged(s'[z])
      BY <1>6
    <2>2. ASSUME y \in Session PROVE Given(s'[z], s'[y].log)
      <3>1. /\ Given(s[z], s[y].log) /\ s[y].log \in Seq(Kinds)
            /\ s'[y].log \in {s[y].log, Append(s[y].log, kind)}
        BY <1>6, <2>2 DEF OrderInv, Ordered, Logged
      <3>2. Given(s[z], s'[y].log)
        BY <3>1, LongerLog
      <3> QED BY <2>1, <3>2 DEF Given, SameGiven
    <2>3. ASSUME y \notin Session PROVE Blank(s'[z])
      BY <2>1, <2>3 DEF OrderInv, Ordered, Blank, SameGiven
    <2> QED BY <2>1, <2>2, <2>3 DEF Ordered
  <1> QED BY <1>7 DEF OrderInv

LEMMA ReceiveInOrder ==
    ASSUME AdmissionInv, OrderInv, NEW x \in Session, Receive(x)
    PROVE  OrderInv'
  <1> DEFINE r == s[x]
  <1>1. PICK y \in Session : \E hi \in Audible(x, y) : \E lo \in 0 .. hi :
          LockPartner(x, y, lo .. hi - 1) \/ HearPartner(x, y, lo .. hi - 1) \/ GiveWay(x, y)
    BY DEF Receive
  <1>2. PICK hi \in Audible(x, y) : \E lo \in 0 .. hi :
          LockPartner(x, y, lo .. hi - 1) \/ HearPartner(x, y, lo .. hi - 1) \/ GiveWay(x, y)
    BY <1>1
  <1>3. PICK lo, part :
          /\ lo \in 0 .. hi
          /\ part = lo .. hi - 1
          /\ LockPartner(x, y, part) \/ HearPartner(x, y, part) \/ GiveWay(x, y)
    BY <1>2
  <1>4. Logged(s[y]) /\ Logged(r) /\ IsState(r)
    BY DEF OrderInv, Ordered, AdmissionInv, Shapes
  <1>5. part \subseteq 0 .. Len(s[y].log) - 1
    <2>1. hi \in Nat /\ (hi < s[y].toAll \/ hi < s[y].toPartner)
      <3>1. MaxLog \in Nat
        BY ConnectionAssumption
      <3> QED BY <3>1 DEF Audible
    <2>2. hi <= Len(s[y].log) /\ Len(s[y].log) \in Nat
      BY <1>4, <2>1 DEF Logged
    <2> QED BY <1>3, <2>1, <2>2
  <1>6. CASE HearPartner(x, y, part)
    <2>1. PICK q : q = TakeEntries(r, y, part)
      OBVIOUS
    <2>2. r.partner = y /\ s' = [s EXCEPT ![x] = q]
      BY <1>6, <2>1 DEF HearPartner
    <2>3. Given(r, s[y].log)
      BY <2>2 DEF OrderInv, Ordered
    <2>4. /\ Given(q, s[y].log) /\ q.partner = y /\ q.log = r.log
          /\ q.toAll = r.toAll /\ q.toPartner = r.toPartner
      <3>1. Hears(r, y, part, q)
        BY <1>4, <1>5, <2>1, <2>2, <2>3 DEF Hears
      <3>2. /\ Given(q, s[y].log) /\ q.partner = r.partner /\ q.log = r.log
            /\ q.toAll = r.toAll /\ q.toPartner = r.toPartner
        BY ONLY <3>1, EntriesGiven
      <3> QED BY <2>2, <3>2
    <2>5. Logged(q)
      BY <1>4, <2>4 DEF Logged
    <2> QED BY <2>2, <2>4, <2>5, OneMoves
  <1>7. CASE LockPartner(x, y, part)
    <2> DEFINE b == [r EXCEPT !.partner = y]
               p == IF b.peer = "none" THEN CreatePeer(b) ELSE b
    <2>1. /\ IsState(p) /\ p.partner = y /\ p.log = r.log /\ p.toAll = r.toAll
          /\ p.toPartner = r.toPartner /\ SameGiven(r, p)
      BY <1>4, FieldNames DEF IsState, CreatePeer, SameGiven
    <2>2. s' = [s EXCEPT ![x] = TakeEntries(ResendAll(x, p), y, part)] /\ r.partner = None
      BY <1>7 DEF LockPartner
    <2> HIDE DEF p
    <2>3. PICK a : a = ResendAll(x, p)
      OBVIOUS
    <2>4. Orderly(p, a)
      BY <2>1, <2>3, ResendOrderly
    <2>5. Blank(r)
      BY <2>2, ConnectionAssumption DEF OrderInv, Ordered
    <2>6. Blank(a) /\ IsState(a) /\ a.partner = y /\ a.log = r.log
      BY <2>1, <2>4, <2>5 DEF Orderly, SameGiven, Blank
    <2>7. Logged(a)
      BY <1>4, <2>1, <2>4, ConnectionAssumption DEF Orderly, Logged
    <2>8. Given(a, s[y].log)
      BY <1>4, <2>6, BlankIsGiven DEF Logged
    <2>9. PICK q : q = TakeEntries(a, y, part)
      OBVIOUS
    <2>10. /\ Given(q, s[y].log) /\ q.partner = y /\ q.log = a.log
           /\ q.toAll = a.toAll /\ q.toPartner = a.toPartner
      <3>1. Hears(a, y, part, q)
        BY <1>4, <1>5, <2>6, <2>8, <2>9 DEF Hears
      <3>2. /\ Given(q, s[y].log) /\ q.partner = a.partner /\ q.log = a.log
            /\ q.toAll = a.toAll /\ q.toPartner = a.toPartner
        BY ONLY <3>1, EntriesGiven
      <3> QED BY <2>6, <3>2
    <2>11. Logged(q) /\ q.log = r.log
      BY <2>6, <2>7, <2>10 DEF Logged
    <2> QED BY <2>2, <2>3, <2>9, <2>10, <2>11, OneMoves
  <1>8. CASE GiveWay(x, y)
    BY <1>8, EndsOrderly, OrderlyKeeps DEF GiveWay
  <1> QED BY <1>3, <1>6, <1>7, <1>8

LEMMA OrderInvInit == Init => OrderInv
  <1> SUFFICES ASSUME Init, NEW x \in Session PROVE Ordered(x)
    BY DEF OrderInv
  <1>1. s[x] = Fresh /\ None \notin Session /\ MaxLog \in Nat
    BY ConnectionAssumption DEF Init
  <1>2. Blank(Fresh) /\ Fresh.partner = None
    BY DEF Fresh, Blank
  <1>3. Logged(Fresh)
    <2>1. <<>> \in Seq(Kinds) /\ Len(<<>>) = 0
      OBVIOUS
    <2>2. Fresh.log = <<>> /\ Fresh.toAll = 0 /\ Fresh.toPartner = 0
      BY DEF Fresh
    <2> QED BY <1>1, <2>1, <2>2 DEF Logged
  <1> QED BY <1>1, <1>2, <1>3 DEF Ordered

LEMMA OrderInvNext ==
    ASSUME AdmissionInv, OrderInv, [Next]_vars
    PROVE  OrderInv'
  <1>1. CASE UNCHANGED s
    BY <1>1 DEF OrderInv, Ordered
  <1>2. ASSUME NEW x \in Session,
               \/ Start(x) \/ RelaysReady(x) \/ Opened(x) \/ OpenFailed(x)
               \/ Stop(x) \/ ChannelsClosed(x) \/ Crash(x) \/ Callbacks(x)
        PROVE  OrderInv'
    BY <1>2, LifeOrderly, ChannelOrderly, OrderlyKeeps, SignalInOrder, ReceiveInOrder DEF Callbacks
  <1>3. ASSUME NEW v \in Viewers, WaitTimeout(v) \/ AnswerSecond(v) \/ HearVerdict(v)
        PROVE  OrderInv'
    BY <1>1, <1>3, ChannelOrderly, MessagesOrderly, OrderlyKeeps DEF Session
  <1>4. ASSUME NEW h \in Hosts, AnswerFirst(h) \/ AskOwner(h) \/ Allow(h) \/ Refuse(h)
        PROVE  OrderInv'
    BY <1>1, <1>4, MessagesOrderly, OrderlyKeeps DEF Session
  <1> QED BY <1>1, <1>2, <1>3, <1>4 DEF Next, vars, Forget

LEMMA GivenInOrder ==
    ASSUME OrderInv, NEW x \in Session
    PROVE  LET r == s[x]
               all == r.applied \o r.queued
           IN /\ r.applied # <<>> => r.applied[1].kind = "sdp"
              /\ r.described => r.queued = <<>>
              /\ \A i \in DOMAIN all : all[i].from = r.partner
              /\ \A i, j \in DOMAIN all :
                    i < j => all[i].n # all[j].n /\ (all[i].kind = "candidate" => all[i].n < all[j].n)
              /\ {all[i].n : i \in DOMAIN all} = 0 .. r.nextRemote - 1
  <1> DEFINE r == s[x]
             all == r.applied \o r.queued
  <1>1. /\ r.applied # <<>> => r.applied[1].kind = "sdp"
        /\ r.described => r.queued = <<>>
    BY DEF OrderInv, Ordered, Given, Blank
  <1>2. \E L : Lists(all, r.nextRemote, r.partner, L)
    <2>1. CASE r.partner \in Session
      <3> DEFINE L == s[r.partner].log
      <3>1. Given(r, L)
        BY <2>1 DEF OrderInv, Ordered
      <3>2. CASE r.described
        <4>1. r.queued = <<>> /\ Lists(r.applied, r.nextRemote, r.partner, L)
          BY <3>1, <3>2 DEF Given
        <4>2. r.applied \o r.queued = r.applied
          BY <4>1, ConcatEmptySeq DEF Lists
        <4> QED BY <4>1, <4>2
      <3>3. CASE ~r.described
        <4>1. r.applied = <<>> /\ Lists(r.queued, r.nextRemote, r.partner, L)
          BY <3>1, <3>3 DEF Given
        <4>2. r.applied \o r.queued = r.queued
          BY <4>1, ConcatEmptySeq DEF Lists
        <4> QED BY <4>1, <4>2
      <3> QED BY <3>2, <3>3
    <2>2. CASE r.partner \notin Session
      <3>1. Blank(r)
        BY <2>2 DEF OrderInv, Ordered
      <3>2. <<>> \in Seq(Entry) /\ Len(<<>>) = 0
        OBVIOUS
      <3>3. r.applied \o r.queued = <<>> /\ r.nextRemote = 0
        BY <3>1, <3>2, ConcatEmptySeq DEF Blank
      <3>4. Lists(<<>>, 0, r.partner, <<>>)
        BY <3>2 DEF Lists
      <3> QED BY <3>3, <3>4
    <2> QED BY <2>1, <2>2
  <1> HIDE DEF all
  <1>3. PICK L : Lists(all, r.nextRemote, r.partner, L)
    BY <1>2
  <1>4. DOMAIN all = 1 .. Len(all)
    BY <1>3 DEF Lists
  <1>5. /\ \A i \in DOMAIN all : all[i].from = r.partner /\ all[i].n \in 0 .. r.nextRemote - 1
        /\ \A n \in 0 .. r.nextRemote - 1 : \E i \in DOMAIN all : all[i].n = n
        /\ \A i, j \in DOMAIN all :
              i < j => all[i].n # all[j].n /\ (all[i].kind = "candidate" => all[i].n < all[j].n)
    BY <1>3, <1>4 DEF Lists
  <1>6. {all[i].n : i \in DOMAIN all} = 0 .. r.nextRemote - 1
    BY <1>5
  <1> QED BY <1>1, <1>5, <1>6 DEF all

\* However signals are lost, repeated and reordered, each agent gets its
\* partner's entries only, each once and none left out, the description before
\* every candidate and the candidates as they were produced.
THEOREM SignalsInOrder == Spec => []AppliedInOrder
  <1>1. Init => AdmissionInv /\ OrderInv
    BY AdmissionInvInit, OrderInvInit
  <1>2. AdmissionInv /\ OrderInv /\ [Next]_vars => AdmissionInv' /\ OrderInv'
    BY AdmissionInvNext, OrderInvNext
  <1>3. OrderInv => AppliedInOrder
    BY GivenInOrder DEF AppliedInOrder
  <1> QED BY <1>1, <1>2, <1>3, PTL DEF Spec
===============================================================================
