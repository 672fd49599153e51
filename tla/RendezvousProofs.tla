--------------------------- MODULE RendezvousProofs ---------------------------
(* The rendezvous keeps rooms and sockets in step, for any number of either. *)
EXTENDS Rendezvous, TLAPS

Sockets == [state : {"new", "open", "closing", "closed"}, room : Rooms \cup {Nobody},
            role : {"none", "host", "client"}]
RoomRecords == [host : Socks \cup {Nobody}, client : Socks \cup {Nobody}, old : BOOLEAN]

TypeOK ==
    /\ ws \in [Socks -> Sockets]
    /\ rooms \in [Rooms -> RoomRecords]
    /\ relayed \in {Nobody} \cup [from : Socks, to : Socks]

\* A socket has a role as soon as it has a room, and neither before it is open.
RolesGoWithRooms ==
    \A c \in Socks : /\ ws[c].room # Nobody => ws[c].role \in {"host", "client"}
                     /\ ws[c].state = "new" => ws[c].room = Nobody

\* RoomsMatchSockets without the last signal, which is a fact about one step.
MembersAreIn ==
    \A r \in Exist :
        /\ rooms[r].host # rooms[r].client
        /\ \A c \in Members(r) :
              /\ Talking(c) /\ ws[c].room = r
              /\ ws[c].role = IF c = rooms[r].host THEN "host" ELSE "client"
NobodyLeftBehind ==
    \A c \in Socks : ws[c].state = "open" /\ ws[c].room # Nobody
                        => ws[c].room \in Exist /\ c \in Members(ws[c].room)
SignalsCross ==
    relayed # Nobody => /\ ws[relayed.to].room = ws[relayed.from].room
                        /\ {ws[relayed.to].role, ws[relayed.from].role} = {"host", "client"}

Peaceful == TypeOK /\ RolesGoWithRooms /\ MembersAreIn /\ NobodyLeftBehind
IInv == Peaceful /\ SignalsCross

LEMMA MembersAreSocks ==
    ASSUME TypeOK, NEW r \in Rooms
    PROVE  Members(r) \subseteq Socks
  BY DEF TypeOK, Members, RoomRecords

LEMMA StartsEmpty == RvInit => IInv
  <1> USE RendezvousAssumption
  <1> SUFFICES ASSUME RvInit PROVE IInv
    OBVIOUS
  <1>1. TypeOK
    BY DEF RvInit, TypeOK, NoRoom, Sockets, RoomRecords
  <1>2. Exist = {}
    BY DEF RvInit, Exist, NoRoom
  <1>3. RolesGoWithRooms /\ NobodyLeftBehind /\ SignalsCross
    BY DEF RvInit, RolesGoWithRooms, NobodyLeftBehind, SignalsCross
  <1> QED BY <1>1, <1>2, <1>3 DEF IInv, Peaceful, MembersAreIn

\* Closing rooms: sockets may have closed before, if their room closes too.
LEMMA ClosingKeeps ==
    ASSUME Peaceful,
           NEW gone \in SUBSET Exist,
           NEW sockets \in [Socks -> Sockets],
           \A c \in Socks :
              /\ sockets[c].room = ws[c].room /\ sockets[c].role = ws[c].role
              /\ \/ sockets[c].state = ws[c].state
                 \/ sockets[c].state \in {"closing", "closed"} /\ ws[c].room \notin Exist \ gone,
           CloseRooms(gone, sockets), relayed' = Nobody
    PROVE  IInv'
  <1> USE RendezvousAssumption
  <1>1. \A r \in Rooms : rooms'[r] = IF r \in gone THEN NoRoom ELSE rooms[r]
    BY DEF CloseRooms
  <1>2. rooms' \in [Rooms -> RoomRecords]
    BY DEF CloseRooms, NoRoom, RoomRecords, Peaceful, TypeOK
  <1>3. \A c \in Socks : ws'[c] = IF sockets[c].state = "open" /\ \E r \in gone : c \in Members(r)
                                  THEN [sockets[c] EXCEPT !.state = "closing"] ELSE sockets[c]
    BY DEF CloseRooms
  <1>4. ws' \in [Socks -> Sockets]
    BY DEF CloseRooms, Sockets
  <1>5. \A c \in Socks : /\ ws'[c].room = ws[c].room /\ ws'[c].role = ws[c].role
                         /\ ws'[c].state = sockets[c].state \/ ws'[c].state = "closing"
    BY <1>3 DEF Sockets
  <1>6. Exist' = Exist \ gone /\ \A r \in Exist' : rooms'[r] = rooms[r] /\ Members(r)' = Members(r)
    BY <1>1 DEF Exist, Members, NoRoom
  <1>7. RolesGoWithRooms'
    BY <1>3, <1>5 DEF RolesGoWithRooms, Peaceful
  <1>8. ASSUME NEW r \in Exist', NEW c \in Members(r)'
        PROVE  Talking(c)'
    <2>1. r \in Exist \ gone /\ c \in Members(r) /\ c \in Socks
      BY <1>6, <1>8, MembersAreSocks DEF Peaceful, Exist
    <2>2. ws[c].state \in {"open", "closing"} /\ ws[c].room = r
      BY <2>1 DEF Peaceful, MembersAreIn, Talking
    <2> QED BY <2>1, <2>2, <1>5 DEF Talking
  <1>9. MembersAreIn'
    <2> SUFFICES ASSUME NEW r \in Exist'
                 PROVE  /\ (rooms[r].host # rooms[r].client)'
                        /\ \A c \in Members(r)' :
                              /\ Talking(c)' /\ ws'[c].room = r
                              /\ ws'[c].role = IF c = rooms'[r].host THEN "host" ELSE "client"
      BY DEF MembersAreIn
    <2>1. r \in Exist /\ Members(r) \subseteq Socks
      BY <1>6, MembersAreSocks DEF Peaceful, Exist
    <2> QED BY <2>1, <1>5, <1>6, <1>8 DEF Peaceful, MembersAreIn
  <1>10. ASSUME NEW c \in Socks, ws'[c].state = "open", ws'[c].room # Nobody
         PROVE  (ws[c].room \in Exist /\ c \in Members(ws[c].room))'
    <2>1. ws[c].state = "open" /\ sockets[c].state = "open" /\ ws[c].room # Nobody
      BY <1>5, <1>10
    <2>2. ws[c].room \in Exist /\ c \in Members(ws[c].room)
      BY <2>1 DEF Peaceful, NobodyLeftBehind
    <2>3. ws[c].room \notin gone
      <3> SUFFICES ASSUME ws[c].room \in gone PROVE FALSE
        OBVIOUS
      <3>1. ws'[c] = [sockets[c] EXCEPT !.state = "closing"]
        BY <2>1, <2>2, <1>3
      <3> QED BY <3>1, <1>10 DEF Sockets
    <2>4. PICK r \in Exist : r = ws[c].room
      BY <2>2
    <2>5. r \in Exist' /\ Members(r)' = Members(r) /\ r = ws'[c].room
      BY <2>3, <2>4, <1>5, <1>6
    <2> QED BY <2>2, <2>4, <2>5
  <1>11. NobodyLeftBehind'
    BY <1>10 DEF NobodyLeftBehind
  <1>12. TypeOK' /\ SignalsCross'
    BY <1>2, <1>4 DEF TypeOK, SignalsCross
  <1> QED BY <1>7, <1>9, <1>11, <1>12 DEF IInv, Peaceful

LEMMA LeaveKeeps ==
    ASSUME Peaceful, NEW c \in Socks, Talking(c),
           NEW state \in {"closing", "closed"} \cup {ws[c].state}, Leave(c, state)
    PROVE  IInv'
  <1> USE RendezvousAssumption
  <1> DEFINE gone == {ws[c].room} \cap Exist
             sockets == [ws EXCEPT ![c].state = state]
  <1>1. sockets \in [Socks -> Sockets]
    BY DEF Peaceful, TypeOK, Sockets
  <1>2. \A d \in Socks :
          /\ sockets[d].room = ws[d].room /\ sockets[d].role = ws[d].role
          /\ \/ sockets[d].state = ws[d].state
             \/ sockets[d].state \in {"closing", "closed"} /\ ws[d].room \notin Exist \ gone
    BY DEF Peaceful, TypeOK, Sockets
  <1>3. CloseRooms(gone, sockets) /\ relayed' = Nobody /\ gone \in SUBSET Exist
    BY DEF Leave
  <1> HIDE DEF gone, sockets
  <1> QED BY <1>1, <1>2, <1>3, ClosingKeeps

LEMMA CloseSomeKeeps ==
    ASSUME Peaceful, NEW gone \in SUBSET Exist, CloseRooms(gone, ws), relayed' = Nobody
    PROVE  IInv'
  BY ClosingKeeps DEF Peaceful, TypeOK

\* fail(): the room, if there is one, is left to the close event.
LEMMA FailKeeps ==
    ASSUME Peaceful, NEW c \in Socks, NEW record, Talking(c), Fail(c, record)
    PROVE  IInv'
  <1> USE RendezvousAssumption
  <1>1. ws' = [ws EXCEPT ![c].state = "closing"] /\ rooms' = rooms /\ relayed' = Nobody
    BY DEF Fail
  <1>2. TypeOK' /\ SignalsCross'
    BY <1>1 DEF Peaceful, TypeOK, Sockets, SignalsCross
  <1>3. \A d \in Socks : /\ ws'[d].room = ws[d].room /\ ws'[d].role = ws[d].role
                         /\ Talking(d) => Talking(d)'
                         /\ ws'[d].state \in {"open", "new"} => ws'[d].state = ws[d].state
    BY <1>1 DEF Peaceful, TypeOK, Sockets, Talking
  <1>4. Exist' = Exist /\ \A r \in Rooms : Members(r)' = Members(r)
    BY <1>1 DEF Exist, Members
  <1>5. RolesGoWithRooms' /\ NobodyLeftBehind'
    BY <1>3, <1>4 DEF Peaceful, RolesGoWithRooms, NobodyLeftBehind, Exist
  <1>6. MembersAreIn'
    BY <1>1, <1>3, <1>4, MembersAreSocks DEF Peaceful, MembersAreIn, Exist
  <1> QED BY <1>2, <1>5, <1>6 DEF IInv, Peaceful

LEMMA HostKeeps ==
    ASSUME Peaceful, NEW c \in Socks, NEW r \in Rooms, HostRoom(c, r)
    PROVE  IInv'
  <1> USE RendezvousAssumption
  <1>1. CASE ws[c].room # Nobody \/ Cardinality(Exist) >= MaxRooms \/ r \in Exist
    BY <1>1, FailKeeps DEF HostRoom
  <1>2. CASE ~(ws[c].room # Nobody \/ Cardinality(Exist) >= MaxRooms \/ r \in Exist)
    <2>1. /\ ws' = [ws EXCEPT ![c].room = r, ![c].role = "host"]
          /\ rooms' = [rooms EXCEPT ![r] = [NoRoom EXCEPT !.host = c]]
          /\ relayed' = Nobody /\ Talking(c)
      BY <1>2 DEF HostRoom
    <2>2. TypeOK' /\ SignalsCross'
      <3>1. [ws[c] EXCEPT !.room = r, !.role = "host"] \in Sockets
        BY DEF Peaceful, TypeOK, Sockets
      <3>2. ws' \in [Socks -> Sockets]
        BY <2>1, <3>1 DEF Peaceful, TypeOK
      <3>3. [NoRoom EXCEPT !.host = c] \in RoomRecords
        BY DEF RoomRecords, NoRoom
      <3>4. rooms' \in [Rooms -> RoomRecords]
        BY <2>1, <3>3 DEF Peaceful, TypeOK
      <3> QED BY <2>1, <3>2, <3>4 DEF TypeOK, SignalsCross
    <2>3. /\ ws'[c].state = ws[c].state /\ ws'[c].room = r /\ ws'[c].role = "host"
          /\ \A d \in Socks \ {c} : ws'[d] = ws[d]
      BY <2>1 DEF Peaceful, TypeOK, Sockets
    <2>4. /\ Exist' = Exist \cup {r} /\ r \notin Exist /\ rooms'[r].host = c /\ rooms'[r].client = Nobody
          /\ \A q \in Exist : rooms'[q] = rooms[q] /\ Members(q)' = Members(q)
          /\ Members(r)' = {c}
      <3>1. r \notin Exist
        BY <1>2
      <3>2. rooms'[r].host = c /\ rooms'[r].client = Nobody
        BY <2>1 DEF Peaceful, TypeOK, NoRoom
      <3>3. \A q \in Rooms \ {r} : rooms'[q] = rooms[q]
        BY <2>1 DEF Peaceful, TypeOK
      <3>4. Exist' = Exist \cup {r}
        BY <3>2, <3>3 DEF Exist
      <3>5. \A q \in Exist : rooms'[q] = rooms[q] /\ Members(q)' = Members(q)
        BY <3>1, <3>3 DEF Exist, Members
      <3>6. Members(r)' = {c}
        BY <3>2 DEF Members
      <3> QED BY <3>1, <3>2, <3>4, <3>5, <3>6
    <2>5. \A q \in Exist : c \notin Members(q) /\ Members(q) \subseteq Socks
      BY <1>2, MembersAreSocks DEF Peaceful, MembersAreIn, Exist
    <2>6. RolesGoWithRooms'
      BY <2>1, <2>3 DEF Peaceful, RolesGoWithRooms, Talking
    <2>7. MembersAreIn'
      <3>1. ASSUME NEW q \in Exist
            PROVE  /\ rooms'[q].host # rooms'[q].client
                   /\ \A d \in Members(q)' :
                         /\ Talking(d)' /\ ws'[d].room = q
                         /\ ws'[d].role = IF d = rooms'[q].host THEN "host" ELSE "client"
        <4>1. \A d \in Members(q) : ws'[d] = ws[d]
          BY <2>3, <2>5
        <4> QED BY <4>1, <2>4 DEF Peaceful, MembersAreIn, Talking
      <3>2. Talking(c)'
        BY <2>1, <2>3 DEF Talking
      <3> QED BY <2>3, <2>4, <3>1, <3>2 DEF MembersAreIn
    <2>8. NobodyLeftBehind'
      BY <2>3, <2>4 DEF Peaceful, NobodyLeftBehind
    <2> QED BY <2>2, <2>6, <2>7, <2>8 DEF IInv, Peaceful
  <1> QED BY <1>1, <1>2

LEMMA JoinKeeps ==
    ASSUME Peaceful, NEW c \in Socks, NEW r \in Rooms, JoinRoom(c, r)
    PROVE  IInv'
  <1> USE RendezvousAssumption
  <1> DEFINE refused == RateLimited \/ r \notin Exist \/ rooms[r].client # Nobody
  <1>1. CASE ws[c].room # Nobody \/ refused
    BY <1>1, FailKeeps DEF JoinRoom
  <1>2. CASE ws[c].room = Nobody /\ ~refused
    <2>1. /\ ws' = [ws EXCEPT ![c].room = r, ![c].role = "client"]
          /\ rooms' = [rooms EXCEPT ![r].client = c]
          /\ relayed' = Nobody /\ Talking(c)
      BY <1>2 DEF JoinRoom
    <2>2. TypeOK' /\ SignalsCross'
      <3>1. [ws[c] EXCEPT !.room = r, !.role = "client"] \in Sockets
        BY DEF Peaceful, TypeOK, Sockets
      <3>2. ws' \in [Socks -> Sockets]
        BY <2>1, <3>1 DEF Peaceful, TypeOK
      <3>3. [rooms[r] EXCEPT !.client = c] \in RoomRecords
        BY DEF Peaceful, TypeOK, RoomRecords
      <3>4. rooms' \in [Rooms -> RoomRecords]
        BY <2>1, <3>3 DEF Peaceful, TypeOK
      <3> QED BY <2>1, <3>2, <3>4 DEF TypeOK, SignalsCross
    <2>3. /\ ws'[c].state = ws[c].state /\ ws'[c].room = r /\ ws'[c].role = "client"
          /\ \A d \in Socks \ {c} : ws'[d] = ws[d]
      BY <2>1 DEF Peaceful, TypeOK, Sockets
    <2>4. /\ Exist' = Exist /\ r \in Exist /\ rooms'[r].host = rooms[r].host /\ rooms'[r].client = c
          /\ \A q \in Exist \ {r} : rooms'[q] = rooms[q] /\ Members(q)' = Members(q)
          /\ Members(r)' = Members(r) \cup {c}
      <3>1. r \in Exist /\ rooms[r].client = Nobody
        BY <1>2
      <3>2. rooms'[r].host = rooms[r].host /\ rooms'[r].client = c
        BY <2>1 DEF Peaceful, TypeOK, RoomRecords
      <3>3. \A q \in Rooms \ {r} : rooms'[q] = rooms[q]
        BY <2>1 DEF Peaceful, TypeOK
      <3>4. Exist' = Exist
        BY <3>2, <3>3 DEF Exist
      <3>5. \A q \in Exist \ {r} : rooms'[q] = rooms[q] /\ Members(q)' = Members(q)
        BY <3>3 DEF Exist, Members
      <3>6. Members(r)' = Members(r) \cup {c}
        BY <3>1, <3>2 DEF Members, Exist
      <3> QED BY <3>1, <3>2, <3>4, <3>5, <3>6
    <2>5. \A q \in Exist : c \notin Members(q) /\ Members(q) \subseteq Socks
      BY <1>2, MembersAreSocks DEF Peaceful, MembersAreIn, Exist
    <2>6. c # rooms[r].host
      BY <2>4, <2>5 DEF Members, Exist
    <2>7. RolesGoWithRooms'
      BY <2>1, <2>3 DEF Peaceful, RolesGoWithRooms, Talking
    <2>8. MembersAreIn'
      <3>1. \A q \in Exist : \A d \in Members(q) : ws'[d] = ws[d]
        BY <2>3, <2>5
      <3>2. Talking(c)'
        BY <2>1, <2>3 DEF Talking
      <3>3. ASSUME NEW q \in Exist, q # r
            PROVE  /\ rooms'[q].host # rooms'[q].client
                   /\ \A d \in Members(q)' :
                         /\ Talking(d)' /\ ws'[d].room = q
                         /\ ws'[d].role = IF d = rooms'[q].host THEN "host" ELSE "client"
        BY <3>1, <3>3, <2>4 DEF Peaceful, MembersAreIn, Talking
      <3>4. \A d \in Members(r) :
              /\ Talking(d)' /\ ws'[d].room = r
              /\ ws'[d].role = IF d = rooms'[r].host THEN "host" ELSE "client"
        BY <3>1, <2>4 DEF Peaceful, MembersAreIn, Talking
      <3> QED BY <2>3, <2>4, <2>6, <3>2, <3>3, <3>4 DEF MembersAreIn
    <2>9. NobodyLeftBehind'
      BY <2>3, <2>4 DEF Peaceful, NobodyLeftBehind
    <2> QED BY <2>2, <2>7, <2>8, <2>9 DEF IInv, Peaceful
  <1> QED BY <1>1, <1>2

\* A signal of a socket whose room somebody else has by now goes, if at all, to
\* the other role there.
LEMMA SigKeeps ==
    ASSUME Peaceful, NEW c \in Socks, SendSig(c)
    PROVE  IInv'
  <1> USE RendezvousAssumption
  <1>1. CASE ws[c].room \notin Exist
    BY <1>1, FailKeeps DEF SendSig
  <1>2. CASE ws[c].room \in Exist
    <2> DEFINE room == rooms[ws[c].room]
               target == IF ws[c].role = "host" THEN room.client ELSE room.host
    <2>1. /\ target # Nobody /\ relayed' = [from |-> c, to |-> target]
          /\ UNCHANGED <<ws, rooms>>
      BY <1>2 DEF SendSig
    <2>2. target \in Members(ws[c].room) /\ target \in Socks
      BY <2>1, <1>2, MembersAreSocks DEF Members, Exist, Peaceful
    <2>3. /\ ws[target].room = ws[c].room
          /\ ws[target].role = IF target = room.host THEN "host" ELSE "client"
          /\ room.host # room.client
      BY <2>2, <1>2 DEF Peaceful, MembersAreIn
    <2>4. ws[c].role \in {"host", "client"}
      BY <1>2 DEF Peaceful, RolesGoWithRooms, Exist
    <2>5. SignalsCross'
      BY <2>1, <2>3, <2>4 DEF SignalsCross
    <2>6. Peaceful'
      BY <2>1, <2>2 DEF Peaceful, TypeOK, RolesGoWithRooms, MembersAreIn, NobodyLeftBehind,
                        Exist, Members, Talking
    <2> QED BY <2>5, <2>6 DEF IInv
  <1> QED BY <1>1, <1>2

LEMMA ConnectKeeps ==
    ASSUME Peaceful, NEW c \in Socks, Connect(c)
    PROVE  IInv'
  <1> USE RendezvousAssumption
  <1>1. /\ ws[c].state = "new" /\ ws' = [ws EXCEPT ![c].state = "open"]
        /\ rooms' = rooms /\ relayed' = Nobody
    BY DEF Connect
  <1>2. TypeOK' /\ SignalsCross'
    BY <1>1 DEF Peaceful, TypeOK, Sockets, SignalsCross
  <1>3. \A d \in Socks : /\ ws'[d].room = ws[d].room /\ ws'[d].role = ws[d].role
                         /\ d # c => ws'[d] = ws[d]
    BY <1>1 DEF Peaceful, TypeOK, Sockets
  <1>4. Exist' = Exist /\ \A r \in Rooms : Members(r)' = Members(r)
    BY <1>1 DEF Exist, Members
  <1>5. ws[c].room = Nobody
    BY <1>1 DEF Peaceful, RolesGoWithRooms
  <1>6. RolesGoWithRooms' /\ NobodyLeftBehind'
    BY <1>3, <1>4, <1>5 DEF Peaceful, RolesGoWithRooms, NobodyLeftBehind, Exist
  <1>7. \A r \in Exist : c \notin Members(r)
    BY <1>5 DEF Peaceful, MembersAreIn, Exist
  <1>8. MembersAreIn'
    BY <1>1, <1>3, <1>4, <1>7, MembersAreSocks DEF Peaceful, MembersAreIn, Exist, Talking
  <1> QED BY <1>2, <1>6, <1>8 DEF IInv, Peaceful

LEMMA AgesKeeps ==
    ASSUME Peaceful, NEW r \in Rooms, RoomAges(r)
    PROVE  IInv'
  <1> USE RendezvousAssumption
  <1>1. rooms' = [rooms EXCEPT ![r].old = TRUE] /\ ws' = ws /\ relayed' = Nobody
    BY DEF RoomAges
  <1>2. TypeOK' /\ SignalsCross'
    BY <1>1 DEF Peaceful, TypeOK, RoomRecords, SignalsCross
  <1>3. \A q \in Rooms : rooms'[q].host = rooms[q].host /\ rooms'[q].client = rooms[q].client
    BY <1>1 DEF Peaceful, TypeOK, RoomRecords
  <1>4. Exist' = Exist /\ \A q \in Rooms : Members(q)' = Members(q)
    BY <1>3 DEF Exist, Members
  <1>5. RolesGoWithRooms' /\ NobodyLeftBehind'
    BY <1>1, <1>4 DEF Peaceful, RolesGoWithRooms, NobodyLeftBehind, Exist
  <1>6. MembersAreIn'
    BY <1>1, <1>3, <1>4 DEF Peaceful, MembersAreIn, Exist, Talking
  <1> QED BY <1>2, <1>5, <1>6 DEF IInv, Peaceful

LEMMA StepKeeps == IInv /\ [RvNext]_rvVars => IInv'
  <1> SUFFICES ASSUME IInv, [RvNext]_rvVars
               PROVE  IInv'
    OBVIOUS
  <1>0. Peaceful
    BY DEF IInv
  <1>1. CASE UNCHANGED <<ws, rooms, relayed>>
    BY <1>1 DEF IInv, Peaceful, TypeOK, RolesGoWithRooms, MembersAreIn, NobodyLeftBehind,
                SignalsCross, Exist, Members, Talking
  <1>2. ASSUME NEW c \in Socks, Connect(c) \/ SendSig(c) PROVE IInv'
    BY <1>0, <1>2, ConnectKeeps, SigKeeps
  <1>3. ASSUME NEW c \in Socks, Nonsense(c) PROVE IInv'
    BY <1>0, <1>3, FailKeeps DEF Nonsense
  <1>4. ASSUME NEW c \in Socks, Bye(c) \/ CloseEvent(c) \/ ErrorEvent(c) PROVE IInv'
    BY <1>0, <1>4, LeaveKeeps DEF Bye, CloseEvent, ErrorEvent
  <1>5. ASSUME NEW c \in Socks, NEW r \in Rooms, HostRoom(c, r) \/ JoinRoom(c, r) PROVE IInv'
    BY <1>0, <1>5, HostKeeps, JoinKeeps
  <1>6. ASSUME NEW r \in Rooms, RoomAges(r) PROVE IInv'
    BY <1>0, <1>6, AgesKeeps
  <1>7. CASE SweepRooms
    BY <1>0, <1>7, CloseSomeKeeps DEF SweepRooms
  <1>8. CASE StopRooms
    BY <1>0, <1>8, CloseSomeKeeps DEF StopRooms
  <1>9. WindowEnds => relayed' = Nobody /\ UNCHANGED <<ws, rooms>>
    BY DEF WindowEnds
  <1>10. CASE WindowEnds
    BY <1>9, <1>10 DEF IInv, Peaceful, TypeOK, RolesGoWithRooms, MembersAreIn, NobodyLeftBehind,
                       SignalsCross, Exist, Members, Talking
  <1> QED BY <1>1, <1>2, <1>3, <1>4, <1>5, <1>6, <1>7, <1>8, <1>10 DEF RvNext, rvVars

\* Whatever order joins, expiry and late close events come in, a room holds
\* exactly the sockets that took it, nobody open is left behind in a room that
\* is gone, and signals go to the other role (closeRoom, host, join, sig).
THEOREM RoomsAreSound == RvSpec => []RoomsMatchSockets
  <1>1. IInv => RoomsMatchSockets
    BY DEF IInv, Peaceful, MembersAreIn, NobodyLeftBehind, SignalsCross, RoomsMatchSockets
  <1> QED BY <1>1, StartsEmpty, StepKeeps, PTL DEF RvSpec
=============================================================================
