------------------------------ MODULE Rendezvous ------------------------------
(***************************************************************************)
(* The rendezvous server of signal/server.mjs: it matches two WebSockets    *)
(* that name the same room and forwards between them.                       *)
(*                                                                         *)
(* A socket the server has closed still delivers what its peer sent before  *)
(* it saw that, and its close event comes last.  All sockets come from one  *)
(* address, the unit of the rate limit.                                     *)
(***************************************************************************)
EXTENDS Naturals, FiniteSets

CONSTANTS
    Socks,      \* WebSockets
    Rooms,      \* room ids
    Nobody,     \* no socket; no room
    MaxRooms,   \* MAX_ROOMS
    FailLimit   \* JOIN_FAIL_LIMIT

ASSUME RendezvousAssumption ==
    /\ Nobody \notin Socks /\ Nobody \notin Rooms
    /\ MaxRooms \in Nat /\ FailLimit \in Nat

VARIABLES
    ws,         \* of each socket: its readyState, the roomId and role it took
    rooms,      \* by id: host, client, and whether older than ROOM_TTL_MS
    failures,   \* of the address: count, capped, or "none" without a record
    relayed     \* the last signal that was forwarded

rvVars == <<ws, rooms, failures, relayed>>

NoRoom == [host |-> Nobody, client |-> Nobody, old |-> FALSE]

RvInit ==
    /\ ws = [c \in Socks |-> [state |-> "new", room |-> Nobody, role |-> "none"]]
    /\ rooms = [r \in Rooms |-> NoRoom]
    /\ failures = [known |-> FALSE, count |-> 0]
    /\ relayed = Nobody

Exist == {r \in Rooms : rooms[r].host # Nobody}
Members(r) == {rooms[r].host, rooms[r].client} \ {Nobody}

-----------------------------------------------------------------------------
(* The ends of a room. *)

\* Mutant: the client of a closed room is told nothing.
CloseHostsOnly(gone, sockets) ==
    /\ rooms' = [r \in Rooms |-> IF r \in gone THEN NoRoom ELSE rooms[r]]
    /\ ws' = [c \in Socks |->
                IF sockets[c].state = "open" /\ \E r \in gone : c = rooms[r].host
                THEN [sockets[c] EXCEPT !.state = "closing"] ELSE sockets[c]]

\* closeRoom(), for all rooms in gone: whoever is still open is closed.
CloseRooms(gone, sockets) ==
    /\ rooms' = [r \in Rooms |-> IF r \in gone THEN NoRoom ELSE rooms[r]]
    /\ ws' = [c \in Socks |->
                IF sockets[c].state = "open" /\ \E r \in gone : c \in Members(r)
                THEN [sockets[c] EXCEPT !.state = "closing"] ELSE sockets[c]]

Leave(c, state) ==
    /\ CloseRooms({ws[c].room} \cap Exist, [ws EXCEPT ![c].state = state])
    /\ relayed' = Nobody
    /\ UNCHANGED failures

Talking(c) == ws[c].state \in {"open", "closing"}

Bye(c) == Talking(c) /\ Leave(c, ws[c].state)

\* Close and error events name the room the socket once took, whoever has it.
CloseEvent(c) == Talking(c) /\ Leave(c, "closed")
ErrorEvent(c) == Talking(c) /\ Leave(c, "closing")

\* sweep(): rooms that waited too long for a client.
SweepRooms ==
    /\ CloseRooms({r \in Exist : rooms[r].old /\ rooms[r].client = Nobody}, ws)
    /\ relayed' = Nobody
    /\ UNCHANGED failures

StopRooms ==
    /\ CloseRooms(Exist, ws)
    /\ relayed' = Nobody
    /\ UNCHANGED failures

-----------------------------------------------------------------------------
(* Messages. *)

Noted(record) == [record EXCEPT !.count = IF record.known /\ @ < FailLimit THEN @ + 1 ELSE @]

\* fail(): an error, and the socket is closed.
Fail(c, record) ==
    /\ failures' = Noted(record)
    /\ ws' = [ws EXCEPT ![c].state = "closing"]
    /\ relayed' = Nobody
    /\ UNCHANGED rooms

\* What cannot be understood.
Nonsense(c) == Talking(c) /\ Fail(c, failures)

\* Mutant: a host may take a room again that is hosted already.
HostAny(c, r) ==
    /\ Talking(c)
    /\ IF ws[c].room # Nobody \/ Cardinality(Exist) >= MaxRooms THEN Fail(c, failures)
       ELSE /\ ws' = [ws EXCEPT ![c].room = r, ![c].role = "host"]
            /\ rooms' = [rooms EXCEPT ![r] = [NoRoom EXCEPT !.host = c]]
            /\ relayed' = Nobody
            /\ UNCHANGED failures

HostRoom(c, r) ==
    /\ Talking(c)
    /\ IF ws[c].room # Nobody \/ Cardinality(Exist) >= MaxRooms \/ r \in Exist
       THEN Fail(c, failures)
       ELSE /\ ws' = [ws EXCEPT ![c].room = r, ![c].role = "host"]
            /\ rooms' = [rooms EXCEPT ![r] = [NoRoom EXCEPT !.host = c]]
            /\ relayed' = Nobody
            /\ UNCHANGED failures

\* rateLimited() makes the record it looks at.
Looked == [failures EXCEPT !.known = TRUE]
RateLimited == Looked.count >= FailLimit

JoinRoom(c, r) ==
    /\ Talking(c)
    /\ IF ws[c].room # Nobody THEN Fail(c, failures)
       ELSE IF RateLimited \/ r \notin Exist \/ rooms[r].client # Nobody THEN Fail(c, Looked)
       ELSE /\ ws' = [ws EXCEPT ![c].room = r, ![c].role = "client"]
            /\ rooms' = [rooms EXCEPT ![r].client = c]
            /\ failures' = Looked
            /\ relayed' = Nobody

SendSig(c) ==
    LET room == rooms[ws[c].room]
        target == IF ws[c].role = "host" THEN room.client ELSE room.host
    IN /\ Talking(c)
       /\ IF ws[c].room \notin Exist THEN Fail(c, failures)
          ELSE /\ target # Nobody /\ ws[target].state = "open"
               /\ relayed' = [from |-> c, to |-> target]
               /\ UNCHANGED <<ws, rooms, failures>>

-----------------------------------------------------------------------------

Connect(c) ==
    /\ ws[c].state = "new"
    /\ ws' = [ws EXCEPT ![c].state = "open"]
    /\ relayed' = Nobody
    /\ UNCHANGED <<rooms, failures>>

RoomAges(r) ==
    /\ r \in Exist
    /\ rooms' = [rooms EXCEPT ![r].old = TRUE]
    /\ relayed' = Nobody
    /\ UNCHANGED <<ws, failures>>

WindowEnds ==
    /\ failures' = [known |-> FALSE, count |-> 0]
    /\ relayed' = Nobody
    /\ UNCHANGED <<ws, rooms>>

RvNext ==
    \/ \E c \in Socks : \/ Connect(c) \/ Nonsense(c) \/ SendSig(c)
                        \/ Bye(c) \/ CloseEvent(c) \/ ErrorEvent(c)
                        \/ \E r \in Rooms : HostRoom(c, r) \/ JoinRoom(c, r)
    \/ \E r \in Rooms : RoomAges(r)
    \/ SweepRooms \/ StopRooms \/ WindowEnds

RvSpec == RvInit /\ [][RvNext]_rvVars

\* A room and its sockets agree, whatever order messages, expiry and the close
\* events of old sockets come in: its members took it, in their roles, and are
\* not gone; an open socket that took a room is in it (closeRoom left nobody
\* open behind); and a signal went to the other role of the sender's room.
RoomsMatchSockets ==
    /\ \A r \in Exist :
          /\ rooms[r].host # rooms[r].client
          /\ \A c \in Members(r) :
                /\ Talking(c) /\ ws[c].room = r
                /\ ws[c].role = IF c = rooms[r].host THEN "host" ELSE "client"
    /\ \A c \in Socks : ws[c].state = "open" /\ ws[c].room # Nobody
                            => ws[c].room \in Exist /\ c \in Members(ws[c].room)
    /\ relayed # Nobody => /\ ws[relayed.to].room = ws[relayed.from].room
                           /\ {ws[relayed.to].role, ws[relayed.from].role} = {"host", "client"}
=============================================================================
