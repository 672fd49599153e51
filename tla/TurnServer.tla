----------------------------- MODULE TurnServer -----------------------------
(***************************************************************************)
(* The TURN relay of turn/src/server.mjs: challenges, allocations with     *)
(* their relay sockets, permissions and channels, and what it relays.      *)
(*                                                                         *)
(* Time is counted in periods of five minutes: a permission lasts one, a   *)
(* channel and a nonce two, an allocation as many as its client asked for. *)
(* What has none left has expired, whether it was swept or not.            *)
(***************************************************************************)
EXTENDS Naturals, FiniteSets

CONSTANTS
    Clients,        \* addresses of clients
    Users,          \* user names with a password
    Peers,          \* pairs <<address, port>>
    Channels,       \* channel numbers
    Sockets,        \* relay sockets the server may open
    None,
    MaxAllocations, \* maxAllocations
    MaxLifetime     \* MAX_LIFETIME, in periods

ASSUME TurnAssumption ==
    /\ None \notin Clients /\ None \notin Peers /\ None \notin Channels /\ None \notin Sockets
    /\ MaxAllocations \in Nat \ {0}
    /\ MaxLifetime \in Nat
    /\ IsFiniteSet(Clients) /\ IsFiniteSet(Sockets)

Addresses == {p[1] : p \in Peers}
PermissionLifetime == 1
ChannelLifetime == 2
NonceLifetime == 2

VARIABLES
    nonce,      \* periods left of the nonce each client was given last, 0 if stale
    pending,    \* _pendingAllocations: by client, the socket that is being bound
    alloc,      \* allocations, by client
    relays,     \* relay sockets that are open
    binding,    \* relay sockets whose bind() has not called back, with their request
    out,        \* what was relayed last
    down        \* _closed

turnVars == <<nonce, pending, alloc, relays, binding, out, down>>

NoAllocation == [sock |-> None, user |-> None, left |-> 0,
                 permissions |-> [a \in Addresses |-> 0],
                 channels |-> [n \in Channels |-> [peer |-> None, left |-> 0]],
                 byPeer |-> [p \in Peers |-> None]]

NewAllocation(sock, user, left) ==
    [NoAllocation EXCEPT !.sock = sock, !.user = user, !.left = left]

TurnInit ==
    /\ nonce = [c \in Clients |-> 0]
    /\ pending = [c \in Clients |-> None]
    /\ alloc = [c \in Clients |-> NoAllocation]
    /\ relays = {}
    /\ binding = {}
    /\ out = None
    /\ down = FALSE

-----------------------------------------------------------------------------
(* Allocations. *)

Exists(a) == a.sock # None
Expired(a) == Exists(a) /\ a.left = 0

\* The allocations after those in gone were closed, and the sockets left open.
Closing(gone) ==
    /\ alloc' = [c \in Clients |-> IF c \in gone THEN NoAllocation ELSE alloc[c]]
    /\ relays' = relays \ {alloc[c].sock : c \in gone}

HasPermission(a, address) == a.permissions[address] > 0

AddPermission(a, address) == [a EXCEPT !.permissions[address] = PermissionLifetime]

\* Mutant: the sweep forgets a channel, but not which peer had it.
SweptOneSided(a) ==
    [a EXCEPT !.channels = [n \in Channels |->
        IF a.channels[n].left = 0 THEN [peer |-> None, left |-> 0] ELSE a.channels[n]]]

\* An allocation without its expired channels.
Swept(a) ==
    LET stale == {n \in Channels : a.channels[n].left = 0}
    IN [a EXCEPT
          !.channels = [n \in Channels |->
              IF n \in stale THEN [peer |-> None, left |-> 0] ELSE a.channels[n]],
          !.byPeer = [p \in Peers |->
              IF \E n \in stale : a.channels[n].peer = p THEN None ELSE a.byPeer[p]]]

ExpiredSockets == {alloc[c].sock : c \in {d \in Clients : Expired(alloc[d])}}

\* #sweep(): expired allocations are closed, the others cleaned.
SweptAll == [c \in Clients |-> IF Expired(alloc[c]) THEN NoAllocation ELSE Swept(alloc[c])]

\* #liveAllocation(): looking up an expired allocation closes it.
Live(c) == Exists(alloc[c]) /\ ~Expired(alloc[c])
LookUp(c) == Closing(IF Expired(alloc[c]) THEN {c} ELSE {})

-----------------------------------------------------------------------------
(* Authentication.  A client is told a nonce with every refusal; the cache  *)
(* is full at any time, and the new nonce pushes out an older one.          *)

Challenge(c) ==
    /\ ~down
    /\ \E got \in BOOLEAN, evicted \in Clients \cup {None} :
          nonce' = [d \in Clients |-> IF d = c /\ got THEN NonceLifetime
                                      ELSE IF d = evicted THEN 0 ELSE nonce[d]]
    /\ out' = None
    /\ UNCHANGED <<pending, alloc, relays, binding, down>>

\* A request that carries a nonce the server knows and the right password.
Authentic(c) == ~down /\ nonce[c] > 0

\* What requests about an allocation have in common: it is looked up, and is
\* used with the name it was made with.
ForAllocation(c, user) ==
    /\ Authentic(c)
    /\ out' = None
    /\ UNCHANGED <<nonce, pending, binding, down>>

Mine(c, user) == Live(c) /\ alloc[c].user = user

-----------------------------------------------------------------------------
(* Requests. *)

Reserved == {c \in Clients : pending[c] # None}

\* Mutant: allocations that are being bound are not counted.
FullOfBound(as) == Cardinality({c \in Clients : Exists(as[c])}) >= MaxAllocations

Full(as) == Cardinality({c \in Clients : Exists(as[c])}) + Cardinality(Reserved) >= MaxAllocations

\* Allocate from a client that has one, or is being given one: 437.
AllocateAgain(c) ==
    /\ Authentic(c) /\ (Live(c) \/ c \in Reserved)
    /\ LookUp(c)
    /\ out' = None
    /\ UNCHANGED <<nonce, pending, binding, down>>

\* Allocate: after a sweep there is room (else 486), a socket is reserved and
\* its bind() started.
Allocate(c, user, lifetime) ==
    /\ Authentic(c) /\ ~Live(c) /\ c \notin Reserved
    /\ out' = None
    /\ UNCHANGED <<nonce, down>>
    /\ alloc' = SweptAll
    /\ IF Full(SweptAll)
       THEN relays' = relays \ ExpiredSockets /\ UNCHANGED <<pending, binding>>
       ELSE \E sock \in Sockets :
               /\ sock \notin relays /\ \A b \in binding : b.sock # sock
               /\ pending' = [pending EXCEPT ![c] = sock]
               /\ relays' = (relays \ ExpiredSockets) \cup {sock}
               /\ binding' = binding \cup {[sock |-> sock, client |-> c, user |-> user, left |-> lifetime]}

\* The socket is bound: the allocation exists, unless the server closed.
Bound(b) ==
    /\ binding' = binding \ {b}
    /\ IF down \/ pending[b.client] # b.sock
       THEN relays' = relays \ {b.sock} /\ UNCHANGED <<pending, alloc>>
       ELSE /\ pending' = [pending EXCEPT ![b.client] = None]
            /\ alloc' = [alloc EXCEPT ![b.client] = NewAllocation(b.sock, b.user, b.left)]
            /\ UNCHANGED relays
    /\ out' = None
    /\ UNCHANGED <<nonce, down>>

\* Mutant: the reservation is dropped, the socket is not closed.
BindFailsQuietly(b) ==
    /\ binding' = binding \ {b}
    /\ pending' = [pending EXCEPT ![b.client] = IF @ = b.sock THEN None ELSE @]
    /\ out' = None
    /\ UNCHANGED <<nonce, alloc, relays, down>>

\* The socket cannot be bound: 508.
BindFails(b) ==
    /\ binding' = binding \ {b}
    /\ IF pending[b.client] # b.sock
       THEN UNCHANGED <<pending, relays>>
       ELSE /\ pending' = [pending EXCEPT ![b.client] = None]
            /\ relays' = relays \ {b.sock}
    /\ out' = None
    /\ UNCHANGED <<nonce, alloc, down>>

\* Refresh with a lifetime of zero gives the allocation up.
Refresh(c, user, lifetime) ==
    /\ ForAllocation(c, user)
    /\ IF ~Mine(c, user) THEN LookUp(c)
       ELSE IF lifetime = 0 THEN Closing({c})
       ELSE alloc' = [alloc EXCEPT ![c].left = lifetime] /\ UNCHANGED relays

CreatePermission(c, user, addresses) ==
    /\ ForAllocation(c, user)
    /\ IF ~Mine(c, user) THEN LookUp(c)
       ELSE /\ alloc' = [alloc EXCEPT ![c] =
                           [@ EXCEPT !.permissions = [a \in Addresses |->
                               IF a \in addresses THEN PermissionLifetime
                                                  ELSE alloc[c].permissions[a]]]]
            /\ UNCHANGED relays

\* The channel is free or the peer's own, and so is the peer.
Bindable(a, n, p) == a.channels[n].peer \in {None, p} /\ a.byPeer[p] \in {None, n}

BindChannel(a, n, p) ==
    AddPermission([a EXCEPT !.channels[n] = [peer |-> p, left |-> ChannelLifetime],
                            !.byPeer[p] = n], p[1])

\* ChannelBind, after a sweep: binds or renews, and permits the peer's address.
ChannelBind(c, user, n, p) ==
    /\ ForAllocation(c, user)
    /\ IF ~Mine(c, user) THEN LookUp(c)
       ELSE /\ alloc' = IF ~Bindable(SweptAll[c], n, p) THEN SweptAll
                        ELSE [SweptAll EXCEPT ![c] = BindChannel(@, n, p)]
            /\ relays' = relays \ ExpiredSockets

-----------------------------------------------------------------------------
(* Relaying. *)

Relay(packet) ==
    /\ out' = packet
    /\ UNCHANGED <<nonce, pending, alloc, relays, binding, down>>

\* Anything for an allocation that has expired: it is closed, nothing is sent.
TooLate(c) ==
    /\ ~down /\ Expired(alloc[c])
    /\ LookUp(c)
    /\ out' = None
    /\ UNCHANGED <<nonce, pending, binding, down>>

\* Send indication.
Send(c, p) ==
    /\ ~down /\ Live(c)
    /\ HasPermission(alloc[c], p[1])
    /\ Relay([client |-> c, peer |-> p, label |-> None, dir |-> "out"])

\* ChannelData from the client.
SendOnChannel(c, n) ==
    LET b == alloc[c].channels[n]
    IN /\ ~down /\ Live(c)
       /\ b.left > 0 /\ HasPermission(alloc[c], b.peer[1])
       /\ Relay([client |-> c, peer |-> b.peer, label |-> n, dir |-> "out"])

\* A packet from a peer arrives on the relay socket of c: it goes out under
\* the peer's channel number, or as a Data indication.
FromPeer(c, p) ==
    LET n == alloc[c].byPeer[p]
        label == IF n # None /\ alloc[c].channels[n].left > 0 THEN n ELSE None
    IN /\ ~down /\ Live(c)
       /\ HasPermission(alloc[c], p[1])
       /\ Relay([client |-> c, peer |-> p, label |-> label, dir |-> "in"])

-----------------------------------------------------------------------------
(* Time, and the end. *)

Less(n) == IF n = 0 THEN 0 ELSE n - 1

Age(a) == [a EXCEPT !.left = Less(@),
                    !.permissions = [d \in Addresses |-> Less(a.permissions[d])],
                    !.channels = [n \in Channels |-> [a.channels[n] EXCEPT !.left = Less(@)]]]

\* Five minutes pass.
PeriodPasses ==
    /\ nonce' = [c \in Clients |-> Less(nonce[c])]
    /\ alloc' = [c \in Clients |-> Age(alloc[c])]
    /\ out' = None
    /\ UNCHANGED <<pending, relays, binding, down>>

\* Every thirty seconds.
Sweep ==
    /\ ~down
    /\ alloc' = SweptAll
    /\ relays' = relays \ ExpiredSockets
    /\ out' = None
    /\ UNCHANGED <<nonce, pending, binding, down>>

\* close(): pending binds call back later.
ShutDown ==
    /\ ~down
    /\ down' = TRUE
    /\ nonce' = [c \in Clients |-> 0]
    /\ pending' = [c \in Clients |-> None]
    /\ alloc' = [c \in Clients |-> NoAllocation]
    /\ relays' = {}
    /\ out' = None
    /\ UNCHANGED binding

TurnNext ==
    \/ \E c \in Clients : \/ Challenge(c) \/ AllocateAgain(c) \/ TooLate(c)
                          \/ \E p \in Peers : Send(c, p) \/ FromPeer(c, p)
                          \/ \E n \in Channels : SendOnChannel(c, n)
    \/ \E c \in Clients, user \in Users :
          \/ \E lifetime \in 0 .. MaxLifetime : Allocate(c, user, lifetime) \/ Refresh(c, user, lifetime)
          \/ \E addresses \in SUBSET Addresses : CreatePermission(c, user, addresses)
          \/ \E n \in Channels, p \in Peers : ChannelBind(c, user, n, p)
    \/ \E b \in binding : Bound(b) \/ BindFails(b)
    \/ PeriodPasses \/ Sweep \/ ShutDown

TurnSpec == TurnInit /\ [][TurnNext]_turnVars

-----------------------------------------------------------------------------
(* Properties. *)

\* Both directions of every channel agree: #sweep() and ChannelBind keep the
\* two maps of an allocation inverse to each other, and a packet goes out
\* under a number only if the client bound that number to the peer it is from.
ChannelsPair ==
    /\ \A c \in Clients, n \in Channels, p \in Peers :
          (alloc[c].channels[n].peer = p) = (alloc[c].byPeer[p] = n)
    /\ out # None => \/ out.label = None
                     \/ alloc[out.client].channels[out.label].peer = out.peer

\* No relay socket is lost on the way from its reservation over bind() to the
\* allocation and its end, none is shared, and there are never more of them
\* than maxAllocations, however often a client repeats its request meanwhile.
SocketsAccounted ==
    LET held == {alloc[c].sock : c \in Clients} \cup {pending[c] : c \in Clients}
    IN /\ relays = held \ {None}
       /\ Cardinality(relays) <= MaxAllocations
       /\ \A c, d \in Clients : /\ alloc[c].sock # None => alloc[c].sock # pending[d]
                               /\ c # d => /\ alloc[c].sock # None => alloc[c].sock # alloc[d].sock
                                           /\ pending[c] # None => pending[c] # pending[d]
=============================================================================
