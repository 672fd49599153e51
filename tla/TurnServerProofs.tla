--------------------------- MODULE TurnServerProofs ---------------------------
(* Relay sockets and channels of the TURN relay, for any number of clients,  *)
(* any limit and any lifetimes.                                              *)
EXTENDS TurnServer, FiniteSetTheorems, TLAPS

-----------------------------------------------------------------------------
(* Allocations, one by one. *)

Bindings == [peer : Peers \cup {None}, left : Nat]
Allocations == [sock : Sockets \cup {None}, user : Users \cup {None}, left : Nat,
                permissions : [Addresses -> Nat],
                channels : [Channels -> Bindings],
                byPeer : [Peers -> Channels \cup {None}]]

\* The two maps of an allocation are inverse to each other.
Paired(a) == \A n \in Channels, p \in Peers : (a.channels[n].peer = p) = (a.byPeer[p] = n)
Good(a) == a \in Allocations /\ Paired(a)

LEMMA EmptyIsGood ==
    /\ Good(NoAllocation) /\ NoAllocation.sock = None
    /\ \A sock \in Sockets, user \in Users, left \in Nat :
          Good(NewAllocation(sock, user, left)) /\ NewAllocation(sock, user, left).sock = sock
  <1> USE TurnAssumption
  <1>1. NoAllocation \in Allocations /\ NoAllocation.sock = None
    BY DEF NoAllocation, Allocations, Bindings
  <1>2. Paired(NoAllocation)
    BY DEF NoAllocation, Paired
  <1>3. ASSUME NEW sock \in Sockets, NEW user \in Users, NEW left \in Nat
        PROVE  /\ NewAllocation(sock, user, left) \in Allocations
               /\ Paired(NewAllocation(sock, user, left))
               /\ NewAllocation(sock, user, left).sock = sock
    <2> DEFINE a == NewAllocation(sock, user, left)
    <2>1. a = [NoAllocation EXCEPT !.sock = sock, !.user = user, !.left = left]
      BY DEF NewAllocation
    <2> HIDE DEF a
    <2>2. a \in Allocations /\ a.sock = sock
      BY <1>1, <2>1 DEF Allocations
    <2>3. a.channels = NoAllocation.channels /\ a.byPeer = NoAllocation.byPeer
      BY <1>1, <2>1 DEF Allocations
    <2>4. Paired(a)
      BY <1>2, <2>3 DEF Paired
    <2> QED BY <2>2, <2>4 DEF a
  <1> QED BY <1>1, <1>2, <1>3 DEF Good

LEMMA SweptIsGood ==
    ASSUME NEW a, Good(a)
    PROVE  Good(Swept(a)) /\ Swept(a).sock = a.sock
  <1> USE TurnAssumption
  <1> DEFINE stale == {n \in Channels : a.channels[n].left = 0}
             channels == [n \in Channels |-> IF n \in stale THEN [peer |-> None, left |-> 0]
                                                            ELSE a.channels[n]]
             byPeer == [p \in Peers |-> IF \E n \in stale : a.channels[n].peer = p
                                        THEN None ELSE a.byPeer[p]]
  <1>1. Swept(a) = [a EXCEPT !.channels = channels, !.byPeer = byPeer]
    BY DEF Swept
  <1>2. channels \in [Channels -> Bindings] /\ byPeer \in [Peers -> Channels \cup {None}]
    BY DEF Good, Allocations, Bindings
  <1>3. ASSUME NEW n \in Channels, NEW p \in Peers
        PROVE  (channels[n].peer = p) = (byPeer[p] = n)
    <2>1. (a.channels[n].peer = p) = (a.byPeer[p] = n)
      BY DEF Good, Paired
    <2>2. \A m \in stale : a.channels[m].peer = p => a.byPeer[p] = m
      BY DEF Good, Paired
    <2>3. CASE n \in stale
      BY <2>1, <2>2, <2>3
    <2>4. CASE n \notin stale
      BY <2>1, <2>2, <2>4
    <2> QED BY <2>3, <2>4
  <1> HIDE DEF channels, byPeer
  <1>4. /\ Swept(a).channels = channels /\ Swept(a).byPeer = byPeer /\ Swept(a).sock = a.sock
        /\ Swept(a) \in Allocations
    BY <1>1, <1>2 DEF Good, Allocations
  <1> QED BY <1>3, <1>4 DEF Good, Paired

LEMMA AgedIsGood ==
    ASSUME NEW a, Good(a)
    PROVE  Good(Age(a)) /\ Age(a).sock = a.sock
  <1> DEFINE permissions == [d \in Addresses |-> Less(a.permissions[d])]
             channels == [n \in Channels |-> [a.channels[n] EXCEPT !.left = Less(@)]]
  <1>1. \A k \in Nat : Less(k) \in Nat
    BY DEF Less
  <1>2. /\ permissions \in [Addresses -> Nat]
        /\ \A n \in Channels : channels[n] \in Bindings /\ channels[n].peer = a.channels[n].peer
    <2>1. a.permissions \in [Addresses -> Nat] /\ a.channels \in [Channels -> Bindings]
      BY DEF Good, Allocations
    <2>2. permissions \in [Addresses -> Nat]
      BY <1>1, <2>1
    <2>3. ASSUME NEW n \in Channels
          PROVE  channels[n] \in Bindings /\ channels[n].peer = a.channels[n].peer
      BY <1>1, <2>1 DEF Bindings
    <2> QED BY <2>2, <2>3
  <1>3. channels \in [Channels -> Bindings]
    BY <1>2
  <1>4. Age(a) = [a EXCEPT !.left = Less(@), !.permissions = permissions, !.channels = channels]
    BY DEF Age
  <1>5. \A n \in Channels : channels[n].peer = a.channels[n].peer
    BY <1>2
  <1> HIDE DEF permissions, channels
  <1>6. /\ Age(a) \in Allocations /\ Age(a).sock = a.sock
        /\ Age(a).channels = channels /\ Age(a).byPeer = a.byPeer
    BY <1>1, <1>2, <1>3, <1>4 DEF Good, Allocations
  <1> QED BY <1>5, <1>6 DEF Good, Paired

LEMMA RefreshedIsGood ==
    ASSUME NEW a, Good(a), NEW left \in Nat
    PROVE  Good([a EXCEPT !.left = left]) /\ [a EXCEPT !.left = left].sock = a.sock
  BY DEF Good, Allocations, Paired

LEMMA PermittedIsGood ==
    ASSUME NEW a, Good(a), NEW permissions \in [Addresses -> Nat]
    PROVE  /\ Good([a EXCEPT !.permissions = permissions])
           /\ [a EXCEPT !.permissions = permissions].sock = a.sock
  BY DEF Good, Allocations, Paired

LEMMA BoundIsGood ==
    ASSUME NEW a, Good(a), NEW n \in Channels, NEW p \in Peers, Bindable(a, n, p)
    PROVE  Good(BindChannel(a, n, p)) /\ BindChannel(a, n, p).sock = a.sock
  <1> USE TurnAssumption
  <1> DEFINE channels == [a.channels EXCEPT ![n] = [peer |-> p, left |-> ChannelLifetime]]
             byPeer == [a.byPeer EXCEPT ![p] = n]
             mid == [a EXCEPT !.channels = channels, !.byPeer = byPeer]
  <1>1. channels \in [Channels -> Bindings] /\ byPeer \in [Peers -> Channels \cup {None}]
    BY DEF Good, Allocations, Bindings, ChannelLifetime
  <1>2. ASSUME NEW m \in Channels, NEW q \in Peers
        PROVE  (channels[m].peer = q) = (byPeer[q] = m)
    <2>1. /\ (a.channels[m].peer = q) = (a.byPeer[q] = m)
          /\ (a.channels[m].peer = p) = (a.byPeer[p] = m)
          /\ (a.channels[n].peer = q) = (a.byPeer[q] = n)
      BY DEF Good, Paired
    <2>2. /\ channels[m].peer = IF m = n THEN p ELSE a.channels[m].peer
          /\ byPeer[q] = IF q = p THEN n ELSE a.byPeer[q]
      BY DEF Good, Allocations
    <2> QED BY <2>1, <2>2 DEF Bindable
  <1>3. BindChannel(a, n, p) = AddPermission(mid, p[1])
    BY DEF Good, Allocations, BindChannel
  <1> HIDE DEF channels, byPeer
  <1>4. mid \in Allocations /\ mid.channels = channels /\ mid.byPeer = byPeer /\ mid.sock = a.sock
    BY <1>1 DEF Good, Allocations
  <1>5. Good(mid)
    BY <1>2, <1>4 DEF Good, Paired
  <1> HIDE DEF mid
  <1> DEFINE permissions == [mid.permissions EXCEPT ![p[1]] = PermissionLifetime]
  <1>6. permissions \in [Addresses -> Nat]
    BY <1>4 DEF Allocations, PermissionLifetime
  <1>7. AddPermission(mid, p[1]) = [mid EXCEPT !.permissions = permissions]
    BY DEF AddPermission
  <1> HIDE DEF permissions
  <1>8. Good(AddPermission(mid, p[1])) /\ AddPermission(mid, p[1]).sock = mid.sock
    BY <1>5, <1>6, <1>7, PermittedIsGood
  <1> QED BY <1>3, <1>4, <1>8

-----------------------------------------------------------------------------
(* The inductive invariant: who holds which relay socket.                   *)

Requests == [sock : Sockets, client : Clients, user : Users, left : Nat]

Shapes ==
    /\ pending \in [Clients -> Sockets \cup {None}]
    /\ alloc \in [Clients -> Allocations]
    /\ \A c \in Clients : Good(alloc[c])
    /\ relays \subseteq Sockets
    /\ binding \subseteq Requests

\* A socket belongs to one client, which reserves it or has it.
OneOwner ==
    \A c, d \in Clients :
        /\ alloc[c].sock # None => alloc[c].sock # pending[d]
        /\ pending[c] # None => alloc[c].sock = None
        /\ c # d /\ alloc[c].sock # None => alloc[c].sock # alloc[d].sock
        /\ c # d /\ pending[c] # None => pending[c] # pending[d]

\* While the server runs, a bind() in progress is a reservation.
BindsAreReserved ==
    /\ \A b \in binding : down \/ pending[b.client] = b.sock
    /\ \A a, b \in binding : a.sock = b.sock => a = b

DownIsEmpty ==
    down => \A c \in Clients : pending[c] = None /\ alloc[c].sock = None

HeldExactly ==
    \A x : x \in relays <=> /\ x # None
                            /\ \E c \in Clients : x = alloc[c].sock \/ x = pending[c]

RelayInv ==
    /\ Shapes
    /\ OneOwner
    /\ BindsAreReserved
    /\ DownIsEmpty
    /\ HeldExactly
    /\ Cardinality(relays) <= MaxAllocations

LEMMA FewerRelays ==
    ASSUME RelayInv, NEW fewer \in SUBSET relays
    PROVE  Cardinality(fewer) <= MaxAllocations
  <1>1. IsFiniteSet(relays)
    BY TurnAssumption, FS_Subset DEF RelayInv, Shapes
  <1>2. IsFiniteSet(fewer) /\ Cardinality(fewer) <= Cardinality(relays)
    BY <1>1, FS_Subset
  <1>3. Cardinality(fewer) \in Nat /\ Cardinality(relays) \in Nat /\ MaxAllocations \in Nat
    BY <1>1, <1>2, FS_CardinalityType, TurnAssumption
  <1> QED BY <1>2, <1>3 DEF RelayInv

\* Allocations change and some of them are closed with their sockets.
LEMMA ReleaseKeeps ==
    ASSUME RelayInv, NEW gone \in SUBSET Clients,
           alloc' \in [Clients -> Allocations],
           \A c \in Clients : /\ Good(alloc'[c])
                              /\ alloc'[c].sock = IF c \in gone THEN None ELSE alloc[c].sock,
           relays' = relays \ {alloc[c].sock : c \in gone},
           UNCHANGED <<pending, binding, down>>
    PROVE  RelayInv'
  <1>1. Shapes'
    BY DEF RelayInv, Shapes
  <1>2. OneOwner'
    BY DEF RelayInv, OneOwner
  <1>3. BindsAreReserved' /\ DownIsEmpty'
    BY DEF RelayInv, BindsAreReserved, DownIsEmpty
  <1>4. HeldExactly'
    BY DEF RelayInv, OneOwner, HeldExactly
  <1>5. (Cardinality(relays) <= MaxAllocations)'
    BY FewerRelays
  <1> QED BY <1>1, <1>2, <1>3, <1>4, <1>5 DEF RelayInv

LEMMA ClosingKeeps ==
    ASSUME RelayInv, NEW gone \in SUBSET Clients, Closing(gone),
           UNCHANGED <<pending, binding, down>>
    PROVE  RelayInv'
  <1>1. \A c \in Clients : alloc'[c] = IF c \in gone THEN NoAllocation ELSE alloc[c]
    BY DEF Closing
  <1>2. \A c \in Clients : Good(alloc'[c]) /\ alloc'[c].sock = IF c \in gone THEN None ELSE alloc[c].sock
    BY <1>1, EmptyIsGood DEF RelayInv, Shapes
  <1>3. alloc' \in [Clients -> Allocations]
    BY <1>2 DEF Closing, Good
  <1> QED BY <1>2, <1>3, ReleaseKeeps DEF Closing

LEMMA LookUpKeeps ==
    ASSUME RelayInv, NEW c \in Clients, LookUp(c), UNCHANGED <<pending, binding, down>>
    PROVE  RelayInv'
  BY ClosingKeeps DEF LookUp

\* What a client asks for changes its allocation, but not the socket of it.
LEMMA ChangeKeeps ==
    ASSUME RelayInv, NEW c \in Clients, NEW a, Good(a), a.sock = alloc[c].sock,
           alloc' = [alloc EXCEPT ![c] = a],
           UNCHANGED <<pending, relays, binding, down>>
    PROVE  RelayInv'
  <1> DEFINE gone == {d \in Clients : FALSE}
  <1>1. alloc' \in [Clients -> Allocations]
    BY DEF RelayInv, Shapes, Good
  <1>2. \A d \in Clients : /\ Good(alloc'[d])
                           /\ alloc'[d].sock = IF d \in gone THEN None ELSE alloc[d].sock
    BY DEF RelayInv, Shapes
  <1>3. relays' = relays \ {alloc[d].sock : d \in gone}
    OBVIOUS
  <1>4. gone \in SUBSET Clients
    OBVIOUS
  <1> HIDE DEF gone
  <1> QED BY <1>1, <1>2, <1>3, <1>4, ReleaseKeeps

\* After a sweep the allocations are those that had not expired.
LEMMA SweepFacts ==
    ASSUME RelayInv
    PROVE  /\ SweptAll \in [Clients -> Allocations]
           /\ \A c \in Clients :
                 /\ Good(SweptAll[c])
                 /\ SweptAll[c].sock = IF Expired(alloc[c]) THEN None ELSE alloc[c].sock
  <1>1. \A c \in Clients : /\ Good(SweptAll[c])
                           /\ SweptAll[c].sock = IF Expired(alloc[c]) THEN None ELSE alloc[c].sock
    BY EmptyIsGood, SweptIsGood DEF RelayInv, Shapes, SweptAll
  <1>2. SweptAll \in [Clients -> Allocations]
    BY <1>1 DEF SweptAll, Good
  <1> QED BY <1>1, <1>2

LEMMA SweepKeeps ==
    ASSUME RelayInv, alloc' = SweptAll, relays' = relays \ ExpiredSockets,
           UNCHANGED <<pending, binding, down>>
    PROVE  RelayInv'
  <1> DEFINE gone == {c \in Clients : Expired(alloc[c])}
  <1>1. relays' = relays \ {alloc[c].sock : c \in gone}
    BY DEF ExpiredSockets
  <1>2. \A c \in Clients : /\ Good(alloc'[c])
                           /\ alloc'[c].sock = IF c \in gone THEN None ELSE alloc[c].sock
    BY SweepFacts
  <1> QED BY <1>1, <1>2, SweepFacts, ReleaseKeeps

-----------------------------------------------------------------------------
(* Allocate is where the number of sockets grows: each is counted once, as  *)
(* an allocation or as a reservation.                                       *)

LEMMA RoomIsCounted ==
    ASSUME RelayInv, ~Full(SweptAll)
    PROVE  Cardinality(relays \ ExpiredSockets) < MaxAllocations
  <1> DEFINE E == {c \in Clients : Exists(SweptAll[c])}
             owners == E \cup Reserved
             left == relays \ ExpiredSockets
             f == [c \in owners |-> IF c \in E THEN SweptAll[c].sock ELSE pending[c]]
  <1>1. IsFiniteSet(E) /\ IsFiniteSet(Reserved)
    BY TurnAssumption, FS_Subset DEF Reserved
  <1>2. E \cap Reserved = {}
    BY SweepFacts DEF Reserved, Exists, RelayInv, OneOwner
  <1>3. IsFiniteSet(owners) /\ Cardinality(owners) = Cardinality(E) + Cardinality(Reserved)
    <2>1. Cardinality(E \cap Reserved) = 0
      BY <1>2, FS_EmptySet
    <2>2. Cardinality(E) \in Nat /\ Cardinality(Reserved) \in Nat
      BY <1>1, FS_CardinalityType
    <2> HIDE DEF E
    <2>3. /\ IsFiniteSet(E \cup Reserved)
          /\ Cardinality(E \cup Reserved) = Cardinality(E) + Cardinality(Reserved) - Cardinality(E \cap Reserved)
      BY <1>1, FS_Union
    <2> QED BY <2>1, <2>2, <2>3
  <1>4. \A x \in left : \E c \in owners : f[c] = x
    <2> SUFFICES ASSUME NEW x \in left
                 PROVE  \E c \in owners : f[c] = x
      OBVIOUS
    <2>1. PICK c \in Clients : x # None /\ (x = alloc[c].sock \/ x = pending[c])
      BY DEF RelayInv, HeldExactly
    <2>2. CASE x = alloc[c].sock
      <3>1. ~Expired(alloc[c])
        BY <2>2 DEF ExpiredSockets
      <3>2. SweptAll[c].sock = x
        BY <2>2, <3>1, SweepFacts
      <3>3. c \in E
        BY <2>1, <3>2 DEF Exists
      <3> QED BY <3>2, <3>3
    <2>3. CASE x = pending[c]
      <3>1. c \in Reserved
        BY <2>1, <2>3 DEF Reserved
      <3>2. f[c] = x
        BY <1>2, <2>3, <3>1
      <3> QED BY <3>1, <3>2
    <2> QED BY <2>1, <2>2, <2>3
  <1>5. \A c \in owners : f[c] \in left
    <2> SUFFICES ASSUME NEW c \in owners
                 PROVE  f[c] \in left
      OBVIOUS
    <2>1. c \in Clients
      BY DEF Reserved
    <2>2. CASE c \in E
      <3>1. f[c] = alloc[c].sock /\ alloc[c].sock # None /\ ~Expired(alloc[c])
        BY <2>1, <2>2, SweepFacts DEF Exists
      <3>2. f[c] \in relays
        BY <2>1, <3>1 DEF RelayInv, HeldExactly
      <3>3. f[c] \notin ExpiredSockets
        BY <2>1, <3>1 DEF ExpiredSockets, RelayInv, OneOwner
      <3> QED BY <3>2, <3>3
    <2>3. CASE c \notin E
      <3>1. f[c] = pending[c] /\ pending[c] # None
        BY <2>3 DEF Reserved
      <3>2. f[c] \in relays
        BY <2>1, <3>1 DEF RelayInv, HeldExactly
      <3>3. f[c] \notin ExpiredSockets
        BY <2>1, <3>1 DEF ExpiredSockets, RelayInv, OneOwner, Expired, Exists
      <3> QED BY <3>2, <3>3
    <2> QED BY <2>2, <2>3
  <1>6. f \in Surjection(owners, left)
    BY <1>4, <1>5 DEF Surjection
  <1> HIDE DEF f, left, owners
  <1>7. IsFiniteSet(left) /\ Cardinality(left) <= Cardinality(owners)
    BY <1>3, <1>6, FS_Surjection
  <1>8. /\ Cardinality(E) \in Nat /\ Cardinality(Reserved) \in Nat
        /\ Cardinality(left) \in Nat /\ MaxAllocations \in Nat
    BY <1>1, <1>7, FS_CardinalityType, TurnAssumption
  <1>9. ~(Cardinality(E) + Cardinality(Reserved) >= MaxAllocations)
    BY DEF Full
  <1>10. Cardinality(left) < MaxAllocations
    BY <1>3, <1>7, <1>8, <1>9
  <1> QED BY <1>10 DEF left

LEMMA AllocateKeeps ==
    ASSUME RelayInv, NEW c \in Clients, NEW user \in Users, NEW lifetime \in Nat,
           Allocate(c, user, lifetime)
    PROVE  RelayInv'
  <1>1. CASE Full(SweptAll)
    BY <1>1, SweepKeeps DEF Allocate
  <1>2. CASE ~Full(SweptAll)
    <2>1. PICK sock \in Sockets :
            /\ sock \notin relays /\ \A b \in binding : b.sock # sock
            /\ pending' = [pending EXCEPT ![c] = sock]
            /\ relays' = (relays \ ExpiredSockets) \cup {sock}
            /\ binding' = binding \cup {[sock |-> sock, client |-> c, user |-> user, left |-> lifetime]}
      BY <1>2 DEF Allocate
    <2> DEFINE b0 == [sock |-> sock, client |-> c, user |-> user, left |-> lifetime]
    <2>2. b0 \in Requests /\ b0.sock = sock /\ b0.client = c
      BY DEF Requests
    <2>3. alloc' = SweptAll /\ ~Live(c) /\ pending[c] = None /\ down' = down /\ sock # None
      BY TurnAssumption DEF Allocate, Reserved
    <2> HIDE DEF b0
    <2>4. binding' = binding \cup {b0}
      BY <2>1 DEF b0
    <2>5. \A d \in Clients : pending'[d] = IF d = c THEN sock ELSE pending[d]
      BY <2>1 DEF RelayInv, Shapes
    <2>6. /\ \A d \in Clients : alloc'[d].sock = IF Expired(alloc[d]) THEN None ELSE alloc[d].sock
          /\ alloc'[c].sock = None
      BY <2>3, SweepFacts DEF Live, Exists
    <2>7. \A d \in Clients : /\ alloc[d].sock # None => alloc[d].sock \in relays
                             /\ pending[d] # None => pending[d] \in relays
      BY DEF RelayInv, HeldExactly
    <2>8. Shapes'
      BY <2>1, <2>2, <2>3, <2>4, SweepFacts DEF RelayInv, Shapes
    <2>9. OneOwner'
      BY <2>1, <2>3, <2>5, <2>6, <2>7 DEF RelayInv, OneOwner
    <2>10. BindsAreReserved'
      <3>1. \A b \in binding : b.client \in Clients /\ b.sock # None
        BY TurnAssumption DEF RelayInv, Shapes, Requests
      <3> QED BY <2>1, <2>2, <2>3, <2>4, <2>5, <3>1 DEF RelayInv, BindsAreReserved
    <2>11. DownIsEmpty'
      BY DEF Allocate, Authentic, DownIsEmpty
    <2>12. HeldExactly'
      <3>1. \A x : x \in ExpiredSockets
                     <=> \E d \in Clients : Expired(alloc[d]) /\ x = alloc[d].sock
        BY DEF ExpiredSockets
      <3>2. \A d, e \in Clients : /\ alloc[d].sock # None => alloc[d].sock # pending[e]
                                  /\ d # e /\ alloc[d].sock # None => alloc[d].sock # alloc[e].sock
        BY DEF RelayInv, OneOwner
      <3>3. \A d \in Clients : Expired(alloc[d]) => alloc[d].sock # None
        BY DEF Expired, Exists
      <3>4. \A x : x \in relays <=> /\ x # None
                                    /\ \E d \in Clients : x = alloc[d].sock \/ x = pending[d]
        BY DEF RelayInv, HeldExactly
      <3>5. ASSUME NEW x \in relays'
            PROVE  x # None /\ \E d \in Clients : x = alloc'[d].sock \/ x = pending'[d]
        <4>1. CASE x = sock
          BY <2>3, <2>5, <4>1
        <4>2. CASE x # sock
          <5>1. x \in relays /\ x \notin ExpiredSockets
            BY <2>1, <4>2
          <5>2. PICK d \in Clients : x # None /\ (x = alloc[d].sock \/ x = pending[d])
            BY <3>4, <5>1
          <5>3. CASE x = alloc[d].sock
            BY <2>6, <3>1, <5>1, <5>2, <5>3
          <5>4. CASE x = pending[d]
            BY <2>3, <2>5, <5>2, <5>4
          <5> QED BY <5>2, <5>3, <5>4
        <4> QED BY <4>1, <4>2
      <3>6. ASSUME NEW x, x # None, NEW d \in Clients, x = alloc'[d].sock \/ x = pending'[d]
            PROVE  x \in relays'
        <4>1. CASE x = alloc'[d].sock
          <5>1. ~Expired(alloc[d]) /\ x = alloc[d].sock
            BY <2>6, <3>6, <4>1
          <5> QED BY <2>1, <3>1, <3>2, <3>4, <3>6, <5>1
        <4>2. CASE x = pending'[d] /\ d = c
          BY <2>1, <2>5, <4>2
        <4>3. CASE x = pending'[d] /\ d # c
          <5>1. x = pending[d]
            BY <2>5, <4>3
          <5> QED BY <2>1, <3>1, <3>2, <3>3, <3>4, <3>6, <5>1
        <4> QED BY <3>6, <4>1, <4>2, <4>3
      <3> QED BY <3>5, <3>6 DEF HeldExactly
    <2>13. (Cardinality(relays) <= MaxAllocations)'
      <3> DEFINE left == relays \ ExpiredSockets
      <3>1. IsFiniteSet(left)
        BY TurnAssumption, FS_Subset DEF RelayInv, Shapes
      <3>2. Cardinality(left) < MaxAllocations
        BY <1>2, RoomIsCounted
      <3> HIDE DEF left
      <3>3. Cardinality(left \cup {sock}) = IF sock \in left THEN Cardinality(left) ELSE Cardinality(left) + 1
        BY <3>1, FS_AddElement
      <3>4. Cardinality(left) \in Nat /\ Cardinality(left \cup {sock}) \in Nat /\ MaxAllocations \in Nat
        BY <3>1, FS_AddElement, FS_CardinalityType, TurnAssumption
      <3>5. Cardinality(left \cup {sock}) <= MaxAllocations
        BY <3>2, <3>3, <3>4
      <3> QED BY <2>1, <3>5 DEF left
    <2> QED BY <2>8, <2>9, <2>10, <2>11, <2>12, <2>13 DEF RelayInv
  <1> QED BY <1>1, <1>2

LEMMA BoundKeeps ==
    ASSUME RelayInv, NEW b \in binding, Bound(b)
    PROVE  RelayInv'
  <1>1. /\ b \in Requests /\ b.client \in Clients /\ b.sock \in Sockets /\ b.sock # None
        /\ b.user \in Users /\ b.left \in Nat
    BY TurnAssumption DEF RelayInv, Shapes, Requests
  <1>2. CASE down \/ pending[b.client] # b.sock
    <2>1. down /\ UNCHANGED <<pending, alloc, down>> /\ relays' = relays \ {b.sock} /\ binding' = binding \ {b}
      BY <1>2 DEF Bound, RelayInv, BindsAreReserved
    <2>2. relays = {}
      BY <2>1 DEF RelayInv, DownIsEmpty, HeldExactly
    <2>3. UNCHANGED relays
      BY <2>1, <2>2
    <2>4. Shapes' /\ OneOwner' /\ DownIsEmpty' /\ HeldExactly'
      BY <2>1, <2>3 DEF RelayInv, Shapes, OneOwner, DownIsEmpty, HeldExactly
    <2>5. BindsAreReserved'
      BY <2>1 DEF RelayInv, BindsAreReserved
    <2> QED BY <2>3, <2>4, <2>5 DEF RelayInv
  <1>3. CASE ~down /\ pending[b.client] = b.sock
    <2> DEFINE new == NewAllocation(b.sock, b.user, b.left)
    <2>1. /\ pending' = [pending EXCEPT ![b.client] = None]
          /\ alloc' = [alloc EXCEPT ![b.client] = new]
          /\ UNCHANGED <<relays, down>> /\ binding' = binding \ {b}
      BY <1>3 DEF Bound
    <2>2. Good(new) /\ new.sock = b.sock
      BY <1>1, EmptyIsGood
    <2> HIDE DEF new
    <2>3. \A d \in Clients : /\ pending'[d] = IF d = b.client THEN None ELSE pending[d]
                             /\ alloc'[d].sock = IF d = b.client THEN b.sock ELSE alloc[d].sock
                             /\ Good(alloc'[d])
      BY <2>1, <2>2 DEF RelayInv, Shapes
    <2>4. Shapes'
      BY <1>1, <2>1, <2>2, <2>3 DEF RelayInv, Shapes, Good
    <2>5. OneOwner'
      BY <1>1, <1>3, <2>3 DEF RelayInv, OneOwner
    <2>6. BindsAreReserved'
      <3>1. \A a \in binding' : a \in binding /\ a # b /\ a.client \in Clients
        BY <2>1 DEF RelayInv, Shapes, Requests
      <3> QED BY <1>1, <1>3, <2>1, <2>3, <3>1 DEF RelayInv, BindsAreReserved
    <2>7. DownIsEmpty'
      BY <1>3, <2>1 DEF DownIsEmpty
    <2>8. HeldExactly'
      BY <1>1, <1>3, <2>1, <2>3 DEF RelayInv, OneOwner, HeldExactly
    <2> QED BY <2>1, <2>4, <2>5, <2>6, <2>7, <2>8 DEF RelayInv
  <1> QED BY <1>2, <1>3

LEMMA BindFailsKeeps ==
    ASSUME RelayInv, NEW b \in binding, BindFails(b)
    PROVE  RelayInv'
  <1>1. b.client \in Clients /\ b.sock # None
    BY TurnAssumption DEF RelayInv, Shapes, Requests
  <1>2. binding' = binding \ {b} /\ UNCHANGED <<alloc, down>>
    BY DEF BindFails
  <1>3. CASE pending[b.client] # b.sock
    <2>1. UNCHANGED <<pending, relays>> /\ down
      BY <1>3 DEF BindFails, RelayInv, BindsAreReserved
    <2>2. Shapes' /\ OneOwner' /\ DownIsEmpty' /\ HeldExactly'
      BY <1>2, <2>1 DEF RelayInv, Shapes, OneOwner, DownIsEmpty, HeldExactly
    <2>3. BindsAreReserved'
      BY <1>2, <2>1 DEF RelayInv, BindsAreReserved
    <2> QED BY <2>1, <2>2, <2>3 DEF RelayInv
  <1>4. CASE pending[b.client] = b.sock
    <2>1. pending' = [pending EXCEPT ![b.client] = None] /\ relays' = relays \ {b.sock}
      BY <1>4 DEF BindFails
    <2>2. \A d \in Clients : pending'[d] = IF d = b.client THEN None ELSE pending[d]
      BY <2>1 DEF RelayInv, Shapes
    <2>3. Shapes' /\ OneOwner' /\ DownIsEmpty'
      BY <1>2, <2>1, <2>2 DEF RelayInv, Shapes, OneOwner, DownIsEmpty
    <2>4. BindsAreReserved'
      <3>1. \A a \in binding' : a \in binding /\ a # b /\ a.client \in Clients
        BY <1>2 DEF RelayInv, Shapes, Requests
      <3> QED BY <1>1, <1>2, <1>4, <2>2, <3>1 DEF RelayInv, BindsAreReserved
    <2>5. HeldExactly'
      BY <1>1, <1>2, <1>4, <2>1, <2>2 DEF RelayInv, OneOwner, HeldExactly
    <2>6. (Cardinality(relays) <= MaxAllocations)'
      BY <2>1, FewerRelays
    <2> QED BY <2>3, <2>4, <2>5, <2>6 DEF RelayInv
  <1> QED BY <1>3, <1>4

-----------------------------------------------------------------------------
(* The other requests, and time. *)

LEMMA RefreshKeeps ==
    ASSUME RelayInv, NEW c \in Clients, NEW user \in Users, NEW lifetime \in Nat,
           Refresh(c, user, lifetime)
    PROVE  RelayInv'
  <1>1. UNCHANGED <<pending, binding, down>>
    BY DEF Refresh, ForAllocation
  <1>2. CASE LookUp(c)
    BY <1>1, <1>2, LookUpKeeps
  <1>3. CASE Closing({c})
    BY <1>1, <1>3, ClosingKeeps
  <1>4. CASE alloc' = [alloc EXCEPT ![c].left = lifetime] /\ UNCHANGED relays
    <2> DEFINE a == [alloc[c] EXCEPT !.left = lifetime]
    <2>1. Good(a) /\ a.sock = alloc[c].sock
      BY RefreshedIsGood DEF RelayInv, Shapes
    <2>2. alloc' = [alloc EXCEPT ![c] = a]
      BY <1>4
    <2> HIDE DEF a
    <2> QED BY <1>1, <1>4, <2>1, <2>2, ChangeKeeps
  <1> QED BY <1>2, <1>3, <1>4 DEF Refresh

LEMMA CreatePermissionKeeps ==
    ASSUME RelayInv, NEW c \in Clients, NEW user \in Users, NEW addresses \in SUBSET Addresses,
           CreatePermission(c, user, addresses)
    PROVE  RelayInv'
  <1>1. UNCHANGED <<pending, binding, down>>
    BY DEF CreatePermission, ForAllocation
  <1>2. CASE LookUp(c)
    BY <1>1, <1>2, LookUpKeeps
  <1>3. CASE ~LookUp(c)
    <2> DEFINE permissions == [d \in Addresses |-> IF d \in addresses THEN PermissionLifetime
                                                   ELSE alloc[c].permissions[d]]
               a == [alloc[c] EXCEPT !.permissions = permissions]
    <2>1. permissions \in [Addresses -> Nat]
      BY DEF RelayInv, Shapes, Allocations, PermissionLifetime
    <2>2. alloc' = [alloc EXCEPT ![c] = a] /\ UNCHANGED relays
      BY <1>3 DEF CreatePermission
    <2> HIDE DEF permissions
    <2>3. Good(a) /\ a.sock = alloc[c].sock
      BY <2>1, PermittedIsGood DEF RelayInv, Shapes
    <2> HIDE DEF a
    <2> QED BY <1>1, <2>2, <2>3, ChangeKeeps
  <1> QED BY <1>2, <1>3

LEMMA ChannelBindKeeps ==
    ASSUME RelayInv, NEW c \in Clients, NEW user \in Users, NEW n \in Channels, NEW p \in Peers,
           ChannelBind(c, user, n, p)
    PROVE  RelayInv'
  <1>1. UNCHANGED <<pending, binding, down>>
    BY DEF ChannelBind, ForAllocation
  <1>2. CASE ~Mine(c, user)
    BY <1>1, <1>2, LookUpKeeps DEF ChannelBind
  <1>3. CASE Mine(c, user) /\ ~Bindable(SweptAll[c], n, p)
    BY <1>1, <1>3, SweepKeeps DEF ChannelBind
  <1>4. CASE Mine(c, user) /\ Bindable(SweptAll[c], n, p)
    <2> DEFINE a == BindChannel(SweptAll[c], n, p)
               gone == {d \in Clients : Expired(alloc[d])}
    <2>1. Good(a) /\ a.sock = SweptAll[c].sock
      BY <1>4, SweepFacts, BoundIsGood
    <2>2. alloc' = [SweptAll EXCEPT ![c] = a] /\ relays' = relays \ ExpiredSockets
      BY <1>4 DEF ChannelBind
    <2> HIDE DEF a
    <2>3. /\ alloc' \in [Clients -> Allocations]
          /\ \A d \in Clients : /\ Good(alloc'[d])
                                /\ alloc'[d].sock = IF d \in gone THEN None ELSE alloc[d].sock
      BY <2>1, <2>2, SweepFacts DEF Good
    <2>4. relays' = relays \ {alloc[d].sock : d \in gone}
      BY <2>2 DEF ExpiredSockets
    <2> QED BY <1>1, <2>3, <2>4, ReleaseKeeps
  <1> QED BY <1>2, <1>3, <1>4

LEMMA PeriodKeeps ==
    ASSUME RelayInv, PeriodPasses
    PROVE  RelayInv'
  <1> DEFINE gone == {d \in Clients : FALSE}
  <1>1. \A c \in Clients : /\ Good(alloc'[c])
                           /\ alloc'[c].sock = IF c \in gone THEN None ELSE alloc[c].sock
    BY AgedIsGood DEF PeriodPasses, RelayInv, Shapes
  <1>2. alloc' \in [Clients -> Allocations]
    BY <1>1 DEF PeriodPasses, Good
  <1>3. relays' = relays \ {alloc[c].sock : c \in gone}
    BY DEF PeriodPasses
  <1>4. gone \in SUBSET Clients /\ UNCHANGED <<pending, binding, down>>
    BY DEF PeriodPasses
  <1> HIDE DEF gone
  <1> QED BY <1>1, <1>2, <1>3, <1>4, ReleaseKeeps

LEMMA ShutDownKeeps ==
    ASSUME RelayInv, ShutDown
    PROVE  RelayInv'
  <1>1. \A c \in Clients : alloc'[c] = NoAllocation /\ pending'[c] = None
    BY DEF ShutDown
  <1>2. \A c \in Clients : Good(alloc'[c]) /\ alloc'[c].sock = None
    BY <1>1, EmptyIsGood
  <1>3. alloc' \in [Clients -> Allocations]
    BY <1>2 DEF ShutDown, Good
  <1>4. Shapes'
    BY <1>2, <1>3 DEF ShutDown, RelayInv, Shapes
  <1>5. OneOwner' /\ DownIsEmpty' /\ HeldExactly'
    BY <1>1, <1>2 DEF ShutDown, OneOwner, DownIsEmpty, HeldExactly
  <1>6. BindsAreReserved'
    BY DEF ShutDown, RelayInv, BindsAreReserved
  <1>7. (Cardinality(relays) <= MaxAllocations)'
    BY FewerRelays DEF ShutDown
  <1> QED BY <1>4, <1>5, <1>6, <1>7 DEF RelayInv

LEMMA RelayInvInit == TurnInit => RelayInv
  <1> SUFFICES ASSUME TurnInit PROVE RelayInv
    OBVIOUS
  <1>1. \A c \in Clients : alloc[c] = NoAllocation /\ pending[c] = None
    BY DEF TurnInit
  <1>2. \A c \in Clients : Good(alloc[c]) /\ alloc[c].sock = None
    BY <1>1, EmptyIsGood
  <1>3. alloc \in [Clients -> Allocations]
    BY <1>2 DEF TurnInit, Good
  <1>4. Shapes
    BY <1>2, <1>3 DEF TurnInit, Shapes
  <1>5. OneOwner /\ BindsAreReserved /\ DownIsEmpty /\ HeldExactly
    BY <1>1, <1>2 DEF TurnInit, OneOwner, BindsAreReserved, DownIsEmpty, HeldExactly
  <1>6. Cardinality(relays) <= MaxAllocations
    BY FS_EmptySet, TurnAssumption DEF TurnInit
  <1> QED BY <1>4, <1>5, <1>6 DEF RelayInv

\* A packet leaves under a number its client bound to that peer.
LabelIsBound == out # None => \/ out.label = None
                              \/ alloc[out.client].channels[out.label].peer = out.peer

LEMMA RelayingIsLabelled ==
    ASSUME RelayInv, NEW c \in Clients,
           \/ \E p \in Peers : Send(c, p) \/ FromPeer(c, p)
           \/ \E n \in Channels : SendOnChannel(c, n)
    PROVE  RelayInv' /\ LabelIsBound'
  <1>1. UNCHANGED <<nonce, pending, alloc, relays, binding, down>>
    BY DEF Send, FromPeer, SendOnChannel, Relay
  <1>2. RelayInv'
    BY <1>1 DEF RelayInv, Shapes, OneOwner, BindsAreReserved, DownIsEmpty, HeldExactly
  <1>3. ASSUME NEW p \in Peers, Send(c, p)
        PROVE  LabelIsBound'
    BY <1>3 DEF Send, Relay, LabelIsBound
  <1>4. ASSUME NEW p \in Peers, FromPeer(c, p)
        PROVE  LabelIsBound'
    <2> DEFINE n == alloc[c].byPeer[p]
    <2>1. /\ out'.client = c /\ out'.peer = p
          /\ out'.label = None \/ (n # None /\ out'.label = n)
      BY <1>4 DEF FromPeer, Relay
    <2>2. n # None => n \in Channels /\ alloc[c].channels[n].peer = p
      BY DEF RelayInv, Shapes, Good, Paired, Allocations
    <2> QED BY <1>1, <2>1, <2>2 DEF LabelIsBound
  <1>5. ASSUME NEW n \in Channels, SendOnChannel(c, n)
        PROVE  LabelIsBound'
    BY <1>1, <1>5 DEF SendOnChannel, Relay, LabelIsBound
  <1> QED BY <1>2, <1>3, <1>4, <1>5

LEMMA RelayInvNext ==
    ASSUME RelayInv, LabelIsBound, [TurnNext]_turnVars
    PROVE  RelayInv' /\ LabelIsBound'
  <1>1. CASE UNCHANGED turnVars
    BY <1>1 DEF turnVars, RelayInv, Shapes, OneOwner, BindsAreReserved, DownIsEmpty, HeldExactly,
                LabelIsBound
  <1>2. ASSUME NEW c \in Clients,
               Challenge(c) \/ AllocateAgain(c) \/ TooLate(c)
        PROVE  RelayInv' /\ LabelIsBound'
    <2>1. CASE Challenge(c)
      BY <2>1 DEF Challenge, RelayInv, Shapes, OneOwner, BindsAreReserved, DownIsEmpty, HeldExactly,
                  LabelIsBound
    <2>2. CASE AllocateAgain(c) \/ TooLate(c)
      BY <2>2, LookUpKeeps DEF AllocateAgain, TooLate, LabelIsBound
    <2> QED BY <1>2, <2>1, <2>2
  <1>3. ASSUME NEW c \in Clients,
               \/ \E p \in Peers : Send(c, p) \/ FromPeer(c, p)
               \/ \E n \in Channels : SendOnChannel(c, n)
        PROVE  RelayInv' /\ LabelIsBound'
    BY <1>3, RelayingIsLabelled
  <1>4. ASSUME NEW c \in Clients, NEW user \in Users, NEW lifetime \in 0 .. MaxLifetime,
               Allocate(c, user, lifetime) \/ Refresh(c, user, lifetime)
        PROVE  RelayInv' /\ LabelIsBound'
    <2>1. lifetime \in Nat
      BY TurnAssumption
    <2>2. RelayInv'
      BY <1>4, <2>1, AllocateKeeps, RefreshKeeps
    <2>3. LabelIsBound'
      BY <1>4 DEF Allocate, Refresh, ForAllocation, LabelIsBound
    <2> QED BY <2>2, <2>3
  <1>5. ASSUME NEW c \in Clients, NEW user \in Users, NEW addresses \in SUBSET Addresses,
               CreatePermission(c, user, addresses)
        PROVE  RelayInv' /\ LabelIsBound'
    BY <1>5, CreatePermissionKeeps DEF CreatePermission, ForAllocation, LabelIsBound
  <1>6. ASSUME NEW c \in Clients, NEW user \in Users, NEW n \in Channels, NEW p \in Peers,
               ChannelBind(c, user, n, p)
        PROVE  RelayInv' /\ LabelIsBound'
    BY <1>6, ChannelBindKeeps DEF ChannelBind, ForAllocation, LabelIsBound
  <1>7. ASSUME NEW b \in binding, Bound(b) \/ BindFails(b)
        PROVE  RelayInv' /\ LabelIsBound'
    BY <1>7, BoundKeeps, BindFailsKeeps DEF Bound, BindFails, LabelIsBound
  <1>8. CASE PeriodPasses
    BY <1>8, PeriodKeeps DEF PeriodPasses, LabelIsBound
  <1>9. CASE Sweep
    BY <1>9, SweepKeeps DEF Sweep, LabelIsBound
  <1>10. CASE ShutDown
    BY <1>10, ShutDownKeeps DEF ShutDown, LabelIsBound
  <1> QED BY <1>1, <1>2, <1>3, <1>4, <1>5, <1>6, <1>7, <1>8, <1>9, <1>10 DEF TurnNext

LEMMA RelayInvHolds == TurnSpec => [](RelayInv /\ LabelIsBound)
  <1>1. TurnInit => RelayInv /\ LabelIsBound
    BY RelayInvInit DEF TurnInit, LabelIsBound
  <1>2. RelayInv /\ LabelIsBound /\ [TurnNext]_turnVars => (RelayInv /\ LabelIsBound)'
    BY RelayInvNext
  <1> QED BY <1>1, <1>2, PTL DEF TurnSpec

\* Whatever expires, is swept, renewed or bound anew: the two directions of
\* every channel agree, and packets leave under numbers their client bound.
THEOREM ChannelsStayPaired == TurnSpec => []ChannelsPair
  <1>1. RelayInv /\ LabelIsBound => ChannelsPair
    BY DEF RelayInv, Shapes, Good, Paired, LabelIsBound, ChannelsPair
  <1> QED BY <1>1, RelayInvHolds, PTL

\* Every relay socket has exactly one owner and every owner's socket is open,
\* across bind() in flight, failures, expiry and close(); the limit holds.
THEOREM NoSocketIsLost == TurnSpec => []SocketsAccounted
  <1>1. RelayInv => SocketsAccounted
    <2> SUFFICES ASSUME RelayInv PROVE SocketsAccounted
      OBVIOUS
    <2> DEFINE held == {alloc[c].sock : c \in Clients} \cup {pending[c] : c \in Clients}
    <2>1. relays = held \ {None}
      BY DEF RelayInv, HeldExactly
    <2>2. \A c, d \in Clients :
             /\ alloc[c].sock # None => alloc[c].sock # pending[d]
             /\ c # d => /\ alloc[c].sock # None => alloc[c].sock # alloc[d].sock
                         /\ pending[c] # None => pending[c] # pending[d]
      BY DEF RelayInv, OneOwner
    <2> QED BY <2>1, <2>2 DEF RelayInv, SocketsAccounted
  <1> QED BY <1>1, RelayInvHolds, PTL
=============================================================================
