SPECIFICATION MCSpec
CONSTANTS
    Clients = {c1, c2, c3}
    Users = {"ann", "bob"}
    Peers <- MCPeers
    Channels = {16384, 16385}
    Sockets = {s1, s2, s3}
    None = None
    MaxAllocations = 2
    MaxLifetime = 2
    c1 = c1
    s1 = s1
    Socks = {w1, w2, w3}
    Rooms = {r1, r2}
    Nobody = Nobody
    MaxRooms = 2
    FailLimit = 2
    Relays = {n1, n2, nx}
    Malformed = {nx}
    MaxWaiting = 2
    Rates = {15, 30}
    Received = {12}
    Floor = 15
    Hold = 2
    Processes = {p1, p2}
    Owners = {d1}
    Nothing = Nothing
INVARIANTS
    ChannelsPair
    SocketsAccounted
    RoomsMatchSockets
PROPERTIES
    KeepsTrying
    EndsTogether
    NothingStaysHeld
    GrantsAreTold
    BitrateRecovers
    OneIdentity
CHECK_DEADLOCK FALSE
