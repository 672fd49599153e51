----------------------------- MODULE MCServices -----------------------------
(* What runs around a connection, for TLC: one service in each behaviour,    *)
(* chosen at the start; the others have been closed before, and stay so.     *)
EXTENDS TurnServer, Rendezvous, NostrChannel, MediaSession,
        AdaptiveBitrate, Storage

CONSTANTS c1, s1

VARIABLES service, scene

MCPeers == {<<"a", 1>>, <<"b", 1>>}

-----------------------------------------------------------------------------
(* Services that are not there. *)

TurnOff ==
    /\ nonce = [c \in Clients |-> 0] /\ pending = [c \in Clients |-> None]
    /\ alloc = [c \in Clients |-> NoAllocation]
    /\ relays = {} /\ binding = {} /\ out = None /\ down = TRUE

RvOff ==
    /\ ws = [c \in Socks |-> [state |-> "closed", room |-> Nobody, role |-> "none"]]
    /\ rooms = [r \in Rooms |-> NoRoom]
    /\ failures = [known |-> FALSE, count |-> 0] /\ relayed = Nobody

NcOff ==
    /\ conn = [r \in Relays |-> "none"] /\ alive = [r \in Relays |-> FALSE]
    /\ retry = {} /\ subscribed = {} /\ shut = TRUE

MediaOff ==
    /\ child = [c \in Children |-> [os |-> "died", heeds |-> 1, told |-> 1]]
    /\ heard = Children /\ closed = {"host", "viewer"} /\ exited = closed
    /\ toCapture = <<>> /\ ready = FALSE /\ permits = FALSE /\ held = FALSE
    /\ perm = FALSE /\ status = FALSE /\ startTimer = FALSE /\ closeTimer = FALSE
    /\ closing = FALSE /\ toViewer = <<>> /\ shown = "unknown"

AbrOff ==
    /\ maxKbps = 15 /\ minKbps = 15 /\ current = 15 /\ enabled = FALSE
    /\ load = "clean" /\ clear = 0 /\ sinceChange = Patience /\ sinceDecrease = 2
    /\ inEpisode = FALSE /\ capacity = 0 /\ fresh = FALSE /\ probeStep = 0

StorageOff ==
    /\ identity = Nothing /\ tmp = Nothing /\ peers = {} /\ paired = {}
    /\ pc = [p \in Processes |-> "never"] /\ known = [p \in Processes |-> Nothing]
    /\ listed = [p \in Processes |-> {}]
    /\ hosting = [p \in Processes |-> Nothing] /\ change = [p \in Processes |-> Nothing]

-----------------------------------------------------------------------------
(* Scenes keep the instances small: each is about one part of a service.     *)

Scenes == [turn |-> {"permissions", "crowd"}, rendezvous |-> {"rooms"}, nostr |-> {"relays"},
           media |-> {"control", "ends"}, bitrate |-> {"link"}, storage |-> {"first run"}]

\* One client that relays, or several that want sockets.
TurnScene ==
    /\ scene = "permissions" =>
          /\ \A c \in Clients \ {c1} : pending'[c] = None /\ nonce'[c] = 0
          /\ \A b \in binding' : b.left = MaxLifetime /\ b.sock = s1
    /\ scene = "crowd" =>
          /\ \A b \in binding' : b.user = "ann" /\ b.left <= 1
          /\ \A c \in Clients : /\ alloc'[c].left <= 1
                               /\ \A a \in Addresses : alloc'[c].permissions[a] = 0

\* At most one process that does not end when it is asked; or control only.
MediaStart ==
    /\ \A c, d \in Children : child[c].heeds # 1 /\ child[d].heeds # 1 => c = d
    /\ child["window"].os = "up"
    /\ child["sound"].os = IF child["sound"].heeds = 3 THEN "up" ELSE "failed"
    /\ scene = "control" => child["capture"].os = "up" /\ \A c \in Children : child[c].heeds = 1
    /\ scene = "ends" => perm

\* A process that may not heed the first word.  Only it is told more than that,
\* and only while one runs does it matter whether its program exits.
Slow(c) == child[c].heeds > 1 \/ (c = "capture" /\ ~ready)

MediaScene ==
    /\ \A c \in Children : child'[c].told > 1 => Slow(c)
    /\ scene = "ends" => perm' /\ \A i \in DOMAIN toCapture' : toCapture'[i] \in {"release", "shutdown"}
    /\ scene = "control" => \A c \in Children : Gone(c)' => child[c].told > 0 \/ Gone(c)
    /\ \A side \in exited' \ exited :
          scene = "ends" /\ \E c \in Children : Owner(c) = side /\ Up(c) /\ Slow(c)

MCInit ==
    /\ service \in DOMAIN Scenes /\ scene \in Scenes[service]
    /\ IF service = "turn" THEN TurnInit ELSE TurnOff
    /\ IF service = "rendezvous" THEN RvInit ELSE RvOff
    /\ IF service = "nostr" THEN NcInit ELSE NcOff
    /\ IF service = "media" THEN MediaInit /\ MediaStart ELSE MediaOff
    /\ IF service = "bitrate" THEN AbrInit ELSE AbrOff
    /\ IF service = "storage" THEN StorageInit ELSE StorageOff

vars == <<service, scene, turnVars, rvVars, ncVars, mediaVars, abrVars, storageVars>>

MCNext ==
    /\ UNCHANGED <<service, scene>>
    /\ \/ /\ service = "turn" /\ TurnNext /\ TurnScene
          /\ UNCHANGED <<rvVars, ncVars, mediaVars, abrVars, storageVars>>
       \/ /\ service = "rendezvous" /\ RvNext
          /\ UNCHANGED <<turnVars, ncVars, mediaVars, abrVars, storageVars>>
       \/ /\ service = "nostr" /\ NcNext
          /\ UNCHANGED <<turnVars, rvVars, mediaVars, abrVars, storageVars>>
       \/ /\ service = "media" /\ MediaNext /\ MediaScene
          /\ UNCHANGED <<turnVars, rvVars, ncVars, abrVars, storageVars>>
       \/ /\ service = "bitrate" /\ AbrNext
          /\ UNCHANGED <<turnVars, rvVars, ncVars, mediaVars, storageVars>>
       \/ /\ service = "storage" /\ StorageNext
          /\ UNCHANGED <<turnVars, rvVars, ncVars, mediaVars, abrVars>>

MCSpec == MCInit /\ [][MCNext]_vars /\ NcFairness /\ MediaFairness /\ AbrFairness
=============================================================================
