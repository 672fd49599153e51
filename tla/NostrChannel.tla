---------------------------- MODULE NostrChannel ----------------------------
(***************************************************************************)
(* The connections of a Nostr channel (signal/nostr.mjs) to its relays: the *)
(* timers that notice a dead connection and those that make a new one.      *)
(*                                                                         *)
(* A connection whose relay is gone without a word is "dead": the channel   *)
(* takes it for open.  Back-off changes how long a retry waits, not whether *)
(* it fires, and is left out.                                               *)
(***************************************************************************)
CONSTANTS
    Relays,     \* the relays picked for the topic
    Malformed   \* those whose address WebSocket refuses at once

VARIABLES
    conn,       \* what became of the socket of each relay
    alive,      \* entry.alive: heard of since the last ping
    retry,      \* whether a timer to connect again is pending
    subscribed, \* whether the relay serves the subscription
    shut        \* close() was called

ncVars == <<conn, alive, retry, subscribed, shut>>

\* start(): every relay is tried.
NcInit ==
    /\ conn = [r \in Relays |-> IF r \in Malformed THEN "none" ELSE "connecting"]
    /\ alive = [r \in Relays |-> TRUE]
    /\ retry = {}
    /\ subscribed = {}
    /\ shut = FALSE

\* The connection stands: subscribe, and ping from now on; too late for a
\* channel that was closed meanwhile.
Opens(r) ==
    /\ conn[r] = "connecting"
    /\ IF shut
       THEN conn' = [conn EXCEPT ![r] = "closing"] /\ UNCHANGED subscribed
       ELSE conn' = [conn EXCEPT ![r] = "open"] /\ subscribed' = subscribed \cup {r}
    /\ UNCHANGED <<alive, retry, shut>>

\* Refused, or CONNECT_TIMEOUT_MS are over.
ConnectFails(r) ==
    /\ conn[r] = "connecting"
    /\ conn' = [conn EXCEPT ![r] = "closing"]
    /\ UNCHANGED <<alive, retry, subscribed, shut>>

\* Mutant: the ping does not clear the mark it will look at next time.
PingForgets(r) ==
    /\ conn[r] \in {"open", "dead"} /\ ~shut
    /\ alive' = [alive EXCEPT ![r] = TRUE]
    /\ conn' = IF alive[r] THEN conn ELSE [conn EXCEPT ![r] = "closing"]
    /\ UNCHANGED <<retry, subscribed, shut>>

\* Every PING_INTERVAL_MS: no sign of life since the last time is the end.
Ping(r) ==
    /\ conn[r] \in {"open", "dead"} /\ ~shut
    /\ alive' = [alive EXCEPT ![r] = FALSE]
    /\ conn' = IF alive[r] THEN conn ELSE [conn EXCEPT ![r] = "closing"]
    /\ UNCHANGED <<retry, subscribed, shut>>

\* A pong or a message.
Heard(r) ==
    /\ conn[r] = "open"
    /\ alive' = [alive EXCEPT ![r] = TRUE]
    /\ UNCHANGED <<conn, retry, subscribed, shut>>

\* Mutant: only a relay that served the subscription is tried again.
ClosedOnce(r) ==
    /\ conn[r] = "closing"
    /\ conn' = [conn EXCEPT ![r] = "none"]
    /\ subscribed' = subscribed \ {r}
    /\ retry' = IF shut \/ r \notin subscribed THEN retry ELSE retry \cup {r}
    /\ UNCHANGED <<alive, shut>>

\* The close event: come back later, unless the channel is closed.
Closed(r) ==
    /\ conn[r] = "closing"
    /\ conn' = [conn EXCEPT ![r] = "none"]
    /\ subscribed' = subscribed \ {r}
    /\ retry' = IF shut THEN retry ELSE retry \cup {r}
    /\ UNCHANGED <<alive, shut>>

\* The retry timer.
Reconnect(r) ==
    /\ r \in retry
    /\ retry' = retry \ {r}
    /\ conn' = [conn EXCEPT ![r] = "connecting"]
    /\ alive' = [alive EXCEPT ![r] = TRUE]
    /\ UNCHANGED <<subscribed, shut>>

\* The relay closes the connection.
RelayCloses(r) ==
    /\ conn[r] = "open"
    /\ conn' = [conn EXCEPT ![r] = "closing"]
    /\ UNCHANGED <<alive, retry, subscribed, shut>>

\* It disappears, or the path to it does.
RelayDies(r) ==
    /\ conn[r] = "open"
    /\ conn' = [conn EXCEPT ![r] = "dead"]
    /\ UNCHANGED <<alive, retry, subscribed, shut>>

\* A CLOSED message: the subscription ends, which is only reported.
RelayUnsubscribes(r) ==
    /\ conn[r] = "open" /\ r \in subscribed
    /\ alive' = [alive EXCEPT ![r] = TRUE]
    /\ subscribed' = subscribed \ {r}
    /\ UNCHANGED <<conn, retry, shut>>

\* Mutant: the timers of retries are left running.
CloseChannelOnly ==
    /\ ~shut
    /\ shut' = TRUE
    /\ conn' = [r \in Relays |-> IF conn[r] \in {"open", "dead"} THEN "closing" ELSE conn[r]]
    /\ UNCHANGED <<alive, retry, subscribed>>

\* close(): a socket that is still being connected may yet open.
CloseChannel ==
    /\ ~shut
    /\ shut' = TRUE
    /\ retry' = {}
    /\ conn' = [r \in Relays |-> IF conn[r] \in {"open", "dead"} THEN "closing" ELSE conn[r]]
    /\ UNCHANGED <<alive, subscribed>>

NcNext ==
    \/ \E r \in Relays : \/ Opens(r) \/ ConnectFails(r) \/ Ping(r) \/ Heard(r)
                         \/ Closed(r) \/ Reconnect(r) \/ RelayCloses(r)
                         \/ RelayDies(r) \/ RelayUnsubscribes(r)
    \/ CloseChannel

NcSpec == NcInit /\ [][NcNext]_ncVars

\* Timers fire and close events come; nothing is asked of the relays.
NcFairness ==
    \A r \in Relays : /\ WF_ncVars(Ping(r))
                      /\ WF_ncVars(Closed(r))
                      /\ WF_ncVars(Reconnect(r))
                      /\ WF_ncVars(ConnectFails(r) \/ Opens(r))

\* Until the channel is closed there is either a socket or a timer for a relay,
\* never both; then there is no timer, and no socket but one on its way out or
\* one that may yet open (connect, the close event, close).
SocketOrTimer(r) ==
    IF shut THEN r \notin retry /\ conn[r] \notin {"open", "dead"}
            ELSE r \in retry <=> conn[r] = "none"

\* A relay is never given up: there is a socket or a timer for it, and a
\* connection that is gone, with or without a word, is tried again.  After
\* close() nothing is, and every socket that is left goes.
KeepsTrying ==
    /\ [](\A r \in Relays \ Malformed : SocketOrTimer(r))
    /\ \A r \in Relays \ Malformed :
          /\ (conn[r] \in {"none", "dead", "closing"}) ~> (shut \/ conn[r] = "connecting")
          /\ shut ~> (conn[r] = "none")
=============================================================================
