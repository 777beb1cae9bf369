----------------------------- MODULE KeepAlive -----------------------------
(***************************************************************************)
(* addKeepAlive (server/utils/keep-alive.ts) on one WebSocket, and the     *)
(* part of handleNewClient (server/create-server.ts) that attaches it.     *)
(*                                                                         *)
(* Time is discrete.  A timer is the number of ticks until it fires, Off   *)
(* when it is cleared; time does not pass while a timer is due, and what   *)
(* is due in one tick happens in any order.  The peer answers a ping with  *)
(* a pong that arrives within RoundTrip ticks, unless the peer has gone    *)
(* silent (its host or its network is gone, which TCP does not report) or  *)
(* the ping or pong is lost.                                               *)
(***************************************************************************)
EXTENDS Integers

CONSTANTS
    PING_INTERVAL_MS, MAX_NO_DATA_INTERVAL_MS,   \* in ticks
    RoundTrip,       \* the longest a pong takes
    MaxLost,         \* bound: pings in a row that get no pong
    Off              \* a cleared timer

(* the margin the two intervals leave for the network *)
ASSUME KeepAliveAssumption ==
    /\ PING_INTERVAL_MS \in Nat \ {0} /\ MAX_NO_DATA_INTERVAL_MS \in Nat
    /\ RoundTrip \in Nat /\ MaxLost \in Nat /\ Off \notin Nat
    /\ (MaxLost + 1) * PING_INTERVAL_MS + RoundTrip < MAX_NO_DATA_INTERVAL_MS

VARIABLES
    ws,           \* "open", "closing", "broken" (after 'error'), "closed"
    accept,       \* handleNewClient: "awaiting", "attached", "refused"
    sendTimeout,  \* ticks until the next ping
    killTimeout,  \* ticks until the connection is given up
    peer,         \* "live" or "silent"
    pongs,        \* the ticks each pong on its way has left
    lost,         \* how many of the last pings got no pong
    heard,        \* has a listener of addKeepAlive seen a packet
    dropped       \* history: has the kill timer closed the connection

vars == <<ws, accept, sendTimeout, killTimeout, peer, pongs, lost, heard, dropped>>
timers == <<sendTimeout, killTimeout>>

Receiving == ws \in {"open", "closing"} /\ peer = "live"

Timer(max) == {Off} \cup 0 .. max

TypeOK ==
    /\ ws \in {"open", "closing", "broken", "closed"}
    /\ accept \in {"awaiting", "attached", "refused"}
    /\ sendTimeout \in Timer(PING_INTERVAL_MS)
    /\ killTimeout \in Timer(MAX_NO_DATA_INTERVAL_MS)
    /\ peer \in {"live", "silent"}
    /\ pongs \subseteq 0 .. RoundTrip
    /\ lost \in 0 .. MaxLost
    /\ heard \in BOOLEAN
    /\ dropped \in BOOLEAN

Init ==
    /\ ws = "open"
    /\ accept = "awaiting"
    /\ sendTimeout = Off /\ killTimeout = Off
    /\ peer = "live"
    /\ pongs = {}
    /\ lost = 0
    /\ heard = FALSE
    /\ dropped = FALSE

-----------------------------------------------------------------------------
cleanup == sendTimeout' = Off /\ killTimeout' = Off

(* cleanup, then both timers anew *)
(* Wrong on purpose, as every definition named _Bug: a kill timer that is   *)
(* running is left as it is.                                                *)
resetTimer_Bug ==
    /\ sendTimeout' = PING_INTERVAL_MS
    /\ killTimeout' = IF killTimeout = Off THEN MAX_NO_DATA_INTERVAL_MS
                                           ELSE killTimeout
resetTimer ==
    /\ sendTimeout' = PING_INTERVAL_MS
    /\ killTimeout' = MAX_NO_DATA_INTERVAL_MS

(* The listeners for 'message' and 'pong': there is none before the        *)
(* keep-alive is attached.                                                 *)
Heard ==
    IF accept = "attached" THEN resetTimer /\ heard' = TRUE
                           ELSE UNCHANGED <<sendTimeout, killTimeout, heard>>

(* acceptConnection returned the client, whose socket may be closed by now *)
Attach ==
    /\ accept = "awaiting"
    /\ accept' = "attached"
    /\ UNCHANGED <<ws, timers, peer, pongs, lost, heard, dropped>>

(* a message of the URL failed: the connection is terminated if it is open *)
Refuse ==
    /\ accept = "awaiting"
    /\ accept' = "refused"
    /\ ws' = IF ws = "open" THEN "closing" ELSE ws
    /\ UNCHANGED <<timers, peer, pongs, lost, heard, dropped>>

OnMessage ==
    /\ Receiving
    /\ Heard
    /\ UNCHANGED <<ws, accept, peer, pongs, lost, dropped>>

OnPong(left) ==
    /\ Receiving
    /\ left \in pongs
    /\ pongs' = pongs \ {left}
    /\ lost' = 0
    /\ Heard
    /\ UNCHANGED <<ws, accept, peer, dropped>>

(* ws.ping() and resetSendTimeout(); on a socket that is no longer open the *)
(* ping is dropped                                                          *)
SendTimeout ==
    /\ sendTimeout = 0
    /\ sendTimeout' = PING_INTERVAL_MS
    /\ IF ws = "open" /\ peer = "live"
       THEN \/ pongs' = pongs \cup {RoundTrip} /\ UNCHANGED lost
            \/ lost < MaxLost /\ lost' = lost + 1 /\ UNCHANGED pongs
       ELSE UNCHANGED <<pongs, lost>>
    /\ UNCHANGED <<ws, accept, killTimeout, peer, heard, dropped>>

(* Wrong on purpose: gives the connection up for lost and does not close it. *)
KillTimeout_Bug ==
    /\ killTimeout = 0
    /\ killTimeout' = Off
    /\ dropped' = TRUE
    /\ UNCHANGED <<ws, accept, sendTimeout, peer, pongs, lost, heard>>
(* ws.close(), which does nothing on a socket that is closing already *)
KillTimeout ==
    /\ killTimeout = 0
    /\ killTimeout' = Off
    /\ ws' = IF ws = "open" THEN "closing" ELSE ws
    /\ dropped' = (dropped \/ ws = "open")
    /\ UNCHANGED <<accept, sendTimeout, peer, pongs, lost, heard>>

(* 'error': ws reads no more and emits 'close' next *)
OnError ==
    /\ ws \in {"open", "closing"}
    /\ ws' = "broken"
    /\ IF accept = "attached" THEN cleanup ELSE UNCHANGED timers
    /\ UNCHANGED <<accept, peer, pongs, lost, heard, dropped>>

(* Wrong on purpose: the 'close' listener does not clear the timers. *)
OnClose_Bug ==
    /\ ws \in {"closing", "broken"}
    /\ ws' = "closed"
    /\ pongs' = {}
    /\ UNCHANGED <<accept, timers, peer, lost, heard, dropped>>
(* 'close': the peer answered the close frame, or ws gave up waiting for it *)
OnClose ==
    /\ ws \in {"closing", "broken"}
    /\ ws' = "closed"
    /\ pongs' = {}
    /\ IF accept = "attached" THEN cleanup ELSE UNCHANGED timers
    /\ UNCHANGED <<accept, peer, lost, heard, dropped>>

(* the session is closed by the peer or terminated by the server for        *)
(* another reason                                                           *)
CloseBegins ==
    /\ ws = "open"
    /\ ws' = "closing"
    /\ UNCHANGED <<accept, timers, peer, pongs, lost, heard, dropped>>

PeerGoesSilent ==
    /\ peer = "live"
    /\ peer' = "silent"
    /\ pongs' = {}
    /\ UNCHANGED <<ws, accept, timers, lost, heard, dropped>>

Down(t) == IF t = Off THEN Off ELSE t - 1

Tick ==
    /\ 0 \notin {sendTimeout, killTimeout} \cup pongs
    /\ sendTimeout' = Down(sendTimeout)
    /\ killTimeout' = Down(killTimeout)
    /\ pongs' = {p - 1 : p \in pongs}
    /\ UNCHANGED <<ws, accept, peer, lost, heard, dropped>>

Next ==
    \/ Attach \/ Refuse
    \/ OnMessage \/ \E left \in 0 .. RoundTrip : OnPong(left)
    \/ SendTimeout \/ KillTimeout
    \/ OnError \/ CloseBegins \/ OnClose
    \/ PeerGoesSilent
    \/ Tick

Spec == Init /\ [][Next]_vars

(* Timers fire, time passes, and ws closes a closing socket in any case (it *)
(* destroys the TCP connection of a peer that does not answer).             *)
Fairness ==
    /\ WF_vars(Tick) /\ WF_vars(SendTimeout) /\ WF_vars(KillTimeout)
    /\ WF_vars(OnClose)

-----------------------------------------------------------------------------
(* A peer that answers is never taken for dead: as long as pongs take at    *)
(* most RoundTrip and no more than MaxLost pings in a row are lost, the     *)
(* kill timer of resetTimer does not close an open connection.              *)
LivePeerKept == dropped => peer = "silent"

(* The listener for 'close' leaves no timer behind that would ping or close *)
(* the socket later and keep it in memory, also when the close overtakes    *)
(* acceptConnection or the kill timer.                                      *)
NoTimerAfterClose == ws = "closed" => sendTimeout = Off /\ killTimeout = Off

(* A peer that falls silent is dropped, provided that the keep-alive heard  *)
(* from it once: a client that sends nothing after handleNewClient attached *)
(* the listeners starts no timer and is never pinged.                       *)
SilentPeerDropped == (heard /\ peer = "silent") ~> (ws = "closed")
=============================================================================
