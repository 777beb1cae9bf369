---------------------------- MODULE BgpListener ----------------------------
(***************************************************************************)
(* The BGP announcement listener (utils/bgp-listener.ts) that all tunnels  *)
(* of all sessions share: one set of watched addresses, one list of        *)
(* callbacks, and a WebSocket to the RIPE feed that is reopened when it    *)
(* fails.  A listener stands for one tunnel's call of onOverlap.           *)
(***************************************************************************)
EXTENDS Naturals, Sequences

CONSTANTS
  Listeners,     \* tunnels that watch the addresses of their host
  Ips,           \* addresses
  Prefixes,      \* prefixes an announcement may name
  Covers,        \* the addresses each prefix contains
  DefaultRoutes, \* prefixes that end with /0
  Malformed,     \* prefixes the CIDR parser throws on
  Updates,       \* BGP messages: sequences of announcements (of prefixes)
  Ws,            \* WebSocket objects the listener may create
  First          \* the one it creates at the start

ASSUME BgpAssumption ==
  /\ First \in Ws
  /\ DefaultRoutes \subseteq Prefixes /\ Malformed \subseteq Prefixes
  /\ Covers \in [Prefixes -> SUBSET Ips]
  /\ Updates \subseteq Seq(Seq(Prefixes))

VARIABLES
  closed,        \* close() was called
  crashed,       \* an exception left an event handler: the process is gone
  conn,          \* state of every WebSocket object
  ws,            \* the variable ws of createBgpListener
  subscribed,    \* WebSockets the subscription was sent on
  targetIps,     \* the Set of watched addresses
  ips,           \* addresses each listener asked for
  listening,     \* listeners whose callback is registered
  cancelled,     \* listeners that called the function onOverlap returned
  called,        \* history: listeners whose callback ran
  due            \* history: listeners an examined prefix overlapped

vars == <<closed, crashed, conn, ws, subscribed, targetIps, ips, listening,
          cancelled, called, due>>
feedVars == <<closed, crashed, conn, ws, subscribed>>
watchVars == <<targetIps, ips, listening, cancelled>>
heardVars == <<called, due>>

ConnState == {"none", "connecting", "open", "failed", "closing", "closed"}

TypeOK ==
  /\ closed \in BOOLEAN /\ crashed \in BOOLEAN
  /\ conn \in [Ws -> ConnState] /\ ws \in Ws /\ subscribed \subseteq Ws
  /\ targetIps \subseteq Ips /\ ips \in [Listeners -> SUBSET Ips]
  /\ listening \subseteq Listeners /\ cancelled \subseteq Listeners
  /\ called \subseteq Listeners /\ due \subseteq Listeners
----------------------------------------------------------------------------
Init ==
  /\ closed = FALSE /\ crashed = FALSE
  /\ conn = [w \in Ws |-> IF w = First THEN "connecting" ELSE "none"]
  /\ ws = First /\ subscribed = {}
  /\ targetIps = {} /\ ips = [l \in Listeners |-> {}]
  /\ listening = {} /\ cancelled = {}
  /\ called = {} /\ due = {}

(* onOverlap(ips, callback). *)
OnOverlap(l) ==
  /\ l \notin listening \cup cancelled
  /\ \E S \in SUBSET Ips :
       /\ ips' = [ips EXCEPT ![l] = S]
       /\ targetIps' = targetIps \cup S
  /\ listening' = listening \cup {l}
  /\ UNCHANGED <<feedVars, cancelled, heardVars>>

Cancel_Bug(l) ==
  /\ l \in listening
  /\ listening' = listening \ {l}
  /\ cancelled' = cancelled \cup {l}
  /\ UNCHANGED <<feedVars, targetIps, ips, heardVars>>

(* The function onOverlap returned: it deletes the listener's addresses,   *)
(* whoever else watches them.                                              *)
Cancel(l) ==
  /\ l \in listening
  /\ targetIps' = targetIps \ ips[l]
  /\ listening' = listening \ {l}
  /\ cancelled' = cancelled \cup {l}
  /\ UNCHANGED <<feedVars, ips, heardVars>>

(* overlapsTargetIps, for the addresses S. *)
Overlaps(p, S) == p \notin DefaultRoutes /\ Covers[p] \cap S # {}

(* The prefixes of an update that onMessage examines: it returns at an     *)
(* announcement without prefixes, and an exception of the CIDR parser ends *)
(* it too.                                                                 *)
Stops(u, i, j) ==
  \/ \E k \in 1..i : u[k] = <<>>
  \/ \E k \in 1..i : \E m \in DOMAIN u[k] :
       (k < i \/ m <= j) /\ u[k][m] \in Malformed \ DefaultRoutes
Examined(u) ==
  UNION {{u[i][j] : j \in {m \in DOMAIN u[i] : ~Stops(u, i, m)}} : i \in DOMAIN u}

Watching(P) == {l \in listening : \E p \in P : Overlaps(p, ips[l])}

OnMessage_Bug(w) ==
  /\ conn[w] \in {"open", "closing"} /\ w \in subscribed
  /\ \E u \in Updates :
       /\ called' = called \cup {l \in listening :
                        \E p \in Examined(u) : Covers[p] = ips[l]}
       /\ due' = due \cup Watching(Examined(u))
  /\ UNCHANGED <<feedVars, watchVars>>

(* onMessage: the first prefix that overlaps any watched address runs the  *)
(* callbacks of all listeners.                                             *)
OnMessage(w) ==
  /\ conn[w] \in {"open", "closing"} /\ w \in subscribed
  /\ \E u \in Updates :
       /\ called' = IF \E p \in Examined(u) : Overlaps(p, targetIps)
                    THEN called \cup listening ELSE called
       /\ due' = due \cup Watching(Examined(u))
  /\ UNCHANGED <<feedVars, watchVars>>
----------------------------------------------------------------------------
OnOpen_Bug(w) ==
  /\ conn[w] = "connecting"
  /\ conn' = [conn EXCEPT ![w] = "open"]
  /\ UNCHANGED <<closed, crashed, ws, subscribed, watchVars, heardVars>>

(* onOpen of WebSocket w: the subscription goes to the variable ws, which  *)
(* may hold another WebSocket.  send() throws on one that is connecting,   *)
(* and drops what it gets after it has left the open state.                *)
OnOpen(w) ==
  /\ conn[w] = "connecting"
  /\ conn' = [conn EXCEPT ![w] = "open"]
  /\ crashed' = (ws # w /\ conn[ws] = "connecting")
  /\ subscribed' = IF ws = w \/ conn[ws] = "open" THEN subscribed \cup {ws}
                   ELSE subscribed
  /\ UNCHANGED <<closed, ws, watchVars, heardVars>>

OnClose_Bug(w, state) ==
  \/ /\ conn' = [conn EXCEPT ![w] = state] /\ UNCHANGED ws
  \/ \E n \in Ws :
       /\ conn[n] = "none"
       /\ conn' = [conn EXCEPT ![w] = state, ![n] = "connecting"]
       /\ ws' = n

(* onClose, for an 'error' or 'close' event of w: opens a new WebSocket    *)
(* (openWs) unless close() was called.                                     *)
OnClose(w, state) ==
  \/ /\ closed
     /\ conn' = [conn EXCEPT ![w] = state] /\ UNCHANGED ws
  \/ /\ ~closed
     /\ \E n \in Ws :
          /\ conn[n] = "none"
          /\ conn' = [conn EXCEPT ![w] = state, ![n] = "connecting"]
          /\ ws' = n

(* 'error' event: the 'close' event of the same WebSocket follows. *)
WsError(w) ==
  /\ conn[w] \in {"connecting", "open"}
  /\ OnClose(w, "failed")
  /\ UNCHANGED <<closed, crashed, subscribed, watchVars, heardVars>>

(* 'close' event, after an error, or because the feed or close() ended it. *)
WsClose(w) ==
  /\ conn[w] \in {"open", "failed", "closing"}
  /\ OnClose(w, "closed")
  /\ UNCHANGED <<closed, crashed, subscribed, watchVars, heardVars>>

Close_Bug ==
  /\ ~closed
  /\ closed' = TRUE
  /\ ws' = "undefined"
  /\ UNCHANGED <<conn, crashed, subscribed, watchVars, heardVars>>

(* close(). *)
Close ==
  /\ ~closed
  /\ closed' = TRUE
  /\ conn' = [conn EXCEPT ![ws] = IF @ \in {"connecting", "open"} THEN "closing"
                                  ELSE @]
  /\ UNCHANGED <<crashed, ws, subscribed, watchVars, heardVars>>

(* 'error' event after close() has taken the handlers off, as when it      *)
(* aborts a connection attempt: the ws library throws it, nobody listening.*)
ErrorUnheard ==
  /\ closed /\ conn[ws] = "closing"
  /\ crashed' = TRUE
  /\ UNCHANGED <<closed, conn, ws, subscribed, watchVars, heardVars>>

Next ==
  /\ ~crashed
  /\ \/ \E l \in Listeners : OnOverlap(l) \/ Cancel(l)
     \/ \E w \in Ws : OnMessage(w) \/ OnOpen(w) \/ WsError(w) \/ WsClose(w)
     \/ Close \/ ErrorUnheard

Spec == Init /\ [][Next]_vars

(* A connection attempt ends and a failed WebSocket emits 'close'; the     *)
(* feed need not send, fail or close.                                      *)
Fairness ==
  \A w \in Ws :
    /\ WF_vars(~crashed /\ conn[w] = "connecting" /\ (OnOpen(w) \/ WsError(w)))
    /\ WF_vars(~crashed /\ conn[w] = "failed" /\ WsClose(w))

FairSpec == Spec /\ Fairness
----------------------------------------------------------------------------
(* No address is watched that no live tunnel asked for: a cancelled tunnel *)
(* leaves nothing behind that would close the others' tunnels later.       *)
NoStaleTarget == targetIps \subseteq UNION {ips[l] : l \in listening}

(* The callback of every tunnel whose address an examined prefix contains  *)
(* has run, unless a tunnel that watched one of the same addresses has     *)
(* been cancelled (bgp-listener.ts:41 deletes shared addresses).           *)
MissNeedsSharedIp ==
  \A l \in due \ called : \E m \in cancelled : ips[m] \cap ips[l] # {}

(* However often the feed failed, the WebSocket that the listener would    *)
(* close has its subscription when it is open (bgp-listener.ts:86).        *)
CurrentSubscribed == conn[ws] = "open" => ws \in subscribed

(* close() is final: no later event of any WebSocket, old or new, opens    *)
(* another one (bgp-listener.ts:92).                                       *)
OpensNothing == closed => ws' = ws /\ \A w \in Ws : conn[w] = "none" => conn'[w] = "none"
ClosedForGood == [][OpensNothing]_vars

(* The listener never gives up on a feed that stops failing (Ws is finite, *)
(* and a WebSocket only fails while another can be made): it is subscribed *)
(* again, was closed, or took the process down trying.                     *)
Resubscribes ==
  ~closed ~> closed \/ crashed \/ (conn[ws] = "open" /\ ws \in subscribed)
============================================================================
