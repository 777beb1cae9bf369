--------------------------- MODULE ServerSession ---------------------------
(***************************************************************************)
(* One WebSocket session of the attestor server: AttestorServerSocket      *)
(* (server/socket.ts) on top of AttestorSocket (utils/socket-base.ts), the *)
(* message loop (client/utils/message-handler.ts), the RPC handlers init,  *)
(* createTunnel, disconnectTunnel and claimTunnel, and the TCP tunnels of  *)
(* server/tunnels/make-tcp-tunnel.ts.                                      *)
(*                                                                         *)
(* A frame is one WebSocket packet: the messages in it are handled one     *)
(* after the other, each handler being awaited, while different frames are *)
(* handled concurrently.  A handler gives up control at every await, so an *)
(* action is the code between two awaits.                                  *)
(***************************************************************************)
EXTENDS Integers, Sequences, SequencesExt

CONSTANTS
  Frames,        \* WebSocket packets the client may send on the session
  Query,         \* the frame carried by the connection URL (?messages=...)
  Batches,       \* contents a packet may have: sequences of messages
  TunnelIds,     \* ids the client gives its tunnels
  Hosts,         \* values of host, port and geoLocation of a tunnel
  Auths,         \* auth requests of init, as the host whitelist they carry
  Sockets,       \* TCP sockets the session may open
  Bytes,         \* contents of a tunnel message
  Offsets,       \* timestampS - now of a claim, in the claim's time unit
  MAX_CLAIM_TIMESTAMP_DIFF_S,
  BgpChecks,     \* is the BGP listener on (DISABLE_BGP_CHECKS # '1')
  UsesProxy,     \* are tunnels opened through the HTTPS proxy (geoLocation)
  MaxSent,       \* bound on the client messages recorded per tunnel
  MaxRecv,       \* bound on the server messages recorded per tunnel
  None           \* no socket, no auth, no claim

VARIABLES
  ws,            \* readyState of the WebSocket: "open", "closing", "closed"
  metadata,      \* auth of the session (None until isInitialised)
  granted,       \* history: every auth an init handler has accepted
  frame,         \* the message loop and the running handler of every frame
  tunnels,       \* the map client.tunnels
  sock,          \* state of every TCP socket
  request,       \* tunnel id and host a socket was created for
  transcript,    \* what a tunnel recorded of either direction
  onWire,        \* history: client messages the network really took
  bgp,           \* sockets whose BGP overlap callback is registered
  signed         \* history: claims the attestor signed

vars == <<ws, metadata, granted, frame, tunnels, sock, request, transcript,
          onWire, bgp, signed>>
tcpVars == <<request, transcript, onWire, bgp>>

Message ==
  [type : {"init"}, auth : Auths]
    \cup [type : {"createTunnel"}, id : TunnelIds, host : Hosts]
    \cup [type : {"disconnectTunnel"}, id : TunnelIds]
    \cup [type : {"claimTunnel"}, id : TunnelIds, host : Hosts]
    \cup [type : {"tunnelMessage"}, id : TunnelIds, message : Bytes]
    \cup [type : {"connectionTerminationAlert"}]

ASSUME SessionAssumption ==
  /\ Query \in Frames
  /\ Batches \subseteq Seq(Message) /\ <<>> \notin Batches
  /\ Auths \subseteq SUBSET Hosts
  /\ None \notin Sockets /\ None \notin Auths
  /\ Offsets \subseteq Int /\ MAX_CLAIM_TIMESTAMP_DIFF_S \in Nat
  /\ BgpChecks \in BOOLEAN /\ UsesProxy \in BOOLEAN
  /\ MaxSent \in Nat /\ MaxRecv \in Nat

Recorded == [client : Seq(Bytes), server : Seq(Bytes)]
Claim == [sock : Sockets, host : Hosts, offset : Offsets, transcript : Recorded]

(* Where the handler of a frame is: "idle" (packet not received), "next"   *)
(* (about to handle message pos), an await of a handler, "failed" and      *)
(* "alerting" (acceptConnection closing the connection) or "done".         *)
Awaits == {"auth", "connect", "bgp", "close", "validate"}
Frame == [msgs : Seq(Message), pos : Nat, sock : Sockets \cup {None},
          claim : Claim \cup {None},
          pc : {"idle", "next", "failed", "alerting", "done"} \cup Awaits]

SocketState == {"free", "proxying", "connecting", "open", "destroyed",
                "closed", "ended", "abandoned", "unowned"}

TypeOK ==
  /\ ws \in {"open", "closing", "closed"}
  /\ metadata \in Auths \cup {None}
  /\ granted \subseteq Auths
  /\ frame \in [Frames -> Frame]
  /\ tunnels \in [TunnelIds -> Sockets \cup {None}]
  /\ sock \in [Sockets -> SocketState]
  /\ request \in [Sockets -> [id : TunnelIds, host : Hosts] \cup {None}]
  /\ transcript \in [Sockets -> Recorded]
  /\ onWire \in [Sockets -> Nat]
  /\ bgp \subseteq Sockets
  /\ signed \subseteq Claim
----------------------------------------------------------------------------
isInitialised == metadata # None

Current(f) == frame[f].msgs[frame[f].pos]

(* The loops of wsMessageHandler and acceptConnection after a message that *)
(* was handled, and after one whose handler rejected: the rest of the      *)
(* packet is then skipped, and the connection is given up if the packet    *)
(* came with the URL.                                                      *)
Advance(fr) ==
  [fr EXCEPT !.pos = @ + 1, !.sock = None, !.claim = None,
             !.pc = IF fr.pos < Len(fr.msgs) THEN "next" ELSE "done"]
Abort(f) ==
  [frame[f] EXCEPT !.sock = None, !.claim = None,
                   !.pc = IF f = Query THEN "failed" ELSE "done"]

(* Wrong on purpose (as every definition named _Bug below, which only      *)
(* serves to show that a property can fail): the loop ignores errors.      *)
Respond_Bug(f, ok) ==
  frame' = [frame EXCEPT ![f] = IF ws = "open"
                                THEN Advance(frame[f]) ELSE Abort(f)]

(* respond() of handleMessage: on a connection that is no longer open the  *)
(* answer is dropped and the loop aborted; an error also aborts the loop.  *)
Respond(f, ok) ==
  frame' = [frame EXCEPT ![f] = IF ws = "open" /\ ok
                                THEN Advance(frame[f]) ELSE Abort(f)]

Await(f, pc) == frame' = [frame EXCEPT ![f].pc = pc]

Destroyed_Bug(state) == state

(* tunnel.close(): destroys a socket that is not closed yet. *)
Destroyed(state) == IF state = "open" THEN "destroyed" ELSE state

CloseAllTunnels_Bug == sock

(* The connection-terminated listener of AttestorServerSocket. *)
CloseAllTunnels ==
  [s \in Sockets |-> IF \E i \in TunnelIds : tunnels[i] = s
                     THEN Destroyed(sock[s]) ELSE sock[s]]

HostAllowed_Bug(auth, host) == TRUE

(* hostWhitelist of the auth request; an empty list allows every host. *)
HostAllowed(auth, host) == auth = {} \/ host \in auth

(* assertTranscriptsMatch: what the client sent must be equal, what it     *)
(* says it received must be the beginning of what the tunnel recorded.     *)
TranscriptsMatch(claimed, recorded) ==
  /\ claimed.client = recorded.client
  /\ IsPrefix(claimed.server, recorded.server)

(* Transcripts a client can put into a claim. *)
Claimable ==
  [client : UNION {[1..n -> Bytes] : n \in 0..MaxSent},
   server : UNION {[1..n -> Bytes] : n \in 0..MaxRecv}]
----------------------------------------------------------------------------
Init ==
  /\ ws = "open"
  /\ metadata = None
  /\ granted = {}
  /\ \E b \in Batches \cup {<<>>} :
       frame = [f \in Frames |->
                  [msgs |-> IF f = Query THEN b ELSE <<>>, pos |-> 1,
                   sock |-> None, claim |-> None,
                   pc |-> IF f # Query THEN "idle"
                          ELSE IF b = <<>> THEN "done" ELSE "next"]]
  /\ tunnels = [i \in TunnelIds |-> None]
  /\ sock = [s \in Sockets |-> "free"]
  /\ request = [s \in Sockets |-> None]
  /\ transcript = [s \in Sockets |-> [client |-> <<>>, server |-> <<>>]]
  /\ onWire = [s \in Sockets |-> 0]
  /\ bgp = {}
  /\ signed = {}

(* 'message' event: a packet arrives.  The ws library still delivers       *)
(* packets while the socket is closing.                                    *)
ReceiveFrame(f) ==
  /\ ws # "closed"
  /\ frame[f].pc = "idle"
  /\ \E b \in Batches :
       frame' = [frame EXCEPT ![f] = [@ EXCEPT !.msgs = b, !.pc = "next"]]
  /\ UNCHANGED <<ws, metadata, granted, tunnels, sock, tcpVars, signed>>

(* handleMessage on an alert of the client: closes the tunnels, and leaves *)
(* the session's own WebSocket open.                                       *)
HandleAlert(f) ==
  /\ frame[f].pc = "next"
  /\ Current(f).type = "connectionTerminationAlert"
  /\ sock' = CloseAllTunnels
  /\ frame' = [frame EXCEPT ![f] = Advance(@)]
  /\ UNCHANGED <<ws, metadata, granted, tunnels, tcpVars, signed>>

(* handleMessage on a request that comes before init has succeeded: an     *)
(* error is sent and the loop goes on with the next message.               *)
RejectUninitialised(f) ==
  /\ frame[f].pc = "next"
  /\ Current(f).type \in {"createTunnel", "disconnectTunnel", "claimTunnel"}
  /\ ~isInitialised
  /\ frame' = [frame EXCEPT ![f] = Advance(@)]
  /\ UNCHANGED <<ws, metadata, granted, tunnels, sock, tcpVars, signed>>

(* init, up to the await of assertValidAuthRequest. *)
StartInit(f) ==
  /\ frame[f].pc = "next"
  /\ Current(f).type = "init"
  /\ IF isInitialised THEN Respond(f, FALSE) ELSE Await(f, "auth")
  /\ UNCHANGED <<ws, metadata, granted, tunnels, sock, tcpVars, signed>>

(* init after the await: a refused signature type, version or auth         *)
(* request is an error, an accepted one becomes the session's metadata.    *)
FinishInit(f) ==
  /\ frame[f].pc = "auth"
  /\ \/ Respond(f, FALSE) /\ UNCHANGED <<metadata, granted>>
     \/ /\ metadata' = Current(f).auth
        /\ granted' = granted \cup {Current(f).auth}
        /\ Respond(f, TRUE)
  /\ UNCHANGED <<ws, tunnels, sock, tcpVars, signed>>

(* createTunnel, up to the await of connectTcp. *)
StartCreateTunnel(f) ==
  /\ frame[f].pc = "next"
  /\ Current(f).type = "createTunnel"
  /\ isInitialised
  /\ \/ /\ tunnels[Current(f).id] # None \/ ~HostAllowed(metadata, Current(f).host)
        /\ Respond(f, FALSE)
        /\ UNCHANGED <<sock, request>>
     \/ /\ tunnels[Current(f).id] = None /\ HostAllowed(metadata, Current(f).host)
        /\ \E s \in Sockets :
             /\ sock[s] = "free"
             /\ sock' = [sock EXCEPT ![s] = IF UsesProxy THEN "proxying"
                                            ELSE "connecting"]
             /\ request' = [request EXCEPT ![s] =
                              [id |-> Current(f).id, host |-> Current(f).host]]
             /\ frame' = [frame EXCEPT ![f] = [@ EXCEPT !.pc = "connect", !.sock = s]]
  /\ UNCHANGED <<ws, metadata, granted, tunnels, transcript, onWire, bgp, signed>>

RegisterTunnel_Bug(f) ==
  /\ tunnels' = [tunnels EXCEPT ![Current(f).id] =
                    IF ws = "open" THEN frame[f].sock ELSE @]
  /\ Respond(f, TRUE)

(* client.tunnels[id] = tunnel, and the answer of createTunnel. *)
RegisterTunnel(f) ==
  /\ tunnels' = [tunnels EXCEPT ![Current(f).id] = frame[f].sock]
  /\ Respond(f, TRUE)

(* getSocket got the proxy's 200 answer, possibly after retrying a 403     *)
(* with the host's addresses: the socket now waits for its connect event.  *)
ProxyConnected(s) ==
  /\ sock[s] = "proxying"
  /\ sock' = [sock EXCEPT ![s] = "connecting"]
  /\ UNCHANGED <<ws, metadata, granted, frame, tunnels, tcpVars, signed>>

(* 'connect' event: the tunnel starts recording; createTunnel goes on to   *)
(* resolve the host for the BGP check, or is done without one.             *)
Connected(f) ==
  /\ frame[f].pc = "connect"
  /\ sock[frame[f].sock] = "connecting"
  /\ sock' = [sock EXCEPT ![frame[f].sock] = "open"]
  /\ IF BgpChecks THEN Await(f, "bgp") /\ UNCHANGED tunnels
                  ELSE RegisterTunnel(f)
  /\ UNCHANGED <<ws, metadata, granted, tcpVars, signed>>

ConnectFailed_Bug(f) ==
  /\ frame[f].pc = "connect"
  /\ sock[frame[f].sock] = "connecting"
  /\ sock' = [sock EXCEPT ![frame[f].sock] = "ended"]
  /\ Respond(f, FALSE)
  /\ UNCHANGED <<ws, metadata, granted, tunnels, tcpVars, signed>>

(* The connection fails or the 10 s timer fires.  A socket that exists is  *)
(* ended; one that the proxy is still working on is not known yet.         *)
ConnectFailed(f) ==
  /\ frame[f].pc = "connect"
  /\ sock' = [sock EXCEPT ![frame[f].sock] =
                IF @ = "proxying" THEN "abandoned" ELSE "ended"]
  /\ Respond(f, FALSE)
  /\ UNCHANGED <<ws, metadata, granted, tunnels, tcpVars, signed>>

(* getSocket ends after connectTcp has already given up: a connection      *)
(* nobody holds, or none.                                                  *)
AbandonedProxy(s) ==
  /\ sock[s] = "abandoned"
  /\ \E state \in {"unowned", "ended"} : sock' = [sock EXCEPT ![s] = state]
  /\ UNCHANGED <<ws, metadata, granted, frame, tunnels, tcpVars, signed>>

(* checkForBgp ends: the callback is registered, or an error is logged;    *)
(* either way the tunnel enters the map.                                   *)
BgpChecked(f) ==
  /\ frame[f].pc = "bgp"
  /\ \E resolved \in BOOLEAN :
       bgp' = IF resolved THEN bgp \cup {frame[f].sock} ELSE bgp
  /\ RegisterTunnel(f)
  /\ UNCHANGED <<ws, metadata, granted, sock, request, transcript, onWire, signed>>

(* handleTunnelMessage: the message of an unknown tunnel is dropped;       *)
(* write() records it before it reaches the socket, which refuses it when  *)
(* it has been destroyed.                                                  *)
HandleTunnelMessage(f) ==
  /\ frame[f].pc = "next"
  /\ Current(f).type = "tunnelMessage"
  /\ LET s == tunnels[Current(f).id] IN
       \/ s = None /\ UNCHANGED <<transcript, onWire>>
       \/ /\ s # None
          /\ Len(transcript[s].client) < MaxSent
          /\ transcript' = [transcript EXCEPT ![s].client =
                              Append(@, Current(f).message)]
          /\ onWire' = [onWire EXCEPT ![s] =
                          IF sock[s] = "open" THEN @ + 1 ELSE @]
  /\ frame' = [frame EXCEPT ![f] = Advance(@)]
  /\ UNCHANGED <<ws, metadata, granted, tunnels, sock, request, bgp, signed>>

HandleDisconnectTunnel(f) ==
  /\ frame[f].pc = "next"
  /\ Current(f).type = "disconnectTunnel"
  /\ isInitialised
  /\ LET s == tunnels[Current(f).id] IN
       \/ s = None /\ Respond(f, FALSE) /\ UNCHANGED sock
       \/ /\ s # None
          /\ sock' = [sock EXCEPT ![s] = Destroyed(@)]
          /\ Respond(f, TRUE)
  /\ UNCHANGED <<ws, metadata, granted, tunnels, tcpVars, signed>>

(* claimTunnel, up to the await of tunnel.close(). *)
StartClaimTunnel(f) ==
  /\ frame[f].pc = "next"
  /\ Current(f).type = "claimTunnel"
  /\ isInitialised
  /\ LET s == tunnels[Current(f).id] IN
       \/ s = None /\ Respond(f, FALSE) /\ UNCHANGED sock
       \/ /\ s # None
          /\ sock' = [sock EXCEPT ![s] = Destroyed(@)]
          /\ frame' = [frame EXCEPT ![f] = [@ EXCEPT !.pc = "close", !.sock = s]]
  /\ UNCHANGED <<ws, metadata, granted, tunnels, tcpVars, signed>>

CheckClaim_Bug(f) ==
  /\ frame[f].pc = "close"
  /\ LET s == frame[f].sock IN
       frame' = [frame EXCEPT ![f].pc = "validate", ![f].claim =
                   [sock |-> s, host |-> Current(f).host, offset |-> None,
                    transcript |-> transcript[s]]]
  /\ UNCHANGED <<ws, metadata, granted, tunnels, sock, tcpVars, signed>>

(* claimTunnel, up to the await of assertValidClaimRequest: a request or a *)
(* transcript that is not the tunnel's is a bad request.                   *)
CheckClaim(f) ==
  /\ frame[f].pc = "close"
  /\ LET s == frame[f].sock IN
       \/ Respond(f, FALSE)
       \/ \E claimed \in Claimable, offset \in Offsets :
            /\ request[s].host = Current(f).host
            /\ TranscriptsMatch(claimed, transcript[s])
            /\ LET claim == [sock |-> s, host |-> Current(f).host,
                             offset |-> offset, transcript |-> claimed]
               IN frame' = [frame EXCEPT ![f] =
                              [@ EXCEPT !.pc = "validate", !.claim = claim]]
  /\ UNCHANGED <<ws, metadata, granted, tunnels, sock, tcpVars, signed>>

(* The rest of claimTunnel: a claim too far in the future, or one that     *)
(* assertValidClaimRequest refuses, is answered with an error inside a     *)
(* signed result; any other is signed.  The tunnel id leaves the map.  When *)
(* signAsAttestor throws, the client gets an error and the tunnel stays.   *)
FinishClaimTunnel(f) ==
  /\ frame[f].pc = "validate"
  /\ \/ /\ \/ UNCHANGED signed
           \/ /\ frame[f].claim.offset <= MAX_CLAIM_TIMESTAMP_DIFF_S
              /\ signed' = signed \cup {frame[f].claim}
        /\ tunnels' = [tunnels EXCEPT ![Current(f).id] = None]
        /\ Respond(f, TRUE)
     \/ Respond(f, FALSE) /\ UNCHANGED <<tunnels, signed>>
  /\ UNCHANGED <<ws, metadata, granted, sock, tcpVars>>
----------------------------------------------------------------------------
(* 'data' event: forwarded to the client and recorded. *)
ServerData(s) ==
  /\ sock[s] = "open"
  /\ Len(transcript[s].server) < MaxRecv
  /\ \E d \in Bytes :
       transcript' = [transcript EXCEPT ![s].server = Append(@, d)]
  /\ UNCHANGED <<ws, metadata, granted, frame, tunnels, sock, request, onWire,
                 bgp, signed>>

(* 'close' or 'error' event of a socket, after destroy() or because the    *)
(* remote end is gone: onSocketClose, which cancels the BGP callback.      *)
SocketClosed(s) ==
  /\ sock[s] \in {"open", "destroyed"}
  /\ sock' = [sock EXCEPT ![s] = "closed"]
  /\ bgp' = bgp \ {s}
  /\ UNCHANGED <<ws, metadata, granted, frame, tunnels, request, transcript,
                 onWire, signed>>

(* The BGP listener reports an overlap: every registered callback runs.    *)
BgpOverlap ==
  /\ bgp # {}
  /\ sock' = [s \in Sockets |-> IF s \in bgp THEN Destroyed(sock[s]) ELSE sock[s]]
  /\ UNCHANGED <<ws, metadata, granted, frame, tunnels, tcpVars, signed>>

(* acceptConnection's catch: terminateConnection dispatches the event,     *)
(* sends the alert, and closes the WebSocket once the alert is sent.       *)
TerminateConnection(f) ==
  /\ frame[f].pc = "failed"
  /\ \/ /\ ws = "open"
        /\ sock' = CloseAllTunnels
        /\ Await(f, "alerting")
     \/ /\ ws # "open"
        /\ Await(f, "done")
        /\ UNCHANGED sock
  /\ UNCHANGED <<ws, metadata, granted, tunnels, tcpVars, signed>>

AlertSent(f) ==
  /\ frame[f].pc = "alerting"
  /\ ws' = IF ws = "open" THEN "closing" ELSE ws
  /\ Await(f, "done")
  /\ UNCHANGED <<metadata, granted, tunnels, sock, tcpVars, signed>>

(* The peer closes, or the keep-alive timer calls ws.close(). *)
WsClosing ==
  /\ ws = "open"
  /\ ws' = "closing"
  /\ UNCHANGED <<metadata, granted, frame, tunnels, sock, tcpVars, signed>>

(* 'error' event of the WebSocket: the tunnels close before it does. *)
WsError ==
  /\ ws = "open"
  /\ ws' = "closing"
  /\ sock' = CloseAllTunnels
  /\ UNCHANGED <<metadata, granted, frame, tunnels, tcpVars, signed>>

(* 'close' event of the WebSocket. *)
WsClosed ==
  /\ ws = "closing"
  /\ ws' = "closed"
  /\ sock' = CloseAllTunnels
  /\ UNCHANGED <<metadata, granted, frame, tunnels, tcpVars, signed>>

Handle(f) ==
  \/ HandleAlert(f) \/ RejectUninitialised(f)
  \/ StartInit(f) \/ FinishInit(f)
  \/ StartCreateTunnel(f) \/ Connected(f) \/ ConnectFailed(f) \/ BgpChecked(f)
  \/ HandleTunnelMessage(f) \/ HandleDisconnectTunnel(f)
  \/ StartClaimTunnel(f) \/ CheckClaim(f) \/ FinishClaimTunnel(f)
  \/ TerminateConnection(f) \/ AlertSent(f)

Tcp(s) ==
  ProxyConnected(s) \/ AbandonedProxy(s) \/ ServerData(s) \/ SocketClosed(s)

Next ==
  \/ \E f \in Frames : ReceiveFrame(f) \/ Handle(f)
  \/ \E s \in Sockets : Tcp(s)
  \/ BgpOverlap \/ WsClosing \/ WsError \/ WsClosed

Spec == Init /\ [][Next]_vars

(* Every await of a handler ends (connectTcp is bounded by its timer, DNS  *)
(* and signing by theirs), a destroyed socket emits 'close', and so does a *)
(* closing WebSocket.  Nothing else is owed: the peers may stay silent.    *)
Fairness ==
  /\ \A f \in Frames : WF_vars(Handle(f))
  /\ \A s \in Sockets : WF_vars(sock[s] = "destroyed" /\ SocketClosed(s))
  /\ WF_vars(WsClosed)

FairSpec == Spec /\ Fairness
----------------------------------------------------------------------------
InMap(s) == \E i \in TunnelIds : tunnels[i] = s
BeingCreated(s) ==
  \E f \in Frames : frame[f].sock = s /\ frame[f].pc \in {"connect", "bgp"}

(* A tunnel is only ever opened to a host that the whitelist of an auth    *)
(* request accepted by init allows, however the init and createTunnel      *)
(* handlers of different packets interleave (createTunnel.ts:15).          *)
HostWhitelisted ==
  \A s \in Sockets : sock[s] # "free" =>
    \E a \in granted : a = {} \/ request[s].host \in a

(* A signed claim shows everything the tunnel's host was sent, and nothing *)
(* that the tunnel did not record: claimTunnel closes the tunnel before it *)
(* compares transcripts, so no later packet can reach the host and make    *)
(* the claim incomplete (claimTunnel.ts:19,46).                            *)
ClaimCoversWire ==
  \A c \in signed :
    /\ onWire[c.sock] <= Len(c.transcript.client)
    /\ IsPrefix(c.transcript.client, transcript[c.sock].client)
    /\ IsPrefix(c.transcript.server, transcript[c.sock].server)

ClaimedTunnelsFrozen ==
  \A c \in signed : /\ onWire'[c.sock] = onWire[c.sock]
                    /\ transcript'[c.sock].server = transcript[c.sock].server

(* Once a claim about a tunnel is signed, nothing is sent to or received   *)
(* from that tunnel's host any more.                                       *)
ClaimFreezesTunnel == [][ClaimedTunnelsFrozen]_vars

(* An open tunnel that createTunnel has finished with is in client.tunnels *)
(* (so that it can be claimed, disconnected, and closed with the session)  *)
(* unless the client used the tunnel's id for another tunnel of the        *)
(* session: a client that never reuses an id never loses a tunnel.         *)
OrphanNeedsIdReuse ==
  \A s \in Sockets :
    sock[s] = "open" /\ ~InMap(s) /\ ~BeingCreated(s) =>
      \E t \in Sockets \ {s} :
        sock[t] # "free" /\ request[t].id = request[s].id

(* A tunnel message packed behind the createTunnel request of its tunnel   *)
(* (as make-rpc-tls-tunnel.ts does to save a round trip) finds the tunnel: *)
(* the loop waits for createTunnel and skips the message when that fails.  *)
(* Only a claim takes a tunnel out of the map.                             *)
BatchedWriteFindsTunnel ==
  \A f \in Frames :
    /\ frame[f].pc = "next" /\ Current(f).type = "tunnelMessage"
    /\ \E j \in 1..(frame[f].pos - 1) :
         /\ frame[f].msgs[j].type = "createTunnel"
         /\ frame[f].msgs[j].id = Current(f).id
         /\ \E k \in 1..(j - 1) : frame[f].msgs[k].type = "init"
    /\ \A g \in Frames : \A j \in 1..Len(frame[g].msgs) :
         frame[g].msgs[j].type # "claimTunnel"
    => tunnels[Current(f).id] # None

(* The message loop gets through every packet: no handler waits forever,   *)
(* whatever the peers, the network and the other packets do.               *)
EveryFrameEnds ==
  \A f \in Frames : frame[f].pc # "idle" ~> frame[f].pc = "done"

(* The tunnels in the map when the WebSocket goes down are closed, as the  *)
(* connection-terminated listener intends (socket.ts:29).                  *)
MappedTunnelsClose ==
  \A i \in TunnelIds, s \in Sockets :
    (ws = "closing" /\ tunnels[i] = s) ~> (sock[s] = "closed" \/ tunnels[i] # s)

(* "close all tunnels when the connection is terminated" (socket.ts:29):   *)
(* once the WebSocket is closed and every handler has ended, no tunnel is  *)
(* open.                                                                   *)
NoTunnelOutlivesSession ==
  ws = "closed" /\ (\A f \in Frames : frame[f].pc \in {"idle", "done"})
    => \A s \in Sockets : sock[s] # "open"
============================================================================
