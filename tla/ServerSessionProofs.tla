------------------------ MODULE ServerSessionProofs ------------------------
(***************************************************************************)
(* Proofs about ServerSession for every set of packets, tunnels and hosts: *)
(* type correctness, and that a signed claim covers what went over the     *)
(* wire.                                                                   *)
(***************************************************************************)
EXTENDS ServerSession, TLAPS

(* Sockets a tunnel was made of, and those of them that are closed for     *)
(* good: neither state is ever left.                                       *)
Established == {"open", "destroyed", "closed"}
Shut == {"destroyed", "closed"}

(* What holds of a claim from the comparison of its transcript on. *)
ClaimOK(c) ==
  /\ sock[c.sock] \in Shut
  /\ onWire[c.sock] <= Len(c.transcript.client)
  /\ IsPrefix(c.transcript.client, transcript[c.sock].client)
  /\ IsPrefix(c.transcript.server, transcript[c.sock].server)

(* What a handler may rely on at each of its awaits. *)
FrameOK(f) ==
  /\ frame[f].pc = "idle" => frame[f].pos = 1
  /\ frame[f].pc \notin {"idle", "done"} => frame[f].pos \in 1..Len(frame[f].msgs)
  /\ frame[f].pc = "auth" => Current(f).type = "init"
  /\ frame[f].pc \in {"connect", "bgp"} =>
       /\ Current(f).type = "createTunnel"
       /\ frame[f].sock \in Sockets
       /\ request[frame[f].sock].id = Current(f).id
  /\ frame[f].pc = "connect" => sock[frame[f].sock] \in {"proxying", "connecting"}
  /\ frame[f].pc = "bgp" => sock[frame[f].sock] \in Established
  /\ frame[f].pc \in {"close", "validate"} =>
       /\ Current(f).type = "claimTunnel"
       /\ frame[f].sock \in Sockets
       /\ request[frame[f].sock].id = Current(f).id
       /\ sock[frame[f].sock] \in Shut
  /\ frame[f].pc = "validate" => frame[f].claim \in Claim /\ ClaimOK(frame[f].claim)

(* Two createTunnel handlers never wait for the same connection. *)
SoleCreator ==
  \A f, g \in Frames :
    frame[f].pc = "connect" /\ frame[g].pc = "connect"
      /\ frame[f].sock = frame[g].sock => f = g

MapOK ==
  \A i \in TunnelIds : tunnels[i] # None =>
    sock[tunnels[i]] \in Established /\ request[tunnels[i]].id = i

RequestOK ==
  \A s \in Sockets : sock[s] # "free" => request[s] \in [id : TunnelIds, host : Hosts]

WireOK == \A s \in Sockets : onWire[s] <= Len(transcript[s].client)

SignedOK == \A c \in signed : ClaimOK(c)

(* The auth of the session is one that an init handler accepted. *)
GrantOK == metadata # None => metadata \in granted

(* The inductive invariant. *)
IInv ==
  /\ TypeOK
  /\ \A f \in Frames : FrameOK(f)
  /\ SoleCreator /\ MapOK /\ RequestOK /\ WireOK /\ SignedOK
  /\ GrantOK /\ HostWhitelisted /\ OrphanNeedsIdReuse
----------------------------------------------------------------------------
LEMMA PrefixReflexive ==
  ASSUME NEW S, NEW s \in Seq(S)
  PROVE  IsPrefix(s, s)
BY DEF IsPrefix

LEMMA PrefixAppend ==
  ASSUME NEW S, NEW s \in Seq(S), NEW t \in Seq(S), NEW e \in S, IsPrefix(s, t)
  PROVE  IsPrefix(s, Append(t, e))
<1>1. Len(Append(t, e)) = Len(t) + 1
  OBVIOUS
<1>2. \A i \in 1..Len(s) : Append(t, e)[i] = t[i]
  BY DEF IsPrefix
<1>3. SubSeq(Append(t, e), 1, Len(s)) = SubSeq(t, 1, Len(s))
  BY <1>1, <1>2 DEF IsPrefix
<1>. QED
  BY <1>1, <1>3 DEF IsPrefix

LEMMA InitTypeOK == Init => TypeOK
<1>. SUFFICES ASSUME Init PROVE TypeOK
  OBVIOUS
<1>1. frame \in [Frames -> Frame]
  <2>1. PICK b \in Batches \cup {<<>>} :
       frame = [f \in Frames |->
                  [msgs |-> IF f = Query THEN b ELSE <<>>, pos |-> 1,
                   sock |-> None, claim |-> None,
                   pc |-> IF f # Query THEN "idle"
                          ELSE IF b = <<>> THEN "done" ELSE "next"]]
    BY DEF Init
  <2>2. <<>> \in Seq(Message)
    OBVIOUS
  <2>3. b \in Seq(Message)
    <3>1. Batches \subseteq Seq(Message)
      BY SessionAssumption DEF SessionAssumption
    <3>. QED  BY <2>2, <3>1
  <2>. QED
    BY <2>1, <2>2, <2>3 DEF Frame
<1>. QED
  BY <1>1 DEF Init, TypeOK, SocketState, Recorded

(* The fields a message of a given type has. *)
LEMMA MessageFields ==
  ASSUME NEW m \in Message
  PROVE  /\ m.type = "init" => m.auth \in Auths
         /\ m.type \in {"createTunnel", "claimTunnel"} =>
              m.id \in TunnelIds /\ m.host \in Hosts
         /\ m.type = "disconnectTunnel" => m.id \in TunnelIds
         /\ m.type = "tunnelMessage" => m.id \in TunnelIds /\ m.message \in Bytes
BY DEF Message

LEMMA CurrentIsMessage ==
  ASSUME TypeOK, NEW f \in Frames, FrameOK(f), frame[f].pc \notin {"idle", "done"}
  PROVE  Current(f) \in Message
BY DEF TypeOK, FrameOK, Frame, Current

LEMMA AdvanceType ==
  ASSUME NEW fr \in Frame
  PROVE  Advance(fr) \in Frame
<1>1. fr.pos + 1 \in Nat
  BY DEF Frame
<1>. DEFINE pc == IF fr.pos < Len(fr.msgs) THEN "next" ELSE "done"
<1>2. pc \in {"next", "done"}
  OBVIOUS
<1>3. Advance(fr) = [fr EXCEPT !.pos = fr.pos + 1, !.sock = None, !.claim = None,
                               !.pc = pc]
  BY DEF Advance
<1>. HIDE DEF pc
<1>. QED
  BY <1>1, <1>2, <1>3 DEF Frame

LEMMA AbortType ==
  ASSUME TypeOK, NEW f \in Frames
  PROVE  Abort(f) \in Frame
BY DEF Abort, Frame, TypeOK

LEMMA RespondType ==
  ASSUME TypeOK, NEW f \in Frames, NEW ok \in BOOLEAN, Respond(f, ok)
  PROVE  frame' \in [Frames -> Frame]
<1>1. frame[f] \in Frame
  BY DEF TypeOK
<1>2. Advance(frame[f]) \in Frame /\ Abort(f) \in Frame
  BY <1>1, AdvanceType, AbortType
<1>. QED
  BY <1>2 DEF Respond, TypeOK

LEMMA CloseAllType ==
  ASSUME TypeOK
  PROVE  CloseAllTunnels \in [Sockets -> SocketState]
BY DEF TypeOK, CloseAllTunnels, Destroyed, SocketState

LEMMA AdvanceFrameType ==
  ASSUME TypeOK, NEW f \in Frames,
         frame' = [frame EXCEPT ![f] = Advance(frame[f])]
  PROVE  frame' \in [Frames -> Frame]
BY AdvanceType DEF TypeOK

LEMMA AwaitType ==
  ASSUME TypeOK, NEW f \in Frames, NEW pc \in {"done", "alerting"} \cup Awaits,
         Await(f, pc)
  PROVE  frame' \in [Frames -> Frame]
<1>1. frame[f] \in Frame /\ frame \in [Frames -> Frame]
  BY DEF TypeOK
<1>2. [frame[f] EXCEPT !.pc = pc] \in Frame
  BY <1>1 DEF Frame, Awaits
<1>3. frame' = [frame EXCEPT ![f] = [frame[f] EXCEPT !.pc = pc]]
  BY DEF Await
<1>. QED
  BY <1>1, <1>2, <1>3

LEMMA FrameUpdateType ==
  ASSUME TypeOK, NEW f \in Frames, NEW fr \in Frame
  PROVE  [frame EXCEPT ![f] = fr] \in [Frames -> Frame]
BY DEF TypeOK

LEMMA RecordType ==
  ASSUME NEW r \in Recorded, NEW d \in Bytes
  PROVE  /\ [r EXCEPT !.client = Append(@, d)] \in Recorded
         /\ [r EXCEPT !.server = Append(@, d)] \in Recorded
<1>. DEFINE c == Append(r.client, d)  v == Append(r.server, d)
<1>1. c \in Seq(Bytes) /\ v \in Seq(Bytes)
  BY DEF Recorded
<1>. HIDE DEF c, v
<1>2. [r EXCEPT !.client = c] \in Recorded /\ [r EXCEPT !.server = v] \in Recorded
  BY <1>1 DEF Recorded
<1>. QED
  BY <1>2 DEF c, v

(* One step of a packet's handler keeps the types. *)
LEMMA HandleTypeOK ==
  ASSUME IInv, NEW f \in Frames, Handle(f)
  PROVE  TypeOK'
<1>. USE DEF tcpVars
<1>. TypeOK /\ FrameOK(f)
  BY DEF IInv
<1>1. CASE HandleAlert(f)
  <2>1. frame' \in [Frames -> Frame]
    BY <1>1, AdvanceFrameType DEF HandleAlert
  <2>. QED
    BY <1>1, <2>1, CloseAllType DEF HandleAlert, TypeOK
<1>2. CASE RejectUninitialised(f)
  <2>1. frame' \in [Frames -> Frame]
    BY <1>2, AdvanceFrameType DEF RejectUninitialised
  <2>. QED
    BY <1>2, <2>1 DEF RejectUninitialised, TypeOK
<1>3. CASE StartInit(f)
  <2>1. frame' \in [Frames -> Frame]
    BY <1>3, RespondType, AwaitType DEF StartInit, Awaits
  <2>. QED
    BY <1>3, <2>1 DEF StartInit, TypeOK
<1>4. CASE FinishInit(f)
  <2>1. frame' \in [Frames -> Frame]
    BY <1>4, RespondType DEF FinishInit
  <2>2. Current(f).auth \in Auths
    BY <1>4, CurrentIsMessage, MessageFields DEF FinishInit, FrameOK
  <2>. QED
    BY <1>4, <2>1, <2>2 DEF FinishInit, TypeOK
<1>5. CASE StartCreateTunnel(f)
  <2>1. Current(f).id \in TunnelIds /\ Current(f).host \in Hosts
    BY <1>5, CurrentIsMessage, MessageFields DEF StartCreateTunnel
  <2>2. CASE Respond(f, FALSE) /\ UNCHANGED <<sock, request>>
    <3>1. frame' \in [Frames -> Frame]
      BY <2>2, RespondType
    <3>. QED
      BY <1>5, <2>2, <3>1 DEF StartCreateTunnel, TypeOK
  <2>3. CASE \E s \in Sockets :
             /\ sock[s] = "free"
             /\ sock' = [sock EXCEPT ![s] = IF UsesProxy THEN "proxying"
                                            ELSE "connecting"]
             /\ request' = [request EXCEPT ![s] =
                              [id |-> Current(f).id, host |-> Current(f).host]]
             /\ frame' = [frame EXCEPT ![f] = [@ EXCEPT !.pc = "connect", !.sock = s]]
    <3>1. frame' \in [Frames -> Frame]
      <4>1. PICK s \in Sockets :
              frame' = [frame EXCEPT ![f] = [@ EXCEPT !.pc = "connect", !.sock = s]]
        BY <2>3
      <4>2. [frame[f] EXCEPT !.pc = "connect", !.sock = s] \in Frame
        BY DEF TypeOK, Frame, Awaits
      <4>. QED
        BY <4>1, <4>2, FrameUpdateType
    <3>2. sock' \in [Sockets -> SocketState]
      BY <2>3 DEF TypeOK, SocketState
    <3>3. request' \in [Sockets -> [id : TunnelIds, host : Hosts] \cup {None}]
      BY <2>1, <2>3 DEF TypeOK
    <3>. QED
      BY <1>5, <3>1, <3>2, <3>3 DEF StartCreateTunnel, TypeOK
  <2>. QED
    BY <1>5, <2>2, <2>3 DEF StartCreateTunnel
<1>6. CASE Connected(f)
  <2>1. Current(f).id \in TunnelIds /\ frame[f].sock \in Sockets
    BY <1>6, CurrentIsMessage, MessageFields DEF Connected, FrameOK
  <2>2. frame' \in [Frames -> Frame]
    BY <1>6, RespondType, AwaitType DEF Connected, Awaits, RegisterTunnel
  <2>3. tunnels' \in [TunnelIds -> Sockets \cup {None}]
    BY <1>6, <2>1 DEF Connected, RegisterTunnel, TypeOK
  <2>. QED
    BY <1>6, <2>2, <2>3 DEF Connected, TypeOK, SocketState
<1>7. CASE ConnectFailed(f)
  <2>1. frame' \in [Frames -> Frame]
    BY <1>7, RespondType DEF ConnectFailed
  <2>. QED
    BY <1>7, <2>1 DEF ConnectFailed, TypeOK, SocketState
<1>8. CASE BgpChecked(f)
  <2>1. Current(f).id \in TunnelIds /\ frame[f].sock \in Sockets
    BY <1>8, CurrentIsMessage, MessageFields DEF BgpChecked, FrameOK
  <2>2. frame' \in [Frames -> Frame]
    BY <1>8, RespondType DEF BgpChecked, RegisterTunnel
  <2>3. tunnels' \in [TunnelIds -> Sockets \cup {None}]
    BY <1>8, <2>1 DEF BgpChecked, RegisterTunnel, TypeOK
  <2>. QED
    BY <1>8, <2>1, <2>2, <2>3 DEF BgpChecked, TypeOK
<1>9. CASE HandleTunnelMessage(f)
  <2>1. Current(f).id \in TunnelIds /\ Current(f).message \in Bytes
    BY <1>9, CurrentIsMessage, MessageFields DEF HandleTunnelMessage
  <2>2. frame' \in [Frames -> Frame]
    BY <1>9, AdvanceFrameType DEF HandleTunnelMessage
  <2>. DEFINE s == tunnels[Current(f).id]
  <2>3. CASE s = None
    BY <1>9, <2>2, <2>3 DEF HandleTunnelMessage, TypeOK
  <2>4. CASE s # None
    <3>1. s \in Sockets
      BY <2>1, <2>4 DEF TypeOK
    <3>2. /\ transcript' = [transcript EXCEPT ![s].client =
                               Append(@, Current(f).message)]
          /\ onWire' = [onWire EXCEPT ![s] = IF sock[s] = "open" THEN @ + 1 ELSE @]
      BY <1>9, <2>4 DEF HandleTunnelMessage
    <3>. HIDE DEF s
    <3>3. transcript' \in [Sockets -> Recorded]
      <4>1. [transcript[s] EXCEPT !.client = Append(@, Current(f).message)] \in Recorded
        BY <2>1, <3>1, RecordType DEF TypeOK
      <4>. QED
        BY <3>1, <3>2, <4>1 DEF TypeOK
    <3>4. onWire' \in [Sockets -> Nat]
      BY <3>1, <3>2 DEF TypeOK
    <3>. QED
      BY <1>9, <2>2, <3>3, <3>4 DEF HandleTunnelMessage, TypeOK
  <2>. QED
    BY <2>3, <2>4
<1>10. CASE HandleDisconnectTunnel(f)
  <2>1. frame' \in [Frames -> Frame]
    BY <1>10, RespondType DEF HandleDisconnectTunnel
  <2>2. sock' \in [Sockets -> SocketState]
    BY <1>10 DEF HandleDisconnectTunnel, TypeOK, Destroyed, SocketState
  <2>. QED
    BY <1>10, <2>1, <2>2 DEF HandleDisconnectTunnel, TypeOK
<1>11. CASE StartClaimTunnel(f)
  <2>1. Current(f).id \in TunnelIds
    BY <1>11, CurrentIsMessage, MessageFields DEF StartClaimTunnel
  <2>2. frame' \in [Frames -> Frame]
    <3>. DEFINE s == tunnels[Current(f).id]
    <3>1. s \in Sockets \cup {None}
      BY <2>1 DEF TypeOK
    <3>. HIDE DEF s
    <3>2. CASE Respond(f, FALSE)
      BY <3>2, RespondType
    <3>3. CASE frame' = [frame EXCEPT ![f] = [@ EXCEPT !.pc = "close", !.sock = s]]
      <4>1. [frame[f] EXCEPT !.pc = "close", !.sock = s] \in Frame
        BY <3>1 DEF TypeOK, Frame, Awaits
      <4>. QED
        BY <3>3, <4>1, FrameUpdateType
    <3>. QED
      BY <1>11, <3>2, <3>3 DEF StartClaimTunnel, s
  <2>3. sock' \in [Sockets -> SocketState]
    BY <1>11 DEF StartClaimTunnel, TypeOK, Destroyed, SocketState
  <2>. QED
    BY <1>11, <2>2, <2>3 DEF StartClaimTunnel, TypeOK
<1>12. CASE CheckClaim(f)
  <2>1. Current(f).host \in Hosts /\ frame[f].sock \in Sockets
    BY <1>12, CurrentIsMessage, MessageFields DEF CheckClaim, FrameOK
  <2>2. Claimable \subseteq Recorded
    BY DEF Claimable, Recorded
  <2>3. CASE Respond(f, FALSE)
    BY <1>12, <2>3, RespondType DEF CheckClaim, TypeOK
  <2>4. ASSUME NEW claimed \in Claimable, NEW offset \in Offsets,
               LET claim == [sock |-> frame[f].sock, host |-> Current(f).host,
                             offset |-> offset, transcript |-> claimed]
               IN frame' = [frame EXCEPT ![f] =
                              [@ EXCEPT !.pc = "validate", !.claim = claim]]
        PROVE  frame' \in [Frames -> Frame]
    <3>1. [sock |-> frame[f].sock, host |-> Current(f).host,
           offset |-> offset, transcript |-> claimed] \in Claim
      BY <2>1, <2>2 DEF Claim
    <3>. DEFINE c == [sock |-> frame[f].sock, host |-> Current(f).host,
                      offset |-> offset, transcript |-> claimed]
    <3>2. c \in Claim /\ frame' =
            [frame EXCEPT ![f] = [@ EXCEPT !.pc = "validate", !.claim = c]]
      BY <2>4, <3>1
    <3>. HIDE DEF c
    <3>3. [frame[f] EXCEPT !.pc = "validate", !.claim = c] \in Frame
      BY <3>2 DEF TypeOK, Frame, Awaits
    <3>. QED
      BY <3>2, <3>3, FrameUpdateType
  <2>. QED
    BY <1>12, <2>3, <2>4 DEF CheckClaim, TypeOK
<1>13. CASE FinishClaimTunnel(f)
  <2>1. frame' \in [Frames -> Frame]
    BY <1>13, RespondType DEF FinishClaimTunnel
  <2>2. signed' \subseteq Claim
    BY <1>13 DEF FinishClaimTunnel, FrameOK, TypeOK
  <2>. QED
    BY <1>13, <2>1, <2>2 DEF FinishClaimTunnel, TypeOK
<1>14. CASE TerminateConnection(f)
  <2>1. frame' \in [Frames -> Frame]
    BY <1>14, AwaitType DEF TerminateConnection
  <2>. QED
    BY <1>14, <2>1, CloseAllType DEF TerminateConnection, TypeOK
<1>15. CASE AlertSent(f)
  <2>1. frame' \in [Frames -> Frame]
    BY <1>15, AwaitType DEF AlertSent
  <2>. QED
    BY <1>15, <2>1 DEF AlertSent, TypeOK
<1>. QED
  BY <1>1, <1>2, <1>3, <1>4, <1>5, <1>6, <1>7, <1>8, <1>9, <1>10, <1>11,
     <1>12, <1>13, <1>14, <1>15 DEF Handle

LEMMA NextTypeOK == IInv /\ [Next]_vars => TypeOK'
<1>. SUFFICES ASSUME IInv, [Next]_vars PROVE TypeOK'
  OBVIOUS
<1>. USE DEF tcpVars
<1>. TypeOK
  BY DEF IInv
<1>1. ASSUME NEW f \in Frames, ReceiveFrame(f) PROVE TypeOK'
  <2>1. Batches \subseteq Seq(Message)
    BY SessionAssumption DEF SessionAssumption
  <2>2. PICK b \in Batches : frame' = [frame EXCEPT ![f] = [@ EXCEPT !.msgs = b, !.pc = "next"]]
    BY <1>1 DEF ReceiveFrame
  <2>3. [frame[f] EXCEPT !.msgs = b, !.pc = "next"] \in Frame
    BY <2>1 DEF TypeOK, Frame
  <2>4. frame' \in [Frames -> Frame]
    BY <2>2, <2>3, FrameUpdateType
  <2>. QED
    BY <1>1, <2>4 DEF ReceiveFrame, TypeOK
<1>2. ASSUME NEW f \in Frames, Handle(f) PROVE TypeOK'
  BY <1>2, HandleTypeOK
<1>3. ASSUME NEW s \in Sockets, Tcp(s) PROVE TypeOK'
  <2>1. CASE ServerData(s)
    <3>1. PICK d \in Bytes :
            transcript' = [transcript EXCEPT ![s].server = Append(@, d)]
      BY <2>1 DEF ServerData
    <3>2. [transcript[s] EXCEPT !.server = Append(@, d)] \in Recorded
      BY RecordType DEF TypeOK
    <3>3. transcript' \in [Sockets -> Recorded]
      BY <3>1, <3>2 DEF TypeOK
    <3>. QED
      BY <2>1, <3>3 DEF ServerData, TypeOK
  <2>2. CASE SocketClosed(s)
    BY <2>2 DEF SocketClosed, TypeOK, SocketState
  <2>3. CASE ProxyConnected(s) \/ AbandonedProxy(s)
    BY <2>3 DEF ProxyConnected, AbandonedProxy, TypeOK, SocketState
  <2>. QED
    BY <1>3, <2>1, <2>2, <2>3 DEF Tcp
<1>4. CASE BgpOverlap
  BY <1>4 DEF BgpOverlap, TypeOK, SocketState, Destroyed
<1>5. CASE WsClosing
  BY <1>5 DEF WsClosing, TypeOK
<1>6. CASE WsError \/ WsClosed
  BY <1>6, CloseAllType DEF WsError, WsClosed, TypeOK
<1>7. CASE UNCHANGED vars
  BY <1>7 DEF vars, TypeOK
<1>. QED
  BY <1>1, <1>2, <1>3, <1>4, <1>5, <1>6, <1>7 DEF Next
----------------------------------------------------------------------------
(* What one step may do to a TCP socket and its transcript. *)
TcpStep(s) ==
  /\ sock[s] \in Established => sock'[s] \in Established
  /\ sock[s] \in Shut => /\ sock'[s] \in Shut
                        /\ onWire'[s] = onWire[s]
                        /\ transcript'[s].server = transcript[s].server
  /\ sock[s] # "free" => sock'[s] # "free" /\ request'[s] = request[s]
  /\ \/ transcript'[s] = transcript[s]
     \/ \E d \in Bytes :
          \/ transcript'[s] = [transcript[s] EXCEPT !.client = Append(@, d)]
          \/ transcript'[s] = [transcript[s] EXCEPT !.server = Append(@, d)]

(* Steps that leave the sockets alone, or only destroy open ones. *)
LEMMA DestroyingStep ==
  ASSUME TypeOK, UNCHANGED tcpVars, NEW S, NEW s \in Sockets,
         sock' = [t \in Sockets |-> IF t \in S THEN Destroyed(sock[t]) ELSE sock[t]]
  PROVE  TcpStep(s)
BY DEF TcpStep, TypeOK, Destroyed, Established, Shut, tcpVars

LEMMA QuietStep ==
  ASSUME UNCHANGED <<tcpVars, sock>>, NEW s \in Sockets
  PROVE  TcpStep(s)
BY DEF TcpStep, tcpVars

LEMMA CloseAllStep ==
  ASSUME TypeOK, UNCHANGED tcpVars, sock' = CloseAllTunnels, NEW s \in Sockets
  PROVE  TcpStep(s)
<1>. DEFINE S == {t \in Sockets : \E i \in TunnelIds : tunnels[i] = t}
<1>1. sock' = [t \in Sockets |-> IF t \in S THEN Destroyed(sock[t]) ELSE sock[t]]
  BY DEF CloseAllTunnels
<1>. HIDE DEF S
<1>. QED
  BY <1>1, DestroyingStep

LEMMA DestroyOneStep ==
  ASSUME TypeOK, UNCHANGED tcpVars, NEW d \in Sockets, NEW s \in Sockets,
         sock' = [sock EXCEPT ![d] = Destroyed(@)]
  PROVE  TcpStep(s)
BY DEF TcpStep, TypeOK, Destroyed, Established, Shut, tcpVars

LEMMA HandleTcp ==
  ASSUME IInv, NEW f \in Frames, Handle(f), NEW s \in Sockets
  PROVE  TcpStep(s)
<1>. TypeOK /\ FrameOK(f)
  BY DEF IInv
<1>1. CASE HandleAlert(f)
  BY <1>1, CloseAllStep DEF HandleAlert
<1>2. CASE RejectUninitialised(f) \/ StartInit(f) \/ FinishInit(f)
             \/ CheckClaim(f) \/ FinishClaimTunnel(f) \/ AlertSent(f)
  <2>1. UNCHANGED <<tcpVars, sock>>
    BY <1>2 DEF RejectUninitialised, StartInit, FinishInit, CheckClaim,
                FinishClaimTunnel, AlertSent
  <2>. QED
    BY <2>1, QuietStep
<1>3. CASE StartCreateTunnel(f)
  BY <1>3 DEF StartCreateTunnel, TcpStep, TypeOK, Established, Shut, tcpVars
<1>4. CASE Connected(f)
  BY <1>4 DEF Connected, TcpStep, TypeOK, Established, Shut, tcpVars
<1>5. CASE ConnectFailed(f)
  BY <1>5 DEF ConnectFailed, FrameOK, TcpStep, TypeOK, Established, Shut, tcpVars
<1>6. CASE BgpChecked(f)
  BY <1>6 DEF BgpChecked, TcpStep
<1>7. CASE HandleTunnelMessage(f)
  <2>. DEFINE t == tunnels[Current(f).id]
  <2>1. Current(f).id \in TunnelIds /\ Current(f).message \in Bytes
    BY <1>7, CurrentIsMessage, MessageFields DEF HandleTunnelMessage
  <2>2. UNCHANGED <<sock, request>>
    BY <1>7 DEF HandleTunnelMessage
  <2>3. CASE UNCHANGED <<transcript, onWire>>
    BY <2>2, <2>3 DEF TcpStep
  <2>4. CASE /\ t # None
             /\ transcript' = [transcript EXCEPT ![t].client =
                                 Append(@, Current(f).message)]
             /\ onWire' = [onWire EXCEPT ![t] = IF sock[t] = "open" THEN @ + 1 ELSE @]
    <3>1. t \in Sockets
      BY <2>1, <2>4 DEF TypeOK
    <3>. DEFINE m == Current(f).message
    <3>2. /\ transcript' = [transcript EXCEPT ![t].client = Append(@, m)]
          /\ onWire' = [onWire EXCEPT ![t] = IF sock[t] = "open" THEN @ + 1 ELSE @]
          /\ m \in Bytes
      BY <2>1, <2>4
    <3>. HIDE DEF t, m
    <3>3. CASE s # t
      BY <2>2, <3>1, <3>2, <3>3 DEF TcpStep, TypeOK
    <3>4. CASE s = t
      <4>1. transcript'[s] = [transcript[s] EXCEPT !.client = Append(@, m)]
        BY <3>1, <3>2, <3>4 DEF TypeOK
      <4>2. transcript'[s].server = transcript[s].server
        BY <4>1 DEF TypeOK, Recorded
      <4>3. sock[s] \in Shut => onWire'[s] = onWire[s]
        BY <3>1, <3>2, <3>4 DEF TypeOK, Shut
      <4>. QED
        BY <2>2, <3>2, <4>1, <4>2, <4>3 DEF TcpStep
    <3>. QED
      BY <3>3, <3>4
  <2>. QED
    BY <1>7, <2>3, <2>4 DEF HandleTunnelMessage
<1>8. CASE HandleDisconnectTunnel(f) \/ StartClaimTunnel(f)
  <2>. DEFINE t == tunnels[Current(f).id]
  <2>1. Current(f).id \in TunnelIds
    BY <1>8, CurrentIsMessage, MessageFields
       DEF HandleDisconnectTunnel, StartClaimTunnel
  <2>2. UNCHANGED tcpVars
    BY <1>8 DEF HandleDisconnectTunnel, StartClaimTunnel
  <2>3. \/ UNCHANGED sock
        \/ t # None /\ sock' = [sock EXCEPT ![t] = Destroyed(@)]
    BY <1>8 DEF HandleDisconnectTunnel, StartClaimTunnel
  <2>4. t # None => t \in Sockets
    BY <2>1 DEF TypeOK
  <2>. HIDE DEF t
  <2>. QED
    BY <2>2, <2>3, <2>4, QuietStep, DestroyOneStep
<1>9. CASE TerminateConnection(f)
  BY <1>9, CloseAllStep, QuietStep DEF TerminateConnection
<1>. QED
  BY <1>1, <1>2, <1>3, <1>4, <1>5, <1>6, <1>7, <1>8, <1>9 DEF Handle

LEMMA NextTcp ==
  ASSUME IInv, [Next]_vars, NEW s \in Sockets
  PROVE  TcpStep(s)
<1>. TypeOK
  BY DEF IInv
<1>1. ASSUME NEW f \in Frames, ReceiveFrame(f) PROVE TcpStep(s)
  BY <1>1, QuietStep DEF ReceiveFrame
<1>2. ASSUME NEW f \in Frames, Handle(f) PROVE TcpStep(s)
  BY <1>2, HandleTcp
<1>3. ASSUME NEW t \in Sockets, Tcp(t) PROVE TcpStep(s)
  <2>1. CASE ServerData(t)
    <3>1. PICK d \in Bytes :
            transcript' = [transcript EXCEPT ![t].server = Append(@, d)]
      BY <2>1 DEF ServerData
    <3>2. CASE s # t
      BY <2>1, <3>1, <3>2 DEF ServerData, TcpStep, TypeOK
    <3>3. CASE s = t
      <4>1. transcript'[s] = [transcript[s] EXCEPT !.server = Append(@, d)]
        BY <3>1, <3>3 DEF TypeOK
      <4>2. sock[s] \notin Shut
        BY <2>1, <3>3 DEF ServerData, Shut
      <4>. QED
        BY <2>1, <4>1, <4>2 DEF ServerData, TcpStep
    <3>. QED
      BY <3>2, <3>3
  <2>2. CASE SocketClosed(t)
    BY <2>2 DEF SocketClosed, TcpStep, TypeOK, Established, Shut
  <2>3. CASE ProxyConnected(t) \/ AbandonedProxy(t)
    BY <2>3 DEF ProxyConnected, AbandonedProxy, TcpStep, TypeOK, Established, Shut,
                tcpVars
  <2>. QED
    BY <1>3, <2>1, <2>2, <2>3 DEF Tcp
<1>4. CASE BgpOverlap
  BY <1>4, DestroyingStep DEF BgpOverlap
<1>5. CASE WsClosing
  BY <1>5, QuietStep DEF WsClosing
<1>6. CASE WsError \/ WsClosed
  BY <1>6, CloseAllStep DEF WsError, WsClosed
<1>7. CASE UNCHANGED vars
  BY <1>7, QuietStep DEF vars, tcpVars
<1>. QED
  BY <1>1, <1>2, <1>3, <1>4, <1>5, <1>6, <1>7 DEF Next
----------------------------------------------------------------------------
(* A claim that was right when it was compared stays right. *)
LEMMA ClaimStays ==
  ASSUME TypeOK, NEW c \in Claim, ClaimOK(c), TcpStep(c.sock)
  PROVE  ClaimOK(c)'
<1>. DEFINE s == c.sock
<1>1. /\ s \in Sockets
      /\ c.transcript.client \in Seq(Bytes) /\ c.transcript.server \in Seq(Bytes)
      /\ transcript[s].client \in Seq(Bytes) /\ transcript[s] \in Recorded
  BY DEF Claim, Recorded, TypeOK
<1>2. sock'[s] \in Shut /\ onWire'[s] = onWire[s]
        /\ transcript'[s].server = transcript[s].server
  BY DEF ClaimOK, TcpStep
<1>3. IsPrefix(c.transcript.client, transcript'[s].client)
  <2>1. CASE transcript'[s] = transcript[s]
    BY <2>1 DEF ClaimOK
  <2>2. ASSUME NEW d \in Bytes,
               transcript'[s] = [transcript[s] EXCEPT !.client = Append(@, d)]
        PROVE  IsPrefix(c.transcript.client, transcript'[s].client)
    <3>1. transcript'[s].client = Append(transcript[s].client, d)
      BY <1>1, <2>2 DEF Recorded
    <3>. QED
      BY <1>1, <3>1, PrefixAppend DEF ClaimOK
  <2>3. ASSUME NEW d \in Bytes,
               transcript'[s] = [transcript[s] EXCEPT !.server = Append(@, d)]
        PROVE  IsPrefix(c.transcript.client, transcript'[s].client)
    <3>1. transcript'[s].client = transcript[s].client
      BY <1>1, <2>3 DEF Recorded
    <3>. QED
      BY <3>1 DEF ClaimOK
  <2>. QED
    BY <2>1, <2>2, <2>3 DEF TcpStep
<1>. QED
  BY <1>2, <1>3 DEF ClaimOK

(* The handlers of other packets keep what they rely on. *)
LEMMA FrameStays ==
  ASSUME TypeOK, NEW f \in Frames, FrameOK(f), frame'[f] = frame[f],
         \A s \in Sockets : TcpStep(s),
         RequestOK,
         frame[f].pc = "connect" =>
           sock'[frame[f].sock] \in {"proxying", "connecting"}
  PROVE  FrameOK(f)'
<1>1. Current(f)' = Current(f)
  BY DEF Current
<1>2. frame[f].pc \in {"connect", "bgp", "close", "validate"} =>
        /\ frame[f].sock \in Sockets
        /\ sock[frame[f].sock] # "free"
        /\ TcpStep(frame[f].sock)
  BY DEF FrameOK, Established, Shut
<1>3. frame[f].pc \in {"connect", "bgp", "close", "validate"} =>
        request'[frame[f].sock] = request[frame[f].sock]
  BY <1>2 DEF TcpStep
<1>4. frame[f].pc = "validate" => ClaimOK(frame[f].claim)'
  <2>1. ASSUME frame[f].pc = "validate"
        PROVE  frame[f].claim \in Claim /\ ClaimOK(frame[f].claim)
    BY <2>1 DEF FrameOK
  <2>2. ASSUME NEW c \in Claim, ClaimOK(c), frame[f].claim = c
        PROVE  ClaimOK(frame[f].claim)'
    <3>1. TcpStep(c.sock)
      BY DEF Claim
    <3>2. ClaimOK(c)'
      BY <2>2, <3>1, ClaimStays
    <3>. QED
      BY <2>2, <3>2 DEF ClaimOK
  <2>. QED
    BY <2>1, <2>2
<1>. QED
  BY <1>1, <1>2, <1>3, <1>4 DEF FrameOK, TcpStep

(* A handler that answers, or a message that is done with, relies on       *)
(* nothing but its place in the packet.                                    *)
LEMMA RestFrame ==
  ASSUME TypeOK', NEW f \in Frames,
         frame'[f].pc \in {"next", "failed", "alerting", "done", "auth"},
         frame'[f].pc # "done" => frame'[f].pos \in 1..Len(frame'[f].msgs),
         frame'[f].pc = "auth" => Current(f)'.type = "init"
  PROVE  FrameOK(f)'
BY DEF FrameOK

LEMMA AdvanceRests ==
  ASSUME TypeOK, TypeOK', NEW f \in Frames, FrameOK(f), 
         frame[f].pc \notin {"idle", "done"},
         frame' = [frame EXCEPT ![f] = Advance(frame[f])]
  PROVE  FrameOK(f)' /\ frame'[f].pc # "connect"
<1>1. frame'[f] = Advance(frame[f]) /\ frame[f] \in Frame
  BY DEF TypeOK
<1>2. /\ frame'[f].pos = frame[f].pos + 1
      /\ frame'[f].msgs = frame[f].msgs
      /\ frame'[f].pc = IF frame[f].pos < Len(frame[f].msgs) THEN "next" ELSE "done"
  <2>. DEFINE pc == IF frame[f].pos < Len(frame[f].msgs) THEN "next" ELSE "done"
              pos == frame[f].pos + 1
  <2>1. frame'[f] = [frame[f] EXCEPT !.pos = pos, !.sock = None, !.claim = None,
                                     !.pc = pc]
    BY <1>1 DEF Advance
  <2>. HIDE DEF pc, pos
  <2>2. frame'[f].pos = pos /\ frame'[f].msgs = frame[f].msgs /\ frame'[f].pc = pc
    BY <1>1, <2>1 DEF Frame
  <2>. QED
    BY <2>2 DEF pc, pos
<1>3. frame[f].pos \in 1..Len(frame[f].msgs) /\ Len(frame[f].msgs) \in Nat
  BY <1>1 DEF FrameOK, Frame
<1>. QED
  BY <1>2, <1>3, RestFrame

LEMMA RespondRests ==
  ASSUME TypeOK, TypeOK', NEW f \in Frames, NEW ok \in BOOLEAN, FrameOK(f),
         frame[f].pc \notin {"idle", "done"}, Respond(f, ok)
  PROVE  FrameOK(f)' /\ frame'[f].pc # "connect"
<1>1. CASE frame' = [frame EXCEPT ![f] = Advance(frame[f])]
  BY <1>1, AdvanceRests
<1>2. CASE frame' = [frame EXCEPT ![f] = Abort(f)]
  <2>1. frame'[f] = Abort(f) /\ frame[f] \in Frame
    BY <1>2 DEF TypeOK
  <2>2. /\ frame'[f].pos = frame[f].pos
        /\ frame'[f].msgs = frame[f].msgs
        /\ frame'[f].pc \in {"failed", "done"}
    BY <2>1 DEF Abort, Frame
  <2>. QED
    BY <2>2, RestFrame DEF FrameOK
<1>. QED
  BY <1>1, <1>2 DEF Respond

LEMMA AwaitRests ==
  ASSUME TypeOK, TypeOK', NEW f \in Frames, FrameOK(f),
         frame[f].pc \notin {"idle", "done"},
         NEW pc \in {"alerting", "done", "auth"}, Await(f, pc),
         pc = "auth" => Current(f).type = "init"
  PROVE  FrameOK(f)' /\ frame'[f].pc # "connect"
<1>1. frame[f] \in Frame /\ frame'[f] = [frame[f] EXCEPT !.pc = pc]
  BY DEF Await, TypeOK
<1>2. frame'[f].pos = frame[f].pos /\ frame'[f].msgs = frame[f].msgs
        /\ frame'[f].pc = pc
  BY <1>1 DEF Frame
<1>3. Current(f)' = Current(f)
  BY <1>2 DEF Current
<1>. QED
  BY <1>2, <1>3, RestFrame DEF FrameOK
----------------------------------------------------------------------------
(* A connection a createTunnel handler waits for is settled by that        *)
(* handler only.                                                           *)
LEMMA ConnectStays ==
  ASSUME IInv, NEW f \in Frames, Handle(f), NEW g \in Frames, g # f,
         frame[g].pc = "connect"
  PROVE  sock'[frame[g].sock] \in {"proxying", "connecting"}
<1>. DEFINE s == frame[g].sock
<1>1. TypeOK /\ FrameOK(f) /\ FrameOK(g) /\ MapOK /\ SoleCreator
  BY DEF IInv
<1>2. s \in Sockets /\ sock[s] \in {"proxying", "connecting"}
  BY <1>1 DEF FrameOK
<1>3. frame[f].pc = "connect" => frame[f].sock # s
  BY <1>1 DEF SoleCreator
<1>4. CASE UNCHANGED sock
  BY <1>2, <1>4
<1>5. CASE sock' = CloseAllTunnels
  BY <1>2, <1>5 DEF CloseAllTunnels, Destroyed
<1>6. ASSUME NEW d, sock' = [sock EXCEPT ![d] = Destroyed(@)]
      PROVE  sock'[s] \in {"proxying", "connecting"}
  BY <1>1, <1>2, <1>6 DEF Destroyed, TypeOK
<1>7. ASSUME NEW d, d # s, NEW v, sock' = [sock EXCEPT ![d] = v]
      PROVE  sock'[s] \in {"proxying", "connecting"}
  BY <1>1, <1>2, <1>7 DEF TypeOK
<1>. HIDE DEF s
<1>8. CASE HandleAlert(f) \/ TerminateConnection(f)
  BY <1>4, <1>5, <1>8 DEF HandleAlert, TerminateConnection, s
<1>9. CASE RejectUninitialised(f) \/ StartInit(f) \/ FinishInit(f)
             \/ CheckClaim(f) \/ FinishClaimTunnel(f) \/ AlertSent(f)
             \/ BgpChecked(f) \/ HandleTunnelMessage(f)
  BY <1>4, <1>9 DEF RejectUninitialised, StartInit, FinishInit, CheckClaim,
                FinishClaimTunnel, AlertSent, BgpChecked, HandleTunnelMessage, s
<1>10. CASE StartCreateTunnel(f)
  <2>1. CASE UNCHANGED sock
    BY <1>4, <2>1 DEF s
  <2>2. ASSUME NEW d \in Sockets, sock[d] = "free",
               sock' = [sock EXCEPT ![d] = IF UsesProxy THEN "proxying"
                                           ELSE "connecting"]
        PROVE  sock'[s] \in {"proxying", "connecting"}
    BY <1>2, <1>7, <2>2
  <2>. QED
    BY <1>10, <2>1, <2>2 DEF StartCreateTunnel, s
<1>11. CASE Connected(f) \/ ConnectFailed(f)
  <2>. DEFINE d == frame[f].sock
  <2>1. d # s
    BY <1>3, <1>11 DEF Connected, ConnectFailed
  <2>2. \/ sock' = [sock EXCEPT ![d] = "open"]
        \/ sock' = [sock EXCEPT ![d] = IF sock[d] = "proxying" THEN "abandoned"
                                       ELSE "ended"]
    BY <1>11 DEF Connected, ConnectFailed
  <2>. HIDE DEF d
  <2>. QED
    BY <1>7, <2>1, <2>2 DEF s
<1>12. CASE HandleDisconnectTunnel(f) \/ StartClaimTunnel(f)
  BY <1>4, <1>6, <1>12 DEF HandleDisconnectTunnel, StartClaimTunnel, s
<1>. QED
  BY <1>8, <1>9, <1>10, <1>11, <1>12 DEF Handle

(* A handler changes no packet but its own. *)
LEMMA HandleOwn ==
  ASSUME NEW f \in Frames, Handle(f), NEW g \in Frames, g # f, TypeOK
  PROVE  frame'[g] = frame[g]
BY DEF Handle, HandleAlert, RejectUninitialised, StartInit, FinishInit,
       StartCreateTunnel, Connected, ConnectFailed, BgpChecked, RegisterTunnel,
       HandleTunnelMessage, HandleDisconnectTunnel, StartClaimTunnel, CheckClaim,
       FinishClaimTunnel, TerminateConnection, AlertSent, Respond, Await, TypeOK

(* What the handler that takes the step may rely on afterwards. *)
LEMMA HandleFrameOK ==
  ASSUME IInv, TypeOK', NEW f \in Frames, Handle(f)
  PROVE  /\ FrameOK(f)'
         /\ frame'[f].pc = "connect" => sock[frame'[f].sock] = "free"
<1>. TypeOK /\ FrameOK(f) /\ MapOK /\ WireOK /\ RequestOK /\ frame[f] \in Frame
  BY DEF IInv, TypeOK
<1>1. CASE HandleAlert(f) \/ RejectUninitialised(f) \/ HandleTunnelMessage(f)
  BY <1>1, AdvanceRests DEF HandleAlert, RejectUninitialised, HandleTunnelMessage
<1>2. CASE StartInit(f)
  BY <1>2, RespondRests, AwaitRests DEF StartInit
<1>3. CASE FinishInit(f) \/ ConnectFailed(f) \/ BgpChecked(f)
             \/ HandleDisconnectTunnel(f) \/ FinishClaimTunnel(f)
  BY <1>3, RespondRests DEF FinishInit, ConnectFailed, BgpChecked, RegisterTunnel,
                            HandleDisconnectTunnel, FinishClaimTunnel
<1>4. CASE TerminateConnection(f) \/ AlertSent(f)
  BY <1>4, AwaitRests DEF TerminateConnection, AlertSent
<1>5. CASE StartCreateTunnel(f)
  <2>1. CASE Respond(f, FALSE)
    BY <1>5, <2>1, RespondRests DEF StartCreateTunnel
  <2>2. ASSUME NEW s \in Sockets, sock[s] = "free",
               sock' = [sock EXCEPT ![s] = IF UsesProxy THEN "proxying"
                                           ELSE "connecting"],
               request' = [request EXCEPT ![s] =
                             [id |-> Current(f).id, host |-> Current(f).host]],
               frame' = [frame EXCEPT ![f] = [@ EXCEPT !.pc = "connect", !.sock = s]]
        PROVE  FrameOK(f)' /\ sock[frame'[f].sock] = "free"
    <3>1. frame'[f] = [frame[f] EXCEPT !.pc = "connect", !.sock = s]
      BY <2>2 DEF TypeOK
    <3>2. /\ frame'[f].pc = "connect" /\ frame'[f].sock = s
          /\ frame'[f].pos = frame[f].pos /\ frame'[f].msgs = frame[f].msgs
      BY <3>1 DEF Frame
    <3>3. Current(f)' = Current(f)
      BY <3>2 DEF Current
    <3>4. sock'[s] \in {"proxying", "connecting"} /\ request'[s].id = Current(f).id
      BY <2>2 DEF TypeOK
    <3>. QED
      BY <1>5, <2>2, <3>2, <3>3, <3>4 DEF FrameOK, StartCreateTunnel
  <2>. QED
    BY <1>5, <2>1, <2>2 DEF StartCreateTunnel
<1>6. CASE Connected(f)
  <2>1. CASE Respond(f, TRUE)
    BY <1>6, <2>1, RespondRests DEF Connected
  <2>2. CASE Await(f, "bgp")
    <3>1. frame'[f] = [frame[f] EXCEPT !.pc = "bgp"]
      BY <2>2 DEF Await, TypeOK
    <3>2. /\ frame'[f].pc = "bgp" /\ frame'[f].sock = frame[f].sock
          /\ frame'[f].pos = frame[f].pos /\ frame'[f].msgs = frame[f].msgs
      BY <3>1 DEF Frame
    <3>3. Current(f)' = Current(f)
      BY <3>2 DEF Current
    <3>4. frame[f].sock \in Sockets
      BY <1>6 DEF Connected, FrameOK
    <3>5. sock'[frame[f].sock] = "open" /\ UNCHANGED request
      BY <1>6, <3>4 DEF Connected, TypeOK, tcpVars
    <3>. QED
      BY <1>6, <3>2, <3>3, <3>4, <3>5 DEF FrameOK, Connected, Established
  <2>. QED
    BY <1>6, <2>1, <2>2 DEF Connected, RegisterTunnel
<1>7. CASE StartClaimTunnel(f)
  <2>1. CASE Respond(f, FALSE)
    BY <1>7, <2>1, RespondRests DEF StartClaimTunnel
  <2>. DEFINE s == tunnels[Current(f).id]
  <2>2. CASE /\ s # None
             /\ sock' = [sock EXCEPT ![s] = Destroyed(@)]
             /\ frame' = [frame EXCEPT ![f] = [@ EXCEPT !.pc = "close", !.sock = s]]
    <3>1. Current(f).id \in TunnelIds
      BY <1>7, CurrentIsMessage, MessageFields DEF StartClaimTunnel
    <3>2. s \in Sockets /\ sock[s] \in Established /\ request[s].id = Current(f).id
      BY <2>2, <3>1 DEF MapOK, TypeOK
    <3>3. UNCHANGED request
      BY <1>7 DEF StartClaimTunnel, tcpVars
    <3>. HIDE DEF s
    <3>4. frame'[f] = [frame[f] EXCEPT !.pc = "close", !.sock = s]
      BY <2>2 DEF TypeOK
    <3>5. /\ frame'[f].pc = "close" /\ frame'[f].sock = s
          /\ frame'[f].pos = frame[f].pos /\ frame'[f].msgs = frame[f].msgs
      BY <3>4 DEF Frame
    <3>6. Current(f)' = Current(f)
      BY <3>5 DEF Current
    <3>7. sock'[s] \in Shut
      BY <2>2, <3>2 DEF TypeOK, Destroyed, Established, Shut
    <3>. QED
      BY <1>7, <3>2, <3>3, <3>5, <3>6, <3>7 DEF FrameOK, StartClaimTunnel
  <2>. QED
    BY <1>7, <2>1, <2>2 DEF StartClaimTunnel
<1>8. CASE CheckClaim(f)
  <2>1. CASE Respond(f, FALSE)
    BY <1>8, <2>1, RespondRests DEF CheckClaim
  <2>. DEFINE s == frame[f].sock
  <2>2. ASSUME NEW claimed \in Claimable, NEW offset \in Offsets,
               TranscriptsMatch(claimed, transcript[s]),
               LET claim == [sock |-> s, host |-> Current(f).host,
                             offset |-> offset, transcript |-> claimed]
               IN frame' = [frame EXCEPT ![f] =
                              [@ EXCEPT !.pc = "validate", !.claim = claim]]
        PROVE  FrameOK(f)' /\ frame'[f].pc # "connect"
    <3>. DEFINE c == [sock |-> s, host |-> Current(f).host,
                      offset |-> offset, transcript |-> claimed]
    <3>1. c.sock = s /\ c.transcript = claimed
      OBVIOUS
    <3>2. Current(f).host \in Hosts /\ s \in Sockets /\ sock[s] \in Shut
      BY <1>8, CurrentIsMessage, MessageFields DEF CheckClaim, FrameOK
    <3>3. c \in Claim
      BY <3>2 DEF Claim, Claimable, Recorded
    <3>4. frame' = [frame EXCEPT ![f] = [@ EXCEPT !.pc = "validate", !.claim = c]]
      BY <2>2
    <3>. HIDE DEF c
    <3>5. frame'[f] = [frame[f] EXCEPT !.pc = "validate", !.claim = c]
      BY <3>4 DEF TypeOK
    <3>6. /\ frame'[f].pc = "validate" /\ frame'[f].sock = s /\ frame'[f].claim = c
          /\ frame'[f].pos = frame[f].pos /\ frame'[f].msgs = frame[f].msgs
      BY <3>5 DEF Frame
    <3>7. Current(f)' = Current(f)
      BY <3>6 DEF Current
    <3>8. UNCHANGED <<sock, request, transcript, onWire>>
      BY <1>8 DEF CheckClaim, tcpVars
    <3>9. ClaimOK(c)
      <4>1. transcript[s].client \in Seq(Bytes)
        BY <3>2 DEF TypeOK, Recorded
      <4>2. IsPrefix(claimed.client, transcript[s].client)
        BY <2>2, <4>1, PrefixReflexive DEF TranscriptsMatch
      <4>. QED
        BY <2>2, <3>1, <3>2, <4>2 DEF ClaimOK, TranscriptsMatch, WireOK
    <3>10. ClaimOK(frame[f].claim)'
      BY <3>6, <3>8, <3>9 DEF ClaimOK
    <3>. QED
      BY <1>8, <3>2, <3>3, <3>6, <3>7, <3>8, <3>10 DEF FrameOK, CheckClaim
  <2>. QED
    BY <1>8, <2>1, <2>2 DEF CheckClaim
<1>. QED
  BY <1>1, <1>2, <1>3, <1>4, <1>5, <1>6, <1>7, <1>8 DEF Handle
----------------------------------------------------------------------------
(* Steps of the network leave a pending connection pending. *)
LEMMA NetworkStep ==
  ASSUME IInv, TypeOK', NEW g \in Frames, UNCHANGED frame,
         \A s \in Sockets : TcpStep(s),
         \A s \in Sockets : sock[s] \in {"proxying", "connecting"} =>
                            sock'[s] \in {"proxying", "connecting"}
  PROVE  FrameOK(g)'
<1>1. frame[g].pc = "connect" => sock'[frame[g].sock] \in {"proxying", "connecting"}
  BY DEF IInv, FrameOK
<1>. QED
  BY <1>1, FrameStays DEF IInv

LEMMA NextFrameOK ==
  ASSUME IInv, [Next]_vars, NEW g \in Frames
  PROVE  FrameOK(g)'
<1>1. TypeOK /\ FrameOK(g) /\ RequestOK
  BY DEF IInv
<1>2. TypeOK'
  BY NextTypeOK
<1>3. \A s \in Sockets : TcpStep(s)
  BY NextTcp
<1>4. ASSUME NEW f \in Frames, ReceiveFrame(f) PROVE FrameOK(g)'
  <2>1. CASE g # f
    <3>1. frame'[g] = frame[g] /\ UNCHANGED sock
      BY <1>1, <1>4, <2>1 DEF ReceiveFrame, TypeOK
    <3>. QED
      BY <1>1, <1>3, <3>1, FrameStays DEF FrameOK
  <2>2. CASE g = f
    <3>1. PICK b \in Batches :
            frame' = [frame EXCEPT ![f] = [@ EXCEPT !.msgs = b, !.pc = "next"]]
      BY <1>4 DEF ReceiveFrame
    <3>2. b \in Seq(Message) /\ b # <<>>
      BY SessionAssumption DEF SessionAssumption
    <3>3. Len(b) >= 1
      BY <3>2
    <3>4. frame[g] \in Frame /\ frame'[g] = [frame[g] EXCEPT !.msgs = b, !.pc = "next"]
      BY <1>1, <2>2, <3>1 DEF TypeOK
    <3>5. frame'[g].pos = frame[g].pos /\ frame'[g].msgs = b /\ frame'[g].pc = "next"
      BY <3>4 DEF Frame
    <3>6. frame[g].pos = 1
      BY <1>1, <1>4, <2>2 DEF FrameOK, ReceiveFrame
    <3>. QED
      BY <1>2, <3>2, <3>3, <3>5, <3>6, RestFrame
  <2>. QED
    BY <2>1, <2>2
<1>5. ASSUME NEW f \in Frames, Handle(f) PROVE FrameOK(g)'
  <2>1. CASE g = f
    BY <1>2, <1>5, <2>1, HandleFrameOK
  <2>2. CASE g # f
    <3>1. frame'[g] = frame[g]
      BY <1>1, <1>5, <2>2, HandleOwn
    <3>. QED
      BY <1>1, <1>3, <1>5, <2>2, <3>1, FrameStays, ConnectStays
  <2>. QED
    BY <2>1, <2>2
<1>6. ASSUME NEW t \in Sockets, Tcp(t) PROVE FrameOK(g)'
  <2>1. UNCHANGED frame
    BY <1>6 DEF Tcp, ServerData, SocketClosed, ProxyConnected, AbandonedProxy
  <2>2. \A s \in Sockets : sock[s] \in {"proxying", "connecting"} =>
                           sock'[s] \in {"proxying", "connecting"}
    BY <1>1, <1>6 DEF Tcp, ServerData, SocketClosed, ProxyConnected, AbandonedProxy, TypeOK
  <2>. QED
    BY <1>2, <1>3, <2>1, <2>2, NetworkStep
<1>7. CASE BgpOverlap \/ WsClosing \/ WsError \/ WsClosed \/ UNCHANGED vars
  <2>1. UNCHANGED frame
    BY <1>7 DEF BgpOverlap, WsClosing, WsError, WsClosed, vars
  <2>2. \A s \in Sockets : sock[s] \in {"proxying", "connecting"} =>
                           sock'[s] \in {"proxying", "connecting"}
    BY <1>1, <1>7 DEF BgpOverlap, WsClosing, WsError, WsClosed, CloseAllTunnels,
                      Destroyed, TypeOK, vars
  <2>. QED
    BY <1>2, <1>3, <2>1, <2>2, NetworkStep
<1>. QED
  BY <1>4, <1>5, <1>6, <1>7 DEF Next

(* Every step but a handler's own leaves a packet where it is, or receives *)
(* it.                                                                     *)
LEMMA OutsideStep ==
  ASSUME TypeOK, [Next]_vars, NEW g \in Frames, ~Handle(g)
  PROVE  frame'[g] = frame[g] \/ ReceiveFrame(g)
<1>1. ASSUME NEW f \in Frames, f # g, ReceiveFrame(f) PROVE frame'[g] = frame[g]
  BY <1>1 DEF ReceiveFrame, TypeOK
<1>2. ASSUME NEW f \in Frames, f # g, Handle(f) PROVE frame'[g] = frame[g]
  BY <1>2, HandleOwn
<1>3. ASSUME NEW t \in Sockets, Tcp(t) PROVE frame'[g] = frame[g]
  BY <1>3 DEF Tcp, ServerData, SocketClosed, ProxyConnected, AbandonedProxy
<1>4. CASE BgpOverlap \/ WsClosing \/ WsError \/ WsClosed \/ UNCHANGED vars
  BY <1>4 DEF BgpOverlap, WsClosing, WsError, WsClosed, vars
<1>. QED
  BY <1>1, <1>2, <1>3, <1>4 DEF Next

(* A handler that starts to connect takes a free socket. *)
LEMMA NewConnection ==
  ASSUME IInv, [Next]_vars, NEW g \in Frames, frame'[g].pc = "connect"
  PROVE  frame'[g] = frame[g] \/ sock[frame'[g].sock] = "free"
<1>1. TypeOK /\ TypeOK'
  BY NextTypeOK DEF IInv
<1>2. CASE Handle(g)
  BY <1>1, <1>2, HandleFrameOK
<1>3. CASE ~Handle(g)
  <2>1. ReceiveFrame(g) => frame'[g].pc = "next"
    <3>1. ASSUME NEW b, frame' = [frame EXCEPT ![g] = [@ EXCEPT !.msgs = b, !.pc = "next"]]
          PROVE  frame'[g].pc = "next"
      BY <1>1, <3>1 DEF TypeOK, Frame
    <3>. QED
      BY <3>1 DEF ReceiveFrame
  <2>. QED
    BY <1>1, <1>3, <2>1, OutsideStep
<1>. QED
  BY <1>2, <1>3

(* Only one handler takes a step. *)
LEMMA OneHandler ==
  ASSUME TypeOK, [Next]_vars, NEW f \in Frames, NEW g \in Frames, f # g
  PROVE  frame'[f] = frame[f] \/ frame'[g] = frame[g]
<1>1. CASE Handle(f)
  BY <1>1, HandleOwn
<1>2. CASE Handle(g)
  BY <1>2, HandleOwn
<1>3. CASE ReceiveFrame(f)
  BY <1>3 DEF ReceiveFrame, TypeOK
<1>. QED
  BY <1>1, <1>2, <1>3, OutsideStep

LEMMA NextSoleCreator == IInv /\ [Next]_vars => SoleCreator'
<1>. SUFFICES ASSUME IInv, [Next]_vars, NEW f \in Frames, NEW g \in Frames, f # g,
                     frame'[f].pc = "connect", frame'[g].pc = "connect",
                     frame'[f].sock = frame'[g].sock
              PROVE  FALSE
  BY DEF SoleCreator
<1>1. /\ frame'[f] = frame[f] \/ sock[frame'[f].sock] = "free"
      /\ frame'[g] = frame[g] \/ sock[frame'[g].sock] = "free"
  BY NewConnection
<1>2. frame'[f] = frame[f] \/ frame'[g] = frame[g]
  BY OneHandler DEF IInv
<1>. QED
  BY <1>1, <1>2 DEF IInv, SoleCreator, FrameOK
----------------------------------------------------------------------------
(* What one step may do to an entry of client.tunnels: a tunnel made for   *)
(* that id enters, or the entry goes because such a tunnel was claimed.    *)
MapStep(i) ==
  \/ tunnels'[i] = tunnels[i]
  \/ \E s \in Sockets :
       /\ sock[s] # "free" /\ request[s].id = i
       /\ \/ tunnels'[i] = s /\ sock'[s] \in Established
          \/ tunnels'[i] = None /\ sock[s] \in Shut

LEMMA RegisterStep ==
  ASSUME IInv, NEW f \in Frames, frame[f].pc \in {"connect", "bgp"},
         tunnels' = [tunnels EXCEPT ![Current(f).id] = frame[f].sock],
         sock'[frame[f].sock] \in Established, NEW i \in TunnelIds
  PROVE  MapStep(i)
<1>1. TypeOK /\ FrameOK(f)
  BY DEF IInv
<1>2. /\ frame[f].sock \in Sockets /\ request[frame[f].sock].id = Current(f).id
      /\ sock[frame[f].sock] # "free"
  BY <1>1 DEF FrameOK, Established
<1>3. Current(f).id # i => tunnels'[i] = tunnels[i]
  BY <1>1 DEF TypeOK
<1>4. Current(f).id = i => tunnels'[i] = frame[f].sock
  BY <1>1 DEF TypeOK
<1>. QED
  BY <1>2, <1>3, <1>4 DEF MapStep

LEMMA HandleMap ==
  ASSUME IInv, NEW f \in Frames, Handle(f), NEW i \in TunnelIds
  PROVE  MapStep(i)
<1>1. TypeOK /\ FrameOK(f)
  BY DEF IInv
<1>2. CASE UNCHANGED tunnels
  BY <1>2 DEF MapStep
<1>3. CASE Connected(f)
  <2>1. frame[f].sock \in Sockets
    BY <1>1, <1>3 DEF Connected, FrameOK
  <2>2. sock'[frame[f].sock] \in Established
    BY <1>1, <1>3, <2>1 DEF Connected, Established, TypeOK
  <2>. QED
    BY <1>2, <1>3, <2>2, RegisterStep DEF Connected, RegisterTunnel
<1>4. CASE BgpChecked(f)
  <2>1. sock'[frame[f].sock] \in Established
    BY <1>1, <1>4 DEF BgpChecked, FrameOK
  <2>. QED
    BY <1>4, <2>1, RegisterStep DEF BgpChecked, RegisterTunnel
<1>5. CASE FinishClaimTunnel(f)
  <2>1. /\ frame[f].sock \in Sockets /\ request[frame[f].sock].id = Current(f).id
        /\ sock[frame[f].sock] \in Shut
    BY <1>1, <1>5 DEF FinishClaimTunnel, FrameOK
  <2>2. tunnels' = [tunnels EXCEPT ![Current(f).id] = None] \/ UNCHANGED tunnels
    BY <1>5 DEF FinishClaimTunnel
  <2>3. Current(f).id # i => tunnels'[i] = tunnels[i]
    BY <1>1, <2>2 DEF TypeOK
  <2>4. Current(f).id = i => tunnels'[i] = None \/ UNCHANGED tunnels
    BY <1>1, <2>2 DEF TypeOK
  <2>. QED
    BY <1>2, <2>1, <2>3, <2>4 DEF MapStep, Shut
<1>. QED
  BY <1>2, <1>3, <1>4, <1>5
     DEF Handle, HandleAlert, RejectUninitialised, StartInit, FinishInit,
         StartCreateTunnel, ConnectFailed, HandleTunnelMessage,
         HandleDisconnectTunnel, StartClaimTunnel, CheckClaim,
         TerminateConnection, AlertSent

LEMMA NextMap ==
  ASSUME IInv, [Next]_vars, NEW i \in TunnelIds
  PROVE  MapStep(i)
<1>1. CASE UNCHANGED tunnels
  BY <1>1 DEF MapStep
<1>2. ASSUME NEW f \in Frames, Handle(f) PROVE MapStep(i)
  BY <1>2, HandleMap
<1>. QED
  BY <1>1, <1>2 DEF Next, ReceiveFrame, Tcp, ServerData, SocketClosed, ProxyConnected,
                    AbandonedProxy, BgpOverlap, WsClosing, WsError, WsClosed, vars

LEMMA NextMapOK == IInv /\ [Next]_vars => MapOK'
<1>. SUFFICES ASSUME IInv, [Next]_vars, NEW i \in TunnelIds, tunnels'[i] # None
              PROVE  sock'[tunnels'[i]] \in Established /\ request'[tunnels'[i]].id = i
  BY DEF MapOK
<1>1. TypeOK /\ MapOK /\ MapStep(i)
  BY NextMap DEF IInv
<1>2. CASE tunnels'[i] = tunnels[i]
  <2>1. /\ tunnels[i] \in Sockets /\ sock[tunnels[i]] \in Established
        /\ request[tunnels[i]].id = i
    BY <1>1, <1>2 DEF TypeOK, MapOK
  <2>2. TcpStep(tunnels[i])
    BY <2>1, NextTcp
  <2>. QED
    BY <1>2, <2>1, <2>2 DEF TcpStep, Established
<1>3. ASSUME NEW s \in Sockets, sock[s] # "free", request[s].id = i,
             tunnels'[i] = s, sock'[s] \in Established
      PROVE  sock'[tunnels'[i]] \in Established /\ request'[tunnels'[i]].id = i
  BY <1>3, NextTcp DEF TcpStep
<1>. QED
  BY <1>1, <1>2, <1>3 DEF MapStep
----------------------------------------------------------------------------
(* The steps that take a free socket. *)
LEMMA TakeSocket ==
  ASSUME IInv, [Next]_vars, NEW s \in Sockets, sock[s] = "free", sock'[s] # "free"
  PROVE  /\ request'[s] \in [id : TunnelIds, host : Hosts]
         /\ metadata # None /\ HostAllowed(metadata, request'[s].host)
         /\ sock'[s] # "open"
<1>. DEFINE Goal == /\ request'[s] \in [id : TunnelIds, host : Hosts]
                   /\ metadata # None /\ HostAllowed(metadata, request'[s].host)
                   /\ sock'[s] # "open"
<1>1. TypeOK
  BY DEF IInv
<1>2. ASSUME NEW f \in Frames, StartCreateTunnel(f) PROVE Goal
  <2>1. FrameOK(f)
    BY DEF IInv
  <2>2. Current(f).id \in TunnelIds /\ Current(f).host \in Hosts
    BY <1>1, <1>2, <2>1, CurrentIsMessage, MessageFields DEF StartCreateTunnel
  <2>. DEFINE r == [id |-> Current(f).id, host |-> Current(f).host]
  <2>3. r \in [id : TunnelIds, host : Hosts] /\ r.host = Current(f).host
    BY <2>2
  <2>4. /\ HostAllowed(metadata, Current(f).host)
        /\ \E d \in Sockets :
             /\ sock' = [sock EXCEPT ![d] = IF UsesProxy THEN "proxying"
                                            ELSE "connecting"]
             /\ request' = [request EXCEPT ![d] = r]
    BY <1>2 DEF StartCreateTunnel
  <2>. HIDE DEF r
  <2>5. PICK d \in Sockets :
             /\ sock' = [sock EXCEPT ![d] = IF UsesProxy THEN "proxying"
                                            ELSE "connecting"]
             /\ request' = [request EXCEPT ![d] = r]
    BY <2>4
  <2>6. d = s
    BY <1>1, <2>5 DEF TypeOK
  <2>7. request'[s] = r /\ sock'[s] # "open"
    BY <1>1, <2>5, <2>6 DEF TypeOK
  <2>. QED
    BY <1>2, <2>3, <2>4, <2>7 DEF StartCreateTunnel, isInitialised
<1>3. ASSUME NEW f \in Frames, Handle(f), ~StartCreateTunnel(f) PROVE FALSE
  <2>1. FrameOK(f)
    BY DEF IInv
  <2>2. CASE UNCHANGED sock
    BY <2>2
  <2>3. CASE sock' = CloseAllTunnels
    BY <2>3 DEF CloseAllTunnels, Destroyed
  <2>4. CASE Connected(f) \/ ConnectFailed(f)
    BY <1>1, <2>1, <2>4 DEF Connected, ConnectFailed, TypeOK, FrameOK
  <2>5. ASSUME NEW d, sock' = [sock EXCEPT ![d] = Destroyed(@)] PROVE FALSE
    BY <1>1, <2>5 DEF Destroyed, TypeOK
  <2>6. CASE HandleDisconnectTunnel(f) \/ StartClaimTunnel(f)
    BY <2>2, <2>5, <2>6 DEF HandleDisconnectTunnel, StartClaimTunnel
  <2>7. CASE HandleAlert(f) \/ TerminateConnection(f)
    BY <2>2, <2>3, <2>7 DEF HandleAlert, TerminateConnection
  <2>8. CASE RejectUninitialised(f) \/ StartInit(f) \/ FinishInit(f)
               \/ CheckClaim(f) \/ FinishClaimTunnel(f) \/ AlertSent(f)
               \/ BgpChecked(f) \/ HandleTunnelMessage(f)
    BY <2>2, <2>8 DEF RejectUninitialised, StartInit, FinishInit, CheckClaim,
                  FinishClaimTunnel, AlertSent, BgpChecked, HandleTunnelMessage
  <2>. QED
    BY <1>3, <2>4, <2>6, <2>7, <2>8 DEF Handle
<1>4. ASSUME NEW t \in Sockets, Tcp(t) PROVE FALSE
  BY <1>1, <1>4 DEF Tcp, ServerData, SocketClosed, ProxyConnected, AbandonedProxy, TypeOK
<1>5. CASE BgpOverlap \/ WsClosing \/ WsError \/ WsClosed \/ UNCHANGED vars
  BY <1>1, <1>5 DEF BgpOverlap, WsClosing, WsError, WsClosed, CloseAllTunnels,
                    Destroyed, TypeOK, vars
<1>6. ASSUME NEW f \in Frames, ReceiveFrame(f) PROVE FALSE
  BY <1>6 DEF ReceiveFrame
<1>. QED
  BY <1>2, <1>3, <1>4, <1>5, <1>6 DEF Next

LEMMA NextRequestOK == IInv /\ [Next]_vars => RequestOK'
<1>. SUFFICES ASSUME IInv, [Next]_vars, NEW s \in Sockets, sock'[s] # "free"
              PROVE  request'[s] \in [id : TunnelIds, host : Hosts]
  BY DEF RequestOK
<1>1. CASE sock[s] = "free"
  BY <1>1, TakeSocket
<1>2. CASE sock[s] # "free"
  BY <1>2, NextTcp DEF TcpStep, IInv, RequestOK
<1>. QED
  BY <1>1, <1>2

(* The accepted auths only grow, and metadata is one of them. *)
LEMMA NextGrant == IInv /\ [Next]_vars => GrantOK' /\ granted \subseteq granted'
<1>. SUFFICES ASSUME IInv, [Next]_vars
              PROVE  GrantOK' /\ granted \subseteq granted'
  OBVIOUS
<1>1. CASE UNCHANGED <<metadata, granted>>
  BY <1>1 DEF IInv, GrantOK
<1>2. ASSUME NEW f \in Frames, FinishInit(f)
      PROVE  GrantOK' /\ granted \subseteq granted'
  BY <1>1, <1>2 DEF FinishInit, GrantOK
<1>. QED
  BY <1>1, <1>2
     DEF Next, ReceiveFrame, Tcp, ServerData, SocketClosed, ProxyConnected,
         AbandonedProxy, BgpOverlap, WsClosing, WsError, WsClosed, vars,
         Handle, HandleAlert, RejectUninitialised, StartInit, Connected,
         StartCreateTunnel, ConnectFailed, HandleTunnelMessage, BgpChecked,
         HandleDisconnectTunnel, StartClaimTunnel, CheckClaim, FinishClaimTunnel,
         TerminateConnection, AlertSent

LEMMA NextHostWhitelisted == IInv /\ [Next]_vars => HostWhitelisted'
<1>. SUFFICES ASSUME IInv, [Next]_vars, NEW s \in Sockets, sock'[s] # "free"
              PROVE  \E a \in granted' : a = {} \/ request'[s].host \in a
  BY DEF HostWhitelisted
<1>1. granted \subseteq granted'
  BY NextGrant
<1>2. CASE sock[s] = "free"
  BY <1>1, <1>2, TakeSocket DEF HostAllowed, IInv, GrantOK
<1>3. CASE sock[s] # "free"
  BY <1>1, <1>3, NextTcp DEF TcpStep, IInv, HostWhitelisted
<1>. QED
  BY <1>2, <1>3
----------------------------------------------------------------------------
LEMMA NextWireOK == IInv /\ [Next]_vars => WireOK'
<1>. SUFFICES ASSUME IInv, [Next]_vars, NEW s \in Sockets
              PROVE  onWire'[s] <= Len(transcript'[s].client)
  BY DEF WireOK
<1>1. /\ TypeOK /\ onWire[s] <= Len(transcript[s].client) /\ onWire[s] \in Nat
      /\ transcript[s] \in Recorded /\ transcript[s].client \in Seq(Bytes)
  BY DEF IInv, WireOK, TypeOK, Recorded
<1>2. CASE onWire'[s] = onWire[s]
  <2>1. CASE transcript'[s].client = transcript[s].client
    BY <1>1, <1>2, <2>1
  <2>2. ASSUME NEW d \in Bytes, transcript'[s].client = Append(transcript[s].client, d)
        PROVE  onWire'[s] <= Len(transcript'[s].client)
    BY <1>1, <1>2, <2>2
  <2>3. \/ transcript'[s].client = transcript[s].client
        \/ \E d \in Bytes : transcript'[s].client = Append(transcript[s].client, d)
    <3>1. CASE transcript'[s] = transcript[s]
      BY <3>1
    <3>2. ASSUME NEW d \in Bytes,
                 transcript'[s] = [transcript[s] EXCEPT !.client = Append(@, d)]
          PROVE  transcript'[s].client = Append(transcript[s].client, d)
      BY <1>1, <3>2 DEF Recorded
    <3>3. ASSUME NEW d \in Bytes,
                 transcript'[s] = [transcript[s] EXCEPT !.server = Append(@, d)]
          PROVE  transcript'[s].client = transcript[s].client
      BY <1>1, <3>3 DEF Recorded
    <3>4. TcpStep(s)
      BY NextTcp
    <3>. QED
      BY <3>1, <3>2, <3>3, <3>4 DEF TcpStep
  <2>. QED
    BY <2>1, <2>2, <2>3
<1>3. ASSUME NEW f \in Frames, HandleTunnelMessage(f), onWire'[s] # onWire[s]
      PROVE  onWire'[s] <= Len(transcript'[s].client)
  <2>. DEFINE t == tunnels[Current(f).id]
              m == Current(f).message
  <2>1. /\ transcript' = [transcript EXCEPT ![t].client = Append(@, m)]
        /\ onWire' = [onWire EXCEPT ![t] = IF sock[t] = "open" THEN @ + 1 ELSE @]
    BY <1>3 DEF HandleTunnelMessage
  <2>2. m \in Bytes
    BY <1>3, CurrentIsMessage, MessageFields DEF HandleTunnelMessage, IInv
  <2>. HIDE DEF t, m
  <2>3. t = s /\ onWire'[s] = onWire[s] + 1
    BY <1>1, <1>3, <2>1 DEF TypeOK
  <2>4. transcript'[s] = [transcript[s] EXCEPT !.client = Append(@, m)]
    BY <1>1, <2>1, <2>3 DEF TypeOK
  <2>5. transcript'[s].client = Append(transcript[s].client, m)
    BY <1>1, <2>4 DEF Recorded
  <2>6. Len(transcript'[s].client) = Len(transcript[s].client) + 1
    BY <1>1, <2>2, <2>5
  <2>. QED
    BY <1>1, <2>3, <2>6
<1>4. UNCHANGED onWire \/ \E f \in Frames : HandleTunnelMessage(f)
  BY DEF Next, ReceiveFrame, Tcp, ServerData, SocketClosed, ProxyConnected,
         AbandonedProxy, BgpOverlap, WsClosing, WsError, WsClosed, vars, tcpVars,
         Handle, HandleAlert, RejectUninitialised, StartInit, FinishInit, Connected,
         StartCreateTunnel, ConnectFailed, BgpChecked,
         HandleDisconnectTunnel, StartClaimTunnel, CheckClaim, FinishClaimTunnel,
         TerminateConnection, AlertSent
<1>. QED
  BY <1>2, <1>3, <1>4

(* A claim is only signed after its comparison. *)
LEMMA SignStep ==
  ASSUME IInv, [Next]_vars, NEW c \in signed'
  PROVE  c \in Claim /\ ClaimOK(c)
<1>1. CASE c \in signed
  BY <1>1 DEF IInv, SignedOK, TypeOK
<1>2. ASSUME NEW f \in Frames, FinishClaimTunnel(f), c \notin signed
      PROVE  c \in Claim /\ ClaimOK(c)
  <2>1. c = frame[f].claim /\ frame[f].pc = "validate"
    BY <1>2 DEF FinishClaimTunnel
  <2>. QED
    BY <2>1 DEF IInv, FrameOK
<1>3. UNCHANGED signed \/ \E f \in Frames : FinishClaimTunnel(f)
  BY DEF Next, ReceiveFrame, Tcp, ServerData, SocketClosed, ProxyConnected,
         AbandonedProxy, BgpOverlap, WsClosing, WsError, WsClosed, vars,
         Handle, HandleAlert, RejectUninitialised, StartInit, FinishInit, Connected,
         StartCreateTunnel, ConnectFailed, BgpChecked, HandleTunnelMessage,
         HandleDisconnectTunnel, StartClaimTunnel, CheckClaim,
         TerminateConnection, AlertSent
<1>. QED
  BY <1>1, <1>2, <1>3

LEMMA NextSignedOK == IInv /\ [Next]_vars => SignedOK'
<1>. SUFFICES ASSUME IInv, [Next]_vars, NEW c \in signed'
              PROVE  ClaimOK(c)'
  BY DEF SignedOK
<1>1. c \in Claim /\ ClaimOK(c)
  BY SignStep
<1>2. TcpStep(c.sock)
  BY <1>1, NextTcp DEF Claim
<1>. QED
  BY <1>1, <1>2, ClaimStays DEF IInv
----------------------------------------------------------------------------
(* A socket becomes open only in the hands of its createTunnel handler,    *)
(* which keeps it until it has put it into the map.                        *)
LEMMA CreatedTunnel ==
  ASSUME IInv, [Next]_vars, NEW s \in Sockets, sock'[s] = "open",
         sock[s] # "open" \/ BeingCreated(s)
  PROVE  InMap(s)' \/ BeingCreated(s)'
<1>1. TypeOK /\ TypeOK'
  BY NextTypeOK DEF IInv
<1>2. ASSUME NEW f \in Frames, Connected(f), frame[f].sock = s
      PROVE  InMap(s)' \/ BeingCreated(s)'
  <2>1. FrameOK(f) /\ Current(f).id \in TunnelIds
    BY <1>1, <1>2, CurrentIsMessage, MessageFields DEF IInv, Connected, FrameOK
  <2>2. CASE Await(f, "bgp")
    <3>1. frame'[f] = [frame[f] EXCEPT !.pc = "bgp"] /\ frame[f] \in Frame
      BY <1>1, <2>2 DEF Await, TypeOK
    <3>2. frame'[f].pc = "bgp" /\ frame'[f].sock = s
      BY <1>2, <3>1 DEF Frame
    <3>. QED
      BY <3>2 DEF BeingCreated
  <2>3. CASE tunnels' = [tunnels EXCEPT ![Current(f).id] = frame[f].sock]
    <3>1. tunnels'[Current(f).id] = s
      BY <1>1, <1>2, <2>1, <2>3 DEF TypeOK
    <3>. QED
      BY <2>1, <3>1 DEF InMap
  <2>. QED
    BY <1>2, <2>2, <2>3 DEF Connected, RegisterTunnel
<1>3. ASSUME NEW f \in Frames, BgpChecked(f), frame[f].sock = s
      PROVE  InMap(s)'
  <2>1. Current(f).id \in TunnelIds
    BY <1>1, <1>3, CurrentIsMessage, MessageFields DEF IInv, BgpChecked, FrameOK
  <2>2. tunnels'[Current(f).id] = s
    BY <1>1, <1>3, <2>1 DEF BgpChecked, RegisterTunnel, TypeOK
  <2>. QED
    BY <2>1, <2>2 DEF InMap
<1>4. CASE sock[s] # "open"
  <2>1. \E f \in Frames : Connected(f) /\ frame[f].sock = s
    <3>1. sock[s] # "free"
      BY <1>4, TakeSocket
    <3>2. ASSUME UNCHANGED sock PROVE FALSE
      BY <1>4, <3>2
    <3>3. ASSUME sock' = CloseAllTunnels PROVE FALSE
      BY <1>4, <3>3 DEF CloseAllTunnels, Destroyed
    <3>4. ASSUME NEW d, sock' = [sock EXCEPT ![d] = Destroyed(@)] PROVE FALSE
      BY <1>1, <1>4, <3>4 DEF Destroyed, TypeOK
    <3>5. ASSUME NEW f \in Frames, Connected(f) PROVE frame[f].sock = s
      BY <1>1, <1>4, <3>5 DEF Connected, TypeOK
    <3>6. ASSUME NEW f \in Frames, ConnectFailed(f) PROVE FALSE
      <4>. DEFINE d == frame[f].sock
                  v == IF sock[d] = "proxying" THEN "abandoned" ELSE "ended"
      <4>1. sock' = [sock EXCEPT ![d] = v] /\ v # "open"
        BY <3>6 DEF ConnectFailed
      <4>. HIDE DEF d, v
      <4>. QED
        BY <1>1, <1>4, <4>1 DEF TypeOK
    <3>7. ASSUME NEW f \in Frames, StartCreateTunnel(f) PROVE FALSE
      <4>1. ASSUME NEW d \in Sockets, NEW v, v # "open", sock' = [sock EXCEPT ![d] = v]
            PROVE  FALSE
        BY <1>1, <1>4, <4>1 DEF TypeOK
      <4>. QED
        BY <3>2, <3>7, <4>1 DEF StartCreateTunnel
    <3>8. ASSUME NEW f \in Frames,
                 HandleAlert(f) \/ TerminateConnection(f) \/ HandleDisconnectTunnel(f)
                   \/ StartClaimTunnel(f)
          PROVE  FALSE
      BY <3>2, <3>3, <3>4, <3>8 DEF HandleAlert, TerminateConnection,
                                    HandleDisconnectTunnel, StartClaimTunnel
    <3>9. ASSUME NEW f \in Frames,
                 RejectUninitialised(f) \/ StartInit(f) \/ FinishInit(f)
                   \/ CheckClaim(f) \/ FinishClaimTunnel(f) \/ AlertSent(f)
                   \/ BgpChecked(f) \/ HandleTunnelMessage(f) \/ ReceiveFrame(f)
          PROVE  FALSE
      BY <3>2, <3>9 DEF RejectUninitialised, StartInit, FinishInit, CheckClaim,
              FinishClaimTunnel, AlertSent, BgpChecked, HandleTunnelMessage, ReceiveFrame
    <3>10. ASSUME NEW t \in Sockets, Tcp(t) PROVE FALSE
      BY <1>1, <1>4, <3>10 DEF Tcp, ServerData, SocketClosed, ProxyConnected,
                               AbandonedProxy, TypeOK
    <3>11. ASSUME BgpOverlap \/ WsClosing \/ WsError \/ WsClosed \/ UNCHANGED vars
           PROVE  FALSE
      BY <1>1, <1>4, <3>11 DEF BgpOverlap, WsClosing, WsError, WsClosed,
                               CloseAllTunnels, Destroyed, TypeOK, vars
    <3>. QED
      BY <3>5, <3>6, <3>7, <3>8, <3>9, <3>10, <3>11 DEF Next, Handle
  <2>. QED
    BY <1>2, <2>1
<1>5. CASE sock[s] = "open" /\ BeingCreated(s)
  <2>1. PICK f \in Frames : frame[f].sock = s /\ frame[f].pc \in {"connect", "bgp"}
    BY <1>5 DEF BeingCreated
  <2>2. frame[f].pc = "bgp"
    BY <1>5, <2>1 DEF IInv, FrameOK
  <2>3. CASE Handle(f)
    <3>1. BgpChecked(f)
      BY <2>2, <2>3 DEF Handle, HandleAlert, RejectUninitialised, StartInit,
         FinishInit, Connected, StartCreateTunnel, ConnectFailed, HandleTunnelMessage,
         HandleDisconnectTunnel, StartClaimTunnel, CheckClaim, FinishClaimTunnel,
         TerminateConnection, AlertSent
    <3>. QED
      BY <1>3, <2>1, <3>1
  <2>4. CASE ~Handle(f)
    <3>1. frame'[f] = frame[f]
      BY <1>1, <2>2, <2>4, OutsideStep DEF ReceiveFrame
    <3>. QED
      BY <2>1, <3>1 DEF BeingCreated
  <2>. QED
    BY <2>3, <2>4
<1>. QED
  BY <1>4, <1>5

LEMMA NextOrphan == IInv /\ [Next]_vars => OrphanNeedsIdReuse'
<1>. DEFINE Reused(s) == \E t \in Sockets \ {s} :
                          sock[t] # "free" /\ request[t].id = request[s].id
<1>. SUFFICES ASSUME IInv, [Next]_vars, NEW s \in Sockets, sock'[s] = "open",
                     ~InMap(s)', ~BeingCreated(s)'
              PROVE  Reused(s)'
  BY DEF OrphanNeedsIdReuse
<1>1. sock[s] = "open" /\ ~BeingCreated(s)
  BY CreatedTunnel
<1>2. InMap(s) \/ Reused(s)
  BY <1>1 DEF IInv, OrphanNeedsIdReuse
<1>3. \A t \in Sockets : sock[t] # "free" => sock'[t] # "free" /\ request'[t] = request[t]
  BY NextTcp DEF TcpStep
<1>4. ASSUME NEW t \in Sockets, t # s, sock[t] # "free", request[t].id = request[s].id
      PROVE  Reused(s)'
  BY <1>1, <1>3, <1>4
<1>5. CASE InMap(s)
  <2>1. PICK i \in TunnelIds : tunnels[i] = s
    BY <1>5 DEF InMap
  <2>2. tunnels'[i] # s
    BY <2>1 DEF InMap
  <2>3. request[s].id = i
    BY <2>1, SessionAssumption DEF IInv, MapOK, SessionAssumption
  <2>4. PICK t \in Sockets :
          /\ sock[t] # "free" /\ request[t].id = i
          /\ tunnels'[i] = t \/ sock[t] \in Shut
    BY <2>1, <2>2, NextMap DEF MapStep
  <2>5. t # s
    BY <1>1, <2>2, <2>4 DEF Shut
  <2>. QED
    BY <1>4, <2>3, <2>4, <2>5
<1>. QED
  BY <1>2, <1>4, <1>5
----------------------------------------------------------------------------
LEMMA InitIInv == Init => IInv
<1>. SUFFICES ASSUME Init PROVE IInv
  OBVIOUS
<1>1. TypeOK
  BY InitTypeOK
<1>2. ASSUME NEW f \in Frames PROVE FrameOK(f) /\ frame[f].pc # "connect"
  <2>1. PICK b \in Batches \cup {<<>>} :
       frame = [g \in Frames |->
                  [msgs |-> IF g = Query THEN b ELSE <<>>, pos |-> 1,
                   sock |-> None, claim |-> None,
                   pc |-> IF g # Query THEN "idle"
                          ELSE IF b = <<>> THEN "done" ELSE "next"]]
    BY DEF Init
  <2>2. b # <<>> => b \in Seq(Message) /\ Len(b) >= 1
    <3>1. b # <<>> => b \in Seq(Message)
      BY SessionAssumption DEF SessionAssumption
    <3>. QED
      BY <3>1
  <2>3. frame[f].pos = 1 /\ frame[f].pc \in {"idle", "done", "next"}
    BY <2>1
  <2>4. frame[f].pc = "next" => frame[f].msgs = b /\ b # <<>>
    BY <2>1
  <2>5. frame[f].pc = "next" => 1 \in 1..Len(frame[f].msgs)
    BY <2>2, <2>4
  <2>. QED
    BY <2>3, <2>5 DEF FrameOK
<1>3. SoleCreator
  BY <1>2 DEF SoleCreator
<1>4. MapOK /\ RequestOK /\ SignedOK /\ GrantOK /\ HostWhitelisted /\ OrphanNeedsIdReuse
  BY DEF Init, MapOK, RequestOK, SignedOK, GrantOK, HostWhitelisted, OrphanNeedsIdReuse
<1>5. WireOK
  BY DEF Init, WireOK
<1>. QED
  BY <1>1, <1>2, <1>3, <1>4, <1>5 DEF IInv

LEMMA NextIInv == IInv /\ [Next]_vars => IInv'
<1>. SUFFICES ASSUME IInv, [Next]_vars PROVE IInv'
  OBVIOUS
<1>1. TypeOK'
  BY NextTypeOK
<1>2. \A f \in Frames : FrameOK(f)'
  BY NextFrameOK
<1>3. SoleCreator' /\ MapOK' /\ RequestOK' /\ WireOK' /\ SignedOK'
  BY NextSoleCreator, NextMapOK, NextRequestOK, NextWireOK, NextSignedOK
<1>4. GrantOK' /\ HostWhitelisted' /\ OrphanNeedsIdReuse'
  BY NextGrant, NextHostWhitelisted, NextOrphan
<1>. QED
  BY <1>1, <1>2, <1>3, <1>4 DEF IInv
----------------------------------------------------------------------------
(* The messages of a packet that were handled before the one the loop is   *)
(* at: an init among them has set the metadata, and so a later             *)
(* createTunnel among them has made its tunnel, which stays in the map     *)
(* unless a claim takes it out.                                            *)
NoClaims ==
  \A g \in Frames : \A j \in 1..Len(frame[g].msgs) :
    frame[g].msgs[j].type # "claimTunnel"

IdleEmpty == \A f \in Frames : frame[f].pc = "idle" => frame[f].msgs = <<>>

LoopBound == \A f \in Frames : frame[f].pos \in 1..Len(frame[f].msgs) + 1

InitsDone ==
  \A f \in Frames : \A k \in 1..(frame[f].pos - 1) :
    frame[f].msgs[k].type = "init" => metadata # None

CreatesDone ==
  NoClaims =>
    \A f \in Frames : \A j \in 1..(frame[f].pos - 1) :
      /\ frame[f].msgs[j].type = "createTunnel"
      /\ \E k \in 1..(j - 1) : frame[f].msgs[k].type = "init"
      => tunnels[frame[f].msgs[j].id] # None

BatchInv == IdleEmpty /\ LoopBound /\ InitsDone /\ CreatesDone

(* What one step may do to the message loop of a packet. *)
LoopStep(f) ==
  /\ frame'[f].pc = "idle" => frame[f].pc = "idle" /\ frame'[f].msgs = frame[f].msgs
  /\ \/ frame[f].pc = "idle" /\ frame'[f].pos = frame[f].pos
     \/ frame'[f].msgs = frame[f].msgs /\ frame'[f].pos = frame[f].pos
     \/ /\ frame'[f].msgs = frame[f].msgs /\ frame'[f].pos = frame[f].pos + 1
        /\ frame[f].pc \notin {"idle", "done"}
        /\ Current(f).type = "init" => metadata' # None
        /\ Current(f).type = "createTunnel" =>
             metadata = None \/ tunnels'[Current(f).id] # None

LEMMA LoopAdvances ==
  ASSUME TypeOK, NEW f \in Frames, frame'[f] = Advance(frame[f]),
         frame[f].pc \notin {"idle", "done"},
         Current(f).type = "init" => metadata' # None,
         Current(f).type = "createTunnel" =>
           metadata = None \/ tunnels'[Current(f).id] # None
  PROVE  LoopStep(f)
<1>1. frame[f] \in Frame
  BY DEF TypeOK
<1>2. /\ frame'[f].msgs = frame[f].msgs /\ frame'[f].pos = frame[f].pos + 1
      /\ frame'[f].pc # "idle"
  BY <1>1 DEF Advance, Frame
<1>. QED
  BY <1>2 DEF LoopStep

LEMMA LoopStays ==
  ASSUME TypeOK, NEW f \in Frames, frame'[f].pc # "idle",
         frame'[f].msgs = frame[f].msgs, frame'[f].pos = frame[f].pos
  PROVE  LoopStep(f)
BY DEF LoopStep

LEMMA LoopAborts ==
  ASSUME TypeOK, NEW f \in Frames, frame'[f] = Abort(f)
  PROVE  LoopStep(f)
<1>1. frame[f] \in Frame
  BY DEF TypeOK
<1>2. /\ frame'[f].msgs = frame[f].msgs /\ frame'[f].pos = frame[f].pos
      /\ frame'[f].pc # "idle"
  BY <1>1 DEF Abort, Frame
<1>. QED
  BY <1>2, LoopStays

LEMMA LoopAwaits ==
  ASSUME TypeOK, NEW f \in Frames,
         NEW pc \in {"done", "alerting"} \cup Awaits, Await(f, pc)
  PROVE  LoopStep(f)
<1>1. frame[f] \in Frame /\ frame'[f] = [frame[f] EXCEPT !.pc = pc]
  BY DEF TypeOK, Await
<1>2. /\ frame'[f].msgs = frame[f].msgs /\ frame'[f].pos = frame[f].pos
      /\ frame'[f].pc # "idle"
  BY <1>1 DEF Frame, Awaits
<1>. QED
  BY <1>2, LoopStays

(* An answer: the loop goes on only after a handler that succeeded. *)
LEMMA LoopResponds ==
  ASSUME TypeOK, NEW f \in Frames, NEW ok \in BOOLEAN, Respond(f, ok),
         frame[f].pc \notin {"idle", "done"},
         ok => /\ Current(f).type = "init" => metadata' # None
               /\ Current(f).type = "createTunnel" =>
                    metadata = None \/ tunnels'[Current(f).id] # None
  PROVE  LoopStep(f)
<1>1. frame'[f] = IF ws = "open" /\ ok THEN Advance(frame[f]) ELSE Abort(f)
  BY DEF Respond, TypeOK
<1>. QED
  BY <1>1, LoopAdvances, LoopAborts

LEMMA HandleLoop ==
  ASSUME IInv, NEW f \in Frames, Handle(f)
  PROVE  LoopStep(f)
<1>. TypeOK /\ FrameOK(f)
  BY DEF IInv
<1>0. None \notin Sockets /\ None \notin Auths
  BY SessionAssumption DEF SessionAssumption
<1>1. CASE HandleAlert(f)
  <2>1. frame'[f] = Advance(frame[f])
    BY <1>1 DEF HandleAlert, TypeOK
  <2>. QED
    BY <1>1, <2>1, LoopAdvances DEF HandleAlert
<1>2. CASE RejectUninitialised(f)
  <2>1. frame'[f] = Advance(frame[f])
    BY <1>2 DEF RejectUninitialised, TypeOK
  <2>. QED
    BY <1>2, <2>1, LoopAdvances DEF RejectUninitialised, isInitialised
<1>3. CASE StartInit(f)
  BY <1>3, LoopResponds, LoopAwaits DEF StartInit, Awaits
<1>4. CASE FinishInit(f)
  <2>1. Current(f).type = "init" /\ Current(f).auth \in Auths
    BY <1>4, CurrentIsMessage, MessageFields DEF FinishInit, FrameOK
  <2>2. CASE Respond(f, FALSE)
    BY <1>4, <2>2, LoopResponds DEF FinishInit
  <2>3. CASE Respond(f, TRUE) /\ metadata' = Current(f).auth
    <3>1. metadata' # None
      BY <1>0, <2>1, <2>3
    <3>. QED
      BY <1>4, <2>1, <2>3, <3>1, LoopResponds DEF FinishInit
  <2>. QED
    BY <1>4, <2>2, <2>3 DEF FinishInit
<1>5. CASE StartCreateTunnel(f)
  <2>1. CASE Respond(f, FALSE)
    BY <1>5, <2>1, LoopResponds DEF StartCreateTunnel
  <2>2. ASSUME NEW s \in Sockets,
               frame' = [frame EXCEPT ![f] = [@ EXCEPT !.pc = "connect", !.sock = s]]
        PROVE  LoopStep(f)
    <3>1. /\ frame'[f].msgs = frame[f].msgs /\ frame'[f].pos = frame[f].pos
          /\ frame'[f].pc # "idle"
      BY <2>2 DEF TypeOK, Frame
    <3>. QED
      BY <3>1, LoopStays
  <2>. QED
    BY <1>5, <2>1, <2>2 DEF StartCreateTunnel
<1>6. ASSUME frame[f].pc \in {"connect", "bgp"}, RegisterTunnel(f)
      PROVE  LoopStep(f)
  <2>1. Current(f).type = "createTunnel" /\ frame[f].sock \in Sockets
    BY <1>6 DEF FrameOK
  <2>2. Current(f).id \in TunnelIds
    BY <1>6, <2>1, CurrentIsMessage, MessageFields
  <2>3. tunnels'[Current(f).id] # None
    BY <1>0, <1>6, <2>1, <2>2 DEF RegisterTunnel, TypeOK
  <2>. QED
    BY <1>6, <2>1, <2>3, LoopResponds DEF RegisterTunnel
<1>7. CASE Connected(f)
  BY <1>6, <1>7, LoopAwaits DEF Connected, Awaits
<1>8. CASE ConnectFailed(f)
  BY <1>8, LoopResponds DEF ConnectFailed
<1>9. CASE BgpChecked(f)
  BY <1>6, <1>9 DEF BgpChecked
<1>10. CASE HandleTunnelMessage(f)
  <2>1. frame'[f] = Advance(frame[f])
    BY <1>10 DEF HandleTunnelMessage, TypeOK
  <2>. QED
    BY <1>10, <2>1, LoopAdvances DEF HandleTunnelMessage
<1>11. CASE HandleDisconnectTunnel(f)
  BY <1>11, LoopResponds DEF HandleDisconnectTunnel
<1>12. CASE StartClaimTunnel(f)
  <2>1. CASE Respond(f, FALSE)
    BY <1>12, <2>1, LoopResponds DEF StartClaimTunnel
  <2>2. ASSUME NEW s,
               frame' = [frame EXCEPT ![f] = [@ EXCEPT !.pc = "close", !.sock = s]]
        PROVE  LoopStep(f)
    <3>1. /\ frame'[f].msgs = frame[f].msgs /\ frame'[f].pos = frame[f].pos
          /\ frame'[f].pc # "idle"
      BY <2>2 DEF TypeOK, Frame
    <3>. QED
      BY <3>1, LoopStays
  <2>. QED
    BY <1>12, <2>1, <2>2 DEF StartClaimTunnel
<1>13. CASE CheckClaim(f)
  <2>1. CASE Respond(f, FALSE)
    BY <1>13, <2>1, LoopResponds DEF CheckClaim
  <2>2. ASSUME NEW c,
               frame' = [frame EXCEPT ![f] = [@ EXCEPT !.pc = "validate", !.claim = c]]
        PROVE  LoopStep(f)
    <3>1. /\ frame'[f].msgs = frame[f].msgs /\ frame'[f].pos = frame[f].pos
          /\ frame'[f].pc # "idle"
      BY <2>2 DEF TypeOK, Frame
    <3>. QED
      BY <3>1, LoopStays
  <2>. QED
    BY <1>13, <2>1, <2>2 DEF CheckClaim
<1>14. CASE FinishClaimTunnel(f)
  BY <1>14, LoopResponds DEF FinishClaimTunnel, FrameOK
<1>15. CASE TerminateConnection(f) \/ AlertSent(f)
  BY <1>15, LoopAwaits DEF TerminateConnection, AlertSent
<1>. QED
  BY <1>1, <1>2, <1>3, <1>4, <1>5, <1>7, <1>8, <1>9, <1>10, <1>11, <1>12, <1>13,
     <1>14, <1>15 DEF Handle

LEMMA NextLoop ==
  ASSUME IInv, [Next]_vars, NEW f \in Frames
  PROVE  LoopStep(f)
<1>. TypeOK
  BY DEF IInv
<1>1. CASE Handle(f)
  BY <1>1, HandleLoop
<1>2. CASE ReceiveFrame(f)
  <2>1. PICK b \in Batches :
          frame' = [frame EXCEPT ![f] = [@ EXCEPT !.msgs = b, !.pc = "next"]]
    BY <1>2 DEF ReceiveFrame
  <2>2. frame'[f].pc = "next" /\ frame'[f].pos = frame[f].pos
    BY <2>1 DEF TypeOK, Frame
  <2>. QED
    BY <1>2, <2>2 DEF ReceiveFrame, LoopStep
<1>3. CASE frame'[f] = frame[f]
  BY <1>3 DEF LoopStep
<1>. QED
  BY <1>1, <1>2, <1>3, OutsideStep

(* The session's metadata is never taken back. *)
LEMMA MetadataStays ==
  ASSUME IInv, [Next]_vars, metadata # None
  PROVE  metadata' # None
<1>1. CASE UNCHANGED metadata
  BY <1>1
<1>2. ASSUME NEW f \in Frames, FinishInit(f) PROVE metadata' # None
  <2>1. Current(f).auth \in Auths
    BY <1>2, CurrentIsMessage, MessageFields DEF FinishInit, FrameOK, IInv
  <2>. QED
    BY <1>2, <2>1, SessionAssumption DEF FinishInit, SessionAssumption
<1>. QED
  BY <1>1, <1>2
     DEF Next, ReceiveFrame, Tcp, ServerData, SocketClosed, ProxyConnected,
         AbandonedProxy, BgpOverlap, WsClosing, WsError, WsClosed, vars,
         Handle, HandleAlert, RejectUninitialised, StartInit, Connected,
         StartCreateTunnel, ConnectFailed, HandleTunnelMessage, BgpChecked,
         HandleDisconnectTunnel, StartClaimTunnel, CheckClaim, FinishClaimTunnel,
         TerminateConnection, AlertSent

(* Without a claim, no tunnel leaves the map. *)
LEMMA TunnelStays ==
  ASSUME IInv, [Next]_vars, NoClaims, NEW i, tunnels[i] # None, i \in TunnelIds
  PROVE  tunnels'[i] # None
<1>. TypeOK
  BY DEF IInv
<1>1. CASE UNCHANGED tunnels
  BY <1>1
<1>2. ASSUME NEW f \in Frames, frame[f].pc \in {"connect", "bgp"}, RegisterTunnel(f)
      PROVE  tunnels'[i] # None
  <2>1. frame[f].sock \in Sockets
    BY <1>2 DEF FrameOK, IInv
  <2>2. frame[f].sock # None
    BY <2>1, SessionAssumption DEF SessionAssumption
  <2>. QED
    BY <1>2, <2>2 DEF RegisterTunnel, TypeOK
<1>3. ASSUME NEW f \in Frames, Connected(f) \/ BgpChecked(f)
      PROVE  tunnels'[i] # None
  BY <1>1, <1>2, <1>3 DEF Connected, BgpChecked
<1>4. ASSUME NEW f \in Frames, FinishClaimTunnel(f) PROVE FALSE
  <2>1. Current(f).type = "claimTunnel" /\ frame[f].pos \in 1..Len(frame[f].msgs)
    BY <1>4 DEF FinishClaimTunnel, FrameOK, IInv
  <2>. QED
    BY <2>1 DEF NoClaims, Current
<1>. QED
  BY <1>1, <1>3, <1>4
     DEF Next, ReceiveFrame, Tcp, ServerData, SocketClosed, ProxyConnected,
         AbandonedProxy, BgpOverlap, WsClosing, WsError, WsClosed, vars,
         Handle, HandleAlert, RejectUninitialised, StartInit, FinishInit,
         StartCreateTunnel, ConnectFailed, HandleTunnelMessage,
         HandleDisconnectTunnel, StartClaimTunnel, CheckClaim,
         TerminateConnection, AlertSent

LEMMA NextBatchInv == IInv /\ BatchInv /\ [Next]_vars => BatchInv'
<1>. SUFFICES ASSUME IInv, BatchInv, [Next]_vars PROVE BatchInv'
  OBVIOUS
<1>0. TypeOK /\ TypeOK' /\ \A f \in Frames : LoopStep(f) /\ FrameOK(f)
  BY NextTypeOK, NextLoop DEF IInv
<1>1. \A f \in Frames : frame[f].pos \in Nat /\ frame[f].msgs \in Seq(Message)
  BY <1>0 DEF TypeOK, Frame
<1>2. IdleEmpty'
  BY <1>0 DEF BatchInv, IdleEmpty, LoopStep
<1>6. LoopBound'
  <2>1. \A f \in Frames : frame'[f].msgs \in Seq(Message)
    BY <1>0 DEF TypeOK, Frame
  <2>. QED
    BY <1>0, <1>1, <2>1 DEF BatchInv, LoopBound, LoopStep, FrameOK
<1>3. InitsDone'
  <2>. SUFFICES ASSUME NEW f \in Frames, NEW k \in 1..(frame'[f].pos - 1),
                       frame'[f].msgs[k].type = "init"
                PROVE  metadata' # None
    BY DEF InitsDone
  <2>1. CASE frame[f].pc = "idle" /\ frame'[f].pos = frame[f].pos
    BY <1>0, <2>1 DEF FrameOK
  <2>2. CASE frame'[f].msgs = frame[f].msgs /\ k \in 1..(frame[f].pos - 1)
    BY <2>2, MetadataStays DEF BatchInv, InitsDone
  <2>3. CASE /\ frame'[f].msgs = frame[f].msgs /\ k = frame[f].pos
             /\ Current(f).type = "init" => metadata' # None
    BY <2>3 DEF Current
  <2>. QED
    BY <1>0, <1>1, <2>1, <2>2, <2>3 DEF LoopStep
<1>4. NoClaims' => NoClaims
  <2>. SUFFICES ASSUME NoClaims', NEW g \in Frames, NEW j \in 1..Len(frame[g].msgs)
                PROVE  frame[g].msgs[j].type # "claimTunnel"
    BY DEF NoClaims
  <2>1. CASE frame[g].pc = "idle"
    BY <2>1 DEF BatchInv, IdleEmpty
  <2>2. CASE frame'[g].msgs = frame[g].msgs
    BY <2>2 DEF NoClaims
  <2>. QED
    BY <1>0, <2>1, <2>2 DEF LoopStep
<1>5. CreatesDone'
  <2>. SUFFICES ASSUME NoClaims', NEW f \in Frames, NEW j \in 1..(frame'[f].pos - 1),
                       frame'[f].msgs[j].type = "createTunnel",
                       NEW k \in 1..(j - 1), frame'[f].msgs[k].type = "init"
                PROVE  tunnels'[frame'[f].msgs[j].id] # None
    BY DEF CreatesDone
  <2>. DEFINE i == frame[f].msgs[j].id
  <2>1. CASE frame[f].pc = "idle" /\ frame'[f].pos = frame[f].pos
    BY <1>0, <2>1 DEF FrameOK
  <2>2. CASE frame'[f].msgs = frame[f].msgs /\ j \in 1..(frame[f].pos - 1)
    <3>1. tunnels[i] # None
      BY <1>4, <2>2 DEF BatchInv, CreatesDone
    <3>2. CASE i \in TunnelIds
      BY <1>4, <2>2, <3>1, <3>2, TunnelStays
    <3>3. CASE i \notin TunnelIds
      <4>1. j \in 1..Len(frame[f].msgs) => frame[f].msgs[j] \in Message
        BY <1>1
      <4>2. j \notin 1..Len(frame[f].msgs)
        BY <2>2, <3>3, <4>1, MessageFields
      <4>. QED
        BY <1>1, <2>2, <4>2 DEF BatchInv, LoopBound
    <3>. QED
      BY <3>2, <3>3
  <2>3. CASE /\ frame'[f].msgs = frame[f].msgs /\ j = frame[f].pos
             /\ Current(f).type = "createTunnel" =>
                  metadata = None \/ tunnels'[Current(f).id] # None
    <3>1. k \in 1..(frame[f].pos - 1)
      BY <1>1, <2>3
    <3>2. metadata # None
      BY <2>3, <3>1 DEF BatchInv, InitsDone
    <3>. QED
      BY <2>3, <3>2 DEF Current
  <2>. QED
    BY <1>0, <1>1, <2>1, <2>2, <2>3 DEF LoopStep
<1>. QED
  BY <1>2, <1>3, <1>5, <1>6 DEF BatchInv

LEMMA InitBatchInv == Init => BatchInv
<1>. SUFFICES ASSUME Init PROVE BatchInv
  OBVIOUS
<1>1. PICK b \in Batches \cup {<<>>} :
       frame = [g \in Frames |->
                  [msgs |-> IF g = Query THEN b ELSE <<>>, pos |-> 1,
                   sock |-> None, claim |-> None,
                   pc |-> IF g # Query THEN "idle"
                          ELSE IF b = <<>> THEN "done" ELSE "next"]]
  BY DEF Init
<1>2. \A f \in Frames : /\ frame[f].pos = 1
                        /\ frame[f].pc = "idle" => frame[f].msgs = <<>>
  BY <1>1
<1>3. \A f \in Frames : frame[f].msgs \in Seq(Message)
  BY InitTypeOK DEF TypeOK, Frame
<1>4. LoopBound
  BY <1>2, <1>3 DEF LoopBound
<1>. QED
  BY <1>2, <1>4 DEF BatchInv, IdleEmpty, InitsDone, CreatesDone
----------------------------------------------------------------------------
(* IInv, which says what each handler may rely on at its awaits, holds in  *)
(* every reachable state of a session.                                     *)
THEOREM SessionInvariant == Spec => []IInv
BY InitIInv, NextIInv, PTL DEF Spec

(* Every variable of a session keeps its type, however the packets'        *)
(* handlers interleave.                                                    *)
THEOREM TypeCorrect == Spec => []TypeOK
<1>1. IInv => TypeOK
  BY DEF IInv
<1>. QED
  BY <1>1, SessionInvariant, PTL

(* No tunnel is opened to a host outside every accepted whitelist          *)
(* (createTunnel.ts:15).                                                   *)
THEOREM TunnelsStayWhitelisted == Spec => []HostWhitelisted
<1>1. IInv => HostWhitelisted
  BY DEF IInv
<1>. QED
  BY <1>1, SessionInvariant, PTL

(* A claim claimTunnel signs covers all that went to the tunnel's host,    *)
(* and claims nothing the tunnel did not record (claimTunnel.ts:19,46).    *)
THEOREM ClaimsCoverWire == Spec => []ClaimCoversWire
<1>1. IInv => ClaimCoversWire
  BY DEF IInv, SignedOK, ClaimOK, ClaimCoversWire
<1>. QED
  BY <1>1, SessionInvariant, PTL

(* After a claim is signed its tunnel neither sends nor receives           *)
(* (make-tcp-tunnel.ts:58-71).                                             *)
THEOREM ClaimsFreezeTunnels == Spec => ClaimFreezesTunnel
<1>1. IInv /\ [Next]_vars => ClaimedTunnelsFrozen
  <2>. SUFFICES ASSUME IInv, [Next]_vars, NEW c \in signed
                PROVE  /\ onWire'[c.sock] = onWire[c.sock]
                       /\ transcript'[c.sock].server = transcript[c.sock].server
    BY DEF ClaimedTunnelsFrozen
  <2>1. c.sock \in Sockets /\ sock[c.sock] \in Shut
    BY DEF IInv, TypeOK, Claim, SignedOK, ClaimOK
  <2>. QED
    BY <2>1, NextTcp DEF TcpStep
<1>. QED
  BY <1>1, SessionInvariant, PTL DEF Spec, ClaimFreezesTunnel

(* An open tunnel is lost from client.tunnels only when the client used    *)
(* its id twice (createTunnel.ts:11,91; claimTunnel.ts:103).               *)
THEOREM OrphansNeedIdReuse == Spec => []OrphanNeedsIdReuse
<1>1. IInv => OrphanNeedsIdReuse
  BY DEF IInv
<1>. QED
  BY <1>1, SessionInvariant, PTL

(* A tunnel message packed behind the createTunnel of its tunnel finds the *)
(* tunnel, as long as nothing is claimed (message-handler.ts,              *)
(* make-rpc-tls-tunnel.ts).                                                *)
THEOREM BatchedWritesFindTunnels == Spec => []BatchedWriteFindsTunnel
<1>1. IInv /\ BatchInv => BatchedWriteFindsTunnel
  BY DEF BatchInv, CreatesDone, NoClaims, BatchedWriteFindsTunnel
<1>. QED
  BY <1>1, InitBatchInv, NextBatchInv, SessionInvariant, PTL DEF Spec
============================================================================
