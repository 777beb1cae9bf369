----------------------------- MODULE RpcProofs -----------------------------
(***************************************************************************)
(* Proofs about the two RPC layers, which do not share any state.          *)
(* RpcClient: for any number of calls, no waiter is left when the          *)
(* connection has ended, the client is initialised only by its attestor,   *)
(* and the client implements RpcCall.                                      *)
(* WindowRpc: for any number of requests, calls and retries, a request is  *)
(* answered at most once, and a call to the app stays open only for the    *)
(* attempt under way or for one that failed on a proof.                    *)
(***************************************************************************)
EXTENDS RpcClient, WindowRpc, TLAPS

(* A packet with a result is about a call the attestor gave one. *)
PacketOK(p) == p.type = "response" /\ p.ok => p.id \in results
PacketsOK ==
  /\ \A p \in decoding : PacketOK(p)
  /\ \A i \in 1..Len(wire) : PacketOK(wire[i])

(* How far rpc() is, and what its waiter and its outcome may be then. *)
CallOK(c) ==
  /\ pc[c] = "idle" => waiter[c] = "none" /\ outcome[c] = "none"
  /\ pc[c] = "sending" => waiter[c] # "none" /\ outcome[c] = "none"
  /\ pc[c] = "waiting" => waiter[c] = "listening" /\ outcome[c] = "none"
  /\ waiter[c] = "ok" => c \in results
  /\ outcome[c] = "ok" => c \in results /\ pc[c] = "done"

InitOK == /\ pc[InitReq] \in {"waiting", "done"}
          /\ isInitialised => outcome[InitReq] = "ok"

(* The inductive invariant. *)
IInv ==
  /\ TypeOK /\ PacketsOK /\ InitOK /\ ClosedLeavesNoWaiter
  /\ \A c \in Ids : CallOK(c)

LEMMA InitIInv == Init => IInv
<1>. SUFFICES ASSUME Init PROVE IInv
  OBVIOUS
<1>1. TypeOK
  <2>1. /\ pc \in [Ids -> Pc]
        /\ waiter \in [Ids -> {"none", "listening", "ok"} \cup Reasons]
        /\ outcome \in [Ids -> {"none", "ok", "unsent"} \cup Reasons]
    BY DEF Init, Pc
  <2>2. wire \in Seq(Packet) /\ decoding \subseteq Packet
    BY DEF Init
  <2>3. InitReq \in Ids
    BY DEF Ids
  <2>. QED
    BY <2>1, <2>2, <2>3 DEF Init, TypeOK
<1>2. PacketsOK
  BY DEF Init, PacketsOK
<1>3. InitOK /\ ClosedLeavesNoWaiter
  BY DEF Init, InitOK, ClosedLeavesNoWaiter, Ids
<1>4. \A c \in Ids : CallOK(c)
  BY DEF Init, CallOK
<1>. QED
  BY <1>1, <1>2, <1>3, <1>4 DEF IInv
----------------------------------------------------------------------------
(* Settling the waiters of S. *)
LEMMA SettleStep ==
  ASSUME IInv, NEW S \in SUBSET Ids, NEW r \in {"ok"} \cup Reasons,
         SettleWaiters(S, r), r = "ok" => S \subseteq results
  PROVE  /\ pc' \in [Ids -> Pc]
         /\ waiter' \in [Ids -> {"none", "listening", "ok"} \cup Reasons]
         /\ outcome' \in [Ids -> {"none", "ok", "unsent"} \cup Reasons]
         /\ isInitialised' \in BOOLEAN
         /\ InitOK'
         /\ \A c \in Ids : waiter'[c] = "listening" => waiter[c] = "listening" /\ c \notin S
         /\ results \subseteq results' => \A c \in Ids : CallOK(c)'
<1>. DEFINE live == {c \in S : waiter[c] = "listening"}
            awaited == {c \in live : pc[c] = "waiting"}
<1>1. /\ waiter' = [c \in Ids |-> IF c \in live THEN r ELSE waiter[c]]
      /\ outcome' = [c \in Ids |-> IF c \in awaited THEN r ELSE outcome[c]]
      /\ pc' = [c \in Ids |-> IF c \in awaited THEN "done" ELSE pc[c]]
      /\ isInitialised' = (isInitialised \/ (r = "ok" /\ InitReq \in awaited))
  BY DEF SettleWaiters
<1>2. TypeOK /\ InitOK /\ \A c \in Ids : CallOK(c)
  BY DEF IInv
<1>3. /\ pc' \in [Ids -> Pc]
      /\ waiter' \in [Ids -> {"none", "listening", "ok"} \cup Reasons]
      /\ outcome' \in [Ids -> {"none", "ok", "unsent"} \cup Reasons]
      /\ isInitialised' \in BOOLEAN
  BY <1>1, <1>2 DEF TypeOK, Pc
<1>4. InitOK'
  <2>1. InitReq \in Ids
    BY DEF Ids
  <2>2. CASE InitReq \in awaited
    BY <1>1, <1>2, <2>1, <2>2 DEF InitOK, CallOK
  <2>3. CASE InitReq \notin awaited
    BY <1>1, <1>2, <2>1, <2>3 DEF InitOK
  <2>. QED
    BY <2>2, <2>3
<1>5. \A c \in Ids : waiter'[c] = "listening" => waiter[c] = "listening" /\ c \notin S
  BY <1>1 DEF Reasons
<1>6. ASSUME NEW c \in Ids, results \subseteq results' PROVE CallOK(c)'
  <2>1. CASE c \in awaited
    <3>1. waiter'[c] = r /\ outcome'[c] = r /\ pc'[c] = "done"
      BY <1>1, <2>1
    <3>. QED
      BY <1>6, <2>1, <3>1 DEF CallOK
  <2>2. CASE c \in live \ awaited
    <3>1. waiter'[c] = r /\ outcome'[c] = outcome[c] /\ pc'[c] = pc[c]
      BY <1>1, <2>2
    <3>2. pc[c] # "idle" /\ pc[c] # "waiting"
      BY <1>2, <2>2 DEF CallOK
    <3>. QED
      BY <1>2, <1>6, <2>2, <3>1, <3>2 DEF CallOK, Reasons
  <2>3. CASE c \notin live
    <3>1. waiter'[c] = waiter[c] /\ outcome'[c] = outcome[c] /\ pc'[c] = pc[c]
      BY <1>1, <2>3
    <3>. QED
      BY <1>2, <1>6, <3>1 DEF CallOK
  <2>. QED
    BY <2>1, <2>2, <2>3
<1>. QED
  BY <1>3, <1>4, <1>5, <1>6

(* The steps of the connection that reject every waiter. *)
LEMMA TerminatedStep ==
  ASSUME IInv, NEW r \in Reasons, SettleWaiters(Ids, r), UNCHANGED serverVars,
         ws' \in {"connecting", "open", "closing", "closed"}, terminating' \in BOOLEAN,
         decoding' \subseteq decoding
  PROVE  IInv'
<1>1. /\ pc' \in [Ids -> Pc]
      /\ waiter' \in [Ids -> {"none", "listening", "ok"} \cup Reasons]
      /\ outcome' \in [Ids -> {"none", "ok", "unsent"} \cup Reasons]
      /\ isInitialised' \in BOOLEAN
      /\ InitOK'
      /\ \A c \in Ids : waiter'[c] = "listening" => waiter[c] = "listening" /\ c \notin Ids
      /\ results \subseteq results' => \A c \in Ids : CallOK(c)'
  BY SettleStep DEF Reasons
<1>2. TypeOK'
  BY <1>1 DEF IInv, TypeOK, serverVars
<1>3. PacketsOK'
  BY DEF IInv, PacketsOK, PacketOK, serverVars
<1>4. ClosedLeavesNoWaiter'
  BY <1>1 DEF ClosedLeavesNoWaiter
<1>5. \A c \in Ids : CallOK(c)'
  BY <1>1 DEF serverVars
<1>. QED
  BY <1>1, <1>2, <1>3, <1>4, <1>5 DEF IInv

(* A step that settles one waiter. *)
LEMMA OneSettledStep ==
  ASSUME IInv, NEW c \in Ids, NEW r \in {"ok"} \cup Reasons, SettleWaiters({c}, r),
         r = "ok" => c \in results, UNCHANGED <<ws, terminating, serverVars>>,
         decoding' \subseteq decoding
  PROVE  IInv'
<1>1. /\ pc' \in [Ids -> Pc]
      /\ waiter' \in [Ids -> {"none", "listening", "ok"} \cup Reasons]
      /\ outcome' \in [Ids -> {"none", "ok", "unsent"} \cup Reasons]
      /\ isInitialised' \in BOOLEAN
      /\ InitOK'
      /\ \A d \in Ids : waiter'[d] = "listening" => waiter[d] = "listening" /\ d \notin {c}
      /\ results \subseteq results' => \A d \in Ids : CallOK(d)'
  BY SettleStep
<1>2. TypeOK'
  BY <1>1 DEF IInv, TypeOK, serverVars
<1>3. PacketsOK'
  BY DEF IInv, PacketsOK, PacketOK, serverVars
<1>4. ClosedLeavesNoWaiter'
  BY <1>1 DEF IInv, ClosedLeavesNoWaiter
<1>5. \A d \in Ids : CallOK(d)'
  BY <1>1 DEF serverVars
<1>. QED
  BY <1>1, <1>2, <1>3, <1>4, <1>5 DEF IInv

(* Steps that change no call and make no packet. *)
LEMMA QuietStep ==
  ASSUME IInv, UNCHANGED callVars, ws' \in {"connecting", "open", "closing"},
         terminating' \in BOOLEAN, results' = results,
         requests' \subseteq Ids, accepted' \subseteq Ids,
         wire' \in Seq(Packet), decoding' \subseteq Packet, PacketsOK'
  PROVE  IInv'
<1>1. TypeOK'
  BY DEF IInv, TypeOK, callVars
<1>2. InitOK' /\ ClosedLeavesNoWaiter' /\ \A c \in Ids : CallOK(c)'
  BY DEF IInv, InitOK, ClosedLeavesNoWaiter, CallOK, callVars
<1>. QED
  BY <1>1, <1>2 DEF IInv

LEMMA StartStep ==
  ASSUME IInv, NEW c \in Calls, StartRpc(c)
  PROVE  IInv'
<1>1. c \in Ids /\ c # InitReq /\ TypeOK /\ CallOK(c)
  BY RpcAssumption DEF IInv, RpcAssumption, Ids
<1>2. TypeOK'
  BY <1>1 DEF StartRpc, TypeOK, Pc, Reasons
<1>3. PacketsOK'
  BY DEF StartRpc, IInv, PacketsOK, PacketOK
<1>4. InitOK'
  <2>1. InitReq \in Ids
    BY DEF Ids
  <2>2. pc'[InitReq] = pc[InitReq] /\ outcome'[InitReq] = outcome[InitReq]
          /\ isInitialised' = isInitialised
    BY <1>1, <2>1 DEF StartRpc, TypeOK
  <2>. QED
    BY <2>2 DEF IInv, InitOK
<1>5. ClosedLeavesNoWaiter'
  BY <1>1 DEF StartRpc, IInv, ClosedLeavesNoWaiter, TypeOK, isClosed
<1>6. ASSUME NEW d \in Ids PROVE CallOK(d)'
  <2>1. CASE d # c
    <3>1. pc'[d] = pc[d] /\ waiter'[d] = waiter[d] /\ outcome'[d] = outcome[d]
            /\ results' = results
      BY <1>1, <2>1 DEF StartRpc, TypeOK
    <3>. QED
      BY <3>1 DEF IInv, CallOK
  <2>2. CASE d = c
    BY <1>1, <2>2 DEF StartRpc, TypeOK, CallOK
  <2>. QED
    BY <2>1, <2>2
<1>. QED
  BY <1>2, <1>3, <1>4, <1>5, <1>6 DEF IInv

LEMMA SendStep ==
  ASSUME IInv, NEW c \in Calls, Sent(c) \/ SendFailed(c)
  PROVE  IInv'
<1>. USE DEF serverVars
<1>1. c \in Ids /\ c # InitReq /\ TypeOK /\ CallOK(c)
  BY RpcAssumption DEF IInv, RpcAssumption, Ids
<1>2. TypeOK'
  BY <1>1 DEF Sent, SendFailed, TypeOK, Pc, Reasons, CallOK
<1>3. PacketsOK'
  BY DEF Sent, SendFailed, IInv, PacketsOK, PacketOK
<1>4. InitOK' /\ ClosedLeavesNoWaiter'
  <2>1. InitReq \in Ids
    BY DEF Ids
  <2>2. pc'[InitReq] = pc[InitReq] /\ outcome'[InitReq] = outcome[InitReq]
          /\ isInitialised' = isInitialised
    BY <1>1, <2>1 DEF Sent, SendFailed, TypeOK
  <2>3. ClosedLeavesNoWaiter'
    BY DEF Sent, SendFailed, IInv, ClosedLeavesNoWaiter
  <2>. QED
    BY <2>2, <2>3 DEF IInv, InitOK
<1>5. ASSUME NEW d \in Ids PROVE CallOK(d)'
  <2>1. CASE d # c
    <3>1. pc'[d] = pc[d] /\ waiter'[d] = waiter[d] /\ outcome'[d] = outcome[d]
            /\ results' = results
      BY <1>1, <2>1 DEF Sent, SendFailed, TypeOK
    <3>. QED
      BY <3>1 DEF IInv, CallOK
  <2>2. CASE d = c
    BY <1>1, <2>2 DEF Sent, SendFailed, TypeOK, CallOK
  <2>. QED
    BY <2>1, <2>2
<1>. QED
  BY <1>2, <1>3, <1>4, <1>5 DEF IInv

LEMMA RespondStep ==
  ASSUME IInv, NEW c \in Ids, ServerRespond(c)
  PROVE  IInv'
<1>1. PICK ok \in BOOLEAN :
       /\ wire' = Append(wire, [type |-> "response", id |-> c, ok |-> ok])
       /\ results' = IF ok THEN results \cup {c} ELSE results
  BY DEF ServerRespond
<1>2. /\ TypeOK /\ accepted' \subseteq accepted
      /\ UNCHANGED <<ws, callVars, terminating, requests, decoding>>
  BY DEF IInv, ServerRespond
<1>. DEFINE p == [type |-> "response", id |-> c, ok |-> ok]
<1>3. p \in Packet /\ p.id = c /\ p.ok = ok
  BY DEF Packet
<1>. HIDE DEF p
<1>4. wire' = Append(wire, p) /\ wire \in Seq(Packet)
  BY <1>1, <1>2 DEF p, TypeOK
<1>5. wire' \in Seq(Packet) /\ Len(wire') = Len(wire) + 1
        /\ \A i \in 1..Len(wire') : (wire'[i] = wire[i] /\ i \in 1..Len(wire)) \/ wire'[i] = p
  BY <1>3, <1>4
<1>6. results \subseteq results' /\ results' \subseteq Ids
  BY <1>1, <1>2 DEF TypeOK
<1>7. TypeOK'
  BY <1>2, <1>5, <1>6 DEF TypeOK, callVars
<1>8. PacketsOK'
  <2>1. PacketOK(p)'
    BY <1>1, <1>3 DEF PacketOK
  <2>. QED
    BY <1>2, <1>5, <1>6, <2>1 DEF IInv, PacketsOK, PacketOK
<1>9. InitOK' /\ ClosedLeavesNoWaiter' /\ \A d \in Ids : CallOK(d)'
  BY <1>2, <1>6 DEF IInv, InitOK, ClosedLeavesNoWaiter, CallOK, callVars
<1>. QED
  BY <1>7, <1>8, <1>9 DEF IInv

LEMMA ReceiveStep ==
  ASSUME IInv, ReceivePacket
  PROVE  IInv'
<1>1. wire \in Seq(Packet) /\ wire # <<>> /\ wire' = Tail(wire)
        /\ decoding' = decoding \cup {Head(wire)} /\ decoding \subseteq Packet
  BY DEF IInv, TypeOK, ReceivePacket
<1>2. /\ wire' \in Seq(Packet) /\ Len(wire') = Len(wire) - 1
      /\ \A i \in 1..Len(wire') : wire'[i] = wire[i + 1] /\ i + 1 \in 1..Len(wire)
      /\ Head(wire) = wire[1] /\ 1 \in 1..Len(wire) /\ Head(wire) \in Packet
  BY <1>1
<1>3. UNCHANGED <<ws, callVars, terminating, requests, accepted, results>>
  BY DEF ReceivePacket
<1>4. PacketsOK'
  BY <1>1, <1>2, <1>3 DEF IInv, PacketsOK, PacketOK
<1>5. ws' \in {"connecting", "open", "closing"}
  BY <1>3 DEF ReceivePacket
<1>. QED
  BY <1>1, <1>2, <1>3, <1>4, <1>5, QuietStep DEF IInv, TypeOK

LEMMA AlertStep ==
  ASSUME IInv, ServerAlert
  PROVE  TypeOK' /\ PacketsOK'
<1>. DEFINE p == [type |-> "alert"]
<1>1. p \in Packet /\ p.type # "response"
  BY DEF Packet
<1>2. wire' = Append(wire, p)
  BY DEF ServerAlert
<1>3. wire \in Seq(Packet) /\ UNCHANGED <<ws, callVars, terminating, requests, accepted,
                                          results, decoding>>
  BY DEF ServerAlert, IInv, TypeOK
<1>. HIDE DEF p
<1>4. wire' \in Seq(Packet) /\ Len(wire') = Len(wire) + 1
        /\ \A i \in 1..Len(wire') : (wire'[i] = wire[i] /\ i \in 1..Len(wire)) \/ wire'[i] = p
  BY <1>1, <1>2, <1>3
<1>5. TypeOK'
  BY <1>3, <1>4 DEF IInv, TypeOK, callVars
<1>6. PacketsOK'
  BY <1>1, <1>3, <1>4 DEF IInv, PacketsOK, PacketOK
<1>. QED
  BY <1>5, <1>6

LEMMA NextIInv == IInv /\ [Next]_vars => IInv'
<1>. SUFFICES ASSUME IInv, [Next]_vars PROVE IInv'
  OBVIOUS
<1>1. TypeOK
  BY DEF IInv
<1>2. ASSUME NEW c \in Calls, StartRpc(c) \/ Sent(c) \/ SendFailed(c) PROVE IInv'
  BY <1>2, StartStep, SendStep
<1>3. ASSUME NEW c \in Ids, Timeout(c) PROVE IInv'
  BY <1>3, OneSettledStep DEF Timeout, Reasons
<1>4. ASSUME NEW c \in Ids, ServerReceive(c) PROVE IInv'
  <2>1. TypeOK'
    BY <1>1, <1>4 DEF ServerReceive, TypeOK, callVars
  <2>2. PacketsOK' /\ InitOK' /\ ClosedLeavesNoWaiter' /\ \A d \in Ids : CallOK(d)'
    BY <1>4 DEF ServerReceive, IInv, PacketsOK, PacketOK, InitOK, ClosedLeavesNoWaiter,
                CallOK, callVars
  <2>. QED
    BY <2>1, <2>2 DEF IInv
<1>5. ASSUME NEW c \in Ids, ServerRespond(c) PROVE IInv'
  BY <1>5, RespondStep
<1>6. ASSUME NEW p \in decoding, HandlePacket(p) PROVE IInv'
  <2>1. /\ decoding' \subseteq decoding /\ UNCHANGED <<ws, terminating, serverVars>>
        /\ p \in Packet /\ PacketOK(p)
    BY <1>1, <1>6 DEF HandlePacket, IInv, TypeOK, PacketsOK
  <2>2. CASE p.type = "response" /\ SettleWaiters({p.id}, IF p.ok THEN "ok" ELSE "error")
    <3>1. p.id \in Ids /\ p.ok \in BOOLEAN
      BY <2>1, <2>2 DEF Packet
    <3>2. CASE p.ok
      BY <2>1, <2>2, <3>1, <3>2, OneSettledStep DEF PacketOK
    <3>3. CASE ~p.ok
      BY <2>1, <2>2, <3>1, <3>3, OneSettledStep DEF Reasons
    <3>. QED
      BY <3>2, <3>3
  <2>3. CASE p.type = "alert" /\ SettleWaiters(Ids, "alert")
    BY <1>1, <2>1, <2>3, TerminatedStep DEF Reasons, TypeOK
  <2>. QED
    BY <1>6, <2>2, <2>3 DEF HandlePacket
<1>7. CASE ReceivePacket
  BY <1>7, ReceiveStep
<1>8. CASE WsOpen \/ WsClosing \/ TerminationSent
  <2>1. TypeOK'
    BY <1>1, <1>8 DEF WsOpen, WsClosing, TerminationSent, TypeOK, callVars, serverVars
  <2>2. PacketsOK' /\ InitOK' /\ ClosedLeavesNoWaiter' /\ \A d \in Ids : CallOK(d)'
    BY <1>8 DEF WsOpen, WsClosing, TerminationSent, IInv, PacketsOK, PacketOK, InitOK,
                ClosedLeavesNoWaiter, CallOK, callVars, serverVars
  <2>. QED
    BY <2>1, <2>2 DEF IInv
<1>9. CASE WsError \/ WsClosed \/ TerminateConnection
  BY <1>1, <1>9, TerminatedStep DEF WsError, WsClosed, TerminateConnection, Reasons, TypeOK
<1>10. CASE ServerAlert
  <2>1. InitOK' /\ ClosedLeavesNoWaiter' /\ \A d \in Ids : CallOK(d)'
    BY <1>10 DEF ServerAlert, IInv, InitOK, ClosedLeavesNoWaiter, CallOK, callVars
  <2>. QED
    BY <1>10, <2>1, AlertStep DEF IInv
<1>11. CASE UNCHANGED vars
  BY <1>11 DEF vars, IInv, TypeOK, PacketsOK, PacketOK, InitOK, ClosedLeavesNoWaiter, CallOK
<1>. QED
  BY <1>2, <1>3, <1>4, <1>5, <1>6, <1>7, <1>8, <1>9, <1>10, <1>11 DEF Next
----------------------------------------------------------------------------
(* IInv holds in every reachable state of the client. *)
THEOREM RpcInvariant == Spec => []IInv
BY InitIInv, NextIInv, PTL DEF Spec

(* The variables of the client keep their types. *)
THEOREM RpcTypeCorrect == Spec => []TypeOK
<1>1. IInv => TypeOK
  BY DEF IInv
<1>. QED
  BY <1>1, RpcInvariant, PTL

(* A closed connection has no waiter left (client-socket.ts:83,107).       *)
THEOREM NoWaiterAfterClose == Spec => []ClosedLeavesNoWaiter
<1>1. IInv => ClosedLeavesNoWaiter
  BY DEF IInv
<1>. QED
  BY <1>1, RpcInvariant, PTL

(* A client is initialised only by the attestor's answer                   *)
(* (client-socket.ts:42-48).                                               *)
THEOREM InitialisedOnlyByServer == Spec => []InitialisedByServer
<1>1. IInv => InitialisedByServer
  BY DEF IInv, InitOK, CallOK, InitialisedByServer, Ids
<1>. QED
  BY <1>1, RpcInvariant, PTL
----------------------------------------------------------------------------
(* The refinement: a step that settles waiters settles pending calls. *)
LEMMA SettleRefines ==
  ASSUME IInv, IInv', NEW S \in SUBSET Ids, NEW r, SettleWaiters(S, r),
         UNCHANGED results
  PROVE  Abstract!Settle
<1>. DEFINE live == {c \in S : waiter[c] = "listening"}
            awaited == {c \in live : pc[c] = "waiting"}
<1>1. /\ outcome' = [c \in Ids |-> IF c \in awaited THEN r ELSE outcome[c]]
      /\ pc' = [c \in Ids |-> IF c \in awaited THEN "done" ELSE pc[c]]
  BY DEF SettleWaiters
<1>2. ASSUME NEW c \in Ids, c \in awaited
      PROVE  /\ status[c] = "pending"
             /\ status'[c] = "rejected" \/ (status'[c] = "resolved" /\ c \in results)
  <2>1. pc[c] = "waiting" /\ pc'[c] = "done" /\ outcome'[c] = r
    BY <1>1, <1>2
  <2>2. r = "ok" => c \in results
    BY <2>1 DEF IInv, CallOK
  <2>. QED
    BY <2>1, <2>2 DEF status
<1>3. ASSUME NEW c \in Ids, c \notin awaited PROVE status'[c] = status[c]
  BY <1>1, <1>3 DEF status
<1>4. status' \in [Ids -> {"idle", "pending", "resolved", "rejected"}]
  BY DEF IInv, TypeOK, status, Pc
<1>. QED
  BY <1>2, <1>3, <1>4 DEF Abstract!Settle

LEMMA NextRefines ==
  ASSUME IInv, IInv', [Next]_vars
  PROVE  [Abstract!CallNext]_(Abstract!callVars)
<1>1. TypeOK /\ TypeOK'
  BY DEF IInv
<1>2. CASE UNCHANGED <<pc, outcome, results>>
  BY <1>2 DEF Abstract!callVars, status
<1>3. ASSUME NEW c \in Calls, StartRpc(c) PROVE Abstract!Begin(c)
  <2>1. c \in Ids /\ CallOK(c) /\ pc[c] = "idle" /\ outcome[c] = "none"
    BY <1>3 DEF IInv, Ids, CallOK, StartRpc
  <2>2. UNCHANGED results /\ \A d \in Ids : d # c => pc'[d] = pc[d] /\ outcome'[d] = outcome[d]
    BY <1>1, <1>3, <2>1 DEF StartRpc, TypeOK
  <2>3. \/ pc'[c] = "sending"
        \/ pc'[c] = "done" /\ outcome'[c] \in {"network", "unsent"}
    BY <1>1, <1>3, <2>1 DEF StartRpc, TypeOK
  <2>4. status[c] = "idle" /\ status'[c] \in {"pending", "rejected"}
    BY <2>1, <2>3 DEF status
  <2>5. \A d \in Ids : d # c => status'[d] = status[d]
    BY <2>2 DEF status
  <2>6. /\ status = [d \in Ids |-> status[d]]
        /\ status' = [d \in Ids |-> status'[d]]
    BY DEF status
  <2>7. status' = [status EXCEPT ![c] = status'[c]]
    BY <2>1, <2>5, <2>6
  <2>. QED
    BY <2>2, <2>4, <2>7 DEF Abstract!Begin
<1>4. ASSUME NEW c \in Calls, Sent(c) \/ SendFailed(c)
      PROVE  Abstract!Settle
  <2>1. c \in Ids /\ CallOK(c) /\ CallOK(c)' /\ pc[c] = "sending"
    BY <1>4 DEF IInv, Ids, Sent, SendFailed
  <2>2. UNCHANGED results /\ \A d \in Ids : d # c => pc'[d] = pc[d] /\ outcome'[d] = outcome[d]
    BY <1>1, <1>4, <2>1 DEF Sent, SendFailed, TypeOK, serverVars
  <2>3. pc'[c] = "waiting" \/ pc'[c] = "done"
    BY <1>1, <1>4, <2>1 DEF Sent, SendFailed, TypeOK
  <2>4. status[c] = "pending"
    BY <2>1 DEF status
  <2>5. \/ status'[c] \in {"pending", "rejected"}
        \/ status'[c] = "resolved" /\ c \in results
    BY <2>1, <2>2, <2>3 DEF status, CallOK
  <2>6. \A d \in Ids : d # c => status'[d] = status[d]
    BY <2>2 DEF status
  <2>7. status' \in [Ids -> {"idle", "pending", "resolved", "rejected"}]
    BY <1>1 DEF TypeOK, status, Pc
  <2>. QED
    BY <2>2, <2>4, <2>5, <2>6, <2>7 DEF Abstract!Settle
<1>5. ASSUME NEW c \in Ids, Timeout(c) PROVE Abstract!Settle
  BY <1>5, SettleRefines DEF Timeout, serverVars
<1>6. ASSUME NEW p \in decoding, HandlePacket(p) PROVE Abstract!Settle
  <2>1. p \in Packet
    BY <1>1 DEF TypeOK
  <2>2. p.type = "response" => p.id \in Ids
    BY <2>1 DEF Packet
  <2>. QED
    BY <1>6, <2>2, SettleRefines DEF HandlePacket, serverVars
<1>7. ASSUME WsError \/ WsClosed \/ TerminateConnection PROVE Abstract!Settle
  BY <1>7, SettleRefines DEF WsError, WsClosed, TerminateConnection, serverVars
<1>8. ASSUME NEW c \in Ids, ServerRespond(c)
      PROVE  Abstract!Answer(c) \/ UNCHANGED <<pc, outcome, results>>
  BY <1>8 DEF ServerRespond, Abstract!Answer, status, callVars
<1>9. CASE \/ \E c \in Ids : ServerReceive(c)
           \/ ReceivePacket \/ WsOpen \/ WsClosing \/ TerminationSent \/ ServerAlert
           \/ UNCHANGED vars
  BY <1>2, <1>9 DEF ServerReceive, ReceivePacket, WsOpen, WsClosing, TerminationSent,
                    ServerAlert, vars, callVars, serverVars
<1>. QED
  BY <1>2, <1>3, <1>4, <1>5, <1>6, <1>7, <1>8, <1>9 DEF Next, Abstract!CallNext, Ids

(* rpc() implements the one-shot call of RpcCall: no call settles twice,   *)
(* and none resolves without a result of the attestor                      *)
(* (client-socket.ts:59-145).                                              *)
THEOREM RpcRefinesCall == Spec => Abstract!CallSpec
<1>1. Init => Abstract!CallInit
  <2>. SUFFICES ASSUME Init PROVE Abstract!CallInit
    OBVIOUS
  <2>1. status = [c \in Ids |-> IF c \in {InitReq} THEN "pending" ELSE "idle"]
    BY DEF Init, status
  <2>2. {InitReq} \in SUBSET Ids
    BY DEF Ids
  <2>. QED
    BY <2>1, <2>2 DEF Init, Abstract!CallInit
<1>2. IInv /\ IInv' /\ [Next]_vars => [Abstract!CallNext]_(Abstract!callVars)
  BY NextRefines
<1>. QED
  BY <1>1, <1>2, RpcInvariant, PTL DEF Spec, Abstract!CallSpec

-----------------------------------------------------------------------------
(* The window RPC *)


(* Nothing was posted, and no proof left behind, before the handler got    *)
(* that far.                                                               *)
HandlerOK(r) ==
  /\ handler[r].pc # "answered" => handler[r].replies = <<>>
  /\ handler[r].pc = "idle" => handler[r].leftover = {}

(* The inductive invariant. *)
WindowInv == /\ WindowTypeOK /\ OneReply /\ OpenCallsAreLeftovers
             /\ \A r \in Requests : HandlerOK(r)
             /\ \A c \in AppCalls : Listening(c) => call[c].owner \in Requests
----------------------------------------------------------------------------
LEMMA InitWindowInv == WindowInit => WindowInv
<1>. SUFFICES ASSUME WindowInit PROVE WindowInv
  OBVIOUS
<1>1. handler \in [Requests -> Handler]
  BY DEF WindowInit, Handler, Targets
<1>2. call \in [AppCalls -> Call]
  BY DEF WindowInit, Call
<1>. QED
  BY <1>1, <1>2 DEF WindowInit, WindowInv, WindowTypeOK, OneReply, OpenCallsAreLeftovers, HandlerOK, Listening

(* A handler that has posted nothing, or one message as its last act. *)
Posted(h) == h.replies = <<>> \/ (h.pc = "answered" /\ Len(h.replies) = 1)

(* What a handler that has posted nothing may become: replaced by h, it    *)
(* keeps the invariant if it has posted nothing either or is answered with *)
(* one message, and if it leaves no open call of its own behind.           *)
LEMMA HandlerStep ==
  ASSUME WindowInv, NEW r \in Requests, NEW h \in Handler,
         handler' = [handler EXCEPT ![r] = h], UNCHANGED call,
         Posted(h), h.pc # "idle",
         handler[r].leftover \subseteq h.leftover,
         \A c \in AppCalls : /\ Listening(c) /\ call[c].owner = r
                             /\ handler[r].pc = "running"
                             /\ call[c].attempt = handler[r].attempt
                             => \/ h.pc = "running" /\ h.attempt = call[c].attempt
                                \/ call[c].attempt \in h.leftover
  PROVE  WindowInv'
<1>1. WindowTypeOK'
  BY DEF WindowInv, WindowTypeOK
<1>2. \A q \in Requests : handler'[q] = IF q = r THEN h ELSE handler[q]
  BY DEF WindowInv, WindowTypeOK
<1>3. \A q \in Requests : HandlerOK(q)'
  BY <1>2 DEF WindowInv, HandlerOK, Posted
<1>4. OneReply'
  <2>1. Len(h.replies) <= 1 /\ (h.replies # <<>> => h.pc = "answered")
    <3>1. CASE h.replies = <<>>
      BY <3>1
    <3>2. CASE h.pc = "answered" /\ Len(h.replies) = 1
      BY <3>2
    <3>. QED
      BY <3>1, <3>2 DEF Posted
  <2>. QED
    BY <1>2, <2>1 DEF WindowInv, OneReply
<1>5. OpenCallsAreLeftovers' /\ \A c \in AppCalls : Listening(c)' => call'[c].owner \in Requests
  <2>. SUFFICES ASSUME NEW c \in AppCalls, Listening(c)
                PROVE  /\ call[c].owner \in Requests
                       /\ \/ /\ handler'[call[c].owner].pc = "running"
                             /\ handler'[call[c].owner].attempt = call[c].attempt
                          \/ call[c].attempt \in handler'[call[c].owner].leftover
    BY DEF OpenCallsAreLeftovers, Listening
  <2>1. call[c].owner \in Requests
    BY DEF WindowInv
  <2>2. \/ /\ handler[call[c].owner].pc = "running"
           /\ handler[call[c].owner].attempt = call[c].attempt
        \/ call[c].attempt \in handler[call[c].owner].leftover
    BY DEF WindowInv, OpenCallsAreLeftovers
  <2>. QED
    BY <1>2, <2>1, <2>2
<1>. QED
  BY <1>1, <1>3, <1>4, <1>5 DEF WindowInv

(* Posting the answer of a handler that has posted nothing. *)
LEMMA RespondType ==
  ASSUME NEW h \in Handler, NEW what \in {"done", "error"}, h.replies = <<>>
  PROVE  /\ respond(h, what) \in Handler
         /\ respond(h, what).pc \in {"answered", "rejected"}
         /\ respond(h, what).leftover = h.leftover
         /\ Posted(respond(h, what))
<1>. DEFINE replies == Append(h.replies, what)
<1>1. replies \in Seq({"done", "error"}) /\ Len(replies) = 1
  BY DEF Handler, Posted
<1>. HIDE DEF replies
<1>2. CASE h.to = "noSource"
  BY <1>2 DEF respond, Handler, Posted
<1>3. ASSUME NEW rs \in Seq({"done", "error"}), rs = <<>> \/ Len(rs) = 1,
             respond(h, what) = [h EXCEPT !.pc = "answered", !.waits = 0, !.replies = rs]
      PROVE  /\ respond(h, what) \in Handler
             /\ respond(h, what).pc \in {"answered", "rejected"}
             /\ respond(h, what).leftover = h.leftover
             /\ Posted(respond(h, what))
  <2>. DEFINE g == [h EXCEPT !.pc = "answered", !.waits = 0]
  <2>1. g \in Handler /\ g.pc = "answered" /\ g.leftover = h.leftover
    BY DEF Handler
  <2>2. respond(h, what) = [g EXCEPT !.replies = rs]
    BY <1>3 DEF Handler
  <2>. HIDE DEF g
  <2>3. [g EXCEPT !.replies = rs] \in Handler
    BY <2>1 DEF Handler
  <2>4. /\ [g EXCEPT !.replies = rs].pc = "answered"
        /\ [g EXCEPT !.replies = rs].leftover = h.leftover
        /\ [g EXCEPT !.replies = rs].replies = rs
    BY <2>1 DEF Handler
  <2>. QED
    BY <1>3, <2>2, <2>3, <2>4 DEF Posted
<1>4. CASE h.to = "there"
  <2>1. respond(h, what) = [h EXCEPT !.pc = "answered", !.waits = 0, !.replies = replies]
    BY <1>4 DEF respond, replies
  <2>. QED
    BY <1>1, <1>3, <2>1
<1>5. CASE h.to = "noChannel"
  <2>1. respond(h, what) = [h EXCEPT !.pc = "answered", !.waits = 0, !.replies = h.replies]
    BY <1>5 DEF respond
  <2>2. h.replies \in Seq({"done", "error"})
    BY DEF Handler
  <2>. QED
    BY <1>3, <2>1, <2>2
<1>. QED
  BY <1>2, <1>4, <1>5 DEF Handler, Targets

(* A request that arrives: no call can be its own. *)
LEMMA ArrivalStep ==
  ASSUME WindowInv, NEW r \in Requests,
         \/ Ignore(r)
         \/ \E to \in Targets :
              \/ Garbled(r, to)
              \/ \E what \in {"done", "error"} : AnswerAtOnce(r, to, what)
              \/ \E claim \in BOOLEAN : Start(r, to, claim)
  PROVE  WindowInv'
<1>1. handler[r] \in Handler /\ handler[r].pc = "idle" /\ handler[r].replies = <<>>
  BY DEF WindowInv, WindowTypeOK, HandlerOK, Ignore, Garbled, AnswerAtOnce, Start
<1>2. CASE Ignore(r)
  <2>. DEFINE h == [handler[r] EXCEPT !.pc = "ignored"]
  <2>1. h \in Handler /\ h.pc = "ignored" /\ h.leftover = handler[r].leftover
        /\ Posted(h)
    BY <1>1 DEF Handler, Posted
  <2>2. handler' = [handler EXCEPT ![r] = h] /\ UNCHANGED call
    BY <1>2 DEF Ignore
  <2>. HIDE DEF h
  <2>. QED
    BY <1>1, <2>1, <2>2, HandlerStep
<1>3. ASSUME NEW to \in Targets
      PROVE  /\ Arrives(r, to) \in Handler
             /\ Arrives(r, to).replies = <<>>
             /\ Arrives(r, to).leftover = handler[r].leftover
  BY <1>1 DEF Arrives, Handler
<1>4. ASSUME NEW to \in Targets, NEW what \in {"done", "error"},
             handler' = [handler EXCEPT ![r] = respond(Arrives(r, to), what)],
             UNCHANGED call
      PROVE  WindowInv'
  <2>. DEFINE h == respond(Arrives(r, to), what)
  <2>1. /\ h \in Handler /\ h.pc # "idle"
        /\ h.leftover = handler[r].leftover
        /\ Posted(h)
    BY <1>3, RespondType
  <2>2. handler' = [handler EXCEPT ![r] = h]
    BY <1>4
  <2>. HIDE DEF h
  <2>. QED
    BY <1>1, <1>4, <2>1, <2>2, HandlerStep
<1>5. ASSUME NEW to \in Targets, NEW claim \in BOOLEAN, Start(r, to, claim)
      PROVE  WindowInv'
  <2>. DEFINE h == [Arrives(r, to) EXCEPT !.pc = "running", !.claim = claim]
  <2>1. h \in Handler /\ h.pc = "running" /\ h.leftover = handler[r].leftover
        /\ Posted(h)
    <3>. DEFINE a == Arrives(r, to)
    <3>1. a \in Handler /\ a.replies = <<>> /\ a.leftover = handler[r].leftover
      BY <1>3
    <3>. HIDE DEF a
    <3>2. h = [a EXCEPT !.pc = "running", !.claim = claim]
      BY DEF a
    <3>3. [a EXCEPT !.pc = "running", !.claim = claim] \in Handler
      BY <3>1 DEF Handler
    <3>4. h.pc = "running" /\ h.leftover = a.leftover /\ h.replies = a.replies
      BY <3>1, <3>2 DEF Handler
    <3>. QED
      BY <3>1, <3>2, <3>3, <3>4 DEF Posted
  <2>2. handler' = [handler EXCEPT ![r] = h] /\ UNCHANGED call
    BY <1>5 DEF Start
  <2>. HIDE DEF h
  <2>. QED
    BY <1>1, <2>1, <2>2, HandlerStep
<1>. QED
  BY <1>2, <1>4, <1>5 DEF Garbled, AnswerAtOnce

(* An attempt that ends has no call of its own open, or leaves its number  *)
(* in leftover.                                                            *)
LEMMA AttemptStep ==
  ASSUME WindowInv, NEW r \in Requests, AttemptEnds(r)
  PROVE  WindowInv'
<1>1. handler[r] \in Handler /\ handler[r].pc = "running" /\ handler[r].replies = <<>>
  BY DEF WindowInv, WindowTypeOK, HandlerOK, AttemptEnds, AttemptSucceeds, AttemptFails
<1>2. CASE AttemptSucceeds(r)
  <2>. DEFINE h == respond(handler[r], "done")
  <2>1. /\ h \in Handler /\ h.pc # "idle"
        /\ h.leftover = handler[r].leftover
        /\ Posted(h)
    BY <1>1, RespondType
  <2>2. handler' = [handler EXCEPT ![r] = h] /\ UNCHANGED call
    BY <1>2 DEF AttemptSucceeds
  <2>3. \A c \in AppCalls : call[c].owner = r /\ call[c].attempt = handler[r].attempt
                           => ~Listening(c)
    BY <1>2 DEF AttemptSucceeds, Current, CallsOf, Listening
  <2>. HIDE DEF h
  <2>. QED
    BY <2>1, <2>2, <2>3, HandlerStep
<1>3. ASSUME NEW retry \in BOOLEAN, NEW proving \in BOOLEAN,
             AttemptFails(r, retry, proving)
      PROVE  WindowInv'
  <2>. DEFINE h == IF proving
                   THEN [handler[r] EXCEPT !.leftover = @ \cup {handler[r].attempt}]
                   ELSE handler[r]
              n == IF h.claim /\ retry /\ h.attempt < maxRetries
                   THEN [h EXCEPT !.attempt = @ + 1, !.waits = 0] ELSE respond(h, "error")
  <2>1. /\ h \in Handler /\ h.replies = <<>> /\ h.pc = "running"
        /\ h.attempt = handler[r].attempt
        /\ handler[r].leftover \subseteq h.leftover
        /\ proving => handler[r].attempt \in h.leftover
    BY <1>1 DEF Handler
  <2>2. handler' = [handler EXCEPT ![r] = n] /\ UNCHANGED call
    BY <1>3 DEF AttemptFails
  <2>3. \A c \in AppCalls : /\ Listening(c) /\ call[c].owner = r
                            /\ call[c].attempt = handler[r].attempt
                            => proving
    BY <1>3 DEF AttemptFails, Current, CallsOf
  <2>. HIDE DEF h
  <2>4. /\ n \in Handler /\ n.pc # "idle" /\ n.leftover = h.leftover
        /\ Posted(n)
    <3>1. CASE h.claim /\ retry /\ h.attempt < maxRetries
      <4>. DEFINE g == [h EXCEPT !.attempt = h.attempt + 1]
      <4>1. n = [g EXCEPT !.waits = 0]
        BY <2>1, <3>1 DEF Handler
      <4>2. h.attempt + 1 \in Nat
        BY <2>1 DEF Handler
      <4>3. g \in Handler /\ g.pc = h.pc /\ g.leftover = h.leftover
            /\ g.replies = h.replies
        BY <2>1, <4>2 DEF Handler
      <4>. HIDE DEF g
      <4>4. [g EXCEPT !.waits = 0] \in Handler
        BY <4>3 DEF Handler
      <4>5. n.pc = g.pc /\ n.leftover = g.leftover /\ n.replies = g.replies
        BY <4>1, <4>3 DEF Handler
      <4>. QED
        BY <2>1, <4>1, <4>3, <4>4, <4>5 DEF Posted
    <3>2. CASE ~(h.claim /\ retry /\ h.attempt < maxRetries)
      <4>1. n = respond(h, "error")
        BY <3>2
      <4>. QED
        BY <2>1, <4>1, RespondType
    <3>. QED
      BY <3>1, <3>2
  <2>. HIDE DEF n
  <2>5. \A c \in AppCalls : /\ Listening(c) /\ call[c].owner = r
                            /\ call[c].attempt = handler[r].attempt
                            => call[c].attempt \in n.leftover
    BY <2>1, <2>3, <2>4
  <2>6. handler[r].leftover \subseteq n.leftover
    BY <2>1, <2>4
  <2>. QED
    BY <2>2, <2>4, <2>5, <2>6, HandlerStep
<1>. QED
  BY <1>2, <1>3 DEF AttemptEnds

(* A wait on a host or a chain begins or ends: neither answers the request. *)
LEMMA WaitStep ==
  ASSUME WindowInv, NEW r \in Requests, AwaitOther(r) \/ OtherEnds(r)
  PROVE  WindowInv'
<1>1. handler[r] \in Handler /\ handler[r].pc = "running" /\ handler[r].replies = <<>>
  BY DEF WindowInv, WindowTypeOK, HandlerOK, AwaitOther, OtherEnds
<1>. PICK awaits \in BOOLEAN, waits \in Nat :
         /\ handler' = [handler EXCEPT ![r] =
                [handler[r] EXCEPT !.awaits = awaits, !.waits = waits]]
         /\ UNCHANGED call
  <2>1. CASE AwaitOther(r)
    <3>1. handler[r].waits + 1 \in Nat
      BY <1>1 DEF Handler
    <3>2. /\ handler' = [handler EXCEPT ![r] =
                [handler[r] EXCEPT !.awaits = TRUE, !.waits = handler[r].waits + 1]]
          /\ UNCHANGED call
      BY <2>1 DEF AwaitOther, WindowInv, WindowTypeOK
    <3>. QED
      BY <3>1, <3>2
  <2>2. CASE OtherEnds(r)
    <3>1. handler[r].waits \in Nat
      BY <1>1 DEF Handler
    <3>2. /\ handler' = [handler EXCEPT ![r] =
                [handler[r] EXCEPT !.awaits = FALSE, !.waits = handler[r].waits]]
          /\ UNCHANGED call
      BY <1>1, <2>2 DEF OtherEnds, WindowInv, WindowTypeOK, Handler
    <3>. QED
      BY <3>1, <3>2
  <2>. QED
    BY <2>1, <2>2
<1>. DEFINE h == [handler[r] EXCEPT !.awaits = awaits, !.waits = waits]
<1>2. /\ h \in Handler /\ h.pc = "running" /\ h.leftover = handler[r].leftover
      /\ h.attempt = handler[r].attempt /\ Posted(h)
  BY <1>1 DEF Handler, Posted
<1>3. handler' = [handler EXCEPT ![r] = h] /\ UNCHANGED call
  OBVIOUS
<1>. HIDE DEF h
<1>4. \A c \in AppCalls : /\ Listening(c) /\ call[c].owner = r
                          /\ handler[r].pc = "running"
                          /\ call[c].attempt = handler[r].attempt
                          => \/ h.pc = "running" /\ h.attempt = call[c].attempt
                             \/ call[c].attempt \in h.leftover
  BY <1>2
<1>5. handler[r].leftover \subseteq h.leftover /\ h.pc # "idle"
  BY <1>2
<1>. QED
  BY <1>2, <1>3, <1>4, <1>5, HandlerStep

(* A call is made for an attempt that is running or was left running. *)
LEMMA StartCallStep ==
  ASSUME WindowInv, NEW r \in Requests, NEW a \in 1 .. maxRetries, NEW c \in AppCalls,
         StartCall(r, a, c)
  PROVE  WindowInv'
<1>1. a \in Nat
  BY WindowAssumption DEF WindowAssumption
<1>. DEFINE state == IF handler[r].to = "noSource" THEN "unsent" ELSE "sent"
<1>2. /\ state \in {"sent", "unsent"}
      /\ call' = [call EXCEPT ![c] = [owner |-> r, attempt |-> a, state |-> state]]
  BY DEF StartCall
<1>. HIDE DEF state
<1>3. WindowTypeOK'
  BY <1>1, <1>2 DEF WindowInv, WindowTypeOK, Call, StartCall
<1>4. \A d \in AppCalls : call'[d] = IF d = c
         THEN [owner |-> r, attempt |-> a, state |-> state] ELSE call[d]
  BY <1>2 DEF WindowInv, WindowTypeOK
<1>5. OneReply' /\ \A q \in Requests : HandlerOK(q)'
  BY DEF WindowInv, OneReply, HandlerOK, StartCall
<1>6. \A d \in AppCalls : Listening(d)' => call'[d].owner \in Requests
  BY <1>4 DEF WindowInv, Listening
<1>7. OpenCallsAreLeftovers'
  BY <1>4 DEF WindowInv, OpenCallsAreLeftovers, Listening, StartCall, QueueRuns
<1>. QED
  BY <1>3, <1>5, <1>6, <1>7 DEF WindowInv

(* A call that is settled is open no more. *)
LEMMA CallSettleStep ==
  ASSUME WindowInv, NEW c \in AppCalls,
         (\E ok \in BOOLEAN : OnAnswer(c, ok)) \/ OnTimeout(c)
  PROVE  WindowInv'
<1>1. PICK s \in {"resolved", "failed", "timedOut"} :
         call' = [call EXCEPT ![c].state = s]
  BY DEF OnAnswer, OnTimeout
<1>2. UNCHANGED handler
  BY DEF OnAnswer, OnTimeout
<1>3. WindowTypeOK'
  BY <1>1, <1>2 DEF WindowInv, WindowTypeOK, Call
<1>4. \A d \in AppCalls : /\ call'[d].owner = call[d].owner
                          /\ call'[d].attempt = call[d].attempt
                          /\ Listening(d)' => Listening(d)
  BY <1>1 DEF WindowInv, WindowTypeOK, Call, Listening
<1>5. OneReply' /\ \A q \in Requests : HandlerOK(q)'
  BY <1>2 DEF WindowInv, OneReply, HandlerOK
<1>. QED
  BY <1>2, <1>3, <1>4, <1>5 DEF WindowInv, OpenCallsAreLeftovers

LEMMA NextWindowInv == WindowInv /\ [WindowNext]_windowVars => WindowInv'
<1>. SUFFICES ASSUME WindowInv, [WindowNext]_windowVars PROVE WindowInv'
  OBVIOUS
<1>1. CASE UNCHANGED windowVars
  BY <1>1 DEF windowVars, WindowInv, WindowTypeOK, OneReply, OpenCallsAreLeftovers, HandlerOK, Listening
<1>. QED
  BY <1>1, ArrivalStep, WaitStep, AttemptStep, StartCallStep, CallSettleStep DEF WindowNext
----------------------------------------------------------------------------
(* WindowInv holds in every reachable state of the window RPC. *)
THEOREM WindowInvariant == WindowSpec => []WindowInv
BY InitWindowInv, NextWindowInv, PTL DEF WindowSpec

(* Handlers and calls keep their types, for any number of attempts. *)
THEOREM WindowTypeCorrect == WindowSpec => []WindowTypeOK
<1>1. WindowInv => WindowTypeOK
  BY DEF WindowInv
<1>. QED
  BY <1>1, WindowInvariant, PTL

(* handleMessage posts at most one answer to a request, and none while it  *)
(* works on it, for any number of attempts (setup-window-rpc.ts:48-391).   *)
THEOREM AtMostOneReply == WindowSpec => []OneReply
<1>1. WindowInv => OneReply
  BY DEF WindowInv
<1>. QED
  BY <1>1, WindowInvariant, PTL

(* When a request is answered or attempted again, the calls to the app     *)
(* that are still open are those of an attempt that failed on a proof      *)
(* (utils/zk.ts, generateProofs).                                          *)
THEOREM OpenCallsAreLeft == WindowSpec => []OpenCallsAreLeftovers
<1>1. WindowInv => OpenCallsAreLeftovers
  BY DEF WindowInv
<1>. QED
  BY <1>1, WindowInvariant, PTL
=============================================================================
