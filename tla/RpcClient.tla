----------------------------- MODULE RpcClient -----------------------------
(***************************************************************************)
(* The RPC client: AttestorClient (client/utils/client-socket.ts) on top   *)
(* of AttestorSocket (utils/socket-base.ts).  Every call registers a       *)
(* waiter for its response, then sends its request; the waiter is settled  *)
(* by the response, by the end of the connection or by its timer, and the  *)
(* call once the send has ended too.  Packets are decoded asynchronously   *)
(* (a Blob has to be read), so that they may be handled out of order, and  *)
(* after the 'close' event.                                                *)
(***************************************************************************)
EXTENDS Naturals, Sequences

CONSTANTS
  Calls,         \* calls of rpc(), each with its own message id
  InitReq,       \* the init request sent with the URL by the constructor
  MaxWire        \* bound on the packets under way to the client

ASSUME RpcAssumption == InitReq \notin Calls /\ MaxWire \in Nat

Ids == Calls \cup {InitReq}

VARIABLES
  ws,            \* readyState of the WebSocket
  isInitialised, \* the init response has arrived
  pc,            \* where rpc() is for every call
  waiter,        \* the promise of waitForResponse
  outcome,       \* how the promise of rpc() settled
  terminating,   \* terminateConnection awaits the send of its alert
  requests,      \* requests under way to the attestor
  accepted,      \* requests the attestor is working on
  results,       \* history: calls the attestor answered with a result
  wire,          \* packets under way to the client, in order
  decoding       \* packets received and not handled yet

vars == <<ws, isInitialised, pc, waiter, outcome, terminating,
          requests, accepted, results, wire, decoding>>
serverVars == <<requests, accepted, results, wire>>
callVars == <<isInitialised, pc, waiter, outcome>>

(* One message per packet: a response to a request, or an alert.  (The     *)
(* messages and close events of tunnels do not settle calls.)              *)
Packet == [type : {"response"}, id : Ids, ok : BOOLEAN] \cup [type : {"alert"}]

Reasons == {"error", "alert", "network", "timeout"}
Pc == {"idle", "sending", "waiting", "done"}

TypeOK ==
  /\ ws \in {"connecting", "open", "closing", "closed"}
  /\ isInitialised \in BOOLEAN /\ terminating \in BOOLEAN
  /\ pc \in [Ids -> Pc]
  /\ waiter \in [Ids -> {"none", "listening", "ok"} \cup Reasons]
  /\ outcome \in [Ids -> {"none", "ok", "unsent"} \cup Reasons]
  /\ requests \subseteq Ids /\ accepted \subseteq Ids /\ results \subseteq Ids
  /\ wire \in Seq(Packet) /\ decoding \subseteq Packet
----------------------------------------------------------------------------
isClosed == ws \in {"closing", "closed"}

Init ==
  /\ ws = "connecting" /\ isInitialised = FALSE /\ terminating = FALSE
  /\ pc = [c \in Ids |-> IF c = InitReq THEN "waiting" ELSE "idle"]
  /\ waiter = [c \in Ids |-> IF c = InitReq THEN "listening" ELSE "none"]
  /\ outcome = [c \in Ids |-> "none"]
  /\ requests = {InitReq} /\ accepted = {} /\ results = {}
  /\ wire = <<>> /\ decoding = {}

(* Wrong on purpose, as every definition named _Bug: it shows that a       *)
(* property can fail.                                                      *)
SettleWaiters_Bug(S, result) ==
  LET live == {c \in S : waiter[c] = "listening"}
      awaited == {c \in live : pc[c] = "waiting"}
  IN /\ waiter' = [c \in Ids |-> IF c \in live THEN result ELSE waiter[c]]
     /\ outcome' = [c \in Ids |-> IF c \in awaited THEN result ELSE outcome[c]]
     /\ pc' = [c \in Ids |-> IF c \in awaited THEN "done" ELSE pc[c]]
     /\ isInitialised' = (isInitialised \/ InitReq \in awaited)

(* removeHandlers and resolve or reject, for the waiters in S that still   *)
(* listen.  A call that awaits its waiter settles with it.                 *)
SettleWaiters(S, result) ==
  LET live == {c \in S : waiter[c] = "listening"}
      awaited == {c \in live : pc[c] = "waiting"}
  IN /\ waiter' = [c \in Ids |-> IF c \in live THEN result ELSE waiter[c]]
     /\ outcome' = [c \in Ids |-> IF c \in awaited THEN result ELSE outcome[c]]
     /\ pc' = [c \in Ids |-> IF c \in awaited THEN "done" ELSE pc[c]]
     /\ isInitialised' = (isInitialised \/ (result = "ok" /\ InitReq \in awaited))

StartRpc_Bug(c) ==
  /\ pc[c] = "idle"
  /\ waiter' = [waiter EXCEPT ![c] = "listening"]
  /\ outcome' = [outcome EXCEPT ![c] = IF ws = "open" THEN @ ELSE "unsent"]
  /\ pc' = [pc EXCEPT ![c] = IF ws = "open" THEN "sending" ELSE "done"]
  /\ requests' = IF ws = "open" THEN requests \cup {c} ELSE requests
  /\ UNCHANGED <<ws, isInitialised, terminating, accepted, results, wire, decoding>>

(* rpc(), up to the await of the send.  waitForResponse throws on a closed *)
(* connection; sendMessage rejects on one that is not open yet, and leaves *)
(* the waiter behind.                                                      *)
StartRpc(c) ==
  /\ pc[c] = "idle"
  /\ \/ /\ isClosed
        /\ outcome' = [outcome EXCEPT ![c] = "network"]
        /\ pc' = [pc EXCEPT ![c] = "done"]
        /\ UNCHANGED <<waiter, requests>>
     \/ /\ ws = "connecting"
        /\ waiter' = [waiter EXCEPT ![c] = "listening"]
        /\ outcome' = [outcome EXCEPT ![c] = "unsent"]
        /\ pc' = [pc EXCEPT ![c] = "done"]
        /\ UNCHANGED requests
     \/ /\ ws = "open"
        /\ waiter' = [waiter EXCEPT ![c] = "listening"]
        /\ pc' = [pc EXCEPT ![c] = "sending"]
        /\ requests' = requests \cup {c}
        /\ UNCHANGED outcome
  /\ UNCHANGED <<ws, isInitialised, terminating, accepted, results,
                 wire, decoding>>

Sent_Bug(c) ==
  /\ pc[c] = "sending"
  /\ pc' = [pc EXCEPT ![c] = "done"]
  /\ outcome' = [outcome EXCEPT ![c] = waiter[c]]
  /\ UNCHANGED <<ws, isInitialised, waiter, terminating, serverVars, decoding>>

(* The send callback: rpc() goes on to await its waiter, which may have    *)
(* been settled already.                                                   *)
Sent(c) ==
  /\ pc[c] = "sending"
  /\ \/ /\ waiter[c] = "listening"
        /\ pc' = [pc EXCEPT ![c] = "waiting"]
        /\ UNCHANGED outcome
     \/ /\ waiter[c] # "listening"
        /\ pc' = [pc EXCEPT ![c] = "done"]
        /\ outcome' = [outcome EXCEPT ![c] = waiter[c]]
  /\ UNCHANGED <<ws, isInitialised, waiter, terminating, serverVars,
                 decoding>>

(* The send callback reports an error: the connection broke under it. *)
SendFailed(c) ==
  /\ pc[c] = "sending"
  /\ ws # "open"
  /\ pc' = [pc EXCEPT ![c] = "done"]
  /\ outcome' = [outcome EXCEPT ![c] = "unsent"]
  /\ UNCHANGED <<ws, isInitialised, waiter, terminating, serverVars,
                 decoding>>

(* The timer of waitForResponse. *)
Timeout(c) ==
  /\ waiter[c] = "listening"
  /\ SettleWaiters({c}, "timeout")
  /\ UNCHANGED <<ws, terminating, serverVars, decoding>>

(* 'message' event, up to the await of extractArrayBufferFromWsData. *)
ReceivePacket ==
  /\ ws \in {"open", "closing"}
  /\ wire # <<>>
  /\ decoding' = decoding \cup {Head(wire)}
  /\ wire' = Tail(wire)
  /\ UNCHANGED <<ws, callVars, terminating, requests, accepted, results>>

HandlePacket_Bug(p) ==
  /\ p \in decoding
  /\ decoding' = decoding \ {p}
  /\ SettleWaiters(IF p.type = "response" THEN {p.id} ELSE Ids, "ok")
  /\ UNCHANGED <<ws, terminating, serverVars>>

(* handleMessage of a decoded packet. *)
HandlePacket(p) ==
  /\ p \in decoding
  /\ decoding' = decoding \ {p}
  /\ \/ p.type = "response" /\ SettleWaiters({p.id}, IF p.ok THEN "ok" ELSE "error")
     \/ p.type = "alert" /\ SettleWaiters(Ids, "alert")
  /\ UNCHANGED <<ws, terminating, serverVars>>

WsOpen ==
  /\ ws = "connecting"
  /\ ws' = "open"
  /\ UNCHANGED <<callVars, terminating, serverVars, decoding>>

(* 'error' event: connection-terminated with ERROR_NETWORK_ERROR. *)
WsError ==
  /\ ws \in {"connecting", "open"}
  /\ ws' = "closing"
  /\ SettleWaiters(Ids, "network")
  /\ UNCHANGED <<terminating, serverVars, decoding>>

(* The attestor starts the closing handshake. *)
WsClosing ==
  /\ ws = "open"
  /\ ws' = "closing"
  /\ UNCHANGED <<callVars, terminating, serverVars, decoding>>

(* 'close' event: connection-terminated with ERROR_NO_ERROR, which the     *)
(* waiters turn into ERROR_NETWORK_ERROR.                                  *)
WsClosed ==
  /\ ws = "closing"
  /\ ws' = "closed"
  /\ SettleWaiters(Ids, "network")
  /\ UNCHANGED <<terminating, serverVars, decoding>>

(* terminateConnection(), which generate-receipt.ts calls when it is done: *)
(* the waiters are rejected first, the socket closes after the alert.      *)
TerminateConnection ==
  /\ ~isClosed
  /\ SettleWaiters(Ids, "network")
  /\ \/ ws = "open" /\ terminating' = TRUE /\ UNCHANGED ws
     \/ ws = "connecting" /\ ws' = "closing" /\ UNCHANGED terminating
  /\ UNCHANGED <<serverVars, decoding>>

TerminationSent ==
  /\ terminating
  /\ terminating' = FALSE
  /\ ws' = IF ws = "open" THEN "closing" ELSE ws
  /\ UNCHANGED <<callVars, serverVars, decoding>>
----------------------------------------------------------------------------
(* The attestor gets a request. *)
ServerReceive(c) ==
  /\ ws # "connecting"
  /\ c \in requests
  /\ requests' = requests \ {c}
  /\ accepted' = accepted \cup {c}
  /\ UNCHANGED <<ws, callVars, terminating, results, wire, decoding>>

(* respond(): one answer per request. *)
ServerRespond(c) ==
  /\ c \in accepted /\ Len(wire) < MaxWire
  /\ accepted' = accepted \ {c}
  /\ \E ok \in BOOLEAN :
       /\ wire' = Append(wire, [type |-> "response", id |-> c, ok |-> ok])
       /\ results' = IF ok THEN results \cup {c} ELSE results
  /\ UNCHANGED <<ws, callVars, terminating, requests, decoding>>

(* The attestor ends the session with an alert. *)
ServerAlert ==
  /\ ws # "connecting" /\ Len(wire) < MaxWire
  /\ wire' = Append(wire, [type |-> "alert"])
  /\ UNCHANGED <<ws, callVars, terminating, requests, accepted, results, decoding>>

Next ==
  \/ \E c \in Calls : StartRpc(c) \/ Sent(c) \/ SendFailed(c)
  \/ \E c \in Ids : Timeout(c) \/ ServerReceive(c) \/ ServerRespond(c)
  \/ \E p \in decoding : HandlePacket(p)
  \/ ReceivePacket \/ WsOpen \/ WsError \/ WsClosing \/ WsClosed
  \/ TerminateConnection \/ TerminationSent \/ ServerAlert

Spec == Init /\ [][Next]_vars

(* Timers fire, and a WebSocket reports the end of a send; the network and *)
(* the attestor owe nothing.                                               *)
Fairness ==
  /\ \A c \in Ids : WF_vars(Timeout(c))
  /\ \A c \in Calls : WF_vars(Sent(c) \/ SendFailed(c))
----------------------------------------------------------------------------
(* No waiter survives the 'close' event, and none is registered after it:  *)
(* the promise of an rpc() on a dead connection does not stay pending for  *)
(* the 90 s of its timer (client-socket.ts:83,107).                        *)
ClosedLeavesNoWaiter == ws = "closed" => \A c \in Ids : waiter[c] # "listening"

(* waitForInit and isInitialised agree: the client only counts itself      *)
(* initialised when the attestor has accepted its init request, and it     *)
(* stays so (client-socket.ts:42-48).                                      *)
InitialisedByServer ==
  isInitialised => InitReq \in results /\ outcome[InitReq] = "ok"

(* How a call looks to its caller. *)
status == [c \in Ids |->
             IF pc[c] = "idle" THEN "idle"
             ELSE IF pc[c] \in {"sending", "waiting"} THEN "pending"
             ELSE IF outcome[c] = "ok" THEN "resolved" ELSE "rejected"]

Abstract == INSTANCE RpcCall WITH Calls <- Ids

(* rpc() settles every call once, with a result only if the attestor gave  *)
(* one, and always in the end, whatever the network loses or delays.       *)
ImplementsRpcCall == Abstract!CallFairSpec
============================================================================
