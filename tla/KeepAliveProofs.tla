-------------------------- MODULE KeepAliveProofs --------------------------
(***************************************************************************)
(* Proofs about KeepAlive for every pair of intervals that leaves a margin *)
(* for the network: a peer that answers is never taken for dead, and a     *)
(* closed socket has no timer.                                             *)
(***************************************************************************)
EXTENDS KeepAlive, TLAPS

(* No timer runs before the listeners are there to start it, and the kill  *)
(* timer never runs without the ping timer while the socket is open.       *)
TimersOK ==
  /\ accept # "attached" => sendTimeout = Off /\ killTimeout = Off
  /\ ws = "open" /\ killTimeout # Off => sendTimeout # Off

(* The ticks until a pong arrives at the latest, if no pong is under way:  *)
(* the next ping is sent when its timer is due, may be lost as long as     *)
(* fewer than MaxLost in a row have been, and is then answered.            *)
Budget == sendTimeout + (MaxLost - lost) * PING_INTERVAL_MS + RoundTrip

(* A live peer is heard before the kill timer is due. *)
InTime ==
  peer = "live" /\ ws = "open" /\ killTimeout # Off =>
    \/ \E p \in pongs : p < killTimeout
    \/ Budget < killTimeout

(* The inductive invariant. *)
IInv == TypeOK /\ TimersOK /\ InTime /\ LivePeerKept /\ NoTimerAfterClose
----------------------------------------------------------------------------
(* What is left of the budget for losses: a product of natural numbers     *)
(* that is smaller by one interval when one more ping is lost.             *)
LEMMA Losses ==
  ASSUME NEW n \in Nat, NEW P \in Nat, NEW k \in 0 .. n
  PROVE  /\ (n - k) * P \in Nat
         /\ (n - k) * P <= n * P
         /\ (n - 0) * P = n * P
         /\ (n + 1) * P = n * P + P
         /\ k < n => (n - (k + 1)) * P + P = (n - k) * P
<1>1. ASSUME NEW a \in Nat, NEW b \in Nat PROVE a * b \in Nat
  BY <1>1
<1>2. (n - k) * P + k * P = n * P
  OBVIOUS
<1>3. (n - k) * P \in Nat /\ k * P \in Nat /\ n * P \in Nat
  BY <1>1
<1>4. k < n => (n - (k + 1)) * P + P = (n - k) * P
  OBVIOUS
<1>. QED
  BY <1>2, <1>3, <1>4

(* What the steps need of the constants, without the product. *)
LEMMA Kinds ==
  /\ PING_INTERVAL_MS \in Nat /\ MAX_NO_DATA_INTERVAL_MS \in Nat
  /\ RoundTrip \in Nat /\ MaxLost \in Nat /\ Off \notin Nat
BY KeepAliveAssumption DEF KeepAliveAssumption

LEMMA InitIInv == Init => IInv
<1>. SUFFICES ASSUME Init PROVE IInv
  OBVIOUS
<1>1. TypeOK
  <2>1. /\ sendTimeout \in Timer(PING_INTERVAL_MS)
        /\ killTimeout \in Timer(MAX_NO_DATA_INTERVAL_MS)
        /\ pongs \subseteq 0 .. RoundTrip /\ lost \in 0 .. MaxLost
    BY Kinds DEF Init, Timer
  <2>. QED
    BY <2>1 DEF Init, TypeOK
<1>. QED
  BY <1>1 DEF Init, IInv, TimersOK, InTime, LivePeerKept, NoTimerAfterClose

(* A running timer is a natural number. *)
LEMMA Running ==
  ASSUME NEW max \in Nat, NEW t \in Timer(max), t # Off
  PROVE  t \in 0 .. max
BY DEF Timer

(* resetTimer starts the budget anew, however many pings were lost. *)
LEMMA ResetInTime ==
  ASSUME TypeOK', resetTimer
  PROVE  InTime'
<1>. USE KeepAliveAssumption DEF KeepAliveAssumption
<1>1. lost' \in 0 .. MaxLost
  BY DEF TypeOK
<1>2. /\ (MaxLost - lost') * PING_INTERVAL_MS \in Nat
      /\ (MaxLost - lost') * PING_INTERVAL_MS <= MaxLost * PING_INTERVAL_MS
      /\ (MaxLost + 1) * PING_INTERVAL_MS = MaxLost * PING_INTERVAL_MS + PING_INTERVAL_MS
  BY <1>1, Losses
<1>3. MaxLost * PING_INTERVAL_MS + PING_INTERVAL_MS + RoundTrip
        < MAX_NO_DATA_INTERVAL_MS
  BY <1>2
<1>4. MaxLost * PING_INTERVAL_MS \in Nat
  BY Losses
<1>. DEFINE left == (MaxLost - lost') * PING_INTERVAL_MS
<1>5. PING_INTERVAL_MS + left + RoundTrip < MAX_NO_DATA_INTERVAL_MS
  <2>. HIDE DEF left
  <2>1. left \in Nat /\ left <= MaxLost * PING_INTERVAL_MS
    BY <1>2 DEF left
  <2>. QED
    BY <1>3, <1>4, <2>1
<1>. QED
  BY <1>5 DEF InTime, Budget, resetTimer

(* A packet that is heard keeps everything. *)
LEMMA HeardStep ==
  ASSUME IInv, Receiving, Heard, UNCHANGED <<ws, accept, peer, dropped>>,
         pongs' \subseteq pongs, lost' \in {lost, 0}
  PROVE  IInv'
<1>. USE Kinds
<1>1. TypeOK'
  <2>1. /\ sendTimeout' \in Timer(PING_INTERVAL_MS)
        /\ killTimeout' \in Timer(MAX_NO_DATA_INTERVAL_MS)
    BY DEF IInv, TypeOK, Heard, resetTimer, Timer
  <2>2. heard' \in BOOLEAN
    BY DEF IInv, TypeOK, Heard
  <2>3. pongs' \subseteq 0 .. RoundTrip /\ lost' \in 0 .. MaxLost
    BY DEF IInv, TypeOK
  <2>. QED
    BY <2>1, <2>2, <2>3 DEF IInv, TypeOK
<1>2. TimersOK'
  BY DEF IInv, TimersOK, Heard, resetTimer
<1>3. InTime'
  <2>1. CASE accept = "attached"
    BY <1>1, <2>1, ResetInTime DEF Heard
  <2>2. CASE accept # "attached"
    BY <2>2 DEF Heard, IInv, TimersOK, InTime
  <2>. QED
    BY <2>1, <2>2
<1>4. LivePeerKept' /\ NoTimerAfterClose'
  BY DEF IInv, LivePeerKept, NoTimerAfterClose, Receiving
<1>. QED
  BY <1>1, <1>2, <1>3, <1>4 DEF IInv

LEMMA SendTimeoutStep ==
  ASSUME IInv, SendTimeout
  PROVE  IInv'
<1>. USE Kinds
<1>1. TypeOK'
  <2>1. sendTimeout' \in Timer(PING_INTERVAL_MS)
    BY DEF SendTimeout, Timer
  <2>2. pongs' \subseteq 0 .. RoundTrip /\ lost' \in 0 .. MaxLost
    <3>1. pongs \subseteq 0 .. RoundTrip /\ lost \in 0 .. MaxLost
      BY DEF IInv, TypeOK
    <3>2. \/ pongs' = pongs \cup {RoundTrip} /\ lost' = lost
          \/ lost < MaxLost /\ lost' = lost + 1 /\ pongs' = pongs
          \/ pongs' = pongs /\ lost' = lost
      BY DEF SendTimeout
    <3>3. lost' \in 0 .. MaxLost
      BY <3>1, <3>2
    <3>4. RoundTrip \in 0 .. RoundTrip
      OBVIOUS
    <3>5. pongs' \subseteq 0 .. RoundTrip
      BY <3>1, <3>2, <3>4
    <3>. QED
      BY <3>3, <3>5
  <2>. QED
    BY <2>1, <2>2 DEF IInv, TypeOK, SendTimeout
<1>2. TimersOK'
  BY DEF IInv, TimersOK, SendTimeout
<1>3. InTime'
  <2>. SUFFICES ASSUME peer = "live", ws = "open", killTimeout # Off
                PROVE  \/ \E p \in pongs' : p < killTimeout
                       \/ Budget' < killTimeout
    BY DEF SendTimeout, InTime
  <2>1. killTimeout \in Nat /\ lost \in 0 .. MaxLost /\ pongs \subseteq 0 .. RoundTrip
    BY Running DEF IInv, TypeOK
  <2>2. CASE \E p \in pongs : p < killTimeout
    BY <2>2 DEF SendTimeout
  <2>3. CASE Budget < killTimeout
    <3>. DEFINE left == (MaxLost - lost) * PING_INTERVAL_MS
    <3>1. left \in Nat
      BY <2>1, Losses
    <3>2. left + RoundTrip < killTimeout
      BY <2>3, <3>1 DEF SendTimeout, Budget
    <3>3. CASE pongs' = pongs \cup {RoundTrip}
      <4>. HIDE DEF left
      <4>. QED  BY <2>1, <3>1, <3>2, <3>3
    <3>4. CASE lost < MaxLost /\ lost' = lost + 1
      <4>1. (MaxLost - (lost + 1)) * PING_INTERVAL_MS + PING_INTERVAL_MS = left
        BY <2>1, <3>4, Losses
      <4>2. (MaxLost - (lost + 1)) * PING_INTERVAL_MS \in Nat
        BY <2>1, <3>4, Losses
      <4>. DEFINE after == (MaxLost - (lost + 1)) * PING_INTERVAL_MS
      <4>3. Budget' = PING_INTERVAL_MS + after + RoundTrip
        BY <3>4 DEF Budget, SendTimeout
      <4>. HIDE DEF left, after
      <4>4. PING_INTERVAL_MS + after = left
        BY <4>1, <4>2 DEF after
      <4>. QED  BY <3>2, <4>3, <4>4
    <3>. QED
      BY <3>3, <3>4 DEF SendTimeout
  <2>. QED
    BY <2>2, <2>3 DEF IInv, InTime
<1>4. LivePeerKept' /\ NoTimerAfterClose'
  BY DEF IInv, LivePeerKept, NoTimerAfterClose, SendTimeout
<1>. QED
  BY <1>1, <1>2, <1>3, <1>4 DEF IInv

(* The kill timer of a live peer is not due while the socket is open. *)
LEMMA NotDue ==
  ASSUME IInv, peer = "live", ws = "open"
  PROVE  killTimeout # 0
<1>. USE Kinds
<1>. SUFFICES ASSUME killTimeout = 0 PROVE FALSE
  OBVIOUS
<1>1. sendTimeout # Off /\ killTimeout # Off
  BY DEF IInv, TimersOK
<1>2. sendTimeout \in Nat /\ lost \in 0 .. MaxLost /\ pongs \subseteq 0 .. RoundTrip
  BY <1>1, Running DEF IInv, TypeOK
<1>. DEFINE left == (MaxLost - lost) * PING_INTERVAL_MS
<1>3. left \in Nat
  BY <1>2, Losses
<1>4. Budget = sendTimeout + left + RoundTrip
  BY DEF Budget
<1>. HIDE DEF left
<1>5. Budget \in Nat
  BY <1>2, <1>3, <1>4
<1>. QED
  BY <1>1, <1>2, <1>5 DEF IInv, InTime

LEMMA KillTimeoutStep ==
  ASSUME IInv, KillTimeout
  PROVE  IInv'
<1>. USE Kinds
<1>1. TypeOK' /\ TimersOK' /\ InTime' /\ NoTimerAfterClose'
  BY DEF IInv, TypeOK, TimersOK, InTime, NoTimerAfterClose, KillTimeout, Timer
<1>2. LivePeerKept'
  BY NotDue DEF IInv, TypeOK, LivePeerKept, KillTimeout
<1>. QED
  BY <1>1, <1>2 DEF IInv

(* Time passes for every timer and every pong alike. *)
LEMMA TickStep ==
  ASSUME IInv, Tick
  PROVE  IInv'
<1>. USE Kinds
<1>1. /\ sendTimeout # Off => sendTimeout \in 1 .. PING_INTERVAL_MS
      /\ killTimeout # Off => killTimeout \in 1 .. MAX_NO_DATA_INTERVAL_MS
      /\ pongs \subseteq 1 .. RoundTrip
  <2>1. /\ sendTimeout # Off => sendTimeout \in 0 .. PING_INTERVAL_MS
        /\ killTimeout # Off => killTimeout \in 0 .. MAX_NO_DATA_INTERVAL_MS
        /\ pongs \subseteq 0 .. RoundTrip
    BY Running DEF IInv, TypeOK
  <2>. QED
    BY <2>1 DEF Tick
<1>2. TypeOK'
  BY <1>1 DEF IInv, TypeOK, Tick, Down, Timer
<1>3. TimersOK'
  BY <1>1 DEF IInv, TimersOK, Tick, Down
<1>4. InTime'
  <2>. SUFFICES ASSUME peer = "live", ws = "open", killTimeout # Off
                PROVE  \/ \E p \in pongs' : p < killTimeout'
                       \/ Budget' < killTimeout'
    BY DEF Tick, InTime, Down
  <2>1. killTimeout' = killTimeout - 1 /\ sendTimeout # Off
        /\ sendTimeout' = sendTimeout - 1
    BY DEF Tick, Down, IInv, TimersOK
  <2>2. CASE \E p \in pongs : p < killTimeout
    <3>1. PICK p \in pongs : p < killTimeout
      BY <2>2
    <3>2. p - 1 \in pongs' /\ p - 1 < killTimeout'
      BY <1>1, <2>1, <3>1 DEF Tick
    <3>. QED  BY <3>2
  <2>3. CASE Budget < killTimeout
    <3>. DEFINE left == (MaxLost - lost) * PING_INTERVAL_MS
    <3>1. left \in Nat
      BY Losses DEF IInv, TypeOK
    <3>2. Budget = sendTimeout + left + RoundTrip
      BY DEF Budget
    <3>3. Budget' = sendTimeout' + left + RoundTrip
      BY DEF Budget, Tick
    <3>. HIDE DEF left
    <3>. QED
      BY <1>1, <2>1, <2>3, <3>1, <3>2, <3>3
  <2>. QED
    BY <2>2, <2>3 DEF IInv, InTime
<1>5. LivePeerKept' /\ NoTimerAfterClose'
  BY DEF IInv, LivePeerKept, NoTimerAfterClose, Tick, Down
<1>. QED
  BY <1>2, <1>3, <1>4, <1>5 DEF IInv

(* Attaching the listeners, the ends of the connection and of the peer:    *)
(* timers are left alone or cleared.                                       *)
LEMMA OtherStep ==
  ASSUME IInv,
         Attach \/ Refuse \/ OnError \/ CloseBegins \/ OnClose \/ PeerGoesSilent
  PROVE  IInv'
<1>. USE Kinds DEF timers, cleanup
<1>1. CASE Attach
  BY <1>1 DEF IInv, TypeOK, TimersOK, InTime, Budget, LivePeerKept, NoTimerAfterClose, Attach
<1>2. CASE Refuse
  BY <1>2 DEF IInv, TypeOK, TimersOK, InTime, Budget, LivePeerKept, NoTimerAfterClose, Refuse
<1>3. CASE OnError
  BY <1>3 DEF IInv, TypeOK, TimersOK, InTime, Budget, LivePeerKept, NoTimerAfterClose,
              OnError, Timer
<1>4. CASE CloseBegins
  BY <1>4 DEF IInv, TypeOK, TimersOK, InTime, Budget, LivePeerKept, NoTimerAfterClose,
              CloseBegins
<1>5. CASE OnClose
  BY <1>5 DEF IInv, TypeOK, TimersOK, InTime, Budget, LivePeerKept, NoTimerAfterClose,
              OnClose, Timer
<1>6. CASE PeerGoesSilent
  BY <1>6 DEF IInv, TypeOK, TimersOK, InTime, Budget, LivePeerKept, NoTimerAfterClose,
              PeerGoesSilent
<1>. QED
  BY <1>1, <1>2, <1>3, <1>4, <1>5, <1>6

LEMMA NextIInv == IInv /\ [Next]_vars => IInv'
<1>. SUFFICES ASSUME IInv, [Next]_vars PROVE IInv'
  OBVIOUS
<1>1. CASE OnMessage
  BY <1>1, HeardStep DEF OnMessage
<1>2. ASSUME NEW left \in 0 .. RoundTrip, OnPong(left) PROVE IInv'
  BY <1>2, HeardStep DEF OnPong
<1>3. CASE UNCHANGED vars
  BY <1>3 DEF vars, IInv, TypeOK, TimersOK, InTime, Budget, LivePeerKept, NoTimerAfterClose
<1>. QED
  BY <1>1, <1>2, <1>3, SendTimeoutStep, KillTimeoutStep, TickStep, OtherStep DEF Next
----------------------------------------------------------------------------
(* IInv holds in every reachable state of the keep-alive. *)
THEOREM KeepAliveInvariant == Spec => []IInv
BY InitIInv, NextIInv, PTL DEF Spec

(* Timers stay within their intervals, and the count of lost pings within  *)
(* its bound.                                                              *)
THEOREM KeepAliveTypeCorrect == Spec => []TypeOK
<1>1. IInv => TypeOK
  BY DEF IInv
<1>. QED
  BY <1>1, KeepAliveInvariant, PTL

(* For any intervals with (MaxLost + 1) pings and a round trip between two *)
(* kills, the kill timer closes no connection whose peer answers           *)
(* (keep-alive.ts:25-43).                                                  *)
THEOREM LivePeerIsKept == Spec => []LivePeerKept
<1>1. IInv => LivePeerKept
  BY DEF IInv
<1>. QED
  BY <1>1, KeepAliveInvariant, PTL

(* A socket that has emitted 'close' has no timer, also when it closed     *)
(* before the listeners were attached (keep-alive.ts:23,45-48).               *)
THEOREM ClosedHasNoTimer == Spec => []NoTimerAfterClose
<1>1. IInv => NoTimerAfterClose
  BY DEF IInv
<1>. QED
  BY <1>1, KeepAliveInvariant, PTL
============================================================================
