------------------------- MODULE BgpListenerProofs -------------------------
(***************************************************************************)
(* Proofs about BgpListener for any number of tunnels, addresses, updates  *)
(* and reconnections.                                                      *)
(***************************************************************************)
EXTENDS BgpListener, TLAPS

(* Every address of a live tunnel is watched, or was deleted by the        *)
(* cancellation of another tunnel that asked for it.                       *)
WatchOK ==
  \A l \in listening : \A ip \in ips[l] :
    ip \in targetIps \/ \E m \in cancelled : ip \in ips[m]

DueOK == due \subseteq listening \cup cancelled

(* The inductive invariant. *)
IInv ==
  /\ TypeOK /\ WatchOK /\ DueOK
  /\ NoStaleTarget /\ MissNeedsSharedIp /\ CurrentSubscribed

LEMMA InitIInv == Init => IInv
<1>. SUFFICES ASSUME Init PROVE IInv
  OBVIOUS
<1>1. TypeOK
  BY BgpAssumption DEF Init, TypeOK, ConnState, BgpAssumption
<1>2. WatchOK /\ DueOK /\ NoStaleTarget /\ MissNeedsSharedIp
  BY DEF Init, WatchOK, DueOK, NoStaleTarget, MissNeedsSharedIp
<1>3. CurrentSubscribed
  BY BgpAssumption DEF Init, CurrentSubscribed, BgpAssumption
<1>. QED
  BY <1>1, <1>2, <1>3 DEF IInv

(* Steps of the feed's WebSockets leave the watching tunnels alone. *)
LEMMA FeedStep ==
  ASSUME IInv, UNCHANGED <<watchVars, heardVars>>
  PROVE  WatchOK' /\ DueOK' /\ NoStaleTarget' /\ MissNeedsSharedIp'
BY DEF IInv, WatchOK, DueOK, NoStaleTarget, MissNeedsSharedIp, watchVars, heardVars

LEMMA OverlapStep ==
  ASSUME IInv, NEW l \in Listeners, OnOverlap(l)
  PROVE  IInv'
<1>1. PICK S \in SUBSET Ips : /\ ips' = [ips EXCEPT ![l] = S]
                              /\ targetIps' = targetIps \cup S
  BY DEF OnOverlap
<1>2. TypeOK /\ l \notin listening \cup cancelled /\ listening' = listening \cup {l}
        /\ UNCHANGED <<feedVars, cancelled, heardVars>>
  BY DEF IInv, OnOverlap
<1>3. \A m \in Listeners : m # l => ips'[m] = ips[m]
  BY <1>1, <1>2 DEF TypeOK
<1>4. ips'[l] = S
  BY <1>1, <1>2 DEF TypeOK
<1>5. TypeOK'
  BY <1>1, <1>2 DEF TypeOK, feedVars, heardVars
<1>6. \A m \in listening \cup cancelled : ips'[m] = ips[m]
  BY <1>2, <1>3 DEF TypeOK
<1>7. WatchOK'
  BY <1>1, <1>2, <1>4, <1>6 DEF IInv, WatchOK
<1>8. NoStaleTarget'
  BY <1>1, <1>2, <1>4, <1>6 DEF IInv, NoStaleTarget
<1>9. DueOK'
  BY <1>2 DEF IInv, DueOK, heardVars
<1>10. MissNeedsSharedIp'
  BY <1>2, <1>6 DEF IInv, DueOK, MissNeedsSharedIp, heardVars
<1>11. CurrentSubscribed'
  BY <1>2 DEF IInv, CurrentSubscribed, feedVars
<1>. QED
  BY <1>5, <1>7, <1>8, <1>9, <1>10, <1>11 DEF IInv

LEMMA CancelStep ==
  ASSUME IInv, NEW l \in Listeners, Cancel(l)
  PROVE  IInv'
<1>1. TypeOK'
  BY DEF IInv, TypeOK, Cancel, feedVars, heardVars
<1>2. WatchOK'
  BY DEF IInv, WatchOK, Cancel
<1>3. NoStaleTarget'
  BY DEF IInv, NoStaleTarget, Cancel
<1>4. DueOK' /\ MissNeedsSharedIp' /\ CurrentSubscribed'
  BY DEF IInv, DueOK, MissNeedsSharedIp, CurrentSubscribed, Cancel, feedVars, heardVars
<1>. QED
  BY <1>1, <1>2, <1>3, <1>4 DEF IInv

LEMMA MessageStep ==
  ASSUME IInv, NEW w \in Ws, OnMessage(w)
  PROVE  IInv'
<1>1. PICK u \in Updates :
       /\ called' = IF \E p \in Examined(u) : Overlaps(p, targetIps)
                    THEN called \cup listening ELSE called
       /\ due' = due \cup Watching(Examined(u))
  BY DEF OnMessage
<1>2. UNCHANGED <<feedVars, watchVars>>
  BY DEF OnMessage
<1>3. \A P : Watching(P) \subseteq listening
  BY DEF Watching
<1>4. TypeOK'
  BY <1>1, <1>2, <1>3 DEF IInv, TypeOK, feedVars, watchVars
<1>5. WatchOK' /\ NoStaleTarget' /\ CurrentSubscribed'
  BY <1>2 DEF IInv, WatchOK, NoStaleTarget, CurrentSubscribed, feedVars, watchVars
<1>6. DueOK'
  BY <1>1, <1>2, <1>3 DEF IInv, DueOK, watchVars
<1>7. MissNeedsSharedIp'
  <2>. SUFFICES ASSUME NEW l \in due' \ called'
                PROVE  \E m \in cancelled : ips[m] \cap ips[l] # {}
    BY <1>2 DEF MissNeedsSharedIp, watchVars
  <2>1. CASE l \in due
    BY <1>1, <2>1 DEF IInv, MissNeedsSharedIp
  <2>2. CASE l \notin due
    <3>1. l \in listening /\ \E p \in Examined(u) : Overlaps(p, ips[l])
      BY <1>1, <2>2 DEF Watching
    <3>2. PICK p \in Examined(u) : Overlaps(p, ips[l])
      BY <3>1
    <3>3. ~Overlaps(p, targetIps)
      BY <1>1, <3>1
    <3>4. PICK ip \in ips[l] : ip \in Covers[p] /\ ip \notin targetIps
      BY <3>2, <3>3 DEF Overlaps
    <3>. QED
      BY <3>1, <3>4 DEF IInv, WatchOK
  <2>. QED
    BY <2>1, <2>2
<1>. QED
  BY <1>4, <1>5, <1>6, <1>7 DEF IInv

(* What onClose does to the variables of the feed. *)
LEMMA CloseEvent ==
  ASSUME IInv, NEW w \in Ws, conn[w] # "none", NEW state \in {"failed", "closed"},
         OnClose(w, state), UNCHANGED subscribed
  PROVE  conn' \in [Ws -> ConnState] /\ ws' \in Ws /\ CurrentSubscribed'
<1>1. TypeOK /\ CurrentSubscribed
  BY DEF IInv
<1>2. CASE closed /\ conn' = [conn EXCEPT ![w] = state] /\ UNCHANGED ws
  BY <1>1, <1>2 DEF TypeOK, ConnState, CurrentSubscribed
<1>3. ASSUME NEW n \in Ws, conn[n] = "none",
             conn' = [conn EXCEPT ![w] = state, ![n] = "connecting"], ws' = n
      PROVE  conn' \in [Ws -> ConnState] /\ ws' \in Ws /\ CurrentSubscribed'
  BY <1>1, <1>3 DEF TypeOK, ConnState, CurrentSubscribed
<1>. QED
  BY <1>2, <1>3 DEF OnClose

LEMMA NextIInv == IInv /\ [Next]_vars => IInv'
<1>. SUFFICES ASSUME IInv, [Next]_vars PROVE IInv'
  OBVIOUS
<1>1. ASSUME NEW l \in Listeners, OnOverlap(l) \/ Cancel(l) PROVE IInv'
  BY <1>1, OverlapStep, CancelStep
<1>2. ASSUME NEW w \in Ws, OnMessage(w) PROVE IInv'
  BY <1>2, MessageStep
<1>3. ASSUME NEW w \in Ws, OnOpen(w) PROVE IInv'
  <2>1. WatchOK' /\ DueOK' /\ NoStaleTarget' /\ MissNeedsSharedIp'
    BY <1>3, FeedStep DEF OnOpen
  <2>2. TypeOK' /\ CurrentSubscribed'
    BY <1>3 DEF IInv, TypeOK, CurrentSubscribed, OnOpen, ConnState, watchVars, heardVars
  <2>. QED
    BY <2>1, <2>2 DEF IInv
<1>4. ASSUME NEW w \in Ws, WsError(w) \/ WsClose(w) PROVE IInv'
  <2>1. WatchOK' /\ DueOK' /\ NoStaleTarget' /\ MissNeedsSharedIp'
    BY <1>4, FeedStep DEF WsError, WsClose
  <2>2. conn' \in [Ws -> ConnState] /\ ws' \in Ws /\ CurrentSubscribed'
    BY <1>4, CloseEvent DEF WsError, WsClose
  <2>3. TypeOK'
    BY <1>4, <2>2 DEF IInv, TypeOK, WsError, WsClose, watchVars, heardVars
  <2>. QED
    BY <2>1, <2>2, <2>3 DEF IInv
<1>5. CASE Close
  <2>1. WatchOK' /\ DueOK' /\ NoStaleTarget' /\ MissNeedsSharedIp'
    BY <1>5, FeedStep DEF Close
  <2>2. TypeOK' /\ CurrentSubscribed'
    BY <1>5 DEF IInv, TypeOK, CurrentSubscribed, Close, ConnState, watchVars, heardVars
  <2>. QED
    BY <2>1, <2>2 DEF IInv
<1>6. CASE ErrorUnheard
  <2>1. WatchOK' /\ DueOK' /\ NoStaleTarget' /\ MissNeedsSharedIp'
    BY <1>6, FeedStep DEF ErrorUnheard
  <2>2. TypeOK' /\ CurrentSubscribed'
    BY <1>6 DEF IInv, TypeOK, CurrentSubscribed, ErrorUnheard, watchVars, heardVars
  <2>. QED
    BY <2>1, <2>2 DEF IInv
<1>7. CASE UNCHANGED vars
  BY <1>7 DEF vars, IInv, TypeOK, WatchOK, DueOK, NoStaleTarget, MissNeedsSharedIp,
              CurrentSubscribed
<1>. QED
  BY <1>1, <1>2, <1>3, <1>4, <1>5, <1>6, <1>7 DEF Next
----------------------------------------------------------------------------
(* IInv holds in every reachable state of the listener. *)
THEOREM BgpInvariant == Spec => []IInv
BY InitIInv, NextIInv, PTL DEF Spec

(* The variables of the listener keep their types. *)
THEOREM BgpTypeCorrect == Spec => []TypeOK
<1>1. IInv => TypeOK
  BY DEF IInv
<1>. QED
  BY <1>1, BgpInvariant, PTL

(* Cancelled tunnels leave no watched address behind (bgp-listener.ts:39). *)
THEOREM NoTargetIsStale == Spec => []NoStaleTarget
<1>1. IInv => NoStaleTarget
  BY DEF IInv
<1>. QED
  BY <1>1, BgpInvariant, PTL

(* An examined overlap is missed only for an address that a cancelled      *)
(* tunnel shared (bgp-listener.ts:39-43).                                  *)
THEOREM MissesNeedSharedIp == Spec => []MissNeedsSharedIp
<1>1. IInv => MissNeedsSharedIp
  BY DEF IInv
<1>. QED
  BY <1>1, BgpInvariant, PTL

(* The current WebSocket is subscribed whenever it is open, after any      *)
(* number of failures (bgp-listener.ts:79-89).                             *)
THEOREM CurrentIsSubscribed == Spec => []CurrentSubscribed
<1>1. IInv => CurrentSubscribed
  BY DEF IInv
<1>. QED
  BY <1>1, BgpInvariant, PTL

(* After close() no WebSocket is opened any more (bgp-listener.ts:91-94).  *)
THEOREM ClosedStaysClosed == Spec => ClosedForGood
<1>1. IInv /\ [Next]_vars => OpensNothing
  <2>. SUFFICES ASSUME IInv, [Next]_vars, closed PROVE
         ws' = ws /\ \A w \in Ws : conn[w] = "none" => conn'[w] = "none"
    BY DEF OpensNothing
  <2>1. ASSUME NEW w \in Ws, WsError(w) \/ WsClose(w) \/ OnOpen(w) PROVE
         ws' = ws /\ \A v \in Ws : conn[v] = "none" => conn'[v] = "none"
    BY <2>1 DEF WsError, WsClose, OnOpen, OnClose, IInv, TypeOK
  <2>2. CASE UNCHANGED feedVars
    BY <2>2 DEF feedVars
  <2>. QED
    BY <2>1, <2>2 DEF Next, OnOverlap, Cancel, OnMessage, Close, ErrorUnheard, vars, feedVars
<1>. QED
  BY <1>1, BgpInvariant, PTL DEF Spec, ClosedForGood
============================================================================
