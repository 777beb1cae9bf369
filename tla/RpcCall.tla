------------------------------ MODULE RpcCall ------------------------------
(***************************************************************************)
(* What AttestorClient.rpc promises its caller: a promise that settles     *)
(* once and for all, with a result only if the attestor gave that call one *)
(* (types/client.ts, IAttestorClient).  One event may settle many calls.   *)
(***************************************************************************)
CONSTANT Calls

VARIABLES
  status,        \* "idle", "pending", "resolved" or "rejected"
  results        \* calls the attestor answered with a result

callVars == <<status, results>>

CallInit ==
  /\ \E S \in SUBSET Calls :
       status = [c \in Calls |-> IF c \in S THEN "pending" ELSE "idle"]
  /\ results = {}

(* rpc() is called: on a dead connection it rejects at once. *)
Begin(c) ==
  /\ status[c] = "idle"
  /\ \E s \in {"pending", "rejected"} : status' = [status EXCEPT ![c] = s]
  /\ UNCHANGED results

Answer(c) ==
  /\ results' = results \cup {c}
  /\ UNCHANGED status

(* Some pending calls settle. *)
Settle ==
  /\ status' \in [Calls -> {"idle", "pending", "resolved", "rejected"}]
  /\ \A c \in Calls : status'[c] # status[c] =>
       /\ status[c] = "pending"
       /\ status'[c] = "rejected" \/ (status'[c] = "resolved" /\ c \in results)
  /\ UNCHANGED results

CallNext == Settle \/ \E c \in Calls : Begin(c) \/ Answer(c)

Settled(c) == status[c] \in {"resolved", "rejected"}

CallSpec == CallInit /\ [][CallNext]_callVars

(* Every pending call settles in the end. *)
CallsSettle == \A c \in Calls : status[c] = "pending" ~> Settled(c)

CallFairSpec == CallSpec /\ CallsSettle
============================================================================
