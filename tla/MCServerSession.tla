-------------------------- MODULE MCServerSession --------------------------
(* Instances of ServerSession for TLC. *)
EXTENDS ServerSession, TLC

CONSTANTS i1, h1, h2, x, y, f1, f2, f3, s1, s2

(* MAX_CLAIM_TIMESTAMP_DIFF_S in minutes, and claims either side of it. *)
MCOffsets == {10, 11}
MCAuths == {{}, {h1}}
MCSymmetry == Permutations(Sockets) \cup Permutations(Frames \ {Query})

MCInit(a) == [type |-> "init", auth |-> a]
MCCreate(i, h) == [type |-> "createTunnel", id |-> i, host |-> h]
MCClaim(i, h) == [type |-> "claimTunnel", id |-> i, host |-> h]
MCDisconnect(i) == [type |-> "disconnectTunnel", id |-> i]
MCWrite(i, m) == [type |-> "tunnelMessage", id |-> i, message |-> m]
MCAlert == [type |-> "connectionTerminationAlert"]

(* One tunnel id, two hosts of which the whitelist allows one: packets     *)
(* race to initialise, to create, to write to and to claim the tunnel.     *)
MCBatches ==
  {<<MCInit({h1}), MCCreate(i1, h1), MCWrite(i1, x)>>,
   <<MCInit({}), MCCreate(i1, h2)>>,
   <<MCCreate(i1, h2)>>, <<MCWrite(i1, x)>>, <<MCClaim(i1, h1)>>, <<MCAlert>>}

(* Fewer packets for the liveness properties, and the ways a tunnel is     *)
(* closed.                                                                 *)
MCLiveBatches ==
  {<<MCInit({}), MCCreate(i1, h1), MCWrite(i1, x)>>,
   <<MCInit({}), MCCreate(i1, h1), MCClaim(i1, h1), MCWrite(i1, x)>>,
   <<MCClaim(i1, h1)>>, <<MCDisconnect(i1)>>}

(* A packet that writes to a tunnel it has disconnected, and claims it. *)
MCUnsentBatches ==
  {<<MCInit({}), MCCreate(i1, h1), MCWrite(i1, x)>>,
   <<MCDisconnect(i1), MCWrite(i1, x), MCClaim(i1, h1)>>}
============================================================================
