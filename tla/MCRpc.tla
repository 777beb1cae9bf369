-------------------------------- MODULE MCRpc --------------------------------
(***************************************************************************)
(* The RPC between a client and an attestor, from its two sides: the calls *)
(* on a connection, with one rpc() besides the init call, and the messages *)
(* that go over it, of every type.  They share no state, so that one of    *)
(* them is explored while the other has not begun.  A behaviour in which a *)
(* message is exchanged is not a fair one, since the timer of the init     *)
(* call does not fire in it: what is checked of messages are invariants.   *)
(***************************************************************************)
EXTENDS RpcClient, Codec, TLC

CONSTANT c1

allVars == <<vars, codecVars>>

(* no message was chosen yet: one that says nothing stands for it *)
NoMessage == type = "Empty" /\ CodecInit

MCInit == Init /\ CodecInit

MCNext ==
    \/ NoMessage /\ Next /\ UNCHANGED codecVars
    \/ Init /\ CodecNext /\ UNCHANGED vars

MCSpec == MCInit /\ [][MCNext]_allVars /\ Fairness
==============================================================================
