------------------------------ MODULE MCTimers ------------------------------
(***************************************************************************)
(* What waits for a peer with a timer: a connection with its keep-alive,   *)
(* and the requests of a window with the calls back to its app.            *)
(*                                                                         *)
(* The keep-alive has the intervals of the code, 10 s and 30 s, at 2.5 s a *)
(* tick: a ping may get lost, and a pong may take three ticks.  Of the     *)
(* window there are two requests at a time, with up to two calls between   *)
(* them: enough for a retry while calls of the attempt before are still    *)
(* open.  The two share no state, so that one of them is explored while    *)
(* the other has not begun; in that state none of their actions that are   *)
(* fair can be taken.                                                      *)
(***************************************************************************)
EXTENDS KeepAlive, WindowRpc

CONSTANTS r1, r2, c1, c2

allVars == <<vars, windowVars>>

MCInit == Init /\ WindowInit

MCNext ==
    \/ WindowInit /\ Next /\ UNCHANGED windowVars
    \/ Init /\ WindowNext /\ UNCHANGED vars

MCSpec == MCInit /\ [][MCNext]_allVars /\ Fairness /\ WindowFairness
=============================================================================
