----------------------------- MODULE MCResponse -----------------------------
(***************************************************************************)
(* ResponseReveal with the requests and the responses TLC explores: every  *)
(* step of MCNext is a step of Next.                                       *)
(***************************************************************************)
EXTENDS ResponseReveal

CONSTANT RevealRecords   \* bound: records of a response whose reveals are explored

(* the responses whose reveals are explored, a bound *)
MCExplored ==
    /\ Len(blocks) <= RevealRecords /\ ~response.crlf
    /\ IF Whole THEN ended = "close" ELSE Len(blocks) = 1

(* The requests explored: none, one that yields nothing, one of any kind, a *)
(* second one that shows what it matches, and two that hash.  Which of two  *)
(* comes first makes a difference only if they end together, as the reveals *)
(* are sorted by their ends.                                                *)
MCRequests ==
    LET n == Len(res.body)
        any == PlainMatches(n) \cup HashMatches(n) \cup GroupMatches(n)
    IN  {None, <<>>} \cup
        IF res.threw \/ res.statusCode # 200 THEN PlainMatches(n)
        ELSE any
             \cup {m \o k : m \in any, k \in PlainMatches(n)}
             \cup {m \o k : m, k \in HashMatches(n)}
             \cup {x[1] \o x[2] : x \in {y \in PlainMatches(n) \X any :
                       y[1][1].toIndex = y[2][Len(y[2])].toIndex}}

MCNext ==
    \/ Receive
    \/ /\ phase = "parsed" /\ MCExplored
       /\ \E ms \in MCRequests : GetBlocksToReveal(ms) \/ PerformOprfFails(ms)
    \/ GenerateProofs
    \/ DecryptTranscript

MCSpec == Init /\ [][MCNext]_vars
=============================================================================
