-------------------------- MODULE MCClaimCreation --------------------------
(* A request of five units in records of two: no redaction, one inside,    *)
(* one empty one at the start as for empty secret headers, and redactions  *)
(* that start, touch and end the request.                                  *)
EXTENDS ClaimCreation

Slice(a, b) == [fromIndex |-> a, toIndex |-> b]
MCRedactions ==
  {<<>>, <<Slice(3, 4)>>, <<Slice(0, 0), Slice(1, 2)>>,
   <<Slice(0, 1), Slice(1, 2), Slice(4, 5)>>}
============================================================================
