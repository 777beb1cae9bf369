--------------------------- MODULE MCBgpListener ---------------------------
(* Instances of BgpListener for TLC. *)
EXTENDS BgpListener, TLC

CONSTANTS a, b, pa, pb, dflt, bad, w1, w2, w3, w4, l1, l2

(* pa and pb contain one address each, dflt is 0.0.0.0/0. *)
MCCovers == (pa :> {a}) @@ (pb :> {b}) @@ (dflt :> {a, b}) @@ (bad :> {})

(* Updates with one announcement, with one that has no prefixes before     *)
(* another, with a prefix that cannot be parsed, and with the default      *)
(* route.                                                                  *)
MCUpdates == {<<<<pa>>>>, <<<<pb, pa>>>>, <<<<>>, <<pb>>>>, <<<<dflt, bad>>, <<pa>>>>}

MCSymmetry == Permutations(Listeners) \cup Permutations(Ws \ {First})
============================================================================
