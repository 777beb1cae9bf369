-------------------------- MODULE HttpParserProofs --------------------------
(***************************************************************************)
(* Proofs about HttpParser, for every response the model's server may      *)
(* write (MaxBody and MaxRecords are any numbers), and all the ways it may *)
(* be cut into TLS records: both parses of a response read what was sent   *)
(* (ParsedAsSent), and an early end is seen (EarlyEndSeen).  They are      *)
(* stated of ResponseReveal, of which HttpParser is a part.                *)
(* The loops of the code are recursive functions in the modules.  Each is  *)
(* unfolded once into the sequence of its rounds (HeaderLoop, ChunkLoop,   *)
(* and those of ResponseRevealProofs), and what a round does is carried    *)
(* through all of them with UpTo or, where the loop ends by itself, with   *)
(* LoopEnds.                                                               *)
(***************************************************************************)
EXTENDS RevealInvariant, SequenceTheorems, FiniteSetTheorems, WellFoundedInduction,
        TLAPS

-----------------------------------------------------------------------------
(* Steps, and the responses a server may write. *)

(* A set of natural numbers that is not empty has a least one. *)
LEMMA LeastOf ==
  ASSUME NEW T \in SUBSET Nat, T # {}
  PROVE  \E x \in T : \A y \in T : x <= y
<1>. DEFINE R == {ss \in Nat \X Nat : ss[1] < ss[2]}
<1>1. OpToRel(<, Nat) = R
  BY Zenon DEF OpToRel
<1>2. IsWellFoundedOn(R, Nat)
  BY <1>1, NatLessThanWellFounded, Zenon
<1>. HIDE DEF R
<1>3. PICK x \in T : \A y \in T : ~ (<<y, x>> \in R)
  BY <1>2, WFMin, Zenon
<1>4. ASSUME NEW y \in T PROVE x <= y
  <2>1. ~ (<<y, x>> \in R) /\ <<y, x>> \in Nat \X Nat
    BY <1>3
  <2>2. ~ (<<y, x>>[1] < <<y, x>>[2])
    BY <2>1 DEF R
  <2>. QED
    BY <2>2
<1>. QED
  BY <1>4

(* Induction over 0 .. k for a set: what holds of 0 and goes on from n to n *)
(* + 1 holds up to k.                                                       *)
LEMMA UpTo ==
  ASSUME NEW k \in Nat, NEW T, 0 \in T,
         \A n \in 0 .. k - 1 : n \in T => n + 1 \in T
  PROVE  \A n \in 0 .. k : n \in T
<1>. SUFFICES ASSUME NEW m \in 0 .. k, m \notin T PROVE FALSE
  OBVIOUS
<1>. DEFINE U == {n \in 0 .. k : n \notin T}
<1>1. U \in SUBSET Nat /\ U # {}
  OBVIOUS
<1>2. PICK x \in U : \A y \in U : x <= y
  BY <1>1, LeastOf
<1>3. x # 0 /\ x \in 0 .. k /\ x \notin T
  BY <1>2
<1>4. x - 1 \in 0 .. k - 1 /\ x - 1 \in T
  BY <1>2, <1>3
<1>. QED
  BY <1>3, <1>4

(* A function that is defined by recursion over 0 .. k exists, starts at p, *)
(* stays in S and satisfies its equation.                                   *)
LEMMA IterExists ==
  ASSUME NEW k, NEW S, NEW st, NEW p, Steps(k, S, st, p)
  PROVE  \E f : /\ f = [n \in 0 .. k |-> IF n = 0 THEN p ELSE st[n][f[n - 1]]]
                /\ f[0] = p /\ (\A n \in 0 .. k : f[n] \in S)
                /\ \A n \in 1 .. k : f[n] = st[n][f[n - 1]]
<1>0. k \in Nat /\ st \in [Nat -> [S -> S]] /\ p \in S
  BY DEF Steps
<1>. DEFINE G(n) == {g \in [0 .. n -> S] :
                       /\ g[0] = p 
                       /\ \A m \in 1 .. n : g[m] = st[m][g[m - 1]]}
            T == {n \in Nat : G(n) # {}}
<1>1. 0 \in T
  <2>1. [i \in 0 .. 0 |-> p] \in G(0)
    BY <1>0
  <2>. QED BY <2>1
<1>2. ASSUME NEW n \in 0 .. k - 1, n \in T PROVE n + 1 \in T
  <2>1. PICK g \in G(n) : TRUE
    BY <1>2
  <2>. DEFINE h == [i \in 0 .. n + 1 |-> IF i = n + 1 THEN st[n + 1][g[n]] ELSE g[i]]
  <2>2. h \in [0 .. n + 1 -> S]
    <3>1. g[n] \in S /\ n + 1 \in Nat
      BY <1>0, <2>1
    <3>2. st[n + 1][g[n]] \in S
      BY <1>0, <3>1
    <3>. QED BY <1>0, <2>1, <3>2
  <2>3. h[0] = p
    BY <1>0, <2>1
  <2>4. ASSUME NEW m \in 1 .. n + 1 PROVE h[m] = st[m][h[m - 1]]
    <3>1. h[m - 1] = g[m - 1]
      BY <1>0
    <3>2. CASE m = n + 1
      BY <3>1, <3>2
    <3>3. CASE m \in 1 .. n
      BY <1>0, <3>1, <3>3, <2>1
    <3>. QED BY <1>0, <3>2, <3>3
  <2>5. h \in G(n + 1)
    <3>. HIDE DEF h
    <3>. QED BY <2>2, <2>3, <2>4
  <2>. HIDE DEF h, G
  <2>. QED BY <1>0, <2>5
<1>. HIDE DEF T
<1>3. \A n \in 0 .. k : n \in T
  BY <1>0, <1>1, <1>2, UpTo
<1>. USE DEF T
<1>4. PICK f \in G(k) : TRUE
  <2>1. k \in T
    <3>. HIDE DEF T
    <3>. QED BY <1>0, <1>3
  <2>. HIDE DEF G
  <2>. QED BY <2>1
<1>5. /\ f[0] = p /\ (\A n \in 0 .. k : f[n] \in S) /\ f \in [0 .. k -> S]
      /\ \A n \in 1 .. k : f[n] = st[n][f[n - 1]]
  BY <1>4
<1>6. f = [n \in 0 .. k |-> IF n = 0 THEN p ELSE st[n][f[n - 1]]]
  BY <1>0, <1>5
<1>. QED BY <1>5, <1>6

(* The fields of a response. *)
LEMMA ResponseFacts ==
  ASSUME NEW r \in Responses
  PROVE  /\ r.size \in Nat /\ r.framing \in Framings /\ r.status \in {200, 404}
         /\ r.date \in BOOLEAN /\ r.crlf \in BOOLEAN
         /\ r.date => r.framing = "length"
         /\ r.framing # "chunked" => r.ends = <<>>
         /\ r.framing = "chunked" => r.ends \in Cuts(r.size)
<1>. DEFINE L(n) == [status : {200}, date : BOOLEAN, framing : {"length"},
                     size : {n}, crlf : BOOLEAN, ends : {<<>>}]
            O(n) == [status : {200, 404}, date : {FALSE}, framing : {"close"},
                     size : {n}, crlf : BOOLEAN, ends : {<<>>}]
            C(n) == [status : {200}, date : {FALSE}, framing : {"chunked"},
                     size : {n}, crlf : BOOLEAN, ends : Cuts(n)]
<1>a. r \in UNION {L(n) \cup O(n) \cup C(n) : n \in 0 .. MaxBody}
  BY DEF Responses
<1>. HIDE DEF L, O, C
<1>0. PICK n \in 0 .. MaxBody : r \in L(n) \cup O(n) \cup C(n)
  BY <1>a
<1>1. r \in L(n) \/ r \in O(n) \/ r \in C(n)
  BY <1>0
<1>. USE DEF L, O, C
<1>2. n \in Nat
  BY BoundsAssumption DEF BoundsAssumption
<1>3. r.size = n /\ r.framing \in Framings /\ r.status \in {200, 404}
  BY <1>1 DEF Framings
<1>4. r.date \in BOOLEAN /\ r.crlf \in BOOLEAN
  BY <1>1, Zenon
<1>5. /\ r.date => r.framing = "length"
      /\ r.framing # "chunked" => r.ends = <<>>
      /\ r.framing = "chunked" => r.ends \in Cuts(n)
  BY <1>1
<1>. QED
  BY <1>2, <1>3, <1>4, <1>5

(* The ends of chunks grow, are within the body, and the last one is its    *)
(* end.                                                                     *)
LEMMA CutsFacts ==
  ASSUME NEW n \in Nat, NEW s \in Cuts(n)
  PROVE  /\ s \in Seq(Nat) /\ Len(s) \in 0 .. n /\ DOMAIN s = 1 .. Len(s)
         /\ \A i \in 1 .. Len(s) : s[i] \in 1 .. n
         /\ \A i, j \in 1 .. Len(s) : i < j => s[i] < s[j]
         /\ n > 0 => Len(s) > 0 /\ s[Len(s)] = n
         /\ n = 0 => Len(s) = 0
<1>1. PICK m \in 0 .. n : s \in [1 .. m -> 1 .. n]
  BY DEF Cuts
<1>2. s \in Seq(1 .. n) /\ Len(s) = m /\ DOMAIN s = 1 .. m
  BY <1>1
<1>3. s \in Seq(Nat)
  BY <1>2
<1>4. \A i, j \in 1 .. m : i < j => s[i] < s[j]
  BY <1>2 DEF Cuts
<1>5. ASSUME n > 0 PROVE m > 0 /\ s[m] = n
  <2>1. PICK i \in 1 .. m : s[i] = n
    BY <1>2, <1>5 DEF Cuts
  <2>2. i < m => s[i] < s[m]
    BY <1>4
  <2>. QED
    BY <1>1, <2>1, <2>2
<1>. QED
  BY <1>1, <1>2, <1>3, <1>4, <1>5

(* The same of the chunks of a response. *)
LEMMA ResponseCuts ==
  ASSUME NEW r \in Responses
  PROVE  /\ r.size \in Nat
         /\ r.ends \in Seq(Nat) /\ Len(r.ends) \in Nat /\ DOMAIN r.ends = 1 .. Len(r.ends)
         /\ \A i \in 1 .. Len(r.ends) : r.ends[i] \in 1 .. r.size
         /\ \A i, j \in 1 .. Len(r.ends) : i < j => r.ends[i] < r.ends[j]
         /\ r.framing = "chunked" /\ r.size > 0 =>
              Len(r.ends) > 0 /\ r.ends[Len(r.ends)] = r.size
         /\ r.framing = "chunked" /\ r.size = 0 => Len(r.ends) = 0
<1>1. CASE r.framing = "chunked"
  BY <1>1, ResponseFacts, CutsFacts
<1>2. CASE r.framing # "chunked"
  <2>1. r.ends = <<>>
    BY <1>2, ResponseFacts
  <2>. QED
    BY <1>2, <2>1, ResponseFacts
<1>. QED
  BY <1>1, <1>2

(* The bytes of s with a line behind it. *)
LEMMA LineBehind ==
  ASSUME NEW s \in Seq(Byte), NEW x \in Byte
  PROVE  /\ AddLine(s, x) \in Seq(Byte) /\ Len(AddLine(s, x)) = Len(s) + 3
         /\ \A i \in 1 .. Len(s) : AddLine(s, x)[i] = s[i]
         /\ AddLine(s, x)[Len(s) + 1] = x
         /\ AddLine(s, x)[Len(s) + 2] = CR
         /\ AddLine(s, x)[Len(s) + 3] = LF
<1>1. CR \in Byte /\ LF \in Byte
  BY DEF Byte, Kinds, CR, LF
<1>2. <<x, CR, LF>> \in Seq(Byte) /\ Len(<<x, CR, LF>>) = 3
  BY <1>1
<1>. QED
  BY <1>2 DEF AddLine

(* The bytes of s with a line end behind it. *)
LEMMA EndBehind ==
  ASSUME NEW s \in Seq(Byte)
  PROVE  /\ s \o CRLF \in Seq(Byte) /\ Len(s \o CRLF) = Len(s) + 2
         /\ \A i \in 1 .. Len(s) : (s \o CRLF)[i] = s[i]
         /\ (s \o CRLF)[Len(s) + 1] = CR
         /\ (s \o CRLF)[Len(s) + 2] = LF
<1>1. CR \in Byte /\ LF \in Byte
  BY DEF Byte, Kinds, CR, LF
<1>2. <<CR, LF>> \in Seq(Byte) /\ Len(<<CR, LF>>) = 2
  BY <1>1
<1>. QED
  BY <1>2 DEF CRLF

(* A header has one to three lines, and none of them is a line end. *)
LEMMA LineKinds ==
  ASSUME NEW r \in Responses
  PROVE  /\ NL(r) \in 1 .. 3 /\ H(r) \in Nat
         /\ \A k \in 1 .. NL(r) : /\ <<LineKind(r, k), LineVal(r, k)>> \in Byte
                                  /\ LineKind(r, k) \notin {"cr", "lf"}
<1>. QED
  BY ResponseFacts DEF Framings, NL, H, LineKind, LineVal, Byte, Kinds

(* The bytes of the header, line by line. *)
LEMMA HeaderBytes ==
  ASSUME NEW r \in Responses
  PROVE  /\ HeaderOf(r) \in Seq(Byte) /\ Len(HeaderOf(r)) = H(r) 
         /\ \A k \in 1 .. NL(r) : /\ HeaderOf(r)[3 * k - 2] = <<LineKind(r, k), LineVal(r, k)>>
                                  /\ HeaderOf(r)[3 * k - 1] = CR /\ HeaderOf(r)[3 * k] = LF
         /\ HeaderOf(r)[H(r) - 1] = CR /\ HeaderOf(r)[H(r)] = LF
<1>. DEFINE a == <<"status", r.status>>
            b == <<"date", 0>>
            f == <<r.framing, IF r.framing = "length" THEN r.size ELSE 0>>
            X == <<a, CR, LF>>
            Y == IF r.date THEN AddLine(X, b) ELSE X 
            Z == IF r.framing = "close" THEN Y ELSE AddLine(Y, f)
<1>0. r.framing \in Framings /\ r.date \in BOOLEAN /\ (r.date => r.framing = "length")
  BY ResponseFacts
<1>1. a \in Byte /\ b \in Byte /\ f \in Byte /\ CR \in Byte /\ LF \in Byte
  <2>1. (IF r.framing = "length" THEN r.size ELSE 0) \in Int /\ r.status \in Int
    BY ResponseFacts
  <2>. QED
    <3>1. r.framing \in Kinds
      BY <1>0 DEF Framings, Kinds
    <3>2. f \in Byte
      BY <2>1, <3>1, Zenon DEF Byte
    <3>3. a \in Byte
      BY <2>1 DEF Byte, Kinds
    <3>4. b \in Byte /\ CR \in Byte /\ LF \in Byte
      BY DEF Byte, Kinds, CR, LF
    <3>. QED BY <3>2, <3>3, <3>4
<1>2. X \in Seq(Byte) /\ Len(X) = 3 /\ X[1] = a /\ X[2] = CR /\ X[3] = LF
  BY <1>1
<1>3. /\ Y \in Seq(Byte) /\ Len(Y) = IF r.date THEN 6 ELSE 3
      /\ Y[1] = a /\ Y[2] = CR /\ Y[3] = LF
      /\ r.date => Y[4] = b /\ Y[5] = CR /\ Y[6] = LF
  <2>. HIDE DEF a, b, X
  <2>. QED
    <3>1. CASE r.date
      <4>1. Y = AddLine(X, b)
        BY <3>1
      <4>2. /\ AddLine(X, b) \in Seq(Byte) /\ Len(AddLine(X, b)) = Len(X) + 3
            /\ \A i \in 1 .. Len(X) : AddLine(X, b)[i] = X[i]
            /\ AddLine(X, b)[Len(X) + 1] = b
            /\ AddLine(X, b)[Len(X) + 2] = CR
            /\ AddLine(X, b)[Len(X) + 3] = LF
        BY <1>1, <1>2, LineBehind
      <4>3. 3 + 1 = 4 /\ 3 + 2 = 5 /\ 3 + 3 = 6 /\ 1 \in 1 .. 3 /\ 2 \in 1 .. 3 /\ 3 \in 1 .. 3
        OBVIOUS
      <4>. HIDE DEF Y
      <4>. QED BY <1>2, <3>1, <4>1, <4>2, <4>3
    <3>2. CASE ~r.date
      BY <1>2, <3>2
    <3>. QED BY <3>1, <3>2
<1>4. HeaderOf(r) = Z \o CRLF
  <2>1. Y = X \o (IF r.date THEN <<b, CR, LF>> ELSE <<>>)
    <3>1. X \o <<>> = X
      BY <1>2, ConcatEmptySeq
    <3>. HIDE DEF X
    <3>. QED BY <1>0, <3>1 DEF AddLine
  <2>2. Z = Y \o (IF r.framing = "length" THEN Line("length", r.size)
        ELSE IF r.framing = "chunked" THEN Line("chunked", 0) ELSE <<>>)
    <3>. HIDE DEF Y
    <3>1. Y \o <<>> = Y
      BY <1>3, ConcatEmptySeq
    <3>2. CASE r.framing = "close"
      BY <3>1, <3>2
    <3>3. CASE r.framing = "length"
      BY <3>3 DEF Line, AddLine
    <3>4. CASE r.framing = "chunked"
      BY <3>4 DEF Line, AddLine
    <3>. QED BY <1>0, <3>2, <3>3, <3>4 DEF Framings
  <2>. QED
    BY <2>1, <2>2, Zenon DEF HeaderOf, Line
<1>. HIDE DEF X, Y, a, b, f
<1>5. /\ Z \in Seq(Byte) /\ Len(Z) = 3 * NL(r) 
      /\ \A k \in 1 .. NL(r) : /\ Z[3 * k - 2] = <<LineKind(r, k), LineVal(r, k)>>
                               /\ Z[3 * k - 1] = CR /\ Z[3 * k] = LF
  <2>1. CASE r.date
    <3>1. NL(r) = 3 /\ Z = AddLine(Y, f) /\ Len(Y) = 6
      BY <1>0, <1>3, <2>1 DEF NL
    <3>2. Z \in Seq(Byte) /\ Len(Z) = 9 /\ Z[7] = f /\ Z[8] = CR /\ Z[9] = LF
          /\ \A i \in 1 .. 6 : Z[i] = Y[i]
      <4>. HIDE DEF Z
      <4>1. /\ AddLine(Y, f) \in Seq(Byte) /\ Len(AddLine(Y, f)) = Len(Y) + 3
            /\ \A i \in 1 .. Len(Y) : AddLine(Y, f)[i] = Y[i]
            /\ AddLine(Y, f)[Len(Y) + 1] = f
            /\ AddLine(Y, f)[Len(Y) + 2] = CR
            /\ AddLine(Y, f)[Len(Y) + 3] = LF
        BY <1>1, <1>3, LineBehind
      <4>. QED BY <3>1, <4>1
    <3>3. <<LineKind(r, 1), LineVal(r, 1)>> = a /\ <<LineKind(r, 2), LineVal(r, 2)>> = b
          /\ <<LineKind(r, 3), LineVal(r, 3)>> = f
      BY <1>0, <2>1 DEF LineKind, LineVal, a, b, f
    <3>. HIDE DEF Z
    <3>. QED
      BY <1>3, <2>1, <3>1, <3>2, <3>3
  <2>2. CASE ~r.date /\ r.framing # "close"
    <3>1. NL(r) = 2 /\ Z = AddLine(Y, f) /\ Len(Y) = 3
      BY <1>0, <1>3, <2>2 DEF NL
    <3>2. Z \in Seq(Byte) /\ Len(Z) = 6 /\ Z[4] = f /\ Z[5] = CR /\ Z[6] = LF
          /\ \A i \in 1 .. 3 : Z[i] = Y[i]
      <4>. HIDE DEF Z
      <4>1. /\ AddLine(Y, f) \in Seq(Byte) /\ Len(AddLine(Y, f)) = Len(Y) + 3
            /\ \A i \in 1 .. Len(Y) : AddLine(Y, f)[i] = Y[i]
            /\ AddLine(Y, f)[Len(Y) + 1] = f
            /\ AddLine(Y, f)[Len(Y) + 2] = CR
            /\ AddLine(Y, f)[Len(Y) + 3] = LF
        BY <1>1, <1>3, LineBehind
      <4>. QED BY <3>1, <4>1
    <3>3. <<LineKind(r, 1), LineVal(r, 1)>> = a /\ <<LineKind(r, 2), LineVal(r, 2)>> = f
      BY <1>0, <2>2 DEF LineKind, LineVal, a, b, f
    <3>. HIDE DEF Z
    <3>. QED
      BY <1>3, <2>2, <3>1, <3>2, <3>3
  <2>3. CASE ~r.date /\ r.framing = "close"
    <3>1. NL(r) = 1 /\ Z = Y /\ Len(Y) = 3
      BY <1>0, <1>3, <2>3 DEF NL
    <3>2. <<LineKind(r, 1), LineVal(r, 1)>> = a
      BY <1>0, <2>3 DEF LineKind, LineVal, a
    <3>. HIDE DEF Z
    <3>. QED
      BY <1>3, <2>3, <3>1, <3>2
  <2>. QED
    BY <1>0, <2>1, <2>2, <2>3
<1>6. NL(r) \in 1 .. 3
  BY LineKinds
<1>. HIDE DEF Z
<1>. QED
  <2>1. /\ HeaderOf(r) \in Seq(Byte) /\ Len(HeaderOf(r)) = Len(Z) + 2
        /\ \A i \in 1 .. Len(Z) : HeaderOf(r)[i] = Z[i]
        /\ HeaderOf(r)[Len(Z) + 1] = CR
        /\ HeaderOf(r)[Len(Z) + 2] = LF
    BY <1>4, <1>5, EndBehind
  <2>2. H(r) - 1 = Len(Z) + 1 /\ H(r) = Len(Z) + 2
    BY <1>5, <1>6 DEF H
  <2>3. ASSUME NEW k \in 1 .. NL(r)
        PROVE  /\ 3 * k - 2 \in 1 .. Len(Z) /\ 3 * k - 1 \in 1 .. Len(Z)
               /\ 3 * k \in 1 .. Len(Z)
    BY <1>5, <1>6
  <2>. QED
    BY <1>5, <2>1, <2>2, <2>3

-----------------------------------------------------------------------------
(* The bytes of a chunked body, and of the whole stream. *)

(* The body is a sequence of bytes of the given size. *)
LEMMA WrittenFacts ==
  ASSUME NEW r \in Responses
  PROVE  Written(r) \in Seq(Byte) /\ Len(Written(r)) = r.size
<1>1. r.size \in Nat
  BY ResponseFacts
<1>2. ASSUME NEW i \in 1 .. r.size
      PROVE  (IF r.crlf /\ i = 2 THEN CR ELSE IF r.crlf /\ i = 3 THEN LF ELSE <<"x", i>>) \in Byte
  <2>1. CR \in Byte /\ LF \in Byte /\ <<"x", i>> \in Byte
    BY DEF CR, LF, Byte, Kinds
  <2>. QED BY <2>1
<1>3. Written(r) \in [1 .. r.size -> Byte]
  BY <1>2 DEF Written, BodyOf
<1>. QED
  BY <1>1, <1>3

(* The chunks are one behind the other in the body, and only the last is    *)
(* empty.                                                                   *)
LEMMA ChunkBounds ==
  ASSUME NEW r \in Responses, r.framing = "chunked", NEW i \in 1 .. Len(r.ends) + 1
  PROVE  /\ BodyBefore(r, i) \in 0 .. r.size /\ BodyUpTo(r, i) \in 0 .. r.size
         /\ i <= Len(r.ends) => BodyBefore(r, i) < BodyUpTo(r, i)
         /\ i = Len(r.ends) + 1 => BodyBefore(r, i) = r.size /\ BodyUpTo(r, i) = r.size
         /\ BodyBefore(r, 1) = 0
         /\ i <= Len(r.ends) => BodyBefore(r, i + 1) = BodyUpTo(r, i)
         /\ \A k \in 1 .. i - 1 : BodyUpTo(r, k) <= BodyBefore(r, i)
         /\ \A k \in i .. Len(r.ends) + 1 : BodyUpTo(r, i) <= BodyUpTo(r, k)
<1>0. /\ r.size \in Nat
      /\ Len(r.ends) \in Nat 
      /\ \A k \in 1 .. Len(r.ends) : r.ends[k] \in 1 .. r.size
      /\ \A k, j \in 1 .. Len(r.ends) : k < j => r.ends[k] < r.ends[j]
      /\ r.size > 0 => Len(r.ends) > 0 /\ r.ends[Len(r.ends)] = r.size
      /\ r.size = 0 => Len(r.ends) = 0
  BY ResponseCuts
<1>. DEFINE e == r.ends
            m == Len(r.ends)
<1>. HIDE DEF e, m
<1>1. /\ \A k \in 1 .. m : BodyUpTo(r, k) = e[k]
      /\ BodyUpTo(r, m + 1) = r.size
      /\ \A k \in 2 .. m + 1 : BodyBefore(r, k) = e[k - 1]
      /\ BodyBefore(r, 1) = 0
  BY <1>0 DEF BodyBefore, BodyUpTo, e, m
<1>2. /\ r.size \in Nat /\ m \in Nat /\ i \in 1 .. m + 1
      /\ \A k \in 1 .. m : e[k] \in 1 .. r.size
      /\ \A k, j \in 1 .. m : k < j => e[k] < e[j]
      /\ r.size > 0 => m > 0 /\ e[m] = r.size
      /\ r.size = 0 => m = 0
  BY <1>0 DEF e, m
<1>3. BodyBefore(r, i) \in 0 .. r.size /\ BodyUpTo(r, i) \in 0 .. r.size
  <2>0. BodyUpTo(r, i) \in 0 .. r.size
    <3>1. CASE i = m + 1
      BY <1>1, <1>2, <3>1
    <3>2. CASE i # m + 1
      <4>1. i \in 1 .. m
        BY <1>2, <3>2
      <4>2. BodyUpTo(r, i) = e[i] /\ e[i] \in 1 .. r.size
        BY <1>1, <1>2, <4>1
      <4>. QED BY <1>2, <4>2
    <3>. QED BY <3>1, <3>2
  <2>1. CASE i = 1
    BY <1>1, <1>2, <2>0, <2>1
  <2>2. CASE i # 1
    <3>1. i - 1 \in 1 .. m /\ BodyBefore(r, i) = e[i - 1]
      BY <1>1, <1>2, <2>2
    <3>. QED BY <1>2, <2>0, <3>1
  <2>. QED BY <2>1, <2>2
<1>4. ASSUME i <= m PROVE BodyBefore(r, i) < BodyUpTo(r, i) /\ BodyBefore(r, i + 1) = BodyUpTo(r, i)
  <2>1. BodyUpTo(r, i) = e[i] /\ e[i] \in 1 .. r.size /\ BodyBefore(r, i + 1) = e[i]
    <3>1. i \in 1 .. m /\ i + 1 \in 2 .. m + 1 /\ (i + 1) - 1 = i
      BY <1>2, <1>4
    <3>. QED BY <1>1, <1>2, <3>1
  <2>2. CASE i = 1
    BY <1>1, <1>2, <2>1, <2>2
  <2>3. CASE i # 1
    <3>1. i - 1 \in 1 .. m /\ i \in 1 .. m /\ i - 1 < i /\ BodyBefore(r, i) = e[i - 1]
      BY <1>1, <1>2, <1>4, <2>3
    <3>2. e[i - 1] < e[i]
      BY <1>2, <3>1
    <3>. QED BY <2>1, <3>1, <3>2
  <2>. QED BY <2>2, <2>3, <2>1
<1>5. ASSUME i = m + 1 PROVE BodyBefore(r, i) = r.size /\ BodyUpTo(r, i) = r.size
  <2>1. CASE m = 0
    BY <1>1, <1>2, <1>5, <2>1
  <2>2. CASE m # 0
    BY <1>1, <1>2, <1>5, <2>2
  <2>. QED BY <2>1, <2>2
<1>6. ASSUME NEW k \in 1 .. i - 1 PROVE BodyUpTo(r, k) <= BodyBefore(r, i)
  <2>1. /\ k \in 1 .. m /\ i - 1 \in 1 .. m /\ (k < i - 1 \/ k = i - 1)
        /\ BodyUpTo(r, k) = e[k] /\ BodyBefore(r, i) = e[i - 1]
        /\ e[k] \in Nat
    BY <1>1, <1>2
  <2>2. k < i - 1 => e[k] < e[i - 1]
    BY <1>2, <2>1
  <2>. QED BY <1>2, <2>1, <2>2
<1>7. ASSUME NEW k \in i .. m + 1 PROVE BodyUpTo(r, i) <= BodyUpTo(r, k)
  <2>1. CASE k = m + 1
    BY <1>1, <1>3, <2>1
  <2>2. CASE k # m + 1
    <3>1. /\ k \in 1 .. m /\ i \in 1 .. m /\ (i < k \/ i = k) 
          /\ BodyUpTo(r, k) = e[k] /\ BodyUpTo(r, i) = e[i] /\ e[i] \in Nat
      BY <1>1, <1>2, <2>2
    <3>2. i < k => e[i] < e[k]
      BY <1>2, <3>1
    <3>. QED BY <1>2, <3>1, <3>2
  <2>. QED BY <2>1, <2>2
<1>. QED
  BY <1>1, <1>3, <1>4, <1>5, <1>6, <1>7 DEF m

(* The bytes of a chunk: its size line, its part of the body, a line end. *)
LEMMA ChunkBytes ==
  ASSUME NEW r \in Responses, r.framing = "chunked", NEW i \in 1 .. Len(r.ends) + 1,
         NEW n, n = BodyUpTo(r, i) - BodyBefore(r, i)
  PROVE  /\ Chunk(r, i) \in Seq(Byte) /\ Len(Chunk(r, i)) = n + 5 /\ n \in Nat
         /\ Chunk(r, i)[1] = <<"size", n>>
         /\ Chunk(r, i)[2] = CR /\ Chunk(r, i)[3] = LF
         /\ \A j \in 1 .. n : Chunk(r, i)[3 + j] = Written(r)[BodyBefore(r, i) + j]
         /\ Chunk(r, i)[n + 4] = CR /\ Chunk(r, i)[n + 5] = LF
<1>. DEFINE B == BodyBefore(r, i)
            U == BodyUpTo(r, i)
            X == Line("size", n)
            D == SubSeq(Written(r), B + 1, U)
            Y == X \o D
<1>1. B \in Nat /\ U \in Nat /\ B <= U /\ U <= r.size /\ r.size \in Nat /\ n \in Nat
  BY ChunkBounds, ResponseFacts
<1>2. X \in Seq(Byte) /\ Len(X) = 3 /\ X[1] = <<"size", n>> /\ X[2] = CR /\ X[3] = LF
  <2>1. CR \in Byte /\ LF \in Byte /\ <<"size", n>> \in Byte
    BY <1>1 DEF CR, LF, Byte, Kinds
  <2>. QED BY <2>1 DEF Line
<1>3. \A k \in B + 1 .. U : Written(r)[k] \in Byte
  BY <1>1, WrittenFacts
<1>4. D \in Seq(Byte) /\ Len(D) = n /\ \A j \in 1 .. n : D[j] = Written(r)[B + j]
  <2>1. B + 1 \in Int /\ U \in Int
    BY <1>1
  <2>2. /\ D \in Seq(Byte) /\ Len(D) = (IF B + 1 <= U THEN U - (B + 1) + 1 ELSE 0)
        /\ \A j \in 1 .. U - (B + 1) + 1 : D[j] = Written(r)[B + 1 + j - 1]
    BY <2>1, <1>3, SubSeqProperties
  <2>3. n = U - B
    OBVIOUS
  <2>. HIDE DEF D, B, U
  <2>. QED BY <1>1, <2>2, <2>3
<1>. HIDE DEF D, X
<1>5. /\ Y \in Seq(Byte) /\ Len(Y) = 3 + n
      /\ \A k \in 1 .. 3 : Y[k] = X[k]
      /\ \A j \in 1 .. n : Y[3 + j] = D[j]
  <2>1. /\ Y \in Seq(Byte) /\ Len(Y) = Len(X) + Len(D)
        /\ \A k \in 1 .. Len(X) + Len(D) : Y[k] = IF k <= Len(X) THEN X[k] ELSE D[k - Len(X)]
    BY <1>2, <1>4, ConcatProperties
  <2>. HIDE DEF Y
  <2>2. /\ \A k \in 1 .. 3 : k \in 1 .. 3 + n
        /\ \A j \in 1 .. n : 3 + j \in 1 .. 3 + n /\ (3 + j) - 3 = j /\ ~(3 + j <= 3)
    BY <1>1
  <2>. QED BY <1>1, <1>2, <1>4, <2>1, <2>2
<1>6. Chunk(r, i) = Y \o CRLF
  BY DEF Chunk, X, D
<1>. HIDE DEF Y
<1>7. /\ Chunk(r, i) \in Seq(Byte) /\ Len(Chunk(r, i)) = Len(Y) + 2
      /\ \A k \in 1 .. Len(Y) : Chunk(r, i)[k] = Y[k]
      /\ Chunk(r, i)[Len(Y) + 1] = CR
      /\ Chunk(r, i)[Len(Y) + 2] = LF
  BY <1>5, <1>6, EndBehind, SMTT(40)
<1>8. /\ Len(Y) + 1 = n + 4 /\ Len(Y) + 2 = n + 5
      /\ 1 \in 1 .. Len(Y) /\ 2 \in 1 .. Len(Y) /\ 3 \in 1 .. Len(Y)
      /\ \A j \in 1 .. n : 3 + j \in 1 .. Len(Y)
  BY <1>1, <1>5
<1>9. Chunk(r, i)[1] = <<"size", n>> /\ Chunk(r, i)[2] = CR /\ Chunk(r, i)[3] = LF
  <2>1. 1 \in 1 .. 3 /\ 2 \in 1 .. 3 /\ 3 \in 1 .. 3
    OBVIOUS
  <2>. QED BY <1>2, <1>5, <1>7, <1>8, <2>1
<1>10. ASSUME NEW j \in 1 .. n PROVE Chunk(r, i)[3 + j] = Written(r)[B + j]
  BY <1>4, <1>5, <1>7, <1>8
<1>. QED
  BY <1>1, <1>5, <1>7, <1>8, <1>9, <1>10

(* The bytes of a chunked body are those of its chunks. *)
LEMMA ChunkedBodyFacts ==
  ASSUME NEW r \in Responses, r.framing = "chunked"
  PROVE  /\ ChunkedBody(r) \in Seq(Byte)
         /\ Len(ChunkedBody(r)) = r.size + 5 * Len(r.ends) + 5
         /\ \A i \in 1 .. Len(r.ends) + 1 : \A j \in 1 .. BodyUpTo(r, i) - BodyBefore(r, i) + 5 :
              ChunkedBody(r)[ChunksBefore(r, i) + j] = Chunk(r, i)[j]
<1>. DEFINE m == Len(r.ends)
            N == r.size + 5 * m + 5
            In(k, p) == ChunksBefore(r, k) < p /\ p <= BodyUpTo(r, k) + 5 * k
            C(p) == CHOOSE k \in 1 .. m + 1 : In(k, p)
<1>1. m \in Nat /\ r.size \in Nat
  BY ResponseCuts
<1>2. ASSUME NEW i \in 1 .. m + 1
      PROVE  /\ BodyBefore(r, i) \in 0 .. r.size /\ BodyUpTo(r, i) \in 0 .. r.size
             /\ BodyBefore(r, i) <= BodyUpTo(r, i)
             /\ BodyUpTo(r, i) + 5 * i <= N
             /\ i = m + 1 => BodyUpTo(r, i) + 5 * i = N
             /\ \A k \in 1 .. i - 1 : BodyUpTo(r, k) <= BodyBefore(r, i)
  <2>1. /\ BodyBefore(r, i) \in 0 .. r.size /\ BodyUpTo(r, i) \in 0 .. r.size
        /\ i <= m => BodyBefore(r, i) < BodyUpTo(r, i)
        /\ i = m + 1 => BodyBefore(r, i) = r.size /\ BodyUpTo(r, i) = r.size
        /\ \A k \in 1 .. i - 1 : BodyUpTo(r, k) <= BodyBefore(r, i)
    BY ChunkBounds
  <2>. HIDE DEF m
  <2>. QED BY <1>1, <2>1
<1>3. ASSUME NEW p \in 1 .. N, NEW i \in 1 .. m + 1, In(i, p) PROVE C(p) = i
  <2>1. ASSUME NEW k \in 1 .. m + 1, In(k, p), k < i PROVE FALSE
    <3>1. BodyUpTo(r, k) <= BodyBefore(r, i) /\ BodyUpTo(r, k) \in Nat /\ BodyBefore(r, i) \in Nat
      BY <1>1, <1>2, <2>1
    <3>. QED BY <1>1, <1>3, <2>1, <3>1 DEF ChunksBefore
  <2>2. ASSUME NEW k \in 1 .. m + 1, In(k, p), i < k PROVE FALSE
    <3>1. BodyUpTo(r, i) <= BodyBefore(r, k) /\ BodyUpTo(r, i) \in Nat /\ BodyBefore(r, k) \in Nat
      BY <1>1, <1>2, <2>2
    <3>. QED BY <1>1, <1>3, <2>2, <3>1 DEF ChunksBefore
  <2>3. \A k \in 1 .. m + 1 : In(k, p) => k = i
    <3>. HIDE DEF In
    <3>. QED BY <1>1, <2>1, <2>2
  <2>. HIDE DEF In
  <2>. QED BY <1>3, <2>3
<1>4. ASSUME NEW p \in 1 .. N PROVE \E i \in 1 .. m + 1 : In(i, p)
  <2>. DEFINE T == {k \in 1 .. m + 1 : p <= BodyUpTo(r, k) + 5 * k}
  <2>1. m + 1 \in T /\ T \in SUBSET Nat
    <3>1. m + 1 \in 1 .. m + 1
      BY <1>1
    <3>2. BodyUpTo(r, m + 1) + 5 * (m + 1) = N
      BY <1>2, <3>1
    <3>. HIDE DEF m, N
    <3>. QED BY <1>1, <3>1, <3>2
  <2>2. PICK i \in T : \A k \in T : i <= k
    BY <2>1, LeastOf
  <2>3. CASE i = 1
    <3>1. BodyBefore(r, 1) = 0
      BY DEF BodyBefore
    <3>. QED BY <1>1, <2>2, <2>3, <3>1 DEF ChunksBefore
  <2>4. CASE i # 1
    <3>1. i - 1 \in 1 .. m + 1 /\ i - 1 \notin T /\ i - 1 <= m
      BY <1>1, <2>2, <2>4
    <3>2. p > BodyUpTo(r, i - 1) + 5 * (i - 1)
      <4>1. BodyUpTo(r, i - 1) \in Nat
        BY <1>2, <3>1
      <4>. HIDE DEF m, N
      <4>. QED BY <1>1, <3>1, <4>1
    <3>3. BodyUpTo(r, i - 1) = BodyBefore(r, i)
      <4>1. i - 1 <= m => BodyBefore(r, (i - 1) + 1) = BodyUpTo(r, i - 1)
        BY <3>1, ChunkBounds
      <4>. QED BY <1>1, <2>2, <3>1, <4>1
    <3>. QED BY <2>2, <3>2, <3>3 DEF ChunksBefore
  <2>. QED BY <2>3, <2>4
<1>. HIDE DEF In
<1>5. ChunkedBody(r) = [p \in 1 .. N |-> Chunk(r, C(p))[p - ChunksBefore(r, C(p))]]
  BY DEF ChunkedBody, In
<1>. HIDE DEF C, N
<1>6. ASSUME NEW p \in 1 .. N, NEW i \in 1 .. m + 1, In(i, p)
      PROVE  /\ p - ChunksBefore(r, i) \in 1 .. BodyUpTo(r, i) - BodyBefore(r, i) + 5
             /\ Chunk(r, i)[p - ChunksBefore(r, i)] \in Byte
             /\ ChunkedBody(r)[p] = Chunk(r, i)[p - ChunksBefore(r, i)]
  <2>1. p - ChunksBefore(r, i) \in 1 .. BodyUpTo(r, i) - BodyBefore(r, i) + 5
    <3>1. BodyBefore(r, i) \in Nat /\ BodyUpTo(r, i) \in Nat
      BY <1>2
    <3>. QED BY <1>6, <3>1 DEF In, ChunksBefore
  <2>2. Chunk(r, i) \in Seq(Byte) /\ Len(Chunk(r, i)) = BodyUpTo(r, i) - BodyBefore(r, i) + 5
    BY ChunkBytes
  <2>3. Chunk(r, i)[p - ChunksBefore(r, i)] \in Byte
    BY <2>1, <2>2
  <2>4. C(p) = i
    BY <1>3, <1>6
  <2>. QED BY <1>5, <2>1, <2>3, <2>4
<1>7. ChunkedBody(r) \in [1 .. N -> Byte]
  <2>1. \A p \in 1 .. N : ChunkedBody(r)[p] \in Byte
    BY <1>4, <1>6
  <2>2. DOMAIN ChunkedBody(r) = 1 .. N /\ ChunkedBody(r) = [p \in 1 .. N |-> ChunkedBody(r)[p]]
    BY <1>5
  <2>. QED BY <2>1, <2>2
<1>8. N \in Nat /\ N = r.size + 5 * m + 5
  BY <1>1 DEF N
<1>9. ASSUME NEW i \in 1 .. m + 1, NEW j \in 1 .. BodyUpTo(r, i) - BodyBefore(r, i) + 5
      PROVE  ChunkedBody(r)[ChunksBefore(r, i) + j] = Chunk(r, i)[j]
  <2>. DEFINE p == ChunksBefore(r, i) + j
  <2>1. BodyBefore(r, i) \in Nat /\ BodyUpTo(r, i) \in Nat /\ BodyUpTo(r, i) + 5 * i <= N
    BY <1>2
  <2>2. p \in 1 .. N /\ In(i, p) /\ p - ChunksBefore(r, i) = j
    BY <1>8, <2>1, SMTT(40) DEF In, ChunksBefore
  <2>. HIDE DEF p
  <2>3. ChunkedBody(r)[p] = Chunk(r, i)[p - ChunksBefore(r, i)]
    BY <1>6, <2>2
  <2>. QED BY <2>2, <2>3 DEF p
<1>. QED
  BY <1>7, <1>8, <1>9

(* The bytes of the whole response: its header, then its body or its        *)
(* chunks.                                                                  *)
LEMMA StreamFacts ==
  ASSUME NEW r \in Responses
  PROVE  /\ Stream(r) \in Seq(Byte) /\ Len(Stream(r)) \in Nat
         /\ Len(Stream(r)) = H(r) + (IF r.framing = "chunked"
                                     THEN r.size + 5 * Len(r.ends) + 5 ELSE r.size)
         /\ \A k \in 1 .. NL(r) : /\ Stream(r)[3 * k - 2] = <<LineKind(r, k), LineVal(r, k)>>
                                  /\ Stream(r)[3 * k - 1] = CR /\ Stream(r)[3 * k] = LF
         /\ Stream(r)[H(r) - 1] = CR /\ Stream(r)[H(r)] = LF
         /\ r.framing # "chunked" =>
              \A j \in 1 .. r.size : Stream(r)[H(r) + j] = Written(r)[j]
         /\ r.framing = "chunked" =>
              \A i \in 1 .. Len(r.ends) + 1 : \A j \in 1 .. BodyUpTo(r, i) - BodyBefore(r, i) + 5 :
                Stream(r)[H(r) + ChunksBefore(r, i) + j] = Chunk(r, i)[j]
<1>. DEFINE X == HeaderOf(r)
            Y == IF r.framing = "chunked" THEN ChunkedBody(r) ELSE Written(r)
            h == H(r)
<1>1. /\ X \in Seq(Byte) /\ Len(X) = h /\ NL(r) \in 1 .. 3 /\ h = 3 * NL(r) + 2
      /\ \A k \in 1 .. NL(r) : /\ X[3 * k - 2] = <<LineKind(r, k), LineVal(r, k)>>
                               /\ X[3 * k - 1] = CR /\ X[3 * k] = LF
      /\ X[h - 1] = CR /\ X[h] = LF
  <2>1. NL(r) \in 1 .. 3 /\ H(r) = 3 * NL(r) + 2
    BY LineKinds DEF H
  <2>. QED BY <2>1, HeaderBytes
<1>2. /\ Y \in Seq(Byte)
      /\ Len(Y) = IF r.framing = "chunked" THEN r.size + 5 * Len(r.ends) + 5 ELSE r.size
  BY ChunkedBodyFacts, WrittenFacts
<1>3. Stream(r) = X \o Y
  BY DEF Stream
<1>4. /\ Stream(r) \in Seq(Byte) /\ Len(Stream(r)) = h + Len(Y) /\ h \in Nat /\ Len(Y) \in Nat
      /\ \A k \in 1 .. h : Stream(r)[k] = X[k]
      /\ \A j \in 1 .. Len(Y) : Stream(r)[h + j] = Y[j]
  <2>. HIDE DEF X, Y
  <2>1. /\ X \o Y \in Seq(Byte) /\ Len(X \o Y) = Len(X) + Len(Y)
        /\ \A i \in 1 .. Len(X) + Len(Y) : (X \o Y)[i] =
              IF i <= Len(X) THEN X[i] ELSE Y[i - Len(X)]
    BY <1>1, <1>2, ConcatProperties
  <2>2. h \in Nat /\ Len(Y) \in Nat
    BY <1>1, <1>2
  <2>. HIDE DEF h
  <2>3. /\ \A k \in 1 .. h : k \in 1 .. h + Len(Y) /\ k <= h
        /\ \A j \in 1 .. Len(Y) : h + j \in 1 .. h + Len(Y) /\ (h + j) - h = j /\ ~(h + j <= h)
    BY <2>2
  <2>4. \A k \in 1 .. h : Stream(r)[k] = X[k]
    BY <1>1, <1>3, <2>1, <2>2, <2>3
  <2>5. ASSUME NEW j \in 1 .. Len(Y) PROVE Stream(r)[h + j] = Y[j]
    <3>1. h + j \in 1 .. h + Len(Y) /\ (h + j) - h = j /\ ~(h + j <= h)
      BY <2>3
    <3>2. (X \o Y)[h + j] = Y[(h + j) - h]
      BY <1>1, <2>1, <3>1
    <3>. QED BY <1>3, <3>1, <3>2
  <2>. QED BY <1>1, <1>3, <2>1, <2>2, <2>4, <2>5
<1>5. ASSUME NEW k \in 1 .. NL(r)
      PROVE  3 * k - 2 \in 1 .. h /\ 3 * k - 1 \in 1 .. h /\ 3 * k \in 1 .. h
  <2>. HIDE DEF h
  <2>. QED BY <1>1
<1>6. h - 1 \in 1 .. h /\ h \in 1 .. h
  <2>. HIDE DEF h
  <2>. QED BY <1>1
<1>7. ASSUME r.framing # "chunked", NEW j \in 1 .. r.size
      PROVE  Stream(r)[h + j] = Written(r)[j]
  <2>1. j \in 1 .. Len(Y) /\ Y = Written(r)
    BY <1>2, <1>7
  <2>. HIDE DEF Y
  <2>. QED BY <1>4, <2>1
<1>8. ASSUME r.framing = "chunked", NEW i \in 1 .. Len(r.ends) + 1,
             NEW j \in 1 .. BodyUpTo(r, i) - BodyBefore(r, i) + 5
      PROVE  Stream(r)[H(r) + ChunksBefore(r, i) + j] = Chunk(r, i)[j]
  <2>0. /\ r.size \in Nat /\ Len(r.ends) \in Nat
        /\ BodyBefore(r, i) \in 0 .. r.size /\ BodyUpTo(r, i) \in 0 .. r.size
    BY <1>8, ResponseCuts, ChunkBounds
  <2>1. PICK p \in 1 .. Len(Y) : p = ChunksBefore(r, i) + j
    <3>1. ChunksBefore(r, i) \in Nat
      BY <2>0 DEF ChunksBefore
    <3>2. ChunksBefore(r, i) + j <= r.size + 5 * Len(r.ends) + 5
      <4>1. ChunksBefore(r, i) + j <= BodyUpTo(r, i) + 5 * i
        BY <2>0 DEF ChunksBefore
      <4>2. 5 * i <= 5 * Len(r.ends) + 5 /\ BodyUpTo(r, i) <= r.size
        BY <2>0
      <4>3. ChunksBefore(r, i) + j \in Int /\ BodyUpTo(r, i) \in Int /\ i \in Int
        BY <2>0, <3>1
      <4>4. ASSUME NEW a \in Int, NEW u \in Int, NEW s \in Int, NEW l \in Int,
                   a <= u + 5 * i, 5 * i <= 5 * l + 5, u <= s
            PROVE  a <= s + 5 * l + 5
        BY <4>3, <4>4
      <4>5. r.size \in Int /\ Len(r.ends) \in Int
        BY <2>0
      <4>. HIDE DEF Y
      <4>. QED BY <4>1, <4>2, <4>3, <4>4, <4>5
    <3>. QED BY <1>2, <1>8, <3>1, <3>2
  <2>2. Y[p] = Chunk(r, i)[j] /\ H(r) + ChunksBefore(r, i) + j = h + p
    <3>1. Y = ChunkedBody(r)
      BY <1>8
    <3>2. ChunkedBody(r)[ChunksBefore(r, i) + j] = Chunk(r, i)[j]
      BY <1>8, ChunkedBodyFacts
    <3>3. ChunksBefore(r, i) \in Nat /\ H(r) \in Nat
      BY <2>0, LineKinds DEF ChunksBefore
    <3>. QED BY <2>1, <3>1, <3>2, <3>3
  <2>. HIDE DEF Y
  <2>. QED BY <1>4, <2>1, <2>2
<1>9. Len(Stream(r)) = H(r) + (IF r.framing = "chunked" THEN r.size + 5 * Len(r.ends) + 5 ELSE r.size)
  BY <1>2, <1>4
<1>. HIDE DEF X, Y
<1>. QED
  BY <1>1, <1>4, <1>5, <1>6, <1>7, <1>8, <1>9

-----------------------------------------------------------------------------
(* Where the chunks lie, and what findIndexInUint8Array finds at each       *)
(* place.                                                                   *)

(* The chunks are one behind the other in the stream. *)
LEMMA ChunkPlaces ==
  ASSUME NEW r \in Responses, r.framing = "chunked", NEW i \in 1 .. Len(r.ends) + 1
  PROVE  /\ SizeAt(r, i) \in Nat /\ DataAt(r, i) = SizeAt(r, i) + 3
         /\ DataEnd(r, i) \in Nat /\ DataAt(r, i) <= DataEnd(r, i)
         /\ DataEnd(r, i) - DataAt(r, i) = BodyUpTo(r, i) - BodyBefore(r, i)
         /\ i <= Len(r.ends) => /\ DataAt(r, i) < DataEnd(r, i)
                                /\ SizeAt(r, i + 1) = DataEnd(r, i) + 2
         /\ i = Len(r.ends) + 1 => /\ DataAt(r, i) = DataEnd(r, i)
                                   /\ Len(Stream(r)) = DataEnd(r, i) + 2
         /\ DataEnd(r, i) + 2 <= Len(Stream(r))
         /\ SizeAt(r, 1) = H(r)
<1>1. /\ r.size \in Nat /\ Len(r.ends) \in Nat /\ H(r) \in Nat
      /\ Len(Stream(r)) = H(r) + (r.size + 5 * Len(r.ends) + 5)
  <2>1. r.size \in Nat /\ Len(r.ends) \in Nat
    BY ResponseCuts
  <2>2. H(r) \in Nat
    BY LineKinds
  <2>. QED BY <2>1, <2>2, StreamFacts
<1>2. /\ BodyBefore(r, i) \in 0 .. r.size /\ BodyUpTo(r, i) \in 0 .. r.size
      /\ i <= Len(r.ends) => BodyBefore(r, i) < BodyUpTo(r, i)
      /\ i = Len(r.ends) + 1 => BodyBefore(r, i) = r.size /\ BodyUpTo(r, i) = r.size
      /\ BodyBefore(r, 1) = 0
      /\ i <= Len(r.ends) => BodyBefore(r, i + 1) = BodyUpTo(r, i)
  BY ChunkBounds
<1>. DEFINE b == BodyBefore(r, i)
            u == BodyUpTo(r, i)
            m == Len(r.ends)
            h == H(r)
            N == Len(Stream(r))
            sa == SizeAt(r, i)
            da == DataAt(r, i)
            de == DataEnd(r, i)
<1>3. sa = h + (b + 5 * (i - 1)) /\ da = sa + 3 /\ de = da + u - b
  BY DEF SizeAt, DataAt, DataEnd, ChunksBefore
<1>4. i <= m => SizeAt(r, i + 1) = h + (u + 5 * (i + 1 - 1))
  BY <1>2 DEF SizeAt, ChunksBefore
<1>5. SizeAt(r, 1) = h + (0 + 5 * (1 - 1))
  BY <1>2 DEF SizeAt, ChunksBefore
<1>6. /\ h \in Nat /\ b \in Nat /\ u \in Nat /\ m \in Nat /\ i \in 1 .. m + 1 /\ b <= u
      /\ r.size \in Nat /\ u <= r.size /\ N = h + (r.size + 5 * m + 5)
      /\ i <= m => b < u
      /\ i = m + 1 => b = r.size /\ u = r.size
  <2>1. i <= m \/ i = m + 1
    BY <1>1
  <2>2. b \in Nat /\ u \in Nat /\ b <= u
    <3>. HIDE DEF m
    <3>. QED BY <1>1, <1>2, <2>1 DEF m
  <2>. QED BY <1>1, <1>2, <2>2
<1>. SUFFICES /\ sa \in Nat /\ de \in Nat /\ da <= de /\ de - da = u - b /\ da = sa + 3
              /\ i <= m => da < de /\ SizeAt(r, i + 1) = de + 2
              /\ i = m + 1 => da = de /\ N = de + 2
              /\ de + 2 <= N /\ SizeAt(r, 1) = h
  OBVIOUS
<1>. HIDE DEF b, u, m, h, N, sa, da, de
<1>7. sa \in Nat /\ da \in Nat /\ de = h + u + 5 * i - 2 /\ de \in Nat
  BY <1>3, <1>6
<1>8. de - da = u - b /\ da <= de
  BY <1>3, <1>6, <1>7
<1>9. 5 * i <= 5 * m + 5 /\ (i = m + 1 => 5 * i = 5 * m + 5)
  BY <1>6
<1>10. de + 2 <= N
  BY <1>6, <1>7, <1>9
<1>11. i <= m => da < de /\ SizeAt(r, i + 1) = de + 2
  BY <1>4, <1>6, <1>7, <1>8
<1>12. i = m + 1 => da = de /\ N = de + 2
  BY <1>6, <1>7, <1>8, <1>9
<1>. QED
  BY <1>3, <1>5, <1>6, <1>7, <1>8, <1>10, <1>11, <1>12

(* The bytes of the i-th chunk at its place in the stream. *)
LEMMA ChunkInStream ==
  ASSUME NEW r \in Responses, r.framing = "chunked", NEW i \in 1 .. Len(r.ends) + 1
  PROVE  /\ Stream(r)[SizeAt(r, i) + 1] = <<"size", BodyUpTo(r, i) - BodyBefore(r, i)>>
         /\ Stream(r)[SizeAt(r, i) + 2] = CR /\ Stream(r)[SizeAt(r, i) + 3] = LF
         /\ \A j \in 1 .. BodyUpTo(r, i) - BodyBefore(r, i) :
              Stream(r)[DataAt(r, i) + j] = Written(r)[BodyBefore(r, i) + j]
         /\ Stream(r)[DataEnd(r, i) + 1] = CR /\ Stream(r)[DataEnd(r, i) + 2] = LF
<1>. DEFINE n == BodyUpTo(r, i) - BodyBefore(r, i)
            s == SizeAt(r, i)
            C == Chunk(r, i)
<1>1. /\ n \in Nat /\ C[1] = <<"size", n>> /\ C[2] = CR /\ C[3] = LF
      /\ \A j \in 1 .. n : C[3 + j] = Written(r)[BodyBefore(r, i) + j]
      /\ C[n + 4] = CR /\ C[n + 5] = LF
  BY ChunkBytes
<1>2. \A j \in 1 .. n + 5 : Stream(r)[s + j] = C[j]
  BY StreamFacts DEF SizeAt
<1>3. s \in Nat /\ DataAt(r, i) = s + 3 /\ DataEnd(r, i) - DataAt(r, i) = n /\ DataEnd(r, i) \in Nat
  BY ChunkPlaces
<1>a. DataAt(r, i) \in Nat
  BY <1>3
<1>4. DataEnd(r, i) + 1 = s + (n + 4) /\ DataEnd(r, i) + 2 = s + (n + 5)
  <2>1. n \in Nat
    BY <1>1
  <2>2. PICK d \in Nat : d = DataEnd(r, i)
    BY <1>3
  <2>3. PICK e \in Nat : e = DataAt(r, i)
    BY <1>a
  <2>4. s \in Nat /\ e = s + 3 /\ d - e = n
    BY <1>3, <2>2, <2>3
  <2>. HIDE DEF n, s
  <2>5. d + 1 = s + (n + 4) /\ d + 2 = s + (n + 5)
    BY <2>1, <2>4
  <2>. QED BY <2>2, <2>5
<1>5. 1 \in 1 .. n + 5 /\ 2 \in 1 .. n + 5 /\ 3 \in 1 .. n + 5 /\ n + 4 \in 1 .. n + 5 /\ n + 5 \in 1 .. n + 5
  <2>. HIDE DEF n, s
  <2>. QED BY <1>1
<1>6. ASSUME NEW j \in 1 .. n PROVE Stream(r)[DataAt(r, i) + j] = Written(r)[BodyBefore(r, i) + j]
  <2>. HIDE DEF n, s, C
  <2>1. 3 + j \in 1 .. n + 5 /\ DataAt(r, i) + j = s + (3 + j)
    BY <1>1, <1>3, <1>a
  <2>. QED BY <1>1, <1>2, <2>1
<1>. HIDE DEF n, s, C
<1>7. Stream(r)[s + 1] = <<"size", n>> /\ Stream(r)[s + 2] = CR /\ Stream(r)[s + 3] = LF
  BY <1>1, <1>2, <1>5
<1>8. Stream(r)[DataEnd(r, i) + 1] = CR /\ Stream(r)[DataEnd(r, i) + 2] = LF
  BY <1>1, <1>2, <1>4, <1>5
<1>. QED
  BY <1>6, <1>7, <1>8 DEF n, s

-----------------------------------------------------------------------------

(* The line end behind a line of one byte is found at 1. *)
LEMMA LineEndOne ==
  ASSUME NEW s \in Seq(Byte), Len(s) >= 3, s[1] # CR, s[2] = CR, s[3] = LF
  PROVE  findLineEnd(s) = 1
<1>. DEFINE E == {i \in 0 .. Len(s) - 2 : s[i + 1] = CR /\ s[i + 2] = LF}
<1>1. 1 \in E /\ 0 \notin E
  OBVIOUS
<1>2. \A j \in E : j \in Nat /\ 1 <= j
  BY <1>1
<1>3. findLineEnd(s) = IF E = {} THEN -1 ELSE CHOOSE i \in E : \A j \in E : i <= j
  BY DEF findLineEnd
<1>. HIDE DEF E
<1>4. \A i \in E : (\A j \in E : i <= j) => i = 1
  BY <1>1, <1>2
<1>. QED
  BY <1>1, <1>2, <1>3, <1>4

(* The line end of an empty line is found at 0. *)
LEMMA LineEndZero ==
  ASSUME NEW s \in Seq(Byte), Len(s) >= 2, s[1] = CR, s[2] = LF
  PROVE  findLineEnd(s) = 0
<1>. DEFINE E == {i \in 0 .. Len(s) - 2 : s[i + 1] = CR /\ s[i + 2] = LF}
<1>1. 0 \in E
  OBVIOUS
<1>2. \A j \in E : j \in Nat /\ 0 <= j
  BY <1>1
<1>3. findLineEnd(s) = IF E = {} THEN -1 ELSE CHOOSE i \in E : \A j \in E : i <= j
  BY DEF findLineEnd
<1>. HIDE DEF E
<1>4. \A i \in E : (\A j \in E : i <= j) => i = 0
  BY <1>1, <1>2
<1>. QED
  BY <1>1, <1>2, <1>3, <1>4

(* Where the line end has not arrived, none is found. *)
LEMMA LineEndNone ==
  ASSUME NEW s \in Seq(Byte), Len(s) <= 1 \/ (Len(s) = 2 /\ s[1] # CR)
  PROVE  findLineEnd(s) = -1
<1>. DEFINE E == {i \in 0 .. Len(s) - 2 : s[i + 1] = CR /\ s[i + 2] = LF}
<1>1. E = {}
  OBVIOUS
<1>3. findLineEnd(s) = IF E = {} THEN -1 ELSE CHOOSE i \in E : \A j \in E : i <= j
  BY DEF findLineEnd
<1>. HIDE DEF E
<1>. QED
  BY <1>1, <1>3

-----------------------------------------------------------------------------

(* The bytes that have arrived behind position c. *)
LEMMA LeftFacts ==
  ASSUME NEW r \in Responses, NEW R \in 0 .. Len(Stream(r)), NEW c \in 0 .. R
  PROVE  /\ Left(r, R, c) \in Seq(Byte) /\ Len(Left(r, R, c)) = R - c
         /\ \A j \in 1 .. R - c : Left(r, R, c)[j] = Stream(r)[c + j]
<1>1. Stream(r) \in Seq(Byte) /\ Len(Stream(r)) \in Nat
  BY StreamFacts
<1>2. c + 1 \in Int /\ R \in Int /\ \A i \in c + 1 .. R : Stream(r)[i] \in Byte
  BY <1>1
<1>3. /\ Left(r, R, c) \in Seq(Byte) /\ Len(Left(r, R, c)) = (IF c + 1 <= R THEN R - (c + 1) + 1 ELSE 0)
      /\ \A j \in 1 .. R - (c + 1) + 1 : Left(r, R, c)[j] = Stream(r)[c + 1 + j - 1]
  BY <1>2, SubSeqProperties DEF Left
<1>. QED
  BY <1>1, <1>3

(* What is left when n of these bytes have been read. *)
LEMMA LeftRest ==
  ASSUME NEW r \in Responses, NEW R \in 0 .. Len(Stream(r)), NEW c \in 0 .. R,
         NEW n \in 0 .. R - c
  PROVE  SubSeq(Left(r, R, c), n + 1, Len(Left(r, R, c))) = Left(r, R, c + n)
<1>. DEFINE s == Left(r, R, c)
            t == SubSeq(s, n + 1, Len(s))
            u == Left(r, R, c + n)
<1>0. Len(Stream(r)) \in Nat
  BY StreamFacts
<1>1. s \in Seq(Byte) /\ Len(s) = R - c /\ \A j \in 1 .. R - c : s[j] = Stream(r)[c + j]
  BY LeftFacts
<1>2. /\ u \in Seq(Byte) /\ Len(u) = R - (c + n)
      /\ \A j \in 1 .. R - (c + n) : u[j] = Stream(r)[c + n + j]
  <2>1. c + n \in 0 .. R
    BY <1>0
  <2>. QED BY <2>1, LeftFacts
<1>. HIDE DEF s, u
<1>3. n + 1 \in Int /\ Len(s) \in Int /\ \A i \in n + 1 .. Len(s) : s[i] \in Byte
  BY <1>0, <1>1
<1>4. /\ t \in Seq(Byte) /\ Len(t) = (IF n + 1 <= Len(s) THEN Len(s) - (n + 1) + 1 ELSE 0)
      /\ \A j \in 1 .. Len(s) - (n + 1) + 1 : t[j] = s[n + 1 + j - 1]
  BY <1>3, SubSeqProperties
<1>. HIDE DEF t
<1>5. Len(t) = R - (c + n)
  BY <1>0, <1>1, <1>4
<1>6. ASSUME NEW j \in 1 .. R - (c + n) PROVE t[j] = u[j]
  <2>1. j \in 1 .. Len(s) - (n + 1) + 1 /\ n + 1 + j - 1 = n + j /\ n + j \in 1 .. R - c
        /\ c + (n + j) = c + n + j
    BY <1>0, <1>1
  <2>. QED BY <1>1, <1>2, <1>4, <2>1
<1>. QED
  BY <1>2, <1>4, <1>5, <1>6, SeqEqual DEF t, u, s

(* What is left when more has arrived. *)
LEMMA LeftMore ==
  ASSUME NEW r \in Responses, NEW R \in 0 .. Len(Stream(r)), NEW R0 \in 0 .. R, NEW c \in 0 .. R0
  PROVE  Left(r, R0, c) \o SubSeq(Stream(r), R0 + 1, R) = Left(r, R, c)
<1>1. Stream(r) \in Seq(Byte) /\ Len(Stream(r)) \in Nat
  BY StreamFacts
<1>2. c + 1 \in 1 .. Len(Stream(r)) + 1 /\ R0 \in c + 1 - 1 .. Len(Stream(r)) /\ R \in R0 .. Len(Stream(r))
  BY <1>1
<1>. QED
  BY <1>1, <1>2, ConcatAdjacentSubSeq DEF Left

(* The next n bytes are the bytes of the body behind its first k. *)
LEMMA BodyMore ==
  ASSUME NEW r \in Responses, NEW R \in 0 .. Len(Stream(r)), NEW c \in 0 .. R,
         NEW n \in 0 .. R - c, NEW k \in Nat, k + n <= r.size,
         \A j \in 1 .. n : Stream(r)[c + j] = Written(r)[k + j]
  PROVE  SubSeq(Written(r), 1, k) \o SubSeq(Left(r, R, c), 1, n) = SubSeq(Written(r), 1, k + n)
<1>. DEFINE W == Written(r)
            s == Left(r, R, c)
            a == SubSeq(s, 1, n)
            b == SubSeq(W, k + 1, k + n)
<1>0. Len(Stream(r)) \in Nat /\ W \in Seq(Byte) /\ Len(W) = r.size /\ r.size \in Nat
  BY StreamFacts, WrittenFacts, ResponseFacts
<1>1. s \in Seq(Byte) /\ Len(s) = R - c /\ \A j \in 1 .. R - c : s[j] = Stream(r)[c + j]
  BY LeftFacts
<1>. HIDE DEF s, W
<1>2. n \in Int /\ \A i \in 1 .. n : s[i] \in Byte
  BY <1>0, <1>1
<1>3. /\ a \in Seq(Byte) /\ Len(a) = (IF 1 <= n THEN n - 1 + 1 ELSE 0)
      /\ \A j \in 1 .. n - 1 + 1 : a[j] = s[1 + j - 1]
  BY <1>2, SubSeqProperties
<1>4. k + 1 \in Int /\ k + n \in Int /\ \A i \in k + 1 .. k + n : W[i] \in Byte
  BY <1>0
<1>5. /\ b \in Seq(Byte) /\ Len(b) = (IF k + 1 <= k + n THEN k + n - (k + 1) + 1 ELSE 0)
      /\ \A j \in 1 .. k + n - (k + 1) + 1 : b[j] = W[k + 1 + j - 1]
  BY <1>4, SubSeqProperties
<1>. HIDE DEF a, b
<1>6. Len(a) = n /\ Len(b) = n
  BY <1>3, <1>5
<1>7. ASSUME NEW j \in 1 .. n PROVE a[j] = b[j]
  <2>1. j \in 1 .. n - 1 + 1 /\ 1 + j - 1 = j /\ j \in 1 .. R - c /\ j \in 1 .. k + n - (k + 1) + 1
        /\ k + 1 + j - 1 = k + j
    BY <1>0
  <2>2. a[j] = s[j] /\ s[j] = Stream(r)[c + j] /\ b[j] = W[k + j]
    BY <1>1, <1>3, <1>5, <2>1
  <2>. QED BY <2>2 DEF W
<1>8. a = b
  BY <1>3, <1>5, <1>6, <1>7, SeqEqual
<1>9. SubSeq(W, 1, k) \o b = SubSeq(W, 1, k + n)
  <2>1. 1 \in 1 .. Len(W) + 1 /\ k \in 1 - 1 .. Len(W) /\ k + n \in k .. Len(W)
    BY <1>0
  <2>. QED BY <1>0, <2>1, ConcatAdjacentSubSeq DEF b
<1>. QED
  BY <1>8, <1>9 DEF a, b, W, s

-----------------------------------------------------------------------------
(* The states the parser can be in: before a line of the header, or in the  *)
(* body.                                                                    *)

(* Two states of the parser that agree on every field are the same. *)
LEMMA SameParser ==
  ASSUME NEW p, IsParser(p), NEW q, IsParser(q),
         p.statusCode = q.statusCode,
         p.statusLineEndIndex = q.statusLineEndIndex,
         p.headers = q.headers,
         p.headerIndices = q.headerIndices,
         p.headersComplete = q.headersComplete,
         p.headerEndIdx = q.headerEndIdx,
         p.body = q.body,
         p.bodyStartIndex = q.bodyStartIndex,
         p.chunks = q.chunks,
         p.complete = q.complete,
         p.threw = q.threw,
         p.remainingBodyBytes = q.remainingBodyBytes,
         p.isChunked = q.isChunked,
         p.remaining = q.remaining,
         p.currentByteIdx = q.currentByteIdx
  PROVE  p = q
BY DEF IsParser, Fields

(* A state is AtLine exactly if its fields say so. *)
LEMMA AtLineFields ==
  ASSUME NEW r, NEW R, NEW k, NEW p
  PROVE  IsAtLine(p, r, R, k) <=> p = AtLine(r, R, k)
<1>. DEFINE w == AtLine(r, R, k)
<1>1. IsParser(w)
  BY DEF AtLine, IsParser, Fields
<1>2. IsAtLine(w, r, R, k)
  BY <1>1, Zenon DEF AtLine, IsAtLine
<1>. HIDE DEF w
<1>3. ASSUME IsAtLine(p, r, R, k) PROVE p = w
  BY <1>2, <1>3, SameParser, Zenon DEF IsAtLine
<1>. QED
  BY <1>2, <1>3 DEF w

(* A state is InBody exactly if its fields say so. *)
LEMMA InBodyFields ==
  ASSUME NEW r, NEW R, NEW c, NEW start, NEW body, NEW chunks, NEW complete, NEW left, NEW p
  PROVE  IsInBody(p, r, R, c, start, body, chunks, complete, left)
         <=> p = InBody(r, R, c, start, body, chunks, complete, left)
<1>. DEFINE w == InBody(r, R, c, start, body, chunks, complete, left)
<1>1. IsParser(w)
  BY DEF InBody, IsParser, Fields
<1>2. IsInBody(w, r, R, c, start, body, chunks, complete, left)
  BY <1>1, Zenon DEF InBody, IsInBody
<1>. HIDE DEF w
<1>3. ASSUME IsInBody(p, r, R, c, start, body, chunks, complete, left) PROVE p = w
  BY <1>2, <1>3, SameParser, ZenonT(60) DEF IsInBody
<1>. QED
  BY <1>2, <1>3 DEF w

(* Moving the parser changes nothing but its position and what is left. *)
LEMMA MovedFields ==
  ASSUME NEW p, IsParser(p), NEW rest, NEW c, NEW q, q = Moved(p, rest, c)
  PROVE  /\ IsParser(q) /\ q.remaining = rest /\ q.currentByteIdx = c
         /\ \A f \in Fields \ {"remaining", "currentByteIdx"} : q[f] = p[f]
BY DEF IsParser, Fields, Moved

(* getLine at a line of one byte returns it and moves behind its line end. *)
LEMMA AfterOne ==
  ASSUME NEW r \in Responses, NEW R \in 0 .. Len(Stream(r)), NEW c \in 0 .. R,
         NEW p, p.remaining = Left(r, R, c), p.currentByteIdx = c,
         c + 3 <= R, Stream(r)[c + 1] # CR, Stream(r)[c + 2] = CR, Stream(r)[c + 3] = LF
  PROVE  /\ HasLine(p) /\ LineOf(p) = <<Stream(r)[c + 1]>>
         /\ AfterLine(p) = Moved(p, Left(r, R, c + 3), c + 3)
<1>. DEFINE s == Left(r, R, c)
<1>0. Len(Stream(r)) \in Nat
  BY StreamFacts
<1>1. s \in Seq(Byte) /\ Len(s) = R - c /\ \A j \in 1 .. R - c : s[j] = Stream(r)[c + j]
  BY LeftFacts
<1>. HIDE DEF s
<1>2. 1 \in 1 .. R - c /\ 2 \in 1 .. R - c /\ 3 \in 1 .. R - c /\ Len(s) >= 3
  BY <1>0, <1>1
<1>3. s[1] = Stream(r)[c + 1] /\ s[2] = CR /\ s[3] = LF
  BY <1>1, <1>2
<1>4. findLineEnd(s) = 1
  BY <1>1, <1>2, <1>3, LineEndOne
<1>5. HasLine(p)
  BY <1>4 DEF HasLine, s
<1>6. LineOf(p) = <<s[1]>>
  <2>1. LineOf(p) = SubSeq(s, 1, 1)
    BY <1>4 DEF LineOf, s
  <2>2. s[1] \in Byte /\ <<s[1]>> \in Seq(Byte) /\ Len(<<s[1]>>) = 1 /\ <<s[1]>>[1] = s[1]
    BY <1>1, <1>2
  <2>3. \A i \in 1 .. 1 : s[i] \in Byte
    BY <2>2
  <2>4. /\ SubSeq(s, 1, 1) \in Seq(Byte) /\ Len(SubSeq(s, 1, 1)) = (IF 1 <= 1 THEN 1 - 1 + 1 ELSE 0)
        /\ \A j \in 1 .. 1 - 1 + 1 : SubSeq(s, 1, 1)[j] = s[1 + j - 1]
    BY <2>3, SubSeqProperties
  <2>. DEFINE t == SubSeq(s, 1, 1)
  <2>5. t \in Seq(Byte) /\ Len(t) = 1 /\ t[1] = s[1]
    <3>. HIDE DEF t
    <3>. QED BY <2>4 DEF t
  <2>. HIDE DEF t
  <2>6. t = <<s[1]>>
    BY <2>2, <2>5, SeqEqual
  <2>. QED BY <2>1, <2>6 DEF t
<1>7. SubSeq(s, 3 + 1, Len(s)) = Left(r, R, c + 3)
  <2>1. 3 \in 0 .. R - c
    BY <1>0, <1>2
  <2>. QED BY <2>1, LeftRest DEF s
<1>8. AfterLine(p) = [p EXCEPT !.remaining = SubSeq(p.remaining, 1 + 3, Len(p.remaining)),
                               !.currentByteIdx = p.currentByteIdx + 1 + 2]
  BY <1>4, Zenon DEF AfterLine, s
<1>9. 1 + 3 = 3 + 1 /\ p.currentByteIdx + 1 + 2 = c + 3
  BY <1>0
<1>10. AfterLine(p) = Moved(p, Left(r, R, c + 3), c + 3)
  BY <1>7, <1>8, <1>9, Zenon DEF s, Moved
<1>. QED
  BY <1>3, <1>5, <1>6, <1>10

(* getLine at an empty line moves behind its line end. *)
LEMMA AfterEmpty ==
  ASSUME NEW r \in Responses, NEW R \in 0 .. Len(Stream(r)), NEW c \in 0 .. R,
         NEW p, p.remaining = Left(r, R, c), p.currentByteIdx = c,
         c + 2 <= R, Stream(r)[c + 1] = CR, Stream(r)[c + 2] = LF
  PROVE  /\ HasLine(p) /\ LineOf(p) = <<>>
         /\ AfterLine(p) = Moved(p, Left(r, R, c + 2), c + 2)
<1>. DEFINE s == Left(r, R, c)
<1>0. Len(Stream(r)) \in Nat
  BY StreamFacts
<1>1. s \in Seq(Byte) /\ Len(s) = R - c /\ \A j \in 1 .. R - c : s[j] = Stream(r)[c + j]
  BY LeftFacts
<1>. HIDE DEF s
<1>2. 1 \in 1 .. R - c /\ 2 \in 1 .. R - c /\ Len(s) >= 2
  BY <1>0, <1>1
<1>3. s[1] = CR /\ s[2] = LF
  BY <1>1, <1>2
<1>4. findLineEnd(s) = 0
  BY <1>1, <1>2, <1>3, LineEndZero
<1>5. HasLine(p)
  BY <1>4 DEF HasLine, s
<1>6. LineOf(p) = <<>>
  <2>1. LineOf(p) = SubSeq(s, 1, 0)
    BY <1>4 DEF LineOf, s
  <2>. QED BY <2>1, SubSeqEmpty
<1>7. SubSeq(s, 2 + 1, Len(s)) = Left(r, R, c + 2)
  <2>1. 2 \in 0 .. R - c
    BY <1>0, <1>2
  <2>. QED BY <2>1, LeftRest DEF s
<1>8. AfterLine(p) = [p EXCEPT !.remaining = SubSeq(p.remaining, 0 + 3, Len(p.remaining)),
                               !.currentByteIdx = p.currentByteIdx + 0 + 2]
  BY <1>4, Zenon DEF AfterLine, s
<1>9. 0 + 3 = 2 + 1 /\ p.currentByteIdx + 0 + 2 = c + 2
  BY <1>0
<1>10. AfterLine(p) = Moved(p, Left(r, R, c + 2), c + 2)
  BY <1>7, <1>8, <1>9, Zenon DEF s, Moved
<1>. QED
  BY <1>3, <1>5, <1>6, <1>10

(* getLine finds no line when its end has not arrived. *)
LEMMA NoLine ==
  ASSUME NEW r \in Responses, NEW R \in 0 .. Len(Stream(r)), NEW c \in 0 .. R,
         NEW p, p.remaining = Left(r, R, c),
         R <= c + 1 \/ (R = c + 2 /\ Stream(r)[c + 1] # CR)
  PROVE  ~HasLine(p)
<1>. DEFINE s == Left(r, R, c)
<1>0. Len(Stream(r)) \in Nat
  BY StreamFacts
<1>1. s \in Seq(Byte) /\ Len(s) = R - c /\ \A j \in 1 .. R - c : s[j] = Stream(r)[c + j]
  BY LeftFacts
<1>. HIDE DEF s
<1>2. Len(s) <= 1 \/ (Len(s) = 2 /\ s[1] # CR)
  <2>1. CASE R <= c + 1
    BY <1>0, <1>1, <2>1
  <2>2. CASE R = c + 2 /\ Stream(r)[c + 1] # CR
    <3>1. 1 \in 1 .. R - c /\ R - c = 2
      BY <1>0, <2>2
    <3>. QED BY <1>1, <2>2, <3>1
  <2>. QED BY <2>1, <2>2
<1>. QED
  BY <1>1, <1>2, LineEndNone DEF HasLine, s

(* No line of a header and no size line starts with a line end. *)
LEMMA NotCR ==
  /\ \A n : <<"size", n>> # CR
  /\ \A r \in Responses : \A k \in 1 .. NL(r) : <<LineKind(r, k), LineVal(r, k)>> # CR
  /\ CR \in Byte
<1>1. \A n : <<"size", n>> # CR
  BY DEF CR
<1>2. ASSUME NEW r \in Responses, NEW k \in 1 .. NL(r)
      PROVE  <<LineKind(r, k), LineVal(r, k)>> # CR
  BY LineKinds DEF CR
<1>3. CR \in Byte
  BY DEF CR, Byte, Kinds
<1>. QED BY <1>1, <1>2, <1>3

-----------------------------------------------------------------------------

(* Reading line k + 1 adds its header and where it is. *)
LEMMA NextNames ==
  ASSUME NEW r \in Responses, NEW k \in 1 .. NL(r) - 1
  PROVE  /\ Put(HeadersAt(r, k), LineKind(r, k + 1), LineVal(r, k + 1)) = HeadersAt(r, k + 1)
         /\ Put(IndicesAt(r, k), LineKind(r, k + 1),
                [fromIndex |-> 3 * k, toIndex |-> 3 * k + 1]) = IndicesAt(r, k + 1)
<1>0. NL(r) \in 1 .. 3 /\ r.date \in BOOLEAN /\ r.framing \in Framings
  BY LineKinds, ResponseFacts
<1>1. HeaderNames(r, k + 1) = HeaderNames(r, k) \cup {LineKind(r, k + 1)}
  <2>1. 2 .. k + 1 = (2 .. k) \cup {k + 1}
    BY <1>0
  <2>. QED BY <2>1 DEF HeaderNames
<1>2. LineVal(r, k + 1) = IF LineKind(r, k + 1) = "length" THEN r.size ELSE 0
  BY <1>0 DEF LineVal
<1>3. LineStart(r, LineKind(r, k + 1)) = 3 * k
  <2>1. k = 1 \/ (k = 2 /\ r.date)
    BY <1>0 DEF NL
  <2>2. CASE k = 2 /\ r.date
    <3>1. LineKind(r, k + 1) = r.framing /\ r.framing # "date"
      BY <1>0, <2>2 DEF LineKind, Framings
    <3>. QED BY <2>2, <3>1 DEF LineStart
  <2>3. CASE k = 1 /\ r.date
    <3>1. LineKind(r, k + 1) = "date"
      BY <2>3 DEF LineKind
    <3>. QED BY <2>3, <3>1 DEF LineStart
  <2>4. CASE k = 1 /\ ~r.date
    BY <2>4 DEF LineStart
  <2>. QED BY <2>1, <2>2, <2>3, <2>4
<1>4. DOMAIN HeadersAt(r, k) = HeaderNames(r, k) /\ DOMAIN IndicesAt(r, k) = HeaderNames(r, k)
  BY DEF HeadersAt, IndicesAt
<1>5. Put(HeadersAt(r, k), LineKind(r, k + 1), LineVal(r, k + 1)) = HeadersAt(r, k + 1)
  BY <1>1, <1>2, <1>4 DEF Put, HeadersAt
<1>6. Put(IndicesAt(r, k), LineKind(r, k + 1),
                [fromIndex |-> 3 * k, toIndex |-> 3 * k + 1]) = IndicesAt(r, k + 1)
  BY <1>1, <1>3, <1>4 DEF Put, IndicesAt
<1>. QED BY <1>5, <1>6

(* After the last line the parser knows the framing and the date of the     *)
(* response.                                                                *)
LEMMA AllNames ==
  ASSUME NEW r \in Responses
  PROVE  /\ "chunked" \in DOMAIN HeadersAt(r, NL(r)) <=> r.framing = "chunked"
         /\ "length" \in DOMAIN HeadersAt(r, NL(r)) <=> r.framing = "length"
         /\ "date" \in DOMAIN IndicesAt(r, NL(r)) <=> r.date
         /\ r.framing = "length" => HeadersAt(r, NL(r))["length"] = r.size
<1>0. NL(r) \in 1 .. 3 /\ r.date \in BOOLEAN /\ r.framing \in Framings
      /\ (r.date => r.framing = "length")
  BY LineKinds, ResponseFacts
<1>1. /\ DOMAIN HeadersAt(r, NL(r)) = HeaderNames(r, NL(r))
      /\ DOMAIN IndicesAt(r, NL(r)) = HeaderNames(r, NL(r))
  BY DEF HeadersAt, IndicesAt
<1>2. HeaderNames(r, NL(r)) =
        (IF r.date THEN {"date"} ELSE {}) \cup (IF r.framing = "close" THEN {} ELSE {r.framing})
  <2>1. CASE r.date
    <3>1. NL(r) = 3 /\ 2 .. 3 = {2, 3} /\ r.framing = "length"
      BY <1>0, <2>1 DEF NL
    <3>. QED BY <2>1, <3>1 DEF HeaderNames, LineKind
  <2>2. CASE ~r.date /\ r.framing # "close"
    <3>1. NL(r) = 2 /\ 2 .. 2 = {2}
      BY <1>0, <2>2 DEF NL
    <3>. QED BY <2>2, <3>1 DEF HeaderNames, LineKind
  <2>3. CASE ~r.date /\ r.framing = "close"
    <3>1. NL(r) = 1 /\ 2 .. 1 = {}
      BY <1>0, <2>3 DEF NL
    <3>. QED BY <2>3, <3>1 DEF HeaderNames
  <2>. QED BY <1>0, <2>1, <2>2, <2>3
<1>3. r.framing = "length" => "length" \in HeaderNames(r, NL(r))
  BY <1>2
<1>4. r.framing = "length" => HeadersAt(r, NL(r))["length"] = r.size
  BY <1>3 DEF HeadersAt
<1>. QED
  BY <1>0, <1>1, <1>2, <1>4 DEF Framings

-----------------------------------------------------------------------------
(* One round of the loop over the header's lines. *)

(* Such a loop has halted after k steps when the measure was at most k at   *)
(* the start.                                                               *)
LEMMA LoopEnds ==
  ASSUME NEW S, NEW st, NEW size, NEW halted, NEW k, NEW F,
         EndingLoop(S, st, size, halted, k, F)
  PROVE  F[k] \in halted
<1>0. /\ st \in [S -> S] /\ size \in [S -> Nat] /\ halted \in SUBSET S
      /\ k \in Nat /\ F[0] \in S /\ size[F[0]] <= k
      /\ \A n \in 1 .. k : F[n - 1] \in S => F[n] = st[F[n - 1]]
      /\ \A s \in halted : st[s] = s
      /\ \A s \in S \ halted : size[st[s]] < size[s]
  BY DEF EndingLoop
<1>. DEFINE T == {n \in 0 .. k : F[n] \in S /\ (F[n] \in halted \/ size[F[n]] + n <= k)}
<1>1. 0 \in T
  BY <1>0
<1>2. ASSUME NEW n \in 0 .. k - 1, n \in T PROVE n + 1 \in T
  <2>0. F[n] \in S /\ (F[n] \in halted \/ size[F[n]] + n <= k)
    BY <1>2
  <2>1. F[n + 1] = st[F[n]]
    <3>1. n + 1 \in 1 .. k /\ (n + 1) - 1 = n
      BY <1>0
    <3>. QED BY <1>0, <2>0, <3>1
  <2>2. CASE F[n] \in halted
    BY <1>0, <2>0, <2>1, <2>2
  <2>3. CASE F[n] \notin halted
    <3>1. size[F[n + 1]] < size[F[n]] /\ F[n + 1] \in S
      BY <1>0, <2>0, <2>1, <2>3
    <3>2. size[F[n + 1]] \in Nat /\ size[F[n]] \in Nat
      BY <1>0, <2>0, <3>1
    <3>. QED BY <1>0, <2>0, <2>3, <3>1, <3>2
  <2>. QED BY <2>2, <2>3
<1>. HIDE DEF T
<1>3. k \in T
  BY <1>0, <1>1, <1>2, UpTo
<1>4. F[k] \in S /\ (F[k] \in halted \/ size[F[k]] + k <= k)
  BY <1>3 DEF T
<1>5. CASE F[k] \notin halted
  <2>1. size[F[k]] = 0 /\ st[F[k]] \in S
    BY <1>0, <1>4, <1>5
  <2>2. size[st[F[k]]] < size[F[k]] /\ size[st[F[k]]] \in Nat
    BY <1>0, <1>4, <1>5, <2>1
  <2>. QED BY <2>1, <2>2
<1>. QED BY <1>5

-----------------------------------------------------------------------------

(* A new parser that is given the first R bytes is before the first line. *)
LEMMA StartOfHeader ==
  ASSUME NEW r \in Responses, NEW R \in 0 .. Len(Stream(r))
  PROVE  [NewParser EXCEPT !.remaining = <<>> \o SubSeq(Stream(r), 1, R)] = AtLine(r, R, 0)
<1>1. SubSeq(Stream(r), 1, R) \in Seq(Byte)
  <2>1. R \in Int /\ \A i \in 1 .. R : Stream(r)[i] \in Byte
    BY StreamFacts
  <2>. QED BY <2>1, SubSeqProperties
<1>2. <<>> \o SubSeq(Stream(r), 1, R) = Left(r, R, 0)
  BY <1>1, ConcatEmptySeq DEF Left
<1>3. HeaderNames(r, 0) = {}
  BY DEF HeaderNames
<1>4. HeadersAt(r, 0) = [n \in {} |-> 0] /\ IndicesAt(r, 0) = [n \in {} |-> 0]
  BY <1>3 DEF HeadersAt, IndicesAt
<1>5. IsParser(NewParser)
  BY DEF NewParser, IsParser, Fields
<1>6. /\ NewParser.headers = [n \in {} |-> 0] /\ NewParser.headerIndices = [n \in {} |-> 0]
      /\ NewParser.statusCode = 0 /\ NewParser.statusLineEndIndex = None
      /\ NewParser.headersComplete = FALSE /\ NewParser.headerEndIdx = 0
      /\ NewParser.body = <<>> /\ NewParser.bodyStartIndex = None
      /\ NewParser.chunks = None /\ NewParser.complete = FALSE /\ NewParser.threw = FALSE
      /\ NewParser.remainingBodyBytes = 0 /\ NewParser.isChunked = FALSE
      /\ NewParser.currentByteIdx = 0
  BY Zenon DEF NewParser
<1>. DEFINE q == [NewParser EXCEPT !.remaining = <<>> \o SubSeq(Stream(r), 1, R)]
<1>7. IsAtLine(q, r, R, 0)
  <2>1. 3 * 0 = 0
    OBVIOUS
  <2>2. /\ IsParser(q) /\ q.remaining = <<>> \o SubSeq(Stream(r), 1, R)
        /\ \A f \in Fields \ {"remaining"} : q[f] = NewParser[f]
    BY <1>5 DEF IsParser, Fields
  <2>. HIDE DEF q
  <2>. QED BY <1>2, <1>4, <1>6, <2>1, <2>2 DEF IsAtLine, Fields
<1>. QED BY <1>7, AtLineFields

(* A round of the loop over the header's lines reads the next one, or ends  *)
(* the header, or waits for more when the line end has not arrived.         *)
LEMMA HeaderStep ==
  ASSUME NEW r \in Responses, NEW R \in 0 .. Len(Stream(r)), NEW k \in 0 .. NL(r), 3 * k <= R
  PROVE  \/ /\ k < NL(r) /\ 3 * (k + 1) <= R /\ HasLine(AtLine(r, R, k))
            /\ HeaderLine(AtLine(r, R, k)) = AtLine(r, R, k + 1)
         \/ /\ k = NL(r) /\ H(r) <= R /\ HasLine(AtLine(r, R, k))
            /\ HeaderLine(AtLine(r, R, k)) = AtBody(r, R)
         \/ /\ ~HasLine(AtLine(r, R, k)) /\ R < H(r)
            /\ HeaderLine(AtLine(r, R, k)) = AtLine(r, R, k)
<1>. DEFINE p == AtLine(r, R, k)
            c == 3 * k
<1>0. NL(r) \in 1 .. 3 /\ H(r) = 3 * NL(r) + 2 /\ Len(Stream(r)) \in Nat /\ k \in Nat
  BY LineKinds, StreamFacts DEF H
<1>a. IsAtLine(p, r, R, k)
  BY AtLineFields
<1>b. NL(r) # 0
  BY <1>0
<1>1. c \in 0 .. R /\ p.remaining = Left(r, R, c) /\ p.currentByteIdx = c
  <2>1. p.remaining = Left(r, R, c) /\ p.currentByteIdx = c
    <3>. HIDE DEF p
    <3>. QED BY <1>a DEF IsAtLine
  <2>. QED BY <1>0, <2>1
<1>2. p.headersComplete = FALSE /\ (p.statusCode = 0 <=> k = 0)
  <2>1. p.headersComplete = FALSE /\ p.statusCode = IF k = 0 THEN 0 ELSE r.status
    <3>. HIDE DEF p
    <3>. QED BY <1>a DEF IsAtLine
  <2>2. r.status # 0
    BY ResponseFacts
  <2>. HIDE DEF p
  <2>3. p.statusCode = 0 <=> k = 0
    BY <2>1, <2>2
  <2>. QED BY <2>1, <2>3
<1>3. CASE k < NL(r) /\ c + 3 <= R
  <2>0. k + 1 \in 1 .. NL(r) /\ 3 * (k + 1) = c + 3 /\ 3 * (k + 1) - 2 = c + 1 /\ 3 * (k + 1) - 1 = c + 2
    BY <1>0, <1>3
  <2>. DEFINE x == <<LineKind(r, k + 1), LineVal(r, k + 1)>>
  <2>1. Stream(r)[c + 1] = x /\ Stream(r)[c + 2] = CR /\ Stream(r)[c + 3] = LF /\ x # CR
    <3>1. /\ Stream(r)[3 * (k + 1) - 2] = x
          /\ Stream(r)[3 * (k + 1) - 1] = CR /\ Stream(r)[3 * (k + 1)] = LF
      BY <2>0, StreamFacts
    <3>2. x # CR
      BY <2>0, NotCR
    <3>. HIDE DEF x, c
    <3>. QED BY <2>0, <3>1, <3>2
  <2>2. /\ HasLine(p) /\ LineOf(p) = <<x>>
        /\ AfterLine(p) = Moved(p, Left(r, R, c + 3), c + 3)
    <3>. HIDE DEF x, p, c
    <3>1. Stream(r)[c + 1] # CR
      BY <2>1
    <3>2. /\ HasLine(p) /\ LineOf(p) = <<Stream(r)[c + 1]>>
          /\ AfterLine(p) = Moved(p, Left(r, R, c + 3), c + 3)
      <4>1. c + 3 <= R
        BY <1>3
      <4>. QED BY <1>1, <2>1, <3>1, <4>1, AfterOne
    <3>. QED BY <2>1, <3>2
  <2>. DEFINE q == Moved(p, Left(r, R, c + 3), c + 3)
  <2>3. /\ IsParser(q) /\ q.remaining = Left(r, R, c + 3) /\ q.currentByteIdx = c + 3
        /\ \A f \in Fields \ {"remaining", "currentByteIdx"} : q[f] = p[f]
    <3>1. IsParser(p)
      BY <1>a DEF IsAtLine
    <3>. HIDE DEF p
    <3>. QED BY <3>1, MovedFields
  <2>b. /\ q.currentByteIdx - 2 = c + 1
        /\ q.headers = HeadersAt(r, k) /\ q.headerIndices = IndicesAt(r, k)
    <3>. HIDE DEF p, q
    <3>1. q.headers = HeadersAt(r, k) /\ q.headerIndices = IndicesAt(r, k)
      BY <1>a, <2>3 DEF IsAtLine, Fields
    <3>2. q.currentByteIdx - 2 = c + 1
      BY <1>0, <2>3
    <3>. QED BY <3>1, <3>2
  <2>4. <<x>> # <<>> /\ Len(<<x>>) = 1 /\ <<x>>[1] = x
    OBVIOUS
  <2>5. CASE k = 0
    <3>1. HeaderLine(p) = [q EXCEPT !.statusCode = LineVal(r, 1), !.statusLineEndIndex = 1]
      <4>1. <<x>>[1][2] = LineVal(r, 1)
        BY <2>5
      <4>2. q.currentByteIdx - 2 = 1
        BY <2>b, <2>5
      <4>3. HeaderLine(p) = [q EXCEPT !.statusCode = <<x>>[1][2], !.statusLineEndIndex = q.currentByteIdx - 2]
        <5>. HIDE DEF q, x, p
        <5>. QED BY <1>2, <2>2, <2>5 DEF HeaderLine, q
      <4>. HIDE DEF q, x, p
      <4>. QED BY <4>1, <4>2, <4>3
    <3>2. LineVal(r, 1) = r.status
      BY DEF LineVal
    <3>3. HeaderNames(r, 0) = {} /\ HeaderNames(r, 1) = {}
      BY DEF HeaderNames
    <3>4. HeadersAt(r, 0) = HeadersAt(r, 1) /\ IndicesAt(r, 0) = IndicesAt(r, 1)
      BY <3>3 DEF HeadersAt, IndicesAt
    <3>5. [q EXCEPT !.statusCode = r.status, !.statusLineEndIndex = 1] = AtLine(r, R, 1)
      <4>. DEFINE w == [q EXCEPT !.statusCode = r.status, !.statusLineEndIndex = 1]
      <4>. HIDE DEF q, p
      <4>1. /\ IsParser(w) /\ w.statusCode = r.status /\ w.statusLineEndIndex = 1
            /\ \A f \in Fields \ {"statusCode", "statusLineEndIndex"} : w[f] = q[f]
        BY <2>3 DEF IsParser, Fields
      <4>. HIDE DEF w
      <4>2. 3 * 1 = c + 3 /\ 1 # 0
        BY <2>5
      <4>3. IsAtLine(w, r, R, 1)
        BY <1>a, <2>3, <2>5, <3>4, <4>1, <4>2 DEF IsAtLine, Fields
      <4>. QED BY <4>3, AtLineFields DEF w
    <3>6. HeaderLine(p) = AtLine(r, R, k + 1)
      <4>1. k + 1 = 1
        BY <2>5
      <4>. HIDE DEF p, q
      <4>. QED BY <3>1, <3>2, <3>5, <4>1, Zenon
    <3>. QED BY <1>3, <2>0, <2>2, <3>6
  <2>6. CASE k # 0
    <3>1. HeaderLine(p) = [q EXCEPT
              !.headers = Put(q.headers, <<x>>[1][1], <<x>>[1][2]),
              !.headerIndices = Put(q.headerIndices, <<x>>[1][1],
                 [fromIndex |-> (q.currentByteIdx - 2) - Len(<<x>>), toIndex |-> q.currentByteIdx - 2])]
      <4>. HIDE DEF q, x, p
      <4>. QED BY <1>2, <2>2, <2>4, <2>6, Zenon DEF HeaderLine, q
    <3>2. k \in 1 .. NL(r) - 1
      BY <1>0, <1>3, <2>6
    <3>3. /\ Put(HeadersAt(r, k), LineKind(r, k + 1), LineVal(r, k + 1)) = HeadersAt(r, k + 1)
          /\ Put(IndicesAt(r, k), LineKind(r, k + 1),
                [fromIndex |-> 3 * k, toIndex |-> 3 * k + 1]) = IndicesAt(r, k + 1)
      BY <3>2, NextNames
    <3>4. <<x>>[1][1] = LineKind(r, k + 1) /\ <<x>>[1][2] = LineVal(r, k + 1)
      OBVIOUS
    <3>5. (q.currentByteIdx - 2) - Len(<<x>>) = 3 * k /\ q.currentByteIdx - 2 = 3 * k + 1
      <4>. HIDE DEF q, x, p
      <4>. QED BY <1>0, <2>b, <2>4
    <3>6. HeaderLine(p) = [q EXCEPT !.headers = HeadersAt(r, k + 1), !.headerIndices = IndicesAt(r, k + 1)]
      <4>. HIDE DEF q, x, p
      <4>. QED BY <2>b, <3>1, <3>3, <3>4, <3>5, Zenon
    <3>7. [q EXCEPT !.headers = HeadersAt(r, k + 1), !.headerIndices = IndicesAt(r, k + 1)] = AtLine(r, R, k + 1)
      <4>1. k + 1 # 0 /\ 3 * (k + 1) = 3 * k + 3
        BY <1>0
      <4>. DEFINE w == [q EXCEPT !.headers = HeadersAt(r, k + 1), !.headerIndices = IndicesAt(r, k + 1)]
      <4>. HIDE DEF q, p
      <4>2. /\ IsParser(w) /\ w.headers = HeadersAt(r, k + 1) /\ w.headerIndices = IndicesAt(r, k + 1)
            /\ \A f \in Fields \ {"headers", "headerIndices"} : w[f] = q[f]
        BY <2>3 DEF IsParser, Fields
      <4>. HIDE DEF w
      <4>3. IsAtLine(w, r, R, k + 1)
        BY <1>a, <2>3, <2>6, <4>1, <4>2 DEF IsAtLine, Fields
      <4>. QED BY <4>3, AtLineFields DEF w
    <3>. QED BY <1>3, <2>0, <2>2, <3>6, <3>7
  <2>. QED BY <2>5, <2>6
<1>4. CASE k = NL(r) /\ H(r) <= R
  <2>1. Stream(r)[c + 1] = CR /\ Stream(r)[c + 2] = LF /\ c + 2 <= R /\ c + 2 = H(r)
    <3>1. H(r) - 1 = c + 1 /\ H(r) = c + 2
      BY <1>0, <1>4
    <3>2. Stream(r)[H(r) - 1] = CR /\ Stream(r)[H(r)] = LF
      BY StreamFacts
    <3>. QED BY <1>4, <3>1, <3>2
  <2>2. /\ HasLine(p) /\ LineOf(p) = <<>>
        /\ AfterLine(p) = Moved(p, Left(r, R, c + 2), c + 2)
    <3>. HIDE DEF p, c
    <3>. QED BY <1>1, <2>1, AfterEmpty
  <2>. DEFINE q == Moved(p, Left(r, R, H(r)), H(r))
              q2 == [q EXCEPT !.headersComplete = TRUE, !.headerEndIdx = q.currentByteIdx - 4]
  <2>3. HeaderLine(p) = HeadersEnd(q)
    <3>1. AfterLine(p) = q
      <4>. HIDE DEF p, c
      <4>. QED BY <2>1, <2>2
    <3>2. p.statusCode # 0
      <4>. HIDE DEF p
      <4>. QED BY <1>b, <1>2, <1>4, Zenon
    <3>. HIDE DEF q, p
    <3>. QED BY <1>2, <2>2, <3>1, <3>2, Zenon DEF HeaderLine
  <2>4. /\ IsParser(q2) /\ q2.headersComplete = TRUE /\ q2.headerEndIdx = H(r) - 4
        /\ q2.remaining = Left(r, R, H(r)) /\ q2.currentByteIdx = H(r)
        /\ \A f \in Fields \ {"headersComplete", "headerEndIdx", "remaining", "currentByteIdx"} :
             q2[f] = p[f]
    <3>1. IsParser(p)
      BY <1>a DEF IsAtLine
    <3>. HIDE DEF p
    <3>2. /\ IsParser(q) /\ q.remaining = Left(r, R, H(r)) /\ q.currentByteIdx = H(r)
          /\ \A f \in Fields \ {"remaining", "currentByteIdx"} : q[f] = p[f]
      BY <3>1, MovedFields
    <3>. HIDE DEF q
    <3>3. /\ IsParser(q2) /\ q2.headersComplete = TRUE /\ q2.headerEndIdx = q.currentByteIdx - 4
          /\ \A f \in Fields \ {"headersComplete", "headerEndIdx"} : q2[f] = q[f]
      BY <3>2 DEF IsParser, Fields
    <3>. HIDE DEF q2
    <3>. QED BY <3>2, <3>3 DEF Fields
  <2>5. k # 0 /\ q2.headers = HeadersAt(r, NL(r))
    <3>1. k # 0
      <4>. HIDE DEF p, q, q2, c
      <4>. QED BY <1>b, <1>4, Zenon
    <3>. HIDE DEF p, q, q2
    <3>. QED BY <1>4, <1>a, <2>4, <3>1 DEF IsAtLine, Fields
  <2>6. CASE r.framing = "chunked"
    <3>1. HeadersEnd(q) = [q2 EXCEPT !.isChunked = TRUE, !.chunks = <<>>]
      <4>1. "chunked" \in DOMAIN q2.headers
        <5>. HIDE DEF q2, q
        <5>. QED BY <2>5, <2>6, AllNames
      <4>. HIDE DEF q
      <4>. QED BY <4>1, Zenon DEF HeadersEnd
    <3>2. [q2 EXCEPT !.isChunked = TRUE, !.chunks = <<>>] = AtBody(r, R)
      <4>. DEFINE w == [q2 EXCEPT !.isChunked = TRUE, !.chunks = <<>>]
      <4>. HIDE DEF q2
      <4>1. /\ IsParser(w) /\ w.isChunked = TRUE /\ w.chunks = <<>>
            /\ \A f \in Fields \ {"isChunked", "chunks"} : w[f] = q2[f]
        BY <2>4 DEF IsParser, Fields
      <4>2. (r.framing = "chunked") = TRUE
        BY <2>6
      <4>3. AtBody(r, R) = InBody(r, R, H(r), None, <<>>, <<>>, FALSE, 0)
        BY <2>6 DEF AtBody
      <4>. HIDE DEF w, p
      <4>4. IsInBody(w, r, R, H(r), None, <<>>, <<>>, FALSE, 0)
        <5>1. w.isChunked = (r.framing = "chunked")
          BY <4>1, <4>2, Zenon
        <5>2. w.headers = HeadersAt(r, NL(r)) /\ w.headerIndices = IndicesAt(r, NL(r))
          BY <1>4, <1>a, <2>4, <4>1 DEF IsAtLine, Fields
        <5>3. w.statusCode = r.status /\ w.statusLineEndIndex = 1
          BY <1>4, <1>a, <2>4, <2>5, <4>1 DEF IsAtLine, Fields
        <5>4. w.body = <<>> /\ w.bodyStartIndex = None /\ w.remainingBodyBytes = 0
              /\ w.headerEndIdx = H(r) - 4 /\ w.remaining = Left(r, R, H(r)) /\ w.currentByteIdx = H(r)
          BY <1>a, <2>4, <4>1 DEF IsAtLine, Fields
        <5>5. w.headersComplete = TRUE /\ w.complete = FALSE /\ w.threw = FALSE
          BY <1>a, <2>4, <4>1 DEF IsAtLine, Fields
        <5>. QED BY <4>1, <5>1, <5>2, <5>3, <5>4, <5>5, Zenon DEF IsInBody
      <4>. QED BY <4>3, <4>4, InBodyFields DEF w
    <3>. QED BY <1>4, <2>2, <2>3, <3>1, <3>2
  <2>7. CASE r.framing = "length"
    <3>1. HeadersEnd(q) = [q2 EXCEPT !.remainingBodyBytes = q2.headers["length"]]
      <4>1. "chunked" \notin DOMAIN q2.headers /\ "length" \in DOMAIN q2.headers
        <5>. HIDE DEF q2, q
        <5>. QED BY <2>5, <2>7, AllNames
      <4>. HIDE DEF q
      <4>. QED BY <4>1, Zenon DEF HeadersEnd
    <3>2. q2.headers["length"] = r.size
      <4>. HIDE DEF q2
      <4>. QED BY <2>5, <2>7, AllNames
    <3>3. [q2 EXCEPT !.remainingBodyBytes = r.size] = AtBody(r, R)
      <4>. DEFINE w == [q2 EXCEPT !.remainingBodyBytes = r.size]
      <4>. HIDE DEF q2
      <4>1. /\ IsParser(w) /\ w.remainingBodyBytes = r.size
            /\ \A f \in Fields \ {"remainingBodyBytes"} : w[f] = q2[f]
        BY <2>4 DEF IsParser, Fields
      <4>2. (r.framing = "chunked") = FALSE
        BY <2>7
      <4>3. AtBody(r, R) = InBody(r, R, H(r), None, <<>>, None, FALSE, r.size)
        BY <2>7 DEF AtBody
      <4>. HIDE DEF w, p
      <4>4. IsInBody(w, r, R, H(r), None, <<>>, None, FALSE, r.size)
        BY <1>4, <1>a, <2>4, <2>5, <4>1, <4>2, ZenonT(60) DEF IsAtLine, IsInBody, Fields
      <4>. QED BY <4>3, <4>4, InBodyFields DEF w
    <3>. QED BY <1>4, <2>2, <2>3, <3>1, <3>2, <3>3
  <2>8. CASE r.framing = "close"
    <3>1. HeadersEnd(q) = [q2 EXCEPT !.remainingBodyBytes = -1]
      <4>1. "chunked" \notin DOMAIN q2.headers /\ "length" \notin DOMAIN q2.headers
        <5>. HIDE DEF q2, q
        <5>. QED BY <2>5, <2>8, AllNames
      <4>. HIDE DEF q
      <4>. QED BY <4>1, Zenon DEF HeadersEnd
    <3>2. [q2 EXCEPT !.remainingBodyBytes = -1] = AtBody(r, R)
      <4>. DEFINE w == [q2 EXCEPT !.remainingBodyBytes = -1]
      <4>. HIDE DEF q2
      <4>1. /\ IsParser(w) /\ w.remainingBodyBytes = -1
            /\ \A f \in Fields \ {"remainingBodyBytes"} : w[f] = q2[f]
        BY <2>4 DEF IsParser, Fields
      <4>2. (r.framing = "chunked") = FALSE
        BY <2>8
      <4>3. AtBody(r, R) = InBody(r, R, H(r), None, <<>>, None, FALSE, -1)
        BY <2>8 DEF AtBody
      <4>. HIDE DEF w, p
      <4>4. IsInBody(w, r, R, H(r), None, <<>>, None, FALSE, -1)
        BY <1>4, <1>a, <2>4, <2>5, <4>1, <4>2, ZenonT(60) DEF IsAtLine, IsInBody, Fields
      <4>. QED BY <4>3, <4>4, InBodyFields DEF w
    <3>. QED BY <1>4, <2>2, <2>3, <3>1, <3>2
  <2>. QED BY <2>6, <2>7, <2>8, ResponseFacts DEF Framings
<1>5. CASE ~(k < NL(r) /\ c + 3 <= R) /\ ~(k = NL(r) /\ H(r) <= R)
  <2>1. ~HasLine(p)
    <3>1. R <= c + 1 \/ (R = c + 2 /\ Stream(r)[c + 1] # CR)
      <4>1. CASE k = NL(r)
        BY <1>0, <1>1, <1>5, <4>1
      <4>2. CASE k < NL(r)
        <5>1. R <= c + 2 /\ k + 1 \in 1 .. NL(r) /\ 3 * (k + 1) - 2 = c + 1
          BY <1>0, <1>1, <1>5, <4>2
        <5>2. Stream(r)[3 * (k + 1) - 2] = <<LineKind(r, k + 1), LineVal(r, k + 1)>>
          BY <5>1, StreamFacts
        <5>3. Stream(r)[c + 1] # CR
          BY <5>1, <5>2, NotCR
        <5>. QED BY <1>0, <1>1, <5>1, <5>3
      <4>. QED BY <1>0, <4>1, <4>2
    <3>. HIDE DEF p, c
    <3>. QED BY <1>1, <3>1, NoLine
  <2>2. R < H(r)
    BY <1>0, <1>5
  <2>. HIDE DEF p
  <2>. QED BY <2>1, <2>2 DEF HeaderLine, p
<1>. QED BY <1>0, <1>3, <1>4, <1>5

-----------------------------------------------------------------------------
(* The two loops of onChunk, over the header's lines and over the chunks'   *)
(* lines.                                                                   *)

(* ReadHeaders is as many rounds of HeaderLine as there are bytes. *)
LEMMA HeaderLoop ==
  ASSUME NEW S, \A s \in S : HeaderLine(s) \in S, NEW p \in S, Len(p.remaining) \in Nat
  PROVE  \E F : /\ F[0] = p /\ (\A n \in 1 .. Len(p.remaining) : F[n] = HeaderLine(F[n - 1]))
                /\ ReadHeaders(p) = F[Len(p.remaining)]
<1>. DEFINE k == Len(p.remaining)
            st == [n \in Nat |-> [s \in S |-> HeaderLine(s)]]
            Eq(f) == f = [n \in 0 .. k |-> IF n = 0 THEN p ELSE HeaderLine(f[n - 1])]
            F == CHOOSE f : Eq(f)
<1>1. Steps(k, S, st, p) /\ k \in Nat
  BY DEF Steps
<1>2. ReadHeaders(p) = F[k]
  BY DEF ReadHeaders
<1>. HIDE DEF k
<1>3. PICK f : /\ f = [n \in 0 .. k |-> IF n = 0 THEN p ELSE st[n][f[n - 1]]]
                /\ f[0] = p /\ (\A n \in 0 .. k : f[n] \in S)
                /\ \A n \in 1 .. k : f[n] = st[n][f[n - 1]]
  <2>. HIDE DEF st
  <2>. QED BY <1>1, IterExists
<1>4. ASSUME NEW n \in 1 .. k PROVE st[n][f[n - 1]] = HeaderLine(f[n - 1])
  <2>1. f[n - 1] \in S /\ n \in Nat
    <3>. HIDE DEF st
    <3>. QED BY <1>1, <1>3
  <2>. QED BY <2>1
<1>5. Eq(f)
  <2>. HIDE DEF st
  <2>1. DOMAIN f = 0 .. k /\ f = [n \in 0 .. k |-> f[n]]
    BY <1>3, Zenon
  <2>2. ASSUME NEW n \in 0 .. k PROVE f[n] = IF n = 0 THEN p ELSE HeaderLine(f[n - 1])
    <3>1. CASE n = 0
      BY <1>3, <3>1
    <3>2. CASE n # 0
      <4>1. n \in 1 .. k
        BY <1>1, <3>2
      <4>. QED BY <1>3, <1>4, <3>2, <4>1
    <3>. QED BY <3>1, <3>2
  <2>. QED BY <2>1, <2>2
<1>. HIDE DEF Eq
<1>6. Eq(F)
  BY <1>5
<1>. HIDE DEF F
<1>7. \A n \in 0 .. k : F[n] = IF n = 0 THEN p ELSE HeaderLine(F[n - 1])
  BY <1>6, Zenon DEF Eq
<1>8. 0 \in 0 .. k /\ \A n \in 1 .. k : n \in 0 .. k /\ n # 0
  BY <1>1
<1>9. F[0] = p /\ \A n \in 1 .. k : F[n] = HeaderLine(F[n - 1])
  BY <1>7, <1>8, Zenon
<1>. QED BY <1>2, <1>9 DEF k

(* ReadChunks is as many rounds of ChunkLine as there are bytes. *)
LEMMA ChunkLoop ==
  ASSUME NEW S, \A s \in S : ChunkLine(s) \in S, NEW p \in S, Len(p.remaining) \in Nat
  PROVE  \E F : /\ F[0] = p /\ (\A n \in 1 .. Len(p.remaining) : F[n] = ChunkLine(F[n - 1]))
                /\ ReadChunks(p) = F[Len(p.remaining)]
<1>. DEFINE k == Len(p.remaining)
            st == [n \in Nat |-> [s \in S |-> ChunkLine(s)]]
            Eq(f) == f = [n \in 0 .. k |-> IF n = 0 THEN p ELSE ChunkLine(f[n - 1])]
            F == CHOOSE f : Eq(f)
<1>1. Steps(k, S, st, p) /\ k \in Nat
  BY DEF Steps
<1>2. ReadChunks(p) = F[k]
  BY DEF ReadChunks
<1>. HIDE DEF k
<1>3. PICK f : /\ f = [n \in 0 .. k |-> IF n = 0 THEN p ELSE st[n][f[n - 1]]]
                /\ f[0] = p /\ (\A n \in 0 .. k : f[n] \in S)
                /\ \A n \in 1 .. k : f[n] = st[n][f[n - 1]]
  <2>. HIDE DEF st
  <2>. QED BY <1>1, IterExists
<1>4. ASSUME NEW n \in 1 .. k PROVE st[n][f[n - 1]] = ChunkLine(f[n - 1])
  <2>1. f[n - 1] \in S /\ n \in Nat
    <3>. HIDE DEF st
    <3>. QED BY <1>1, <1>3
  <2>. QED BY <2>1
<1>5. Eq(f)
  <2>. HIDE DEF st
  <2>1. DOMAIN f = 0 .. k /\ f = [n \in 0 .. k |-> f[n]]
    BY <1>3, Zenon
  <2>2. ASSUME NEW n \in 0 .. k PROVE f[n] = IF n = 0 THEN p ELSE ChunkLine(f[n - 1])
    <3>1. CASE n = 0
      BY <1>3, <3>1
    <3>2. CASE n # 0
      <4>1. n \in 1 .. k
        BY <1>1, <3>2
      <4>. QED BY <1>3, <1>4, <3>2, <4>1
    <3>. QED BY <3>1, <3>2
  <2>. QED BY <2>1, <2>2
<1>. HIDE DEF Eq
<1>6. Eq(F)
  BY <1>5
<1>. HIDE DEF F
<1>7. \A n \in 0 .. k : F[n] = IF n = 0 THEN p ELSE ChunkLine(F[n - 1])
  BY <1>6, Zenon DEF Eq
<1>8. 0 \in 0 .. k /\ \A n \in 1 .. k : n \in 0 .. k /\ n # 0
  BY <1>1
<1>9. F[0] = p /\ \A n \in 1 .. k : F[n] = ChunkLine(F[n - 1])
  BY <1>7, <1>8, Zenon
<1>. QED BY <1>2, <1>9 DEF k

-----------------------------------------------------------------------------

(* A round of the loop stays in these states and makes what is left         *)
(* shorter, or the loop is over: at the body, or waiting for a line.        *)
LEMMA HeaderStatesFacts ==
  ASSUME NEW r \in Responses, NEW R \in 0 .. Len(Stream(r)), NEW s \in HeaderStates(r, R)
  PROVE  /\ Len(s.remaining) \in Nat
         /\ HeaderLine(s) \in HeaderStates(r, R)
         /\ HeaderHalted(s) => HeaderLine(s) = s
         /\ ~HeaderHalted(s) => Len(HeaderLine(s).remaining) < Len(s.remaining)
         /\ HeaderHalted(s) =>
              \/ s = AtBody(r, R) /\ H(r) <= R
              \/ R < H(r) /\ ~HasLine(s) /\ \E k \in LinesIn(r, R) : s = AtLine(r, R, k)
<1>0. NL(r) \in 1 .. 3 /\ H(r) = 3 * NL(r) + 2 /\ Len(Stream(r)) \in Nat /\ R \in Nat
  BY LineKinds, StreamFacts DEF H
<1>1. ASSUME H(r) <= R
      PROVE  /\ AtBody(r, R).headersComplete = TRUE /\ Len(AtBody(r, R).remaining) = R - H(r)
             /\ H(r) \in 0 .. R
  <2>. DEFINE q == AtBody(r, R)
  <2>1. q.headersComplete = TRUE /\ q.remaining = Left(r, R, H(r))
    BY Zenon DEF AtBody, InBody
  <2>2. H(r) \in 0 .. R
    BY <1>0, <1>1
  <2>3. Len(Left(r, R, H(r))) = R - H(r)
    BY <2>2, LeftFacts
  <2>. HIDE DEF q
  <2>. QED BY <2>1, <2>2, <2>3 DEF q
<1>2. ASSUME NEW k \in LinesIn(r, R)
      PROVE  /\ AtLine(r, R, k).headersComplete = FALSE /\ Len(AtLine(r, R, k).remaining) = R - 3 * k
             /\ k \in 0 .. NL(r) /\ 3 * k <= R
  <2>. DEFINE q == AtLine(r, R, k)
  <2>1. q.headersComplete = FALSE /\ q.remaining = Left(r, R, 3 * k)
    BY Zenon DEF AtLine
  <2>2. 3 * k \in 0 .. R /\ k \in 0 .. NL(r) /\ 3 * k <= R
    BY <1>0 DEF LinesIn
  <2>3. Len(Left(r, R, 3 * k)) = R - 3 * k
    BY <2>2, LeftFacts
  <2>. HIDE DEF q
  <2>. QED BY <2>1, <2>2, <2>3 DEF q
<1>3. CASE s = AtBody(r, R) /\ H(r) <= R
  <2>1. s.headersComplete = TRUE /\ Len(s.remaining) = R - H(r) /\ R - H(r) \in Nat
    <3>1. H(r) \in 0 .. R => R - H(r) \in Nat
      BY <1>0
    <3>. QED BY <1>1, <1>3, <3>1
  <2>2. HeaderLine(s) = s
    BY <2>1 DEF HeaderLine
  <2>. QED BY <1>3, <2>1, <2>2 DEF HeaderHalted
<1>4. ASSUME NEW k \in LinesIn(r, R), s = AtLine(r, R, k)
      PROVE  /\ Len(s.remaining) \in Nat
             /\ HeaderLine(s) \in HeaderStates(r, R)
             /\ HeaderHalted(s) => HeaderLine(s) = s
             /\ ~HeaderHalted(s) => Len(HeaderLine(s).remaining) < Len(s.remaining)
             /\ HeaderHalted(s) => R < H(r) /\ ~HasLine(s)
  <2>1. s.headersComplete = FALSE /\ Len(s.remaining) = R - 3 * k /\ k \in 0 .. NL(r) /\ 3 * k <= R
    BY <1>2, <1>4
  <2>2. \/ /\ k < NL(r) /\ 3 * (k + 1) <= R /\ HasLine(s)
           /\ HeaderLine(s) = AtLine(r, R, k + 1)
        \/ /\ k = NL(r) /\ H(r) <= R /\ HasLine(s)
           /\ HeaderLine(s) = AtBody(r, R)
        \/ /\ ~HasLine(s) /\ R < H(r)
           /\ HeaderLine(s) = s
    BY <1>4, <2>1, HeaderStep
  <2>3. R - 3 * k \in Nat /\ (HeaderHalted(s) <=> ~HasLine(s))
    BY <1>0, <2>1 DEF HeaderHalted
  <2>4. CASE k < NL(r) /\ 3 * (k + 1) <= R /\ HasLine(s) /\ HeaderLine(s) = AtLine(r, R, k + 1)
    <3>1. k + 1 \in LinesIn(r, R)
      BY <1>0, <2>1, <2>4 DEF LinesIn
    <3>2. Len(HeaderLine(s).remaining) = R - 3 * (k + 1)
      BY <1>2, <2>4, <3>1
    <3>3. R - 3 * (k + 1) < R - 3 * k
      BY <1>0, <2>1
    <3>. QED BY <2>1, <2>3, <2>4, <3>1, <3>2, <3>3 DEF HeaderStates
  <2>5. CASE k = NL(r) /\ H(r) <= R /\ HasLine(s) /\ HeaderLine(s) = AtBody(r, R)
    <3>1. Len(HeaderLine(s).remaining) = R - H(r)
      BY <1>1, <2>5
    <3>2. R - H(r) < R - 3 * k
      BY <1>0, <2>5
    <3>. QED BY <2>1, <2>3, <2>5, <3>1, <3>2 DEF HeaderStates
  <2>6. CASE ~HasLine(s) /\ R < H(r) /\ HeaderLine(s) = s
    BY <2>1, <2>3, <2>6
  <2>. QED BY <2>2, <2>4, <2>5, <2>6
<1>5. (s = AtBody(r, R) /\ H(r) <= R) \/ \E k \in LinesIn(r, R) : s = AtLine(r, R, k)
  BY DEF HeaderStates
<1>6. CASE \E k \in LinesIn(r, R) : s = AtLine(r, R, k)
  <2>1. PICK k \in LinesIn(r, R) : s = AtLine(r, R, k)
    BY <1>6
  <2>2. /\ Len(s.remaining) \in Nat
        /\ HeaderLine(s) \in HeaderStates(r, R)
        /\ HeaderHalted(s) => HeaderLine(s) = s
        /\ ~HeaderHalted(s) => Len(HeaderLine(s).remaining) < Len(s.remaining)
        /\ HeaderHalted(s) => R < H(r) /\ ~HasLine(s)
    BY <1>4, <2>1
  <2>. QED BY <1>6, <2>2
<1>. QED BY <1>3, <1>5, <1>6

(* ReadHeaders ends at the body if the header has arrived, and before it    *)
(* otherwise.                                                               *)
LEMMA HeadersRead ==
  ASSUME NEW r \in Responses, NEW R \in 0 .. Len(Stream(r)), NEW p \in HeaderStates(r, R)
  PROVE  \/ ReadHeaders(p) = AtBody(r, R) /\ H(r) <= R
         \/ /\ R < H(r) /\ ~HasLine(ReadHeaders(p))
            /\ \E k \in LinesIn(r, R) : ReadHeaders(p) = AtLine(r, R, k)
<1>. DEFINE S == HeaderStates(r, R)
            st == [s \in S |-> HeaderLine(s)]
            size == [s \in S |-> Len(s.remaining)]
            halted == {s \in S : HeaderHalted(s)}
<1>. HIDE DEF S
<1>0. ASSUME NEW s \in S
      PROVE  /\ Len(s.remaining) \in Nat
             /\ HeaderLine(s) \in S
             /\ HeaderHalted(s) => HeaderLine(s) = s
             /\ ~HeaderHalted(s) => Len(HeaderLine(s).remaining) < Len(s.remaining)
             /\ HeaderHalted(s) =>
                  \/ s = AtBody(r, R) /\ H(r) <= R
                  \/ R < H(r) /\ ~HasLine(s) /\ \E k \in LinesIn(r, R) : s = AtLine(r, R, k)
  BY HeaderStatesFacts DEF S
<1>1. p \in S
  BY DEF S
<1>. DEFINE k == Len(p.remaining)
<1>2. k \in Nat
  BY <1>0, <1>1
<1>3. PICK F : /\ F[0] = p /\ (\A n \in 1 .. k : F[n] = HeaderLine(F[n - 1]))
               /\ ReadHeaders(p) = F[k]
  BY <1>0, <1>1, <1>2, HeaderLoop
<1>4. EndingLoop(S, st, size, halted, k, F)
  BY <1>0, <1>1, <1>2, <1>3 DEF EndingLoop
<1>. HIDE DEF st, size, halted, k
<1>5. F[k] \in halted
  BY <1>4, LoopEnds
<1>6. ReadHeaders(p) \in S /\ HeaderHalted(ReadHeaders(p))
  BY <1>3, <1>5 DEF halted
<1>. QED BY <1>0, <1>6

(* ReadHeaders does nothing once the headers are complete. *)
LEMMA HeadersKept ==
  ASSUME NEW p, p.headersComplete = TRUE, Len(p.remaining) \in Nat
  PROVE  ReadHeaders(p) = p
<1>. DEFINE S == {p}
<1>1. HeaderLine(p) = p
  BY DEF HeaderLine
<1>. DEFINE k == Len(p.remaining)
<1>2. k \in Nat
  OBVIOUS
<1>3. \A s \in S : HeaderLine(s) \in S
  BY <1>1
<1>4. PICK F : /\ F[0] = p /\ (\A n \in 1 .. k : F[n] = HeaderLine(F[n - 1]))
               /\ ReadHeaders(p) = F[k]
  <2>1. p \in S
    OBVIOUS
  <2>. HIDE DEF S
  <2>. QED BY <1>2, <1>3, <2>1, HeaderLoop
<1>. HIDE DEF k
<1>. DEFINE T == {n \in 0 .. k : F[n] = p}
<1>5. 0 \in T
  BY <1>2, <1>4
<1>6. ASSUME NEW n \in 0 .. k - 1, n \in T PROVE n + 1 \in T
  <2>1. n + 1 \in 1 .. k /\ (n + 1) - 1 = n /\ n + 1 \in 0 .. k
    BY <1>2
  <2>2. F[n + 1] = HeaderLine(F[n])
    BY <1>4, <2>1
  <2>. QED BY <1>1, <1>6, <2>1, <2>2
<1>. HIDE DEF T
<1>7. k \in T
  <2>1. \A n \in 0 .. k : n \in T
    BY <1>2, <1>5, <1>6, UpTo
  <2>. QED BY <1>2, <2>1
<1>. QED BY <1>4, <1>7 DEF T

-----------------------------------------------------------------------------
(* readBody, and a response without chunks. *)

(* readBody appends the bytes that have arrived to the body, and no others. *)
LEMMA BodyRead ==
  ASSUME NEW r \in Responses, NEW R \in 0 .. Len(Stream(r)),
         NEW p, NEW c, NEW start, NEW k, NEW chunks, NEW left, NEW n,
         CanRead(p, r, R, c, start, k, chunks, left, n)
  PROVE  IsInBody(readBody(p), r, R, c + n, StartOr(start, c), SubSeq(Written(r), 1, k + n), chunks,
                  FALSE, LeftAfter(left, n))
<1>0. /\ IsInBody(p, r, R, c, start, SubSeq(Written(r), 1, k), chunks, FALSE, left)
      /\ c \in 0 .. R /\ k \in Nat /\ left \in Int /\ n \in 0 .. R - c
      /\ n = Taken(left, R - c) /\ k + n <= r.size
      /\ \A j \in 1 .. n : Stream(r)[c + j] = Written(r)[k + j]
      /\ R \in Nat
  <2>1. R \in Nat
    BY StreamFacts
  <2>. QED BY <2>1, Zenon DEF CanRead
<1>1. /\ p.remaining = Left(r, R, c) /\ p.currentByteIdx = c /\ p.remainingBodyBytes = left
      /\ p.body = SubSeq(Written(r), 1, k) /\ p.bodyStartIndex = start /\ p.complete = FALSE
      /\ IsParser(p)
  BY <1>0 DEF IsInBody
<1>2. Len(p.remaining) = R - c
  BY <1>0, <1>1, LeftFacts
<1>3. SubSeq(p.remaining, n + 1, Len(p.remaining)) = Left(r, R, c + n)
  BY <1>0, <1>1, LeftRest
<1>4. p.body \o SubSeq(p.remaining, 1, n) = SubSeq(Written(r), 1, k + n)
  BY <1>0, <1>1, BodyMore
<1>. DEFINE q == readBody(p)
<1>5. q = [p EXCEPT
             !.bodyStartIndex = StartOr(start, c), !.remainingBodyBytes = LeftAfter(left, n),
             !.body = SubSeq(Written(r), 1, k + n), !.remaining = Left(r, R, c + n),
             !.currentByteIdx = c + n]
  <2>1. n = IF p.remainingBodyBytes = -1 THEN Len(p.remaining)
             ELSE IF p.remainingBodyBytes < Len(p.remaining)
             THEN p.remainingBodyBytes ELSE Len(p.remaining)
    BY <1>0, <1>1, <1>2 DEF Taken
  <2>2. q = [p EXCEPT
             !.bodyStartIndex = IF p.bodyStartIndex = None THEN p.currentByteIdx ELSE p.bodyStartIndex,
             !.remainingBodyBytes = IF p.remainingBodyBytes = -1 THEN -1 ELSE p.remainingBodyBytes - n,
             !.body = p.body \o SubSeq(p.remaining, 1, n),
             !.remaining = SubSeq(p.remaining, n + 1, Len(p.remaining)),
             !.currentByteIdx = p.currentByteIdx + n]
    BY <1>1, <2>1, Zenon DEF readBody
  <2>3. /\ StartOr(start, c) = IF p.bodyStartIndex = None THEN p.currentByteIdx ELSE p.bodyStartIndex
        /\ LeftAfter(left, n) = IF p.remainingBodyBytes = -1 THEN -1 ELSE p.remainingBodyBytes - n
    BY <1>1 DEF StartOr, LeftAfter
  <2>. HIDE DEF q
  <2>. QED BY <1>1, <1>3, <1>4, <2>2, <2>3, Zenon
<1>6. /\ IsParser(q) /\ q.bodyStartIndex = StartOr(start, c)
      /\ q.remainingBodyBytes = LeftAfter(left, n) /\ q.body = SubSeq(Written(r), 1, k + n)
      /\ q.remaining = Left(r, R, c + n) /\ q.currentByteIdx = c + n
      /\ \A f \in Fields \ {"bodyStartIndex", "remainingBodyBytes", "body", "remaining", "currentByteIdx"} :
           q[f] = p[f]
  <2>. HIDE DEF q
  <2>. QED BY <1>1, <1>5 DEF IsParser, Fields
<1>. HIDE DEF q
<1>7. IsInBody(q, r, R, c + n, StartOr(start, c), SubSeq(Written(r), 1, k + n), chunks,
               FALSE, LeftAfter(left, n))
  <2>1. /\ q.statusCode = p.statusCode /\ q.statusLineEndIndex = p.statusLineEndIndex
        /\ q.headers = p.headers /\ q.headerIndices = p.headerIndices
        /\ q.headersComplete = p.headersComplete /\ q.headerEndIdx = p.headerEndIdx
        /\ q.chunks = p.chunks /\ q.complete = p.complete /\ q.threw = p.threw /\ q.isChunked = p.isChunked
    BY <1>6 DEF Fields
  <2>. QED BY <1>0, <1>6, <2>1, Zenon DEF IsInBody
<1>. QED BY <1>7 DEF q

-----------------------------------------------------------------------------

(* Reading on, the parser gets there from wherever it was in the body. *)
LEMMA RestOfPlain ==
  ASSUME NEW r \in Responses, r.framing # "chunked", NEW R \in 0 .. Len(Stream(r)),
         NEW c \in H(r) .. R, NEW start \in {None, H(r)}, NEW cm \in BOOLEAN, NEW p,
         IsInBody(p, r, R, c, start, SubSeq(Written(r), 1, c - H(r)), None, cm, PlainLeft(r, c)),
         start = None => c = H(r), start = H(r) => ~NoBody(r),
         c > H(r) \/ cm => cm = PlainDone(r, c)
  PROVE  IsPlain(ReadRest(p), r, R)
<1>0. /\ H(r) \in Nat /\ r.size \in Nat /\ R \in Nat /\ c \in Nat /\ c - H(r) \in Nat
      /\ Len(Stream(r)) = H(r) + r.size /\ R <= H(r) + r.size /\ H(r) <= c /\ c <= R
      /\ None # H(r) /\ r.framing \in {"length", "close"}
  <2>1. H(r) \in Nat /\ r.size \in Nat /\ Len(Stream(r)) = H(r) + r.size
    BY LineKinds, ResponseFacts, StreamFacts
  <2>. QED BY <2>1, NoneAssumption, ResponseFacts DEF NoneAssumption, Framings
<1>1. /\ p.remainingBodyBytes = PlainLeft(r, c) /\ p.headers = HeadersAt(r, NL(r)) /\ IsParser(p)
      /\ p.isChunked = FALSE /\ p.complete = cm
  BY DEF IsInBody
<1>2. /\ "length" \in DOMAIN HeadersAt(r, NL(r)) <=> r.framing = "length"
      /\ r.framing = "length" => HeadersAt(r, NL(r))["length"] = r.size
  BY AllNames
<1>. DEFINE q == IF p.remainingBodyBytes = 0 THEN p ELSE readBody(p)
            done == \/ /\ p.remainingBodyBytes # 0
                       /\ q.remainingBodyBytes = 0 /\ ~q.isChunked
                    \/ "length" \in DOMAIN q.headers /\ q.headers["length"] = 0
            w == [q EXCEPT !.complete = q.complete \/ done]
<1>3. ReadRest(p) = IF w.isChunked THEN ReadChunks(w) ELSE w
  BY Zenon DEF ReadRest
<1>4. /\ IsInBody(q, r, R, R, PlainStart(r), SubSeq(Written(r), 1, R - H(r)), None, q.complete,
                  PlainLeft(r, R))
      /\ (q.complete \/ done) = PlainDone(r, R)
  <2>1. CASE PlainLeft(r, c) = 0
    <3>1. q = p /\ c = R /\ r.framing = "length" /\ PlainDone(r, R) /\ R = H(r) + r.size
      <4>1. q = p
        BY <1>1, <2>1, Zenon
      <4>2. r.framing = "length" /\ H(r) + r.size - c = 0
        BY <1>0, <2>1, SMTT(40) DEF PlainLeft
      <4>3. c = R /\ R = H(r) + r.size
        BY <1>0, <4>2
      <4>. QED BY <4>1, <4>2, <4>3 DEF PlainDone
    <3>2. start = PlainStart(r)
      BY <1>0, <3>1 DEF PlainStart, NoBody
    <3>3. q.complete \/ done
      <4>1. CASE r.size = 0
        <5>1. "length" \in DOMAIN q.headers /\ q.headers["length"] = 0
          <6>. HIDE DEF q
          <6>. QED BY <1>1, <1>2, <3>1, <4>1
        <5>. QED BY <5>1, Zenon
      <4>2. CASE r.size # 0
        <5>1. c > H(r)
          BY <1>0, <3>1, <4>2
        <5>2. cm = TRUE
          BY <3>1, <5>1
        <5>3. q.complete = TRUE
          <6>. HIDE DEF q
          <6>. QED BY <1>1, <3>1, <5>2
        <5>. QED BY <5>3, Zenon
      <4>. QED BY <4>1, <4>2
    <3>. HIDE DEF q, done
    <3>. QED BY <1>1, <3>1, <3>2, <3>3, Zenon
  <2>2. CASE PlainLeft(r, c) # 0
    <3>1. q = readBody(p)
      BY <1>1, <2>2, Zenon
    <3>2. ~cm /\ (r.framing = "length" => r.size # 0 /\ c < H(r) + r.size)
      BY <1>0, <2>2, SMTT(40) DEF PlainLeft, PlainDone
    <3>3. StartOr(start, c) = PlainStart(r)
      BY <1>0, <3>2 DEF StartOr, PlainStart, NoBody
    <3>. DEFINE n == R - c
                k == c - H(r)
    <3>4. /\ n \in 0 .. R - c /\ n = Taken(PlainLeft(r, c), R - c) /\ PlainLeft(r, c) \in Int
          /\ LeftAfter(PlainLeft(r, c), n) = PlainLeft(r, R)
      <4>1. CASE r.framing = "close"
        BY <1>0, <4>1 DEF Taken, LeftAfter, PlainLeft
      <4>2. CASE r.framing = "length"
        <5>1. PlainLeft(r, c) = H(r) + r.size - c /\ PlainLeft(r, R) = H(r) + r.size - R
          BY <4>2 DEF PlainLeft
        <5>2. PICK h \in Nat : h = H(r)
          BY <1>0
        <5>3. PICK x \in Nat : x = r.size
          BY <1>0
        <5>a. R <= h + x /\ c <= R /\ c \in Nat /\ R \in Nat
          BY <1>0, <5>2, <5>3
        <5>4. /\ h + x - c \in Int /\ h + x - c # -1 /\ ~(h + x - c < R - c)
              /\ (h + x - c) - (R - c) = h + x - R /\ R - c \in 0 .. R - c
          BY <5>a
        <5>5. Taken(h + x - c, R - c) = R - c /\ LeftAfter(h + x - c, R - c) = h + x - R
          BY <5>4 DEF Taken, LeftAfter
        <5>. QED BY <5>1, <5>2, <5>3, <5>4, <5>5
      <4>. QED BY <1>0, <4>1, <4>2
    <3>5. k \in Nat /\ k + n <= r.size /\ k + n = R - H(r) /\ c + n = R
      BY <1>0
    <3>6. ASSUME NEW j \in 1 .. n PROVE Stream(r)[c + j] = Written(r)[k + j]
      <4>1. k + j \in 1 .. r.size /\ H(r) + (k + j) = c + j
        BY <1>0, SMTT(40)
      <4>. QED BY <4>1, StreamFacts
    <3>. HIDE DEF n, k
    <3>7. CanRead(p, r, R, c, start, k, None, PlainLeft(r, c), n)
      <4>1. IsInBody(p, r, R, c, start, SubSeq(Written(r), 1, k), None, FALSE, PlainLeft(r, c))
        <5>1. cm = FALSE
          BY <3>2
        <5>. QED BY <5>1 DEF k
      <4>2. c \in 0 .. R
        BY <1>0
      <4>. QED BY <3>4, <3>5, <3>6, <4>1, <4>2 DEF CanRead
    <3>8. IsInBody(readBody(p), r, R, c + n, StartOr(start, c), SubSeq(Written(r), 1, k + n), None,
                  FALSE, LeftAfter(PlainLeft(r, c), n))
      BY <3>7, BodyRead
    <3>9. IsInBody(q, r, R, R, PlainStart(r), SubSeq(Written(r), 1, R - H(r)), None, FALSE, PlainLeft(r, R))
      <4>. HIDE DEF q
      <4>. QED BY <3>1, <3>3, <3>4, <3>5, <3>8
    <3>10. /\ q.complete = FALSE /\ q.remainingBodyBytes = PlainLeft(r, R) /\ q.isChunked = FALSE
           /\ q.headers = HeadersAt(r, NL(r))
      <4>. HIDE DEF q
      <4>. QED BY <3>9 DEF IsInBody
    <3>11. done <=> PlainDone(r, R)
      <4>. HIDE DEF q
      <4>1. ~("length" \in DOMAIN q.headers /\ q.headers["length"] = 0)
        BY <1>2, <3>2, <3>10
      <4>2. PlainLeft(r, R) = 0 <=> PlainDone(r, R)
        BY <1>0, SMTT(40) DEF PlainLeft, PlainDone
      <4>. QED BY <1>1, <2>2, <3>10, <4>1, <4>2
    <3>. HIDE DEF q, done
    <3>12. (q.complete \/ done) = PlainDone(r, R)
      BY <3>10, <3>11 DEF PlainDone
    <3>. QED BY <3>9, <3>10, <3>12, Zenon
  <2>. QED BY <2>1, <2>2
<1>. HIDE DEF q, done
<1>5. IsParser(q) /\ q.isChunked = FALSE
  BY <1>4 DEF IsInBody
<1>6. IsParser(w) /\ w.complete = (q.complete \/ done) /\ \A f \in Fields \ {"complete"} : w[f] = q[f]
  BY <1>5 DEF IsParser, Fields
<1>. HIDE DEF w
<1>7. /\ w.statusCode = q.statusCode /\ w.statusLineEndIndex = q.statusLineEndIndex
      /\ w.headers = q.headers /\ w.headerIndices = q.headerIndices
      /\ w.headersComplete = q.headersComplete /\ w.headerEndIdx = q.headerEndIdx
      /\ w.body = q.body /\ w.bodyStartIndex = q.bodyStartIndex
      /\ w.remainingBodyBytes = q.remainingBodyBytes
      /\ w.remaining = q.remaining /\ w.currentByteIdx = q.currentByteIdx
      /\ w.chunks = q.chunks /\ w.threw = q.threw /\ w.isChunked = q.isChunked
  BY <1>6 DEF Fields
<1>8. IsPlain(w, r, R)
  BY <1>4, <1>6, <1>7, ZenonT(60) DEF IsInBody, IsPlain
<1>9. ReadRest(p) = w
  BY <1>3, <1>5, <1>7
<1>. QED BY <1>8, <1>9

-----------------------------------------------------------------------------
(* The parser inside a chunk and behind one. *)

(* Positions in the stream and in the body, chunk by chunk. *)
LEMMA ChunkNumbers ==
  ASSUME NEW r \in Responses, r.framing = "chunked", NEW i \in 1 .. M(r) + 1
  PROVE  /\ M(r) \in Nat /\ H(r) \in Nat /\ r.size \in Nat
         /\ BodyBefore(r, i) \in Nat /\ BodyUpTo(r, i) \in Nat /\ BodyUpTo(r, i) <= r.size
         /\ DataAt(r, i) \in Nat /\ DataEnd(r, i) \in Nat
         /\ DataEnd(r, i) - DataAt(r, i) = BodyUpTo(r, i) - BodyBefore(r, i)
         /\ DataAt(r, i) <= DataEnd(r, i)
         /\ i <= M(r) => DataAt(r, i) < DataEnd(r, i)
         /\ DataAt(r, i) = BehindAt(r, i - 1) + 3 /\ BehindAt(r, i - 1) \in Nat
         /\ BodyBefore(r, i) = BehindBody(r, i - 1)
         /\ i = M(r) + 1 => /\ BodyBefore(r, i) = r.size /\ BodyUpTo(r, i) = r.size
                            /\ DataAt(r, i) = DataEnd(r, i)
                            /\ DataEnd(r, i) + 2 = Len(Stream(r))
         /\ DataEnd(r, i) + 2 <= Len(Stream(r))
<1>. DEFINE m == M(r)
<1>1. m \in Nat /\ H(r) \in Nat /\ r.size \in Nat /\ i \in 1 .. m + 1 /\ m = Len(r.ends)
  BY ResponseCuts, LineKinds DEF M
<1>2. /\ BodyBefore(r, i) \in 0 .. r.size /\ BodyUpTo(r, i) \in 0 .. r.size
      /\ i = m + 1 => BodyBefore(r, i) = r.size /\ BodyUpTo(r, i) = r.size
      /\ BodyBefore(r, 1) = 0
  BY <1>1, ChunkBounds
<1>3. /\ SizeAt(r, i) \in Nat /\ DataAt(r, i) = SizeAt(r, i) + 3
      /\ DataEnd(r, i) \in Nat /\ DataAt(r, i) <= DataEnd(r, i)
      /\ DataEnd(r, i) - DataAt(r, i) = BodyUpTo(r, i) - BodyBefore(r, i)
      /\ i <= m => DataAt(r, i) < DataEnd(r, i)
      /\ i = m + 1 => DataAt(r, i) = DataEnd(r, i) /\ Len(Stream(r)) = DataEnd(r, i) + 2
      /\ DataEnd(r, i) + 2 <= Len(Stream(r))
      /\ SizeAt(r, 1) = H(r)
  BY <1>1, ChunkPlaces
<1>. HIDE DEF m
<1>4. BehindAt(r, i - 1) = SizeAt(r, i) /\ BehindBody(r, i - 1) = BodyBefore(r, i)
  <2>1. CASE i = 1
    BY <1>2, <1>3, <2>1 DEF BehindAt, BehindBody
  <2>2. CASE i # 1
    <3>1. i - 1 \in 1 .. m + 1 /\ i - 1 <= m /\ (i - 1) + 1 = i /\ i - 1 # 0
      BY <1>1, <2>2
    <3>2. SizeAt(r, (i - 1) + 1) = DataEnd(r, i - 1) + 2
      BY <1>1, <3>1, ChunkPlaces
    <3>3. BodyBefore(r, (i - 1) + 1) = BodyUpTo(r, i - 1)
      BY <1>1, <3>1, ChunkBounds
    <3>. QED BY <3>1, <3>2, <3>3 DEF BehindAt, BehindBody
  <2>. QED BY <2>1, <2>2
<1>5. DataAt(r, i) \in Nat /\ BodyBefore(r, i) \in Nat /\ BodyUpTo(r, i) \in Nat /\ BodyUpTo(r, i) <= r.size
  BY <1>1, <1>2, <1>3, SMTT(40)
<1>. QED BY <1>1, <1>2, <1>3, <1>4, <1>5 DEF m

(* The data of a chunk has arrived up to R or up to its end. *)
LEMMA ReachFacts ==
  ASSUME NEW r \in Responses, r.framing = "chunked", NEW R \in 0 .. Len(Stream(r)),
         NEW i \in DataIdx(r, R)
  PROVE  /\ i \in 1 .. M(r) + 1 /\ DataAt(r, i) <= R
         /\ Reach(r, R, i) \in 0 .. R /\ DataAt(r, i) <= Reach(r, R, i)
         /\ Reach(r, R, i) <= DataEnd(r, i)
         /\ Reach(r, R, i) = R \/ Reach(r, R, i) = DataEnd(r, i)
<1>1. i \in 1 .. M(r) + 1 /\ DataAt(r, i) <= R /\ R \in Nat
  BY StreamFacts DEF DataIdx
<1>2. DataAt(r, i) \in Nat /\ DataEnd(r, i) \in Nat /\ DataAt(r, i) <= DataEnd(r, i)
  BY <1>1, ChunkNumbers
<1>. QED BY <1>1, <1>2 DEF Reach

(* The line end behind the data of a chunk. *)
LEMMA EndLine ==
  ASSUME NEW r \in Responses, r.framing = "chunked", NEW R \in 0 .. Len(Stream(r)),
         NEW i \in DataIdx(r, R), NEW s, s = InChunk(r, R, i)
  PROVE  \/ /\ HasLine(s) /\ DataEnd(r, i) + 2 <= R
            /\ ChunkLine(s) = BehindState(r, R, i)
         \/ ~HasLine(s) /\ R < DataEnd(r, i) + 2 /\ ChunkLine(s) = s
<1>. DEFINE c == Reach(r, R, i)
            e == DataEnd(r, i)
            B == SubSeq(Written(r), 1, BodyBefore(r, i) + (c - DataAt(r, i)))
<1>0. /\ R \in Nat /\ i \in 1 .. M(r) + 1 /\ c \in 0 .. R /\ c <= e /\ (c = R \/ c = e)
      /\ e \in Nat /\ DataAt(r, i) \in Nat /\ BodyBefore(r, i) \in Nat /\ BodyUpTo(r, i) \in Nat
      /\ e - DataAt(r, i) = BodyUpTo(r, i) - BodyBefore(r, i)
  <2>1. R \in Nat
    BY StreamFacts
  <2>2. i \in 1 .. M(r) + 1 /\ c \in 0 .. R /\ c <= e /\ (c = R \/ c = e)
    BY ReachFacts
  <2>3. /\ e \in Nat /\ DataAt(r, i) \in Nat
        /\ BodyBefore(r, i) \in Nat /\ BodyUpTo(r, i) \in Nat
        /\ e - DataAt(r, i) = BodyUpTo(r, i) - BodyBefore(r, i)
    BY <2>2, ChunkNumbers
  <2>. QED BY <2>1, <2>2, <2>3
<1>1. IsInBody(s, r, R, c, StartIn(r, i), B, ChunksUpTo(r, i), LastChunk(r, i), e - c)
  BY InBodyFields DEF InChunk, DataState
<1>. HIDE DEF B
<1>2. IsParser(s) /\ s.remaining = Left(r, R, c) /\ s.currentByteIdx = c /\ s.threw = FALSE
  <2>. HIDE DEF c, e
  <2>. QED BY <1>1 DEF IsInBody
<1>3. Stream(r)[e + 1] = CR /\ Stream(r)[e + 2] = LF
  BY <1>0, ChunkInStream DEF M
<1>4. CASE e + 2 <= R
  <2>1. c = e
    <3>. HIDE DEF c, e
    <3>. QED BY <1>0, <1>4
  <2>2. HasLine(s) /\ LineOf(s) = <<>> /\ AfterLine(s) = Moved(s, Left(r, R, e + 2), e + 2)
    <3>. HIDE DEF c, e
    <3>. QED BY <1>0, <1>2, <1>3, <1>4, <2>1, AfterEmpty
  <2>. DEFINE q == AfterLine(s)
  <2>3. /\ IsParser(q) /\ q.remaining = Left(r, R, e + 2) /\ q.currentByteIdx = e + 2
        /\ \A f \in Fields \ {"remaining", "currentByteIdx"} : q[f] = s[f]
    <3>. HIDE DEF c, e, q
    <3>. QED BY <1>2, <2>2, MovedFields DEF q
  <2>4. ChunkLine(s) = q
    <3>. HIDE DEF q
    <3>. QED BY <1>2, <2>2, Zenon DEF ChunkLine, q
  <2>5. BehindAt(r, i) = e + 2 /\ B = SubSeq(Written(r), 1, BehindBody(r, i)) /\ e - c = 0
    <3>1. i # 0
      BY <1>0
    <3>2. BodyBefore(r, i) + (e - DataAt(r, i)) = BodyUpTo(r, i) /\ e - c = 0
      <4>. HIDE DEF c, e
      <4>. QED BY <1>0, <2>1
    <3>3. BodyBefore(r, i) + (c - DataAt(r, i)) = BodyUpTo(r, i)
      <4>. HIDE DEF c, e
      <4>. QED BY <2>1, <3>2
    <3>. QED BY <3>1, <3>2, <3>3 DEF BehindAt, BehindBody, B
  <2>. HIDE DEF q
  <2>6. IsInBody(q, r, R, BehindAt(r, i), StartIn(r, i), SubSeq(Written(r), 1, BehindBody(r, i)),
                 ChunksUpTo(r, i), LastChunk(r, i), 0)
    <3>. HIDE DEF c, e
    <3>1. /\ q.statusCode = s.statusCode /\ q.statusLineEndIndex = s.statusLineEndIndex
          /\ q.headers = s.headers /\ q.headerIndices = s.headerIndices
          /\ q.headersComplete = s.headersComplete /\ q.headerEndIdx = s.headerEndIdx
          /\ q.body = s.body /\ q.bodyStartIndex = s.bodyStartIndex
          /\ q.remainingBodyBytes = s.remainingBodyBytes /\ q.complete = s.complete
          /\ q.chunks = s.chunks /\ q.threw = s.threw /\ q.isChunked = s.isChunked
      BY <2>3 DEF Fields
    <3>. QED BY <1>1, <2>3, <2>5, <3>1, Zenon DEF IsInBody
  <2>7. q = BehindState(r, R, i)
    BY <2>6, InBodyFields DEF BehindState
  <2>. QED BY <1>4, <2>2, <2>4, <2>7
<1>5. CASE R < e + 2
  <2>1. R <= c + 1
    <3>. HIDE DEF c, e
    <3>. QED BY <1>0, <1>5
  <2>2. ~HasLine(s)
    <3>. HIDE DEF c, e
    <3>. QED BY <1>0, <1>2, <2>1, NoLine
  <2>3. ChunkLine(s) = s
    BY <2>2 DEF ChunkLine
  <2>. QED BY <1>5, <2>2, <2>3
<1>. QED BY <1>0, <1>4, <1>5

-----------------------------------------------------------------------------
(* The size line of the next chunk. *)

(* ChunkAt is the place of the chunk's data. *)
LEMMA ChunkAtPlaces ==
  ASSUME NEW r \in Responses, r.framing = "chunked", NEW i \in 1 .. M(r) + 1
  PROVE  ChunkAt(r, i) = [fromIndex |-> DataAt(r, i), toIndex |-> DataEnd(r, i)]
<1>1. /\ M(r) \in Nat /\ H(r) \in Nat /\ BodyBefore(r, i) \in Nat /\ BodyUpTo(r, i) \in Nat
  BY ChunkNumbers
<1>2. BodyStart(r) = H(r) + 3
  BY HeaderBytes DEF BodyStart
<1>. DEFINE h == H(r)
            b == BodyBefore(r, i)
            u == BodyUpTo(r, i)
<1>3. /\ DataAt(r, i) = h + (b + 5 * (i - 1)) + 3
      /\ DataEnd(r, i) = h + (b + 5 * (i - 1)) + 3 + u - b
      /\ ChunkAt(r, i) = [fromIndex |-> (h + 3) + (b + 5 * (i - 1)), toIndex |-> (h + 3) + u + 5 * (i - 1)]
  BY <1>2 DEF DataEnd, DataAt, SizeAt, ChunksBefore, ChunkAt
<1>. HIDE DEF h, b, u
<1>4. h \in Nat /\ b \in Nat /\ u \in Nat /\ i \in Nat
  BY <1>1 DEF h, b, u
<1>5. /\ (h + 3) + (b + 5 * (i - 1)) = h + (b + 5 * (i - 1)) + 3
      /\ (h + 3) + u + 5 * (i - 1) = h + (b + 5 * (i - 1)) + 3 + u - b
  BY <1>4
<1>. QED BY <1>3, <1>5

(* The size line of a chunk with data adds it to the chunks, that of the    *)
(* last one does not.                                                       *)
LEMMA ChunksAppended ==
  ASSUME NEW r \in Responses, r.framing = "chunked", NEW i \in 0 .. M(r)
  PROVE  /\ i + 1 <= M(r) => Append(ChunksUpTo(r, i), ChunkAt(r, i + 1)) = ChunksUpTo(r, i + 1)
         /\ i = M(r) => ChunksUpTo(r, i) = ChunksUpTo(r, i + 1)
<1>1. M(r) \in Nat
  BY ResponseCuts DEF M
<1>. DEFINE m == M(r)
<1>. HIDE DEF m
<1>2. m \in Nat /\ i \in 0 .. m
  BY <1>1 DEF m
<1>3. ASSUME NEW k \in 0 .. m PROVE ChunksUpTo(r, k) = [j \in 1 .. k |-> ChunkAt(r, j)]
  BY <1>2, <1>3 DEF ChunksUpTo, m
<1>4. ChunksUpTo(r, m + 1) = [j \in 1 .. m |-> ChunkAt(r, j)]
  BY <1>2 DEF ChunksUpTo, m
<1>5. ASSUME i + 1 <= m PROVE Append(ChunksUpTo(r, i), ChunkAt(r, i + 1)) = ChunksUpTo(r, i + 1)
  <2>1. ChunksUpTo(r, i) = [j \in 1 .. i |-> ChunkAt(r, j)] /\ i \in Nat
    BY <1>2, <1>3
  <2>2. ChunksUpTo(r, i + 1) = [j \in 1 .. i + 1 |-> ChunkAt(r, j)]
    <3>1. i + 1 \in 0 .. m
      BY <1>2, <1>5
    <3>. QED BY <1>3, <3>1
  <2>3. Append([j \in 1 .. i |-> ChunkAt(r, j)], ChunkAt(r, i + 1)) = [j \in 1 .. i + 1 |-> ChunkAt(r, j)]
    <3>. DEFINE a == [j \in 1 .. i |-> ChunkAt(r, j)]
                b == [j \in 1 .. i + 1 |-> ChunkAt(r, j)]
                S == {ChunkAt(r, j) : j \in 1 .. i + 1}
    <3>1. a \in Seq(S) /\ Len(a) = i /\ b \in Seq(S) /\ Len(b) = i + 1 /\ ChunkAt(r, i + 1) \in S
      BY <2>1
    <3>2. /\ Append(a, ChunkAt(r, i + 1)) \in Seq(S) /\ Len(Append(a, ChunkAt(r, i + 1))) = i + 1
          /\ \A j \in 1 .. i : Append(a, ChunkAt(r, i + 1))[j] = a[j]
          /\ Append(a, ChunkAt(r, i + 1))[i + 1] = ChunkAt(r, i + 1)
      <4>. HIDE DEF a, b, S
      <4>. QED BY <3>1, AppendProperties
    <3>3. ASSUME NEW j \in 1 .. i + 1 PROVE Append(a, ChunkAt(r, i + 1))[j] = b[j]
      <4>1. b[j] = ChunkAt(r, j) /\ (j \in 1 .. i => a[j] = ChunkAt(r, j)) /\ (j \in 1 .. i \/ j = i + 1)
        BY <2>1
      <4>. HIDE DEF a, b
      <4>. QED BY <3>2, <4>1
    <3>. HIDE DEF a, b, S
    <3>4. Append(a, ChunkAt(r, i + 1)) = b
      BY <3>1, <3>2, <3>3, SeqEqual
    <3>. QED BY <3>4 DEF a, b
  <2>. QED BY <2>1, <2>2, <2>3
<1>6. i = m => ChunksUpTo(r, i) = ChunksUpTo(r, i + 1)
  BY <1>2, <1>3, <1>4
<1>. QED BY <1>5, <1>6 DEF m

(* A round of ChunkLine behind a chunk reads the size line of the next one  *)
(* and what has arrived of its data, or waits for the line.                 *)
LEMMA SizeLine ==
  ASSUME NEW r \in Responses, r.framing = "chunked", NEW R \in 0 .. Len(Stream(r)),
         NEW i \in BehindIdx(r, R), i <= M(r), NEW s, s = BehindState(r, R, i)
  PROVE  \/ /\ HasLine(s) /\ BehindAt(r, i) + 3 <= R /\ i + 1 \in DataIdx(r, R)
            /\ ChunkLine(s) = InChunk(r, R, i + 1)
         \/ ~HasLine(s) /\ R < BehindAt(r, i) + 3 /\ ChunkLine(s) = s
<1>. DEFINE b == BehindAt(r, i)
            k == i + 1
            B == SubSeq(Written(r), 1, BehindBody(r, i))
            n == BodyUpTo(r, k) - BodyBefore(r, k)
            x == <<"size", n>>
<1>0. i \in 0 .. M(r) + 1 /\ b <= R /\ R \in Nat /\ k \in 1 .. M(r) + 1 /\ M(r) \in Nat /\ k - 1 = i /\ i \in 0 .. M(r)
  <2>1. M(r) \in Nat /\ R \in Nat
    BY ResponseCuts, StreamFacts DEF M
  <2>2. i \in 0 .. M(r) + 1 /\ b <= R
    BY DEF BehindIdx
  <2>. QED BY <2>1, <2>2
<1>1. /\ H(r) \in Nat /\ r.size \in Nat /\ BodyBefore(r, k) \in Nat /\ BodyUpTo(r, k) \in Nat
      /\ BodyUpTo(r, k) <= r.size
      /\ DataAt(r, k) \in Nat /\ DataEnd(r, k) \in Nat /\ DataEnd(r, k) - DataAt(r, k) = n
      /\ DataAt(r, k) <= DataEnd(r, k) /\ (k <= M(r) => DataAt(r, k) < DataEnd(r, k))
      /\ DataAt(r, k) = BehindAt(r, k - 1) + 3 /\ BehindAt(r, k - 1) \in Nat
      /\ BodyBefore(r, k) = BehindBody(r, k - 1)
      /\ k = M(r) + 1 => /\ BodyBefore(r, k) = r.size /\ BodyUpTo(r, k) = r.size
                         /\ DataAt(r, k) = DataEnd(r, k)
  <2>. HIDE DEF k
  <2>. QED BY <1>0, ChunkNumbers
<1>2. b \in Nat /\ DataAt(r, k) = b + 3 /\ BodyBefore(r, k) = BehindBody(r, i) /\ n \in Nat
      /\ DataEnd(r, k) = b + 3 + n
  <2>1. BehindAt(r, k - 1) = b /\ BehindBody(r, k - 1) = BehindBody(r, i)
    BY <1>0
  <2>2. b \in Nat /\ DataAt(r, k) = b + 3 /\ BodyBefore(r, k) = BehindBody(r, i)
    <3>. HIDE DEF b, k, n
    <3>. QED BY <1>1, <2>1
  <2>3. PICK e \in Nat : e = DataEnd(r, k)
    BY <1>1
  <2>4. n \in Int
    BY <1>1
  <2>5. e - (b + 3) = n /\ b + 3 <= e
    <3>. HIDE DEF b, k, n
    <3>. QED BY <1>1, <2>2, <2>3
  <2>6. n \in Nat /\ e = b + 3 + n
    <3>. HIDE DEF b, k, n
    <3>. QED BY <2>2, <2>4, <2>5
  <2>. QED BY <2>2, <2>3, <2>6
<1>3. /\ Stream(r)[b + 1] = x /\ Stream(r)[b + 2] = CR /\ Stream(r)[b + 3] = LF
      /\ \A j \in 1 .. n : Stream(r)[(b + 3) + j] = Written(r)[BodyBefore(r, k) + j]
      /\ x # CR
  <2>1. /\ Stream(r)[SizeAt(r, k) + 1] = x
        /\ Stream(r)[SizeAt(r, k) + 2] = CR /\ Stream(r)[SizeAt(r, k) + 3] = LF
        /\ \A j \in 1 .. n : Stream(r)[DataAt(r, k) + j] = Written(r)[BodyBefore(r, k) + j]
    <3>. HIDE DEF k
    <3>. QED BY <1>0, ChunkInStream DEF M
  <2>2. SizeAt(r, k) = b
    <3>1. SizeAt(r, k) \in Nat /\ DataAt(r, k) = SizeAt(r, k) + 3
      <4>. HIDE DEF k
      <4>. QED BY <1>0, ChunkPlaces DEF M
    <3>. HIDE DEF b, k
    <3>. QED BY <1>2, <3>1
  <2>3. x # CR
    BY NotCR
  <2>. HIDE DEF b, k, n, x
  <2>. QED BY <1>2, <2>1, <2>2, <2>3
<1>4. IsInBody(s, r, R, b, StartIn(r, i), B, ChunksUpTo(r, i), LastChunk(r, i), 0)
  BY InBodyFields DEF BehindState
<1>5. LastChunk(r, i) = FALSE
  <2>1. ~LastChunk(r, i)
    BY <1>0 DEF LastChunk
  <2>. QED BY <2>1 DEF LastChunk
<1>. HIDE DEF B, b, n, x, k
<1>6. /\ IsParser(s) /\ s.remaining = Left(r, R, b) /\ s.currentByteIdx = b /\ s.threw = FALSE
      /\ s.chunks = ChunksUpTo(r, i)
  BY <1>4 DEF IsInBody
<1>7. CASE b + 3 <= R
  <2>1. b \in 0 .. R /\ Stream(r)[b + 1] # CR
    BY <1>0, <1>2, <1>3
  <2>2. HasLine(s) /\ LineOf(s) = <<x>> /\ AfterLine(s) = Moved(s, Left(r, R, b + 3), b + 3)
    BY <1>3, <1>6, <1>7, <2>1, AfterOne
  <2>. DEFINE q == AfterLine(s)
  <2>3. /\ IsParser(q) /\ q.remaining = Left(r, R, b + 3) /\ q.currentByteIdx = b + 3
        /\ \A f \in Fields \ {"remaining", "currentByteIdx"} : q[f] = s[f]
    <3>. HIDE DEF q
    <3>. QED BY <1>6, <2>2, MovedFields DEF q
  <2>4. <<x>> # <<>> /\ <<x>>[1][2] = n
    BY DEF x
  <2>5. k \in DataIdx(r, R)
    BY <1>0, <1>2, <1>7 DEF DataIdx
  <2>6. IsInBody(q, r, R, b + 3, StartIn(r, i), B, ChunksUpTo(r, i), FALSE, 0)
    <3>. HIDE DEF q
    <3>1. /\ q.statusCode = s.statusCode /\ q.statusLineEndIndex = s.statusLineEndIndex
          /\ q.headers = s.headers /\ q.headerIndices = s.headerIndices
          /\ q.headersComplete = s.headersComplete /\ q.headerEndIdx = s.headerEndIdx
          /\ q.body = s.body /\ q.bodyStartIndex = s.bodyStartIndex
          /\ q.remainingBodyBytes = s.remainingBodyBytes /\ q.complete = s.complete
          /\ q.chunks = s.chunks /\ q.threw = s.threw /\ q.isChunked = s.isChunked
      BY <2>3 DEF Fields
    <3>. QED BY <1>4, <1>5, <2>3, <3>1, Zenon DEF IsInBody
  <2>7. CASE k = M(r) + 1
    <3>1. n = 0 /\ i = M(r) /\ ~(k <= M(r))
      <4>1. i = M(r) /\ ~(k <= M(r))
        BY <1>0, <2>7 DEF k
      <4>. QED BY <1>0, <1>1, <2>7, <4>1 DEF n
    <3>. DEFINE w == [q EXCEPT !.complete = TRUE]
    <3>2. ChunkLine(s) = w
      <4>. HIDE DEF q
      <4>. QED BY <1>6, <2>2, <2>4, <3>1, Zenon DEF ChunkLine, q
    <3>3. IsParser(w) /\ w.complete = TRUE /\ \A f \in Fields \ {"complete"} : w[f] = q[f]
      <4>. HIDE DEF q
      <4>. QED BY <2>3 DEF IsParser, Fields
    <3>. HIDE DEF w, q
    <3>4. /\ Reach(r, R, k) = b + 3 /\ DataEnd(r, k) - (b + 3) = 0
          /\ BodyBefore(r, k) + ((b + 3) - DataAt(r, k)) = BehindBody(r, i)
      <4>1. DataEnd(r, k) = b + 3
        BY <1>2, <3>1
      <4>2. Reach(r, R, k) = b + 3
        BY <1>0, <1>2, <1>7, <4>1 DEF Reach
      <4>. QED BY <1>1, <1>2, <4>1, <4>2
    <3>5. StartIn(r, k) = StartIn(r, i) /\ ChunksUpTo(r, k) = ChunksUpTo(r, i)
      <4>1. k # 0
        BY <1>0
      <4>2. ChunksUpTo(r, k) = ChunksUpTo(r, i)
        BY <1>0, <3>1, ChunksAppended DEF k
      <4>. QED BY <3>1, <4>1, <4>2 DEF StartIn
    <3>6. LastChunk(r, k) = TRUE
      BY <2>7 DEF LastChunk
    <3>7. IsInBody(w, r, R, b + 3, StartIn(r, i), B, ChunksUpTo(r, i), TRUE, 0)
      <4>1. /\ w.statusCode = q.statusCode /\ w.statusLineEndIndex = q.statusLineEndIndex
            /\ w.headers = q.headers /\ w.headerIndices = q.headerIndices
            /\ w.headersComplete = q.headersComplete /\ w.headerEndIdx = q.headerEndIdx
            /\ w.body = q.body /\ w.bodyStartIndex = q.bodyStartIndex
            /\ w.remainingBodyBytes = q.remainingBodyBytes
            /\ w.remaining = q.remaining /\ w.currentByteIdx = q.currentByteIdx
            /\ w.chunks = q.chunks /\ w.threw = q.threw /\ w.isChunked = q.isChunked
        BY <3>3 DEF Fields
      <4>. QED BY <2>6, <3>3, <4>1, Zenon DEF IsInBody
    <3>8. w = InBody(r, R, b + 3, StartIn(r, i), B, ChunksUpTo(r, i), TRUE, 0)
      BY <3>7, InBodyFields
    <3>9. w = InChunk(r, R, k)
      BY <3>4, <3>5, <3>6, <3>8 DEF InChunk, DataState, B
    <3>. QED BY <1>7, <2>2, <2>5, <3>2, <3>9 DEF b, k
  <2>8. CASE k <= M(r)
    <3>1. n # 0 /\ n \in Nat
      BY <1>1, <1>2, <2>8
    <3>. DEFINE c2 == [fromIndex |-> b + 3, toIndex |-> b + 3 + n]
                w == [q EXCEPT !.chunks = Append(ChunksUpTo(r, i), c2), !.remainingBodyBytes = n]
    <3>2. ChunkLine(s) = readBody(w)
      <4>1. q.chunks = ChunksUpTo(r, i)
        <5>. HIDE DEF q
        <5>. QED BY <2>6 DEF IsInBody
      <4>2. w = [q EXCEPT !.chunks = Append(q.chunks, [fromIndex |-> q.currentByteIdx,
                                          toIndex |-> q.currentByteIdx + n]),
                          !.remainingBodyBytes = n]
        <5>. HIDE DEF q
        <5>. QED BY <2>3, <4>1, Zenon
      <4>. HIDE DEF q, w
      <4>. QED BY <1>6, <2>2, <2>4, <3>1, <4>2, Zenon DEF ChunkLine, q
    <3>3. Append(ChunksUpTo(r, i), c2) = ChunksUpTo(r, k)
      <4>1. c2 = ChunkAt(r, k)
        BY <1>0, <1>2, ChunkAtPlaces
      <4>. HIDE DEF c2
      <4>. QED BY <1>0, <2>8, <4>1, ChunksAppended DEF k
    <3>4. /\ IsParser(w) /\ w.chunks = ChunksUpTo(r, k) /\ w.remainingBodyBytes = n
          /\ \A f \in Fields \ {"chunks", "remainingBodyBytes"} : w[f] = q[f]
      <4>. HIDE DEF q, c2
      <4>. QED BY <2>3, <3>3 DEF IsParser, Fields
    <3>. HIDE DEF w, q
    <3>5. IsInBody(w, r, R, b + 3, StartIn(r, i), B, ChunksUpTo(r, k), FALSE, n)
      <4>1. /\ w.statusCode = q.statusCode /\ w.statusLineEndIndex = q.statusLineEndIndex
            /\ w.headers = q.headers /\ w.headerIndices = q.headerIndices
            /\ w.headersComplete = q.headersComplete /\ w.headerEndIdx = q.headerEndIdx
            /\ w.body = q.body /\ w.bodyStartIndex = q.bodyStartIndex
            /\ w.remaining = q.remaining /\ w.currentByteIdx = q.currentByteIdx
            /\ w.complete = q.complete /\ w.threw = q.threw /\ w.isChunked = q.isChunked
        BY <3>4 DEF Fields
      <4>. QED BY <2>6, <3>4, <4>1, Zenon DEF IsInBody
    <3>. DEFINE nn == Taken(n, R - (b + 3))
    <3>6. nn \in 0 .. R - (b + 3) /\ nn <= n /\ nn = IF n < R - (b + 3) THEN n ELSE R - (b + 3)
      BY <1>0, <1>2, <1>7 DEF Taken
    <3>7. CanRead(w, r, R, b + 3, StartIn(r, i), BehindBody(r, i), ChunksUpTo(r, k), n, nn)
      <4>. HIDE DEF nn
      <4>1. BehindBody(r, i) + nn <= r.size /\ BehindBody(r, i) \in Nat
        <5>1. BehindBody(r, i) \in Nat /\ BehindBody(r, i) + n = BodyUpTo(r, k)
          <6>1. BodyBefore(r, k) + n = BodyUpTo(r, k)
            BY <1>1 DEF n
          <6>. QED BY <1>1, <1>2, <6>1
        <5>2. nn \in Nat /\ nn <= n /\ n \in Nat
          BY <1>0, <1>2, <1>7, <3>6
        <5>3. PICK y \in Nat : y = BehindBody(r, i)
          BY <5>1
        <5>4. PICK u \in Nat : u = BodyUpTo(r, k)
          BY <1>1
        <5>5. y + n = u /\ u <= r.size /\ r.size \in Nat
          BY <1>1, <5>1, <5>3, <5>4
        <5>6. y + nn <= r.size
          BY <5>2, <5>5
        <5>. QED BY <5>3, <5>6
      <4>2. \A j \in 1 .. nn : Stream(r)[(b + 3) + j] = Written(r)[BehindBody(r, i) + j]
        <5>1. \A j \in 1 .. nn : j \in 1 .. n
          BY <1>0, <1>2, <1>7, <3>6
        <5>. QED BY <1>2, <1>3, <5>1
      <4>3. b + 3 \in 0 .. R /\ n \in Int
        BY <1>0, <1>2, <1>7
      <4>. QED BY <3>5, <3>6, <4>1, <4>2, <4>3 DEF CanRead, nn, B
    <3>8. IsInBody(readBody(w), r, R, (b + 3) + nn, StartOr(StartIn(r, i), b + 3),
                   SubSeq(Written(r), 1, BehindBody(r, i) + nn), ChunksUpTo(r, k), FALSE, LeftAfter(n, nn))
      <4>. HIDE DEF nn
      <4>. QED BY <3>7, BodyRead
    <3>9. (b + 3) + nn = Reach(r, R, k) /\ LeftAfter(n, nn) = DataEnd(r, k) - ((b + 3) + nn)
          /\ BehindBody(r, i) + nn = BodyBefore(r, k) + (((b + 3) + nn) - DataAt(r, k))
      <4>. HIDE DEF nn
      <4>1. Reach(r, R, k) = IF R < b + 3 + n THEN R ELSE b + 3 + n
        BY <1>2 DEF Reach
      <4>2. (b + 3) + nn = Reach(r, R, k)
        BY <1>0, <1>2, <1>7, <3>6, <4>1
      <4>3. LeftAfter(n, nn) = n - nn /\ nn \in Nat
        BY <1>0, <1>2, <1>7, <3>6 DEF LeftAfter
      <4>. QED BY <1>1, <1>2, <4>2, <4>3
    <3>10. StartOr(StartIn(r, i), b + 3) = StartIn(r, k)
      <4>1. k # 0 /\ M(r) # 0 /\ (i = 0 => b = H(r)) /\ H(r) + 3 # None
        BY <1>0, <1>1, <2>8, NoneAssumption, SMTT(40) DEF NoneAssumption, b, BehindAt
      <4>. QED BY <4>1 DEF StartOr, StartIn
    <3>11. LastChunk(r, k) = FALSE
      <4>1. ~LastChunk(r, k)
        BY <1>0, <2>8 DEF LastChunk
      <4>. QED BY <4>1 DEF LastChunk
    <3>. HIDE DEF nn
    <3>12. readBody(w) = InBody(r, R, (b + 3) + nn, StartIn(r, k),
                   SubSeq(Written(r), 1, BehindBody(r, i) + nn), ChunksUpTo(r, k), FALSE, LeftAfter(n, nn))
      BY <3>8, <3>10, InBodyFields
    <3>13. readBody(w) = InChunk(r, R, k)
      BY <3>9, <3>11, <3>12 DEF InChunk, DataState
    <3>. QED BY <1>7, <2>2, <2>5, <3>2, <3>13 DEF b, k
  <2>. QED BY <1>0, <2>7, <2>8
<1>8. CASE R < b + 3
  <2>1. b \in 0 .. R /\ (R <= b + 1 \/ (R = b + 2 /\ Stream(r)[b + 1] # CR))
    BY <1>0, <1>2, <1>3, <1>8
  <2>2. ~HasLine(s)
    BY <1>6, <2>1, NoLine
  <2>3. ChunkLine(s) = s
    BY <2>2 DEF ChunkLine
  <2>. QED BY <1>8, <2>2, <2>3 DEF b
<1>. QED BY <1>0, <1>2, <1>7, <1>8

-----------------------------------------------------------------------------
(* All chunks that have arrived are read. *)

(* A round of the loop over chunks stays in these states and makes what is  *)
(* left shorter, or no line has arrived.                                    *)
LEMMA ReadyFacts ==
  ASSUME NEW r \in Responses, r.framing = "chunked", NEW R \in 0 .. Len(Stream(r)),
         NEW s \in ReadyStates(r, R)
  PROVE  /\ Len(s.remaining) \in Nat
         /\ ChunkLine(s) \in ReadyStates(r, R)
         /\ ~HasLine(s) => ChunkLine(s) = s
         /\ HasLine(s) => Len(ChunkLine(s).remaining) < Len(s.remaining)
         /\ ~HasLine(s) => Stuck(s, r, R)
<1>0. R \in Nat /\ M(r) \in Nat
  BY StreamFacts, ResponseCuts DEF M
<1>1. ASSUME NEW i \in DataIdx(r, R)
      PROVE  Len(InChunk(r, R, i).remaining) = R - Reach(r, R, i) /\ Reach(r, R, i) \in 0 .. R
             /\ Reach(r, R, i) <= DataEnd(r, i) /\ i \in 1 .. M(r) + 1
  <2>1. InChunk(r, R, i).remaining = Left(r, R, Reach(r, R, i))
    BY Zenon DEF InChunk, DataState, InBody
  <2>2. Reach(r, R, i) \in 0 .. R /\ Reach(r, R, i) <= DataEnd(r, i) /\ i \in 1 .. M(r) + 1
    BY ReachFacts
  <2>. QED BY <2>1, <2>2, LeftFacts
<1>2. ASSUME NEW i \in BehindIdx(r, R)
      PROVE  /\ Len(BehindState(r, R, i).remaining) = R - BehindAt(r, i) /\ BehindAt(r, i) \in 0 .. R
             /\ i \in 0 .. M(r) + 1
             /\ BehindState(r, R, i).remaining = Left(r, R, BehindAt(r, i))
  <2>1. BehindState(r, R, i).remaining = Left(r, R, BehindAt(r, i))
    BY Zenon DEF BehindState, InBody
  <2>2. BehindAt(r, i) \in 0 .. R /\ i \in 0 .. M(r) + 1
    <3>1. i \in 0 .. M(r) + 1 /\ BehindAt(r, i) <= R
      BY DEF BehindIdx
    <3>2. BehindAt(r, i) \in Nat
      <4>1. CASE i = 0
        BY <4>1, LineKinds DEF BehindAt
      <4>2. CASE i # 0
        <5>1. i \in 1 .. M(r) + 1
          BY <1>0, <3>1, <4>2
        <5>2. DataEnd(r, i) \in Nat
          BY <5>1, ChunkNumbers
        <5>. QED BY <4>2, <5>2 DEF BehindAt
      <4>. QED BY <4>1, <4>2
    <3>. QED BY <1>0, <3>1, <3>2
  <2>. QED BY <2>1, <2>2, LeftFacts
<1>3. ASSUME NEW i \in DataIdx(r, R), s = InChunk(r, R, i)
      PROVE  /\ Len(s.remaining) \in Nat
             /\ ChunkLine(s) \in ReadyStates(r, R)
             /\ ~HasLine(s) => ChunkLine(s) = s
             /\ HasLine(s) => Len(ChunkLine(s).remaining) < Len(s.remaining)
             /\ ~HasLine(s) => Stuck(s, r, R)
  <2>0. Len(s.remaining) = R - Reach(r, R, i) /\ Reach(r, R, i) \in 0 .. R
        /\ Reach(r, R, i) <= DataEnd(r, i) /\ i \in 1 .. M(r) + 1
    BY <1>1, <1>3
  <2>1. \/ /\ HasLine(s) /\ DataEnd(r, i) + 2 <= R
           /\ ChunkLine(s) = BehindState(r, R, i)
        \/ ~HasLine(s) /\ R < DataEnd(r, i) + 2 /\ ChunkLine(s) = s
    BY <1>3, EndLine
  <2>2. CASE HasLine(s) /\ DataEnd(r, i) + 2 <= R /\ ChunkLine(s) = BehindState(r, R, i)
    <3>0. DataEnd(r, i) \in Nat
      BY <2>0, ChunkNumbers
    <3>1. BehindAt(r, i) = DataEnd(r, i) + 2 /\ i \in BehindIdx(r, R)
      BY <1>0, <2>0, <2>2 DEF BehindIdx, BehindAt
    <3>2. Len(ChunkLine(s).remaining) = R - BehindAt(r, i)
      BY <1>2, <2>2, <3>1
    <3>3. R - BehindAt(r, i) < R - Reach(r, R, i) /\ R - Reach(r, R, i) \in Nat
      BY <1>0, <2>0, <3>0, <3>1
    <3>. QED BY <2>0, <2>2, <3>1, <3>2, <3>3 DEF ReadyStates
  <2>3. CASE ~HasLine(s) /\ R < DataEnd(r, i) + 2 /\ ChunkLine(s) = s
    <3>1. R - Reach(r, R, i) \in Nat
      BY <1>0, <2>0
    <3>2. Stuck(s, r, R)
      BY <1>3, <2>3 DEF Stuck, StuckInChunk
    <3>. QED BY <2>0, <2>3, <3>1, <3>2
  <2>. QED BY <2>1, <2>2, <2>3
<1>4. ASSUME NEW i \in BehindIdx(r, R), s = BehindState(r, R, i)
      PROVE  /\ Len(s.remaining) \in Nat
             /\ ChunkLine(s) \in ReadyStates(r, R)
             /\ ~HasLine(s) => ChunkLine(s) = s
             /\ HasLine(s) => Len(ChunkLine(s).remaining) < Len(s.remaining)
             /\ ~HasLine(s) => Stuck(s, r, R)
  <2>0. /\ Len(s.remaining) = R - BehindAt(r, i) /\ BehindAt(r, i) \in 0 .. R
        /\ i \in 0 .. M(r) + 1 /\ R - BehindAt(r, i) \in Nat
        /\ s.remaining = Left(r, R, BehindAt(r, i))
    <3>1. /\ Len(s.remaining) = R - BehindAt(r, i) /\ BehindAt(r, i) \in 0 .. R
          /\ i \in 0 .. M(r) + 1 /\ s.remaining = Left(r, R, BehindAt(r, i))
      BY <1>2, <1>4
    <3>. QED BY <1>0, <3>1
  <2>1. CASE i <= M(r)
    <3>1. \/ /\ HasLine(s) /\ BehindAt(r, i) + 3 <= R /\ i + 1 \in DataIdx(r, R)
             /\ ChunkLine(s) = InChunk(r, R, i + 1)
          \/ ~HasLine(s) /\ R < BehindAt(r, i) + 3 /\ ChunkLine(s) = s
      BY <1>4, <2>1, SizeLine
    <3>2. CASE /\ HasLine(s) /\ BehindAt(r, i) + 3 <= R /\ i + 1 \in DataIdx(r, R)
               /\ ChunkLine(s) = InChunk(r, R, i + 1)
      <4>1. Len(ChunkLine(s).remaining) = R - Reach(r, R, i + 1) /\ Reach(r, R, i + 1) \in 0 .. R
            /\ i + 1 \in 1 .. M(r) + 1
        BY <1>1, <3>2
      <4>2. DataAt(r, i + 1) <= Reach(r, R, i + 1)
        BY <3>2, ReachFacts
      <4>3. DataAt(r, i + 1) = BehindAt(r, i) + 3
        <5>1. DataAt(r, i + 1) = BehindAt(r, (i + 1) - 1) + 3
          BY <4>1, ChunkNumbers
        <5>2. (i + 1) - 1 = i
          BY <2>0, <1>0
        <5>. QED BY <5>1, <5>2
      <4>4. R - Reach(r, R, i + 1) < R - BehindAt(r, i)
        <5>1. PICK x \in Nat : x = Reach(r, R, i + 1)
          BY <1>0, <4>1
        <5>2. PICK y \in Nat : y = BehindAt(r, i)
          BY <1>0, <2>0
        <5>3. y + 3 <= x
          BY <4>2, <4>3, <5>1, <5>2
        <5>4. R - x < R - y
          BY <1>0, <5>3
        <5>. QED BY <5>1, <5>2, <5>4
      <4>. QED BY <2>0, <3>2, <4>1, <4>4 DEF ReadyStates
    <3>3. CASE ~HasLine(s) /\ R < BehindAt(r, i) + 3 /\ ChunkLine(s) = s
      <4>1. Stuck(s, r, R)
        BY <1>4, <3>3 DEF Stuck, StuckBehind
      <4>. QED BY <2>0, <3>3, <4>1
    <3>. QED BY <3>1, <3>2, <3>3
  <2>2. CASE ~(i <= M(r))
    <3>1. i = M(r) + 1 /\ i \in 1 .. M(r) + 1 /\ i # 0
      BY <1>0, <2>0, <2>2
    <3>2. DataEnd(r, i) + 2 = Len(Stream(r)) /\ DataEnd(r, i) \in Nat
      BY <3>1, ChunkNumbers
    <3>3. BehindAt(r, i) = R
      BY <1>0, <2>0, <3>1, <3>2 DEF BehindAt
    <3>4. ~HasLine(s)
      <4>1. R <= R + 1 /\ R \in 0 .. R
        BY <1>0
      <4>. QED BY <2>0, <3>3, <4>1, NoLine
    <3>5. ChunkLine(s) = s
      BY <3>4 DEF ChunkLine
    <3>6. Stuck(s, r, R)
      BY <1>4, <2>2 DEF Stuck, StuckBehind
    <3>. QED BY <2>0, <3>4, <3>5, <3>6
  <2>. QED BY <2>1, <2>2
<1>5. (\E i \in DataIdx(r, R) : s = InChunk(r, R, i)) \/ (\E i \in BehindIdx(r, R) : s = BehindState(r, R, i))
  BY DEF ReadyStates
<1>. QED BY <1>3, <1>4, <1>5

(* ReadChunks reads until it is stuck. *)
LEMMA ChunksRead ==
  ASSUME NEW r \in Responses, r.framing = "chunked", NEW R \in 0 .. Len(Stream(r)),
         NEW p \in ReadyStates(r, R)
  PROVE  Stuck(ReadChunks(p), r, R)
<1>. DEFINE S == ReadyStates(r, R)
            st == [s \in S |-> ChunkLine(s)]
            size == [s \in S |-> Len(s.remaining)]
            halted == {s \in S : ~HasLine(s)}
            k == Len(p.remaining)
<1>. HIDE DEF S
<1>0. ASSUME NEW s \in S
      PROVE  /\ Len(s.remaining) \in Nat
             /\ ChunkLine(s) \in S
             /\ ~HasLine(s) => ChunkLine(s) = s
             /\ HasLine(s) => Len(ChunkLine(s).remaining) < Len(s.remaining)
             /\ ~HasLine(s) => Stuck(s, r, R)
  BY ReadyFacts DEF S
<1>1. p \in S
  BY DEF S
<1>2. k \in Nat
  BY <1>0, <1>1
<1>3. PICK F : /\ F[0] = p /\ (\A n \in 1 .. k : F[n] = ChunkLine(F[n - 1]))
               /\ ReadChunks(p) = F[k]
  BY <1>0, <1>1, <1>2, ChunkLoop
<1>4. EndingLoop(S, st, size, halted, k, F)
  BY <1>0, <1>1, <1>2, <1>3 DEF EndingLoop
<1>. HIDE DEF st, size, halted, k
<1>5. F[k] \in halted
  BY <1>4, LoopEnds
<1>6. ReadChunks(p) \in S /\ ~HasLine(ReadChunks(p))
  BY <1>3, <1>5 DEF halted
<1>. QED BY <1>0, <1>6

-----------------------------------------------------------------------------

(* So does ReadRest from inside a chunk or behind one. *)
LEMMA RestOfChunked ==
  ASSUME NEW r \in Responses, r.framing = "chunked", NEW R \in 0 .. Len(Stream(r)), NEW p,
         \/ \E i \in DataIdx(r, R) : \E c \in DataAt(r, i) .. DataEnd(r, i) :
              c <= R /\ p = DataState(r, R, i, c)
         \/ \E i \in BehindIdx(r, R) : p = BehindState(r, R, i)
  PROVE  Stuck(ReadRest(p), r, R)
<1>. DEFINE q == IF p.remainingBodyBytes = 0 THEN p ELSE readBody(p)
            done == \/ /\ p.remainingBodyBytes # 0
                       /\ q.remainingBodyBytes = 0 /\ ~q.isChunked
                    \/ "length" \in DOMAIN q.headers /\ q.headers["length"] = 0
            w == [q EXCEPT !.complete = q.complete \/ done]
<1>0. R \in Nat /\ M(r) \in Nat
  BY StreamFacts, ResponseCuts DEF M
<1>1. ReadRest(p) = IF w.isChunked THEN ReadChunks(w) ELSE w
  BY Zenon DEF ReadRest
<1>2. /\ q \in ReadyStates(r, R) /\ IsParser(q) /\ q.isChunked = TRUE
      /\ q.headers = HeadersAt(r, NL(r)) /\ q.complete \in BOOLEAN
  <2>1. ASSUME NEW i \in BehindIdx(r, R), p = BehindState(r, R, i)
        PROVE  q = p /\ q \in ReadyStates(r, R) /\ IsInBody(q, r, R, BehindAt(r, i), StartIn(r, i),
                 SubSeq(Written(r), 1, BehindBody(r, i)), ChunksUpTo(r, i), LastChunk(r, i), 0)
    <3>1. IsInBody(p, r, R, BehindAt(r, i), StartIn(r, i),
                 SubSeq(Written(r), 1, BehindBody(r, i)), ChunksUpTo(r, i), LastChunk(r, i), 0)
      BY <2>1, InBodyFields DEF BehindState
    <3>2. p.remainingBodyBytes = 0
      BY <3>1 DEF IsInBody
    <3>3. q = p
      BY <3>2, Zenon
    <3>. HIDE DEF q
    <3>. QED BY <2>1, <3>1, <3>3 DEF ReadyStates
  <2>2. ASSUME NEW i \in DataIdx(r, R), NEW c \in DataAt(r, i) .. DataEnd(r, i), c <= R,
               p = DataState(r, R, i, c)
        PROVE  q = InChunk(r, R, i)
    <3>0. /\ i \in 1 .. M(r) + 1 /\ DataAt(r, i) \in Nat /\ DataEnd(r, i) \in Nat
          /\ BodyBefore(r, i) \in Nat /\ BodyUpTo(r, i) \in Nat /\ BodyUpTo(r, i) <= r.size /\ r.size \in Nat
          /\ DataEnd(r, i) - DataAt(r, i) = BodyUpTo(r, i) - BodyBefore(r, i)
          /\ (i = M(r) + 1 => DataAt(r, i) = DataEnd(r, i))
      <4>1. i \in 1 .. M(r) + 1
        BY DEF DataIdx
      <4>. QED BY <4>1, ChunkNumbers
    <3>1. IsInBody(p, r, R, c, StartIn(r, i), SubSeq(Written(r), 1, BodyBefore(r, i) + (c - DataAt(r, i))),
                   ChunksUpTo(r, i), LastChunk(r, i), DataEnd(r, i) - c)
      BY <2>2, InBodyFields DEF DataState
    <3>2. p.remainingBodyBytes = DataEnd(r, i) - c
      BY <3>1 DEF IsInBody
    <3>3. CASE c = DataEnd(r, i)
      <4>1. Reach(r, R, i) = c
        BY <1>0, <2>2, <3>0, <3>3 DEF Reach
      <4>2. DataEnd(r, i) - c = 0
        BY <3>0, <3>3
      <4>3. q = p
        BY <3>2, <4>2, Zenon
      <4>. HIDE DEF q
      <4>. QED BY <2>2, <4>1, <4>3 DEF InChunk
    <3>4. CASE c # DataEnd(r, i)
      <4>. DEFINE left == DataEnd(r, i) - c
                  k == BodyBefore(r, i) + (c - DataAt(r, i))
                  n == Taken(left, R - c)
      <4>1. left \in Nat /\ left # 0 /\ left # -1 /\ i # M(r) + 1
        BY <2>2, <3>0, <3>4
      <4>2. q = readBody(p)
        BY <3>2, <4>1, Zenon
      <4>3. n \in 0 .. R - c /\ n <= left /\ n = IF left < R - c THEN left ELSE R - c
        <5>1. c \in Nat
          BY <3>0
        <5>. HIDE DEF left
        <5>. QED BY <1>0, <2>2, <4>1, <5>1 DEF Taken
      <4>4. k \in Nat /\ k + left = BodyUpTo(r, i)
        <5>1. PICK u \in Nat : u = BodyUpTo(r, i)
          BY <3>0
        <5>2. PICK v \in Nat : v = BodyBefore(r, i)
          BY <3>0
        <5>3. PICK a \in Nat : a = DataAt(r, i)
          BY <3>0
        <5>4. PICK e \in Nat : e = DataEnd(r, i)
          BY <3>0
        <5>5. e - a = u - v /\ a <= c /\ c <= e /\ c \in Nat
          BY <2>2, <3>0, <5>1, <5>2, <5>3, <5>4
        <5>6. v + (c - a) \in Nat /\ v + (c - a) + (e - c) = u
          BY <5>5
        <5>. QED BY <5>1, <5>2, <5>3, <5>4, <5>6
      <4>5. LastChunk(r, i) = FALSE
        <5>1. ~LastChunk(r, i)
          BY <4>1 DEF LastChunk
        <5>. QED BY <5>1 DEF LastChunk
      <4>6. ASSUME NEW j \in 1 .. n PROVE Stream(r)[c + j] = Written(r)[k + j]
        <5>1. j \in Nat /\ 1 <= j /\ j <= left /\ c \in Nat
          <6>. HIDE DEF left
          <6>. QED BY <1>0, <3>0, <4>1, <4>3, SMTT(40)
        <5>2. PICK a \in Nat : a = DataAt(r, i)
          BY <3>0
        <5>3. PICK v \in Nat : v = BodyBefore(r, i)
          BY <3>0
        <5>4. PICK l \in Nat : l = BodyUpTo(r, i) - BodyBefore(r, i)
          <6>1. DataEnd(r, i) - DataAt(r, i) \in Nat
            BY <2>2, <3>0
          <6>. QED BY <3>0, <6>1
        <5>5. DataEnd(r, i) = a + l /\ a <= c
          BY <3>0, <5>2, <5>4, SMTT(40)
        <5>6. (c - a) + j \in 1 .. l /\ a + ((c - a) + j) = c + j /\ v + ((c - a) + j) = (v + (c - a)) + j
          BY <5>1, <5>5
        <5>7. \A x \in 1 .. l : Stream(r)[a + x] = Written(r)[v + x]
          BY <3>0, <5>2, <5>3, <5>4, ChunkInStream DEF M
        <5>8. Stream(r)[a + ((c - a) + j)] = Written(r)[v + ((c - a) + j)]
          BY <5>6, <5>7
        <5>. QED BY <5>2, <5>3, <5>6, <5>8
      <4>. HIDE DEF left, k, n
      <4>7. CanRead(p, r, R, c, StartIn(r, i), k, ChunksUpTo(r, i), left, n)
        <5>1. k + n <= r.size
          BY <1>0, <3>0, <4>1, <4>3, <4>4, SMTT(40)
        <5>2. IsInBody(p, r, R, c, StartIn(r, i), SubSeq(Written(r), 1, k), ChunksUpTo(r, i), FALSE, left)
          BY <3>1, <4>5 DEF k, left
        <5>3. c \in 0 .. R /\ left \in Int
          BY <1>0, <2>2, <3>0, <4>1
        <5>. QED BY <4>3, <4>4, <4>6, <5>1, <5>2, <5>3 DEF CanRead, n
      <4>8. IsInBody(readBody(p), r, R, c + n, StartOr(StartIn(r, i), c), SubSeq(Written(r), 1, k + n),
                     ChunksUpTo(r, i), FALSE, LeftAfter(left, n))
        BY <4>7, BodyRead
      <4>9. StartOr(StartIn(r, i), c) = StartIn(r, i)
        <5>1. i # 0 /\ M(r) # 0 /\ H(r) + 3 # None
          <6>1. H(r) \in Nat
            BY LineKinds
          <6>. QED BY <1>0, <3>0, <4>1, <6>1, NoneAssumption DEF NoneAssumption
        <5>. QED BY <5>1 DEF StartOr, StartIn
      <4>10. /\ c + n = Reach(r, R, i) /\ LeftAfter(left, n) = DataEnd(r, i) - (c + n)
             /\ k + n = BodyBefore(r, i) + ((c + n) - DataAt(r, i))
        <5>0. c \in Nat /\ n \in Nat
          BY <1>0, <2>2, <3>0, <4>3
        <5>1. PICK e \in Nat : e = DataEnd(r, i)
          BY <3>0
        <5>2. left = e - c
          BY <5>1 DEF left
        <5>3. c + n = IF R < e THEN R ELSE e
          BY <1>0, <2>2, <4>1, <4>3, <5>0, <5>2
        <5>4. LeftAfter(left, n) = e - (c + n)
          BY <4>1, <5>0, <5>2 DEF LeftAfter
        <5>5. PICK v \in Nat : v = BodyBefore(r, i)
          BY <3>0
        <5>6. PICK a \in Nat : a = DataAt(r, i)
          BY <3>0
        <5>7. (v + (c - a)) + n = v + ((c + n) - a)
          BY <5>0
        <5>. QED BY <5>1, <5>3, <5>4, <5>5, <5>6, <5>7 DEF Reach, k
      <4>11. readBody(p) = InBody(r, R, c + n, StartIn(r, i), SubSeq(Written(r), 1, k + n),
                     ChunksUpTo(r, i), FALSE, LeftAfter(left, n))
        BY <4>8, <4>9, InBodyFields
      <4>12. readBody(p) = InChunk(r, R, i)
        BY <4>5, <4>10, <4>11 DEF InChunk, DataState
      <4>. HIDE DEF q
      <4>. QED BY <4>2, <4>12
    <3>. QED BY <3>3, <3>4
  <2>. HIDE DEF q
  <2>3. ASSUME NEW i \in DataIdx(r, R), q = InChunk(r, R, i)
        PROVE  q \in ReadyStates(r, R) /\ IsInBody(q, r, R, Reach(r, R, i), StartIn(r, i),
                 SubSeq(Written(r), 1, BodyBefore(r, i) + (Reach(r, R, i) - DataAt(r, i))),
                 ChunksUpTo(r, i), LastChunk(r, i), DataEnd(r, i) - Reach(r, R, i))
    <3>1. q \in ReadyStates(r, R)
      BY <2>3 DEF ReadyStates
    <3>. QED BY <2>3, <3>1, InBodyFields DEF InChunk, DataState
  <2>4. \E c, a, b, d, i, l : q \in ReadyStates(r, R) /\ IsInBody(q, r, R, c, a, b, d, LastChunk(r, i), l)
    <3>1. CASE \E i \in BehindIdx(r, R) : p = BehindState(r, R, i)
      BY <2>1, <3>1, Zenon
    <3>2. CASE \E i \in DataIdx(r, R) : \E c \in DataAt(r, i) .. DataEnd(r, i) :
                 c <= R /\ p = DataState(r, R, i, c)
      BY <2>2, <2>3, <3>2, Zenon
    <3>. QED BY <3>1, <3>2
  <2>5. PICK c, a, b, d, i, l : q \in ReadyStates(r, R) /\ IsInBody(q, r, R, c, a, b, d, LastChunk(r, i), l)
    BY <2>4
  <2>6. LastChunk(r, i) \in BOOLEAN /\ (r.framing = "chunked") = TRUE
    BY DEF LastChunk
  <2>. QED BY <2>5, <2>6, Zenon DEF IsInBody
<1>. HIDE DEF q
<1>3. ~done
  <2>1. "length" \notin DOMAIN q.headers
    BY <1>2, AllNames
  <2>. QED BY <1>2, <2>1
<1>. HIDE DEF done
<1>4. IsParser(w) /\ w.complete = (q.complete \/ done) /\ \A f \in Fields \ {"complete"} : w[f] = q[f]
  BY <1>2 DEF IsParser, Fields
<1>5. (q.complete \/ done) = q.complete
  BY <1>2, <1>3, Zenon
<1>. HIDE DEF w
<1>6. w = q
  <2>1. w.complete = q.complete
    BY <1>4, <1>5, Zenon
  <2>. QED BY <1>2, <1>4, <2>1, SameParser DEF Fields
<1>7. ReadRest(p) = ReadChunks(q)
  BY <1>1, <1>2, <1>6
<1>. QED BY <1>2, <1>7, ChunksRead

-----------------------------------------------------------------------------
(* onChunk: whatever pieces the data comes in, the parser settles in the    *)
(* state that only the amount received determines.                          *)

(* Adding data changes nothing but what is left. *)
LEMMA WithFields ==
  ASSUME NEW p, NEW data, IsParser(p)
  PROVE  /\ IsParser(With(p, data)) /\ With(p, data).remaining = p.remaining \o data
         /\ \A f \in Fields \ {"remaining"} : With(p, data)[f] = p[f]
<1>1. "remaining" \in Fields
  BY DEF Fields
<1>. HIDE DEF Fields
<1>2. With(p, data) = [f \in Fields |-> IF f = "remaining" THEN p.remaining \o data ELSE p[f]]
  BY DEF IsParser, With
<1>. QED
  BY <1>1, <1>2 DEF IsParser

(* More data leaves the parser before the same line. *)
LEMMA MoreAtLine ==
  ASSUME NEW r \in Responses, NEW R \in 0 .. Len(Stream(r)), NEW R0 \in 0 .. R,
         NEW k \in LinesIn(r, R0)
  PROVE  With(AtLine(r, R0, k), More(r, R0, R)) = AtLine(r, R, k) /\ k \in LinesIn(r, R)
<1>. DEFINE p == AtLine(r, R0, k)
            q == With(p, More(r, R0, R))
<1>0. k \in Nat /\ 3 * k \in 0 .. R0 /\ Len(Stream(r)) \in Nat /\ k \in LinesIn(r, R)
  BY LineKinds, StreamFacts DEF LinesIn
<1>1. Left(r, R0, 3 * k) \o More(r, R0, R) = Left(r, R, 3 * k)
  BY <1>0, LeftMore DEF More
<1>2. IsAtLine(p, r, R0, k)
  BY AtLineFields
<1>. HIDE DEF p
<1>a. IsParser(p)
  BY <1>2 DEF IsAtLine
<1>3. /\ IsParser(q) /\ q.remaining = p.remaining \o More(r, R0, R)
      /\ \A f \in Fields \ {"remaining"} : q[f] = p[f]
  BY <1>a, WithFields
<1>. HIDE DEF q
<1>4. /\ q.statusCode = p.statusCode /\ q.statusLineEndIndex = p.statusLineEndIndex
      /\ q.headers = p.headers /\ q.headerIndices = p.headerIndices
      /\ q.headersComplete = p.headersComplete /\ q.headerEndIdx = p.headerEndIdx
      /\ q.body = p.body /\ q.bodyStartIndex = p.bodyStartIndex /\ q.chunks = p.chunks
      /\ q.complete = p.complete /\ q.threw = p.threw
      /\ q.remainingBodyBytes = p.remainingBodyBytes /\ q.isChunked = p.isChunked
      /\ q.currentByteIdx = p.currentByteIdx
  BY <1>3 DEF Fields
<1>5. IsAtLine(q, r, R, k)
  BY <1>1, <1>2, <1>3, <1>4, Zenon DEF IsAtLine
<1>. QED
  BY <1>0, <1>5, AtLineFields DEF q, p

(* More data leaves the parser at the same place of the body. *)
LEMMA MoreInBody ==
  ASSUME NEW r \in Responses, NEW R \in 0 .. Len(Stream(r)), NEW R0 \in 0 .. R,
         NEW c \in 0 .. R0, NEW start, NEW body, NEW chunks, NEW complete, NEW left
  PROVE  With(InBody(r, R0, c, start, body, chunks, complete, left), More(r, R0, R))
         = InBody(r, R, c, start, body, chunks, complete, left)
<1>. DEFINE p == InBody(r, R0, c, start, body, chunks, complete, left)
            q == With(p, More(r, R0, R))
<1>1. Left(r, R0, c) \o More(r, R0, R) = Left(r, R, c)
  BY LeftMore DEF More
<1>2. IsInBody(p, r, R0, c, start, body, chunks, complete, left)
  BY InBodyFields
<1>. HIDE DEF p
<1>a. IsParser(p)
  BY <1>2 DEF IsInBody
<1>3. /\ IsParser(q) /\ q.remaining = p.remaining \o More(r, R0, R)
      /\ \A f \in Fields \ {"remaining"} : q[f] = p[f]
  BY <1>a, WithFields
<1>. HIDE DEF q
<1>4. /\ q.statusCode = p.statusCode /\ q.statusLineEndIndex = p.statusLineEndIndex
      /\ q.headers = p.headers /\ q.headerIndices = p.headerIndices
      /\ q.headersComplete = p.headersComplete /\ q.headerEndIdx = p.headerEndIdx
      /\ q.body = p.body /\ q.bodyStartIndex = p.bodyStartIndex /\ q.chunks = p.chunks
      /\ q.complete = p.complete /\ q.threw = p.threw
      /\ q.remainingBodyBytes = p.remainingBodyBytes /\ q.isChunked = p.isChunked
      /\ q.currentByteIdx = p.currentByteIdx
  BY <1>3 DEF Fields
<1>5. IsInBody(q, r, R, c, start, body, chunks, complete, left)
  BY <1>1, <1>2, <1>3, <1>4, Zenon DEF IsInBody
<1>. QED
  BY <1>5, InBodyFields DEF q, p

(* Reading on from the start of the body settles the parser. *)
LEMMA SettledBody ==
  ASSUME NEW r \in Responses, NEW R \in 0 .. Len(Stream(r)), H(r) <= R, NEW p, p = AtBody(r, R)
  PROVE  p.headersComplete = TRUE /\ Settled(ReadRest(p), r, R)
<1>0. /\ H(r) \in Nat /\ Len(Stream(r)) \in Nat /\ r.framing \in Framings /\ r.size \in Nat
      /\ Written(r) \in Seq(Byte)
  BY LineKinds, StreamFacts, ResponseFacts, WrittenFacts
<1>a. p.headersComplete = TRUE
  BY DEF AtBody, InBody
<1>1. SubSeq(Written(r), 1, 0) = <<>>
  BY <1>0, SubSeqEmpty
<1>2. CASE r.framing # "chunked"
  <2>1. p = InBody(r, R, H(r), None, <<>>, None, FALSE, PlainLeft(r, H(r)))
    <3>1. PlainLeft(r, H(r)) = IF r.framing = "length" THEN r.size ELSE -1
      BY <1>0, <1>2 DEF PlainLeft, Framings
    <3>. QED BY <1>0, <1>2, <3>1 DEF AtBody, Framings
  <2>2. H(r) - H(r) = 0 /\ H(r) \in H(r) .. R
    BY <1>0
  <2>3. IsInBody(p, r, R, H(r), None, SubSeq(Written(r), 1, H(r) - H(r)), None, FALSE, PlainLeft(r, H(r)))
    BY <1>1, <2>1, <2>2, InBodyFields
  <2>4. H(r) # None
    BY <1>0, NoneAssumption
  <2>5. PICK cm \in BOOLEAN : cm = FALSE
    OBVIOUS
  <2>6. PICK start \in {None, H(r)} : start = None
    OBVIOUS
  <2>7. /\ IsInBody(p, r, R, H(r), start, SubSeq(Written(r), 1, H(r) - H(r)), None, cm, PlainLeft(r, H(r)))
        /\ (start = None => H(r) = H(r)) /\ (start = H(r) => ~NoBody(r))
        /\ (H(r) > H(r) \/ cm => cm = PlainDone(r, H(r)))
    <3>1. ~(H(r) > H(r))
      BY <1>0
    <3>. QED BY <2>3, <2>4, <2>5, <2>6, <3>1, Zenon
  <2>8. IsPlain(ReadRest(p), r, R)
    BY <1>2, <2>2, <2>7, RestOfPlain
  <2>. QED BY <1>2, <1>a, <2>8 DEF Settled
<1>3. CASE r.framing = "chunked"
  <2>1. /\ StartIn(r, 0) = None /\ BehindAt(r, 0) = H(r) /\ BehindBody(r, 0) = 0
    BY DEF StartIn, BehindAt, BehindBody
  <2>2. M(r) \in Nat /\ LastChunk(r, 0) = FALSE
    <3>1. M(r) \in Nat
      BY ResponseCuts DEF M
    <3>2. ~LastChunk(r, 0)
      BY <3>1 DEF LastChunk
    <3>. QED BY <3>1, <3>2 DEF LastChunk
  <2>3. ChunksUpTo(r, 0) = <<>>
    BY <2>2 DEF ChunksUpTo
  <2>4. p = BehindState(r, R, 0)
    <3>1. AtBody(r, R) = InBody(r, R, H(r), None, <<>>, <<>>, FALSE, 0)
      BY <1>3 DEF AtBody
    <3>. QED BY <1>1, <2>1, <2>2, <2>3, <3>1 DEF BehindState
  <2>5. 0 \in BehindIdx(r, R)
    BY <2>1, <2>2 DEF BehindIdx
  <2>6. Stuck(ReadRest(p), r, R)
    BY <1>3, <2>4, <2>5, RestOfChunked
  <2>. QED BY <1>3, <1>a, <2>6 DEF Settled
<1>. QED BY <1>2, <1>3

(* Reading on from the header settles the parser. *)
LEMMA SettledHeader ==
  ASSUME NEW r \in Responses, NEW R \in 0 .. Len(Stream(r)), NEW R0 \in 0 .. R,
         NEW k \in LinesIn(r, R0), NEW q, q = With(AtLine(r, R0, k), More(r, R0, R))
  PROVE  LET h == ReadHeaders(q)
         IN  Settled(IF h.headersComplete THEN ReadRest(h) ELSE h, r, R)
<1>. DEFINE h == ReadHeaders(q)
<1>1. q = AtLine(r, R, k) /\ k \in LinesIn(r, R)
  BY MoreAtLine
<1>2. q \in HeaderStates(r, R)
  BY <1>1 DEF HeaderStates
<1>3. \/ h = AtBody(r, R) /\ H(r) <= R
      \/ /\ R < H(r) /\ ~HasLine(h)
         /\ \E j \in LinesIn(r, R) : h = AtLine(r, R, j)
  BY <1>2, HeadersRead
<1>. HIDE DEF h
<1>4. CASE h = AtBody(r, R) /\ H(r) <= R
  BY <1>4, SettledBody DEF h
<1>5. CASE /\ R < H(r) /\ ~HasLine(h)
           /\ \E j \in LinesIn(r, R) : h = AtLine(r, R, j)
  <2>1. h.headersComplete = FALSE
    BY <1>5 DEF AtLine
  <2>2. InHeader(h, r, R)
    BY <1>5 DEF InHeader
  <2>. QED BY <2>1, <2>2 DEF Settled, h
<1>. QED BY <1>3, <1>4, <1>5

(* Reading on from the body settles the parser. *)
LEMMA SettledRest ==
  ASSUME NEW r \in Responses, NEW R \in 0 .. Len(Stream(r)), NEW R0 \in 0 .. R, H(r) <= R0,
         NEW p, Settled(p, r, R0), NEW q, q = With(p, More(r, R0, R))
  PROVE  /\ q.headersComplete = TRUE /\ Len(q.remaining) \in Nat /\ Settled(ReadRest(q), r, R)
<1>0. /\ H(r) \in Nat /\ Len(Stream(r)) \in Nat /\ r.framing \in Framings /\ r.size \in Nat
      /\ H(r) <= R
  BY LineKinds, StreamFacts, ResponseFacts
<1>a. ASSUME NEW c \in 0 .. R, NEW start, NEW body, NEW chunks, NEW cm, NEW left,
             q = InBody(r, R, c, start, body, chunks, cm, left)
      PROVE  q.headersComplete = TRUE /\ Len(q.remaining) \in Nat
  <2>1. q.headersComplete = TRUE /\ q.remaining = Left(r, R, c)
    BY <1>a DEF InBody
  <2>. QED BY <1>0, <2>1, LeftFacts
<1>1. CASE r.framing # "chunked"
  <2>1. IsPlain(p, r, R0)
    BY <1>0, <1>1 DEF Settled, InHeader
  <2>. DEFINE start == PlainStart(r)
              body == SubSeq(Written(r), 1, R0 - H(r))
              cm == PlainDone(r, R0)
              left == PlainLeft(r, R0)
  <2>2. p = InBody(r, R0, R0, start, body, None, cm, left)
    BY <2>1, InBodyFields DEF IsPlain
  <2>3. R0 \in 0 .. R0 /\ R0 \in 0 .. R /\ R0 \in H(r) .. R
    BY <1>0
  <2>4. start \in {None, H(r)} /\ cm \in BOOLEAN /\ (start = H(r) => ~NoBody(r))
    <3>1. H(r) # None
      BY <1>0, NoneAssumption
    <3>. QED BY <3>1 DEF PlainStart, PlainDone
  <2>5. start = None => R0 = H(r)
    <3>1. H(r) # None
      BY <1>0, NoneAssumption
    <3>2. NoBody(r) => Len(Stream(r)) = H(r)
      BY <1>0, <1>1, StreamFacts DEF NoBody
    <3>. QED BY <1>0, <3>1, <3>2 DEF PlainStart
  <2>. HIDE DEF start, body, cm, left
  <2>6. q = InBody(r, R, R0, start, body, None, cm, left)
    BY <2>2, <2>3, MoreInBody
  <2>7. IsInBody(q, r, R, R0, start, body, None, cm, left)
    BY <2>6, InBodyFields
  <2>8. IsPlain(ReadRest(q), r, R)
    BY <1>1, <2>3, <2>4, <2>5, <2>7, RestOfPlain DEF body, cm, left
  <2>. QED BY <1>0, <1>1, <1>a, <2>3, <2>6, <2>8 DEF Settled
<1>2. CASE r.framing = "chunked"
  <2>1. Stuck(p, r, R0)
    BY <1>0, <1>2 DEF Settled, InHeader
  <2>2. ASSUME NEW i \in DataIdx(r, R0), p = InChunk(r, R0, i)
        PROVE  q.headersComplete = TRUE /\ Len(q.remaining) \in Nat /\ Settled(ReadRest(q), r, R)
    <3>. DEFINE c == Reach(r, R0, i)
    <3>0. R0 \in 0 .. Len(Stream(r)) /\ R0 <= R
      BY <1>0
    <3>1. /\ i \in 1 .. M(r) + 1 /\ DataAt(r, i) <= R0 /\ c \in 0 .. R0
          /\ DataAt(r, i) <= c /\ c <= DataEnd(r, i)
      BY <1>2, <3>0, ReachFacts
    <3>. HIDE DEF c
    <3>2. DataAt(r, i) \in Nat /\ DataEnd(r, i) \in Nat
      BY <1>2, <3>1, ChunkNumbers
    <3>3. c \in DataAt(r, i) .. DataEnd(r, i) /\ c <= R /\ c \in 0 .. R /\ i \in DataIdx(r, R)
      BY <3>0, <3>1, <3>2 DEF DataIdx
    <3>4. q = DataState(r, R, i, c)
      BY <2>2, <3>1, MoreInBody DEF InChunk, DataState, c
    <3>5. Stuck(ReadRest(q), r, R)
      BY <1>2, <3>3, <3>4, RestOfChunked
    <3>6. q.headersComplete = TRUE /\ Len(q.remaining) \in Nat
      BY <1>a, <3>3, <3>4 DEF DataState
    <3>. QED BY <1>0, <1>2, <3>5, <3>6 DEF Settled
  <2>3. ASSUME NEW i \in BehindIdx(r, R0), p = BehindState(r, R0, i)
        PROVE  q.headersComplete = TRUE /\ Len(q.remaining) \in Nat /\ Settled(ReadRest(q), r, R)
    <3>. DEFINE c == BehindAt(r, i)
    <3>1. i \in 0 .. M(r) + 1 /\ M(r) \in Nat /\ c \in Nat /\ c <= R0
      <4>1. M(r) \in Nat
        BY ResponseCuts DEF M
      <4>2. i \in 0 .. M(r) + 1 /\ c <= R0
        BY DEF BehindIdx
      <4>3. CASE i = 0
        BY <1>0, <4>1, <4>2, <4>3 DEF BehindAt
      <4>4. CASE i # 0
        <5>1. i \in 1 .. M(r) + 1
          BY <4>1, <4>2, <4>4
        <5>. QED BY <1>2, <4>1, <4>2, <4>4, <5>1, ChunkNumbers, SMTT(40) DEF BehindAt
      <4>. QED BY <4>3, <4>4
    <3>2. i \in BehindIdx(r, R) /\ c \in 0 .. R0 /\ c \in 0 .. R
      BY <1>0, <3>1 DEF BehindIdx
    <3>. HIDE DEF c
    <3>4. q = BehindState(r, R, i)
      BY <2>3, <3>2, MoreInBody DEF BehindState, c
    <3>5. Stuck(ReadRest(q), r, R)
      BY <1>2, <3>2, <3>4, RestOfChunked
    <3>6. q.headersComplete = TRUE /\ Len(q.remaining) \in Nat
      BY <1>a, <3>2, <3>4 DEF BehindState, c
    <3>. QED BY <1>0, <1>2, <3>5, <3>6 DEF Settled
  <2>. QED BY <2>1, <2>2, <2>3 DEF Stuck, StuckInChunk, StuckBehind
<1>. QED BY <1>1, <1>2

(* onChunk takes a parser that is settled after R0 bytes to one that is     *)
(* settled after R, for every R: how the data is cut into records makes no  *)
(* difference.                                                              *)
LEMMA onChunkSettled ==
  ASSUME NEW r \in Responses, NEW R \in 0 .. Len(Stream(r)), NEW R0 \in 0 .. R,
         NEW p, Settled(p, r, R0)
  PROVE  Settled(onChunk(p, SubSeq(Stream(r), R0 + 1, R)), r, R)
<1>. DEFINE q == With(p, More(r, R0, R))
            h == ReadHeaders(q)
<1>1. onChunk(p, SubSeq(Stream(r), R0 + 1, R)) = IF h.headersComplete THEN ReadRest(h) ELSE h
  BY DEF onChunk, With, More
<1>2. CASE InHeader(p, r, R0)
  <2>1. PICK k \in LinesIn(r, R0) : p = AtLine(r, R0, k)
    BY <1>2 DEF InHeader
  <2>. QED BY <1>1, <2>1, SettledHeader
<1>3. CASE H(r) <= R0
  <2>1. q.headersComplete = TRUE /\ Len(q.remaining) \in Nat /\ Settled(ReadRest(q), r, R)
    BY <1>3, SettledRest
  <2>. HIDE DEF q
  <2>2. h = q
    BY <2>1, HeadersKept
  <2>. QED BY <1>1, <2>1, <2>2
<1>. QED BY <1>2, <1>3 DEF Settled

(* A new parser is settled before the first byte. *)
LEMMA NewSettled ==
  ASSUME NEW r \in Responses
  PROVE  Settled(NewParser, r, 0)
<1>1. Len(Stream(r)) \in Nat /\ 0 \in 0 .. Len(Stream(r)) /\ H(r) \in Nat /\ NL(r) \in 1 .. 3
  BY StreamFacts, LineKinds
<1>2. SubSeq(Stream(r), 1, 0) = <<>>
  BY <1>1, SubSeqEmpty
<1>3. NewParser = AtLine(r, 0, 0)
  <2>1. [NewParser EXCEPT !.remaining = <<>> \o SubSeq(Stream(r), 1, 0)] = AtLine(r, 0, 0)
    BY <1>1, StartOfHeader
  <2>2. <<>> \o SubSeq(Stream(r), 1, 0) = <<>>
    BY <1>2
  <2>3. [NewParser EXCEPT !.remaining = <<>>] = NewParser
    <3>1. NewParser = [f \in DOMAIN NewParser |-> NewParser[f]] /\ NewParser.remaining = <<>>
      BY DEF NewParser
    <3>. QED BY <3>1, Zenon
  <2>. QED BY <2>1, <2>2, <2>3
<1>4. 0 \in LinesIn(r, 0)
  BY <1>1 DEF LinesIn
<1>5. NewParser.remaining = Left(r, 0, 0)
  BY <1>2 DEF NewParser, Left
<1>6. ~HasLine(NewParser)
  BY <1>1, <1>5, NoLine
<1>7. 0 < H(r)
  BY <1>1 DEF H
<1>. QED BY <1>3, <1>4, <1>6, <1>7 DEF Settled, InHeader

(* parseHttpResponse, given everything at once, ends in a settled state     *)
(* too.                                                                     *)
LEMMA ParsedInOnePiece ==
  ASSUME NEW r \in Responses, NEW R \in 0 .. Len(Stream(r))
  PROVE  \E x : Settled(x, r, R) /\ parseHttpResponse(SubSeq(Stream(r), 1, R)) = streamEnded(x)
<1>1. Settled(NewParser, r, 0) /\ Len(Stream(r)) \in Nat /\ 0 \in 0 .. R
  BY NewSettled, StreamFacts
<1>2. Settled(onChunk(NewParser, SubSeq(Stream(r), 0 + 1, R)), r, R)
  BY <1>1, onChunkSettled
<1>3. 0 + 1 = 1
  OBVIOUS
<1>. QED BY <1>2, <1>3 DEF parseHttpResponse

-----------------------------------------------------------------------------
(* What has been read in a settled state, and once everything arrived. *)

(* The first k bytes of the body are a prefix of it. *)
LEMMA BodyPrefix ==
  ASSUME NEW r \in Responses, NEW k \in 0 .. r.size
  PROVE  /\ IsPrefix(SubSeq(Written(r), 1, k), Written(r))
         /\ k = r.size => SubSeq(Written(r), 1, k) = Written(r)
<1>. DEFINE W == Written(r)
            b == SubSeq(W, 1, k)
<1>1. W \in Seq(Byte) /\ Len(W) = r.size /\ r.size \in Nat
  BY WrittenFacts, ResponseFacts
<1>. HIDE DEF W
<1>2. k = r.size => b = W
  BY <1>1, SubSeqFull
<1>3. 1 \in Int /\ k \in Int /\ \A j \in 1 .. k : W[j] \in Byte
  BY <1>1
<1>4. b \in Seq(Byte) /\ Len(b) = (IF 1 <= k THEN k - 1 + 1 ELSE 0)
  BY <1>3, SubSeqProperties
<1>. HIDE DEF b
<1>5. Len(b) = k
  BY <1>3, <1>4, <1>1
<1>6. SubSeq(b, 1, Len(b)) = b
  BY <1>4, SubSeqFull
<1>7. Len(b) <= Len(W) /\ SubSeq(b, 1, Len(b)) = SubSeq(W, 1, Len(b))
  BY <1>1, <1>5, <1>6 DEF b
<1>. QED BY <1>2, <1>7 DEF IsPrefix, W, b

(* What has been read of a chunked body is a prefix of it, and all of it    *)
(* once the last chunk is read.                                             *)
LEMMA ChunkedBodies ==
  ASSUME NEW r \in Responses, r.framing = "chunked", NEW R \in 0 .. Len(Stream(r))
  PROVE  /\ \A i \in DataIdx(r, R) :
              /\ BodyBefore(r, i) + (Reach(r, R, i) - DataAt(r, i)) \in 0 .. r.size
              /\ i = M(r) + 1 => BodyBefore(r, i) + (Reach(r, R, i) - DataAt(r, i)) = r.size
         /\ \A i \in BehindIdx(r, R) :
              /\ BehindBody(r, i) \in 0 .. r.size /\ BehindAt(r, i) \in 0 .. R
              /\ i = M(r) + 1 => BehindBody(r, i) = r.size
<1>0. Len(Stream(r)) \in Nat /\ r.size \in Nat /\ M(r) \in Nat /\ H(r) \in Nat
  BY StreamFacts, ResponseCuts, LineKinds DEF M
<1>1. ASSUME NEW i \in DataIdx(r, R)
      PROVE  /\ BodyBefore(r, i) + (Reach(r, R, i) - DataAt(r, i)) \in 0 .. r.size
             /\ i = M(r) + 1 => BodyBefore(r, i) + (Reach(r, R, i) - DataAt(r, i)) = r.size
  <2>1. /\ i \in 1 .. M(r) + 1 /\ DataAt(r, i) <= R /\ Reach(r, R, i) \in 0 .. R
        /\ DataAt(r, i) <= Reach(r, R, i) /\ Reach(r, R, i) <= DataEnd(r, i)
    BY ReachFacts
  <2>2. /\ BodyBefore(r, i) \in Nat /\ BodyUpTo(r, i) \in Nat /\ BodyUpTo(r, i) <= r.size
        /\ DataAt(r, i) \in Nat /\ DataEnd(r, i) \in Nat
        /\ DataEnd(r, i) - DataAt(r, i) = BodyUpTo(r, i) - BodyBefore(r, i)
        /\ i = M(r) + 1 => BodyBefore(r, i) = r.size /\ DataAt(r, i) = DataEnd(r, i)
    BY <2>1, ChunkNumbers
  <2>3. PICK u, v, a, e, c \in Nat : /\ u = BodyBefore(r, i) /\ v = BodyUpTo(r, i) /\ a = DataAt(r, i)
                                    /\ e = DataEnd(r, i) /\ c = Reach(r, R, i)
    BY <1>0, <2>1, <2>2, SMTT(40)
  <2>4. v <= r.size /\ e - a = v - u /\ a <= c /\ c <= e
    BY <2>1, <2>2, <2>3
  <2>5. u + (c - a) \in 0 .. r.size /\ (u = r.size /\ a = e => u + (c - a) = r.size)
    <3>1. PICK z \in Nat : z = r.size
      BY <1>0
    <3>2. u + (c - a) \in 0 .. z /\ (u = z /\ a = e => u + (c - a) = z)
      BY <2>4, <3>1
    <3>. QED BY <3>1, <3>2
  <2>. QED BY <2>2, <2>3, <2>5
<1>2. ASSUME NEW i \in BehindIdx(r, R)
      PROVE  /\ BehindBody(r, i) \in 0 .. r.size /\ BehindAt(r, i) \in 0 .. R
             /\ i = M(r) + 1 => BehindBody(r, i) = r.size
  <2>1. i \in 0 .. M(r) + 1 /\ BehindAt(r, i) <= R
    BY DEF BehindIdx
  <2>2. CASE i = 0
    BY <1>0, <2>1, <2>2 DEF BehindBody, BehindAt
  <2>3. CASE i # 0
    <3>1. i \in 1 .. M(r) + 1
      BY <1>0, <2>1, <2>3
    <3>2. /\ BodyUpTo(r, i) \in Nat /\ BodyUpTo(r, i) <= r.size /\ DataEnd(r, i) \in Nat
          /\ i = M(r) + 1 => BodyUpTo(r, i) = r.size
      BY <3>1, ChunkNumbers
    <3>. QED BY <1>0, <2>1, <2>3, <3>2 DEF BehindBody, BehindAt
  <2>. QED BY <2>2, <2>3
<1>. QED BY <1>1, <1>2

(* A settled parser has not thrown, has a prefix of the body, and all of it *)
(* if it takes the response for complete.                                   *)
LEMMA SettledFields ==
  ASSUME NEW r \in Responses, NEW R \in 0 .. Len(Stream(r)), NEW x, Settled(x, r, R)
  PROVE  /\ IsParser(x) /\ x.threw = FALSE /\ IsBody(x.body, r)
         /\ x.complete => x.body = Written(r)
<1>0. Len(Stream(r)) \in Nat /\ r.size \in Nat /\ H(r) \in Nat /\ Written(r) \in Seq(Byte)
  BY StreamFacts, ResponseFacts, LineKinds, WrittenFacts
<1>1. CASE InHeader(x, r, R)
  <2>1. PICK k \in LinesIn(r, R) : IsAtLine(x, r, R, k)
    BY <1>1, AtLineFields DEF InHeader
  <2>2. SubSeq(Written(r), 1, 0) = <<>>
    BY <1>0, SubSeqEmpty
  <2>3. IsParser(x) /\ x.threw = FALSE /\ x.body = SubSeq(Written(r), 1, 0) /\ ~x.complete
    BY <2>1, <2>2, Zenon DEF IsAtLine
  <2>. QED BY <1>0, <2>3 DEF IsBody
<1>2. CASE H(r) <= R /\ r.framing # "chunked" /\ IsPlain(x, r, R)
  <2>1. /\ IsParser(x) /\ x.threw = FALSE /\ x.body = SubSeq(Written(r), 1, R - H(r))
        /\ x.complete = PlainDone(r, R)
    BY <1>2, Zenon DEF IsPlain, IsInBody
  <2>2. R - H(r) \in 0 .. r.size
    BY <1>0, <1>2, StreamFacts
  <2>3. PlainDone(r, R) => R - H(r) = r.size
    BY <1>0 DEF PlainDone
  <2>4. IsBody(x.body, r)
    BY <2>1, <2>2 DEF IsBody
  <2>5. PlainDone(r, R) => x.body = Written(r)
    <3>1. R - H(r) = r.size => SubSeq(Written(r), 1, R - H(r)) = Written(r)
      BY <2>2, BodyPrefix
    <3>. QED BY <2>1, <2>3, <3>1
  <2>. QED BY <2>1, <2>4, <2>5, Zenon
<1>3. CASE r.framing = "chunked" /\ Stuck(x, r, R)
  <2>1. ASSUME NEW c, NEW a, NEW k \in 0 .. r.size, NEW d, NEW i, NEW l,
               IsInBody(x, r, R, c, a, SubSeq(Written(r), 1, k), d, LastChunk(r, i), l),
               i = M(r) + 1 => k = r.size
        PROVE  /\ IsParser(x) /\ x.threw = FALSE /\ IsBody(x.body, r)
               /\ x.complete => x.body = Written(r)
    <3>1. /\ IsParser(x) /\ x.threw = FALSE /\ x.body = SubSeq(Written(r), 1, k)
          /\ x.complete = LastChunk(r, i)
      BY <2>1, Zenon DEF IsInBody
    <3>2. LastChunk(r, i) => x.body = Written(r)
      <4>1. k = r.size => SubSeq(Written(r), 1, k) = Written(r)
        BY <2>1, BodyPrefix
      <4>. QED BY <2>1, <3>1, <4>1 DEF LastChunk
    <3>3. IsBody(x.body, r)
      BY <3>1 DEF IsBody
    <3>. QED BY <3>1, <3>2, <3>3, Zenon
  <2>2. ASSUME NEW i \in DataIdx(r, R), x = InChunk(r, R, i)
        PROVE  \E c, a, d, j, l : \E k \in 0 .. r.size :
                 /\ IsInBody(x, r, R, c, a, SubSeq(Written(r), 1, k), d, LastChunk(r, j), l)
                 /\ j = M(r) + 1 => k = r.size
    <3>. DEFINE k == BodyBefore(r, i) + (Reach(r, R, i) - DataAt(r, i))
    <3>1. k \in 0 .. r.size /\ (i = M(r) + 1 => k = r.size)
      BY <1>3, ChunkedBodies
    <3>2. IsInBody(x, r, R, Reach(r, R, i), StartIn(r, i), SubSeq(Written(r), 1, k),
                   ChunksUpTo(r, i), LastChunk(r, i), DataEnd(r, i) - Reach(r, R, i))
      BY <2>2, InBodyFields DEF InChunk, DataState
    <3>. HIDE DEF k
    <3>. QED BY <3>1, <3>2
  <2>3. ASSUME NEW i \in BehindIdx(r, R), x = BehindState(r, R, i)
        PROVE  \E c, a, d, j, l : \E k \in 0 .. r.size :
                 /\ IsInBody(x, r, R, c, a, SubSeq(Written(r), 1, k), d, LastChunk(r, j), l)
                 /\ j = M(r) + 1 => k = r.size
    <3>. DEFINE k == BehindBody(r, i)
    <3>1. k \in 0 .. r.size /\ (i = M(r) + 1 => k = r.size)
      BY <1>3, ChunkedBodies
    <3>2. IsInBody(x, r, R, BehindAt(r, i), StartIn(r, i), SubSeq(Written(r), 1, k),
                   ChunksUpTo(r, i), LastChunk(r, i), 0)
      BY <2>3, InBodyFields DEF BehindState
    <3>. HIDE DEF k
    <3>. QED BY <3>1, <3>2
  <2>4. \/ \E i \in DataIdx(r, R) : x = InChunk(r, R, i)
        \/ \E i \in BehindIdx(r, R) : x = BehindState(r, R, i)
    BY <1>3 DEF Stuck, StuckInChunk, StuckBehind
  <2>5. \E c, a, d, j, l : \E k \in 0 .. r.size :
                 /\ IsInBody(x, r, R, c, a, SubSeq(Written(r), 1, k), d, LastChunk(r, j), l)
                 /\ j = M(r) + 1 => k = r.size
    BY <2>2, <2>3, <2>4, Zenon
  <2>. QED BY <2>1, <2>5, Zenon
<1>. QED BY <1>1, <1>2, <1>3 DEF Settled

(* The parser settled after the whole response is that one. *)
LEMMA SettledFull ==
  ASSUME NEW r \in Responses, NEW x, Settled(x, r, Len(Stream(r)))
  PROVE  x = Full(r)
<1>. DEFINE L == Len(Stream(r))
<1>0. /\ L \in Nat /\ r.size \in Nat /\ H(r) \in Nat /\ r.framing \in Framings
      /\ M(r) \in Nat /\ Len(HeaderOf(r)) = H(r)
      /\ L = H(r) + (IF r.framing = "chunked" THEN r.size + 5 * M(r) + 5 ELSE r.size)
  BY StreamFacts, ResponseFacts, LineKinds, ResponseCuts, HeaderBytes DEF M
<1>1. H(r) <= L
  BY <1>0
<1>2. CASE r.framing # "chunked"
  <2>1. IsPlain(x, r, L)
    BY <1>0, <1>1, <1>2 DEF Settled, InHeader
  <2>2. /\ L - H(r) = r.size /\ PlainLeft(r, L) = FullLeft(r) /\ FullChunks(r) = None
        /\ PlainStart(r) = FullStart(r)
    BY <1>0, <1>2 DEF PlainLeft, FullLeft, FullChunks, PlainStart, FullStart, NoBody, BodyStart, Framings
  <2>3. PlainDone(r, L) = (r.framing # "close")
    <3>1. L = H(r) + r.size
      BY <1>0, <1>2
    <3>2. PlainDone(r, L) <=> r.framing # "close"
      BY <1>0, <1>2, <3>1 DEF PlainDone, Framings
    <3>3. PlainDone(r, L) \in BOOLEAN
      BY DEF PlainDone
    <3>. QED BY <3>2, <3>3, Zenon
  <2>4. SubSeq(Written(r), 1, r.size) = Written(r)
    BY <1>0, WrittenFacts, SubSeqFull
  <2>5. IsInBody(x, r, L, L, FullStart(r), Written(r), FullChunks(r), r.framing # "close", FullLeft(r))
    BY <2>1, <2>2, <2>3, <2>4, Zenon DEF IsPlain
  <2>. QED BY <2>5, InBodyFields DEF Full
<1>3. CASE r.framing = "chunked"
  <2>1. Stuck(x, r, L)
    BY <1>0, <1>1, <1>3 DEF Settled, InHeader
  <2>2. ASSUME NEW i \in DataIdx(r, L), StuckInChunk(x, r, L, i) PROVE FALSE
    <3>1. i \in 1 .. M(r) + 1
      BY DEF DataIdx
    <3>2. DataEnd(r, i) + 2 <= L /\ DataEnd(r, i) \in Nat
      BY <1>3, <3>1, ChunkNumbers
    <3>. QED BY <1>0, <2>2, <3>2 DEF StuckInChunk
  <2>3. PICK i \in BehindIdx(r, L) : StuckBehind(x, r, L, i)
    BY <2>1, <2>2 DEF Stuck
  <2>4. i \in 0 .. M(r) + 1
    BY DEF BehindIdx
  <2>5. i = M(r) + 1
    <3>1. SUFFICES ASSUME i <= M(r) PROVE FALSE
      BY <1>0, <2>4
    <3>2. i + 1 \in 1 .. M(r) + 1 /\ (i + 1) - 1 = i
      BY <1>0, <2>4, <3>1
    <3>3. /\ DataAt(r, i + 1) = BehindAt(r, i) + 3 /\ BehindAt(r, i) \in Nat
          /\ DataEnd(r, i + 1) + 2 <= L /\ DataAt(r, i + 1) <= DataEnd(r, i + 1)
          /\ DataEnd(r, i + 1) \in Nat
      BY <1>3, <3>2, ChunkNumbers
    <3>. QED BY <1>0, <2>3, <3>1, <3>3 DEF StuckBehind
  <2>6. /\ BehindAt(r, i) = L /\ BehindBody(r, i) = r.size /\ FullLeft(r) = 0
    <3>1. i \in 1 .. M(r) + 1 /\ i # 0
      BY <1>0, <2>5
    <3>2. BodyUpTo(r, i) = r.size /\ DataEnd(r, i) + 2 = L
      BY <1>3, <2>5, <3>1, ChunkNumbers
    <3>. QED BY <1>3, <3>1, <3>2 DEF BehindAt, BehindBody, FullLeft
  <2>7. StartIn(r, i) = FullStart(r)
    <3>1. r.size = 0 <=> M(r) = 0
      BY <1>0, <1>3, ResponseCuts DEF M
    <3>. QED BY <1>0, <1>3, <2>5, <3>1 DEF StartIn, FullStart, BodyStart
  <2>8. ChunksUpTo(r, i) = FullChunks(r)
    <3>1. (IF i <= M(r) THEN i ELSE M(r)) = Len(r.ends)
      BY <1>0, <2>5 DEF M
    <3>. QED BY <1>3, <3>1 DEF ChunksUpTo, FullChunks
  <2>9. LastChunk(r, i) = (r.framing # "close")
    <3>1. LastChunk(r, i) /\ r.framing # "close"
      BY <1>3, <2>5 DEF LastChunk
    <3>2. LastChunk(r, i) \in BOOLEAN
      BY DEF LastChunk
    <3>. QED BY <3>1, <3>2, Zenon
  <2>10. SubSeq(Written(r), 1, r.size) = Written(r)
    BY <1>0, WrittenFacts, SubSeqFull
  <2>11. x = BehindState(r, L, i)
    BY <2>3 DEF StuckBehind
  <2>. QED BY <2>6, <2>7, <2>8, <2>9, <2>10, <2>11 DEF BehindState, Full
<1>. QED BY <1>2, <1>3

-----------------------------------------------------------------------------
(* streamEnded, after all of the response or a part of it. *)

(* Assigning one field of the parser changes this one only. *)
LEMMA SetFields ==
  ASSUME NEW x, NEW f \in Fields, NEW v, IsParser(x)
  PROVE  /\ IsParser([x EXCEPT ![f] = v]) /\ [x EXCEPT ![f] = v][f] = v
         /\ \A g \in Fields \ {f} : [x EXCEPT ![f] = v][g] = x[g]
<1>. DEFINE y == [x EXCEPT ![f] = v]
<1>1. y = [g \in Fields |-> IF g = f THEN v ELSE x[g]]
  BY DEF IsParser
<1>. HIDE DEF y, Fields
<1>2. DOMAIN y = Fields /\ y[f] = v /\ \A g \in Fields \ {f} : y[g] = x[g]
  BY <1>1
<1>3. y = [g \in Fields |-> y[g]]
  BY <1>1
<1>. QED BY <1>2, <1>3 DEF IsParser, y

(* streamEnded keeps the body, and does not throw only if the headers are   *)
(* complete and nothing is left to read.                                    *)
LEMMA EndedFields ==
  ASSUME NEW x, IsParser(x), x.threw = FALSE
  PROVE  /\ streamEnded(x).body = x.body
         /\ ~streamEnded(x).threw =>
              /\ x.headersComplete /\ x.remaining = <<>> /\ ~(x.remainingBodyBytes > 0)
              /\ streamEnded(x) = [x EXCEPT !.complete = TRUE]
<1>. DEFINE t == [x EXCEPT !.threw = TRUE]
            c == [x EXCEPT !.complete = TRUE]
<1>1. t.threw = TRUE /\ t.body = x.body
  BY SetFields DEF Fields
<1>2. c.threw = FALSE /\ c.body = x.body
  BY SetFields DEF Fields
<1>. HIDE DEF t, c
<1>3. streamEnded(x) = IF ~x.headersComplete \/ x.remaining # <<>> \/ x.remainingBodyBytes > 0
                       THEN t ELSE c
  BY DEF streamEnded, t, c
<1>. QED BY <1>1, <1>2, <1>3 DEF c

(* streamEnded accepts a part of a response only when its end cannot be     *)
(* told: a body that goes up to the close, or a part that ends between two  *)
(* chunks.                                                                  *)
LEMMA AcceptedEarly ==
  ASSUME NEW r \in Responses, NEW R \in 0 .. Len(Stream(r)), R # Len(Stream(r)),
         NEW x, Settled(x, r, R), ~streamEnded(x).threw
  PROVE  \/ r.framing = "close"
         \/ r.framing = "chunked" /\ R \in BetweenChunks(r)
<1>. DEFINE L == Len(Stream(r))
<1>0. /\ L \in Nat /\ r.size \in Nat /\ H(r) \in Nat /\ r.framing \in Framings
      /\ M(r) \in Nat /\ Len(HeaderOf(r)) = H(r)
      /\ L = H(r) + (IF r.framing = "chunked" THEN r.size + 5 * M(r) + 5 ELSE r.size)
  BY StreamFacts, ResponseFacts, LineKinds, ResponseCuts, HeaderBytes DEF M
<1>. HIDE DEF L
<1>1. /\ x.headersComplete /\ x.remaining = <<>> /\ ~(x.remainingBodyBytes > 0)
  BY SettledFields, EndedFields
<1>2. ASSUME NEW c \in 0 .. R, x.remaining = Left(r, R, c)
      PROVE  c = R
  <2>1. Len(Left(r, R, c)) = R - c
    BY LeftFacts
  <2>. QED BY <1>0, <1>1, <1>2, <2>1 DEF L
<1>3. CASE InHeader(x, r, R)
  <2>1. PICK k \in LinesIn(r, R) : x = AtLine(r, R, k)
    BY <1>3 DEF InHeader
  <2>2. x.headersComplete = FALSE
    BY <2>1 DEF AtLine
  <2>. QED BY <1>1, <2>2
<1>4. CASE r.framing # "chunked" /\ IsPlain(x, r, R)
  <2>1. x.remainingBodyBytes = PlainLeft(r, R)
    BY <1>4 DEF IsPlain, IsInBody
  <2>2. CASE r.framing = "length"
    <3>1. PlainLeft(r, R) = L - R
      BY <1>0, <1>4, <2>2 DEF PlainLeft
    <3>2. L - R > 0
      BY <1>0 DEF L
    <3>. QED BY <1>1, <2>1, <3>1, <3>2
  <2>. QED BY <1>0, <1>4, <2>2 DEF Framings
<1>5. CASE r.framing = "chunked" /\ Stuck(x, r, R)
  <2>0. ASSUME NEW i \in 1 .. M(r)
        PROVE  ChunkAt(r, i).toIndex = DataEnd(r, i) /\ i \in DOMAIN r.ends
    <3>1. ChunkAt(r, i).toIndex = H(r) + 3 + BodyUpTo(r, i) + 5 * (i - 1)
      BY <1>0, <1>5 DEF ChunkAt, BodyStart
    <3>2. i \in 1 .. M(r) + 1
      BY <1>0
    <3>3. BodyBefore(r, i) \in Nat /\ BodyUpTo(r, i) \in Nat
      BY <1>5, <3>2, ChunkNumbers
    <3>4. PICK u, v, h \in Nat : u = BodyBefore(r, i) /\ v = BodyUpTo(r, i) /\ h = H(r)
      BY <1>0, <3>3
    <3>5. ((h + (u + 5 * (i - 1))) + 3) + v - u = h + 3 + v + 5 * (i - 1)
      BY <1>0
    <3>6. DataEnd(r, i) = ((h + (u + 5 * (i - 1))) + 3) + v - u
      BY <3>4 DEF DataEnd, DataAt, SizeAt, ChunksBefore
    <3>. QED BY <3>1, <3>4, <3>5, <3>6, ResponseCuts DEF M
  <2>1. ASSUME NEW i \in DataIdx(r, R), x = InChunk(r, R, i)
        PROVE  R \in BetweenChunks(r)
    <3>0. /\ i \in 1 .. M(r) + 1 /\ DataAt(r, i) <= R /\ Reach(r, R, i) \in 0 .. R
          /\ Reach(r, R, i) <= DataEnd(r, i)
      BY <1>5, ReachFacts
    <3>1. x.remaining = Left(r, R, Reach(r, R, i)) /\ x.remainingBodyBytes = DataEnd(r, i) - Reach(r, R, i)
      BY <2>1 DEF InChunk, DataState, InBody
    <3>2. Reach(r, R, i) = R
      BY <1>2, <3>0, <3>1
    <3>3. DataEnd(r, i) \in Nat /\ (i = M(r) + 1 => DataEnd(r, i) + 2 = L)
      BY <1>5, <3>0, ChunkNumbers DEF L
    <3>4. R = DataEnd(r, i)
      BY <1>0, <1>1, <3>0, <3>1, <3>2, <3>3 DEF L
    <3>5. CASE i = M(r) + 1
      <4>1. R = L - 2
        BY <1>0, <3>3, <3>4, <3>5
      <4>. QED BY <4>1 DEF BetweenChunks, L
    <3>6. CASE i # M(r) + 1
      <4>1. i \in 1 .. M(r)
        BY <1>0, <3>0, <3>6
      <4>2. R = ChunkAt(r, i).toIndex + 0 /\ i \in DOMAIN r.ends
        BY <2>0, <3>3, <3>4, <4>1
      <4>. QED BY <4>2 DEF BetweenChunks
    <3>. QED BY <3>5, <3>6
  <2>2. ASSUME NEW i \in BehindIdx(r, R), x = BehindState(r, R, i)
        PROVE  R \in BetweenChunks(r)
    <3>0. i \in 0 .. M(r) + 1 /\ BehindAt(r, i) \in 0 .. R
      BY <1>5, ChunkedBodies DEF BehindIdx
    <3>1. x.remaining = Left(r, R, BehindAt(r, i))
      BY <2>2 DEF BehindState, InBody
    <3>2. BehindAt(r, i) = R
      BY <1>2, <3>0, <3>1
    <3>3. CASE i = 0
      <4>1. R = Len(HeaderOf(r))
        BY <1>0, <3>2, <3>3 DEF BehindAt
      <4>. QED BY <4>1 DEF BetweenChunks
    <3>4. CASE i = M(r) + 1
      <4>1. i # 0 /\ i \in 1 .. M(r) + 1
        BY <1>0, <3>0, <3>4
      <4>2. DataEnd(r, i) + 2 = Len(Stream(r))
        BY <1>5, <3>4, <4>1, ChunkNumbers
      <4>. QED BY <3>2, <4>1, <4>2 DEF BehindAt
    <3>5. CASE i # 0 /\ i # M(r) + 1
      <4>1. i \in 1 .. M(r)
        BY <1>0, <3>0, <3>5
      <4>2. R = ChunkAt(r, i).toIndex + 2 /\ i \in DOMAIN r.ends
        BY <2>0, <3>2, <3>5, <4>1 DEF BehindAt
      <4>. QED BY <4>2 DEF BetweenChunks
    <3>. QED BY <3>3, <3>4, <3>5
  <2>3. \/ \E i \in DataIdx(r, R) : x = InChunk(r, R, i)
        \/ \E i \in BehindIdx(r, R) : x = BehindState(r, R, i)
    BY <1>5 DEF Stuck, StuckInChunk, StuckBehind
  <2>. QED BY <1>5, <2>1, <2>2, <2>3
<1>. QED BY <1>3, <1>4, <1>5 DEF Settled

(* streamEnded accepts a whole response, and its result is what was sent. *)
LEMMA FullEnded ==
  ASSUME NEW r \in Responses, NEW x, x = Full(r)
  PROVE  LET e == streamEnded(x)
         IN  /\ e = [x EXCEPT !.complete = TRUE] /\ e = [e EXCEPT !.complete = TRUE]
             /\ ~e.threw /\ e.body = Written(r) /\ e.bodyStartIndex = FullStart(r)
             /\ e.chunks = FullChunks(r)
<1>. DEFINE L == Len(Stream(r))
            e == [x EXCEPT !.complete = TRUE]
<1>0. L \in Nat /\ L \in 0 .. L
  BY StreamFacts
<1>1. IsInBody(x, r, L, L, FullStart(r), Written(r), FullChunks(r), r.framing # "close", FullLeft(r))
  BY InBodyFields DEF Full
<1>2. /\ IsParser(x) /\ x.headersComplete = TRUE /\ x.remaining = Left(r, L, L)
      /\ x.remainingBodyBytes = FullLeft(r) /\ x.threw = FALSE /\ x.body = Written(r)
      /\ x.bodyStartIndex = FullStart(r) /\ x.chunks = FullChunks(r)
  BY <1>1, Zenon DEF IsInBody
<1>3. x.remaining = <<>> /\ ~(x.remainingBodyBytes > 0)
  <2>1. Left(r, L, L) = <<>>
    <3>1. L < L + 1 /\ L + 1 \in Int /\ L \in Int
      BY <1>0
    <3>. QED BY <3>1, SubSeqEmpty DEF Left
  <2>2. ~(FullLeft(r) > 0)
    BY DEF FullLeft
  <2>. QED BY <1>2, <2>1, <2>2
<1>4. streamEnded(x) = e
  BY <1>2, <1>3 DEF streamEnded
<1>5. /\ IsParser(e) /\ e.complete = TRUE /\ \A g \in Fields \ {"complete"} : e[g] = x[g]
  <2>1. "complete" \in Fields
    BY DEF Fields
  <2>2. e = [g \in Fields |-> IF g = "complete" THEN TRUE ELSE x[g]]
    BY <1>2 DEF IsParser
  <2>. HIDE DEF e, Fields
  <2>. QED BY <2>1, <2>2 DEF IsParser
<1>. HIDE DEF e
<1>6. /\ e.threw = x.threw /\ e.body = x.body /\ e.bodyStartIndex = x.bodyStartIndex
      /\ e.chunks = x.chunks
  BY <1>5 DEF Fields
<1>7. e = [e EXCEPT !.complete = TRUE]
  BY <1>5, Zenon DEF IsParser
<1>. QED BY <1>2, <1>4, <1>6, <1>7 DEF e

-----------------------------------------------------------------------------
(* The inductive invariant of the parser, and the two theorems about it. *)

(* No more is received than the server writes. *)
LEMMA ReceivedInStream ==
  ASSUME response \in Responses, blocks \in Seq(0 .. Len(Stream(response)))
  PROVE  Received \in 0 .. Len(Stream(response)) /\ Len(Stream(response)) \in Nat
<1>1. Len(Stream(response)) \in Nat
  BY StreamFacts
<1>2. CASE blocks = <<>>
  BY <1>1, <1>2 DEF Received
<1>3. CASE blocks # <<>>
  <2>1. Len(blocks) \in 1 .. Len(blocks)
    BY <1>3
  <2>. QED BY <1>1, <1>3, <2>1 DEF Received
<1>. QED BY <1>2, <1>3

(* The invariant holds before the first record. *)
LEMMA ParserInit_Inv == Init => ParserInv
<1>1. SUFFICES ASSUME Init PROVE ParserInv
  OBVIOUS
<1>2. response \in Responses /\ blocks = <<>> /\ inc = NewParser /\ phase = "receiving" /\ ended = None
  BY <1>1 DEF Init, ParserInit
<1>3. blocks \in Seq(0 .. Len(Stream(response))) /\ Received = 0
  BY <1>2 DEF Received
<1>4. Settled(inc, response, Received)
  BY <1>2, <1>3, NewSettled
<1>. QED BY <1>2, <1>3, <1>4 DEF ParserInv, ReceivedInv, ReadInv

(* onMessage, which feeds a record to the incremental parser, preserves it. *)
LEMMA OnMessage_Inv ==
  ASSUME ParserInv, NEW n \in 0 .. Len(Stream(response)) - Received, OnMessage(n)
  PROVE  ParserInv'
<1>0. /\ response \in Responses /\ blocks \in Seq(0 .. Len(Stream(response)))
      /\ phase = "receiving" /\ ended = None /\ Settled(inc, response, Received)
  BY DEF ParserInv, ReceivedInv, OnMessage
<1>1. Received \in 0 .. Len(Stream(response)) /\ Len(Stream(response)) \in Nat
  BY <1>0, ReceivedInStream
<1>2. PICK R0 \in Nat : R0 = Received
  BY <1>1
<1>3. PICK R \in Nat : R = R0 + n
  BY <1>1, <1>2
<1>4. /\ blocks' = Append(blocks, R) /\ inc' = onChunk(inc, SubSeq(Stream(response), R0 + 1, R))
      /\ response' = response /\ phase' = "receiving" /\ ended' = None
  BY <1>0, <1>2, <1>3 DEF OnMessage
<1>5. R \in 0 .. Len(Stream(response)) /\ R0 \in 0 .. R
  BY <1>1, <1>2, <1>3
<1>6. blocks' \in Seq(0 .. Len(Stream(response))) /\ Received' = R
  <2>1. /\ blocks' \in Seq(0 .. Len(Stream(response))) /\ Len(blocks') = Len(blocks) + 1
        /\ blocks'[Len(blocks')] = R
    BY <1>0, <1>4, <1>5, AppendProperties
  <2>2. blocks' # <<>>
    BY <1>0, <2>1
  <2>. QED BY <2>1, <2>2 DEF Received
<1>7. Settled(onChunk(inc, SubSeq(Stream(response), R0 + 1, R)), response, R)
  BY <1>0, <1>2, <1>5, onChunkSettled
<1>8. Settled(inc', response', Received')
  BY <1>4, <1>6, <1>7
<1>9. Settled(inc, response, Received)'
  BY <1>8
<1>. QED BY <1>0, <1>4, <1>6, <1>9 DEF ParserInv, ReceivedInv, ReadInv

(* The end of the wait, by the timer or by the close, with                  *)
(* parseHttpResponse of all records, preserves it.                          *)
LEMMA Finish_Inv ==
  ASSUME ParserInv, NEW why, Finish(why),
         \/ why = "timer" /\ inc.complete /\ inc' = inc
         \/ why = "close" /\ inc' = streamEnded(inc)
  PROVE  ParserInv'
<1>0. /\ response \in Responses /\ blocks \in Seq(0 .. Len(Stream(response)))
      /\ phase = "receiving" /\ Settled(inc, response, Received)
  BY DEF ParserInv, ReceivedInv, Finish
<1>1. Received \in 0 .. Len(Stream(response)) /\ Len(Stream(response)) \in Nat
  BY <1>0, ReceivedInStream
<1>2. /\ response' = response /\ blocks' = blocks /\ phase' = "parsed" /\ ended' = why
      /\ res' = parseHttpResponse(SubSeq(Stream(response), 1, Received)) /\ Received' = Received
  BY DEF Finish, Total, Received
<1>3. PICK x : Settled(x, response, Received) /\ res' = streamEnded(x)
  BY <1>0, <1>1, <1>2, ParsedInOnePiece
<1>4. \E y : Settled(y, response', Received') /\ res' = streamEnded(y)
  BY <1>2, <1>3
<1>5. PICK z : z = inc /\ Settled(z, response', Received')
  BY <1>0, <1>2
<1>6. \/ ended' = "timer" /\ Settled(inc', response', Received') /\ inc'.complete
      \/ /\ ended' = "close"
         /\ \E y : Settled(y, response', Received') /\ inc' = streamEnded(y)
  BY <1>2, <1>5, Zenon
<1>7. ReadInv'
  <2>1. /\ \E x1 : Settled(x1, response', Received') /\ res' = streamEnded(x1)
        /\ \/ ended' = "timer" /\ Settled(inc', response', Received') /\ inc'.complete
           \/ /\ ended' = "close"
              /\ \E y : Settled(y, response', Received') /\ inc' = streamEnded(y)
    BY <1>4, <1>6
  <2>. QED BY <2>1 DEF ReadInv
<1>8. ReceivedInv'
  BY <1>0, <1>2 DEF ReceivedInv
<1>. QED BY <1>7, <1>8 DEF ParserInv

(* The steps behind the parser do not disturb it. *)
LEMMA Kept_Inv ==
  ASSUME ParserInv, UNCHANGED <<response, blocks, inc, ended, res>>,
         phase = "receiving" <=> phase' = "receiving"
  PROVE  ParserInv'
<1>1. Received' = Received
  BY DEF Received
<1>2. ReceivedInv' /\ ReadInv'
  BY <1>1 DEF ParserInv, ReceivedInv, ReadInv
<1>. QED BY <1>2 DEF ParserInv

(* Every step preserves the invariant of the parser. *)
LEMMA ParserNext_Inv == ParserInv /\ [Next]_vars => ParserInv'
<1>. SUFFICES ASSUME ParserInv, [Next]_vars PROVE ParserInv'
  OBVIOUS
<1>1. CASE ParserNext
  <2>1. CASE \E n \in 0 .. Len(Stream(response)) - Received : OnMessage(n)
    BY <2>1, OnMessage_Inv
  <2>2. CASE ResponseTimer
    BY <2>2, Finish_Inv DEF ResponseTimer
  <2>3. CASE OnClose
    BY <2>3, Finish_Inv DEF OnClose
  <2>. QED BY <1>1, <2>1, <2>2, <2>3 DEF ParserNext
<1>2. CASE \E ms : GetBlocksToReveal(ms) \/ PerformOprfFails(ms)
  <2>1. UNCHANGED <<response, blocks, inc, ended, res>> /\ phase = "parsed" /\ phase' # "receiving"
    BY <1>2 DEF GetBlocksToReveal, PerformOprfFails
  <2>. QED BY <2>1, Kept_Inv
<1>3. CASE GenerateProofs
  <2>1. UNCHANGED <<response, blocks, inc, ended, res>> /\ phase = "redacted" /\ phase' # "receiving"
    BY <1>3 DEF GenerateProofs
  <2>. QED BY <2>1, Kept_Inv
<1>4. CASE DecryptTranscript
  <2>1. UNCHANGED <<response, blocks, inc, ended, res>> /\ phase = "proved" /\ phase' # "receiving"
    BY <1>4 DEF DecryptTranscript
  <2>. QED BY <2>1, Kept_Inv
<1>5. CASE UNCHANGED vars
  <2>1. UNCHANGED <<response, blocks, inc, ended, res>> /\ phase' = phase
    BY <1>5 DEF vars, parserVars
  <2>. QED BY <2>1, Kept_Inv
<1>. QED BY <1>1, <1>2, <1>3, <1>4, <1>5 DEF Next, Receive

(* The invariant implies ParsedAsSent. *)
LEMMA ParserInv_Sent == ParserInv => ParsedAsSent
<1>. SUFFICES ASSUME ParserInv, phase # "receiving", Whole PROVE ParsedAsSent
  BY DEF ParsedAsSent
<1>1. PICK r \in Responses : r = response
  BY DEF ParserInv, ReceivedInv
<1>2. PICK x : Settled(x, r, Len(Stream(r))) /\ res = streamEnded(x)
  BY <1>1 DEF ParserInv, ReadInv, Whole
<1>3. x = Full(r)
  BY <1>2, SettledFull
<1>4. PICK y : Settled(y, r, Len(Stream(r))) /\ (inc = y \/ inc = streamEnded(y))
  BY <1>1 DEF ParserInv, ReadInv, Whole
<1>5. y = Full(r)
  BY <1>4, SettledFull
<1>6. PICK e : e = streamEnded(Full(r))
  OBVIOUS
<1>7. /\ e = [Full(r) EXCEPT !.complete = TRUE] /\ e = [e EXCEPT !.complete = TRUE]
      /\ ~e.threw /\ e.body = Written(r) /\ e.bodyStartIndex = FullStart(r)
      /\ e.chunks = FullChunks(r)
  BY <1>6, FullEnded
<1>8. res = e /\ [inc EXCEPT !.complete = TRUE] = e
  BY <1>2, <1>3, <1>4, <1>5, <1>6, <1>7
<1>9. r.framing = "chunked" => e.chunks = [i \in 1 .. Len(r.ends) |-> ChunkAt(r, i)]
  BY <1>7 DEF FullChunks
<1>. QED BY <1>1, <1>7, <1>8, <1>9 DEF ParsedAsSent, FullStart

(* The invariant implies EarlyEndSeen. *)
LEMMA ParserInv_Early == ParserInv => EarlyEndSeen
<1>. SUFFICES ASSUME ParserInv, ended # None PROVE EarlyEndSeen
  <2>1. ended = None => ended # "timer"
    BY NoneAssumption
  <2>. QED BY <2>1 DEF EarlyEndSeen
<1>0. phase # "receiving"
  BY DEF ParserInv, ReceivedInv
<1>1. PICK r \in Responses : r = response
  BY DEF ParserInv, ReceivedInv
<1>2. PICK R \in 0 .. Len(Stream(r)) : R = Received
  BY <1>1, ReceivedInStream DEF ParserInv, ReceivedInv
<1>3. PICK x : Settled(x, r, R) /\ res = streamEnded(x)
  BY <1>0, <1>1, <1>2 DEF ParserInv, ReadInv
<1>4. IsParser(x) /\ x.threw = FALSE /\ IsBody(x.body, r)
  BY <1>3, SettledFields
<1>5. res.body = x.body
  BY <1>3, <1>4, EndedFields
<1>6. IsPrefix(res.body, Written(r))
  <2>1. PICK k \in 0 .. r.size : x.body = SubSeq(Written(r), 1, k)
    BY <1>4 DEF IsBody
  <2>2. IsPrefix(SubSeq(Written(r), 1, k), Written(r))
    BY BodyPrefix
  <2>. QED BY <1>5, <2>1, <2>2
<1>7. ~Whole /\ ~res.threw => \/ r.framing = "close"
                              \/ r.framing = "chunked" /\ R \in BetweenChunks(r)
  BY <1>1, <1>2, <1>3, AcceptedEarly DEF Whole
<1>8. ended = "timer" => inc.body = Written(r)
  <2>1. ended = "timer" => Settled(inc, r, R) /\ inc.complete
    BY <1>0, <1>1, <1>2 DEF ParserInv, ReadInv
  <2>. QED BY <2>1, SettledFields
<1>. QED BY <1>1, <1>2, <1>6, <1>7, <1>8 DEF EarlyEndSeen

(* The invariant of the parser holds always. *)
LEMMA ParserInv_Always == Spec => []ParserInv
  BY ParserInit_Inv, ParserNext_Inv, PTL DEF Spec

(* Both parses of makeHttpResponseParser, the one record by record and the  *)
(* one of all records at once, read what the server wrote: for every        *)
(* response, of every length and framing, cut into records in any way, a    *)
(* response that arrived whole has the body, the start of the body and the  *)
(* chunks that were sent, and nothing is ever in the body that was not sent *)
(* there.                                                                   *)
THEOREM ParsedAsSent_Always == Spec => []ParsedAsSent
  BY ParserInv_Always, ParserInv_Sent, PTL

(* A response that ends early is noticed: parseHttpResponse throws unless   *)
(* the end cannot be told from a whole response, because the body goes up   *)
(* to the close or the data ends between two chunks.                        *)
THEOREM EarlyEndSeen_Always == Spec => []EarlyEndSeen
  BY ParserInv_Always, ParserInv_Early, PTL
=============================================================================
